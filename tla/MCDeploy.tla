------------------------------ MODULE MCDeploy ------------------------------
(* Instances of Deploy for TLC. *)
EXTENDS Deploy, TLC

Symmetry == Permutations(Refreshes) \cup Permutations(Updates)
=============================================================================
