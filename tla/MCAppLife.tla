----------------------------- MODULE MCAppLife -----------------------------
(* AppLife with interchangeable requests. *)
EXTENDS AppLife, TLC

\* A request is known only by what it was asked.
Interchangeable == Permutations(Handlers)
=============================================================================
