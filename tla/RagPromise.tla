----------------------------- MODULE RagPromise -----------------------------
(***************************************************************************)
(* What the RAG service promises the holder of a document ID: accepted, a  *)
(* document is pending until it is ready or failed, it does not change its *)
(* mind afterwards, and once deleted the ID means nothing ever again.      *)
(***************************************************************************)
CONSTANT Docs

VARIABLE status   \* what /documents/status says of an ID; "unknown" is "none" or "gone"

PromiseInit == status = [d \in Docs |-> "none"]

Become(d, from, to) == status[d] \in from /\ status' = [status EXCEPT ![d] = to]

PromiseNext == \E d \in Docs :
  \/ Become(d, {"none"}, "pending")
  \/ Become(d, {"pending"}, "ready")
  \/ Become(d, {"pending"}, "failed")
  \/ Become(d, {"pending", "ready", "failed"}, "gone")

Promise == PromiseInit /\ [][PromiseNext]_status
=============================================================================
