-------------------------------- MODULE Rag ---------------------------------
(***************************************************************************)
(* The RAG service: documents are accepted at once and indexed behind the  *)
(* answer by one worker, which takes them from a queue in memory.  Bytes   *)
(* that were seen before are not indexed again: a document points at       *)
(* content, content counts its documents, and the last one to go takes the *)
(* content with it.                                                        *)
(*                                                                         *)
(* Uploads, status and deletes run on the event loop, the worker in a      *)
(* thread beside it; store._lock is held over one operation at a time, so  *)
(* an action is one locked operation.  What bytes a document turns out to  *)
(* have is decided when the worker reads them.  Text, vectors and limits   *)
(* are left out: content is there or not, and all of its chunks are in it  *)
(* or not.  Queries change nothing and are left out.                       *)
(***************************************************************************)
EXTENDS Naturals, Sequences, FiniteSets

CONSTANTS
  Docs,        \* document IDs, never reused
  Hashes,      \* content hashes
  None,
  MaxFaults,   \* BOUND: statements that fail in the database
  MaxRestarts  \* BOUND: restarts of the service

ASSUME RagAssumption ==
  /\ IsFiniteSet(Docs) /\ None \notin Docs \cup Hashes
  /\ MaxFaults \in Nat /\ MaxRestarts \in Nat

VARIABLES
  status,      \* documents.status; "none" and "gone": there is no row
  points,      \* documents.content_hash
  content,     \* contents, with their chunks
  queue,       \* QUEUE
  worker,      \* what _ingest is doing, for which document and which content
  faults, restarts,
  lost,        \* HISTORY: documents forgotten by a restart or a dead worker
  spoiled,     \* HISTORY: contents with a known hole, see Delete and Index
  leaked       \* HISTORY: contents counted for nobody, see Attach and Restart

store   == <<status, points, content>>
service == <<queue, worker>>
vars    == <<store, service, faults, restarts, lost, spoiled, leaked>>

Contents == [there : BOOLEAN, refs : Nat, whole : BOOLEAN]
Absent   == [there |-> FALSE, refs |-> 0, whole |-> FALSE]
Partial  == [there |-> TRUE, refs |-> 0, whole |-> FALSE]
Whole    == [there |-> TRUE, refs |-> 0, whole |-> TRUE]

Workers == [at : {"idle", "read", "index", "attach", "fail", "dead"},
            doc : Docs \cup {None}, hash : Hashes \cup {None}]
Idle == [at |-> "idle", doc |-> None, hash |-> None]

Rows      == {d \in Docs : status[d] \in {"pending", "ready", "failed"}}
Owners(h) == {d \in Rows : points[d] = h}

Init ==
  /\ status = [d \in Docs |-> "none"]
  /\ points = [d \in Docs |-> None]
  /\ content = [h \in Hashes |-> Absent]
  /\ queue = <<>> /\ worker = Idle
  /\ faults = 0 /\ restarts = 0
  /\ lost = {} /\ spoiled = {} /\ leaked = {}

-----------------------------------------------------------------------------
\* POST /documents: the row, the queue, 202.
Accept(d) ==
  /\ status[d] = "none"
  /\ status' = [status EXCEPT ![d] = "pending"]
  /\ queue' = Append(queue, d)
  /\ lost' = IF worker.at = "dead" THEN lost \cup {d} ELSE lost
  /\ UNCHANGED <<points, content, worker, faults, restarts, spoiled, leaked>>

Take ==
  /\ worker.at = "idle" /\ queue # <<>>
  /\ worker' = [Idle EXCEPT !.at = "read", !.doc = Head(queue)]
  /\ queue' = Tail(queue)
  /\ UNCHANGED <<store, faults, restarts, lost, spoiled, leaked>>

\* The bytes are fetched or at hand; are they known already?
Read ==
  /\ worker.at = "read"
  /\ \/ \E h \in Hashes : worker' = [worker EXCEPT !.hash = h,
                            !.at = IF content[h].there THEN "attach" ELSE "index"]
     \/ worker' = [worker EXCEPT !.at = "fail"]
  /\ UNCHANGED <<store, queue, faults, restarts, lost, spoiled, leaked>>

\* INSERT OR IGNORE
StoreContent(c) ==
  IF content[worker.hash].there THEN content
                                ELSE [content EXCEPT ![worker.hash] = c]

\* Extraction, chunking and embedding, and store_content: the content and its
\* chunks, not yet referred to by anybody.  A chunk that cannot be written
\* leaves the ones before it, and the content, to be committed by whoever
\* commits next.
Index ==
  /\ worker.at = "index"
  /\ \/ /\ worker' = [worker EXCEPT !.at = "attach"]
        /\ content' = StoreContent(Whole)
        /\ UNCHANGED <<faults, spoiled>>
     \/ /\ worker' = [worker EXCEPT !.at = "fail"]
        /\ UNCHANGED <<content, faults, spoiled>>
     \/ /\ faults < MaxFaults /\ faults' = faults + 1
        /\ worker' = [worker EXCEPT !.at = "fail"]
        /\ content' = StoreContent(Partial)
        /\ spoiled' = spoiled \cup {worker.hash}
  /\ UNCHANGED <<status, points, queue, restarts, lost, leaked>>

\* Mutant: an upsert where the code updates.
AttachUpserts ==
  /\ worker.at = "attach"
  /\ status' = [status EXCEPT ![worker.doc] = "ready"]
  /\ points' = [points EXCEPT ![worker.doc] = worker.hash]
  /\ content' = [content EXCEPT ![worker.hash].refs =
                   IF content[worker.hash].there THEN @ + 1 ELSE @]
  /\ worker' = Idle
  /\ UNCHANGED <<queue, faults, restarts, lost, spoiled, leaked>>

\* Mutant: content that was there already is not counted again.
CountedOnce(h) == IF content[h].there /\ content[h].refs = 0 THEN 1 ELSE content[h].refs

\* refcount = refcount + 1, if there is such a row
OneMore(h) == IF content[h].there THEN content[h].refs + 1 ELSE content[h].refs

\* store.attach: two UPDATEs, each of which finds its row or does not.
Attach ==
  /\ worker.at = "attach"
  /\ IF worker.doc \in Rows
     THEN /\ status' = [status EXCEPT ![worker.doc] = "ready"]
          /\ points' = [points EXCEPT ![worker.doc] = worker.hash]
          /\ UNCHANGED leaked
     ELSE leaked' = leaked \cup {worker.hash} /\ UNCHANGED <<status, points>>
  /\ content' = [content EXCEPT ![worker.hash].refs = OneMore(worker.hash)]
  /\ worker' = Idle
  /\ UNCHANGED <<queue, faults, restarts, lost, spoiled>>

\* Mutant: the reason is logged and not stored.
OnlyLogs ==
  /\ worker.at = "fail"
  /\ worker' = Idle
  /\ UNCHANGED <<store, queue, faults, restarts, lost, spoiled, leaked>>

\* What is still in memory when the worker or the process goes.
Waiting == {queue[i] : i \in DOMAIN queue} \cup ({worker.doc} \cap Docs)

\* store.mark_failed.  If that fails too, the exception ends _worker: the
\* service goes on accepting documents that nobody takes.
MarkFailed ==
  /\ worker.at = "fail"
  /\ \/ /\ status' = IF worker.doc \in Rows
                     THEN [status EXCEPT ![worker.doc] = "failed"] ELSE status
        /\ worker' = Idle
        /\ UNCHANGED <<faults, lost>>
     \/ /\ faults < MaxFaults /\ faults' = faults + 1
        /\ worker' = [Idle EXCEPT !.at = "dead"]
        /\ lost' = lost \cup Waiting
        /\ UNCHANGED status
  /\ UNCHANGED <<points, content, queue, restarts, spoiled, leaked>>

\* Mutant: content goes with any of its documents.
AnyReference(d) == TRUE

\* Mutant: the count is compared before it is taken down.
NoReference(d) == content[points[d]].refs = 0

\* Mutant: the count is expected to be exact.
ExactlyLast(d) == content[points[d]].refs = 1

\* left["refcount"] <= 0
LastReference(d) == content[points[d]].refs <= 1

\* POST /documents/delete, for one of its ids.  Content that goes while the
\* worker is about to attach a document to it leaves that document ready and
\* empty.
Delete(d) ==
  /\ d \in Rows
  /\ status' = [status EXCEPT ![d] = "gone"]
  /\ points' = [points EXCEPT ![d] = None]
  /\ LET h == points[d] IN
     IF h # None /\ content[h].there
     THEN /\ content' = IF LastReference(d) THEN [content EXCEPT ![h] = Absent]
                         ELSE [content EXCEPT ![h].refs = content[h].refs - 1]
          /\ spoiled' = IF LastReference(d) /\ worker.at = "attach" /\ worker.hash = h
                        THEN spoiled \cup {h} ELSE spoiled
     ELSE UNCHANGED <<content, spoiled>>
  /\ UNCHANGED <<service, faults, restarts, lost, leaked>>

\* The process goes, queue and worker with it, and comes back.
Restart ==
  /\ restarts < MaxRestarts /\ restarts' = restarts + 1
  /\ lost' = lost \cup Waiting
  /\ leaked' = leaked \cup (IF worker.at = "attach" THEN {worker.hash} ELSE {})
  /\ queue' = <<>> /\ worker' = Idle
  /\ UNCHANGED <<store, faults, spoiled>>

-----------------------------------------------------------------------------
Ingest == Read \/ Index \/ Attach \/ MarkFailed

Next ==
  \/ \E d \in Docs : Accept(d) \/ Delete(d)
  \/ Take \/ Ingest \/ Restart

Spec == Init /\ [][Next]_vars

\* The worker goes on: fetching has a time limit and the rest is computation.
FairSpec == Spec /\ WF_vars(Take \/ Ingest)
-----------------------------------------------------------------------------
TypeOK ==
  /\ status \in [Docs -> {"none", "pending", "ready", "failed", "gone"}]
  /\ points \in [Docs -> Hashes \cup {None}]
  /\ content \in [Hashes -> Contents]
  /\ queue \in Seq(Docs)
  /\ worker \in Workers
  /\ worker.at \in {"read", "index", "attach", "fail"} => worker.doc \in Docs
  /\ worker.at \in {"index", "attach"} => worker.hash \in Hashes
  /\ faults \in 0 .. MaxFaults /\ restarts \in 0 .. MaxRestarts
  /\ lost \subseteq Docs /\ spoiled \subseteq Hashes /\ leaked \subseteq Hashes

\* A ready document has its content, with all of its chunks, however many
\* others were accepted and deleted: "one client deleting cannot destroy
\* another's".  (The reference count.)
ReadyHasContent ==
  \A d \in Docs : status[d] = "ready" /\ points[d] \notin spoiled
                    => content[points[d]].there /\ content[points[d]].whole

\* Content is counted at least once for each document that points at it.
Counted ==
  \A h \in Hashes \ spoiled :
    content[h].there => content[h].refs >= Cardinality(Owners(h))

\* The last document to go takes its content with it, unless a document was
\* deleted, or the service stopped, while it was being indexed: content may
\* only be left behind then.  (The other side of the reference count.)
NothingLeft ==
  \A h \in Hashes \ (leaked \cup spoiled) :
    content[h].there => Owners(h) # {} \/ (worker.at = "attach" /\ worker.hash = h)

\* An accepted document ends ready, failed or deleted, whatever its bytes are
\* and whatever is deleted meanwhile, unless it was forgotten.  (The worker,
\* and mark_failed on every failure path of _ingest.)
Resolved ==
  \A d \in Docs : status[d] = "pending" ~> status[d] # "pending" \/ d \in lost

P == INSTANCE RagPromise

\* The service keeps its promise, restarts and failing statements included.
KeepsPromise == P!Promise
=============================================================================
