----------------------------- MODULE RagProofs ------------------------------
(***************************************************************************)
(* The reference counts of Rag are right for any number of documents and   *)
(* contents, and the service keeps its promise.                            *)
(***************************************************************************)
EXTENDS Rag, FiniteSetTheorems, TLAPS

\* Every document is in one hand: nowhere, once in the queue, or with the
\* worker, and there it is pending or already deleted.
OneHand ==
  /\ \A i \in 1 .. Len(queue) : status[queue[i]] \in {"pending", "gone"}
  /\ \A i, j \in 1 .. Len(queue) : queue[i] = queue[j] => i = j
  /\ worker.doc \in Docs =>
       /\ status[worker.doc] \in {"pending", "gone"}
       /\ \A i \in 1 .. Len(queue) : queue[i] # worker.doc

\* Only ready documents point at content.
OnlyReadyPoint == \A d \in Docs : points[d] # None => status[d] = "ready"

\* Content without a known hole is whole, and still there when the worker is
\* about to attach a document to it.
Sound ==
  /\ \A h \in Hashes \ spoiled : content[h].there => content[h].whole
  /\ worker.at = "attach" /\ worker.hash \notin spoiled => content[worker.hash].there

\* The count is exact where nobody was counted in vain.
Exact ==
  \A h \in Hashes \ (leaked \cup spoiled) :
    content[h].there => content[h].refs = Cardinality(Owners(h))

ReadyPoints == \A d \in Docs : status[d] = "ready" => points[d] \in Hashes

Kept == Sound /\ ReadyPoints /\ ReadyHasContent /\ Counted /\ Exact /\ NothingLeft

IInv == TypeOK /\ OneHand /\ OnlyReadyPoint /\ Kept

-----------------------------------------------------------------------------
\* Documents that point at content can be counted.
LEMMA OwnersFinite ==
  ASSUME NEW h
  PROVE  IsFiniteSet(Owners(h)) /\ Cardinality(Owners(h)) \in Nat
BY RagAssumption, FS_Subset, FS_CardinalityType DEF Owners, Rows

\* An empty database satisfies the invariant.
LEMMA InitInv == Init => IInv
<1> SUFFICES ASSUME Init PROVE IInv
    OBVIOUS
<1> USE RagAssumption
<1>1. TypeOK
      BY DEF Init, TypeOK, Absent, Contents, Idle, Workers
<1>2. OneHand /\ OnlyReadyPoint /\ Sound
      BY DEF Init, OneHand, OnlyReadyPoint, Sound, Absent, Idle
<1>3. ReadyHasContent /\ Counted /\ Exact /\ NothingLeft
      BY DEF Init, ReadyHasContent, Counted, Exact, NothingLeft, Absent
<1>4. QED
      BY <1>1, <1>2, <1>3 DEF IInv, Kept, ReadyPoints, Init

-----------------------------------------------------------------------------
\* What INSERT and DELETE leave of content is content.
LEMMA AbsentOrOne == {Absent, Partial, Whole} \subseteq Contents
BY DEF Absent, Partial, Whole, Contents

\* So is what UPDATE ... SET refcount leaves.
LEMMA CountChanges ==
  ASSUME NEW f \in [Hashes -> Contents], NEW h \in Hashes, NEW n \in Nat
  PROVE  [f EXCEPT ![h].refs = n] \in [Hashes -> Contents]
BY DEF Contents

\* The worker goes on with its document.
LEMMA WorkerMoves ==
  ASSUME NEW w \in Workers, NEW h \in Hashes \cup {None},
         NEW at \in {"read", "index", "attach", "fail"}
  PROVE  /\ [w EXCEPT !.at = at] \in Workers
         /\ [w EXCEPT !.hash = h, !.at = at] \in Workers
BY DEF Workers

\* A step keeps every variable in its type.
LEMMA TypeStep == TypeOK /\ [Next]_vars => TypeOK'
<1> SUFFICES ASSUME TypeOK, [Next]_vars PROVE TypeOK'
    OBVIOUS
<1> USE RagAssumption DEF TypeOK
<1>1. ASSUME NEW d \in Docs, Accept(d) PROVE TypeOK'
      BY <1>1 DEF Accept
<1>2. ASSUME NEW d \in Docs, Delete(d) PROVE TypeOK'
  <2>1. status' \in [Docs -> {"none", "pending", "ready", "failed", "gone"}]
        /\ points' \in [Docs -> Hashes \cup {None}]
        BY <1>2 DEF Delete
  <2>2. content' \in [Hashes -> Contents]
    <3>1. CASE points[d] # None /\ content[points[d]].there
      <4>1. points[d] \in Hashes
            BY <3>1
      <4>2. CASE LastReference(d)
            BY <1>2, <3>1, <4>1, <4>2, AbsentOrOne DEF Delete
      <4>3. CASE ~LastReference(d)
        <5>1. content[points[d]] \in Contents
              BY <4>1
        <5>2. content[points[d]].refs - 1 \in Nat
              BY <4>3, <5>1 DEF LastReference, Contents
        <5>3. content' = [content EXCEPT ![points[d]].refs = content[points[d]].refs - 1]
              BY <1>2, <3>1, <4>3 DEF Delete
        <5>4. QED
              BY <4>1, <5>1, <5>2, <5>3, CountChanges
      <4>4. QED
            BY <4>2, <4>3
    <3>2. CASE ~(points[d] # None /\ content[points[d]].there)
          BY <1>2, <3>2 DEF Delete
    <3>3. QED
          BY <3>1, <3>2
  <2>3. spoiled' \subseteq Hashes
        BY <1>2 DEF Delete
  <2>4. QED
        BY <1>2, <2>1, <2>2, <2>3 DEF Delete, service
<1>3. CASE Take
  <2>1. Head(queue) \in Docs /\ Tail(queue) \in Seq(Docs)
        BY <1>3 DEF Take
  <2>2. worker' = [at |-> "read", doc |-> Head(queue), hash |-> None]
        BY <1>3 DEF Take, Idle
  <2>3. worker' \in Workers /\ worker'.doc \in Docs /\ worker'.at = "read"
        BY <2>1, <2>2 DEF Workers
  <2>4. queue' \in Seq(Docs)
        BY <1>3, <2>1 DEF Take
  <2>5. UNCHANGED <<store, faults, restarts, lost, spoiled, leaked>>
        BY <1>3 DEF Take
  <2>6. QED
        BY <2>3, <2>4, <2>5 DEF store
<1>4. CASE Read
  <2>1. worker.doc \in Docs
        BY <1>4 DEF Read
  <2>2. CASE worker' = [worker EXCEPT !.at = "fail"]
    <3>1. worker' \in Workers
          BY <2>2, WorkerMoves
    <3>2. worker'.at = "fail" /\ worker'.doc \in Docs
          BY <2>1, <2>2 DEF Workers
    <3>3. UNCHANGED <<status, points, content, queue, faults, restarts, lost, spoiled, leaked>>
          BY <1>4 DEF Read, store
    <3>4. QED
          BY <3>1, <3>2, <3>3
  <2>3. ASSUME NEW h \in Hashes, NEW at \in {"attach", "index"},
               worker' = [worker EXCEPT !.hash = h, !.at = at]
        PROVE  TypeOK'
    <3>1. worker' \in Workers
          BY <2>3, WorkerMoves
    <3>2. worker \in Workers
          OBVIOUS
    <3>3. worker'.doc = worker.doc /\ worker'.hash = h
          BY <2>3, <3>2 DEF Workers
    <3>4. UNCHANGED <<status, points, content, queue, faults, restarts, lost, spoiled, leaked>>
          BY <1>4 DEF Read, store
    <3>5. QED
          BY <2>1, <3>1, <3>3, <3>4
  <2>4. QED
        BY <1>4, <2>2, <2>3 DEF Read
<1>5. CASE Index
  <2>1. worker.hash \in Hashes /\ worker.doc \in Docs
        BY <1>5 DEF Index
  <2>2. content' \in [Hashes -> Contents]
        BY <1>5, <2>1, AbsentOrOne DEF Index, StoreContent
  <2>3. \E at \in {"attach", "fail"} : worker' = [worker EXCEPT !.at = at]
        BY <1>5 DEF Index
  <2>4. worker' \in Workers
        BY <2>3, WorkerMoves
  <2>5. worker'.doc \in Docs /\ worker'.hash \in Hashes
        BY <2>1, <2>3 DEF Workers
  <2>6. UNCHANGED <<status, points, queue, restarts, lost, leaked>>
        BY <1>5 DEF Index
  <2>7. faults' \in 0 .. MaxFaults /\ spoiled' \subseteq Hashes
        BY <1>5, <2>1 DEF Index
  <2>8. QED
        BY <2>2, <2>4, <2>5, <2>6, <2>7
<1>6. CASE Attach
  <2>1. worker.hash \in Hashes
        BY <1>6 DEF Attach
  <2>2. OneMore(worker.hash) \in Nat
        BY <2>1 DEF OneMore, Contents
  <2>3. content' \in [Hashes -> Contents]
        BY <1>6, <2>1, <2>2, CountChanges DEF Attach
  <2>4. QED
        BY <1>6, <2>1, <2>3 DEF Attach, Idle, Workers
<1>7. CASE MarkFailed
      BY <1>7 DEF MarkFailed, Idle, Waiting, Workers
<1>8. CASE Restart
      BY <1>8 DEF Restart, Idle, Waiting, store, Workers
<1>9. CASE UNCHANGED vars
      BY <1>9 DEF vars, store, service
<1>10. QED
      BY <1>1, <1>2, <1>3, <1>4, <1>5, <1>6, <1>7, <1>8, <1>9 DEF Next, Ingest

-----------------------------------------------------------------------------
\* A document's hand changes, never doubles.
LEMMA OneHandStep ==
  TypeOK /\ OneHand /\ OnlyReadyPoint /\ [Next]_vars => OneHand' /\ OnlyReadyPoint'
<1> SUFFICES ASSUME TypeOK, OneHand, OnlyReadyPoint, [Next]_vars
             PROVE  OneHand' /\ OnlyReadyPoint'
    OBVIOUS
<1> USE RagAssumption
<1>1. /\ queue \in Seq(Docs) /\ worker \in Workers
      /\ status \in [Docs -> {"none", "pending", "ready", "failed", "gone"}]
      /\ points \in [Docs -> Hashes \cup {None}]
      /\ \A i \in 1 .. Len(queue) : queue[i] \in Docs
      BY DEF TypeOK
<1>2. ASSUME NEW d \in Docs, Accept(d) PROVE OneHand' /\ OnlyReadyPoint'
  <2>1. /\ Len(queue') = Len(queue) + 1 /\ queue'[Len(queue) + 1] = d
        /\ \A i \in 1 .. Len(queue) : queue'[i] = queue[i]
        BY <1>1, <1>2 DEF Accept
  <2>2. \A i \in 1 .. Len(queue) : queue[i] # d
        BY <1>2 DEF Accept, OneHand
  <2>3. status' = [status EXCEPT ![d] = "pending"] /\ worker' = worker
        /\ points' = points /\ status[d] = "none"
        BY <1>2 DEF Accept
  <2>4. \A i \in 1 .. Len(queue') : i \in 1 .. Len(queue) \/ i = Len(queue) + 1
        BY <1>1, <2>1
  <2>5. OneHand'
        BY <1>1, <2>1, <2>2, <2>3, <2>4 DEF OneHand
  <2>6. OnlyReadyPoint'
        BY <1>1, <2>3 DEF OnlyReadyPoint
  <2>7. QED
        BY <2>5, <2>6
<1>3. ASSUME NEW d \in Docs, Delete(d) PROVE OneHand' /\ OnlyReadyPoint'
      BY <1>1, <1>3 DEF Delete, service, OneHand, OnlyReadyPoint
<1>4. CASE Take
  <2>1. /\ Len(queue') = Len(queue) - 1 /\ Len(queue) \in Nat \ {0}
        /\ \A i \in 1 .. Len(queue') : queue'[i] = queue[i + 1]
        /\ worker'.doc = queue[1]
        BY <1>1, <1>4 DEF Take, Idle
  <2>2. \A i \in 1 .. Len(queue') : i + 1 \in 1 .. Len(queue) /\ i + 1 # 1
        BY <2>1
  <2>3. UNCHANGED <<status, points>>
        BY <1>4 DEF Take, store
  <2>4. 1 \in 1 .. Len(queue)
        BY <2>1
  <2>5. \A i, j \in 1 .. Len(queue') : i + 1 = j + 1 => i = j
        BY <2>1
  <2>6. \A i \in 1 .. Len(queue') : status'[queue'[i]] \in {"pending", "gone"}
        BY <2>1, <2>2, <2>3 DEF OneHand
  <2>7. \A i, j \in 1 .. Len(queue') : queue'[i] = queue'[j] => i = j
        BY <2>1, <2>2, <2>5 DEF OneHand
  <2>8. \A i \in 1 .. Len(queue') : queue'[i] # worker'.doc
        BY <2>1, <2>2, <2>4 DEF OneHand
  <2>9. status'[worker'.doc] \in {"pending", "gone"}
        BY <2>1, <2>3, <2>4 DEF OneHand
  <2>10. OneHand'
        BY <2>6, <2>7, <2>8, <2>9 DEF OneHand
  <2>11. QED
        BY <2>3, <2>10 DEF OnlyReadyPoint
<1>5. CASE Read \/ Index
  <2>1. worker'.doc = worker.doc
        BY <1>1, <1>5 DEF Read, Index, Workers
  <2>2. UNCHANGED <<status, points, queue>>
        BY <1>5 DEF Read, Index, store
  <2>3. QED
        BY <2>1, <2>2 DEF OneHand, OnlyReadyPoint
<1>6. CASE Attach
  <2>1. worker'.doc \notin Docs /\ queue' = queue
        BY <1>6 DEF Attach, Idle
  <2>2. worker.doc \in Docs
        BY <1>6 DEF Attach, TypeOK
  <2>3. \A i \in 1 .. Len(queue) : status'[queue[i]] = status[queue[i]]
        BY <1>1, <1>6, <2>2 DEF Attach, OneHand
  <2>4. OnlyReadyPoint'
        BY <1>1, <1>6, <2>2 DEF Attach, OnlyReadyPoint
  <2>5. QED
        BY <2>1, <2>3, <2>4 DEF OneHand
<1>7. CASE MarkFailed
  <2>1. worker'.doc \notin Docs /\ queue' = queue /\ points' = points
        BY <1>7 DEF MarkFailed, Idle
  <2>2. worker.doc \in Docs
        BY <1>7 DEF MarkFailed, TypeOK
  <2>3. \A i \in 1 .. Len(queue) : status'[queue[i]] = status[queue[i]]
        BY <1>1, <1>7, <2>2 DEF MarkFailed, OneHand
  <2>4. \A d \in Docs : status[d] = "ready" => status'[d] = "ready"
        BY <1>1, <1>7, <2>2 DEF MarkFailed, OneHand
  <2>5. QED
        BY <2>1, <2>3, <2>4 DEF OneHand, OnlyReadyPoint
<1>8. CASE Restart
      BY <1>8 DEF Restart, Idle, store, OneHand, OnlyReadyPoint
<1>9. CASE UNCHANGED vars
      BY <1>9 DEF vars, store, service, OneHand, OnlyReadyPoint
<1>10. QED
      BY <1>2, <1>3, <1>4, <1>5, <1>6, <1>7, <1>8, <1>9 DEF Next, Ingest

-----------------------------------------------------------------------------
\* A step that touches no content and gives no document away.
LEMMA QuietStep ==
  ASSUME IInv, UNCHANGED content, spoiled \subseteq spoiled', leaked \subseteq leaked',
         \A h \in Hashes : Owners(h)' = Owners(h),
         \A d \in Docs : status'[d] = "ready" => status[d] = "ready" /\ points'[d] = points[d],
         worker'.at = "attach" =>
           /\ worker'.hash \in Hashes /\ content[worker'.hash].there,
         worker.at = "attach" =>
           worker' = worker \/ worker.hash \in leaked'
  PROVE  Kept'
<1> USE DEF IInv, Kept
<1>1. Sound' /\ ReadyPoints'
      BY DEF Sound, ReadyPoints
<1>2. ReadyHasContent'
      BY DEF ReadyHasContent
<1>3. Counted' /\ Exact'
      BY DEF Counted, Exact
<1>4. NothingLeft'
  <2> SUFFICES ASSUME NEW h \in Hashes, h \notin leaked', h \notin spoiled', content[h].there
               PROVE  Owners(h) # {} \/ (worker'.at = "attach" /\ worker'.hash = h)
      BY DEF NothingLeft
  <2>1. Owners(h) # {} \/ (worker.at = "attach" /\ worker.hash = h)
        BY DEF NothingLeft
  <2>2. QED
        BY <2>1
<1>5. QED
      BY <1>1, <1>2, <1>3, <1>4

\* The worker's document gets its content and is counted.
LEMMA AttachStep ==
  ASSUME IInv, Attach, NEW d \in Docs, NEW g \in Hashes,
         d = worker.doc, g = worker.hash
  PROVE  Kept'
<1> USE RagAssumption DEF IInv, Kept
<1>1. /\ content[g] \in Contents
      /\ status \in [Docs -> {"none", "pending", "ready", "failed", "gone"}]
      /\ points \in [Docs -> Hashes \cup {None}]
      /\ content \in [Hashes -> Contents]
      /\ status[d] \in {"pending", "gone"}
      /\ worker.at = "attach" /\ worker'.at = "idle" /\ UNCHANGED spoiled
      BY DEF Attach, TypeOK, OneHand, Idle
<1>2. \A h \in Hashes : h # g => content'[h] = content[h]
      BY <1>1 DEF Attach
<1>3. g \notin spoiled => /\ content[g].there /\ content'[g].there
                         /\ content'[g].whole /\ content[g].whole
                         /\ content'[g].refs = content[g].refs + 1
  <2>1. g \notin spoiled => content[g].there /\ content[g].whole
        BY <1>1 DEF Sound
  <2>2. content'[g] = [content[g] EXCEPT !.refs = OneMore(g)]
        BY <1>1 DEF Attach
  <2>3. QED
        BY <1>1, <2>1, <2>2 DEF OneMore, Contents
<1>4. points[d] = None
      BY <1>1 DEF OnlyReadyPoint
<1>5. CASE d \in Rows
  <2>1. /\ status' = [status EXCEPT ![d] = "ready"] /\ leaked' = leaked
        /\ points' = [points EXCEPT ![d] = g]
        BY <1>5 DEF Attach
  <2>2. Rows' = Rows
        BY <1>1, <1>5, <2>1 DEF Rows
  <2>3. Owners(g)' = Owners(g) \cup {d} /\ d \notin Owners(g)
        BY <1>1, <1>4, <1>5, <2>1, <2>2 DEF Owners, Rows
  <2>4. \A h \in Hashes : h # g => Owners(h)' = Owners(h)
        BY <1>1, <1>4, <2>1, <2>2 DEF Owners, Rows
  <2>5. /\ Cardinality(Owners(g)') = Cardinality(Owners(g)) + 1
        /\ Cardinality(Owners(g)) \in Nat
        BY <2>3, OwnersFinite, FS_AddElement
  <2>6. Sound' /\ ReadyPoints'
        BY <1>1, <1>2, <1>3, <2>1 DEF Sound, ReadyPoints
  <2>7. ReadyHasContent'
        BY <1>1, <1>2, <1>3, <2>1 DEF ReadyHasContent, ReadyPoints
  <2>8. Counted'
    <3> SUFFICES ASSUME NEW h \in Hashes, h \notin spoiled, content'[h].there
                 PROVE  content'[h].refs >= Cardinality(Owners(h)')
        BY <1>1 DEF Counted
    <3>1. CASE h = g
          BY <1>1, <1>3, <2>5, <3>1 DEF Counted, Contents
    <3>2. CASE h # g
          BY <1>2, <2>4, <3>2 DEF Counted
    <3>3. QED
          BY <3>1, <3>2
  <2>9. Exact'
    <3> SUFFICES ASSUME NEW h \in Hashes, h \notin spoiled, h \notin leaked, content'[h].there
                 PROVE  content'[h].refs = Cardinality(Owners(h)')
        BY <1>1, <2>1 DEF Exact
    <3>1. CASE h = g
          BY <1>1, <1>3, <2>5, <3>1 DEF Exact
    <3>2. CASE h # g
          BY <1>2, <2>4, <3>2 DEF Exact
    <3>3. QED
          BY <3>1, <3>2
  <2>10. NothingLeft'
    <3> SUFFICES ASSUME NEW h \in Hashes, h \notin spoiled, h \notin leaked, content'[h].there
                 PROVE  Owners(h)' # {}
        BY <1>1, <2>1 DEF NothingLeft
    <3>1. QED
          BY <1>1, <1>2, <2>3, <2>4 DEF NothingLeft
  <2>11. QED
        BY <2>6, <2>7, <2>8, <2>9, <2>10
<1>6. CASE d \notin Rows
  <2>1. UNCHANGED <<status, points>> /\ leaked' = leaked \cup {g}
        BY <1>6 DEF Attach
  <2>2. \A h \in Hashes : Owners(h)' = Owners(h)
        BY <2>1 DEF Owners, Rows
  <2>3. Sound' /\ ReadyPoints'
        BY <1>1, <1>2, <1>3, <2>1 DEF Sound, ReadyPoints
  <2>4. ReadyHasContent'
        BY <1>1, <1>2, <1>3, <2>1 DEF ReadyHasContent, ReadyPoints
  <2>5. Counted'
    <3> SUFFICES ASSUME NEW h \in Hashes, h \notin spoiled, content'[h].there
                 PROVE  content'[h].refs >= Cardinality(Owners(h))
        BY <1>1, <2>2 DEF Counted
    <3>1. CASE h = g
      <4>1. content[g].refs >= Cardinality(Owners(g))
            BY <1>1, <1>3, <3>1 DEF Counted
      <4>2. Cardinality(Owners(g)) \in Nat /\ content[g].refs \in Nat
            BY <1>1, OwnersFinite DEF Contents
      <4>3. QED
            BY <1>3, <3>1, <4>1, <4>2
    <3>2. CASE h # g
          BY <1>2, <3>2 DEF Counted
    <3>3. QED
          BY <3>1, <3>2
  <2>6. Exact' /\ NothingLeft'
        BY <1>1, <1>2, <2>1, <2>2 DEF Exact, NothingLeft
  <2>7. QED
        BY <2>3, <2>4, <2>5, <2>6
<1>7. QED
      BY <1>5, <1>6

\* New content comes with the worker that will attach its document; what a
\* failed store_content leaves is known to have a hole.
LEMMA IndexStep ==
  ASSUME IInv, Index, NEW g \in Hashes, g = worker.hash
  PROVE  Kept'
<1> USE RagAssumption DEF IInv, Kept
<1>1. /\ content \in [Hashes -> Contents] /\ worker \in Workers
      /\ UNCHANGED <<status, points, leaked>> /\ worker.at = "index"
      /\ points \in [Docs -> Hashes \cup {None}]
      BY DEF Index, TypeOK
<1>2. \A h \in Hashes : Owners(h)' = Owners(h)
      BY <1>1 DEF Owners, Rows
<1>3. \A h \in Hashes : h # g => content'[h] = content[h]
      BY <1>1 DEF Index, StoreContent
<1>4. content[g].there => content' = content
      BY DEF Index, StoreContent
<1>5. g \notin spoiled /\ ~content[g].there => Owners(g) = {}
      BY <1>1 DEF Owners, Rows, OnlyReadyPoint, ReadyHasContent
<1>6. g \notin spoiled /\ ~content[g].there => Cardinality(Owners(g)) = 0
      BY <1>5, FS_EmptySet
<1>7. /\ spoiled \subseteq spoiled'
      /\ ~content[g].there /\ g \notin spoiled' =>
           content'[g] = content[g] \/ (content'[g] = Whole /\ worker'.at = "attach")
      /\ worker'.at = "attach" => content'[g].there /\ worker'.hash = g
  <2>1. CASE content' = StoreContent(Whole) /\ worker' = [worker EXCEPT !.at = "attach"]
        BY <1>1, <2>1 DEF Index, StoreContent, Whole, Workers
  <2>2. CASE content' = content /\ worker' = [worker EXCEPT !.at = "fail"]
        BY <1>1, <2>2 DEF Index, Workers
  <2>3. CASE spoiled' = spoiled \cup {g} /\ worker' = [worker EXCEPT !.at = "fail"]
        BY <1>1, <2>3 DEF Workers
  <2>4. QED
        BY <1>1, <2>1, <2>2, <2>3 DEF Index
<1>8. Sound'
  <2>1. \A h \in Hashes \ spoiled' : content'[h].there => content'[h].whole
    <3> SUFFICES ASSUME NEW h \in Hashes, h \notin spoiled', content'[h].there
                 PROVE  content'[h].whole
        OBVIOUS
    <3>1. CASE h = g /\ ~content[g].there
          BY <1>7, <3>1 DEF Whole
    <3>2. CASE h # g \/ content[g].there
      <4>1. content'[h] = content[h] /\ h \notin spoiled
            BY <1>3, <1>4, <1>7, <3>2
      <4>2. QED
            BY <4>1 DEF Sound
    <3>3. QED
          BY <3>1, <3>2
  <2>2. QED
        BY <1>7, <2>1 DEF Sound
<1>9. ReadyPoints'
      BY <1>1 DEF ReadyPoints
<1>10. ReadyHasContent'
  <2> SUFFICES ASSUME NEW d \in Docs, status[d] = "ready", points[d] \notin spoiled'
               PROVE  content'[points[d]].there /\ content'[points[d]].whole
      BY <1>1 DEF ReadyHasContent
  <2>1. points[d] \in Hashes /\ content[points[d]].there /\ content[points[d]].whole
        BY <1>7 DEF ReadyPoints, ReadyHasContent
  <2>2. QED
        BY <1>3, <1>4, <2>1
<1>11. Counted' /\ Exact'
  <2> SUFFICES ASSUME NEW h \in Hashes, h \notin spoiled', content'[h].there
               PROVE  /\ content'[h].refs >= Cardinality(Owners(h))
                      /\ h \notin leaked => content'[h].refs = Cardinality(Owners(h))
      BY <1>1, <1>2 DEF Counted, Exact
  <2>1. CASE h = g /\ ~content[g].there
    <3>1. h \notin spoiled /\ content'[g].refs = 0
          BY <1>7, <2>1 DEF Whole
    <3>2. QED
          BY <1>6, <2>1, <3>1
  <2>2. CASE h # g \/ content[g].there
    <3>1. content'[h] = content[h] /\ h \notin spoiled
          BY <1>3, <1>4, <1>7, <2>2
    <3>2. QED
          BY <3>1 DEF Counted, Exact
  <2>3. QED
        BY <2>1, <2>2
<1>12. NothingLeft'
  <2> SUFFICES ASSUME NEW h \in Hashes, h \notin spoiled', h \notin leaked, content'[h].there
               PROVE  Owners(h) # {} \/ (worker'.at = "attach" /\ worker'.hash = h)
      BY <1>1, <1>2 DEF NothingLeft
  <2>1. CASE h = g /\ ~content[g].there
        BY <1>7, <2>1
  <2>2. CASE h # g \/ content[g].there
    <3>1. content'[h] = content[h] /\ h \notin spoiled
          BY <1>3, <1>4, <1>7, <2>2
    <3>2. QED
          BY <1>1, <3>1 DEF NothingLeft
  <2>3. QED
        BY <2>1, <2>2
<1>13. QED
      BY <1>8, <1>9, <1>10, <1>11, <1>12

\* A document goes, and its content with it if it was the last.
LEMMA DeleteStep ==
  ASSUME IInv, NEW d \in Docs, Delete(d), NEW g, g = points[d]
  PROVE  Kept'
<1> USE RagAssumption DEF IInv, Kept
<1>1. /\ content \in [Hashes -> Contents]
      /\ status \in [Docs -> {"none", "pending", "ready", "failed", "gone"}]
      /\ points \in [Docs -> Hashes \cup {None}]
      /\ status' = [status EXCEPT ![d] = "gone"] /\ points' = [points EXCEPT ![d] = None]
      /\ UNCHANGED <<worker, leaked>> /\ d \in Rows /\ spoiled \subseteq spoiled'
      BY DEF Delete, service, TypeOK
<1>2. \A h \in Hashes : h # g => Owners(h)' = Owners(h)
      BY <1>1 DEF Owners, Rows
<1>3. \A h \in Hashes : h # g => content'[h] = content[h]
      BY <1>1 DEF Delete
<1>4. ReadyPoints'
      BY <1>1 DEF ReadyPoints
<1>5. CASE g = None \/ ~content[g].there
  <2>1. UNCHANGED <<content, spoiled>>
        BY <1>5 DEF Delete
  <2>2. Sound'
        BY <1>1, <2>1 DEF Sound
  <2>3. ReadyHasContent'
        BY <1>1, <2>1 DEF ReadyHasContent
  <2>4. \A h \in Hashes : content[h].there => Owners(h)' = Owners(h)
        BY <1>2, <1>5
  <2>5. Counted' /\ Exact' /\ NothingLeft'
        BY <1>1, <2>1, <2>4 DEF Counted, Exact, NothingLeft
  <2>6. QED
        BY <1>4, <2>2, <2>3, <2>5
<1>6. CASE g # None /\ content[g].there
  <2>1. g \in Hashes /\ content[g] \in Contents
        BY <1>1, <1>6
  <2>2. Owners(g)' = Owners(g) \ {d} /\ d \in Owners(g)
        BY <1>1, <2>1 DEF Owners, Rows
  <2>3. /\ Cardinality(Owners(g)') = Cardinality(Owners(g)) - 1
        /\ Cardinality(Owners(g)) \in Nat /\ Cardinality(Owners(g)') \in Nat
    <3>1. IsFiniteSet(Owners(g)) /\ Cardinality(Owners(g)) \in Nat
          BY OwnersFinite
    <3>2. /\ IsFiniteSet(Owners(g) \ {d})
          /\ Cardinality(Owners(g) \ {d}) = Cardinality(Owners(g)) - 1
          BY <2>2, <3>1, FS_RemoveElement
    <3>3. Cardinality(Owners(g) \ {d}) \in Nat
          BY <3>2, FS_CardinalityType
    <3>4. QED
          BY <2>2, <3>1, <3>2, <3>3
  <2>4. content[g].refs \in Nat
        BY <2>1 DEF Contents
  <2>5. CASE LastReference(d)
    <3>1. content' = [content EXCEPT ![g] = Absent] /\ content[g].refs <= 1
          BY <1>6, <2>5 DEF Delete, LastReference
    <3>2. ~content'[g].there
          BY <1>1, <2>1, <3>1 DEF Absent
    <3>3. worker.at = "attach" /\ worker.hash = g => g \in spoiled'
          BY <1>6, <2>5 DEF Delete
    <3>4. Sound'
          BY <1>1, <1>3, <3>2, <3>3 DEF Sound, TypeOK
    <3>5. g \notin spoiled => Cardinality(Owners(g)') = 0
          BY <1>6, <2>1, <2>3, <2>4, <3>1 DEF Counted
    <3>6. g \notin spoiled => Owners(g)' = {}
          BY <2>2, <3>5, OwnersFinite, FS_RemoveElement, FS_EmptySet
    <3>7. ReadyHasContent'
      <4> SUFFICES ASSUME NEW e \in Docs, status'[e] = "ready", points'[e] \notin spoiled'
                   PROVE  content'[points'[e]].there /\ content'[points'[e]].whole
          BY DEF ReadyHasContent
      <4>1. e # d /\ points'[e] = points[e] /\ status[e] = "ready" /\ points[e] \in Hashes
            BY <1>1 DEF ReadyPoints
      <4>2. points[e] # g
        <5>1. CASE g \in spoiled
              BY <1>1, <4>1, <5>1
        <5>2. CASE g \notin spoiled
              BY <1>1, <3>6, <4>1, <5>2 DEF Owners, Rows
        <5>3. QED
              BY <5>1, <5>2
      <4>3. QED
            BY <1>1, <1>3, <4>1, <4>2 DEF ReadyHasContent
    <3>8. Counted' /\ Exact' /\ NothingLeft'
          BY <1>1, <1>2, <1>3, <3>2 DEF Counted, Exact, NothingLeft
    <3>9. QED
          BY <1>4, <3>4, <3>7, <3>8
  <2>6. CASE ~LastReference(d)
    <3>1. /\ content' = [content EXCEPT ![g].refs = content[g].refs - 1]
          /\ spoiled' = spoiled /\ content[g].refs > 1
          BY <1>6, <2>4, <2>6 DEF Delete, LastReference
    <3>2. /\ content'[g].there /\ content'[g].whole = content[g].whole
          /\ content'[g].refs = content[g].refs - 1
          BY <1>1, <1>6, <2>1, <3>1 DEF Contents
    <3>3. Sound'
          BY <1>1, <1>3, <1>6, <3>1, <3>2 DEF Sound, TypeOK
    <3>4. ReadyHasContent'
      <4> SUFFICES ASSUME NEW e \in Docs, status'[e] = "ready", points'[e] \notin spoiled
                   PROVE  content'[points'[e]].there /\ content'[points'[e]].whole
          BY <3>1 DEF ReadyHasContent
      <4>1. e # d /\ points'[e] = points[e] /\ status[e] = "ready" /\ points[e] \in Hashes
            BY <1>1 DEF ReadyPoints
      <4>2. content[points[e]].there /\ content[points[e]].whole
            BY <4>1 DEF ReadyHasContent
      <4>3. QED
            BY <1>3, <3>2, <4>1, <4>2
    <3>5. Counted' /\ Exact'
      <4> SUFFICES ASSUME NEW h \in Hashes, h \notin spoiled, content'[h].there
                   PROVE  /\ content'[h].refs >= Cardinality(Owners(h)')
                          /\ h \notin leaked => content'[h].refs = Cardinality(Owners(h)')
          BY <1>1, <3>1 DEF Counted, Exact
      <4>1. CASE h = g
        <5>1. content[g].refs >= Cardinality(Owners(g))
              BY <1>6, <2>1, <4>1 DEF Counted
        <5>2. g \notin leaked => content[g].refs = Cardinality(Owners(g))
              BY <1>6, <2>1, <4>1 DEF Exact
        <5>3. QED
              BY <2>3, <2>4, <3>2, <4>1, <5>1, <5>2
      <4>2. CASE h # g
            BY <1>2, <1>3, <4>2 DEF Counted, Exact
      <4>3. QED
            BY <4>1, <4>2
    <3>6. NothingLeft'
      <4> SUFFICES ASSUME NEW h \in Hashes, h \notin spoiled, h \notin leaked, content'[h].there
                   PROVE  Owners(h)' # {} \/ (worker.at = "attach" /\ worker.hash = h)
          BY <1>1, <3>1 DEF NothingLeft
      <4>1. CASE h = g
        <5>1. content[g].refs = Cardinality(Owners(g))
              BY <1>6, <2>1, <4>1 DEF Exact
        <5>2. Cardinality(Owners(g)') # 0
              BY <2>3, <2>4, <3>1, <5>1
        <5>3. QED
              BY <4>1, <5>2, FS_EmptySet
      <4>2. CASE h # g
            BY <1>2, <1>3, <4>2 DEF NothingLeft
      <4>3. QED
            BY <4>1, <4>2
    <3>7. QED
          BY <1>4, <3>3, <3>4, <3>5, <3>6
  <2>7. QED
        BY <2>5, <2>6
<1>7. QED
      BY <1>5, <1>6

-----------------------------------------------------------------------------
\* One step of any kind keeps the counts right.
LEMMA NextInv == IInv /\ [Next]_vars => IInv'
<1> SUFFICES ASSUME IInv, [Next]_vars PROVE Kept'
    BY TypeStep, OneHandStep DEF IInv
<1>1. /\ TypeOK /\ OneHand /\ OnlyReadyPoint
      /\ status \in [Docs -> {"none", "pending", "ready", "failed", "gone"}]
      /\ points \in [Docs -> Hashes \cup {None}]
      /\ worker \in Workers /\ None \notin Hashes
      BY RagAssumption DEF IInv, TypeOK
<1>2. ASSUME NEW d \in Docs, Accept(d) PROVE Kept'
  <2>1. /\ status[d] = "none" /\ status' = [status EXCEPT ![d] = "pending"]
        /\ UNCHANGED <<points, content, worker, spoiled, leaked>>
        BY <1>2 DEF Accept
  <2>2. points[d] = None
        BY <1>1, <2>1 DEF OnlyReadyPoint
  <2>3. \A h \in Hashes : Owners(h)' = Owners(h)
        BY <1>1, <2>1, <2>2 DEF Owners, Rows
  <2>4. worker.at = "attach" => worker.hash \in Hashes
        BY <1>1 DEF TypeOK
  <2>5. \A e \in Docs : status'[e] = "ready" => status[e] = "ready" /\ points'[e] = points[e]
        BY <1>1, <2>1
  <2>6. Sound' /\ ReadyPoints' /\ ReadyHasContent' /\ Counted' /\ Exact' /\ NothingLeft'
        BY <2>1, <2>3, <2>5 DEF IInv, Kept, Sound, ReadyPoints, ReadyHasContent, Counted,
                                Exact, NothingLeft
  <2>7. QED
        BY <2>6 DEF Kept
<1>3. ASSUME NEW d \in Docs, Delete(d) PROVE Kept'
      BY <1>3, DeleteStep
<1>4. CASE Take
  <2>1. /\ UNCHANGED <<status, points, content, spoiled, leaked>>
        /\ worker.at = "idle" /\ worker'.at = "read"
        BY <1>4 DEF Take, Idle, store
  <2>2. \A h \in Hashes : Owners(h)' = Owners(h)
        BY <2>1 DEF Owners, Rows
  <2>3. QED
        BY <2>1, <2>2, QuietStep
<1>5. CASE Read
  <2>1. /\ UNCHANGED <<status, points, content, spoiled, leaked>> /\ worker.at = "read"
        BY <1>5 DEF Read, store
  <2>2. \A h \in Hashes : Owners(h)' = Owners(h)
        BY <2>1 DEF Owners, Rows
  <2>3. worker'.at = "attach" => worker'.hash \in Hashes /\ content[worker'.hash].there
        BY <1>1, <1>5 DEF Read, Workers
  <2>4. QED
        BY <2>1, <2>2, <2>3, QuietStep
<1>6. CASE Index
      BY <1>1, <1>6, IndexStep DEF TypeOK, Index
<1>7. CASE Attach
      BY <1>1, <1>7, AttachStep DEF TypeOK, Attach
<1>8. CASE MarkFailed
  <2>1. /\ UNCHANGED <<points, content, spoiled, leaked>>
        /\ worker.at = "fail" /\ worker'.at # "attach"
        /\ worker.doc \in Docs
        /\ \/ status' = status
           \/ worker.doc \in Rows /\ status' = [status EXCEPT ![worker.doc] = "failed"]
        BY <1>1, <1>8 DEF MarkFailed, Idle, TypeOK
  <2>2. \A h \in Hashes : Owners(h)' = Owners(h)
        BY <1>1, <2>1 DEF Owners, Rows
  <2>3. QED
        BY <1>1, <2>1, <2>2, QuietStep
<1>9. CASE Restart
  <2>1. /\ UNCHANGED <<status, points, content, spoiled>> /\ worker'.at = "idle"
        /\ leaked' = leaked \cup (IF worker.at = "attach" THEN {worker.hash} ELSE {})
        BY <1>9 DEF Restart, Idle, store
  <2>2. \A h \in Hashes : Owners(h)' = Owners(h)
        BY <2>1 DEF Owners, Rows
  <2>3. QED
        BY <2>1, <2>2, QuietStep
<1>10. CASE UNCHANGED vars
  <2>1. UNCHANGED <<status, points, content, worker, spoiled, leaked>>
        BY <1>10 DEF vars, store, service
  <2>2. QED
        BY <2>1 DEF IInv, Kept, Sound, ReadyPoints, ReadyHasContent, Counted, Exact,
                    NothingLeft, Owners, Rows
<1>11. QED
      BY <1>2, <1>3, <1>4, <1>5, <1>6, <1>7, <1>8, <1>9, <1>10 DEF Next, Ingest

\* The counts are right in every reachable state.
LEMMA AlwaysIInv == Spec => []IInv
BY InitInv, NextInv, PTL DEF Spec

\* Every variable keeps to its type, and the worker names the document and the
\* content it works on, for any number of documents, contents, failing
\* statements and restarts.
THEOREM RagTypes == Spec => []TypeOK
BY AlwaysIInv, PTL DEF IInv

\* A ready document has its content, whole, for any number of documents that
\* share it, come and go: one client's delete never takes another's content.
\* The exception is named by spoiled.  (store.attach, store.delete.)
THEOREM SharedContentStays == Spec => []ReadyHasContent
BY AlwaysIInv, PTL DEF IInv, Kept

\* Content is never counted for fewer documents than point at it.
\* (refcount in store.attach and store.delete.)
THEOREM CountSuffices == Spec => []Counted
BY AlwaysIInv, PTL DEF IInv, Kept

\* Content without a document goes, unless a document was deleted, or the
\* service stopped, on its way to it: leaked names the only ways to leave some.
THEOREM LastTakesContent == Spec => []NothingLeft
BY AlwaysIInv, PTL DEF IInv, Kept

\* The service implements its promise: a document is pending until it is ready
\* or failed, then stays so until it is deleted, for good.  An attach or a
\* mark_failed that comes late finds no row: the worker holds a document that
\* is pending or gone (OneHand), and nothing else.
THEOREM PromiseKept == Spec => KeepsPromise
<1>1. Init => P!PromiseInit
      BY DEF Init, P!PromiseInit
<1>2. IInv /\ [Next]_vars => [P!PromiseNext]_status
  <2> SUFFICES ASSUME IInv, [Next]_vars, status' # status PROVE P!PromiseNext
      OBVIOUS
  <2>1. /\ status \in [Docs -> {"none", "pending", "ready", "failed", "gone"}]
        /\ worker.at \in {"attach", "fail"} =>
             worker.doc \in Docs /\ status[worker.doc] \in {"pending", "gone"}
        BY DEF IInv, TypeOK, OneHand
  <2>2. ASSUME NEW d \in Docs, Accept(d) PROVE P!PromiseNext
        BY <2>2 DEF Accept, P!PromiseNext, P!Become
  <2>3. ASSUME NEW d \in Docs, Delete(d) PROVE P!PromiseNext
        BY <2>1, <2>3 DEF Delete, Rows, P!PromiseNext, P!Become
  <2>4. CASE Attach
    <3>1. /\ worker.doc \in Docs /\ status[worker.doc] = "pending"
          /\ status' = [status EXCEPT ![worker.doc] = "ready"]
          BY <2>1, <2>4 DEF Attach, Rows
    <3>2. QED
          BY <3>1 DEF P!PromiseNext, P!Become
  <2>5. CASE MarkFailed
    <3>1. /\ worker.doc \in Docs /\ status[worker.doc] = "pending"
          /\ status' = [status EXCEPT ![worker.doc] = "failed"]
          BY <2>1, <2>5 DEF MarkFailed, Rows
    <3>2. QED
          BY <3>1 DEF P!PromiseNext, P!Become
  <2>6. CASE Take \/ Read \/ Index \/ Restart \/ UNCHANGED vars
        BY <2>6 DEF Take, Read, Index, Restart, vars, store
  <2>7. QED
        BY <2>2, <2>3, <2>4, <2>5, <2>6 DEF Next, Ingest
<1>3. QED
      BY <1>1, <1>2, AlwaysIInv, PTL DEF Spec, KeepsPromise, P!Promise
=============================================================================
