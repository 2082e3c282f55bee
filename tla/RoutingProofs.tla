---------------------------- MODULE RoutingProofs ----------------------------
(***************************************************************************)
(* For any number of handlers, confirmations and faults: the types, and    *)
(* that a backend never says more than the static host's container already *)
(* carries, as long as nobody gives a front up and Coolify only ever drops *)
(* deploys (FrontedForGood).                                               *)
(*                                                                         *)
(* Typed has what a handler may be doing where it is: only the holder of   *)
(* ROUTING_LOCK is in a sync, and a bundle's handler labels backends under *)
(* it.  Fronts adds why the order holds: every job of the static host that *)
(* there ever is brings the router (WebFirst), and a handler is only past  *)
(* its sync with the router there (Courses).                               *)
(***************************************************************************)
EXTENDS Routing, TLAPS

\* Where a handler may be; inside ROUTING_LOCK before the backends; in
\* apply_backend_labels.
PCs == {"idle", "sync", "look", "label", "ask", "verify", "scope",
        "apply", "write", "recycle", "reread", "column", "settle",
        "stop", "fetch", "check", "sleeping", "done"}
InSync   == {"look", "label", "ask", "verify", "scope"}
Applying == {"apply", "write", "recycle"}

\* A handler's local variables, and an app's row.
LocalRecords ==
  [kind : Kinds \cup {"loop", "none"}, held : BOOLEAN, fronted : BOOLEAN,
   sleeps : BOOLEAN, enrolled : BOOLEAN, want : SUBSET AppLabels]
Rows == [front : BOOLEAN, sleeps : BOOLEAN, enrolled : BOOLEAN]

\* Coolify and docker.
OutsideTyped ==
  /\ stored \in [Apps -> Blocks] /\ carried \in [Apps -> Blocks] /\ live \in [Apps -> Blocks]
  /\ stored["app"] \subseteq AppLabels /\ carried["app"] \subseteq AppLabels
  /\ live["app"] \subseteq AppLabels
  /\ job \in [Apps -> {"none", "queued", "running", "closing"}]
  /\ gone \in BOOLEAN /\ asleep \in BOOLEAN /\ fresh \subseteq Apps

\* The handlers and who holds the two locks.
HandlersTyped ==
  /\ pc \in [Procs -> PCs] /\ my \in [Procs -> LocalRecords]
  /\ routing \in Procs \cup {Free} /\ busy \in Procs \cup {Free}

\* What a handler is doing fits who it is and what it holds.
Fits(p) ==
  /\ (my[p].kind = "loop") <=> (p = "loop")
  /\ my[p].kind = "none" => pc[p] \in {"idle", "done"}
  /\ pc[p] \in InSync => routing = p
  /\ pc[p] \in Applying /\ my[p].kind \in {"publish", "clear"} => routing = p
  /\ pc[p] = "reread" => my[p].kind \in {"on", "off"}

\* The invariant behind the types.
Typed ==
  /\ row \in Rows /\ OutsideTyped /\ HandlersTyped
  /\ asks \in [SUBSET AppLabels -> 0 .. LabelAttempts] /\ left \in 0 .. MaxFaults
  /\ \A p \in Procs : Fits(p)
-----------------------------------------------------------------------------
\* No handler is taken for the loop, or for nobody.
LEMMA NotFree == Free \notin Procs /\ "loop" \notin Handlers /\ Handlers \subseteq Procs
                 /\ \A p \in Procs : p = "loop" \/ p \in Handlers
  BY RoutingAssumption DEF Procs, Free

\* A handler begins, and ends, with no local variables.
LEMMA NoneYet ==
  ASSUME NEW p \in Procs
  PROVE  /\ NoLocals(p) \in LocalRecords /\ NoLocals(p).want = {}
         /\ NoLocals(p).kind = (IF p = "loop" THEN "loop" ELSE "none")
         /\ \A k \in Kinds : Locals(k) \in LocalRecords /\ Locals(k).kind = k
  BY DEF NoLocals, Locals, LocalRecords, Kinds

\* One handler takes a step: where it goes has to fit it, and the others still fit.
LEMMA Goes ==
  ASSUME Typed, NEW p \in Procs, NEW there \in PCs, NEW mine \in LocalRecords,
         pc' = [pc EXCEPT ![p] = there], my' = [my EXCEPT ![p] = mine],
         routing' \in Procs \cup {Free}, busy' \in Procs \cup {Free},
         routing' = routing \/ routing = p \/ routing = Free,
         (mine.kind = "loop") <=> (p = "loop"),
         mine.kind = "none" => there \in {"idle", "done"},
         there \in InSync => routing' = p,
         there \in Applying /\ mine.kind \in {"publish", "clear"} => routing' = p,
         there = "reread" => mine.kind \in {"on", "off"}
  PROVE  HandlersTyped' /\ \A q \in Procs : Fits(q)'
  <1>1. pc \in [Procs -> PCs] /\ my \in [Procs -> LocalRecords]
    BY DEF Typed, HandlersTyped
  <1>2. /\ pc' \in [Procs -> PCs] /\ my' \in [Procs -> LocalRecords]
        /\ pc'[p] = there /\ my'[p] = mine
        /\ \A q \in Procs \ {p} : pc'[q] = pc[q] /\ my'[q] = my[q]
    BY <1>1
  <1>3. HandlersTyped' BY <1>2 DEF HandlersTyped
  <1>4. Fits(p)' BY <1>2 DEF Fits
  <1>5. ASSUME NEW q \in Procs \ {p} PROVE Fits(q)'
    <2>1. Fits(q) BY DEF Typed
    <2>2. routing = q => routing' = q BY NotFree
    <2> QED BY <1>2, <2>1, <2>2 DEF Fits
  <1> QED BY <1>3, <1>4, <1>5

\* Leaving a sync or an apply.
LEMMA LeaveTyped ==
  ASSUME Typed, NEW p \in Procs, NEW there \in PCs \ InSync, Leave(p, there),
         there \in Applying => my[p].kind \notin {"publish", "clear"},
         there = "reread" => my[p].kind \in {"on", "off"},
         my[p].kind # "none", there = "sleeping" => p = "loop",
         routing' \in Procs \cup {Free}, routing' = routing \/ routing = p \/ routing = Free
  PROVE  HandlersTyped' /\ \A q \in Procs : Fits(q)'
  <1> DEFINE mine == IF there \in {"done", "sleeping"} THEN NoLocals(p) ELSE my[p]
  <1>1. pc' = [pc EXCEPT ![p] = there] /\ my' = [my EXCEPT ![p] = mine]
    BY DEF Leave, Typed, HandlersTyped
  <1>2. mine \in LocalRecords /\ Fits(p) BY NoneYet DEF Typed, HandlersTyped
  <1>3. /\ (mine.kind = "loop") <=> (p = "loop")
        /\ mine.kind = "none" => there \in {"idle", "done"}
        /\ there \in Applying => mine.kind \notin {"publish", "clear"}
        /\ there = "reread" => mine.kind \in {"on", "off"}
    BY <1>2, NoneYet DEF Fits, Applying
  <1>4. busy' \in Procs \cup {Free} BY DEF Leave, Typed, HandlersTyped
  <1> HIDE DEF mine
  <1> QED BY <1>1, <1>2, <1>3, <1>4, Goes

\* A sync returns, or raises, to whoever called it.
LEMMA SyncEnds ==
  ASSUME Typed, NEW p \in Procs, NEW ok \in BOOLEAN, EndSync(p, ok),
         my[p].kind # "none", routing = p
  PROVE  HandlersTyped' /\ \A q \in Procs : Fits(q)'
  <1> DEFINE there == AfterSync(p, ok)
  <1>1. Leave(p, there) /\ routing' = Free BY DEF EndSync
  <1>2. my[p].kind \in Kinds \cup {"loop"} BY DEF Typed, HandlersTyped, LocalRecords
  <1>3. /\ there \in {"fetch", "done", "apply", "stop", "reread"}
        /\ there = "apply" => my[p].kind = "deploy"
        /\ there = "reread" => my[p].kind \in {"on", "off"}
    BY <1>2 DEF AfterSync, Kinds
  <1> HIDE DEF there
  <1>4. there \in PCs \ InSync /\ (there \in Applying => my[p].kind \notin {"publish", "clear"})
    BY <1>3 DEF PCs, InSync, Applying
  <1> QED BY <1>1, <1>3, <1>4, LeaveTyped

\* apply_backend_labels does, back into the sync if it was called from there.
LEMMA ApplyEnds ==
  ASSUME Typed, NEW p \in Procs, NEW ok \in BOOLEAN, EndApply(p, ok),
         my[p].kind # "none", pc[p] \in Applying
  PROVE  HandlersTyped' /\ \A q \in Procs : Fits(q)'
  <1>1. CASE routing = p BY <1>1, SyncEnds DEF EndApply
  <1>2. CASE routing # p
    <2> DEFINE there == AfterApply(p, ok)
    <2>1. Leave(p, there) /\ routing' = routing BY <1>2 DEF EndApply
    <2>2. my[p].kind \in {"on", "off", "deploy", "loop"} /\ Fits(p)
      BY <1>2 DEF Typed, HandlersTyped, LocalRecords, Fits, Kinds
    <2>3. /\ there \in {"column", "sleeping", "stop", "done"}
          /\ there = "sleeping" => p = "loop"
      BY <2>2 DEF AfterApply, Fits
    <2> HIDE DEF there
    <2>4. there \in PCs \ InSync /\ there \notin Applying /\ routing' \in Procs \cup {Free}
      BY <2>1, <2>3 DEF PCs, InSync, Applying, Typed, HandlersTyped
    <2> QED BY <2>1, <2>2, <2>3, <2>4, LeaveTyped
  <1> QED BY <1>1, <1>2

\* The routers are done: on to the backends, or back to the caller.
LEMMA BackendsTyped ==
  ASSUME Typed, NEW p \in Procs, ToBackends(p), my[p].kind # "none", routing = p
  PROVE  HandlersTyped' /\ \A q \in Procs : Fits(q)'
  <1>1. CASE Scopes(p)
    <2>1. /\ pc' = [pc EXCEPT ![p] = "scope"] /\ my' = [my EXCEPT ![p] = my[p]]
          /\ routing' = routing /\ busy' = busy
      BY <1>1 DEF ToBackends, Typed, HandlersTyped
    <2>2. my[p] \in LocalRecords /\ Fits(p) /\ "scope" \in PCs /\ "scope" \notin Applying
          /\ routing \in Procs \cup {Free} /\ busy \in Procs \cup {Free}
      BY DEF Typed, HandlersTyped, PCs, Applying
    <2> QED BY <2>1, <2>2, Goes DEF Fits
  <1>2. CASE ~Scopes(p) BY <1>2, SyncEnds DEF ToBackends
  <1> QED BY <1>1, <1>2

\* A step outside the handlers.
LEMMA StaysTyped ==
  ASSUME Typed, UNCHANGED procs
  PROVE  HandlersTyped' /\ \A q \in Procs : Fits(q)'
  BY DEF procs, Typed, HandlersTyped, Fits

\* A deploy is queued or dropped.
LEMMA DeployTyped ==
  ASSUME Typed, NEW a \in Apps, Deploy(a)
  PROVE  job' \in [Apps -> {"none", "queued", "running", "closing"}]
  BY DEF Deploy, Typed, OutsideTyped

\* A deployment job starts, replaces the container or ends.
LEMMA JobsTyped ==
  ASSUME Typed, NEW a \in Apps, Job(a) PROVE Typed'
  <1>1. HandlersTyped' /\ \A q \in Procs : Fits(q)'
    BY StaysTyped DEF Job, JobStarts, JobReplaces, JobEnds
  <1>2. row' = row /\ asks' = asks BY DEF Job, JobStarts, JobReplaces, JobEnds
  <1>3. left' \in 0 .. MaxFaults
    BY RoutingAssumption DEF Job, JobStarts, JobReplaces, JobEnds, Spend, Typed
  <1>4. OutsideTyped'
    <2> USE DEF Typed, OutsideTyped, Apps, Blocks
    <2>1. CASE JobStarts(a) BY <2>1 DEF JobStarts
    <2>2. CASE JobReplaces(a) BY <2>2 DEF JobReplaces
    <2>3. CASE JobEnds(a) BY <2>3 DEF JobEnds
    <2> QED BY <2>1, <2>2, <2>3 DEF Job
  <1> QED BY <1>1, <1>2, <1>3, <1>4 DEF Typed

\* A step that touches neither Coolify nor docker.
LEMMA OutsideKept ==
  ASSUME Typed, UNCHANGED coolify PROVE OutsideTyped'
  BY DEF Typed, OutsideTyped, coolify

\* The bound on faults is one.
LEMMA Spends ==
  ASSUME Typed, NEW f, Spend(f) PROVE left' \in 0 .. MaxFaults
  BY RoutingAssumption DEF Spend, Typed

\* What is known of one handler.
LEMMA Facts ==
  ASSUME Typed, NEW p \in Procs
  PROVE  /\ my[p] \in LocalRecords /\ pc[p] \in PCs /\ Fits(p)
         /\ routing \in Procs \cup {Free} /\ busy \in Procs \cup {Free}
         /\ pc[p] \notin {"idle", "done"} => my[p].kind # "none"
         /\ pc[p] \in InSync => routing = p
  BY DEF Typed, HandlersTyped, Fits

\* A handler goes on without giving anything up or asking for a lock.
LEMMA StepsTyped ==
  ASSUME Typed, NEW p \in Procs, NEW there \in PCs, NEW mine \in LocalRecords,
         pc' = [pc EXCEPT ![p] = there], my' = [my EXCEPT ![p] = mine],
         busy' = busy, routing' = routing, mine.kind = my[p].kind,
         pc[p] \notin {"idle", "done"}, there # "reread",
         there \in InSync \/ (there \in Applying /\ mine.kind \in {"publish", "clear"})
            => routing = p
  PROVE  HandlersTyped' /\ \A q \in Procs : Fits(q)'
  <1>1. Fits(p) /\ routing' \in Procs \cup {Free} /\ busy' \in Procs \cup {Free}
        /\ my[p].kind # "none"
    BY Facts
  <1>2. /\ (mine.kind = "loop") <=> (p = "loop")
        /\ mine.kind # "none"
    BY <1>1 DEF Fits
  <1> QED BY <1>1, <1>2, Goes

\* sync_frontend_routes, step by step.
LEMMA SyncTyped ==
  ASSUME Typed, NEW p \in Procs, Sync(p) PROVE Typed'
  <1>1. CASE SyncStarts(p)
    <2> DEFINE mine == [my[p] EXCEPT !.held = Fronted(row),
                                     !.sleeps = IF Scopes(p) THEN row.sleeps ELSE @]
    <2>1. my[p] \in LocalRecords /\ Fronted(row) \in BOOLEAN /\ row.sleeps \in BOOLEAN
      BY Facts DEF Typed, Rows, Fronted
    <2>2. mine \in LocalRecords /\ mine.kind = my[p].kind BY <2>1 DEF LocalRecords
    <2>3. my' = [my EXCEPT ![p] = mine]
      BY <1>1 DEF SyncStarts, Typed, HandlersTyped
    <2> HIDE DEF mine
    <2>4. pc' = [pc EXCEPT ![p] = "look"] /\ routing' = p /\ busy' = busy /\ routing = Free
          /\ pc[p] = "sync"
      BY <1>1 DEF SyncStarts
    <2>5. HandlersTyped' /\ \A q \in Procs : Fits(q)'
      <3>1. my[p].kind # "none" /\ Fits(p) /\ busy' \in Procs \cup {Free} /\ p \in Procs \cup {Free}
        BY <2>4, Facts
      <3>2. /\ (mine.kind = "loop") <=> (p = "loop")
            /\ mine.kind # "none"
        BY <2>2, <3>1 DEF Fits
      <3>3. "look" \in PCs /\ "look" \notin Applying BY DEF PCs, Applying
      <3> QED BY <2>2, <2>3, <2>4, <3>1, <3>2, <3>3, Goes
    <2>6. OutsideTyped' /\ UNCHANGED <<row, asks, left>>
      BY <1>1, OutsideKept DEF SyncStarts
    <2> QED BY <2>5, <2>6 DEF Typed
  <1>2. CASE SyncLooks(p)
    <2>1. pc[p] = "look" BY <1>2 DEF SyncLooks
    <2>2. my[p].kind # "none" /\ routing = p BY <2>1, Facts DEF InSync
    <2>3. HandlersTyped' /\ \A q \in Procs : Fits(q)'
      <3>1. CASE ToBackends(p) BY <2>2, <3>1, BackendsTyped
      <3>2. CASE pc' = [pc EXCEPT ![p] = "label"] /\ UNCHANGED <<my, routing, busy>>
        <4>1. my' = [my EXCEPT ![p] = my[p]] BY <3>2 DEF Typed, HandlersTyped
        <4> QED BY <2>1, <2>2, <3>2, <4>1, Facts, StepsTyped DEF PCs
      <3>3. CASE EndSync(p, TRUE) BY <2>2, <3>3, SyncEnds
      <3> QED BY <1>2, <3>1, <3>2, <3>3 DEF SyncLooks
    <2>4. left' \in 0 .. MaxFaults BY <1>2, Spends DEF SyncLooks, Typed
    <2>5. OutsideTyped' /\ UNCHANGED <<row, asks>>
      BY <1>2, OutsideKept DEF SyncLooks
    <2> QED BY <2>3, <2>4, <2>5 DEF Typed
  <1>3. CASE SyncLabels(p)
    <2>1. pc[p] = "label" /\ pc' = [pc EXCEPT ![p] = "ask"] /\ UNCHANGED <<my, routing, busy>>
      BY <1>3 DEF SyncLabels
    <2>2. my' = [my EXCEPT ![p] = my[p]] BY <2>1 DEF Typed, HandlersTyped
    <2>3. HandlersTyped' /\ \A q \in Procs : Fits(q)'
      BY <2>1, <2>2, Facts, StepsTyped DEF PCs, InSync
    <2>4. OutsideTyped' /\ UNCHANGED <<row, asks, left>>
      BY <1>3 DEF SyncLabels, Typed, OutsideTyped, Routers, Apps, Blocks
    <2> QED BY <2>3, <2>4 DEF Typed
  <1>4. CASE SyncDeploys(p)
    <2>1. pc[p] = "ask" BY <1>4 DEF SyncDeploys
    <2>2. my[p].kind # "none" /\ routing = p BY <2>1, Facts DEF InSync
    <2>3. HandlersTyped' /\ \A q \in Procs : Fits(q)'
      <3>1. CASE EndSync(p, FALSE) BY <2>2, <3>1, SyncEnds
      <3>2. CASE pc' = [pc EXCEPT ![p] = "verify"] /\ UNCHANGED <<my, routing, busy>>
        <4>1. my' = [my EXCEPT ![p] = my[p]] BY <3>2 DEF Typed, HandlersTyped
        <4> QED BY <2>1, <2>2, <3>2, <4>1, Facts, StepsTyped DEF PCs
      <3> QED BY <1>4, <3>1, <3>2 DEF SyncDeploys
    <2>4. job' \in [Apps -> {"none", "queued", "running", "closing"}]
      BY <1>4, DeployTyped DEF SyncDeploys, Apps, Typed, OutsideTyped
    <2>5. OutsideTyped' /\ UNCHANGED <<row, asks>>
      BY <1>4, <2>4 DEF SyncDeploys, Typed, OutsideTyped
    <2>6. left' \in 0 .. MaxFaults BY <1>4, Spends DEF SyncDeploys, Typed
    <2> QED BY <2>3, <2>5, <2>6 DEF Typed
  <1>5. CASE SyncVerifies(p)
    <2>1. pc[p] = "verify" BY <1>5 DEF SyncVerifies
    <2>2. my[p].kind # "none" /\ routing = p BY <2>1, Facts DEF InSync
    <2>3. HandlersTyped' /\ \A q \in Procs : Fits(q)'
      BY <1>5, <2>2, SyncEnds, BackendsTyped DEF SyncVerifies
    <2>4. OutsideTyped' /\ UNCHANGED <<row, asks, left>>
      BY <1>5 DEF SyncVerifies, Typed, OutsideTyped
    <2> QED BY <2>3, <2>4 DEF Typed
  <1>6. CASE SyncScopes(p)
    <2>1. pc[p] = "scope" BY <1>6 DEF SyncScopes
    <2>2. my[p].kind # "none" /\ routing = p BY <2>1, Facts DEF InSync
    <2>3. HandlersTyped' /\ \A q \in Procs : Fits(q)'
      <3>1. CASE EndSync(p, TRUE) BY <2>2, <3>1, SyncEnds
      <3>2. CASE ~EndSync(p, TRUE)
        <4> DEFINE mine == [my[p] EXCEPT !.fronted = my[p].held,
                                         !.sleeps = IF my[p].held THEN @ ELSE row.sleeps]
        <4>1. my[p] \in LocalRecords /\ row.sleeps \in BOOLEAN
          BY Facts DEF Typed, Rows
        <4>2. mine \in LocalRecords /\ mine.kind = my[p].kind BY <4>1 DEF LocalRecords
        <4>3. my' = [my EXCEPT ![p] = mine]
          BY <1>6, <3>2 DEF SyncScopes, Typed, HandlersTyped
        <4> HIDE DEF mine
        <4>4. pc' = [pc EXCEPT ![p] = "apply"] /\ routing' = routing /\ busy' = busy
          BY <1>6, <3>2 DEF SyncScopes
        <4> QED BY <2>1, <2>2, <4>2, <4>3, <4>4, StepsTyped DEF PCs
      <3> QED BY <3>1, <3>2
    <2>4. OutsideTyped' /\ UNCHANGED <<row, asks, left>>
      BY <1>6, OutsideKept DEF SyncScopes
    <2> QED BY <2>3, <2>4 DEF Typed
  <1> QED BY <1>1, <1>2, <1>3, <1>4, <1>5, <1>6 DEF Sync

\* apply_backend_labels, step by step.
LEMMA ApplyTyped ==
  ASSUME Typed, NEW p \in Procs, Apply(p) PROVE Typed'
  <1>1. CASE ApplyReads(p)
    <2> DEFINE want == Backend(my[p].sleeps, my[p].fronted)
    <2>1. pc[p] = "apply" BY <1>1 DEF ApplyReads
    <2>2. my[p].kind # "none" /\ pc[p] \in Applying /\ my[p] \in LocalRecords /\ Fits(p)
      BY <2>1, Facts DEF Applying
    <2>3. HandlersTyped' /\ \A q \in Procs : Fits(q)'
      <3>1. CASE EndApply(p, ~gone)
        <4>1. (~gone) \in BOOLEAN OBVIOUS
        <4> QED BY <2>2, <3>1, <4>1, ApplyEnds
      <3>2. CASE ~EndApply(p, ~gone)
        <4> DEFINE mine == [my[p] EXCEPT !.want = want]
        <4>1. want \in SUBSET AppLabels
          BY DEF Backend, Marker, Enrollment, AppLabels
        <4>2. my' = [my EXCEPT ![p] = mine]
          BY <1>1, <3>2 DEF ApplyReads, Typed, HandlersTyped
        <4> HIDE DEF want
        <4>3. mine \in LocalRecords /\ mine.kind = my[p].kind BY <2>2, <4>1 DEF LocalRecords
        <4> HIDE DEF mine
        <4>4. pc' = [pc EXCEPT ![p] = "write"] /\ routing' = routing /\ busy' = busy
          BY <1>1, <3>2 DEF ApplyReads
        <4> QED BY <2>1, <2>2, <4>2, <4>3, <4>4, StepsTyped DEF PCs, InSync, Fits
      <3> QED BY <3>1, <3>2
    <2>4. OutsideTyped' /\ UNCHANGED <<row, asks, left>>
      BY <1>1, OutsideKept DEF ApplyReads
    <2> QED BY <2>3, <2>4 DEF Typed
  <1>2. CASE ApplyWrites(p)
    <2>1. pc[p] = "write" /\ pc' = [pc EXCEPT ![p] = "recycle"] /\ UNCHANGED <<my, routing, busy>>
      BY <1>2 DEF ApplyWrites
    <2>2. my' = [my EXCEPT ![p] = my[p]] BY <2>1 DEF Typed, HandlersTyped
    <2>3. HandlersTyped' /\ \A q \in Procs : Fits(q)'
      <3>1. my[p] \in LocalRecords /\ Fits(p) /\ pc[p] \in Applying /\ pc[p] \notin {"idle", "done"}
        BY <2>1, Facts DEF Applying
      <3>2. my[p].kind \in {"publish", "clear"} => routing = p BY <3>1 DEF Fits
      <3>3. "recycle" \in PCs /\ "recycle" \notin InSync BY DEF PCs, InSync
      <3> QED BY <2>1, <2>2, <3>1, <3>2, <3>3, StepsTyped
    <2>4. my[p].want \subseteq AppLabels BY Facts DEF LocalRecords
    <2>5. OutsideTyped' /\ UNCHANGED <<row, asks, left>>
      BY <1>2, <2>4 DEF ApplyWrites, Typed, OutsideTyped, Apps, Blocks
    <2> QED BY <2>3, <2>5 DEF Typed
  <1>3. CASE ApplyDeploys(p)
    <2>1. pc[p] = "recycle" BY <1>3 DEF ApplyDeploys
    <2>2. my[p].kind # "none" /\ pc[p] \in Applying /\ my[p] \in LocalRecords
      BY <2>1, Facts DEF Applying
    <2>3. HandlersTyped' /\ \A q \in Procs : Fits(q)'
      BY <1>3, <2>2, ApplyEnds DEF ApplyDeploys
    <2>4. job' \in [Apps -> {"none", "queued", "running", "closing"}]
      BY <1>3, DeployTyped DEF ApplyDeploys, Apps, Typed, OutsideTyped
    <2>5. OutsideTyped' BY <1>3, <2>4 DEF ApplyDeploys, Typed, OutsideTyped
    <2>6. left' \in 0 .. MaxFaults BY <1>3, Spends DEF ApplyDeploys, Typed
    <2>7. row' \in Rows
      BY <1>3, <2>2 DEF ApplyDeploys, Typed, Rows, LocalRecords
    <2>8. asks' \in [SUBSET AppLabels -> 0 .. LabelAttempts]
      <3>1. LabelAttempts \in 0 .. LabelAttempts BY RoutingAssumption
      <3>2. CASE asks' = asks BY <3>2 DEF Typed
      <3>3. CASE asks' = [asks EXCEPT ![my[p].want] = LabelAttempts] BY <3>1, <3>3 DEF Typed
      <3> QED BY <1>3, <3>2, <3>3 DEF ApplyDeploys, Tries
    <2> QED BY <2>3, <2>5, <2>6, <2>7, <2>8 DEF Typed
  <1> QED BY <1>1, <1>2, <1>3 DEF Apply

\* A request arrives.
LEMMA BeginTyped ==
  ASSUME Typed, NEW p \in Handlers, NEW kind \in Requests,
         Begin(p, kind) \/ DeployBegins(p, kind)
  PROVE  Typed'
  <1>1. p \in Procs /\ p # "loop" /\ kind \in Kinds /\ "loop" \notin Kinds /\ "none" \notin Kinds
    BY NotFree, RoutingAssumption DEF Kinds
  <1>2. Locals(kind) \in LocalRecords /\ Locals(kind).kind = kind BY <1>1, NoneYet
  <1>3. row.sleeps \in BOOLEAN /\ row.enrolled \in BOOLEAN BY DEF Typed, Rows
  <1>4. routing \in Procs \cup {Free} /\ busy \in Procs \cup {Free} BY <1>1, Facts
  <1>5. CASE Begin(p, kind)
    <2>1. /\ pc' = [pc EXCEPT ![p] = "sync"] /\ my' = [my EXCEPT ![p] = Locals(kind)]
          /\ routing' = routing /\ busy' \in Procs \cup {Free}
      BY <1>1, <1>4, <1>5 DEF Begin
    <2>2. "sync" \in PCs /\ "sync" \notin InSync \cup Applying BY DEF PCs, InSync, Applying
    <2>3. HandlersTyped' /\ \A q \in Procs : Fits(q)'
      BY <1>1, <1>2, <1>4, <2>1, <2>2, Goes
    <2>4. row' \in Rows BY <1>1, <1>5 DEF Begin, Kinds, Typed, Rows
    <2>5. OutsideTyped' /\ UNCHANGED <<asks, left>> BY <1>5, OutsideKept DEF Begin
    <2> QED BY <2>3, <2>4, <2>5 DEF Typed
  <1>6. CASE DeployBegins(p, kind)
    <2> DEFINE mine == [Locals(kind) EXCEPT !.sleeps = row.sleeps,
                          !.enrolled = row.enrolled, !.fronted = TRUE]
    <2>1. mine \in LocalRecords /\ mine.kind = kind BY <1>2, <1>3 DEF LocalRecords
    <2>2. my' = [my EXCEPT ![p] = mine] BY <1>6 DEF DeployBegins
    <2> HIDE DEF mine
    <2>3. /\ pc' = [pc EXCEPT ![p] = "settle"]
          /\ routing' = routing /\ busy' \in Procs \cup {Free}
      BY <1>1, <1>6 DEF DeployBegins
    <2>4. "settle" \in PCs /\ "settle" \notin InSync \cup Applying BY DEF PCs, InSync, Applying
    <2>5. HandlersTyped' /\ \A q \in Procs : Fits(q)'
      BY <1>1, <1>4, <2>1, <2>2, <2>3, <2>4, Goes
    <2>6. job' \in [Apps -> {"none", "queued", "running", "closing"}]
      BY <1>6, DeployTyped DEF DeployBegins, Apps
    <2>7. OutsideTyped' /\ UNCHANGED <<row, asks, left>>
      BY <1>6, <2>6 DEF DeployBegins, Typed, OutsideTyped, Apps
    <2> QED BY <2>5, <2>7 DEF Typed
  <1> QED BY <1>5, <1>6

\* What handlers and the loop do between syncs and applies.
LEMMA TurnsTyped ==
  ASSUME Typed, NEW p \in Procs,
         Reread(p) \/ Column(p) \/ Settle(p) \/ SleepAfterDeploy(p) \/ Fetch(p)
           \/ Reconciles(p) \/ Hour(p)
  PROVE  Typed'
  <1>1. /\ my[p] \in LocalRecords /\ pc[p] \in PCs /\ Fits(p)
        /\ routing \in Procs \cup {Free} /\ busy \in Procs \cup {Free}
    BY Facts
  <1>2. row.sleeps \in BOOLEAN /\ Fronted(row) \in BOOLEAN BY DEF Typed, Rows, Fronted
  <1>3. CASE Reread(p)
    <2> DEFINE mine == [my[p] EXCEPT !.sleeps = (my[p].kind = "on"), !.fronted = Fronted(row)]
    <2>1. my' = [my EXCEPT ![p] = mine]
      BY <1>3 DEF Reread, Typed, HandlersTyped
    <2>2. mine \in LocalRecords /\ mine.kind = my[p].kind BY <1>1, <1>2 DEF LocalRecords
    <2> HIDE DEF mine
    <2>3. pc[p] = "reread" /\ pc' = [pc EXCEPT ![p] = "apply"] /\ UNCHANGED <<routing, busy>>
      BY <1>3 DEF Reread
    <2>4. "apply" \in PCs /\ "apply" \notin InSync /\ my[p].kind \notin {"publish", "clear"}
      BY <1>1, <2>3 DEF PCs, InSync, Fits
    <2>5. HandlersTyped' /\ \A q \in Procs : Fits(q)'
      BY <2>1, <2>2, <2>3, <2>4, StepsTyped
    <2>6. OutsideTyped' /\ UNCHANGED <<row, asks, left>> BY <1>3, OutsideKept DEF Reread
    <2> QED BY <2>5, <2>6 DEF Typed
  <1>4. CASE Column(p)
    <2> DEFINE there == IF p = "loop" THEN "sleeping" ELSE "done"
    <2>1. Leave(p, there) /\ routing' = routing /\ my[p].kind # "none"
      BY <1>4, Facts DEF Column
    <2>2. there \in PCs \ InSync /\ there \notin Applying /\ there # "reread"
          /\ (there = "sleeping" => p = "loop")
      BY DEF PCs, InSync, Applying
    <2> HIDE DEF there
    <2>3. HandlersTyped' /\ \A q \in Procs : Fits(q)'
      BY <1>1, <2>1, <2>2, LeaveTyped
    <2>4. row' \in Rows BY <1>4 DEF Column, Typed, Rows
    <2>5. OutsideTyped' /\ UNCHANGED <<asks, left>> BY <1>4, OutsideKept DEF Column
    <2> QED BY <2>3, <2>4, <2>5 DEF Typed
  <1>5. CASE Settle(p)
    <2>1. pc[p] = "settle" /\ my[p].kind # "none" /\ routing' = routing
      BY <1>5, Facts DEF Settle
    <2>2. HandlersTyped' /\ \A q \in Procs : Fits(q)'
      <3>1. CASE Leave(p, "done")
        <4>1. "done" \in PCs \ InSync /\ "done" \notin Applying BY DEF PCs, InSync, Applying
        <4> QED BY <1>1, <2>1, <3>1, <4>1, LeaveTyped
      <3>2. CASE ~Leave(p, "done")
        <4> DEFINE there == IF AutoEnroll /\ my[p].sleeps /\ ~my[p].enrolled
                            THEN "sync" ELSE "stop"
        <4>1. pc' = [pc EXCEPT ![p] = there] /\ my' = my /\ busy' = busy
          BY <1>5, <3>2 DEF Settle
        <4>2. my' = [my EXCEPT ![p] = my[p]] BY <4>1 DEF Typed, HandlersTyped
        <4>3. there \in PCs /\ there \notin InSync \cup Applying /\ there # "reread"
          BY DEF PCs, InSync, Applying
        <4> HIDE DEF there
        <4> QED BY <1>1, <2>1, <4>1, <4>2, <4>3, StepsTyped
      <3> QED BY <3>1, <3>2
    <2>3. OutsideTyped' /\ UNCHANGED <<row, asks, left>>
      BY <1>5 DEF Settle, Typed, OutsideTyped
    <2> QED BY <2>2, <2>3 DEF Typed
  <1>6. CASE SleepAfterDeploy(p)
    <2>1. pc[p] = "stop" /\ my[p].kind # "none" /\ routing' = routing /\ Leave(p, "done")
      BY <1>6, Facts DEF SleepAfterDeploy
    <2>2. "done" \in PCs \ InSync /\ "done" \notin Applying BY DEF PCs, InSync, Applying
    <2>3. HandlersTyped' /\ \A q \in Procs : Fits(q)'
      BY <1>1, <2>1, <2>2, LeaveTyped
    <2>4. OutsideTyped' /\ UNCHANGED <<row, asks, left>>
      BY <1>6 DEF SleepAfterDeploy, Typed, OutsideTyped
    <2> QED BY <2>3, <2>4 DEF Typed
  <1>7. CASE Fetch(p)
    <2>1. p = "loop" /\ pc[p] = "fetch" /\ my[p].kind # "none" /\ routing' = routing
      BY <1>7, Facts DEF Fetch
    <2>2. HandlersTyped' /\ \A q \in Procs : Fits(q)'
      <3>1. CASE Leave(p, "sleeping")
        <4>1. "sleeping" \in PCs \ InSync /\ "sleeping" \notin Applying BY DEF PCs, InSync, Applying
        <4> QED BY <1>1, <2>1, <3>1, <4>1, LeaveTyped
      <3>2. CASE ~Leave(p, "sleeping")
        <4> DEFINE mine == [my[p] EXCEPT !.sleeps = TRUE, !.fronted = TRUE]
        <4>1. pc' = [pc EXCEPT ![p] = "check"] /\ busy' = busy /\ my' = [my EXCEPT ![p] = mine]
          BY <1>7, <3>2 DEF Fetch, Typed, HandlersTyped
        <4>2. mine \in LocalRecords /\ mine.kind = my[p].kind BY <1>1 DEF LocalRecords
        <4>3. "check" \in PCs /\ "check" \notin InSync \cup Applying BY DEF PCs, InSync, Applying
        <4> HIDE DEF mine
        <4> QED BY <1>1, <2>1, <4>1, <4>2, <4>3, StepsTyped
      <3> QED BY <3>1, <3>2
    <2>3. OutsideTyped' /\ UNCHANGED <<row, asks, left>> BY <1>7, OutsideKept DEF Fetch
    <2> QED BY <2>2, <2>3 DEF Typed
  <1>8. CASE Reconciles(p)
    <2> DEFINE there == IF gone \/ "sablier" \in live["app"] THEN "sleeping" ELSE "apply"
    <2>1. p = "loop" /\ pc[p] = "check" /\ my[p].kind = "loop" /\ routing' = routing
          /\ Leave(p, there)
      BY <1>1, <1>8 DEF Reconciles, Fits
    <2>2. there \in PCs \ InSync /\ there # "reread" BY DEF PCs, InSync
    <2> HIDE DEF there
    <2>3. HandlersTyped' /\ \A q \in Procs : Fits(q)'
      BY <1>1, <2>1, <2>2, LeaveTyped
    <2>4. job' \in [Apps -> {"none", "queued", "running", "closing"}]
      BY <1>8, DeployTyped DEF Reconciles, Apps, Typed, OutsideTyped
    <2>5. OutsideTyped' /\ UNCHANGED <<row, asks, left>>
      BY <1>8, <2>4 DEF Reconciles, Typed, OutsideTyped
    <2> QED BY <2>3, <2>5 DEF Typed
  <1>9. CASE Hour(p)
    <2>1. pc[p] = "sleeping" /\ pc' = [pc EXCEPT ![p] = "sync"] /\ UNCHANGED <<my, routing, busy>>
      BY <1>9 DEF Hour
    <2>2. my' = [my EXCEPT ![p] = my[p]] BY <2>1 DEF Typed, HandlersTyped
    <2>3. "sync" \in PCs /\ "sync" \notin InSync \cup Applying BY DEF PCs, InSync, Applying
    <2>4. HandlersTyped' /\ \A q \in Procs : Fits(q)'
      BY <1>1, <2>1, <2>2, <2>3, StepsTyped
    <2>5. OutsideTyped' /\ UNCHANGED <<row, asks, left>> BY <1>9, OutsideKept DEF Hour
    <2> QED BY <2>4, <2>5 DEF Typed
  <1> QED BY <1>3, <1>4, <1>5, <1>6, <1>7, <1>8, <1>9

\* _confirm_labels_landed has LABEL_ATTEMPTS deploys, no more.
LEMMA ConfirmTyped ==
  ASSUME Typed, NEW want \in SUBSET AppLabels, Confirm(want) PROVE Typed'
  <1>1. HandlersTyped' /\ \A q \in Procs : Fits(q)' BY StaysTyped DEF Confirm
  <1>2. asks[want] \in 1 .. LabelAttempts
    BY RoutingAssumption DEF Confirm, Typed
  <1>3. asks[want] - 1 \in 0 .. LabelAttempts /\ 0 \in 0 .. LabelAttempts
    BY <1>2, RoutingAssumption
  <1>4. asks' \in [SUBSET AppLabels -> 0 .. LabelAttempts]
    BY <1>3 DEF Confirm, Typed
  <1>5. job' \in [Apps -> {"none", "queued", "running", "closing"}]
    BY DeployTyped DEF Confirm, Apps, Typed, OutsideTyped
  <1>6. OutsideTyped' /\ UNCHANGED <<row, left>>
    BY <1>5 DEF Confirm, Typed, OutsideTyped
  <1> QED BY <1>1, <1>4, <1>6 DEF Typed

\* A foreign deploy, a lost container, a restart of the control plane.
LEMMA FaultsTyped ==
  ASSUME Typed, Outside \/ Restart PROVE Typed'
  <1>1. left' \in 0 .. MaxFaults
    BY Spends DEF Outside, ForeignDeploy, ContainerLost, Restart
  <1>2. CASE ForeignDeploy
    <2>1. HandlersTyped' /\ \A q \in Procs : Fits(q)' BY <1>2, StaysTyped DEF ForeignDeploy
    <2>2. job' \in [Apps -> {"none", "queued", "running", "closing"}]
      BY <1>2, DeployTyped DEF ForeignDeploy, Apps
    <2>3. OutsideTyped' /\ UNCHANGED <<row, asks>>
      BY <1>2, <2>2 DEF ForeignDeploy, Typed, OutsideTyped
    <2> QED BY <1>1, <2>1, <2>3 DEF Typed
  <1>3. CASE ContainerLost
    <2>1. HandlersTyped' /\ \A q \in Procs : Fits(q)' BY <1>3, StaysTyped DEF ContainerLost
    <2>2. OutsideTyped' /\ UNCHANGED <<row, asks>>
      BY <1>3 DEF ContainerLost, Typed, OutsideTyped, Apps, Blocks
    <2> QED BY <1>1, <2>1, <2>2 DEF Typed
  <1>4. CASE Restart
    <2>1. /\ pc' = [p \in Procs |-> IF p = "loop" THEN "sync"
                                   ELSE IF pc[p] = "idle" THEN "idle" ELSE "done"]
          /\ my' = [p \in Procs |-> NoLocals(p)] /\ routing' = Free /\ busy' = Free
      BY <1>4 DEF Restart
    <2>2. HandlersTyped'
      BY <2>1, NoneYet DEF HandlersTyped, PCs
    <2>3. \A p \in Procs : Fits(p)'
      BY <2>1, NoneYet DEF Fits, InSync, Applying
    <2>4. asks' \in [SUBSET AppLabels -> 0 .. LabelAttempts]
      BY <1>4, RoutingAssumption DEF Restart
    <2>5. OutsideTyped' /\ row' = row BY <1>4, OutsideKept DEF Restart
    <2> QED BY <1>1, <2>2, <2>3, <2>4, <2>5 DEF Typed
  <1> QED BY <1>2, <1>3, <1>4 DEF Outside

\* The types hold at the start ...
LEMMA InitTyped == Init => Typed
  <1> SUFFICES ASSUME Init PROVE Typed OBVIOUS
  <1>1. row \in Rows BY DEF Init, Rows
  <1>2. OutsideTyped
    <2>1. PICK b \in SUBSET AppLabels, w \in SUBSET {"route"} : stored = [app |-> b, web |-> w]
      <3> DEFINE new == row.sleeps /\ ~row.enrolled
                 b == IF new THEN {} ELSE Backend(row.sleeps, Fronted(row))
                 w == Routers(IF new THEN row.front ELSE Fronted(row))
      <3>1. stored = [app |-> b, web |-> w] BY DEF Init
      <3>2. b \in SUBSET AppLabels BY DEF Backend, Marker, Enrollment, AppLabels
      <3>3. w \in SUBSET {"route"} BY DEF Routers
      <3> QED BY <3>1, <3>2, <3>3
    <2>2. stored \in [Apps -> Blocks] /\ stored["app"] \subseteq AppLabels
      <3>1. b \in Blocks /\ w \in Blocks BY DEF Blocks
      <3>2. stored["app"] = b /\ stored["web"] = w BY <2>1
      <3>3. stored \in [Apps -> Blocks] BY <2>1, <3>1 DEF Apps
      <3> QED BY <3>2, <3>3
    <2>3. carried \in [Apps -> Blocks] /\ carried["app"] = {}
      BY DEF Init, Apps, Blocks
    <2>4. job \in [Apps -> {"none", "queued", "running", "closing"}] BY DEF Init
    <2>5. live = stored /\ gone = FALSE /\ asleep = FALSE /\ fresh = {} BY DEF Init
    <2> QED BY <2>2, <2>3, <2>4, <2>5 DEF OutsideTyped
  <1>3. HandlersTyped BY NoneYet DEF Init, HandlersTyped, PCs
  <1>4. \A p \in Procs : Fits(p) BY NoneYet DEF Init, Fits, InSync, Applying
  <1>5. asks \in [SUBSET AppLabels -> 0 .. LabelAttempts] /\ left \in 0 .. MaxFaults
    BY RoutingAssumption DEF Init
  <1> QED BY <1>1, <1>2, <1>3, <1>4, <1>5 DEF Typed

\* ... and after every step.
LEMMA NextTyped == Typed /\ [Next]_vars => Typed'
  <1> SUFFICES ASSUME Typed, [Next]_vars PROVE Typed' OBVIOUS
  <1>1. CASE UNCHANGED vars
    BY <1>1, OutsideKept, StaysTyped DEF vars, Typed
  <1>2. ASSUME NEW p \in Procs, Handle(p) PROVE Typed'
    BY <1>2, SyncTyped, ApplyTyped, TurnsTyped DEF Handle
  <1> QED BY <1>1, <1>2, JobsTyped, BeginTyped, ConfirmTyped, FaultsTyped DEF Next

\* Whatever requests, sweeps, confirmations and faults there are, the handlers, the
\* locks and the labels keep their types: a backend's labels never have the static
\* host's router among them, and a confirmation never has more deploys left than
\* LABEL_ATTEMPTS.  (routing.py, _confirm_labels_landed; sablier.reconcile)
THEOREM RoutingTypes == Spec => []TypeOK
  <1>1. Typed => TypeOK
    BY DEF Typed, TypeOK, OutsideTyped, HandlersTyped, Rows, PCs, AppLabels
  <1> QED BY <1>1, InitTyped, NextTyped, PTL DEF Spec

-----------------------------------------------------------------------------
\* What the order rests on.  An app that is fronted stays fronted (nobody clears its
\* front or switches its sleeping off); the static host's labels can be read, and a
\* deploy of it that is asked for comes to pass, and with the labels that were
\* stored; and the loop does not
\* read a row that set_sleep has only just written: sablier.reconcile would enrol
\* the container before the sync of that request.
FrontedForGood ==
  /\ Requests \subseteq {"on", "publish", "deploy"}
  /\ Faults \subseteq {"restart", "lost"}
  /\ Sweep => "on" \notin Requests

\* The static host's container answers for the app.
Router  == "route" \in live["web"]

\* Nor will it, by what is stored and under way.
NoRouterYet ==
  /\ "route" \notin stored["web"] /\ "route" \notin carried["web"] /\ ~Router
  /\ job["web"] = "none"

\* A deployment of the static host brings the router, whenever there is one; no
\* label of the app is on its container, on its way or stored before that.
WebFirst ==
  /\ stored["web"] \in {{}, {"route"}} /\ carried["web"] \in {{}, {"route"}}
  /\ live["web"] \in {{}, {"route"}}
  /\ job["web"] = "queued"  => "route" \in stored["web"]
  /\ job["web"] = "running" => "route" \in carried["web"]
  /\ job["web"] = "closing" => Router
  /\ "web" \in fresh => Router
  /\ ~Fronted(row) => NoRouterYet
  /\ stored["app"] # {} \/ carried["app"] # {} \/ live["app"] # {} => Router

\* What a handler may rely on where it is.  A request's own write makes its app
\* fronted, so only the loop may run a sync that finds it is not.
Courses(p) ==
  /\ pc[p] = "sync" /\ p # "loop" => Fronted(row)
  /\ pc[p] \in InSync /\ ~my[p].held =>
       pc[p] \in {"look", "scope"} /\ p = "loop" /\ ~row.sleeps /\ NoRouterYet
  /\ pc[p] \in InSync /\ my[p].held => Fronted(row)
  /\ pc[p] \in {"ask", "verify"} => "route" \in stored["web"]
  /\ pc[p] = "verify" => job["web"] # "none" \/ Router
  /\ pc[p] = "scope" /\ my[p].held => Router
  /\ pc[p] \in Applying \cup {"reread", "check"} => Router
  /\ pc[p] = "fetch" => p = "loop" /\ (row.sleeps => Router)
  /\ pc[p] = "settle" /\ my[p].sleeps => row.sleeps

\* The inductive invariant.
Fronts == Typed /\ WebFirst /\ \A p \in Procs : Courses(p)

\* A settled app, or a new one, has its router if it has labels.
LEMMA FrontsFromStart == Init => WebFirst /\ \A p \in Procs : Courses(p)
  <1> SUFFICES ASSUME Init PROVE WebFirst /\ \A p \in Procs : Courses(p) OBVIOUS
  <1>1. row \in Rows BY DEF Init, Rows
  <1> DEFINE new == row.sleeps /\ ~row.enrolled
             b == IF new THEN {} ELSE Backend(row.sleeps, Fronted(row))
             w == Routers(IF new THEN row.front ELSE Fronted(row))
  <1>2. /\ stored = [app |-> b, web |-> w] /\ live = stored
        /\ carried["app"] = {} /\ carried["web"] = {} /\ job["web"] = "none" /\ fresh = {}
    BY DEF Init, Apps
  <1>3. /\ w \in {{}, {"route"}} /\ (~Fronted(row) => w = {})
        /\ (b # {} => w = {"route"})
    BY <1>1 DEF Routers, Fronted, Backend, Marker, Enrollment, Rows
  <1>4. stored["app"] = b /\ stored["web"] = w BY <1>2
  <1> HIDE DEF b, w
  <1>5. WebFirst BY <1>2, <1>3, <1>4 DEF WebFirst, NoRouterYet, Router
  <1>6. \A p \in Procs : pc[p] \in {"sync", "idle"} /\ (pc[p] = "sync" => p = "loop")
    BY DEF Init
  <1>7. \A p \in Procs : Courses(p) BY <1>6 DEF Courses, InSync, Applying
  <1> QED BY <1>5, <1>7

\* What every step leaves to the other handlers.
Calm ==
  /\ Router => Router'
  /\ "route" \in stored["web"] => "route" \in stored'["web"]
  /\ job["web"] # "none" => job'["web"] # "none" \/ Router'
  /\ Fronted(row) => Fronted(row')
  /\ row.sleeps => row'.sleeps
  /\ Sweep => row'.sleeps = row.sleeps

\* A handler that takes no step may rely on what it did.
LEMMA StaysOnCourse ==
  ASSUME Fronts, NEW q \in Procs, pc'[q] = pc[q], my'[q] = my[q], Calm,
         pc[q] \in InSync /\ NoRouterYet => NoRouterYet'
  PROVE  Courses(q)'
  <1>1. Courses(q) BY DEF Fronts
  <1>2. q = "loop" => (row'.sleeps = row.sleeps)
    BY NotFree DEF Calm, Procs
  <1>3. Fronted(row)' = Fronted(row') BY DEF Fronted
  <1> QED BY <1>1, <1>2, <1>3 DEF Courses, Calm

\* A step that changes nothing but the row, and that for good.
LEMMA RowCalm ==
  ASSUME UNCHANGED <<stored, job, live>>,
         Fronted(row) => Fronted(row'), row.sleeps => row'.sleeps, Sweep => row'.sleeps = row.sleeps
  PROVE  Calm
  BY DEF Calm, Router

\* A sync that ends has the router there; the loop's may have found nothing fronted.
LEMMA SyncEndsOnCourse ==
  ASSUME Fronts, NEW p \in Procs, NEW ok \in BOOLEAN, EndSync(p, ok), my[p].kind # "none",
         Router' \/ (p = "loop" /\ ~row'.sleeps)
  PROVE  Courses(p)'
  <1> DEFINE there == AfterSync(p, ok)
  <1>1. my[p].kind \in Kinds \cup {"loop"} /\ Fits(p)
    BY DEF Fronts, Typed, HandlersTyped, LocalRecords
  <1>2. /\ there \in {"fetch", "done", "apply", "stop", "reread"}
        /\ there = "fetch" => p = "loop"
        /\ there \in {"apply", "reread"} => p # "loop"
    BY <1>1 DEF AfterSync, Kinds, Fits
  <1>3. pc' = [pc EXCEPT ![p] = there] BY DEF EndSync, Leave
  <1> HIDE DEF there
  <1>4. pc'[p] = there BY <1>3 DEF Fronts, Typed, HandlersTyped
  <1> QED BY <1>2, <1>4 DEF Courses, InSync, Applying

\* So has an apply.
LEMMA ApplyEndsOnCourse ==
  ASSUME Fronts, NEW p \in Procs, NEW ok \in BOOLEAN, EndApply(p, ok), my[p].kind # "none",
         pc[p] \in Applying, Router'
  PROVE  Courses(p)'
  <1>1. CASE routing = p BY <1>1, SyncEndsOnCourse DEF EndApply
  <1>2. CASE routing # p
    <2> DEFINE there == AfterApply(p, ok)
    <2>1. my[p].kind \in {"on", "off", "deploy", "loop"}
      BY <1>2 DEF Fronts, Typed, HandlersTyped, LocalRecords, Fits, Kinds
    <2>2. there \in {"column", "sleeping", "stop", "done"}
      BY <2>1 DEF AfterApply
    <2>3. pc' = [pc EXCEPT ![p] = there] BY <1>2 DEF EndApply, Leave
    <2> HIDE DEF there
    <2>4. pc'[p] = there BY <2>3 DEF Fronts, Typed, HandlersTyped
    <2> QED BY <2>2, <2>4 DEF Courses, InSync, Applying
  <1> QED BY <1>1, <1>2

\* And so has a sync that goes on to the backends.
LEMMA BackendsOnCourse ==
  ASSUME Fronts, NEW p \in Procs, ToBackends(p), my[p].kind # "none",
         IF my[p].held THEN Router' /\ Fronted(row') ELSE p = "loop" /\ ~row'.sleeps /\ NoRouterYet'
  PROVE  Courses(p)'
  <1>1. CASE Scopes(p)
    <2>1. pc'[p] = "scope" /\ my'[p] = my[p]
      BY <1>1 DEF ToBackends, Fronts, Typed, HandlersTyped
    <2>2. Fronted(row)' = Fronted(row') BY DEF Fronted
    <2> HIDE DEF Fronted
    <2> QED BY <2>1, <2>2 DEF Courses, InSync, Applying
  <1>2. CASE ~Scopes(p)
    <2>1. EndSync(p, TRUE) BY <1>2 DEF ToBackends
    <2> QED BY <2>1, SyncEndsOnCourse
  <1> QED BY <1>1, <1>2

\* A job brings the labels it read, and those were stored in order.
LEMMA JobsFront ==
  ASSUME FrontedForGood, Fronts, NEW a \in Apps, Job(a)
  PROVE  WebFirst' /\ \A q \in Procs : Courses(q)'
  <1>1. WebFirst /\ OutsideTyped /\ a \in {"app", "web"} BY DEF Fronts, Typed, Apps
  <1>2. \A f : Spend(f) => f \in {"restart", "lost"} BY DEF Spend, FrontedForGood
  <1>3. row' = row /\ UNCHANGED <<pc, my>>
    BY DEF Job, JobStarts, JobReplaces, JobEnds, procs
  <1>4. WebFirst' /\ Calm /\ (NoRouterYet => NoRouterYet')
    <2> USE DEF OutsideTyped
    <2>1. CASE JobStarts(a)
      <3>1. /\ job[a] = "queued" /\ job' = [job EXCEPT ![a] = "running"]
            /\ carried' = [carried EXCEPT ![a] = stored[a]]
            /\ UNCHANGED <<stored, live, fresh>>
        BY <1>2, <2>1 DEF JobStarts
      <3> QED BY <1>1, <1>3, <3>1 DEF WebFirst, Calm, NoRouterYet, Router, Fronted
    <2>2. CASE JobReplaces(a)
      <3>1. /\ job[a] = "running" /\ job' = [job EXCEPT ![a] = "closing"]
            /\ live' = [live EXCEPT ![a] = carried[a]]
            /\ carried' = [carried EXCEPT ![a] = {}]
            /\ fresh' \subseteq fresh \cup {a} /\ stored' = stored
        BY <2>2 DEF JobReplaces
      <3> QED BY <1>1, <1>3, <3>1 DEF WebFirst, Calm, NoRouterYet, Router, Fronted
    <2>3. CASE JobEnds(a)
      <3>1. /\ job[a] = "closing" /\ job' = [job EXCEPT ![a] = "none"]
            /\ carried' = [carried EXCEPT ![a] = {}]
            /\ UNCHANGED <<stored, live, fresh>>
        BY <1>2, <2>3 DEF JobEnds
      <3> QED BY <1>1, <1>3, <3>1 DEF WebFirst, Calm, NoRouterYet, Router, Fronted
    <2> QED BY <2>1, <2>2, <2>3 DEF Job
  <1> QED BY <1>3, <1>4, StaysOnCourse

\* A handler's step moves no other handler.
LEMMA OthersSame ==
  ASSUME Typed, NEW p \in Procs,
         \/ \E there : Leave(p, there)
         \/ \E there, mine : pc' = [pc EXCEPT ![p] = there] /\ my' = [my EXCEPT ![p] = mine]
         \/ \E there : pc' = [pc EXCEPT ![p] = there] /\ UNCHANGED my
         \/ \E ok : EndSync(p, ok) \/ EndApply(p, ok)
         \/ ToBackends(p)
  PROVE  \A q \in Procs \ {p} : pc'[q] = pc[q] /\ my'[q] = my[q]
  <1>1. pc \in [Procs -> PCs] /\ my \in [Procs -> LocalRecords] BY DEF Typed, HandlersTyped
  <1>2. ASSUME NEW there, Leave(p, there)
        PROVE  \A q \in Procs \ {p} : pc'[q] = pc[q] /\ my'[q] = my[q]
    BY <1>1, <1>2 DEF Leave
  <1>3. ASSUME NEW ok, EndSync(p, ok)
        PROVE  \A q \in Procs \ {p} : pc'[q] = pc[q] /\ my'[q] = my[q]
    BY <1>2, <1>3 DEF EndSync
  <1>4. ASSUME NEW ok, EndApply(p, ok)
        PROVE  \A q \in Procs \ {p} : pc'[q] = pc[q] /\ my'[q] = my[q]
    BY <1>2, <1>3, <1>4 DEF EndApply
  <1>5. ASSUME ToBackends(p)
        PROVE  \A q \in Procs \ {p} : pc'[q] = pc[q] /\ my'[q] = my[q]
    BY <1>1, <1>3, <1>5 DEF ToBackends
  <1>6. ASSUME NEW there, NEW mine,
               pc' = [pc EXCEPT ![p] = there], my' = [my EXCEPT ![p] = mine] \/ UNCHANGED my
        PROVE  \A q \in Procs \ {p} : pc'[q] = pc[q] /\ my'[q] = my[q]
    BY <1>1, <1>6
  <1> QED BY <1>2, <1>3, <1>4, <1>5, <1>6

\* If the handler that took a step is on course, all are: a handler that found no
\* router holds ROUTING_LOCK, so nobody else wrote one.
LEMMA Rest ==
  ASSUME Fronts, NEW p \in Procs, Courses(p)', Calm,
         \A q \in Procs \ {p} : pc'[q] = pc[q] /\ my'[q] = my[q],
         NoRouterYet => NoRouterYet' \/ routing = p
  PROVE  \A q \in Procs : Courses(q)'
  <1>1. ASSUME NEW q \in Procs \ {p}, pc[q] \in InSync /\ NoRouterYet PROVE NoRouterYet'
    <2>1. routing = q BY <1>1, Facts DEF Fronts
    <2> QED BY <1>1, <2>1
  <1>2. \A q \in Procs \ {p} : Courses(q)' BY <1>1, StaysOnCourse
  <1> QED BY <1>2

\* A step that touches no labels and no job of the static host.
LEMMA StillFirst ==
  ASSUME Fronts, UNCHANGED <<stored, carried, live>>, job'["web"] = job["web"],
         fresh' \subseteq fresh \cup {"app"}, Fronted(row) => Fronted(row')
  PROVE  WebFirst' /\ (NoRouterYet => NoRouterYet')
  <1>1. WebFirst BY DEF Fronts
  <1>2. "web" \in fresh' => "web" \in fresh OBVIOUS
  <1>3. Fronted(row)' = Fronted(row') BY DEF Fronted
  <1> HIDE DEF Fronted
  <1> QED BY <1>1, <1>2, <1>3 DEF WebFirst, NoRouterYet, Router

\* The sync: the routers are written, deployed and waited for.
LEMMA SyncFronts ==
  ASSUME FrontedForGood, Fronts, NEW p \in Procs, Sync(p)
  PROVE  WebFirst' /\ \A q \in Procs : Courses(q)'
  <1>1. Typed /\ WebFirst /\ OutsideTyped /\ Courses(p) /\ Fits(p) /\ my[p] \in LocalRecords
        /\ pc \in [Procs -> PCs] /\ my \in [Procs -> LocalRecords]
    BY Facts DEF Fronts, Typed, HandlersTyped
  <1>2. CASE SyncStarts(p)
    <2>1. /\ pc[p] = "sync" /\ pc' = [pc EXCEPT ![p] = "look"]
          /\ my'[p].held = Fronted(row) /\ UNCHANGED <<row, stored, carried, live, job, fresh>>
      BY <1>1, <1>2 DEF SyncStarts, LocalRecords, coolify
    <2>2. /\ pc'[p] = "look"
          /\ ~Fronted(row) => p = "loop" /\ ~row.sleeps /\ NoRouterYet
      BY <1>1, <2>1 DEF Courses, WebFirst, Fronted, Typed, Rows
    <2>3. Fronted(row') = Fronted(row) BY <2>1
    <2>4. WebFirst' /\ (NoRouterYet => NoRouterYet') BY <2>1, <2>3, StillFirst
    <2>5. Courses(p)' BY <2>1, <2>2, <2>3, <2>4 DEF Courses, InSync, Applying, Fronted
    <2>6. \A q \in Procs \ {p} : pc'[q] = pc[q] /\ my'[q] = my[q]
      BY <1>1, <1>2 DEF SyncStarts
    <2>7. Calm BY <2>1, <2>3, RowCalm
    <2> QED BY <2>4, <2>5, <2>6, <2>7, Rest
  <1>3. CASE SyncLooks(p)
    <2>1. /\ pc[p] = "look" /\ UNCHANGED <<row, stored, carried, live, job, fresh>>
          /\ my[p].kind # "none"
      BY <1>3, Facts, <1>1 DEF SyncLooks, coolify
    <2>2. IF my[p].held THEN Fronted(row) ELSE p = "loop" /\ ~row.sleeps /\ NoRouterYet
      BY <1>1, <2>1 DEF Courses, InSync
    <2>3. Fronted(row') = Fronted(row) BY <2>1
    <2>4. WebFirst' /\ (NoRouterYet => NoRouterYet') BY <2>1, <2>3, StillFirst
    <2>5. Calm BY <2>1, <2>3, RowCalm
    <2>6. CASE Routers(my[p].held) = live["web"]
      <3>1. ToBackends(p) BY <1>3, <2>6 DEF SyncLooks, Spend, FrontedForGood
      <3>2. my[p].held => Router' BY <2>1, <2>6 DEF Routers, Router
      <3>3. IF my[p].held THEN Router' /\ Fronted(row') ELSE p = "loop" /\ ~row'.sleeps /\ NoRouterYet'
        BY <2>1, <2>2, <2>3, <2>4, <3>2
      <3>4. Courses(p)' BY <2>1, <3>1, <3>3, BackendsOnCourse
      <3> QED BY <1>1, <2>4, <2>5, <3>1, <3>4, OthersSame, Rest
    <2>7. CASE Routers(my[p].held) # live["web"]
      <3>1. pc' = [pc EXCEPT ![p] = "label"] /\ UNCHANGED my
        BY <1>3, <2>7 DEF SyncLooks, Spend, FrontedForGood
      <3>2. my[p].held
        <4>1. live["web"] \in {{}, {"route"}} BY <1>1 DEF WebFirst
        <4>2. ~my[p].held => live["web"] = {} BY <2>2, <4>1 DEF NoRouterYet, Router
        <4> QED BY <2>7, <4>2 DEF Routers
      <3>3. pc'[p] = "label" /\ my'[p] = my[p] BY <1>1, <3>1
      <3>4. Courses(p)' BY <2>2, <2>3, <3>2, <3>3 DEF Courses, InSync, Applying, Fronted
      <3> QED BY <1>1, <2>4, <2>5, <3>1, <3>4, OthersSame, Rest
    <2> QED BY <2>6, <2>7
  <1>4. CASE SyncLabels(p)
    <2>1. /\ pc[p] = "label" /\ pc' = [pc EXCEPT ![p] = "ask"]
          /\ fresh' = fresh \ {"web"}
          /\ stored' = [stored EXCEPT !["web"] = Routers(my[p].held)]
          /\ UNCHANGED <<row, my, carried, live, job>>
      BY <1>4 DEF SyncLabels
    <2>2. my[p].held /\ routing = p BY <1>1, <2>1 DEF Courses, Fits, InSync
    <2>3. stored'["web"] = {"route"} /\ stored'["app"] = stored["app"]
      BY <1>1, <2>1, <2>2 DEF OutsideTyped, Apps, Routers
    <2>4. Fronted(row) /\ Fronted(row') = Fronted(row)
      BY <1>1, <2>1, <2>2 DEF Courses, InSync
    <2>5. WebFirst'
      BY <1>1, <2>1, <2>3, <2>4 DEF WebFirst, NoRouterYet, Router
    <2>6. Calm BY <2>1, <2>3 DEF Calm, Router
    <2>7. pc'[p] = "ask" /\ my'[p] = my[p] BY <1>1, <2>1
    <2>8. Courses(p)' BY <2>2, <2>3, <2>4, <2>7 DEF Courses, InSync, Applying, Fronted
    <2> QED BY <1>1, <2>1, <2>2, <2>5, <2>6, <2>8, OthersSame, Rest
  <1>5. CASE SyncDeploys(p)
    <2>1. /\ pc[p] = "ask" /\ pc' = [pc EXCEPT ![p] = "verify"] /\ Deploy("web")
          /\ UNCHANGED <<row, my, stored, carried, live, fresh>>
      BY <1>5 DEF SyncDeploys, Spend, FrontedForGood
    <2>2. /\ "route" \in stored["web"] /\ my[p].held /\ Fronted(row)
      BY <1>1, <2>1 DEF Courses, InSync
    <2>3. job'["web"] = (IF job["web"] = "none" THEN "queued" ELSE job["web"])
      BY <1>1, <2>1 DEF Deploy, OutsideTyped, Apps
    <2>4. Fronted(row') = Fronted(row) BY <2>1
    <2>5. WebFirst' BY <1>1, <2>1, <2>2, <2>3, <2>4 DEF WebFirst, NoRouterYet, Router
    <2>6. Calm BY <2>1, <2>3 DEF Calm, Router
    <2>7. ~NoRouterYet BY <2>2 DEF NoRouterYet
    <2>8. pc'[p] = "verify" /\ my'[p] = my[p] BY <1>1, <2>1
    <2>9. Courses(p)' BY <2>1, <2>2, <2>3, <2>8 DEF Courses, InSync, Applying, Fronted
    <2> QED BY <1>1, <2>1, <2>5, <2>6, <2>7, <2>9, OthersSame, Rest
  <1>6. CASE SyncVerifies(p)
    <2>1. /\ pc[p] = "verify" /\ UNCHANGED <<row, stored, carried, live, job>>
          /\ fresh' = fresh \ {"web"} /\ my[p].kind # "none"
      BY <1>1, <1>6, Facts DEF SyncVerifies
    <2>2. /\ ToBackends(p) \/ EndSync(p, TRUE)
          /\ "web" \in fresh \/ job["web"] = "none"
      BY <1>6 DEF SyncVerifies
    <2>3. Router /\ my[p].held /\ Fronted(row)
      BY <1>1, <2>1, <2>2 DEF Courses, InSync, WebFirst
    <2>4. Router' /\ Fronted(row') /\ Fronted(row') = Fronted(row) BY <2>1, <2>3 DEF Router
    <2>5. WebFirst' /\ (NoRouterYet => NoRouterYet') BY <2>1, <2>4, StillFirst
    <2>6. Calm BY <2>1, <2>4, RowCalm
    <2>7. Courses(p)' BY <2>1, <2>2, <2>3, <2>4, BackendsOnCourse, SyncEndsOnCourse
    <2> QED BY <1>1, <2>2, <2>5, <2>6, <2>7, OthersSame, Rest
  <1>7. CASE SyncScopes(p)
    <2>1. /\ pc[p] = "scope" /\ UNCHANGED <<row, stored, carried, live, job, fresh>>
          /\ my[p].kind # "none"
      BY <1>1, <1>7, Facts DEF SyncScopes, coolify
    <2>2. IF my[p].held THEN Router ELSE p = "loop" /\ ~row.sleeps /\ NoRouterYet
      BY <1>1, <2>1 DEF Courses, InSync
    <2>3. Fronted(row') = Fronted(row) BY <2>1
    <2>4. WebFirst' /\ (NoRouterYet => NoRouterYet') BY <2>1, <2>3, StillFirst
    <2>5. Calm BY <2>1, <2>3, RowCalm
    <2>6. CASE my[p].held \/ "marker" \in live["app"]
      <3> DEFINE mine == [my[p] EXCEPT !.fronted = my[p].held,
                            !.sleeps = IF my[p].held THEN @ ELSE row.sleeps]
      <3>1. /\ pc' = [pc EXCEPT ![p] = "apply"] /\ my' = [my EXCEPT ![p] = mine]
        BY <1>1, <1>7, <2>6 DEF SyncScopes
      <3>2. Router'
        <4>1. "marker" \in live["app"] => Router BY <1>1 DEF WebFirst
        <4> QED BY <2>1, <2>2, <2>6, <4>1 DEF Router
      <3> HIDE DEF mine
      <3>3. pc'[p] = "apply" BY <1>1, <3>1
      <3>4. Courses(p)' BY <3>2, <3>3 DEF Courses, InSync, Applying
      <3> QED BY <1>1, <2>4, <2>5, <3>1, <3>4, OthersSame, Rest
    <2>7. CASE ~(my[p].held \/ "marker" \in live["app"])
      <3>1. EndSync(p, TRUE) BY <1>7, <2>7 DEF SyncScopes
      <3>2. Courses(p)' BY <2>1, <2>2, <2>7, <3>1, SyncEndsOnCourse
      <3> QED BY <1>1, <2>4, <2>5, <3>1, <3>2, OthersSame, Rest
    <2> QED BY <2>6, <2>7
  <1> QED BY <1>2, <1>3, <1>4, <1>5, <1>6, <1>7 DEF Sync

\* The labels of a backend are written with the router there.
LEMMA ApplyFronts ==
  ASSUME FrontedForGood, Fronts, NEW p \in Procs, Apply(p)
  PROVE  WebFirst' /\ \A q \in Procs : Courses(q)'
  <1>1. Typed /\ WebFirst /\ OutsideTyped /\ Courses(p) /\ Fits(p) /\ my[p] \in LocalRecords
        /\ pc \in [Procs -> PCs] /\ my \in [Procs -> LocalRecords]
    BY Facts DEF Fronts, Typed, HandlersTyped
  <1>2. pc[p] \in Applying BY DEF Apply, ApplyReads, ApplyWrites, ApplyDeploys, Applying
  <1>3. Router /\ my[p].kind # "none" BY <1>1, <1>2 DEF Courses, Applying, Fits
  <1>4. CASE ApplyReads(p)
    <2>1. UNCHANGED <<row, stored, carried, live, job, fresh>> BY <1>4 DEF ApplyReads, coolify
    <2>2. Fronted(row') = Fronted(row) BY <2>1
    <2>3. WebFirst' /\ (NoRouterYet => NoRouterYet') BY <2>1, <2>2, StillFirst
    <2>4. Calm BY <2>1, <2>2, RowCalm
    <2>5. Router' BY <1>3, <2>1 DEF Router
    <2>6. CASE EndApply(p, ~gone)
      <3>1. (~gone) \in BOOLEAN OBVIOUS
      <3>2. Courses(p)' BY <1>2, <1>3, <2>5, <2>6, <3>1, ApplyEndsOnCourse
      <3> QED BY <1>1, <2>3, <2>4, <2>6, <3>2, OthersSame, Rest
    <2>7. CASE ~EndApply(p, ~gone)
      <3> DEFINE mine == [my[p] EXCEPT !.want = Backend(my[p].sleeps, my[p].fronted)]
      <3>1. pc' = [pc EXCEPT ![p] = "write"] /\ my' = [my EXCEPT ![p] = mine]
        BY <1>1, <1>4, <2>7 DEF ApplyReads
      <3> HIDE DEF mine
      <3>2. pc'[p] = "write" BY <1>1, <3>1
      <3>3. Courses(p)' BY <2>5, <3>2 DEF Courses, InSync, Applying
      <3> QED BY <1>1, <2>3, <2>4, <3>1, <3>3, OthersSame, Rest
    <2> QED BY <2>6, <2>7
  <1>5. CASE ApplyWrites(p)
    <2>1. /\ stored' = [stored EXCEPT !["app"] = my[p].want]
          /\ pc' = [pc EXCEPT ![p] = "recycle"]
          /\ UNCHANGED <<row, my, carried, live, job, fresh>>
      BY <1>5 DEF ApplyWrites
    <2>2. stored'["web"] = stored["web"] BY <1>1, <2>1 DEF OutsideTyped, Apps
    <2>3. WebFirst' /\ (NoRouterYet => NoRouterYet')
      BY <1>1, <1>3, <2>1, <2>2 DEF WebFirst, NoRouterYet, Router, Fronted
    <2>4. Calm BY <2>1, <2>2 DEF Calm, Router
    <2>5. pc'[p] = "recycle" /\ Router' BY <1>1, <1>3, <2>1 DEF Router
    <2>6. Courses(p)' BY <2>5 DEF Courses, InSync, Applying
    <2> QED BY <1>1, <2>1, <2>3, <2>4, <2>6, OthersSame, Rest
  <1>6. CASE ApplyDeploys(p)
    <2>1. /\ row' = [row EXCEPT !.enrolled = my[p].sleeps]
          /\ EndApply(p, TRUE) /\ Deploy("app")
          /\ UNCHANGED <<stored, carried, live, fresh>>
      BY <1>6 DEF ApplyDeploys, Spend, FrontedForGood
    <2>2. job'["web"] = job["web"] BY <1>1, <2>1 DEF Deploy, OutsideTyped, Apps
    <2>3. row'.sleeps = row.sleeps /\ row'.front = row.front
      BY <1>1, <2>1 DEF Typed, Rows
    <2>4. Fronted(row') = Fronted(row) BY <2>3 DEF Fronted
    <2>5. WebFirst' /\ (NoRouterYet => NoRouterYet') BY <2>1, <2>2, <2>4, StillFirst
    <2>6. Calm BY <2>1, <2>2, <2>3, <2>4 DEF Calm, Router
    <2>7. Router' BY <1>3, <2>1 DEF Router
    <2>8. Courses(p)' BY <1>2, <1>3, <2>1, <2>7, ApplyEndsOnCourse
    <2> QED BY <1>1, <2>1, <2>5, <2>6, <2>8, OthersSame, Rest
  <1> QED BY <1>4, <1>5, <1>6 DEF Apply

\* Everything else handlers and the loop do.
LEMMA TurnsFront ==
  ASSUME FrontedForGood, Fronts, NEW p \in Procs,
         Reread(p) \/ Column(p) \/ Settle(p) \/ SleepAfterDeploy(p) \/ Fetch(p)
           \/ Reconciles(p) \/ Hour(p)
  PROVE  WebFirst' /\ \A q \in Procs : Courses(q)'
  <1>1. Typed /\ WebFirst /\ OutsideTyped /\ Courses(p) /\ my[p] \in LocalRecords
        /\ pc \in [Procs -> PCs] /\ my \in [Procs -> LocalRecords]
    BY Facts DEF Fronts, Typed, HandlersTyped
  <1>2. /\ UNCHANGED <<stored, carried, live>> /\ fresh' \subseteq fresh
        /\ row'.sleeps = row.sleeps /\ row'.front = row.front
        /\ job'["web"] = job["web"] /\ (job["web"] # "none" => job'["web"] # "none")
    BY <1>1 DEF Reread, Column, Settle, SleepAfterDeploy, Fetch, Reconciles, Hour, coolify,
                Deploy, OutsideTyped, Apps, Typed, Rows
  <1>3. Fronted(row') = Fronted(row) BY <1>2 DEF Fronted
  <1>4. WebFirst' /\ (NoRouterYet => NoRouterYet') BY <1>2, <1>3, StillFirst
  <1>5. Calm BY <1>2, <1>3 DEF Calm, Router
  <1>6. /\ \A q \in Procs \ {p} : pc'[q] = pc[q] /\ my'[q] = my[q]
        /\ Courses(p)'
    <2>1. CASE Reread(p)
      <3>1. pc[p] = "reread" /\ pc' = [pc EXCEPT ![p] = "apply"] BY <2>1 DEF Reread
      <3>2. pc'[p] = "apply" /\ Router' BY <1>1, <1>2, <3>1 DEF Courses, Router
      <3>3. \A q \in Procs \ {p} : pc'[q] = pc[q] /\ my'[q] = my[q]
        BY <1>1, <2>1 DEF Reread
      <3> QED BY <3>2, <3>3 DEF Courses, InSync, Applying
    <2>2. CASE Column(p) \/ SleepAfterDeploy(p)
      <3>1. PICK there \in {"sleeping", "done"} : Leave(p, there)
        BY <2>2 DEF Column, SleepAfterDeploy
      <3>2. pc'[p] = there BY <1>1, <3>1 DEF Leave
      <3> QED BY <1>1, <3>1, <3>2, OthersSame DEF Courses, InSync, Applying
    <2>3. CASE Settle(p)
      <3>1. CASE Leave(p, "done")
        <4>1. pc'[p] = "done" BY <1>1, <3>1 DEF Leave
        <4> QED BY <1>1, <3>1, <4>1, OthersSame DEF Courses, InSync, Applying
      <3>2. CASE ~Leave(p, "done")
        <4>1. pc[p] = "settle" /\ UNCHANGED <<row, my>> BY <2>3, <3>2 DEF Settle
        <4>2. PICK there \in {"sync", "stop"} :
                 pc' = [pc EXCEPT ![p] = there] /\ (there = "sync" => my[p].sleeps)
          BY <2>3, <3>2 DEF Settle
        <4>3. pc'[p] = there /\ (there = "sync" => Fronted(row'))
          BY <1>1, <4>1, <4>2 DEF Courses, Fronted
        <4>4. Courses(p)' BY <4>2, <4>3 DEF Courses, InSync, Applying, Fronted
        <4> QED BY <1>1, <4>1, <4>2, <4>4, OthersSame
      <3> QED BY <3>1, <3>2
    <2>4. CASE Fetch(p)
      <3>1. p = "loop" /\ pc[p] = "fetch" BY <2>4 DEF Fetch
      <3>2. CASE Leave(p, "sleeping")
        <4>1. pc'[p] = "sleeping" BY <1>1, <3>2 DEF Leave
        <4> QED BY <1>1, <3>2, <4>1, OthersSame DEF Courses, InSync, Applying
      <3>3. CASE ~Leave(p, "sleeping")
        <4>1. row.sleeps /\ pc' = [pc EXCEPT ![p] = "check"] BY <2>4, <3>3 DEF Fetch
        <4>2. pc'[p] = "check" /\ Router' BY <1>1, <1>2, <3>1, <4>1 DEF Courses, Router
        <4>3. \A q \in Procs \ {p} : pc'[q] = pc[q] /\ my'[q] = my[q]
          BY <1>1, <2>4, <3>3 DEF Fetch
        <4> QED BY <4>2, <4>3 DEF Courses, InSync, Applying
      <3> QED BY <3>2, <3>3
    <2>5. CASE Reconciles(p)
      <3>1. PICK there \in {"sleeping", "apply"} : Leave(p, there) BY <2>5 DEF Reconciles
      <3>2. pc[p] = "check" BY <2>5 DEF Reconciles
      <3>3. pc'[p] = there /\ Router' BY <1>1, <1>2, <3>1, <3>2 DEF Leave, Courses, Router
      <3> QED BY <1>1, <3>1, <3>3, OthersSame DEF Courses, InSync, Applying
    <2>6. CASE Hour(p)
      <3>1. p = "loop" /\ pc' = [pc EXCEPT ![p] = "sync"] /\ UNCHANGED my BY <2>6 DEF Hour
      <3>2. pc'[p] = "sync" BY <1>1, <3>1
      <3> QED BY <1>1, <3>1, <3>2, OthersSame DEF Courses, InSync, Applying
    <2> QED BY <2>1, <2>2, <2>3, <2>4, <2>5, <2>6
  <1> QED BY <1>4, <1>5, <1>6, Rest

\* A request makes its app fronted, or deploys code.
LEMMA BeginFronts ==
  ASSUME FrontedForGood, Fronts, NEW p \in Handlers, NEW kind \in Requests,
         Begin(p, kind) \/ DeployBegins(p, kind)
  PROVE  WebFirst' /\ \A q \in Procs : Courses(q)'
  <1>1. Typed /\ WebFirst /\ OutsideTyped /\ p \in Procs /\ p # "loop"
        /\ pc \in [Procs -> PCs] /\ my \in [Procs -> LocalRecords] /\ row \in Rows
    BY NotFree DEF Fronts, Typed, HandlersTyped
  <1>2. kind \in {"on", "publish", "deploy"} /\ (Sweep => kind # "on")
    BY DEF FrontedForGood
  <1>3. CASE Begin(p, kind)
    <2>1. /\ pc' = [pc EXCEPT ![p] = "sync"] /\ my' = [my EXCEPT ![p] = Locals(kind)]
          /\ row' = [row EXCEPT !.sleeps = TRUE] \/ row' = [row EXCEPT !.front = TRUE]
          /\ Sweep => row' = [row EXCEPT !.front = TRUE]
          /\ UNCHANGED <<stored, carried, live, job, fresh>>
      BY <1>2, <1>3 DEF Begin, coolify
    <2>2. Fronted(row') /\ (row.sleeps => row'.sleeps) /\ (Sweep => row'.sleeps = row.sleeps)
      BY <1>1, <2>1 DEF Rows, Fronted
    <2>3. WebFirst' /\ (NoRouterYet => NoRouterYet') BY <2>1, <2>2, StillFirst
    <2>4. Calm BY <2>1, <2>2, RowCalm
    <2>5. pc'[p] = "sync" BY <1>1, <2>1
    <2>6. Courses(p)' BY <2>2, <2>5 DEF Courses, InSync, Applying, Fronted
    <2> QED BY <1>1, <2>1, <2>3, <2>4, <2>6, OthersSame, Rest
  <1>4. CASE DeployBegins(p, kind)
    <2> DEFINE mine == [Locals(kind) EXCEPT !.sleeps = row.sleeps,
                          !.enrolled = row.enrolled, !.fronted = TRUE]
    <2>1. /\ pc' = [pc EXCEPT ![p] = "settle"] /\ my' = [my EXCEPT ![p] = mine]
          /\ fresh' = fresh \ {"app"} /\ Deploy("app")
          /\ UNCHANGED <<row, stored, carried, live>>
      BY <1>4 DEF DeployBegins
    <2>2. mine.sleeps = row.sleeps BY DEF Locals
    <2> HIDE DEF mine
    <2>3. job'["web"] = job["web"] BY <1>1, <2>1 DEF Deploy, OutsideTyped, Apps
    <2>4. Fronted(row') = Fronted(row) BY <2>1
    <2>5. WebFirst' /\ (NoRouterYet => NoRouterYet') BY <2>1, <2>3, <2>4, StillFirst
    <2>6. Calm BY <2>1, <2>3, <2>4 DEF Calm, Router
    <2>7. pc'[p] = "settle" /\ my'[p] = mine BY <1>1, <2>1
    <2>8. Courses(p)' BY <2>1, <2>2, <2>7 DEF Courses, InSync, Applying
    <2> QED BY <1>1, <2>1, <2>5, <2>6, <2>8, OthersSame, Rest
  <1> QED BY <1>3, <1>4

\* A confirmation only deploys the app.
LEMMA ConfirmFronts ==
  ASSUME Fronts, NEW want \in SUBSET AppLabels, Confirm(want)
  PROVE  WebFirst' /\ \A q \in Procs : Courses(q)'
  <1>1. UNCHANGED <<row, stored, carried, live, fresh, pc, my>> BY DEF Confirm, procs
  <1>2. job'["web"] = job["web"]
    BY DEF Confirm, Deploy, Fronts, Typed, OutsideTyped, Apps
  <1>3. Fronted(row') = Fronted(row) BY <1>1
  <1>4. WebFirst' /\ (NoRouterYet => NoRouterYet') BY <1>1, <1>2, <1>3, StillFirst
  <1>5. Calm BY <1>1, <1>2, <1>3 DEF Calm, Router
  <1> QED BY <1>1, <1>4, <1>5, StaysOnCourse

\* A lost container has no labels, and a restart leaves no handler past a sync.
LEMMA FaultsFront ==
  ASSUME FrontedForGood, Fronts, Outside \/ Restart
  PROVE  WebFirst' /\ \A q \in Procs : Courses(q)'
  <1>1. WebFirst /\ OutsideTyped BY DEF Fronts, Typed
  <1>2. ~ForeignDeploy BY DEF ForeignDeploy, Spend, FrontedForGood
  <1>3. CASE ContainerLost
    <2>1. /\ live' = [live EXCEPT !["app"] = {}]
          /\ UNCHANGED <<row, stored, carried, job, fresh, pc, my>>
      BY <1>3 DEF ContainerLost, procs
    <2>2. live'["web"] = live["web"] /\ live'["app"] = {}
      BY <1>1, <2>1 DEF OutsideTyped, Apps
    <2>3. WebFirst' /\ (NoRouterYet => NoRouterYet')
      BY <1>1, <2>1, <2>2 DEF WebFirst, NoRouterYet, Router, Fronted
    <2>4. Calm BY <2>1, <2>2 DEF Calm, Router
    <2> QED BY <2>1, <2>3, <2>4, StaysOnCourse
  <1>4. CASE Restart
    <2>1. /\ UNCHANGED <<row, stored, carried, live, job, fresh>>
          /\ pc' = [p \in Procs |-> IF p = "loop" THEN "sync"
                                    ELSE IF pc[p] = "idle" THEN "idle" ELSE "done"]
      BY <1>4 DEF Restart, coolify
    <2>2. Fronted(row') = Fronted(row) BY <2>1
    <2>3. WebFirst' BY <2>1, <2>2, StillFirst
    <2>4. \A p \in Procs : pc'[p] \in {"sync", "idle", "done"} /\ (pc'[p] = "sync" => p = "loop")
      BY <2>1
    <2>5. \A p \in Procs : Courses(p)' BY <2>4 DEF Courses, InSync, Applying
    <2> QED BY <2>3, <2>5
  <1> QED BY <1>2, <1>3, <1>4 DEF Outside

\* The invariant is kept.
LEMMA NextFronts == FrontedForGood /\ Fronts /\ [Next]_vars => Fronts'
  <1> SUFFICES ASSUME FrontedForGood, Fronts, [Next]_vars
               PROVE  WebFirst' /\ \A q \in Procs : Courses(q)'
    BY NextTyped DEF Fronts
  <1>1. CASE UNCHANGED vars
    <2>1. UNCHANGED <<row, stored, carried, live, job, fresh, pc, my>>
      BY <1>1 DEF vars, coolify, procs
    <2>2. Fronted(row') = Fronted(row) BY <2>1
    <2>3. WebFirst' /\ (NoRouterYet => NoRouterYet') BY <2>1, <2>2, StillFirst
    <2>4. Calm BY <2>1, <2>2, RowCalm
    <2> QED BY <2>1, <2>3, <2>4, StaysOnCourse
  <1>2. ASSUME NEW p \in Procs, Handle(p) PROVE WebFirst' /\ \A q \in Procs : Courses(q)'
    BY <1>2, SyncFronts, ApplyFronts, TurnsFront DEF Handle
  <1> QED BY <1>1, <1>2, JobsFront, BeginFronts, ConfirmFronts, FaultsFront DEF Next

\* While nobody gives a front up, whatever two or two hundred requests, the sweep,
\* dropped deploys, lost containers and restarts do to each other: a backend gives
\* up its hostname, or becomes one that may be stopped, only when the static host's
\* container carries the router that takes its place.  (routing._sync: the routers
\* are written and verified before any backend is scoped)
THEOREM RouterComesFirst == ASSUME FrontedForGood PROVE Spec => []FrontedFirst
  <1>1. Init => Fronts BY InitTyped, FrontsFromStart DEF Fronts
  <1>2. Fronts /\ [Next]_vars => Fronts' BY NextFronts
  <1>3. Fronts => FrontedFirst BY DEF Fronts, WebFirst, Router, FrontedFirst
  <1> QED BY <1>1, <1>2, <1>3, PTL DEF Spec
=============================================================================
