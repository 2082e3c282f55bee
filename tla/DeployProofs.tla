---------------------------- MODULE DeployProofs ----------------------------
(***************************************************************************)
(* Proofs about Deploy, for every number of requests, tags, pushes, faults *)
(* and restarts.                                                           *)
(***************************************************************************)
EXTENDS Deploy, TLAPS

\* Wherever a reference is about to be resolved there is one: the request
\* named it, or the row did, and apps.image is never cleared.
RefOK ==
  \A p \in Procs :
    /\ pc[p] \in {"pull", "target", "decide", "create", "set", "deploy",
                  "applied", "verify", "record"} => ref[p] \in Tags
    /\ applying[p] /\ pc[p] \in {"settle", "verify", "repull"} => image \in Tags
    /\ pc[p] \in {"applied", "settle", "repull"} => applying[p]
    /\ pc[p] = "wait" /\ asked[p] \notin Tags =>
         p \in Refreshes /\ image # NoTag /\ coolifyUuid

TypeInv == TypeOK /\ RefOK

\* What every step that notes a start time leaves of the two containers.
LEMMA NoteStartType ==
  ASSUME NEW p \in Procs, cur \in Container, cand \in Container, NoteStart(p)
  PROVE  cur' \in Container /\ cand' \in Container
BY DEF NoteStart, Container

LEMMA NewestType ==
  ASSUME cur \in Container, cand \in Container
  PROVE  Newest \in Container
BY DEF Newest

LEMMA NoContainerType == NoContainer \in Container /\ 0 \in Images /\ 1 \in Images
BY DeployAssumption DEF NoContainer, Container, Images

\* What Forget leaves of the variables it resets.
LEMMA ForgetType ==
  ASSUME TypeOK, NEW gone \in SUBSET Procs, Forget(gone)
  PROVE  /\ dig' \in [Procs -> Images] /\ tgt' \in [Procs -> Images]
         /\ snapDigest' \in [Procs -> Images] /\ seen' \in [Procs -> Images]
         /\ snapEnrolled' \in [Procs -> BOOLEAN] /\ tracks' \in [Procs -> BOOLEAN]
         /\ ref' \in [Procs -> Tags \cup {NoTag}]
         /\ cur' \in Container /\ cand' \in Container
<1> USE DEF TypeOK, Forget
<1>1. cur' \in Container /\ cand' \in Container
  BY DEF Container
<1>2. /\ dig' \in [Procs -> Images] /\ tgt' \in [Procs -> Images]
      /\ snapDigest' \in [Procs -> Images] /\ seen' \in [Procs -> Images]
  BY NoContainerType
<1>3. snapEnrolled' \in [Procs -> BOOLEAN] /\ tracks' \in [Procs -> BOOLEAN]
  BY Zenon
<1>4. ref' \in [Procs -> Tags \cup {NoTag}]
  OBVIOUS
<1> QED
  BY <1>1, <1>2, <1>3, <1>4

LEMMA InitType == Init => TypeInv
<1> SUFFICES ASSUME Init PROVE TypeOK /\ RefOK
  BY DEF TypeInv
<1> USE DeployAssumption, NoContainerType DEF Init
<1>1. registry \in [Tags -> Images] /\ local \in [Tags -> Images]
  BY DEF Images
<1>2. /\ image \in Tags \cup {NoTag} /\ watchTag \in Tags \cup {NoTag}
      /\ cfg \in Tags \cup {NoTag} /\ deployedDigest \in Images
  BY DEF Images
<1>3. coolifyUuid \in BOOLEAN /\ enrolled \in BOOLEAN
  OBVIOUS
<1>4. cur \in Container /\ cand \in Container
  BY DEF Container
<1>5. faults \in 0 .. MaxFaults /\ restarts \in 0 .. MaxRestarts
  OBVIOUS
<1>6. TypeOK
  BY <1>1, <1>2, <1>3, <1>4, <1>5 DEF TypeOK, Steps
<1>7. RefOK
  BY DEF RefOK
<1> QED
  BY <1>6, <1>7

LEMMA NextType == TypeInv /\ [Next]_vars => TypeInv'
<1> SUFFICES ASSUME TypeOK, RefOK, [Next]_vars PROVE TypeOK' /\ RefOK'
  BY DEF TypeInv
<1> USE DeployAssumption DEF Procs, Goto, Fail, Pass, Steps, rowVars,
        boxVars, dataVars, histVars, envVars
<1>1. ASSUME NEW p \in Refreshes, RefreshPost(p) PROVE TypeOK' /\ RefOK'
  BY <1>1 DEF TypeOK, RefOK, RefreshPost
<1>2. ASSUME NEW p \in Refreshes \cup Updates, Acquire(p) PROVE TypeOK' /\ RefOK'
  BY <1>2 DEF TypeOK, RefOK, Acquire
<1>3. ASSUME NEW p \in Refreshes, Finish(p) PROVE TypeOK' /\ RefOK'
  <2>1. deploys' \in [Refreshes -> {"none", "queued", "succeeded", "failed"}]
    BY <1>3 DEF TypeOK, Finish, Verdict
  <2>2. faults' \in 0 .. MaxFaults
    BY <1>3 DEF TypeOK, Finish
  <2>3. pc' \in [Procs -> Steps]
    BY <1>3 DEF TypeOK, Finish
  <2>4. TypeOK'
    BY <1>3, <2>1, <2>2, <2>3 DEF TypeOK, Finish
  <2>5. RefOK'
    BY <1>3 DEF TypeOK, RefOK, Finish, Verdict
  <2> QED
    BY <2>4, <2>5
<1>4. ASSUME NEW p \in Updates, UpdatePut(p) PROVE TypeOK' /\ RefOK'
  BY <1>4 DEF TypeOK, RefOK, UpdatePut
<1>5. ASSUME NEW p \in Sweeps, SweepRead(p) PROVE TypeOK' /\ RefOK'
  BY <1>5 DEF TypeOK, RefOK, SweepRead
<1>6. ASSUME NEW p \in Procs, Pull(p) PROVE TypeOK' /\ RefOK'
  <2>1. local' \in [Tags -> Images] /\ dig' \in [Procs -> Images]
    <3>1. ref[p] \in Tags /\ registry[ref[p]] \in Images
      BY <1>6 DEF TypeOK, RefOK, Pull
    <3> QED
      BY <1>6, <3>1 DEF TypeOK, Pull
  <2>2. pc' \in [Procs -> Steps] /\ outcome' \in [Procs -> {"none", "pass", "fail"}]
    BY <1>6 DEF TypeOK, Pull
  <2>3. TypeOK'
    BY <1>6, <2>1, <2>2 DEF TypeOK, Pull
  <2>4. RefOK'
    BY <1>6 DEF TypeOK, RefOK, Pull
  <2> QED
    BY <2>3, <2>4
<1>7. ASSUME NEW p \in Procs, InspectTarget(p) PROVE TypeOK' /\ RefOK'
  BY <1>7 DEF TypeOK, RefOK, InspectTarget, Resolved, Images
<1>8. ASSUME NEW p \in Procs, Decide(p) PROVE TypeOK' /\ RefOK'
  <2>1. CASE Current(p) /\ UNCHANGED <<cur, cand>> /\ Pass(p)
             /\ seen' = [seen EXCEPT ![p] = Newest.image]
    <3>1. Newest.image \in Images
      BY NewestType DEF TypeOK, Container
    <3> QED
      BY <1>8, <2>1, <3>1 DEF TypeOK, RefOK, Decide
  <2>2. CASE NoteStart(p) /\ Goto(p, "set") /\ UNCHANGED <<outcome, seen>>
    BY <1>8, <2>2, NoteStartType DEF TypeOK, RefOK, Decide
  <2> QED
    BY <1>8, <2>1, <2>2 DEF TypeOK, RefOK, Decide
<1>9. ASSUME NEW p \in Procs, CreateApp(p) PROVE TypeOK' /\ RefOK'
  <2>1. TypeOK'
    <3>1. cur' \in Container /\ cand' \in Container
      BY <1>9, NoteStartType DEF TypeOK, CreateApp
    <3>2. cfg' \in Tags \cup {NoTag} /\ coolifyUuid' \in BOOLEAN
      <4>1. ref[p] \in Tags
        BY <1>9 DEF RefOK, CreateApp
      <4>2. coolifyUuid' \in BOOLEAN
        BY <1>9 DEF TypeOK, CreateApp
      <4>3. cfg' = cfg \/ cfg' = ref[p]
        BY <1>9 DEF CreateApp
      <4> QED
        BY <4>1, <4>2, <4>3 DEF TypeOK
    <3>3. tracks' \in [Procs -> BOOLEAN]
      BY <1>9 DEF TypeOK, CreateApp
    <3>4. pc' \in [Procs -> Steps] /\ outcome' \in [Procs -> {"none", "pass", "fail"}]
      BY <1>9 DEF TypeOK, CreateApp
    <3> QED
      BY <1>9, <3>1, <3>2, <3>3, <3>4 DEF TypeOK, RefOK, CreateApp
  <2>2. RefOK'
    BY <1>9 DEF TypeOK, RefOK, CreateApp
  <2> QED
    BY <2>1, <2>2
<1>10. ASSUME NEW p \in Procs, SetImage(p) PROVE TypeOK' /\ RefOK'
  <2>1. TypeOK'
    <3>1. cfg' \in Tags \cup {NoTag}
      BY <1>10 DEF TypeOK, RefOK, SetImage
    <3>2. pc' \in [Procs -> Steps] /\ outcome' \in [Procs -> {"none", "pass", "fail"}]
      <4>1. pc \in [Procs -> Steps] /\ outcome \in [Procs -> {"none", "pass", "fail"}]
        BY DEF TypeOK
      <4>2. CASE Goto(p, "deploy") /\ UNCHANGED outcome
        BY <4>1, <4>2
      <4>3. CASE Fail(p)
        BY <4>1, <4>3
      <4> QED
        BY <1>10, <4>2, <4>3 DEF SetImage
    <3> QED
      BY <1>10, <3>1, <3>2 DEF TypeOK, SetImage
  <2>2. RefOK'
    BY <1>10 DEF TypeOK, RefOK, SetImage
  <2> QED
    BY <2>1, <2>2
<1>11. ASSUME NEW p \in Procs, PostDeploy(p) PROVE TypeOK' /\ RefOK'
  <2>1. job' \in {"none", "queued", "running"}
    BY <1>11 DEF TypeOK, PostDeploy, RequestJob
  <2>2. pc' \in [Procs -> Steps] /\ outcome' \in [Procs -> {"none", "pass", "fail"}]
    BY <1>11 DEF TypeOK, PostDeploy
  <2>3. TypeOK'
    BY <1>11, <2>1, <2>2 DEF TypeOK, PostDeploy
  <2>4. RefOK'
    BY <1>11 DEF TypeOK, RefOK, PostDeploy
  <2> QED
    BY <2>3, <2>4
<1>12. ASSUME NEW p \in Procs, ApplyImage(p) PROVE TypeOK' /\ RefOK'
  <2>1. TypeOK'
    BY <1>12 DEF TypeOK, RefOK, ApplyImage, Release, Images
  <2>2. image' \in Tags /\ image' # NoTag
    BY <1>12 DEF TypeOK, RefOK, ApplyImage
  <2>3. RefOK'
    <3>1. ASSUME NEW q \in Procs, q # p PROVE RefOK!(q)'
      BY <1>12, <2>2, <3>1 DEF TypeOK, RefOK, ApplyImage
    <3>2. RefOK!(p)'
      BY <1>12, <2>2 DEF TypeOK, RefOK, ApplyImage
    <3> QED
      BY <3>1, <3>2 DEF RefOK
  <2> QED
    BY <2>1, <2>3
<1>13. ASSUME NEW p \in Procs, SettleTarget(p) PROVE TypeOK' /\ RefOK'
  BY <1>13 DEF TypeOK, RefOK, SettleTarget, Resolved, Images
<1>14. ASSUME NEW p \in Procs, VerifyDeploy(p) PROVE TypeOK' /\ RefOK'
  <2>1. seen' \in [Procs -> Images]
    BY <1>14, NewestType DEF TypeOK, VerifyDeploy, Container
  <2>2. pc' \in [Procs -> Steps] /\ outcome' \in [Procs -> {"none", "pass", "fail"}]
    BY <1>14 DEF TypeOK, VerifyDeploy
  <2>3. TypeOK'
    BY <1>14, <2>1, <2>2 DEF TypeOK, VerifyDeploy
  <2>4. RefOK'
    BY <1>14 DEF TypeOK, RefOK, VerifyDeploy
  <2> QED
    BY <2>3, <2>4
<1>15. ASSUME NEW p \in Procs, SettlePull(p) PROVE TypeOK' /\ RefOK'
  <2>1. image \in Tags /\ registry[image] \in Images
    BY <1>15 DEF TypeOK, RefOK, SettlePull
  <2>2. local' \in [Tags -> Images] /\ dig' \in [Procs -> Images]
    BY <1>15, <2>1 DEF TypeOK, SettlePull
  <2>3. pc' \in [Procs -> Steps] /\ ref' \in [Procs -> Tags \cup {NoTag}]
    <3>1. pc' = [pc EXCEPT ![p] = "record"] \/ pc' = [pc EXCEPT ![p] = "enrol"]
      BY <1>15 DEF SettlePull
    <3>2. ref' = [ref EXCEPT ![p] = image]
      BY <1>15 DEF SettlePull
    <3>3. pc \in [Procs -> Steps] /\ ref \in [Procs -> Tags \cup {NoTag}]
      BY DEF TypeOK
    <3> QED
      BY <2>1, <3>1, <3>2, <3>3
  <2>4. snapEnrolled' \in [Procs -> BOOLEAN]
    BY <1>15 DEF TypeOK, SettlePull
  <2>5. TypeOK'
    BY <1>15, <2>2, <2>3, <2>4 DEF TypeOK, SettlePull
  <2>6. RefOK'
    BY <1>15, <2>1 DEF TypeOK, RefOK, SettlePull
  <2> QED
    BY <2>5, <2>6
<1>16. ASSUME NEW p \in Procs, RecordDigest(p) PROVE TypeOK' /\ RefOK'
  BY <1>16 DEF TypeOK, RefOK, RecordDigest
<1>17. ASSUME NEW p \in Procs, EnrolOrSleep(p) PROVE TypeOK' /\ RefOK'
  <2>1. cur' \in Container /\ cand' \in Container
    BY <1>17 DEF TypeOK, EnrolOrSleep, Container
  <2>2. enrolled' \in BOOLEAN /\ job' \in {"none", "queued", "running"}
    BY <1>17 DEF TypeOK, EnrolOrSleep, RequestJob
  <2>3. TypeOK'
    BY <1>17, <2>1, <2>2 DEF TypeOK, EnrolOrSleep
  <2>4. RefOK'
    BY <1>17 DEF TypeOK, RefOK, EnrolOrSleep
  <2> QED
    BY <2>3, <2>4
<1>18. ASSUME NEW p \in Procs, Leave(p) PROVE TypeOK' /\ RefOK'
  <2>1. TypeOK'
    BY <1>18, ForgetType DEF TypeOK, Leave, Release
  <2>2. RefOK'
    BY <1>18 DEF TypeOK, RefOK, Leave, Forget
  <2> QED
    BY <2>1, <2>2
<1>19. ASSUME JobStart PROVE TypeOK' /\ RefOK'
  BY <1>19 DEF TypeOK, RefOK, JobStart, Noting, Container
<1>20. CASE JobHealthy \/ JobSwap \/ JobRollback
  <2>1. cur' \in Container /\ cand' \in Container
    BY <1>20, NoContainerType DEF TypeOK, JobHealthy, JobSwap, JobRollback, Container
  <2>2. TypeOK'
    BY <1>20, <2>1 DEF TypeOK, JobHealthy, JobSwap, JobRollback
  <2>3. RefOK'
    BY <1>20 DEF TypeOK, RefOK, JobHealthy, JobSwap, JobRollback
  <2> QED
    BY <2>2, <2>3
<1>21. CASE Restart \/ IdleStop
  <2>1. cur' \in Container
    <3>1. CASE Restart
      <4>1. Noting \in SUBSET Procs
        BY DEF Noting
      <4> QED
        BY <3>1, <4>1 DEF TypeOK, Restart, Container
    <3>2. CASE IdleStop
      BY <3>2 DEF TypeOK, IdleStop, Container
    <3> QED
      BY <1>21, <3>1, <3>2
  <2>2. restarts' \in 0 .. MaxRestarts
    BY <1>21 DEF TypeOK, Restart, IdleStop
  <2>3. TypeOK'
    BY <1>21, <2>1, <2>2 DEF TypeOK, Restart, IdleStop
  <2>4. RefOK'
    BY <1>21 DEF TypeOK, RefOK, Restart, IdleStop
  <2> QED
    BY <2>3, <2>4
<1>22. CASE SetAutoupdate
  BY <1>22 DEF TypeOK, RefOK, SetAutoupdate
<1>23. CASE Crash
  <2>1. faults' \in 0 .. MaxFaults
    BY <1>23 DEF TypeOK, Crash
  <2>2. pc' \in [Procs -> Steps] /\ lock' \in Procs \cup {Free}
    BY <1>23 DEF TypeOK, Crash
  <2>3. TypeOK'
    BY <1>23, <2>1, <2>2, ForgetType DEF TypeOK, Crash
  <2>4. RefOK'
    BY <1>23 DEF TypeOK, RefOK, Crash, Forget
  <2> QED
    BY <2>3, <2>4
<1>24. ASSUME NEW t \in Tags, Push(t) PROVE TypeOK' /\ RefOK'
  BY <1>24 DEF TypeOK, RefOK, Push, Images
<1>25. CASE UNCHANGED vars
  BY <1>25 DEF TypeOK, RefOK, vars
<1>26. ASSUME NEW p \in Procs, Raise(p) \/ Hang(p) PROVE TypeOK' /\ RefOK'
  <2>1. faults' \in 0 .. MaxFaults
    BY <1>26 DEF TypeOK, Raise, Hang
  <2>2. pc' \in [Procs -> Steps] /\ outcome' \in [Procs -> {"none", "pass", "fail"}]
    BY <1>26 DEF TypeOK, Raise, Hang
  <2>3. TypeOK'
    BY <1>26, <2>1, <2>2 DEF TypeOK, Raise, Hang
  <2>4. RefOK'
    BY <1>26 DEF TypeOK, RefOK, Raise, Hang
  <2> QED
    BY <2>3, <2>4
<1> QED
  BY <1>1, <1>2, <1>3, <1>4, <1>5, <1>6, <1>7, <1>8, <1>9, <1>10, <1>11, <1>12,
     <1>13, <1>14, <1>15, <1>16, <1>17, <1>18, <1>19, <1>20, <1>21, <1>22, <1>23,
     <1>24, <1>25, <1>26 DEF Next, Work, Coolify

\* Every reachable state is well typed: in particular a refresh or a sweep never
\* reaches the docker or Coolify calls with a NULL image reference, although the
\* row it took it from may be rewritten by others in the meantime.
THEOREM TypeCorrect == Spec => []TypeOK
<1>1. TypeInv => TypeOK
  BY DEF TypeInv
<1> QED
  BY InitType, NextType, <1>1, PTL DEF Spec
-----------------------------------------------------------------------------
\* From the moment a request has the lock to the moment it may give it back it
\* is the holder: every step in between belongs to one `async with`.
Holding == Configuring \cup {"pull", "target"}
LockHeld ==
  \A p \in Refreshes \cup Updates : pc[p] \in Holding => lock = p

LEMMA InitLock == Init => LockHeld
BY DEF Init, LockHeld, Holding, Configuring, Procs

LEMMA NextLock == TypeInv /\ LockHeld /\ [Next]_vars => LockHeld'
<1> SUFFICES ASSUME TypeOK, RefOK, LockHeld, [Next]_vars,
                    NEW q \in Refreshes \cup Updates, pc'[q] \in Holding
             PROVE  lock' = q
  BY DEF TypeInv, LockHeld
<1>0. /\ pc \in [Procs -> Steps] /\ q \in Procs /\ Free \notin Procs
      /\ \A p \in Refreshes \cup Updates : pc[p] \in Holding => lock = p
  BY DeployAssumption DEF TypeOK, LockHeld, Procs
<1> USE <1>0 DEF Goto, Fail, Pass, Holding, Configuring
<1>1. ASSUME NEW p \in Refreshes, RefreshPost(p) \/ Finish(p) PROVE lock' = q
  BY <1>1 DEF RefreshPost, Finish, Procs
<1>2. ASSUME NEW p \in Refreshes \cup Updates, Acquire(p) PROVE lock' = q
  BY <1>2 DEF Acquire, Procs
<1>3. ASSUME NEW p \in Updates, UpdatePut(p) PROVE lock' = q
  BY <1>3 DEF UpdatePut, Procs
<1>4. ASSUME NEW p \in Sweeps, SweepRead(p) PROVE lock' = q
  BY <1>4, DeployAssumption DEF SweepRead, Procs
<1>5. ASSUME NEW p \in Procs, Work(p) PROVE lock' = q
  <2>1. CASE Pull(p) \/ InspectTarget(p) \/ SetImage(p) \/ PostDeploy(p)
    BY <2>1 DEF Pull, InspectTarget, SetImage, PostDeploy
  <2>2. CASE Decide(p) \/ CreateApp(p)
    BY <2>2 DEF Decide, CreateApp
  <2>3. CASE ApplyImage(p) \/ Leave(p)
    BY <2>3, DeployAssumption DEF ApplyImage, Leave, Release, Procs
  <2>4. CASE SettleTarget(p) \/ VerifyDeploy(p) \/ SettlePull(p)
             \/ RecordDigest(p) \/ EnrolOrSleep(p)
    BY <2>4 DEF SettleTarget, VerifyDeploy, SettlePull, RecordDigest, EnrolOrSleep
  <2> QED
    BY <1>5, <2>1, <2>2, <2>3, <2>4 DEF Work
<1>6. CASE Coolify \/ Restart \/ IdleStop \/ SetAutoupdate
  BY <1>6 DEF Coolify, JobStart, JobHealthy, JobSwap, JobRollback, Restart,
     IdleStop, SetAutoupdate
<1>7. CASE Crash
  BY <1>7, DeployAssumption DEF Crash, Procs
<1>8. ASSUME NEW t \in Tags, Push(t) PROVE lock' = q
  BY <1>8 DEF Push
<1>9. CASE UNCHANGED vars
  BY <1>9 DEF vars
<1>10. ASSUME NEW p \in Procs, Raise(p) \/ Hang(p) PROVE lock' = q
  BY <1>10 DEF Raise, Hang
<1> QED
  BY <1>1, <1>2, <1>3, <1>4, <1>5, <1>6, <1>7, <1>8, <1>9, <1>10 DEF Next

\* However many requests name the app, at most one is between reading the row
\* and the end of its deploy call: app_lock's purpose, for the callers that
\* take it.
THEOREM OneRequestConfigures == Spec => []RequestsDoNotOverlap
<1>1. Init => TypeInv /\ LockHeld
  BY InitType, InitLock
<1>2. TypeInv /\ LockHeld /\ [Next]_vars => (TypeInv /\ LockHeld)'
  BY NextType, NextLock
<1>3. TypeInv /\ LockHeld => RequestsDoNotOverlap
  BY DEF LockHeld, Holding, RequestsDoNotOverlap
<1> QED
  BY <1>1, <1>2, <1>3, PTL DEF Spec
-----------------------------------------------------------------------------
\* The numbers only ever grow in one direction: what a request was promised is
\* at most what the registry holds, and so is what the box has pulled.
Monotone ==
  /\ \A t \in Tags : local[t] <= registry[t] /\ registry[t] <= pushed
  /\ \A p \in Refreshes, t \in Tags : floor[p][t] <= registry[t]

\* A verdict is only ever given at the end, and only by the step that gives it.
VerdictLast ==
  \A p \in Refreshes :
    /\ outcome[p] = "pass" => pc[p] \in {"leave", "report", "done", "dead", "hung"}
    /\ deploys[p] = "succeeded" => pc[p] = "done" /\ outcome[p] = "pass"

\* The target a check verifies against is at least the build `low`, and so is
\* whatever it then found running.
TargetAtLeast(p, low) ==
  /\ pc[p] = "target" => local[ref[p]] # 0 /\ local[ref[p]] >= low
  /\ pc[p] \in {"decide", "set", "deploy", "verify"} => tgt[p] # 0 /\ tgt[p] >= low
  /\ pc[p] \in {"record", "enrol"} \/ outcome[p] = "pass" =>
       seen[p] # 0 /\ seen[p] >= low

\* ... for the build a refresh was promised, and for the digest it pulled.
CheckAt(p) ==
  /\ pc[p] \in {"create", "settle", "repull"} => applying[p]
  /\ ~applying[p] /\ p \in Refreshes => TargetAtLeast(p, floor[p][ref[p]])
  /\ ~applying[p] =>
       /\ pc[p] = "target" => local[ref[p]] # 0 /\ local[ref[p]] >= dig[p]
       /\ pc[p] \in {"decide", "set", "deploy", "verify"} =>
            tgt[p] # 0 /\ tgt[p] >= dig[p]
       /\ pc[p] = "record" => seen[p] >= dig[p]

CheckInv == \A p \in Procs : CheckAt(p)

LiveInv == Monotone /\ VerdictLast /\ (~InspectMayFail => CheckInv /\ DigestNeverAhead)
LEMMA InitLive == Init => LiveInv
<1> SUFFICES ASSUME Init PROVE LiveInv
  OBVIOUS
<1> USE DeployAssumption
<1>1. Monotone
  <2>1. \A t \in Tags : registry[t] \in {0, 1} /\ local[t] \in {0, registry[t]}
    BY DEF Init
  <2>2. \A p \in Refreshes, t \in Tags : floor[p][t] = 0
    BY DEF Init, Procs
  <2> QED
    BY <2>1, <2>2 DEF Init, Monotone
<1>2. VerdictLast
  BY DEF Init, VerdictLast, Procs
<1>3. CheckInv
  BY DEF Init, CheckInv, CheckAt, TargetAtLeast, Procs
<1>4. DigestNeverAhead
  BY DEF Init, DigestNeverAhead
<1> QED
  BY <1>1, <1>2, <1>3, <1>4 DEF LiveInv

\* Pushes, pulls and Coolify's own pull only move a tag forward.
LEMMA NextMonotone == TypeInv /\ Monotone /\ [Next]_vars =>
  Monotone' /\ \A t \in Tags : local[t] <= local'[t]
<1> SUFFICES ASSUME TypeOK, RefOK, Monotone, [Next]_vars
             PROVE  Monotone' /\ \A t \in Tags : local[t] <= local'[t]
  BY DEF TypeInv
<1>0. /\ pushed \in Nat /\ registry \in [Tags -> Nat] /\ local \in [Tags -> Nat]
      /\ floor \in [Procs -> [Tags -> Nat]]
  BY DeployAssumption DEF TypeOK, Images
<1> USE <1>0 DEF Monotone, envVars, histVars
<1>1. ASSUME NEW p \in Procs, RefreshPost(p) \/ UpdatePut(p)
      PROVE Monotone' /\ \A t \in Tags : local[t] <= local'[t]
  BY <1>1 DEF RefreshPost, UpdatePut, Procs
<1>2. ASSUME NEW p \in Procs, Pull(p) \/ SettlePull(p)
      PROVE Monotone' /\ \A t \in Tags : local[t] <= local'[t]
  <2>1. UNCHANGED <<pushed, registry, floor>>
    BY <1>2 DEF Pull, SettlePull
  <2>2. local' = local \/ \E t \in Tags : local' = [local EXCEPT ![t] = registry[t]]
    BY <1>2 DEF Pull, SettlePull, TypeOK, RefOK
  <2> QED
    BY <2>1, <2>2
<1>3. CASE JobStart
  <2>1. UNCHANGED <<pushed, registry, floor>>
    BY <1>3 DEF JobStart
  <2>2. local' = local \/ \E t \in Tags : local' = [local EXCEPT ![t] = registry[t]]
    BY <1>3 DEF JobStart, TypeOK
  <2> QED
    BY <2>1, <2>2
<1>4. ASSUME NEW t \in Tags, Push(t)
      PROVE Monotone' /\ \A u \in Tags : local[u] <= local'[u]
  <2>1. \A u \in Tags : registry[u] <= registry'[u] /\ registry'[u] <= pushed'
    BY <1>4 DEF Push
  <2>2. UNCHANGED <<local, floor>>
    BY <1>4 DEF Push
  <2>3. \A u \in Tags : registry'[u] \in Nat
    BY <1>4 DEF Push
  <2> QED
    BY <2>1, <2>2, <2>3 DEF Procs
<1>5. ASSUME UNCHANGED <<pushed, registry, local, floor>>
      PROVE Monotone' /\ \A t \in Tags : local[t] <= local'[t]
  BY <1>5
<1>6. ASSUME NEW p \in Procs, Work(p)
      PROVE Monotone' /\ \A t \in Tags : local[t] <= local'[t]
  <2>1. CASE Pull(p) \/ SettlePull(p)
    BY <2>1, <1>2
  <2>2. CASE InspectTarget(p) \/ Decide(p) \/ CreateApp(p) \/ SetImage(p)
    BY <2>2, <1>5 DEF InspectTarget, Decide, CreateApp, SetImage
  <2>3. CASE PostDeploy(p) \/ ApplyImage(p) \/ SettleTarget(p) \/ VerifyDeploy(p)
    BY <2>3, <1>5 DEF PostDeploy, ApplyImage, SettleTarget, VerifyDeploy
  <2>4. CASE RecordDigest(p) \/ EnrolOrSleep(p) \/ Leave(p)
    BY <2>4, <1>5 DEF RecordDigest, EnrolOrSleep, Leave
  <2> QED
    BY <1>6, <2>1, <2>2, <2>3, <2>4 DEF Work
<1>7. ASSUME NEW p \in Procs, Acquire(p) \/ Finish(p) \/ SweepRead(p)
      PROVE Monotone' /\ \A t \in Tags : local[t] <= local'[t]
  BY <1>7, <1>5 DEF Acquire, Finish, SweepRead
<1>8. CASE JobHealthy \/ JobSwap \/ JobRollback \/ Restart \/ IdleStop
           \/ SetAutoupdate \/ Crash
  BY <1>8, <1>5 DEF JobHealthy, JobSwap, JobRollback, Restart, IdleStop,
     SetAutoupdate, Crash
<1>9. CASE UNCHANGED vars
  BY <1>9, <1>5 DEF vars
<1>10. ASSUME NEW p \in Procs, Raise(p) \/ Hang(p)
       PROVE Monotone' /\ \A t \in Tags : local[t] <= local'[t]
  BY <1>10, <1>5 DEF Raise, Hang
<1> QED
  BY <1>1, <1>3, <1>4, <1>6, <1>7, <1>8, <1>9, <1>10 DEF Next, Coolify, Procs

LEMMA NextVerdict == TypeInv /\ VerdictLast /\ [Next]_vars => VerdictLast'
<1> SUFFICES ASSUME TypeOK, VerdictLast, [Next]_vars, NEW q \in Refreshes
             PROVE  /\ outcome'[q] = "pass" =>
                         pc'[q] \in {"leave", "report", "done", "dead", "hung"}
                    /\ deploys'[q] = "succeeded" =>
                         pc'[q] = "done" /\ outcome'[q] = "pass"
  BY DEF TypeInv, VerdictLast
<1>0. /\ pc \in [Procs -> Steps] /\ q \in Procs
      /\ outcome \in [Procs -> {"none", "pass", "fail"}]
      /\ deploys \in [Refreshes -> {"none", "queued", "succeeded", "failed"}]
      /\ outcome[q] = "pass" => pc[q] \in {"leave", "report", "done", "dead", "hung"}
      /\ deploys[q] = "succeeded" => pc[q] = "done" /\ outcome[q] = "pass"
  BY DEF TypeOK, VerdictLast, Procs
<1> USE <1>0 DEF Goto, Fail, Pass
<1>1. ASSUME NEW p \in Procs, RefreshPost(p) \/ UpdatePut(p) \/ Acquire(p)
      PROVE VerdictLast!(q)'
  BY <1>1 DEF RefreshPost, UpdatePut, Acquire
<1>2. ASSUME NEW p \in Sweeps, SweepRead(p) PROVE VerdictLast!(q)'
  BY <1>2, DeployAssumption DEF SweepRead, Procs
<1>3. ASSUME NEW p \in Refreshes, Finish(p) PROVE VerdictLast!(q)'
  BY <1>3 DEF Finish, Verdict, Procs
<1>4. ASSUME NEW p \in Procs, Work(p) PROVE VerdictLast!(q)'
  <2>1. CASE Pull(p) \/ InspectTarget(p)
    BY <2>1 DEF Pull, InspectTarget
  <2>2. CASE Decide(p) \/ CreateApp(p)
    BY <2>2 DEF Decide, CreateApp
  <2>3. CASE SetImage(p) \/ PostDeploy(p)
    BY <2>3 DEF SetImage, PostDeploy
  <2>4. CASE ApplyImage(p) \/ SettleTarget(p) \/ VerifyDeploy(p)
    BY <2>4 DEF ApplyImage, SettleTarget, VerifyDeploy
  <2>5. CASE SettlePull(p) \/ RecordDigest(p)
    BY <2>5 DEF SettlePull, RecordDigest
  <2>6. CASE EnrolOrSleep(p)
    BY <2>6 DEF EnrolOrSleep
  <2>7. CASE Leave(p)
    BY <2>7 DEF Leave
  <2> QED
    BY <1>4, <2>1, <2>2, <2>3, <2>4, <2>5, <2>6, <2>7 DEF Work
<1>5. CASE Coolify \/ Restart \/ IdleStop \/ SetAutoupdate
  BY <1>5 DEF Coolify, JobStart, JobHealthy, JobSwap, JobRollback, Restart,
     IdleStop, SetAutoupdate
<1>6. CASE Crash
  BY <1>6, DeployAssumption DEF Crash, Procs
<1>7. ASSUME NEW t \in Tags, Push(t) PROVE VerdictLast!(q)'
  BY <1>7 DEF Push
<1>8. CASE UNCHANGED vars
  BY <1>8 DEF vars
<1>9. ASSUME NEW p \in Procs, Raise(p) \/ Hang(p) PROVE VerdictLast!(q)'
  BY <1>9 DEF Raise, Hang, Unlimited
<1> QED
  BY <1>1, <1>2, <1>3, <1>4, <1>5, <1>6, <1>7, <1>8, <1>9 DEF Next, Procs

\* A step that leaves a process where it is disturbs it at most by moving the
\* box's images forward.
LEMMA CheckFrame ==
  ASSUME TypeInv, NEW q \in Procs, CheckAt(q),
         \A t \in Tags : local[t] <= local'[t], local' \in [Tags -> Images],
         pc'[q] = pc[q], applying'[q] = applying[q], ref'[q] = ref[q],
         tgt'[q] = tgt[q], dig'[q] = dig[q], seen'[q] = seen[q],
         outcome'[q] = outcome[q], floor'[q] = floor[q]
  PROVE  CheckAt(q)'
<1>1. pc[q] = "target" /\ ~applying[q] /\ local[ref[q]] # 0 =>
        local'[ref[q]] # 0 /\ local'[ref[q]] >= local[ref[q]]
  BY DeployAssumption DEF TypeInv, TypeOK, RefOK, Images
<1>2. /\ local \in [Tags -> Nat] /\ local' \in [Tags -> Nat] /\ dig[q] \in Nat
      /\ pc[q] = "target" => ref[q] \in Tags
      /\ q \in Refreshes /\ pc[q] = "target" => floor[q][ref[q]] \in Nat
  BY DeployAssumption DEF TypeInv, TypeOK, RefOK, Images
<1> QED
  BY <1>1, <1>2 DEF CheckAt, TargetAtLeast

LEMMA NextCheck ==
  ASSUME TypeInv, TypeInv', Monotone, Monotone', VerdictLast, CheckInv,
         ~InspectMayFail, \A t \in Tags : local[t] <= local'[t], [Next]_vars,
         NEW q \in Procs
  PROVE  CheckAt(q)'
<1>0. /\ pc \in [Procs -> Steps] /\ applying \in [Procs -> BOOLEAN]
      /\ ref \in [Procs -> Tags \cup {NoTag}]
      /\ dig \in [Procs -> Nat] /\ tgt \in [Procs -> Nat] /\ seen \in [Procs -> Nat]
      /\ outcome \in [Procs -> {"none", "pass", "fail"}]
      /\ floor \in [Procs -> [Tags -> Nat]] /\ CheckAt(q)
      /\ local \in [Tags -> Nat] /\ registry \in [Tags -> Nat]
      /\ local' \in [Tags -> Images] /\ Newest.image \in Nat
      /\ q \in Refreshes => \A t \in Tags : floor[q][t] <= registry[t]
  <2>1. Newest.image \in Nat
    BY NewestType, DeployAssumption DEF TypeInv, TypeOK, Container, Images
  <2>2. CheckAt(q)
    BY DEF CheckInv
  <2> QED
    BY <2>1, <2>2, DeployAssumption DEF TypeInv, TypeOK, Images, Monotone
<1> DEFINE Same == /\ pc'[q] = pc[q] /\ applying'[q] = applying[q]
                   /\ ref'[q] = ref[q] /\ tgt'[q] = tgt[q] /\ dig'[q] = dig[q]
                   /\ seen'[q] = seen[q] /\ outcome'[q] = outcome[q]
                   /\ floor'[q] = floor[q]
<1>frame. Same => CheckAt(q)'
  BY <1>0, CheckFrame
<1>idle. ASSUME pc'[q] \in {"idle", "wait", "pull", "leave", "report", "done", "dead",
                           "hung"},
                q \in Refreshes => outcome'[q] # "pass"
         PROVE  CheckAt(q)'
  BY <1>idle DEF CheckAt, TargetAtLeast
<1>new. q \in Refreshes /\ pc[q] \in {"idle", "wait"} => outcome[q] # "pass"
  BY DEF VerdictLast
<1> HIDE DEF Same
<1>1. ASSUME NEW p \in Procs, RefreshPost(p) \/ UpdatePut(p) PROVE CheckAt(q)'
  <2>1. CASE p = q
    BY <1>0, <1>1, <2>1, <1>idle, <1>new DEF RefreshPost, UpdatePut, Goto
  <2>2. CASE p # q
    BY <1>0, <1>1, <2>2, <1>frame DEF RefreshPost, UpdatePut, Goto, Same, dataVars
  <2> QED
    BY <2>1, <2>2
<1>2. ASSUME NEW p \in Refreshes \cup Updates, Acquire(p) PROVE CheckAt(q)'
  <2>1. CASE p = q /\ pc'[q] = "pull"
    BY <1>0, <1>2, <2>1, <1>idle, <1>new DEF Acquire
  <2>2. CASE p = q /\ pc'[q] # "pull"
    BY <1>0, <1>2, <2>2 DEF Acquire, Goto, CheckAt
  <2>3. CASE p # q
    BY <1>0, <1>2, <2>3, <1>frame DEF Acquire, Goto, Same, histVars, Procs
  <2> QED
    BY <2>1, <2>2, <2>3
<1>3. ASSUME NEW p \in Sweeps, SweepRead(p) PROVE CheckAt(q)'
  <2>1. CASE p = q
    BY <1>0, <1>3, <2>1, <1>idle, DeployAssumption DEF SweepRead, Goto
  <2>2. CASE p # q
    BY <1>0, <1>3, <2>2, <1>frame DEF SweepRead, Goto, Same, histVars, Procs
  <2> QED
    BY <2>1, <2>2
<1>4. ASSUME NEW p \in Refreshes, Finish(p) PROVE CheckAt(q)'
  <2>1. CASE p = q
    BY <1>0, <1>4, <2>1 DEF Finish, Goto, CheckAt, TargetAtLeast, dataVars, histVars
  <2>2. CASE p # q
    BY <1>0, <1>4, <2>2, <1>frame DEF Finish, Goto, Same, dataVars, histVars, Procs
  <2> QED
    BY <2>1, <2>2
<1>5. ASSUME NEW p \in Procs, Work(p), p # q PROVE CheckAt(q)'
  <2> USE <1>0, <1>5 DEF Goto, Fail, Pass, Same, dataVars, histVars
  <2>1. CASE Pull(p) \/ InspectTarget(p)
    BY <2>1, <1>frame DEF Pull, InspectTarget
  <2>2. CASE Decide(p) \/ CreateApp(p)
    BY <2>2, <1>frame DEF Decide, CreateApp
  <2>3. CASE SetImage(p) \/ PostDeploy(p)
    BY <2>3, <1>frame DEF SetImage, PostDeploy
  <2>4. CASE ApplyImage(p) \/ SettleTarget(p) \/ VerifyDeploy(p)
    BY <2>4, <1>frame DEF ApplyImage, SettleTarget, VerifyDeploy
  <2>5. CASE SettlePull(p) \/ RecordDigest(p)
    BY <2>5, <1>frame DEF SettlePull, RecordDigest
  <2>6. CASE EnrolOrSleep(p)
    BY <2>6, <1>frame DEF EnrolOrSleep
  <2>7. CASE Leave(p)
    BY <2>7, <1>frame DEF Leave, Forget
  <2> QED
    BY <2>1, <2>2, <2>3, <2>4, <2>5, <2>6, <2>7 DEF Work
<1>6. ASSUME Work(q) PROVE CheckAt(q)'
  <2> USE <1>0 DEF Goto, Fail, Pass, dataVars, histVars
  <2>1. CASE Pull(q)
    <3>1. ref[q] \in Tags
      BY <2>1 DEF Pull, TypeInv, RefOK
    <3>2. CASE pc'[q] = "target"
      BY <2>1, <3>1, <3>2 DEF Pull, CheckAt, TargetAtLeast, VerdictLast
    <3>3. CASE pc'[q] = "leave"
      BY <2>1, <3>3, <1>idle DEF Pull
    <3> QED
      BY <2>1, <3>2, <3>3 DEF Pull
  <2>2. CASE InspectTarget(q)
    BY <2>2 DEF InspectTarget, Resolved, CheckAt, TargetAtLeast
  <2>3. CASE Decide(q)
    BY <2>3 DEF Decide, Current, CheckAt, TargetAtLeast
  <2>4. CASE CreateApp(q)
    BY <2>4 DEF CreateApp, CheckAt, TargetAtLeast
  <2>5. CASE SetImage(q)
    BY <2>5 DEF SetImage, CheckAt, TargetAtLeast
  <2>6. CASE PostDeploy(q)
    BY <2>6 DEF PostDeploy, CheckAt, TargetAtLeast
  <2>7. CASE ApplyImage(q) \/ SettleTarget(q)
    <3>1. applying[q]
      BY <2>7 DEF ApplyImage, SettleTarget, TypeInv, RefOK
    <3> QED
      BY <2>7, <3>1 DEF ApplyImage, SettleTarget, CheckAt
  <2>8. CASE VerifyDeploy(q)
    BY <2>8 DEF VerifyDeploy, Verified, CheckAt, TargetAtLeast
  <2>9. CASE SettlePull(q)
    BY <2>9 DEF SettlePull, CheckAt, TargetAtLeast
  <2>10. CASE RecordDigest(q) \/ EnrolOrSleep(q)
    BY <2>10 DEF RecordDigest, EnrolOrSleep, CheckAt, TargetAtLeast
  <2>11. CASE Leave(q)
    <3>1. q \in Refreshes => ref'[q] = ref[q] /\ seen'[q] = seen[q]
      BY <2>11, DeployAssumption DEF Leave, Forget, Procs
    <3> QED
      BY <2>11, <3>1 DEF Leave, CheckAt, TargetAtLeast
  <2> QED
    BY <1>6, <2>1, <2>2, <2>3, <2>4, <2>5, <2>6, <2>7, <2>8, <2>9, <2>10, <2>11
       DEF Work
<1>7. CASE Coolify
  BY <1>7, <1>0, <1>frame DEF Coolify, JobStart, JobHealthy, JobSwap, JobRollback,
     Same, dataVars, histVars
<1>8. CASE Restart \/ IdleStop \/ SetAutoupdate
  BY <1>8, <1>0, <1>frame DEF Restart, IdleStop, SetAutoupdate, Same, dataVars,
     histVars
<1>9. CASE Crash
  BY <1>9, <1>0, DeployAssumption DEF Crash, Forget, CheckAt, TargetAtLeast, Procs
<1>10. ASSUME NEW t \in Tags, Push(t) PROVE CheckAt(q)'
  BY <1>10, <1>0, <1>frame DEF Push, Same, dataVars, histVars
<1>11. CASE UNCHANGED vars
  BY <1>11, <1>0, <1>frame DEF vars, Same
<1>12. ASSUME NEW p \in Procs, Raise(p) \/ Hang(p) PROVE CheckAt(q)'
  <2>1. CASE p = q
    BY <1>0, <1>12, <2>1 DEF Raise, Hang, Goto, Fail, CheckAt, TargetAtLeast,
       dataVars, histVars
  <2>2. CASE p # q
    BY <1>0, <1>12, <2>2, <1>frame DEF Raise, Hang, Goto, Fail, Same, dataVars,
       histVars
  <2> QED
    BY <2>1, <2>2
<1> QED
  BY <1>1, <1>2, <1>3, <1>4, <1>5, <1>6, <1>7, <1>8, <1>9, <1>10, <1>11, <1>12
     DEF Next, Procs

\* deployed_digest only moves with a verified image in hand, or back to NULL.
LEMMA NextDigest ==
  ASSUME TypeInv, CheckInv, ~InspectMayFail, DigestNeverAhead, [Next]_vars
  PROVE  DigestNeverAhead'
<1>0. fact \in Nat /\ deployedDigest \in Nat /\ applying \in [Procs -> BOOLEAN]
      /\ (writer = "check" => deployedDigest <= fact)
  BY DeployAssumption DEF TypeInv, TypeOK, Images, DigestNeverAhead
<1> USE <1>0 DEF DigestNeverAhead, rowVars, histVars
<1>1. ASSUME NEW p \in Procs, RecordDigest(p) PROVE DigestNeverAhead'
  <2>1. CASE applying[p]
    BY <1>1, <2>1 DEF RecordDigest
  <2>2. CASE ~applying[p]
    <3>1. seen[p] >= dig[p] /\ seen[p] \in Nat /\ dig[p] \in Nat
      BY <1>1, <2>2, DeployAssumption DEF RecordDigest, CheckInv, CheckAt, TypeInv,
         TypeOK, Images
    <3> QED
      BY <1>1, <3>1 DEF RecordDigest
  <2> QED
    BY <2>1, <2>2
<1>2. ASSUME UNCHANGED <<deployedDigest, fact, writer>> PROVE DigestNeverAhead'
  BY <1>2
<1>3. ASSUME NEW p \in Procs, Work(p) PROVE DigestNeverAhead'
  <2>1. CASE Pull(p) \/ InspectTarget(p) \/ Decide(p) \/ CreateApp(p)
    BY <2>1, <1>2 DEF Pull, InspectTarget, Decide, CreateApp
  <2>2. CASE SetImage(p) \/ PostDeploy(p) \/ SettleTarget(p) \/ VerifyDeploy(p)
    BY <2>2, <1>2 DEF SetImage, PostDeploy, SettleTarget, VerifyDeploy
  <2>3. CASE SettlePull(p) \/ EnrolOrSleep(p) \/ Leave(p)
    BY <2>3, <1>2 DEF SettlePull, EnrolOrSleep, Leave
  <2>4. CASE ApplyImage(p)
    BY <2>4 DEF ApplyImage
  <2> QED
    BY <1>1, <1>3, <2>1, <2>2, <2>3, <2>4 DEF Work
<1>4. ASSUME NEW p \in Procs, RefreshPost(p) \/ UpdatePut(p) \/ Acquire(p)
                              \/ Finish(p) \/ SweepRead(p)
      PROVE DigestNeverAhead'
  BY <1>4, <1>2 DEF RefreshPost, UpdatePut, Acquire, Finish, SweepRead
<1>5. CASE Coolify \/ Restart \/ IdleStop
  BY <1>5, <1>2 DEF Coolify, JobStart, JobHealthy, JobSwap, JobRollback, Restart,
     IdleStop
<1>6. CASE SetAutoupdate \/ Crash
  BY <1>6, <1>2 DEF SetAutoupdate, Crash
<1>7. ASSUME NEW t \in Tags, Push(t) PROVE DigestNeverAhead'
  BY <1>7, <1>2 DEF Push
<1>8. CASE UNCHANGED vars
  BY <1>8, <1>2 DEF vars
<1>9. ASSUME NEW p \in Procs, Raise(p) \/ Hang(p) PROVE DigestNeverAhead'
  BY <1>9, <1>2 DEF Raise, Hang
<1> QED
  BY <1>3, <1>4, <1>5, <1>6, <1>7, <1>8, <1>9 DEF Next, Procs

LEMMA NextLive == TypeInv /\ LiveInv /\ [Next]_vars => LiveInv'
<1> SUFFICES ASSUME TypeInv, LiveInv, [Next]_vars PROVE LiveInv'
  OBVIOUS
<1>1. TypeInv'
  BY NextType
<1>2. Monotone' /\ \A t \in Tags : local[t] <= local'[t]
  BY NextMonotone DEF LiveInv
<1>3. VerdictLast'
  BY NextVerdict DEF LiveInv
<1>4. ASSUME ~InspectMayFail PROVE CheckInv' /\ DigestNeverAhead'
  <2>1. CheckInv'
    BY <1>1, <1>2, <1>4, NextCheck DEF LiveInv, CheckInv
  <2>2. DigestNeverAhead'
    BY <1>4, NextDigest DEF LiveInv
  <2> QED
    BY <2>1, <2>2
<1> QED
  BY <1>2, <1>3, <1>4 DEF LiveInv

LEMMA Live == Spec => [](TypeInv /\ LiveInv)
<1>1. Init => TypeInv /\ LiveInv
  BY InitType, InitLive
<1>2. TypeInv /\ LiveInv /\ [Next]_vars => (TypeInv /\ LiveInv)'
  BY NextType, NextLive
<1> QED
  BY <1>1, <1>2, PTL DEF Spec

\* A refresh recorded as succeeded was seen running the build its caller had
\* pushed, or a newer one.  The argument is that images only move forward
\* (Monotone) and that the target is read back from the box after the pull.
THEOREM SucceededIsLive == Spec => []SuccessIsLive
<1>1. TypeInv /\ LiveInv => SuccessIsLive
  BY DEF TypeInv, TypeOK, LiveInv, VerdictLast, CheckInv, CheckAt, TargetAtLeast,
     SuccessIsLive, Procs
<1> QED
  BY <1>1, Live, PTL

\* A deployed_digest written by check_and_update never names a build newer than
\* the one that was verified when it was written.
THEOREM DigestLags == Spec => []DigestNeverAhead
<1>1. TypeInv /\ LiveInv => DigestNeverAhead
  BY DEF LiveInv, DigestNeverAhead
<1> QED
  BY <1>1, Live, PTL
=============================================================================
