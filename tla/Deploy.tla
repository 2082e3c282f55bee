------------------------------- MODULE Deploy -------------------------------
(***************************************************************************)
(* The backend deploy path of one app: POST /apps/<id>/refresh, PUT        *)
(* /apps/<id>/code and the hourly sweep, the per-app lock two of them      *)
(* take, the app's registry row, the docker daemon's local images, and     *)
(* Coolify with its asynchronous deploy, silent rollback and silently      *)
(* dropped second request.                                                 *)
(*                                                                         *)
(* An image is a number.  Pushes draw the next one, so a larger image      *)
(* behind the same tag is a newer build; it stands for the registry        *)
(* digest and for the local image id alike (the code keeps the two apart   *)
(* only because their spelling differs).  0 is "no image".                 *)
(*                                                                         *)
(* Docker's start times are abstracted to what verify_deploy asks of them: *)
(* "did this container start after process p noted the old one?"           *)
(* container.newTo is the set of processes that noted a start time and for  *)
(* which the answer is yes.                                                *)
(***************************************************************************)
EXTENDS Naturals

CONSTANTS
  Refreshes,      \* POST /apps/<id>/refresh requests, each made at most once
  Updates,        \* PUT /apps/<id>/code requests, each made at most once
  Sweeps,         \* the loop of check_all (a set of one, or none)
  Tags,           \* the image references the app is ever pointed at
  LatestTag,      \* ':latest', what check_and_update falls back to
  NoTag,          \* a NULL image or watch_tag
  Free,           \* the app lock has no holder
  MaxImage,       \* BOUND: number of pushes to the registry
  MaxFaults,      \* BOUND: control-plane restarts, statements that raise, lost
                  \* outcome writes, and calls that never return
  MaxRestarts,    \* BOUND: restarts of the serving container by others
  InspectMayFail, \* docker inspect may fail on an image just pulled
  AutoEnroll      \* SABLIER_AUTO_ENROLL

Procs  == Refreshes \cup Updates \cup Sweeps
Images == 0 .. MaxImage

ASSUME DeployAssumption ==
  /\ Refreshes \cap Updates = {} /\ Refreshes \cap Sweeps = {}
  /\ Updates \cap Sweeps = {}
  /\ Free \notin Procs
  /\ LatestTag \in Tags /\ NoTag \notin Tags
  /\ MaxImage \in Nat \ {0} /\ MaxFaults \in Nat /\ MaxRestarts \in Nat
  /\ InspectMayFail \in BOOLEAN /\ AutoEnroll \in BOOLEAN

VARIABLES
  pushed,       \* number of images pushed so far
  registry,     \* [Tags -> Images] what each tag names in the registry
  local,        \* [Tags -> Images] what the box's docker resolves each tag to
  coolifyUuid,  \* apps.coolify_uuid is set
  image,        \* apps.image
  watchTag,     \* apps.watch_tag
  deployedDigest, \* apps.deployed_digest
  enrolled,     \* apps.sablier_enrolled
  cfg,          \* the image Coolify has stored for the app
  job,          \* Coolify's ApplicationDeploymentJob for the app
  cur,          \* the container that serves
  cand,         \* the container a running job is bringing up
  lock,         \* holder of app_lock(id)
  pc,           \* where each request or sweep is
  ref,          \* the reference it is deploying
  dig,          \* the digest its pull returned
  tgt,          \* the local image id verification compares with (0: None)
  snapDigest, snapEnrolled, \* the row as it read it, possibly long before
  tracks,       \* apply_image: auto-update follows the new tag
  applying,     \* it came through apply_image and settle
  outcome,      \* what its result says: none, pass, fail
  asked,        \* the tag a caller named
  deploys,      \* the deploys table
  floor,        \* HISTORY: the registry when the request was accepted
  seen,         \* HISTORY: the image verification found running
  fact,         \* HISTORY: the image verified when deployed_digest was written
  writer,       \* HISTORY: which routine wrote deployed_digest last
  faults, restarts

rowVars  == <<coolifyUuid, image, watchTag, deployedDigest, enrolled>>
boxVars  == <<cfg, job, cur, cand>>
dataVars == <<ref, dig, tgt, snapDigest, snapEnrolled, tracks, applying>>
histVars == <<floor, seen, fact, writer>>
envVars  == <<pushed, registry, faults, restarts>>
vars == <<pushed, registry, local, coolifyUuid, image, watchTag, deployedDigest,
          enrolled, cfg, job, cur, cand, lock, pc, ref, dig, tgt, snapDigest,
          snapEnrolled, tracks, applying, outcome, asked, deploys, floor, seen, fact,
          writer, faults, restarts>>

NoContainer == [image |-> 0, state |-> "none", newTo |-> {}]
Container == [image : Images, state : {"none", "starting", "running", "stopped"},
              newTo : SUBSET Procs]
Steps == {"idle", "wait", "pull", "target", "decide", "create", "set", "deploy",
          "applied", "settle", "verify", "repull", "record", "enrol", "leave",
          "report", "done", "dead", "hung"}

Init ==
  /\ pushed = 1 /\ registry \in [Tags -> {0, 1}]
  /\ coolifyUuid \in BOOLEAN
  /\ local = IF coolifyUuid THEN registry ELSE [t \in Tags |-> 0]
  /\ IF coolifyUuid THEN \E t \in Tags : /\ registry[t] = 1 /\ image = t
                                         /\ watchTag \in {NoTag, t}
                                         /\ cfg = t
                    ELSE image = NoTag /\ watchTag = NoTag /\ cfg = NoTag
  /\ deployedDigest = IF coolifyUuid THEN 1 ELSE 0
  /\ enrolled \in {FALSE, coolifyUuid}
  /\ job = "none" /\ cand = NoContainer
  /\ cur = IF coolifyUuid
             THEN [image |-> 1, state |-> "running", newTo |-> {}]
             ELSE NoContainer
  /\ lock = Free
  /\ pc = [p \in Procs |-> "idle"]
  /\ ref = [p \in Procs |-> NoTag] /\ asked = [p \in Procs |-> NoTag]
  /\ dig = [p \in Procs |-> 0] /\ tgt = [p \in Procs |-> 0]
  /\ snapDigest = [p \in Procs |-> 0]
  /\ snapEnrolled = [p \in Procs |-> FALSE]
  /\ tracks = [p \in Procs |-> FALSE]
  /\ applying = [p \in Procs |-> FALSE]
  /\ outcome = [p \in Procs |-> "none"]
  /\ deploys = [p \in Refreshes |-> "none"]
  /\ floor = [p \in Procs |-> [t \in Tags |-> 0]]
  /\ seen = [p \in Procs |-> 0]
  /\ fact = deployedDigest /\ writer = "check"
  /\ faults = 0 /\ restarts = 0
-----------------------------------------------------------------------------
\* The container docker lists first for the app's uuid.
Newest == IF cand # NoContainer THEN cand ELSE cur

Goto(p, step) == pc' = [pc EXCEPT ![p] = step]
Fail(p) == Goto(p, "leave") /\ outcome' = [outcome EXCEPT ![p] = "fail"]
Pass(p) == Goto(p, "leave") /\ outcome' = [outcome EXCEPT ![p] = "pass"]
\* Mutant: the lock is given back only on the successful path.
ReleaseOnPass(p) ==
  lock' = IF lock = p /\ outcome[p] = "pass" THEN Free ELSE lock
Release(p) == lock' = IF lock = p THEN Free ELSE lock

\* before = _container_started_at(uuid): from here on only a container that
\* starts later counts as replaced.  A failed inspect reads None, and then any
\* container does.
NoteStart(p) ==
  \/ /\ cur'  = [cur EXCEPT !.newTo = @ \ {p}]
     /\ cand' = [cand EXCEPT !.newTo = @ \ {p}]
  \/ /\ InspectMayFail
     /\ cur'  = [cur EXCEPT !.newTo = @ \cup {p}]
     /\ cand' = [cand EXCEPT !.newTo = @ \cup {p}]

\* The processes that hold a start time to compare with.
Noting == {p \in Procs : pc[p] \in {"set", "deploy", "applied", "settle", "verify"}}

\* POST /deploy: accepted either way, but Coolify starts no second job while
\* it has one for the app.
RequestJob == job' = IF job = "none" THEN "queued" ELSE job

\* What `docker inspect` says of a reference: its image id, or nothing.
Resolved(t) == {local[t]} \cup (IF InspectMayFail THEN {0} ELSE {})

-----------------------------------------------------------------------------
\* POST /apps/<id>/refresh up to its 202: the deploys row is written first.
RefreshPost(p) ==
  /\ pc[p] = "idle"
  /\ \E t \in Tags \cup {NoTag} :
       /\ (image # NoTag /\ coolifyUuid) \/ t # NoTag
       /\ t # NoTag => registry[t] # 0
       /\ asked' = [asked EXCEPT ![p] = t]
  /\ deploys' = [deploys EXCEPT ![p] = "queued"]
  /\ floor' = [floor EXCEPT ![p] = registry]
  /\ Goto(p, "wait")
  /\ UNCHANGED <<envVars, local, rowVars, boxVars, lock, dataVars, outcome,
                 seen, fact, writer>>

\* PUT /apps/<id>/code up to the lock.
UpdatePut(p) ==
  /\ pc[p] = "idle"
  /\ \E t \in Tags : registry[t] # 0 /\ asked' = [asked EXCEPT ![p] = t]
  /\ floor' = [floor EXCEPT ![p] = registry]
  /\ Goto(p, "wait")
  /\ UNCHANGED <<envVars, local, rowVars, boxVars, lock, dataVars, outcome,
                 deploys, seen, fact, writer>>

\* Mutant: the lock is created per request instead of kept per app.
AcquireUnguarded(p) ==
  /\ pc[p] = "wait" /\ lock' = p
  /\ ref' = [ref EXCEPT ![p] = asked[p]]
  /\ applying' = [applying EXCEPT ![p] = TRUE]
  /\ Goto(p, "create")
  /\ UNCHANGED <<envVars, local, rowVars, boxVars, dig, tgt, snapDigest,
                 snapEnrolled, tracks, outcome, asked, deploys, histVars>>

\* async with app_lock(id), then the row is read under it: an app with a
\* backend goes through check_and_update, any other through apply_image.
Acquire(p) ==
  /\ pc[p] = "wait" /\ lock = Free
  /\ lock' = p
  /\ LET check == p \in Refreshes /\ image # NoTag /\ coolifyUuid IN
       /\ ref' = [ref EXCEPT ![p] = IF ~check THEN asked[p]
                                    ELSE IF watchTag = NoTag THEN LatestTag
                                    ELSE watchTag]
       /\ applying' = [applying EXCEPT ![p] = ~check]
       /\ snapDigest' = [snapDigest EXCEPT ![p] = deployedDigest]
       /\ snapEnrolled' = [snapEnrolled EXCEPT ![p] = enrolled]
       /\ Goto(p, IF check THEN "pull" ELSE "create")
  /\ UNCHANGED <<envVars, local, rowVars, boxVars, dig, tgt, tracks, outcome,
                 asked, deploys, histVars>>

\* check_all reads every opted-in row at once, then works through them, with
\* no lock; the app's turn may come long after.
SweepRead(p) ==
  /\ pc[p] = "idle" /\ watchTag # NoTag
  /\ ref' = [ref EXCEPT ![p] = watchTag]
  /\ applying' = [applying EXCEPT ![p] = FALSE]
  /\ snapDigest' = [snapDigest EXCEPT ![p] = deployedDigest]
  /\ snapEnrolled' = [snapEnrolled EXCEPT ![p] = enrolled]
  /\ outcome' = [outcome EXCEPT ![p] = "none"]
  /\ Goto(p, "pull")
  /\ UNCHANGED <<envVars, local, rowVars, boxVars, lock, dig, tgt, tracks,
                 asked, deploys, histVars>>

-----------------------------------------------------------------------------
\* Mutant: an image the box already has is not pulled again.
PullCached(p) ==
  /\ pc[p] = "pull" /\ local[ref[p]] # 0
  /\ dig' = [dig EXCEPT ![p] = local[ref[p]]]
  /\ Goto(p, "target")
  /\ UNCHANGED <<envVars, local, rowVars, boxVars, lock, ref, tgt, snapDigest,
                 snapEnrolled, tracks, applying, outcome, asked, deploys, histVars>>

\* check_and_update: remote_digest(ref), a docker pull and an inspect for the
\* digest; when the inspect fails the box has the image all the same.
Pull(p) ==
  /\ pc[p] = "pull"
  /\ \/ /\ registry[ref[p]] # 0
        /\ local' = [local EXCEPT ![ref[p]] = registry[ref[p]]]
        /\ dig' = [dig EXCEPT ![p] = registry[ref[p]]]
        /\ Goto(p, "target") /\ UNCHANGED outcome
     \/ /\ local' = [local EXCEPT ![ref[p]] = registry[ref[p]]]
        /\ registry[ref[p]] # 0 /\ Fail(p) /\ UNCHANGED dig
     \/ Fail(p) /\ UNCHANGED <<local, dig>>
  /\ UNCHANGED <<envVars, rowVars, boxVars, lock, ref, tgt, snapDigest,
                 snapEnrolled, tracks, applying, asked, deploys, histVars>>

\* target = _image_id(ref)
InspectTarget(p) ==
  /\ pc[p] = "target"
  /\ \E i \in Resolved(ref[p]) : tgt' = [tgt EXCEPT ![p] = i]
  /\ Goto(p, "decide")
  /\ UNCHANGED <<envVars, local, rowVars, boxVars, lock, ref, dig, snapDigest,
                 snapEnrolled, tracks, applying, outcome, asked, deploys, histVars>>

\* Nothing to do, only if the digest matches AND the container agrees.
Current(p) == dig[p] = snapDigest[p] /\ tgt[p] # 0 /\ Newest.image = tgt[p]

Decide(p) ==
  /\ pc[p] = "decide"
  /\ \/ /\ Current(p)
        /\ seen' = [seen EXCEPT ![p] = Newest.image]
        /\ Pass(p) /\ UNCHANGED <<cur, cand>>
     \/ /\ ~Current(p) \/ InspectMayFail
        /\ NoteStart(p)
        /\ Goto(p, "set") /\ UNCHANGED <<outcome, seen>>
  /\ UNCHANGED <<envVars, local, rowVars, cfg, job, lock, dataVars, asked,
                 deploys, floor, fact, writer>>

\* apply_image up to `before`: the Coolify application if there is none.
CreateApp(p) ==
  /\ pc[p] = "create"
  /\ \/ /\ coolifyUuid' = TRUE
        /\ cfg' = IF coolifyUuid THEN cfg ELSE ref[p]
        /\ tracks' = [tracks EXCEPT ![p] = ~coolifyUuid \/ watchTag # NoTag]
        /\ NoteStart(p)
        /\ Goto(p, "set") /\ UNCHANGED outcome
     \/ Fail(p) /\ UNCHANGED <<coolifyUuid, cfg, tracks, cur, cand>>
  /\ UNCHANGED <<envVars, local, image, watchTag, deployedDigest, enrolled, job,
                 lock, ref, dig, tgt, snapDigest, snapEnrolled, applying, asked,
                 deploys, histVars>>

\* coolify.set_image, then envs.sync_env; either may raise.
SetImage(p) ==
  /\ pc[p] = "set"
  /\ \/ cfg' = ref[p] /\ Goto(p, "deploy") /\ UNCHANGED outcome
     \/ cfg' \in {cfg, ref[p]} /\ Fail(p)
  /\ UNCHANGED <<envVars, local, rowVars, job, cur, cand, lock, dataVars, asked,
                 deploys, histVars>>

\* Mutant: the digest is recorded when the deploy is asked for, as it once was.
PostDeployRecords(p) ==
  /\ pc[p] = "deploy"
  /\ RequestJob /\ deployedDigest' = dig[p]
  /\ Goto(p, IF applying[p] THEN "applied" ELSE "verify")
  /\ UNCHANGED <<envVars, local, coolifyUuid, image, watchTag, enrolled, cfg, cur,
                 cand, lock, dataVars, outcome, asked, deploys, histVars>>

\* coolify.deploy; a call that raises may have been accepted before it did.
PostDeploy(p) ==
  /\ pc[p] = "deploy"
  /\ \/ /\ RequestJob
        /\ Goto(p, IF applying[p] THEN "applied" ELSE "verify")
        /\ UNCHANGED outcome
     \/ Fail(p) /\ (RequestJob \/ UNCHANGED job)
  /\ UNCHANGED <<envVars, local, rowVars, cfg, cur, cand, lock, dataVars, asked,
                 deploys, histVars>>

\* apply_image's UPDATE.  PUT /code's lock ends here, refresh's does not.
ApplyImage(p) ==
  /\ pc[p] = "applied"
  /\ image' = ref[p]
  /\ watchTag' = IF tracks[p] THEN ref[p] ELSE NoTag
  /\ deployedDigest' = 0
  /\ IF p \in Updates THEN Release(p) ELSE UNCHANGED lock
  /\ Goto(p, "settle")
  /\ UNCHANGED <<envVars, local, coolifyUuid, enrolled, boxVars, dataVars,
                 outcome, asked, deploys, histVars>>

\* settle: the target is whatever the row names now.
SettleTarget(p) ==
  /\ pc[p] = "settle"
  /\ ref' = [ref EXCEPT ![p] = image]
  /\ \E i \in Resolved(image) : tgt' = [tgt EXCEPT ![p] = i]
  /\ Goto(p, "verify")
  /\ UNCHANGED <<envVars, local, rowVars, boxVars, lock, dig, snapDigest,
                 snapEnrolled, tracks, applying, outcome, asked, deploys, histVars>>

\* Mutant: start time and health alone, the check before `target` existed.
VerifiedWeakly(p) == Newest.state = "running" /\ p \in Newest.newTo

\* verify_deploy: one poll that passes.
Verified(p) ==
  /\ Newest.state = "running" /\ p \in Newest.newTo
  /\ tgt[p] = 0 \/ Newest.image = tgt[p]

VerifyDeploy(p) ==
  /\ pc[p] = "verify"
  /\ \/ /\ Verified(p)
        /\ seen' = [seen EXCEPT ![p] = Newest.image]
        /\ Goto(p, IF applying[p] THEN "repull" ELSE "record")
        /\ UNCHANGED outcome
     \/ Fail(p) /\ UNCHANGED seen          \* the 150 s ran out
  /\ UNCHANGED <<envVars, local, rowVars, boxVars, lock, dataVars, asked, deploys,
                 floor, fact, writer>>

\* settle, verified: the row is read again and its image pulled again.
SettlePull(p) ==
  /\ pc[p] = "repull"
  /\ ref' = [ref EXCEPT ![p] = image]
  /\ snapEnrolled' = [snapEnrolled EXCEPT ![p] = enrolled]
  /\ \/ /\ registry[image] # 0
        /\ local' = [local EXCEPT ![image] = registry[image]]
        /\ \/ dig' = [dig EXCEPT ![p] = registry[image]] /\ Goto(p, "record")
           \/ Goto(p, "enrol") /\ UNCHANGED dig
     \/ Goto(p, "enrol") /\ UNCHANGED <<local, dig>>
  /\ UNCHANGED <<envVars, rowVars, boxVars, lock, tgt, snapDigest, tracks,
                 applying, outcome, asked, deploys, histVars>>

\* UPDATE apps SET [image,] deployed_digest
RecordDigest(p) ==
  /\ pc[p] = "record"
  /\ image' = IF applying[p] THEN image ELSE ref[p]
  /\ deployedDigest' = dig[p]
  /\ fact' = seen[p]
  /\ writer' = IF applying[p] THEN "settle" ELSE "check"
  /\ Goto(p, "enrol")
  /\ UNCHANGED <<envVars, local, coolifyUuid, watchTag, enrolled, boxVars, lock,
                 dataVars, outcome, asked, deploys, floor, seen>>

\* _maybe_enroll_sablier (which queues a deploy of its own), else
\* sleep_after_deploy (only what was already enrolled when the row was read).
EnrolOrSleep(p) ==
  /\ pc[p] = "enrol"
  /\ \/ /\ AutoEnroll /\ ~snapEnrolled[p]
        /\ enrolled' = TRUE /\ RequestJob /\ UNCHANGED <<cur, cand>>
     \/ /\ ~snapEnrolled[p]
        /\ UNCHANGED <<enrolled, job, cur, cand>>
     \/ /\ snapEnrolled[p]
        /\ IF cand # NoContainer
             THEN cand' = [cand EXCEPT !.state = "stopped"] /\ UNCHANGED cur
             ELSE cur' = (IF cur = NoContainer THEN cur
                          ELSE [cur EXCEPT !.state = "stopped"])
                  /\ UNCHANGED cand
        /\ UNCHANGED <<enrolled, job>>
  /\ Pass(p)
  /\ UNCHANGED <<envVars, local, coolifyUuid, image, watchTag, deployedDigest,
                 cfg, lock, dataVars, asked, deploys, histVars>>

\* The local variables of the tasks in gone go out of scope; a request's
\* reference, target and verdict are kept, as history.
Forget(gone) ==
  /\ dig' = [p \in Procs |-> IF p \in gone THEN 0 ELSE dig[p]]
  /\ snapDigest' = [p \in Procs |-> IF p \in gone THEN 0 ELSE snapDigest[p]]
  /\ snapEnrolled' = [p \in Procs |-> p \notin gone /\ snapEnrolled[p]]
  /\ tracks' = [p \in Procs |-> p \notin gone /\ tracks[p]]
  /\ ref' = [p \in Procs |-> IF p \in gone \cap Sweeps THEN NoTag ELSE ref[p]]
  /\ tgt' = [p \in Procs |-> IF p \in gone \cap Sweeps THEN 0 ELSE tgt[p]]
  /\ seen' = [p \in Procs |-> IF p \in gone \cap Sweeps THEN 0 ELSE seen[p]]
  /\ cur' = [cur EXCEPT !.newTo = @ \ gone]
  /\ cand' = [cand EXCEPT !.newTo = @ \ gone]

\* Every way out, exceptions included, leaves the `async with`.
Leave(p) ==
  /\ pc[p] = "leave"
  /\ Release(p)
  /\ Forget({p})
  /\ Goto(p, IF p \in Refreshes THEN "report"
             ELSE IF p \in Updates THEN "done" ELSE "idle")
  /\ UNCHANGED <<envVars, local, rowVars, cfg, job, applying, outcome, asked,
                 deploys, floor, fact, writer>>

\* Mutant: the result's own word is stored instead of the verdict.
RawVerdict(p) == outcome[p]
Verdict(p) == IF outcome[p] = "pass" THEN "succeeded" ELSE "failed"

\* _run: deploys.finish, best-effort.
Finish(p) ==
  /\ pc[p] = "report"
  /\ \/ /\ deploys' = [deploys EXCEPT ![p] = Verdict(p)]
        /\ UNCHANGED faults
     \/ /\ faults < MaxFaults /\ faults' = faults + 1 /\ UNCHANGED deploys
  /\ Goto(p, "done")
  /\ UNCHANGED <<pushed, registry, restarts, local, rowVars, boxVars, lock,
                 dataVars, outcome, asked, histVars>>

-----------------------------------------------------------------------------
\* Coolify.  A job starts on the config it finds, with the image the box has
\* or the one the registry has.
JobStart ==
  /\ job = "queued" /\ cfg # NoTag
  /\ \E i \in {local[cfg], registry[cfg]} \ {0} :
       /\ cand' = [image |-> i, state |-> "starting", newTo |-> Noting]
       /\ local' = IF i = registry[cfg] THEN [local EXCEPT ![cfg] = i] ELSE local
  /\ job' = "running"
  /\ UNCHANGED <<envVars, rowVars, cfg, cur, lock, pc, dataVars, outcome, asked,
                 deploys, histVars>>

JobHealthy ==
  /\ job = "running" /\ cand.state = "starting"
  /\ cand' = [cand EXCEPT !.state = "running"]
  /\ UNCHANGED <<envVars, local, rowVars, cfg, job, cur, lock, pc, dataVars,
                 outcome, asked, deploys, histVars>>

JobSwap ==
  /\ job = "running" /\ cand.state \in {"running", "stopped"}
  /\ cur' = cand /\ cand' = NoContainer /\ job' = "none"
  /\ UNCHANGED <<envVars, local, rowVars, cfg, lock, pc, dataVars, outcome, asked,
                 deploys, histVars>>

\* The silent rollback: the new container goes, the previous one stays.
JobRollback ==
  /\ job = "queued" \/ (job = "running" /\ cand.state = "starting")
  /\ cand' = NoContainer /\ job' = "none"
  /\ UNCHANGED <<envVars, local, rowVars, cfg, cur, lock, pc, dataVars, outcome,
                 asked, deploys, histVars>>

\* Docker's restart policy, the watchdog or a wake: a later start, same image.
Restart ==
  /\ restarts < MaxRestarts /\ cur # NoContainer
  /\ restarts' = restarts + 1
  /\ cur' = [cur EXCEPT !.state = "running", !.newTo = Noting]
  /\ UNCHANGED <<pushed, registry, faults, local, rowVars, cfg, job, cand, lock,
                 pc, dataVars, outcome, asked, deploys, histVars>>

\* Sablier stops an enrolled container that is idle.
IdleStop ==
  /\ enrolled /\ cur.state = "running"
  /\ cur' = [cur EXCEPT !.state = "stopped"]
  /\ UNCHANGED <<envVars, local, rowVars, cfg, job, cand, lock, pc, dataVars,
                 outcome, asked, deploys, histVars>>

\* CI pushes a build.
Push(t) ==
  /\ pushed < MaxImage
  /\ pushed' = pushed + 1
  /\ registry' = [registry EXCEPT ![t] = pushed + 1]
  /\ UNCHANGED <<faults, restarts, local, rowVars, boxVars, lock, pc, dataVars,
                 outcome, asked, deploys, histVars>>

\* PUT /apps/<id>/autoupdate
SetAutoupdate ==
  /\ image # NoTag
  /\ watchTag' \in {NoTag, image}
  /\ UNCHANGED <<envVars, local, coolifyUuid, image, deployedDigest, enrolled,
                 boxVars, lock, pc, dataVars, outcome, asked, deploys, histVars>>

\* A statement of the database raises: the connection is gone, or none comes.
Raise(p) ==
  /\ pc[p] \in {"applied", "settle", "repull", "record"}
  /\ faults < MaxFaults /\ faults' = faults + 1
  /\ Fail(p)
  /\ UNCHANGED <<pushed, registry, restarts, local, rowVars, boxVars, lock,
                 dataVars, asked, deploys, histVars>>

\* A call without a time limit never returns: ensure_ghcr_login's communicate,
\* pool().acquire, a statement.  Whatever the task holds it goes on holding.
Unlimited == {"pull", "create", "set", "deploy", "applied", "settle", "repull",
              "record", "enrol", "report"}
Hang(p) ==
  /\ pc[p] \in Unlimited
  /\ faults < MaxFaults /\ faults' = faults + 1
  /\ Goto(p, "hung")
  /\ UNCHANGED <<pushed, registry, restarts, local, rowVars, boxVars, lock,
                 dataVars, outcome, asked, deploys, histVars>>

\* The control plane is recycled: every task dies, the locks with them.
Crash ==
  /\ faults < MaxFaults /\ faults' = faults + 1
  /\ lock' = Free
  /\ pc' = [p \in Procs |-> IF pc[p] \in {"idle", "done", "dead"} THEN pc[p]
                            ELSE IF p \in Sweeps THEN "idle" ELSE "dead"]
  /\ Forget(Procs)
  /\ UNCHANGED <<pushed, registry, restarts, local, rowVars, cfg, job, applying,
                 outcome, asked, deploys, floor, fact, writer>>

Work(p) ==
  \/ Pull(p) \/ InspectTarget(p) \/ Decide(p) \/ CreateApp(p) \/ SetImage(p)
  \/ PostDeploy(p) \/ ApplyImage(p) \/ SettleTarget(p) \/ VerifyDeploy(p)
  \/ SettlePull(p) \/ RecordDigest(p) \/ EnrolOrSleep(p) \/ Leave(p)

Coolify == JobStart \/ JobHealthy \/ JobSwap \/ JobRollback

Next ==
  \/ \E p \in Refreshes : RefreshPost(p) \/ Acquire(p) \/ Finish(p)
  \/ \E p \in Updates : UpdatePut(p) \/ Acquire(p)
  \/ \E p \in Sweeps : SweepRead(p)
  \/ \E p \in Procs : Work(p) \/ Raise(p) \/ Hang(p)
  \/ Coolify \/ Restart \/ IdleStop \/ SetAutoupdate \/ Crash
  \/ \E t \in Tags : Push(t)

Spec == Init /\ [][Next]_vars
-----------------------------------------------------------------------------
\* Fairness.  A task that can run does: one event loop, and the docker, Coolify
\* and verification calls have time limits (the calls that have none end in
\* Hang, which nothing is fair to).  asyncio.Lock hands over in FIFO order, so a
\* waiter that keeps finding the lock free gets it.
FairTasks ==
  /\ \A p \in Procs : WF_vars(Work(p))
  /\ \A p \in Refreshes \cup Updates : SF_vars(Acquire(p))
  /\ \A p \in Refreshes : WF_vars(Finish(p))

FairSpec == Spec /\ FairTasks

\* For the hourly loop: it comes round again, and no step that fails fails
\* every time -- nor does the image, once Coolify starts it.
FairSweeps ==
  /\ \A p \in Sweeps :
       /\ WF_vars(SweepRead(p))
       /\ SF_vars(Pull(p) /\ pc'[p] = "target")
       /\ SF_vars(SetImage(p) /\ pc'[p] = "deploy")
       /\ SF_vars(PostDeploy(p) /\ pc'[p] = "verify")
  /\ SF_vars(JobStart) /\ SF_vars(JobHealthy) /\ WF_vars(JobSwap)

HealSpec == FairSpec /\ FairSweeps

-----------------------------------------------------------------------------
TypeOK ==
  /\ pushed \in Images /\ registry \in [Tags -> Images]
  /\ local \in [Tags -> Images]
  /\ coolifyUuid \in BOOLEAN /\ enrolled \in BOOLEAN
  /\ image \in Tags \cup {NoTag} /\ watchTag \in Tags \cup {NoTag}
  /\ cfg \in Tags \cup {NoTag}
  /\ deployedDigest \in Images
  /\ job \in {"none", "queued", "running"}
  /\ cur \in Container /\ cand \in Container
  /\ lock \in Procs \cup {Free}
  /\ pc \in [Procs -> Steps]
  /\ ref \in [Procs -> Tags \cup {NoTag}] /\ asked \in [Procs -> Tags \cup {NoTag}]
  /\ dig \in [Procs -> Images] /\ tgt \in [Procs -> Images]
  /\ snapDigest \in [Procs -> Images]
  /\ snapEnrolled \in [Procs -> BOOLEAN] /\ tracks \in [Procs -> BOOLEAN]
  /\ applying \in [Procs -> BOOLEAN]
  /\ outcome \in [Procs -> {"none", "pass", "fail"}]
  /\ deploys \in [Refreshes -> {"none", "queued", "succeeded", "failed"}]
  /\ floor \in [Procs -> [Tags -> Images]]
  /\ seen \in [Procs -> Images] /\ fact \in Images
  /\ writer \in {"check", "settle"}
  /\ faults \in 0 .. MaxFaults /\ restarts \in 0 .. MaxRestarts

\* A refresh of an app that has a backend is recorded as succeeded only if the
\* container was seen running the build that was behind the tag when the
\* request was accepted, or a newer one -- whatever Coolify dropped or rolled
\* back, whoever deployed at the same time, whatever restarted meanwhile.
\* (check_and_update and refresh._run; if docker cannot inspect the image it has
\* just pulled there is no target and verify_deploy passes on less.)
SuccessIsLive ==
  ~InspectMayFail =>
    \A p \in Refreshes :
      deploys[p] = "succeeded" /\ ~applying[p] =>
        seen[p] # 0 /\ seen[p] >= floor[p][ref[p]]

\* deployed_digest as check_and_update writes it is never newer than what
\* verification found running: the row may lag the container, it may not claim
\* a build that has yet to run.
DigestNeverAhead ==
  ~InspectMayFail /\ writer = "check" => deployedDigest <= fact

\* From reading `before` to the deploy call and apply_image's UPDATE, the
\* request handlers of one app exclude each other (app_lock).
Configuring == {"decide", "create", "set", "deploy", "applied"}
RequestsDoNotOverlap ==
  \A p, q \in Refreshes \cup Updates :
    pc[p] \in Configuring /\ pc[q] \in Configuring => p = q

\* A refresh that was accepted gets its verdict, whichever of its steps fail and
\* whoever deploys beside it: the lock is given back on every path.  The ways out
\* are the three the code has: its own write is lost or the control plane goes
\* down (deploys.get then says "unknown"), or a call without a time limit never
\* returns, its own or that of the task that holds its lock.
Answered ==
  \A p \in Refreshes :
    deploys[p] = "queued" ~>
      \/ deploys[p] \in {"succeeded", "failed"}
      \/ faults > 0 /\ pc[p] \in {"done", "dead", "hung"}
      \/ faults > 0 /\ \E q \in Procs : lock = q /\ pc[q] = "hung"

\* The self-heal of check_and_update: once pushes stop, auto-update stays on and
\* the sweep is not left hanging in a call without a time limit, the serving
\* container ends up on the newest build for good, through failed pulls and
\* statements, dropped and rolled-back deploys and a restarted control plane.
Heals ==
  \A t \in Tags :
    <>[](/\ image = t /\ watchTag = t
         /\ \A p \in Sweeps : pc[p] # "hung") => <>[](cur.image = registry[t])

-----------------------------------------------------------------------------
\* What a comment of the repository says and the code does not do.

\* apply_image: after it, "the app tracks the right image from here on".
SweepKeepsImage ==
  [][\A p \in Sweeps : pc[p] = "record" => image' = image]_vars
=============================================================================
