------------------------------ MODULE Routing -------------------------------
(***************************************************************************)
(* Who answers an app's hostname: its own container, or the static host    *)
(* (web) in front of it.  Three places must agree: the app's row, the      *)
(* router the static host's container carries for it, and the two labels   *)
(* the app's own container carries, the marker condition and the Sablier   *)
(* enrollment.  They are changed by the hourly sweep, by requests and by   *)
(* the tail of a code deploy, all through Coolify, which stores labels at  *)
(* once and puts them on a container only by a deploy it may drop.         *)
(*                                                                         *)
(* One app and the static host: the label blocks of two apps are written   *)
(* independently, and the static host's router of one does not mention the *)
(* other.  A block is the set of the labels that decide routing.  Host     *)
(* lists, and the domain map and manifest the static host reads, are not   *)
(* here.                                                                   *)
(***************************************************************************)
EXTENDS Naturals, FiniteSets

CONSTANTS
  Handlers,       \* requests in flight, at most this many at once
  Requests,       \* what they may be in this instance: below
  Sweep,          \* the hourly loop runs
  AutoEnroll,     \* SABLIER_AUTO_ENROLL
  LabelAttempts,  \* LABEL_ATTEMPTS
  Faults,         \* what may go wrong outside in this instance: below
  MaxFaults       \* BOUND: how often, in all

Kinds == {"on", "off", "publish", "clear", "deploy"}

ASSUME RoutingAssumption ==
  /\ Requests \subseteq Kinds /\ (Kinds \cup {"loop", "free"}) \cap Handlers = {}
  /\ {AutoEnroll, Sweep} \subseteq BOOLEAN
  /\ LabelAttempts \in Nat \ {0}
  /\ Faults \subseteq {"drift", "foreign", "lost", "fail", "unread", "restart"}
  /\ MaxFaults \in Nat

Procs == Handlers \cup (IF Sweep THEN {"loop"} ELSE {})
Apps  == {"app", "web"}
AppLabels == {"marker", "sablier"}
Blocks == SUBSET (AppLabels \cup {"route"})

VARIABLES
  row,      \* the app's row: bundle or redirects, sleep_when_idle, sablier_enrolled
  stored,   \* Coolify's custom_labels
  job,      \* Coolify's deployment job
  carried,  \* the labels a running job read when it started
  live,     \* the labels on the container
  gone,     \* the app has no container, not even a stopped one
  asleep,   \* the app's container was stopped after a deploy
  fresh,    \* the containers replaced since a verify_deploy looked at them
  asks,     \* deploys each confirmation in flight may still see through
  pc, my,   \* where a handler is, and its local variables
  routing,  \* who holds ROUTING_LOCK
  busy,     \* who holds app_lock of the app
  left      \* faults still to come

coolify == <<stored, job, carried, live, gone, asleep, fresh>>
procs   == <<pc, my, routing, busy>>
vars    == <<row, coolify, asks, procs, left>>

Free == "free"

\* routing.is_fronted, _FRONTED
Fronted(r) == r.front \/ r.sleeps

\* routing.scoped, unscoped
Marker(fronted) == IF fronted THEN {"marker"} ELSE {}

\* sablier.enrolled_labels, stripped
Enrollment(sleeps) == IF sleeps THEN {"sablier"} ELSE {}

\* The labels apply_backend_labels wants on a backend.
Backend(sleeps, fronted) == Marker(fronted) \cup Enrollment(sleeps)

\* routing.build_labels
Routers(fronted) == IF fronted THEN {"route"} ELSE {}

Locals(kind) == [kind |-> kind, held |-> FALSE, fronted |-> FALSE,
                 sleeps |-> FALSE, enrolled |-> FALSE, want |-> {}]
NoLocals(p) == Locals(IF p = "loop" THEN "loop" ELSE "none")

\* An app that is settled, or one whose first deploy has just landed.
Init ==
  /\ row \in {r \in [front : BOOLEAN, sleeps : BOOLEAN, enrolled : BOOLEAN] :
                r.enrolled => r.sleeps}
  /\ LET new == row.sleeps /\ ~row.enrolled IN
     stored = [app |-> IF new THEN {} ELSE Backend(row.sleeps, Fronted(row)),
               web |-> Routers(IF new THEN row.front ELSE Fronted(row))]
  /\ live = stored /\ carried = [a \in Apps |-> {}]
  /\ job = [a \in Apps |-> "none"]
  /\ gone = FALSE /\ asleep = FALSE /\ fresh = {}
  /\ asks = [b \in SUBSET AppLabels |-> 0]
  /\ pc = [p \in Procs |-> IF p = "loop" THEN "sync" ELSE "idle"]
  /\ my = [p \in Procs |-> NoLocals(p)]
  /\ routing = Free /\ busy = Free
  /\ left = MaxFaults
-----------------------------------------------------------------------------
(***************************************************************************)
(* Coolify and docker.                                                     *)
(***************************************************************************)

\* A deploy is answered 200 and dropped while a job is there.
Deploy(a) == job' = [job EXCEPT ![a] = IF @ = "none" THEN "queued" ELSE @]

Spend(f) == f \in Faults /\ left > 0 /\ left' = left - 1

\* A job reads the stored labels when it starts; it may regenerate them.
JobStarts(a) ==
  /\ job[a] = "queued"
  /\ job' = [job EXCEPT ![a] = "running"]
  /\ \/ carried' = [carried EXCEPT ![a] = stored[a]] /\ UNCHANGED <<stored, left>>
     \/ /\ Spend("drift")
        /\ stored' = [stored EXCEPT ![a] = {}]
        /\ carried' = [carried EXCEPT ![a] = {}]
  /\ UNCHANGED <<row, live, gone, asleep, fresh, asks, procs>>

\* Somebody is in verify_deploy, or about to be.
Watched(a) == \E p \in Procs :
  pc[p] \in IF a = "web" THEN {"ask", "verify"} ELSE {"settle"}

\* The new container is up.  Coolify still has work to do.
JobReplaces(a) ==
  /\ job[a] = "running"
  /\ job' = [job EXCEPT ![a] = "closing"]
  /\ live' = [live EXCEPT ![a] = carried[a]]
  /\ gone' = (gone /\ a = "web") /\ asleep' = (asleep /\ a = "web")
  /\ fresh' = IF Watched(a) THEN fresh \cup {a} ELSE fresh
  /\ carried' = [carried EXCEPT ![a] = {}]
  /\ UNCHANGED <<row, stored, asks, procs, left>>

JobEnds(a) ==
  /\ \/ job[a] = "closing" /\ UNCHANGED left
     \/ job[a] = "running" /\ Spend("fail")  \* rolled back
  /\ job' = [job EXCEPT ![a] = "none"]
  /\ carried' = [carried EXCEPT ![a] = {}]
  /\ UNCHANGED <<row, stored, live, gone, asleep, fresh, asks, procs>>

\* An environment change deploys the static host, under the lock that a sync
\* holds from its labels to its verification, and waits for nothing.
ForeignDeploy ==
  /\ \A p \in Procs : pc[p] \notin {"ask", "verify"}
  /\ Spend("foreign") /\ Deploy("web")
  /\ UNCHANGED <<row, stored, carried, live, gone, asleep, fresh, asks, procs>>

ContainerLost ==
  /\ Spend("lost") /\ job["app"] = "none"
  /\ gone' = TRUE /\ asleep' = FALSE
  /\ live' = [live EXCEPT !["app"] = {}]
  /\ UNCHANGED <<row, stored, job, carried, fresh, asks, procs>>

-----------------------------------------------------------------------------
(***************************************************************************)
(* sync_frontend_routes, for whoever calls it.                             *)
(***************************************************************************)

Scopes(p) == my[p].kind \in {"loop", "publish", "clear"}  \* scope_backends

\* Where a caller goes when the sync returns, or raises.
AfterSync(p, ok) ==
  CASE my[p].kind = "loop" -> "fetch"
    [] my[p].kind \in {"publish", "clear"} -> "done"
    [] my[p].kind = "deploy" -> IF ok THEN "apply" ELSE "stop"
    [] my[p].kind \in {"on", "off"} -> IF ok THEN "reread" ELSE "done"

Leave(p, there) ==
  /\ pc' = [pc EXCEPT ![p] = there]
  /\ busy' = IF there = "done" /\ busy = p THEN Free ELSE busy
  /\ my' = [my EXCEPT ![p] = IF there \in {"done", "sleeping"} THEN NoLocals(p) ELSE @]

EndSync(p, ok) == routing' = Free /\ Leave(p, AfterSync(p, ok))

\* The lock, and the query of the fronted apps.
SyncStarts(p) ==
  /\ pc[p] = "sync" /\ routing = Free
  /\ routing' = p
  /\ my' = [my EXCEPT ![p].held = Fronted(row),
                      ![p].sleeps = IF Scopes(p) THEN row.sleeps ELSE @]
  /\ pc' = [pc EXCEPT ![p] = "look"]
  /\ UNCHANGED <<row, coolify, asks, busy, left>>

ToBackends(p) ==
  IF Scopes(p) THEN pc' = [pc EXCEPT ![p] = "scope"] /\ UNCHANGED <<my, routing, busy>>
               ELSE EndSync(p, TRUE)

\* The static host's live labels against the ones wanted.  With no labels to be
\* read (no container, or an inspect that fails) the sync returns, and its
\* caller goes on as after any other.
SyncLooks(p) ==
  /\ pc[p] = "look"
  /\ \/ /\ Routers(my[p].held) = live["web"]
        /\ ToBackends(p) /\ UNCHANGED left
     \/ /\ Routers(my[p].held) # live["web"]
        /\ pc' = [pc EXCEPT ![p] = "label"] /\ UNCHANGED <<my, routing, busy, left>>
     \/ Spend("unread") /\ EndSync(p, TRUE)
  /\ UNCHANGED <<row, coolify, asks>>

\* The container's start time, and the labels stored.
SyncLabels(p) ==
  /\ pc[p] = "label"
  /\ fresh' = fresh \ {"web"}
  /\ stored' = [stored EXCEPT !["web"] = Routers(my[p].held)]
  /\ pc' = [pc EXCEPT ![p] = "ask"]
  /\ UNCHANGED <<row, job, carried, live, gone, asleep, asks, my, routing, busy,
                 left>>

SyncDeploys(p) ==
  /\ pc[p] = "ask"
  /\ \/ /\ Deploy("web") /\ pc' = [pc EXCEPT ![p] = "verify"]
        /\ UNCHANGED <<my, routing, busy, left>>
     \/ Spend("fail") /\ EndSync(p, FALSE) /\ UNCHANGED job
  /\ UNCHANGED <<row, stored, carried, live, gone, asleep, fresh, asks>>

\* Mutant: the labels are as good as landed once the deploy call returns.
SyncTrusts(p) ==
  /\ pc[p] = "verify"
  /\ ToBackends(p) /\ fresh' = fresh \ {"web"}
  /\ UNCHANGED <<row, stored, job, carried, live, gone, asleep, asks, left>>

\* verify_deploy: a container that started since, or none in 150 s.
SyncVerifies(p) ==
  /\ pc[p] = "verify"
  /\ \/ "web" \in fresh /\ ToBackends(p)
     \/ "web" \notin fresh /\ job["web"] = "none" /\ EndSync(p, TRUE)
  /\ fresh' = fresh \ {"web"}
  /\ UNCHANGED <<row, stored, job, carried, live, gone, asleep, asks, left>>

\* Mutant: an app that is no longer fronted is never looked at again.
SyncScopesOnly(p) ==
  /\ pc[p] = "scope"
  /\ IF my[p].held
     THEN /\ pc' = [pc EXCEPT ![p] = "apply"]
          /\ my' = [my EXCEPT ![p].fronted = TRUE]
          /\ UNCHANGED <<routing, busy>>
     ELSE EndSync(p, TRUE)
  /\ UNCHANGED <<row, coolify, asks, left>>

\* The pass over the backends.  One that was not fronted is read again, and
\* touched only if it still carries the marker.
SyncScopes(p) ==
  /\ pc[p] = "scope"
  /\ IF my[p].held \/ "marker" \in live["app"]
     THEN /\ pc' = [pc EXCEPT ![p] = "apply"]
          /\ my' = [my EXCEPT ![p].fronted = my[p].held,
                              ![p].sleeps = IF my[p].held THEN @ ELSE row.sleeps]
          /\ UNCHANGED <<routing, busy>>
     ELSE EndSync(p, TRUE)
  /\ UNCHANGED <<row, coolify, asks, left>>
-----------------------------------------------------------------------------
(***************************************************************************)
(* apply_backend_labels, for whoever calls it.                             *)
(***************************************************************************)

\* Where a caller goes when it returns, or raises.
AfterApply(p, ok) ==
  IF ok THEN "column"
  ELSE CASE my[p].kind = "loop" -> "sleeping"
         [] my[p].kind = "deploy" -> "stop"
         [] my[p].kind \in {"on", "off"} -> "done"

EndApply(p, ok) ==
  IF routing = p THEN EndSync(p, TRUE)
  ELSE Leave(p, AfterApply(p, ok)) /\ UNCHANGED routing

\* Mutant: the block is written whatever the container carries.
NeverSame(want) == FALSE

\* desired == base
Unchanged(want) == want = live["app"]

\* The container's labels against the ones wanted; an app with no container
\* raises NoContainer.
ApplyReads(p) ==
  /\ pc[p] = "apply"
  /\ LET want == Backend(my[p].sleeps, my[p].fronted) IN
     IF gone \/ Unchanged(want) THEN EndApply(p, ~gone)
     ELSE /\ my' = [my EXCEPT ![p].want = want]
          /\ pc' = [pc EXCEPT ![p] = "write"]
          /\ UNCHANGED <<routing, busy>>
  /\ UNCHANGED <<row, coolify, asks, left>>

ApplyWrites(p) ==
  /\ pc[p] = "write"
  /\ stored' = [stored EXCEPT !["app"] = my[p].want]
  /\ pc' = [pc EXCEPT ![p] = "recycle"]
  /\ UNCHANGED <<row, job, carried, live, gone, asleep, fresh, asks, my, routing,
                 busy, left>>

\* Mutant: one more than it may.
OneMore == LabelAttempts + 1

\* What a confirmation may see: the deploy it follows, and its own.
Tries == LabelAttempts

\* The column, the deploy, and the task that confirms it.
ApplyDeploys(p) ==
  /\ pc[p] = "recycle"
  /\ row' = [row EXCEPT !.enrolled = my[p].sleeps]
  /\ \/ /\ Deploy("app")
        /\ asks' = [asks EXCEPT ![my[p].want] = Tries]
        /\ EndApply(p, TRUE) /\ UNCHANGED left
     \/ Spend("fail") /\ EndApply(p, FALSE) /\ UNCHANGED <<job, asks>>
  /\ UNCHANGED <<stored, carried, live, gone, asleep, fresh>>

\* _confirm_labels_landed.  Its window is several times a deploy.
Confirm(want) ==
  /\ asks[want] > 0
  /\ \/ /\ ~gone /\ live["app"] = want
        /\ asks' = [asks EXCEPT ![want] = 0] /\ UNCHANGED job
     \/ /\ gone \/ live["app"] # want
        /\ job["app"] = "none"
        /\ asks' = [asks EXCEPT ![want] = @ - 1]
        /\ IF asks[want] > 1 THEN Deploy("app") ELSE UNCHANGED job
  /\ UNCHANGED <<row, stored, carried, live, gone, asleep, fresh, procs, left>>
-----------------------------------------------------------------------------
(***************************************************************************)
(* The handlers.                                                           *)
(***************************************************************************)

\* set_sleep; a bundle published; the redirects emptied.  Publishing holds
\* the app's lock to its end.
Begin(p, kind) ==
  /\ pc[p] = "idle" /\ kind # "deploy"
  /\ kind = "publish" => busy = Free
  /\ busy' = IF kind = "publish" THEN p ELSE busy
  /\ row' = CASE kind = "on"      -> [row EXCEPT !.sleeps = TRUE]
              [] kind = "off"     -> [row EXCEPT !.sleeps = FALSE]
              [] kind = "publish" -> [row EXCEPT !.front = TRUE]
              [] kind = "clear"   -> [row EXCEPT !.front = FALSE]
  /\ my' = [my EXCEPT ![p] = Locals(kind)]
  /\ pc' = [pc EXCEPT ![p] = "sync"]
  /\ UNCHANGED <<coolify, asks, routing, left>>

\* set_sleep asks the row again who holds the hostname.
Reread(p) ==
  /\ pc[p] = "reread"
  /\ my' = [my EXCEPT ![p].sleeps = (my[p].kind = "on"), ![p].fronted = Fronted(row)]
  /\ pc' = [pc EXCEPT ![p] = "apply"]
  /\ UNCHANGED <<row, coolify, asks, routing, busy, left>>

\* The column is written once more by the caller.
Column(p) ==
  /\ pc[p] = "column"
  /\ row' = [row EXCEPT !.enrolled = (my[p].kind # "off")]
  /\ Leave(p, IF p = "loop" THEN "sleeping" ELSE "done")
  /\ UNCHANGED <<coolify, asks, routing, left>>

\* A code deploy, under the app's lock, with the row it was given.
DeployBegins(p, kind) ==
  /\ kind = "deploy" /\ pc[p] = "idle" /\ busy = Free
  /\ busy' = p
  /\ my' = [my EXCEPT ![p] = [Locals(kind) EXCEPT !.sleeps = row.sleeps,
                                !.enrolled = row.enrolled, !.fronted = TRUE]]
  /\ Deploy("app") /\ fresh' = fresh \ {"app"}
  /\ pc' = [pc EXCEPT ![p] = "settle"]
  /\ UNCHANGED <<row, stored, carried, live, gone, asleep, asks, routing, left>>

\* Verified: _maybe_enroll_sablier, or straight to sleep_after_deploy.  Not
\* verified: that is all.
Settle(p) ==
  /\ pc[p] = "settle"
  /\ IF "app" \in fresh
     THEN /\ pc' = [pc EXCEPT ![p] =
                      IF AutoEnroll /\ my[p].sleeps /\ ~my[p].enrolled
                      THEN "sync" ELSE "stop"]
          /\ UNCHANGED <<my, busy>>
     ELSE job["app"] = "none" /\ Leave(p, "done")
  /\ fresh' = fresh \ {"app"}
  /\ UNCHANGED <<row, stored, job, carried, live, gone, asleep, asks, routing, left>>

\* sleep_after_deploy's conditions
Stops(p) == my[p].sleeps /\ my[p].enrolled

SleepAfterDeploy(p) ==
  /\ pc[p] = "stop"
  /\ asleep' = (asleep \/ (Stops(p) /\ ~gone))
  /\ Leave(p, "done")
  /\ UNCHANGED <<row, stored, job, carried, live, gone, fresh, asks, routing, left>>

\* sablier.reconcile: the apps whose row says they sleep ...
Fetch(p) ==
  /\ p = "loop" /\ pc[p] = "fetch"
  /\ IF row.sleeps
     THEN /\ my' = [my EXCEPT ![p].sleeps = TRUE, ![p].fronted = TRUE]
          /\ pc' = [pc EXCEPT ![p] = "check"] /\ UNCHANGED busy
     ELSE Leave(p, "sleeping")
  /\ UNCHANGED <<row, coolify, asks, routing, left>>

\* ... and what their containers say.
Reconciles(p) ==
  /\ p = "loop" /\ pc[p] = "check"
  /\ IF gone THEN Deploy("app") ELSE UNCHANGED job
  /\ Leave(p, IF gone \/ "sablier" \in live["app"] THEN "sleeping" ELSE "apply")
  /\ UNCHANGED <<row, stored, carried, live, gone, asleep, fresh, asks, routing,
                 left>>

\* _autoupdate_loop: another hour.
Hour(p) ==
  /\ p = "loop" /\ pc[p] = "sleeping"
  /\ pc' = [pc EXCEPT ![p] = "sync"]
  /\ UNCHANGED <<row, coolify, asks, my, routing, busy, left>>

\* The control plane goes, every handler, lock and confirmation with it, and
\* comes back: it begins with a sync.
Restart ==
  /\ Spend("restart")
  /\ pc' = [p \in Procs |-> IF p = "loop" THEN "sync"
                          ELSE IF pc[p] = "idle" THEN "idle" ELSE "done"]
  /\ my' = [p \in Procs |-> NoLocals(p)]
  /\ routing' = Free /\ busy' = Free
  /\ asks' = [b \in SUBSET AppLabels |-> 0]
  /\ UNCHANGED <<row, coolify>>
-----------------------------------------------------------------------------
Job(a) == JobStarts(a) \/ JobReplaces(a) \/ JobEnds(a)

Sync(p) == \/ SyncStarts(p) \/ SyncLooks(p) \/ SyncLabels(p) \/ SyncDeploys(p)
           \/ SyncVerifies(p) \/ SyncScopes(p)

Apply(p) == ApplyReads(p) \/ ApplyWrites(p) \/ ApplyDeploys(p)

Handle(p) == \/ Sync(p) \/ Apply(p) \/ Reread(p) \/ Column(p) \/ Settle(p)
             \/ SleepAfterDeploy(p) \/ Fetch(p) \/ Reconciles(p) \/ Hour(p)

Outside == ForeignDeploy \/ ContainerLost

Next ==
  \/ \E a \in Apps : Job(a)
  \/ \E p \in Handlers, kind \in Requests : Begin(p, kind) \/ DeployBegins(p, kind)
  \/ \E p \in Procs : Handle(p)
  \/ \E want \in SUBSET AppLabels : Confirm(want)
  \/ Outside \/ Restart

Spec == Init /\ [][Next]_vars

\* Jobs end and handlers go on.  ROUTING_LOCK is an asyncio.Lock, which
\* serves its waiters in order.
FairSpec ==
  /\ Spec
  /\ \A a \in Apps : WF_vars(Job(a))
  /\ \A p \in Procs : WF_vars(Handle(p)) /\ SF_vars(SyncStarts(p))
  /\ \A want \in SUBSET AppLabels : WF_vars(Confirm(want))
-----------------------------------------------------------------------------
TypeOK ==
  /\ row \in [front : BOOLEAN, sleeps : BOOLEAN, enrolled : BOOLEAN]
  /\ stored \in [Apps -> Blocks] /\ carried \in [Apps -> Blocks]
  /\ live \in [Apps -> Blocks]
  /\ \A f \in {stored, carried, live} : "route" \notin f["app"]
  /\ job \in [Apps -> {"none", "queued", "running", "closing"}]
  /\ {gone, asleep} \subseteq BOOLEAN /\ fresh \subseteq Apps
  /\ asks \in [SUBSET AppLabels -> 0..LabelAttempts]
  /\ pc \in [Procs -> {"idle", "sync", "look", "label", "ask", "verify", "scope",
                       "apply", "write", "recycle", "reread", "column", "settle",
                       "stop", "fetch", "check", "sleeping", "done"}]
  /\ routing \in Procs \cup {Free} /\ busy \in Procs \cup {Free}
  /\ left \in 0..MaxFaults

\* A backend gives up its public hostname, or becomes one that may be stopped,
\* only when the static host's container carries the router that takes its
\* place: _sync writes the routers first and waits for them, whoever asks.
FrontedFirst == live["app"] # {} => "route" \in live["web"]

\* A request for the hostname is answered, at once or after a wake.  Sablier
\* may stop an enrolled app at any moment.
Answers == IF "route" \in live["web"]
           THEN asleep => "sablier" \in live["app"]
           ELSE ~asleep /\ live["app"] = {}

Settled ==
  /\ live["web"] = Routers(Fronted(row))
  /\ ~gone => Answers /\ ("marker" \in live["app"] <=> Fronted(row))
  /\ row.sleeps => ~gone /\ "sablier" \in live["app"]

\* Whatever one request leaves half done, whatever Coolify drops, regenerates
\* or rolls back, the hourly sweep brings the static host's router and the
\* app's labels to what the row says, and the app answers.
RoutesHeal == <>[]Settled

\* And then it leaves them alone: a sweep that keeps finding something to
\* write would restart the app, or every app's static host, every hour.
Quiet == <>[](\A a \in Apps : job[a] = "none")

\* set_sleep: "Off: the enrollment is removed and the app runs continuously."
OffRunsContinuously == <>[](~row.sleeps => ~asleep /\ "sablier" \notin live["app"])
=============================================================================
