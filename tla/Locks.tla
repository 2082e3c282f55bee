------------------------------- MODULE Locks -------------------------------
(***************************************************************************)
(* What every control-plane coroutine holds and waits for, handler by      *)
(* handler.  A call is a path: the sequence of `async with` entries (the   *)
(* lock, or Conn for pool().acquire()) and exits it goes through; a        *)
(* handler is the set of paths its conditions leave open.  Everything a    *)
(* handler does between two entries or exits is left out.                  *)
(*                                                                         *)
(* A loop over apps that enters and leaves the same blocks each time round *)
(* is one round for one app: another round waits for the same things       *)
(* holding the same things, and a coroutine may always be called again.    *)
(***************************************************************************)
EXTENDS LockOrder, Sequences, SequencesExt

CONSTANTS
  Exit,       \* leaving the innermost block
  Handlers,   \* BOUND: which handlers this instance calls
  AutoEnroll  \* SABLIER_AUTO_ENROLL

ASSUME LocksAssumption ==
  /\ Exit \notin Apps \cup {Routing, Conn, Nothing}
  /\ AutoEnroll \in BOOLEAN
  /\ Handlers \subseteq {"refresh", "code", "frontend", "env", "sleep", "domains",
                         "redirects", "routes", "delete", "db", "sweep", "reconcile"}

VARIABLES
  stack,   \* [Tasks -> Seq] the blocks a task is in, innermost last
  todo     \* [Tasks -> Seq] the rest of its path

vars == <<lockVars, stack, todo>>
-----------------------------------------------------------------------------
\* Paths.
Skip == {<<>>}
Then(P, Q) == {p \o q : p \in P, q \in Q}
Maybe(P) == P \cup Skip
In(r, P) == {<<r>> \o p \o <<Exit>> : p \in P}
WithConn(P) == In(Conn, P)
Query == WithConn(Skip)

\* events.record takes a connection of its own.
Record == Query

\* coolify.deploy records the deploy before it asks for it.
CoolifyDeploy == Record

\* routing.apply_backend_labels: _hosts_of, and if the labels differ the
\* sablier_enrolled column and a deploy.
ApplyBackendLabels == Then(Query, Maybe(Then(Query, CoolifyDeploy)))

\* Mutant: the static host's app lock is taken first.
SyncWebFirst ==
  In(Web, In(Routing, Then(Maybe(CoolifyDeploy), Maybe(ApplyBackendLabels))))

\* routing.sync_frontend_routes: under ROUTING_LOCK, the static host is
\* redeployed under its own lock if its labels changed, then backends are
\* relabelled.
SyncFrontendRoutes ==
  In(Routing, Then(Maybe(In(Web, CoolifyDeploy)), Maybe(ApplyBackendLabels)))

\* sablier.excluded: the static host never sleeps.
Excluded(a) == a = Web

\* Mutant: the static host is enrolled like any other app.
EnrolAny(a) == Then(SyncFrontendRoutes, Maybe(ApplyBackendLabels))

\* autoupdate._maybe_enroll_sablier
MaybeEnroll(a) ==
  IF AutoEnroll /\ ~Excluded(a)
    THEN Then(SyncFrontendRoutes, Maybe(ApplyBackendLabels)) ELSE Skip

\* After a verified deploy: enrolment, or going back to sleep.
Finish(a) == MaybeEnroll(a) \cup Maybe(Record)

\* autoupdate.check_and_update, on its caller's connection.
CheckAndUpdate(a) == Maybe(Then(CoolifyDeploy, Maybe(Finish(a))))

\* autoupdate.apply_image
ApplyImage == WithConn(CoolifyDeploy)

\* autoupdate.settle
Settle(a) == Then(Query, Maybe(WithConn(Finish(a))))

\* refresh._deploy
Deploy(a) ==
  In(a, Then(Query, Then(ApplyImage, Settle(a)) \cup WithConn(CheckAndUpdate(a))))

\* refresh._run, the background task: the deploy, then deploys.finish.
Refresh(a) == Then(Deploy(a), Query)

\* PUT /apps/<id>/code
UpdateCode(a) == Then(In(a, ApplyImage), Maybe(Settle(a)))

\* PUT /apps/<id>/frontend and /frontend-files; the static host is refused.
DeployFrontend(a) ==
  IF a = Web THEN {}
  ELSE Then(In(a, WithConn(Maybe(SyncFrontendRoutes))), Maybe(Query))

\* env._apply: the environment is pushed, and deployed if asked to.
ApplyEnv(a) == In(a, Maybe(CoolifyDeploy))

\* apps_env_set and apps_env_delete: the connection is held when the lock is
\* asked for.  A staged variable ends before it.
SetAppEnv(a) == WithConn(Maybe(ApplyEnv(a)))

\* A round of env_set and env_delete, for the app the loop is at.
SetSharedEnv(a) == WithConn(ApplyEnv(a))

\* PUT /apps/<id>/sleep, refused for the static host
SetSleep(a) ==
  IF Excluded(a) THEN {}
  ELSE WithConn(Maybe(Then(SyncFrontendRoutes, ApplyBackendLabels)))

\* POST and DELETE /apps/<id>/domains
ChangeDomains(a) ==
  WithConn(Maybe(Then(SyncFrontendRoutes, Maybe(ApplyBackendLabels))))

\* PUT /apps/<id>/redirects
SetRedirects == WithConn(Maybe(SyncFrontendRoutes))

\* main._sync_routes, at startup and after every sweep
SyncRoutes == WithConn(SyncFrontendRoutes)

\* DELETE /apps/<id>
DeleteApp == Then(Query, SyncRoutes)

\* POST and DELETE /apps/<id>/db
ChangeDb == Then(Query, Then(Query, Then(Maybe(Query), CoolifyDeploy)))

\* A round of check_all: the connection is held for the whole sweep, and no
\* app lock is taken.
CheckAll(a) == WithConn(CheckAndUpdate(a))

\* A round of sablier.reconcile
Reconcile(a) == WithConn(Maybe(CoolifyDeploy \cup ApplyBackendLabels))

Paths(h) ==
  CASE h = "refresh"    -> UNION {Refresh(a) : a \in Apps}
    [] h = "code"       -> UNION {UpdateCode(a) : a \in Apps}
    [] h = "frontend"   -> UNION {DeployFrontend(a) : a \in Apps}
    [] h = "env"        -> UNION {SetAppEnv(a) \cup SetSharedEnv(a) : a \in Apps}
    [] h = "sleep"      -> UNION {SetSleep(a) : a \in Apps}
    [] h = "domains"    -> UNION {ChangeDomains(a) : a \in Apps}
    [] h = "redirects"  -> SetRedirects
    [] h = "routes"     -> SyncRoutes
    [] h = "delete"     -> DeleteApp
    [] h = "db"         -> ChangeDb
    [] h = "sweep"      -> UNION {CheckAll(a) : a \in Apps}
    [] h = "reconcile"  -> UNION {Reconcile(a) : a \in Apps}

Calls == UNION {Paths(h) : h \in Handlers}
-----------------------------------------------------------------------------
\* What a task in the blocks s holds: held and conns of LockOrder.
LocksOf(s) == ToSet(s) \ {Conn}
ConnsOf(s) == Cardinality({i \in DOMAIN s : s[i] = Conn})

Init == OrderInit /\ stack = [t \in Tasks |-> <<>>] /\ todo = [t \in Tasks |-> <<>>]

Call(t) ==
  /\ todo[t] = <<>>
  /\ \E p \in Calls : todo' = [todo EXCEPT ![t] = p]
  /\ UNCHANGED <<lockVars, stack>>

\* `async with` reaches the acquire.
Await(t) ==
  /\ todo[t] # <<>> /\ Head(todo[t]) # Exit /\ want[t] = Nothing
  /\ want' = [want EXCEPT ![t] = Head(todo[t])]
  /\ UNCHANGED <<held, conns, stack, todo>>

\* asyncio.Lock and asyncpg's pool hand over what is free; neither acquire has
\* a timeout.
Acquire(t) ==
  /\ Grant(t)
  /\ stack' = [stack EXCEPT ![t] = Append(@, want[t])]
  /\ todo' = [todo EXCEPT ![t] = Tail(@)]

\* The innermost block is left.
Leave(t) ==
  /\ stack' = [stack EXCEPT ![t] = Front(@)]
  /\ held' = [held EXCEPT ![t] = LocksOf(Front(stack[t]))]
  /\ conns' = [conns EXCEPT ![t] = ConnsOf(Front(stack[t]))]

Release(t) ==
  /\ todo[t] # <<>> /\ Head(todo[t]) = Exit
  /\ Leave(t)
  /\ todo' = [todo EXCEPT ![t] = Tail(@)]
  /\ UNCHANGED want

\* What is left once the innermost block of p is left early.
Entries(p, n) == Cardinality({i \in 1 .. n : p[i] # Exit})
AfterBlock(p) ==
  LET out == CHOOSE n \in 1 .. Len(p) :
               /\ 2 * Entries(p, n) < n
               /\ \A m \in 1 .. n - 1 : 2 * Entries(p, m) >= m
  IN  SubSeq(p, out + 1, Len(p))

\* Mutant: acquired by hand, without `async with`: an exception leaves it held.
RaiseLeaks(t) ==
  /\ stack[t] # <<>>
  /\ todo' = [todo EXCEPT ![t] = AfterBlock(@)]
  /\ want' = [want EXCEPT ![t] = Nothing]
  /\ UNCHANGED <<held, conns, stack>>

\* An exception (a failed query, pull or Coolify call, a time limit, a
\* cancelled task) leaves the innermost block; whoever catches it goes on
\* there, else it leaves the next one.
Raise(t) ==
  /\ stack[t] # <<>>
  /\ Leave(t)
  /\ todo' = [todo EXCEPT ![t] = AfterBlock(@)]
  /\ want' = [want EXCEPT ![t] = Nothing]

Next == \E t \in Tasks :
          Call(t) \/ Await(t) \/ Acquire(t) \/ Release(t) \/ Raise(t)

Spec == Init /\ [][Next]_vars
-----------------------------------------------------------------------------
\* A task is in a block exactly as long as the exit of that block is ahead of
\* it, on every path out, and holds what its blocks hold.
TypeOK ==
  /\ OrderTypeOK
  /\ stack \in [Tasks -> Seq(Locks \cup {Conn})]
  /\ \A t \in Tasks :
       /\ Len(stack[t]) + 2 * Entries(todo[t], Len(todo[t])) = Len(todo[t])
       /\ held[t] = LocksOf(stack[t]) /\ conns[t] = ConnsOf(stack[t])
       /\ want[t] \in {Nothing, Head(Append(todo[t], Nothing))}

\* Every handler keeps to the discipline of LockOrder: it acquires app lock,
\* ROUTING_LOCK, static host's lock in that order, never a lock under a second
\* connection, never a third connection.  (locks.py, and the order comment in
\* routing._sync.)
KeepsOrder == OrderSpec

\* What a comment of the repository says and the code does not do.

\* coolify.deploy: writing the record "must not be able to stop a deploy".
\* (Checked with the pool as db.init_pool makes it.)
RecordNeverStops == NeverStuck
=============================================================================
