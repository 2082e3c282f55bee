----------------------------- MODULE LockOrder -----------------------------
(***************************************************************************)
(* What the control plane's coroutines promise about the things they wait  *)
(* for: per-app locks, ROUTING_LOCK and connections of the database pool.  *)
(*                                                                         *)
(* Everything is acquired in this order, with at most two connections per  *)
(* coroutine and no lock after the second one:                             *)
(*                                                                         *)
(*     an app's lock  <  ROUTING_LOCK  <  the static host's app lock       *)
(*                                                                         *)
(* and ROUTING_LOCK is never asked for under the static host's lock.       *)
(* LocksProofs has the theorem that this discipline, together with more    *)
(* connections than coroutines, excludes every circular wait.              *)
(***************************************************************************)
EXTENDS Naturals, FiniteSets

CONSTANTS
  Tasks,    \* coroutines: requests in progress and background loops
  Apps,     \* app ids; an app's id stands for its app_lock
  Web,      \* WEB_APP_ID, the shared static host
  Routing,  \* ROUTING_LOCK
  Conn,     \* pool().acquire(): any connection
  PoolSize, \* max_size of the pool
  Nothing   \* not waiting

Locks == Apps \cup {Routing}

ASSUME LockOrderAssumption ==
  /\ Web \in Apps /\ Routing \notin Apps
  /\ Conn \notin Locks /\ Nothing \notin Locks \cup {Conn}
  /\ IsFiniteSet(Tasks) /\ PoolSize \in Nat

\* A connection may be asked for while another is held, so there must be one
\* that no coroutine's first can take.
EnoughConns == Cardinality(Tasks) < PoolSize

VARIABLES
  held,  \* [Tasks -> SUBSET Locks] the locks each coroutine holds
  conns, \* [Tasks -> 0 .. 2] how many connections it holds
  want   \* what it is suspended on

lockVars == <<held, conns, want>>

\* The connections in use, by holder.
Taken == {c \in Tasks \X {1, 2} : c[2] <= conns[c[1]]}

\* Can an acquire that waits for w be granted?
Available(w) ==
  IF w = Conn THEN Cardinality(Taken) < PoolSize
              ELSE \A t \in Tasks : w \notin held[t]

\* What a coroutine that holds the locks h and n connections may wait for.
InOrder(h, n, w) ==
  /\ n < 2
  /\ \/ w = Conn
     \/ w \in Apps /\ h = {}
     \/ w = Routing /\ h \cap {Web, Routing} = {}
     \/ w = Web /\ Routing \in h /\ Web \notin h

OrderInit ==
  /\ held = [t \in Tasks |-> {}] /\ conns = [t \in Tasks |-> 0]
  /\ want = [t \in Tasks |-> Nothing]

Ask(t, w) ==
  /\ want[t] = Nothing /\ InOrder(held[t], conns[t], w)
  /\ want' = [want EXCEPT ![t] = w]
  /\ UNCHANGED <<held, conns>>

Grant(t) ==
  /\ want[t] # Nothing /\ Available(want[t])
  /\ IF want[t] = Conn
       THEN conns' = [conns EXCEPT ![t] = @ + 1] /\ UNCHANGED held
       ELSE held' = [held EXCEPT ![t] = @ \cup {want[t]}] /\ UNCHANGED conns
  /\ want' = [want EXCEPT ![t] = Nothing]

\* Leaving one or more `async with`s, or giving up on entering one.
Give(t) ==
  /\ \E rest \in SUBSET held[t] : held' = [held EXCEPT ![t] = rest]
  /\ \E n \in 0 .. conns[t] : conns' = [conns EXCEPT ![t] = n]
  /\ want' = [want EXCEPT ![t] = Nothing]

OrderNext ==
  \E t \in Tasks :
    (\E w \in Locks \cup {Conn} : Ask(t, w)) \/ Grant(t) \/ Give(t)

OrderSpec == OrderInit /\ [][OrderNext]_lockVars
-----------------------------------------------------------------------------
OrderTypeOK ==
  /\ held \in [Tasks -> SUBSET Locks]
  /\ conns \in [Tasks -> 0 .. 2]
  /\ want \in [Tasks -> Locks \cup {Conn, Nothing}]

\* A coroutine that is suspended asked for what it waits for in order: with
\* OrderTypeOK the inductive invariant behind NeverStuck (LocksProofs).
WaitsInOrder ==
  \A t \in Tasks : want[t] # Nothing => InOrder(held[t], conns[t], want[t])

Busy(t) == held[t] # {} \/ conns[t] # 0
Blocked(t) == want[t] # Nothing /\ ~Available(want[t])

\* No circular wait: whenever a coroutine is blocked, some coroutine that holds
\* something is not, so what it holds is given back some day.
NeverStuck ==
  (\E t \in Tasks : Blocked(t)) => \E u \in Tasks : Busy(u) /\ ~Blocked(u)
=============================================================================
