------------------------------ MODULE Heartbeat ------------------------------
(***************************************************************************)
(* The control plane's background loops and the table that tells whether   *)
(* they still achieve anything: app/heartbeat.py, the loops of app/main.py *)
(* and the beat of the host's cron dispatcher.                             *)
(*                                                                         *)
(* A loop sleeps, works, and beats: a good beat stamps the task's row with *)
(* the time, a failed one leaves the stamp alone.  The control plane       *)
(* restarts at will, mostly because it deploys itself, and every loop then *)
(* starts over, which is why the sweep counts its hour from its row and    *)
(* not from the start of the process.                                      *)
(*                                                                         *)
(* Time passes in units.  A row holds the age of its stamp, which stops    *)
(* growing once it is stale.  Bounds: a pass, and the sweep's repair at    *)
(* startup, takes at most MaxPass units unless it hangs, a restart takes   *)
(* none, and the process stays up for at least MinUp units: below that the *)
(* floor on the sweep's delay starves it by design (main.py:373-377).  At  *)
(* most MaxFaults things go wrong.                                         *)
(***************************************************************************)
EXTENDS Integers

CONSTANTS
  Loops,          \* the loops that run
  Period,         \* per loop, how long it sleeps
  SweepMinDelay,  \* the least the sweep sleeps
  StaleAfter,     \* per task, the age at which it counts as stalled
  MaxPass,        \* how long a pass takes at most
  MinUp,          \* how long the control plane stays up at least
  Faults,         \* what may go wrong
  MaxFaults       \* how often

VARIABLES
  row,     \* per task, the age of its last good beat, Never or NoRow
  loop,    \* per loop: where it is, the time left there, its work so far whole
  up,      \* how long the control plane has been up (to MinUp), -1 when down
  spare,   \* faults left
  hurt     \* whether a fault has touched a loop

hvars == <<row, loop, up, spare, hurt>>

Sweep == "autoupdate_sweep"
Ingest == "analytics_ingest"
Dispatcher == "cron_dispatch"
Tasks == Loops \cup {Dispatcher}

NoRow == -2
Never == -1      \* the row of a task that has only ever failed

\* What a restart at the worst moment costs a loop: the sleep it begins anew, and
\* for the sweep the repair before it.
AtBoot(t) == IF t = Sweep THEN MaxPass + SweepMinDelay
             ELSE IF t = Ingest THEN 0 ELSE Period[t]

ASSUME Timing ==
  /\ Period \in [Loops -> Nat] /\ StaleAfter \in [Tasks -> Nat]
  /\ SweepMinDelay \in Nat /\ MaxPass \in Nat /\ MinUp \in Nat /\ MaxFaults \in Nat
  /\ Dispatcher \notin Loops
  /\ Sweep \in Loops => SweepMinDelay <= Period[Sweep]

\* The declared tolerance leaves room for one interrupted pass and the next.
ASSUME Room == \A t \in Loops :
  /\ MinUp > AtBoot(t) + MaxPass
  /\ StaleAfter[t] >= Period[t] + AtBoot(t) + 2 * MaxPass

Ages(t) == -2 .. StaleAfter[t] + 1
Stale(t) == row[t] = Never \/ row[t] > StaleAfter[t]
Asleep(n) == [at |-> "asleep", left |-> n, whole |-> TRUE]
Off == [at |-> "off", left |-> 0, whole |-> TRUE]
Starting == [at |-> "startup", left |-> MaxPass, whole |-> TRUE]

Fault(f) == f \in Faults /\ spare > 0 /\ spare' = spare - 1
NoFault == UNCHANGED <<spare, hurt>>
LoopFault(f) == Fault(f) /\ hurt' = TRUE

HeartInit == /\ row = [t \in Tasks |-> NoRow]
             /\ loop = [t \in Loops |-> Off]
             /\ up = -1 /\ spare = MaxFaults /\ hurt = FALSE
-----------------------------------------------------------------------------
\* register: a row for every task that has none, stamped now; never again.
Registered == [t \in Tasks |-> IF row[t] = NoRow THEN 0 ELSE row[t]]

\* A good beat.  A failed one makes the row if need be but stamps nothing.
Beaten(t) == [row EXCEPT ![t] = 0]
BeatenBadly(t) == [row EXCEPT ![t] = IF @ = NoRow THEN Never ELSE @]

\* Measured from the last sweep that completed, not from the process start.
\* (the mutant has no floor on the delay)
UntilNextSweepUnfloored(since) == IF since < 0 THEN Period[Sweep] ELSE Period[Sweep] - since
UntilNextSweep(since) ==
  IF since < 0 THEN Period[Sweep]
  ELSE IF Period[Sweep] - since > SweepMinDelay THEN Period[Sweep] - since
       ELSE SweepMinDelay

\* The sleep before a loop's first pass and between two of them.
\* (the mutant sleeps the whole interval at every start)
FirstSleepFlat(t, rows) == IF t = Ingest THEN 0 ELSE Period[t]
FirstSleep(t, rows) == IF t = Sweep THEN UntilNextSweep(rows[Sweep])
                       ELSE IF t = Ingest THEN 0 ELSE Period[t]
NextSleep(t, rows) == IF t = Sweep THEN UntilNextSweep(rows[Sweep]) ELSE Period[t]

\* lifespan: register, then the loops.
Boot == /\ up = -1 /\ up' = 0
        /\ \/ row' = Registered /\ NoFault
           \/ row' = row /\ LoopFault("register")
        /\ loop' = [t \in Loops |-> IF t = Sweep THEN Starting
                                     ELSE Asleep(FirstSleep(t, row'))]

\* The sweep's repair of enrolments before its first sleep ends, one way or the
\* other: nothing is beaten.  The lookup of the row may fail, which reads as none.
StartupEnds == /\ loop[Sweep].at = "startup"
               /\ \/ loop' = [loop EXCEPT ![Sweep] = Asleep(FirstSleep(Sweep, row))]
                     /\ NoFault
                  \/ loop' = [loop EXCEPT ![Sweep] = Asleep(Period[Sweep])]
                     /\ LoopFault("lookup")
               /\ UNCHANGED <<row, up>>

\* A deploy of the control plane, or its death: whatever a loop did is lost.
Restart == /\ up = MinUp /\ up' = -1
           /\ loop' = [t \in Loops |-> Off]
           /\ UNCHANGED <<row, spare, hurt>>

Wakes(t) == /\ loop[t].at = "asleep" /\ loop[t].left = 0
            /\ loop' = [loop EXCEPT ![t] = [at |-> "work", left |-> MaxPass, whole |-> TRUE]]
            /\ UNCHANGED <<row, up, spare, hurt>>

\* The pass's last step, which beats and goes back to sleep.  The beat may be
\* lost, and the lookup of the sweep's row may fail, which reads as no row.
Ends(t, rows) ==
  /\ \/ row' = rows /\ NoFault
        /\ loop' = [loop EXCEPT ![t] = Asleep(NextSleep(t, rows))]
     \/ row' = row /\ LoopFault("beat")
        /\ loop' = [loop EXCEPT ![t] = Asleep(NextSleep(t, row))]
     \/ row' = rows /\ LoopFault("lookup")
        /\ loop' = [loop EXCEPT ![t] = Asleep(Period[t])]
  /\ UNCHANGED up

\* The sweep's redeploys come first: a failure is a failed beat, and the
\* repairs go on.
Checks == /\ loop[Sweep].at = "work"
          /\ \/ loop' = [loop EXCEPT ![Sweep].at = "repair"]
                /\ NoFault /\ UNCHANGED row
             \/ loop' = [loop EXCEPT ![Sweep].at = "repair", ![Sweep].whole = FALSE]
                /\ row' = BeatenBadly(Sweep) /\ LoopFault("work")
          /\ UNCHANGED up

\* The step whose outcome is the beat: ingest_once, check_once, and of the
\* sweep the repair of routes and enrolments alone.
LastStep(t) == IF t = Sweep THEN "repair" ELSE "work"

Succeeds(t) == loop[t].at = LastStep(t) /\ Ends(t, Beaten(t))

Fails(t) == /\ loop[t].at = LastStep(t)
            /\ row' = BeatenBadly(t) /\ LoopFault("work")
            /\ loop' = [loop EXCEPT ![t] = Asleep(NextSleep(t, row'))]
            /\ UNCHANGED up

\* A loop that keeps running while achieving nothing.
Hangs(t) == /\ loop[t].at \in {"startup", "work", "repair"}
            /\ loop' = [loop EXCEPT ![t].at = "hung"]
            /\ LoopFault("hang") /\ UNCHANGED <<row, up>>

\* A pass of the host's dispatcher that found the database and ran to its end.
\* Nothing says when: a pass may be late, die on the way or not be installed.
Dispatch == /\ row' = Beaten(Dispatcher)
            /\ UNCHANGED <<loop, up, spare, hurt>>

Older(t) == IF row[t] < 0 \/ row[t] > StaleAfter[t] THEN row[t] ELSE row[t] + 1

\* A unit passes, during which nothing that is due is put off.
Tick == /\ up # -1
        /\ \A t \in Loops : loop[t].at # "hung" => loop[t].left > 0
        /\ row' = [t \in Tasks |-> Older(t)]
        /\ loop' = [t \in Loops |-> IF loop[t].left > 0
                                    THEN [loop[t] EXCEPT !.left = @ - 1] ELSE loop[t]]
        /\ up' = IF up < MinUp THEN up + 1 ELSE up
        /\ UNCHANGED <<spare, hurt>>

LoopStep(t) == Wakes(t) \/ Succeeds(t) \/ Fails(t) \/ Hangs(t)
HeartNext == \/ Boot \/ Restart \/ Tick \/ Dispatch
             \/ Sweep \in Loops /\ (StartupEnds \/ Checks)
             \/ \E t \in Loops : LoopStep(t)

HeartSpec == HeartInit /\ [][HeartNext]_hvars
-----------------------------------------------------------------------------
HeartTypeOK ==
  /\ row \in [Tasks -> Int] /\ \A t \in Tasks : row[t] \in Ages(t)
  /\ loop \in [Loops -> [at : {"off", "startup", "asleep", "work", "repair", "hung"},
                         left : Nat, whole : BOOLEAN]]
  /\ up \in -1 .. MinUp /\ spare \in 0 .. MaxFaults /\ hurt \in BOOLEAN

(***************************************************************************)
(* However often the control plane restarts, no loop that has met no fault *)
(* is ever taken for a stalled one: heartbeat.py:25-41 and main.py:381.    *)
(***************************************************************************)
OnTime == ~hurt => \A t \in Loops : ~Stale(t)

(***************************************************************************)
(* What main.py:440-442 says of the sweep's beat, and what the code does   *)
(* not keep: a good beat is a sweep that worked from its first step to its *)
(* last (WatchdogBeat.cfg shows the redeploys failing under a good beat).       *)
(***************************************************************************)
BeatIsWhole == [][(/\ loop[Sweep].at = "repair" /\ loop'[Sweep].at = "asleep"
                   /\ row'[Sweep] = 0 /\ row[Sweep] # 0) => loop[Sweep].whole]_hvars
=============================================================================
