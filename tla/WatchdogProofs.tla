--------------------------- MODULE WatchdogProofs ----------------------------
(***************************************************************************)
(* For any apps, tasks and cooldown: the loops are on time, containers are *)
(* started with the cooldown between two starts, and the chat is told.     *)
(***************************************************************************)
EXTENDS Watchdog, TLAPS

-----------------------------------------------------------------------------
(***************************************************************************)
(* The loops and their beats, in any periods, tolerances and restarts that *)
(* leave the room Room asks for.                                           *)
(***************************************************************************)

\* How old a row may be when the process dies.
AtWorst(t) == Period[t] + MaxPass

\* A loop that has beaten since the start is on its way to the next beat, and
\* one that has not is on its way to the first: neither is later than this.
Beating(t) ==
  \/ loop[t].at = "asleep" /\ row[t] + loop[t].left <= Period[t]
  \/ loop[t].at \in {"work", "repair"} /\ row[t] + loop[t].left <= AtWorst(t)
Booting(t) ==
  /\ row[t] <= AtWorst(t) + up
  /\ \/ loop[t].at = "startup" /\ t = Sweep /\ up + loop[t].left <= MaxPass
     \/ loop[t].at = "asleep" /\ up + loop[t].left <= AtBoot(t)
     \/ loop[t].at \in {"work", "repair"} /\ up + loop[t].left <= AtBoot(t) + MaxPass

OnItsWay(t) == IF up = -1 THEN loop[t].at = "off" /\ row[t] # Never /\ row[t] <= AtWorst(t)
               ELSE row[t] >= 0 /\ (Beating(t) \/ Booting(t))
OnTheWay == ~hurt => \A t \in Loops : OnItsWay(t)

HInv == HeartTypeOK /\ OnTheWay

-----------------------------------------------------------------------------
\* The constants are numbers.
LEMMA Constants ==
  ASSUME NEW t \in Loops
  PROVE  /\ Period[t] \in Nat /\ StaleAfter[t] \in Nat /\ AtBoot(t) \in Nat
         /\ t \in Tasks
BY Timing DEF AtBoot, Tasks

\* The sleep before a first pass and the one between two are no longer than
\* what the rows leave, and not negative.
LEMMA Sleeps ==
  ASSUME NEW t \in Loops, NEW rows, rows[t] \in Int
  PROVE  /\ FirstSleep(t, rows) \in Nat /\ NextSleep(t, rows) \in Nat
         /\ FirstSleep(t, rows) <= Period[t] /\ NextSleep(t, rows) <= Period[t]
         /\ rows[t] >= 0 =>
              \/ FirstSleep(t, rows) <= IF t = Sweep THEN SweepMinDelay ELSE AtBoot(t)
              \/ rows[t] + FirstSleep(t, rows) <= Period[t]
BY Constants, Timing DEF FirstSleep, NextSleep, UntilNextSweep, AtBoot, Sweep, Ingest

\* At the start there is no row and no process.
LEMMA HeartBegins == HeartInit => HInv
<1> SUFFICES ASSUME HeartInit PROVE HInv
    OBVIOUS
<1>1. row = [t \in Tasks |-> -2] /\ up = -1
      BY DEF HeartInit, NoRow
<1>2. row \in [Tasks -> Int] /\ \A t \in Tasks : row[t] \in Ages(t)
      BY <1>1, Timing DEF Ages
<1>3. loop = [t \in Loops |-> Off] /\ up \in -1 .. MinUp /\ spare \in 0 .. MaxFaults
      BY <1>1, Timing DEF HeartInit
<1>4. HeartTypeOK
      <2>1. Off \in [at : {"off", "startup", "asleep", "work", "repair", "hung"},
                     left : Nat, whole : BOOLEAN]
            BY DEF Off
      <2>2. hurt \in BOOLEAN
            BY DEF HeartInit
      <2> QED
          BY <1>2, <1>3, <2>1, <2>2 DEF HeartTypeOK
<1>5. ASSUME NEW t \in Loops PROVE row[t] # Never /\ row[t] <= AtWorst(t) /\ loop[t].at = "off"
      BY <1>1, <1>3, Timing, Constants DEF AtWorst, Never, Off
<1> QED
    BY <1>1, <1>4, <1>5 DEF HInv, OnTheWay, OnItsWay

\* Nothing that a loop, the process or the clock does breaks the types.
LEMMA HeartTypes == HeartTypeOK /\ HeartNext => HeartTypeOK'
<1> SUFFICES ASSUME HeartTypeOK, HeartNext PROVE HeartTypeOK'
    OBVIOUS
<1> USE Timing
<1>0. /\ row \in [Tasks -> Int] /\ \A t \in Tasks : row[t] \in Ages(t)
      /\ loop \in [Loops -> [at : {"off", "startup", "asleep", "work", "repair", "hung"},
                             left : Nat, whole : BOOLEAN]]
      /\ up \in -1 .. MinUp /\ spare \in 0 .. MaxFaults /\ hurt \in BOOLEAN
      BY DEF HeartTypeOK
<1>r. ASSUME NEW t \in Tasks
      PROVE  /\ Beaten(t) \in [Tasks -> Int] /\ \A u \in Tasks : Beaten(t)[u] \in Ages(u)
             /\ BeatenBadly(t) \in [Tasks -> Int]
             /\ \A u \in Tasks : BeatenBadly(t)[u] \in Ages(u)
             /\ Registered \in [Tasks -> Int] /\ \A u \in Tasks : Registered[u] \in Ages(u)
      BY <1>0, <1>r DEF Beaten, BeatenBadly, Registered, Ages, NoRow, Never
<1>f. \A f : LoopFault(f) => spare' \in 0 .. MaxFaults /\ hurt' \in BOOLEAN
      BY <1>0 DEF LoopFault, Fault
<1>n. NoFault => spare' \in 0 .. MaxFaults /\ hurt' \in BOOLEAN
      BY <1>0 DEF NoFault
<1>a. \A n \in Nat : Asleep(n) \in [at : {"off", "startup", "asleep", "work", "repair", "hung"},
                                    left : Nat, whole : BOOLEAN]
      BY DEF Asleep
<1>t. \A t \in Loops : t \in Tasks
      BY DEF Tasks
<1>1. CASE Boot
      <2>1. row' \in [Tasks -> Int] /\ \A t \in Tasks : row'[t] \in Ages(t)
            BY <1>1, <1>0, <1>r DEF Boot, Tasks
      <2>2. \A t \in Loops : /\ FirstSleep(t, row') \in Nat
                             /\ (IF t = Ingest THEN 0 ELSE Period[t]) \in Nat
            BY <2>1, <1>t, Sleeps
      <2>3. loop' \in [Loops -> [at : {"off", "startup", "asleep", "work", "repair", "hung"},
                                 left : Nat, whole : BOOLEAN]]
            BY <1>1, <2>2, <1>a DEF Boot, Starting
      <2>4. up' \in -1 .. MinUp
            BY <1>1 DEF Boot
      <2> QED
          BY <2>1, <2>3, <2>4, <1>1, <1>f, <1>n DEF Boot, HeartTypeOK
<1>2. CASE Restart
      BY <1>2, <1>0 DEF Restart, HeartTypeOK, Off
<1>3. CASE Tick
      <2>1. row' \in [Tasks -> Int] /\ \A t \in Tasks : row'[t] \in Ages(t)
            BY <1>3, <1>0 DEF Tick, Older, Ages
      <2>2. loop' \in [Loops -> [at : {"off", "startup", "asleep", "work", "repair", "hung"},
                                 left : Nat, whole : BOOLEAN]]
            BY <1>3, <1>0 DEF Tick
      <2>3. up' \in -1 .. MinUp
            BY <1>3, <1>0 DEF Tick
      <2> QED
          BY <2>1, <2>2, <2>3, <1>3, <1>0 DEF Tick, HeartTypeOK
<1>4. CASE Dispatch
      BY <1>4, <1>0, <1>r DEF Dispatch, HeartTypeOK, Tasks
<1>5. CASE Sweep \in Loops /\ Checks
      <2>1. loop' \in [Loops -> [at : {"off", "startup", "asleep", "work", "repair", "hung"},
                                 left : Nat, whole : BOOLEAN]]
            BY <1>5, <1>0 DEF Checks
      <2>2. row' \in [Tasks -> Int] /\ \A t \in Tasks : row'[t] \in Ages(t)
            BY <1>5, <1>0, <1>r, <1>t DEF Checks
      <2> QED
          BY <2>1, <2>2, <1>5, <1>0, <1>f, <1>n DEF Checks, HeartTypeOK
<1>10. CASE Sweep \in Loops /\ StartupEnds
      <2>1. \E n \in Nat : loop' = [loop EXCEPT ![Sweep] = Asleep(n)]
            BY <1>10, <1>0, <1>t, Sleeps DEF StartupEnds
      <2>2. loop' \in [Loops -> [at : {"off", "startup", "asleep", "work", "repair", "hung"},
                                 left : Nat, whole : BOOLEAN]]
            BY <2>1, <1>0, <1>a
      <2> QED
          BY <2>2, <1>10, <1>0, <1>f, <1>n DEF StartupEnds, HeartTypeOK
<1>6. ASSUME NEW t \in Loops, Wakes(t) PROVE HeartTypeOK'
      BY <1>6, <1>0 DEF Wakes, HeartTypeOK
<1>7. ASSUME NEW t \in Loops, Succeeds(t) PROVE HeartTypeOK'
      <2>1. row' \in [Tasks -> Int] /\ \A u \in Tasks : row'[u] \in Ages(u)
            BY <1>7, <1>0, <1>r, <1>t DEF Succeeds, Ends
      <2>2. NextSleep(t, Beaten(t)) \in Nat /\ NextSleep(t, row) \in Nat /\ Period[t] \in Nat
            BY <1>0, <1>r, <1>t, Sleeps
      <2>3. loop' \in [Loops -> [at : {"off", "startup", "asleep", "work", "repair", "hung"},
                                 left : Nat, whole : BOOLEAN]]
            <3>1. \E n \in Nat : loop' = [loop EXCEPT ![t] = Asleep(n)]
                  BY <1>7, <2>2 DEF Succeeds, Ends
            <3> QED
                BY <3>1, <1>0, <1>a
      <2> QED
          BY <2>1, <2>3, <1>7, <1>0, <1>f, <1>n DEF Succeeds, Ends, HeartTypeOK
<1>8. ASSUME NEW t \in Loops, Fails(t) PROVE HeartTypeOK'
      <2>1. row' \in [Tasks -> Int] /\ \A u \in Tasks : row'[u] \in Ages(u)
            BY <1>8, <1>r, <1>t DEF Fails
      <2>2. NextSleep(t, row') \in Nat
            BY <2>1, <1>t, Sleeps
      <2>3. loop' \in [Loops -> [at : {"off", "startup", "asleep", "work", "repair", "hung"},
                                 left : Nat, whole : BOOLEAN]]
            BY <1>8, <1>0, <2>2, <1>a DEF Fails
      <2> QED
          BY <2>1, <2>3, <1>8, <1>0, <1>f DEF Fails, HeartTypeOK
<1>9. ASSUME NEW t \in Loops, Hangs(t) PROVE HeartTypeOK'
      BY <1>9, <1>0, <1>f DEF Hangs, HeartTypeOK
<1> QED
    BY <1>1, <1>2, <1>3, <1>4, <1>5, <1>6, <1>7, <1>8, <1>9, <1>10 DEF HeartNext, LoopStep

-----------------------------------------------------------------------------
\* A loop on its way is not late: what a restart costs fits into the tolerance.
LEMMA NotStale == HInv => OnTime
<1> SUFFICES ASSUME HInv, ~hurt, NEW t \in Loops PROVE ~Stale(t)
    BY DEF OnTime
<1>1. OnItsWay(t) /\ row[t] \in Int /\ up \in -1 .. MinUp /\ loop[t].left \in Nat
      BY Constants DEF HInv, OnTheWay, HeartTypeOK
<1>2. AtWorst(t) \in Nat /\ AtWorst(t) + AtBoot(t) + MaxPass <= StaleAfter[t]
      BY Timing, Room, Constants DEF AtWorst
<1>3. row[t] <= StaleAfter[t] /\ row[t] # Never
      <2>1. CASE up = -1
            BY <2>1, <1>1, <1>2, Constants, Timing DEF OnItsWay
      <2>2. CASE up # -1 /\ Beating(t)
            BY <2>2, <1>1, <1>2, Constants, Timing DEF OnItsWay, Beating, AtWorst, Never
      <2>3. CASE up # -1 /\ Booting(t)
            BY <2>3, <1>1, <1>2, Constants, Timing DEF OnItsWay, Booting, Never
      <2> QED
          BY <2>1, <2>2, <2>3, <1>1 DEF OnItsWay
<1> QED
    BY <1>1, <1>3, Constants DEF Stale

\* Every step of the heart keeps a loop on its way unless it is a fault.
LEMMA StaysOnItsWay == HInv /\ HeartNext => OnTheWay'
<1> SUFFICES ASSUME HInv, HeartNext, ~hurt', NEW t \in Loops PROVE OnItsWay(t)'
    BY DEF OnTheWay
<1> USE Timing, Room, Constants
<1>h. ~hurt
      BY DEF HInv, HeartTypeOK, HeartNext, LoopStep, Boot, Restart, Tick, Dispatch, Checks,
             StartupEnds, Wakes, Succeeds, Fails, Hangs, Ends, NoFault, LoopFault
<1>0. /\ OnItsWay(t) /\ ~Stale(t) /\ up \in -1 .. MinUp /\ t \in Tasks /\ row \in [Tasks -> Int]
      /\ loop \in [Loops -> [at : {"off", "startup", "asleep", "work", "repair", "hung"},
                             left : Nat, whole : BOOLEAN]]
      /\ AtWorst(t) = Period[t] + MaxPass /\ row[t] \in Ages(t)
      BY <1>h, NotStale DEF HInv, OnTheWay, HeartTypeOK, OnTime, AtWorst
<1>1. CASE Boot
      <2>1. /\ up = -1 /\ up' = 0 /\ row' = Registered
            /\ loop' = [u \in Loops |-> IF u = Sweep THEN Starting
                                        ELSE Asleep(FirstSleep(u, row'))]
            BY <1>1 DEF Boot, LoopFault
      <2>2. row'[t] \in Nat /\ row'[t] <= AtWorst(t)
            <3>1. row[t] \in Int /\ row[t] >= -2 /\ row[t] # -1 /\ row[t] <= AtWorst(t)
                  BY <2>1, <1>0 DEF OnItsWay, Never, Ages
            <3>2. row'[t] = IF row[t] = -2 THEN 0 ELSE row[t]
                  BY <2>1, <1>0 DEF Registered, NoRow
            <3> QED
                BY <3>1, <3>2, <1>0
      <2>3. IF t = Sweep THEN loop'[t].at = "startup" /\ loop'[t].left = MaxPass
            ELSE loop'[t].at = "asleep" /\ loop'[t].left = FirstSleep(t, row')
            BY <2>1 DEF Asleep, Starting
      <2>4. Beating(t)' \/ Booting(t)'
            BY <2>1, <2>2, <2>3, <1>0, Sleeps DEF Beating, Booting, AtWorst
      <2> QED
          BY <2>1, <2>2, <2>4 DEF OnItsWay
<1>2. CASE Restart
      <2>1. up = MinUp /\ up' = -1 /\ row' = row
            BY <1>2 DEF Restart
      <2>2. Beating(t)
            BY <2>1, <1>0 DEF OnItsWay, Booting
      <2>3. loop'[t].at = "off"
            BY <1>2 DEF Restart, Off
      <2> QED
          BY <2>1, <2>2, <2>3, <1>0 DEF OnItsWay, Beating, AtWorst, Never
<1>3. CASE Tick
      <2>1. up # -1 /\ row[t] >= 0 /\ loop[t].at # "hung" /\ (Beating(t) \/ Booting(t))
            BY <1>3, <1>0 DEF Tick, OnItsWay, Beating, Booting
      <2>2. /\ row'[t] = row[t] + 1 /\ loop[t].left > 0
            /\ loop'[t] = [loop[t] EXCEPT !.left = @ - 1]
            BY <1>3, <1>0, <2>1 DEF Tick, Older, Stale
      <2>3. loop'[t].at = loop[t].at /\ loop'[t].left = loop[t].left - 1
            BY <2>2, <1>0
      <2>4. CASE Beating(t)
            <3>1. Beating(t)'
                  BY <2>4, <2>2, <2>3, <1>0 DEF Beating, AtWorst
            <3> QED
                BY <3>1, <2>1, <2>2, <1>0, <1>3 DEF OnItsWay, Tick
      <2>5. CASE Booting(t)
            <3>1. up < MinUp /\ up' = up + 1
                  BY <2>5, <2>2, <1>0, <1>3 DEF Booting, Tick
            <3>2. Booting(t)'
                  BY <2>5, <2>2, <2>3, <1>0, <3>1 DEF Booting, AtWorst
            <3> QED
                BY <3>1, <3>2, <2>1, <2>2, <1>0 DEF OnItsWay
      <2> QED
          BY <2>1, <2>4, <2>5
<1>4. CASE Dispatch
      BY <1>4, <1>0 DEF Dispatch, Beaten, OnItsWay, Beating, Booting, AtWorst
<1>5. CASE Sweep \in Loops /\ Checks
      <2>1. /\ row' = row /\ up' = up /\ loop[Sweep].at = "work"
            /\ loop' = [loop EXCEPT ![Sweep].at = "repair"]
            BY <1>5 DEF Checks, LoopFault
      <2>2. CASE t = Sweep
            BY <2>1, <2>2, <1>0 DEF OnItsWay, Beating, Booting, AtWorst
      <2>3. CASE t # Sweep
            BY <2>1, <2>3, <1>0 DEF OnItsWay, Beating, Booting, AtWorst
      <2> QED
          BY <2>2, <2>3
<1>9. CASE Sweep \in Loops /\ StartupEnds
      <2>1. /\ row' = row /\ up' = up /\ loop[Sweep].at = "startup"
            /\ loop' = [loop EXCEPT ![Sweep] = Asleep(FirstSleep(Sweep, row))]
            BY <1>9 DEF StartupEnds, LoopFault
      <2>2. CASE t = Sweep
            <3>1. /\ up # -1 /\ row[t] >= 0 /\ row[t] <= AtWorst(t) + up
                  /\ up + loop[t].left <= MaxPass
                  BY <2>1, <2>2, <1>0 DEF OnItsWay, Beating, Booting
            <3>2. loop'[t].at = "asleep" /\ loop'[t].left = FirstSleep(t, row)
                  BY <2>1, <2>2, <1>0 DEF Asleep
            <3>3. CASE FirstSleep(t, row) <= SweepMinDelay
                  BY <3>1, <3>2, <3>3, <2>1, <2>2, <1>0, Sleeps DEF OnItsWay, Booting, AtWorst, AtBoot
            <3>4. CASE row[t] + FirstSleep(t, row) <= Period[t]
                  BY <3>1, <3>2, <3>4, <2>1, <1>0 DEF OnItsWay, Beating
            <3> QED
                BY <3>1, <3>3, <3>4, <2>2, <1>0, Sleeps
      <2>3. CASE t # Sweep
            BY <2>1, <2>3, <1>0 DEF OnItsWay, Beating, Booting, AtWorst
      <2> QED
          BY <2>2, <2>3
<1>6. ASSUME NEW u \in Loops, Wakes(u) PROVE OnItsWay(t)'
      <2>1. CASE t = u
            <3>1. /\ loop[t].at = "asleep" /\ loop[t].left = 0 /\ row' = row /\ up' = up
                  /\ loop'[t].at = "work" /\ loop'[t].left = MaxPass
                  BY <1>6, <2>1, <1>0 DEF Wakes
            <3> QED
                BY <3>1, <1>0 DEF OnItsWay, Beating, Booting, AtWorst
      <2>2. CASE t # u
            BY <1>6, <2>2, <1>0 DEF Wakes, OnItsWay, Beating, Booting, AtWorst
      <2> QED
          BY <2>1, <2>2
<1>7. ASSUME NEW u \in Loops, Succeeds(u) PROVE OnItsWay(t)'
      <2>1. /\ row' = Beaten(u) /\ up' = up /\ loop[u].at = LastStep(u)
            /\ loop' = [loop EXCEPT ![u] = Asleep(NextSleep(u, Beaten(u)))]
            BY <1>7 DEF Succeeds, Ends, LoopFault
      <2>2. CASE t = u
            <3>1. row'[t] = 0 /\ Beaten(u)[t] = 0
                  BY <2>1, <2>2, <1>0 DEF Beaten
            <3>2. loop'[t].at = "asleep" /\ loop'[t].left = NextSleep(t, Beaten(u))
                  BY <2>1, <2>2, <1>0 DEF Asleep
            <3>3. NextSleep(t, Beaten(u)) <= Period[t] /\ NextSleep(t, Beaten(u)) \in Nat
                  BY <3>1, Sleeps
            <3>4. up # -1
                  BY <2>1, <2>2, <1>0 DEF OnItsWay, LastStep
            <3> QED
                BY <3>1, <3>2, <3>3, <3>4, <2>1 DEF OnItsWay, Beating
      <2>3. CASE t # u
            <3>1. row'[t] = row[t] /\ loop'[t] = loop[t]
                  BY <2>1, <2>3, <1>0 DEF Beaten
            <3> QED
                BY <3>1, <2>1, <1>0 DEF OnItsWay, Beating, Booting, AtWorst
      <2> QED
          BY <2>2, <2>3
<1>8. ASSUME NEW u \in Loops, Fails(u) \/ Hangs(u) PROVE OnItsWay(t)'
      BY <1>8 DEF Fails, Hangs, LoopFault
<1> QED
    BY <1>1, <1>2, <1>3, <1>4, <1>5, <1>6, <1>7, <1>8, <1>9 DEF HeartNext, LoopStep
-----------------------------------------------------------------------------
(***************************************************************************)
(* The watchdog's runs.                                                    *)
(***************************************************************************)

WRecords == [at : {"idle", "look", "start", "write"}, todo : SUBSET Apps,
             awake : SUBSET Apps, restartable : SUBSET Apps,
             found : SUBSET Problems, known : SUBSET Problems,
             strikes : [Apps -> 0 .. RestartCooldownRuns]]
Files == [problems : SUBSET Problems, strikes : [Apps -> 0 .. RestartCooldownRuns]]
Histories == [Apps -> [failing : 0 .. RestartCooldownRuns, since : 0 .. RestartCooldownRuns]]

\* What TypeOK says of the watchdog's own variables.
WTypeOK == /\ box \in [Apps -> Boxes] /\ sleeps \subseteq Apps
           /\ w \in WRecords /\ file \in Files
           /\ told \subseteq Problems /\ through \subseteq Problems
           /\ hist \in Histories

\* Only a run with apps to look at or to start has some left, and the apps it
\* starts are the ones it found down.
RunInOrder == /\ w.at \in {"idle", "write"} => w.todo = {}
              /\ w.at = "start" => w.todo \subseteq w.restartable

\* Strikes never outnumber the failing runs in a row nor the runs since the
\* last start, and the one that is about to be counted does not either.
Covered(n, a) == n <= hist[a].failing /\ n <= hist[a].since
StrikesCovered ==
  /\ w.at \in {"idle", "look"} => \A a \in Apps : Covered(file.strikes[a], a)
  /\ w.at = "start" =>
       \A a \in w.restartable : /\ Covered(w.strikes[a], a)
                                /\ a \in w.todo => Covered(Capped(w.strikes[a]), a)
  /\ w.at = "write" => \A a \in Apps : Covered(w.strikes[a], a)

\* The file holds nothing the chat does not know, and what has been bad all
\* along has been found, will be, or cannot be looked at.
InTheFile == /\ w.at \in {"idle", "look"} => file.problems \subseteq told
             /\ w.at = "start" => w.known \subseteq told
             /\ w.at = "write" => w.found \subseteq told
Seen(p) ==
  \/ p \in w.found
  \/ CannotLook(p) \in w.found
  \/ /\ w.at = "look"
     /\ p[1] = "stale" \/ (p[2] \in w.todo /\ (p[1] = "down" <=> p[2] \in w.awake))
SeenThrough == w.at # "idle" => \A p \in through : Seen(p)

-----------------------------------------------------------------------------
LEMMA CapIsCap ==
  ASSUME NEW n \in 0 .. RestartCooldownRuns
  PROVE  Capped(n) \in 0 .. RestartCooldownRuns
BY Watched DEF Capped

\* What a run can find is a problem.
LEMMA ProblemsAre ==
  /\ Bad \subseteq Problems /\ StaleProblems \subseteq Problems
  /\ NoApps \in Problems /\ NoBeats \in Problems
  /\ \A a \in Apps, k \in Kinds : Problem(k, a) \in Problems
BY DEF Bad, StaleProblems, Problems, Kinds

LEMMA WTypeInit == Init => WTypeOK
<1> SUFFICES ASSUME Init PROVE WTypeOK
    OBVIOUS
<1> USE Watched
<1>1. NoStrikes \in [Apps -> 0 .. RestartCooldownRuns]
      BY DEF NoStrikes
<1>2. Idle \in WRecords /\ NoFile \in Files
      BY <1>1 DEF Idle, WRecords, NoFile, Files
<1>3. hist \in Histories
      BY DEF Init, Histories
<1> QED
    BY <1>2, <1>3 DEF Init, WTypeOK, Boxes

\* No step of the watchdog, the loops or the world breaks the types.
LEMMA WTypeStep == WTypeOK /\ [Next]_vars => WTypeOK'
<1> SUFFICES ASSUME WTypeOK, [Next]_vars PROVE WTypeOK'
    OBVIOUS
<1> USE Watched
<1>0. /\ box \in [Apps -> Boxes] /\ sleeps \subseteq Apps /\ w \in WRecords /\ file \in Files
      /\ told \subseteq Problems /\ through \subseteq Problems /\ hist \in Histories
      BY DEF WTypeOK
<1>s. NoStrikes \in [Apps -> 0 .. RestartCooldownRuns]
      BY DEF NoStrikes
<1>i. Idle \in WRecords /\ NoFile \in Files /\ Saved \in Files
      BY <1>s, <1>0 DEF Idle, WRecords, NoFile, Files, Saved
<1>t. Next => through' \subseteq Problems
      <2>1. Bad' \subseteq Problems
            BY DEF Bad, Problems, Kinds, Problem
      <2> QED
          BY <2>1 DEF Next
<1>1. CASE UNCHANGED vars
      BY <1>1, <1>0 DEF vars, wvars, WTypeOK
<1>2. CASE Next /\ Beats
      BY <1>2, <1>0, <1>t DEF Beats, WTypeOK
<1>3. ASSUME Next, Begin PROVE WTypeOK'
      <2>1. w' \in WRecords
            <3>1. {a \in Apps : Awake(a)} \in SUBSET Apps /\ {NoApps} \in SUBSET Problems
                  BY ProblemsAre
            <3> QED
                BY <1>3, <1>i, <3>1 DEF Begin, WRecords
      <2> QED
          BY <2>1, <1>3, <1>0, <1>t DEF Begin, WTypeOK
<1>4. ASSUME Next, NEW a \in Apps, Look(a) PROVE WTypeOK'
      <2>1. {Problem(k, a) : k \in {k \in Kinds : Says(k, a)}} \subseteq Problems
            BY ProblemsAre
      <2>2. w' \in WRecords
            BY <1>4, <1>0, <2>1 DEF Look, WRecords
      <2> QED
          BY <2>2, <1>4, <1>0, <1>t DEF Look, WTypeOK
<1>5. ASSUME Next, NEW ps \in SUBSET Problems, NEW f \in Files, Judges(ps, f) PROVE WTypeOK'
      <2>1. w' \in WRecords
            BY <1>5, <1>0 DEF Judges, WRecords, Files
      <2>2. hist' \in Histories
            BY <1>5, <1>0, CapIsCap DEF Judges, Histories
      <2> QED
          BY <2>1, <2>2, <1>5, <1>0, <1>t DEF Judges, WTypeOK
<1>6. ASSUME Next, Judge \/ JudgeBlind \/ JudgeAnew PROVE WTypeOK'
      BY <1>6, <1>5, <1>0, <1>i, ProblemsAre DEF Judge, JudgeBlind, JudgeAnew
<1>7. ASSUME Next, NEW a \in Apps, Waits(a) \/ StartFails(a) PROVE WTypeOK'
      <2>1. Strike(a) \in 0 .. RestartCooldownRuns
            BY <1>0, CapIsCap DEF Strike, WRecords
      <2>2. w' \in WRecords
            <3>1. [w.strikes EXCEPT ![a] = Strike(a)] \in [Apps -> 0 .. RestartCooldownRuns]
                  BY <1>0, <2>1 DEF WRecords
            <3>2. w' = [w EXCEPT !.todo = @ \ {a}, !.strikes = [@ EXCEPT ![a] = Strike(a)]]
                  BY <1>7 DEF Waits, StartFails, Struck
            <3> QED
                BY <3>2, <1>0, <3>1 DEF WRecords
      <2> QED
          BY <2>2, <1>7, <1>0, <1>t DEF Waits, StartFails, WTypeOK
<1>8. ASSUME Next, NEW a \in Apps, Starts(a) PROVE WTypeOK'
      <2>1. w' \in WRecords
            <3>1. [w.strikes EXCEPT ![a] = 0] \in [Apps -> 0 .. RestartCooldownRuns]
                  BY <1>0 DEF WRecords
            <3> QED
                BY <1>8, <1>0, <3>1 DEF Starts, Struck, WRecords
      <2>2. hist' \in Histories
            BY <1>8, <1>0 DEF Starts, Histories
      <2>3. box' \in [Apps -> Boxes]
            BY <1>8, <1>0 DEF Starts, Boxes
      <2> QED
          BY <2>1, <2>2, <2>3, <1>8, <1>0, <1>t DEF Starts, WTypeOK
<1>9. ASSUME Next, Tells PROVE WTypeOK'
      <2>1. Kept \in [Apps -> 0 .. RestartCooldownRuns]
            BY <1>0 DEF Kept, WRecords
      <2>2. w' \in WRecords
            BY <1>9, <1>0, <2>1 DEF Tells, WRecords
      <2>3. told' \subseteq Problems
            BY <1>9, <1>0 DEF Tells, New, WRecords
      <2> QED
          BY <2>2, <2>3, <1>9, <1>0, <1>t DEF Tells, WTypeOK
<1>10. ASSUME Next, Writes PROVE WTypeOK'
       BY <1>10, <1>0, <1>i, <1>t DEF Writes, WTypeOK
<1>11. ASSUME Next, NEW a \in Apps, Moves(a) \/ Switches(a) PROVE WTypeOK'
       BY <1>11, <1>0, <1>t DEF Moves, Switches, WTypeOK
<1> QED
    BY <1>1, <1>2, <1>3, <1>4, <1>6, <1>7, <1>8, <1>9, <1>10, <1>11 DEF Next, Watches, WatchStep

-----------------------------------------------------------------------------
\* What every step of a run leaves of its order, the strikes and the file.
LEMMA OrderStep == WTypeOK /\ RunInOrder /\ [Next]_vars => RunInOrder'
<1> SUFFICES ASSUME WTypeOK, RunInOrder, [Next]_vars PROVE RunInOrder'
    OBVIOUS
<1>0. w \in WRecords
      BY DEF WTypeOK
<1>1. CASE UNCHANGED vars \/ Beats
      BY <1>1 DEF vars, wvars, Beats, RunInOrder
<1>2. CASE Begin
      BY <1>2 DEF Begin, Idle, RunInOrder
<1>3. ASSUME NEW a \in Apps, Look(a) PROVE RunInOrder'
      BY <1>3, <1>0 DEF Look, RunInOrder, WRecords
<1>4. ASSUME NEW ps, NEW f, Judges(ps, f) PROVE RunInOrder'
      BY <1>4, <1>0 DEF Judges, RunInOrder, WRecords
<1>5. ASSUME NEW a \in Apps, NEW n, Struck(a, n), w.at = "start" PROVE RunInOrder'
      BY <1>5, <1>0 DEF Struck, RunInOrder, WRecords
<1>6. CASE Tells
      BY <1>6, <1>0 DEF Tells, RunInOrder, WRecords
<1>7. CASE Writes
      BY <1>7 DEF Writes, Idle, RunInOrder
<1>8. ASSUME NEW a \in Apps, Moves(a) \/ Switches(a) PROVE RunInOrder'
      BY <1>8 DEF Moves, Switches, RunInOrder
<1> QED
    BY <1>1, <1>2, <1>3, <1>4, <1>5, <1>6, <1>7, <1>8
    DEF Next, Watches, WatchStep, Judge, JudgeBlind, JudgeAnew, Waits, Starts, StartFails

\* Where the file can be written, strikes stay covered by failing runs and by
\* runs without a start.
LEMMA StrikesStep ==
  ASSUME "write" \notin Faults, WTypeOK, RunInOrder, StrikesCovered, [Next]_vars
  PROVE  StrikesCovered'
<1> USE Watched
<1>0. /\ w \in WRecords /\ file \in Files /\ hist \in Histories
      /\ \A a \in Apps : /\ w.strikes[a] \in 0 .. RestartCooldownRuns
                         /\ file.strikes[a] \in 0 .. RestartCooldownRuns
                         /\ hist[a].failing \in 0 .. RestartCooldownRuns
                         /\ hist[a].since \in 0 .. RestartCooldownRuns
      BY DEF WTypeOK, WRecords, Files, Histories
<1>1. CASE UNCHANGED vars \/ Beats
      BY <1>1 DEF vars, wvars, Beats, StrikesCovered, Covered
<1>2. CASE Begin
      BY <1>2 DEF Begin, Idle, StrikesCovered, Covered
<1>3. ASSUME NEW a \in Apps, Look(a) PROVE StrikesCovered'
      BY <1>3, <1>0 DEF Look, StrikesCovered, Covered, WRecords
<1>4. ASSUME NEW ps, NEW f \in Files, Judges(ps, f),
             \A a \in Apps : Covered(f.strikes[a], a)
      PROVE  StrikesCovered'
      <2>1. /\ w'.at = "start" /\ w'.restartable = w.restartable /\ w'.strikes = f.strikes
            /\ w.restartable \subseteq Apps
            BY <1>4, <1>0 DEF Judges, WRecords
      <2>2. ASSUME NEW a \in w.restartable
            PROVE  Covered(w.strikes[a], a)' /\ Covered(Capped(w.strikes[a]), a)'
            <3>1. a \in Apps /\ f.strikes[a] \in 0 .. RestartCooldownRuns
                  BY <2>1 DEF Files
            <3>2. /\ hist'[a].failing = Capped(hist[a].failing)
                  /\ hist'[a].since = Capped(hist[a].since)
                  BY <1>4, <3>1 DEF Judges
            <3> QED
                BY <2>1, <3>1, <3>2, <1>4, <1>0 DEF Covered, Capped
      <2> QED
          BY <2>1, <2>2 DEF StrikesCovered
<1>5. CASE Judge \/ JudgeBlind \/ JudgeAnew
      <2>1. w.at = "look"
            BY <1>5 DEF Judge, JudgeBlind, JudgeAnew, Judges
      <2>2. \A a \in Apps : Covered(file.strikes[a], a)
            BY <2>1 DEF StrikesCovered
      <2>3. NoFile \in Files /\ \A a \in Apps : Covered(NoFile.strikes[a], a)
            BY <1>0 DEF NoFile, NoStrikes, Files, Covered
      <2> QED
          BY <1>0, <1>4, <1>5, <2>2, <2>3 DEF Judge, JudgeBlind, JudgeAnew
<1>6. ASSUME NEW a \in Apps, Waits(a) \/ StartFails(a) PROVE StrikesCovered'
      <2>1. /\ w.at = "start" /\ a \in w.todo /\ a \in w.restartable /\ hist' = hist
            /\ w' = [w EXCEPT !.todo = @ \ {a}, !.strikes = [@ EXCEPT ![a] = Strike(a)]]
            BY <1>6 DEF Waits, StartFails, Struck, RunInOrder
      <2>2. /\ w'.at = "start" /\ w'.restartable = w.restartable /\ w'.todo = w.todo \ {a}
            /\ w'.strikes = [w.strikes EXCEPT ![a] = Strike(a)]
            /\ w.strikes \in [Apps -> 0 .. RestartCooldownRuns] /\ w.restartable \subseteq Apps
            BY <2>1, <1>0 DEF WRecords
      <2>3. Covered(Strike(a), a)
            BY <2>1 DEF StrikesCovered, Strike
      <2> QED
          BY <2>1, <2>2, <2>3 DEF StrikesCovered, Covered
<1>7. ASSUME NEW a \in Apps, Starts(a) PROVE StrikesCovered'
      <2>1. /\ w.at = "start" /\ a \in w.todo /\ hist' = [hist EXCEPT ![a].since = 0]
            /\ w' = [w EXCEPT !.todo = @ \ {a}, !.strikes = [@ EXCEPT ![a] = 0]]
            BY <1>7 DEF Starts, Struck
      <2>2. /\ w'.at = "start" /\ w'.restartable = w.restartable /\ w'.todo = w.todo \ {a}
            /\ w'.strikes = [w.strikes EXCEPT ![a] = 0]
            /\ w.strikes \in [Apps -> 0 .. RestartCooldownRuns] /\ w.restartable \subseteq Apps
            BY <2>1, <1>0 DEF WRecords
      <2>3. ASSUME NEW b \in w.restartable
            PROVE  /\ Covered(w.strikes[b], b)'
                   /\ b \in w'.todo => Covered(Capped(w.strikes[b]), b)'
            <3>1. CASE b = a
                  BY <3>1, <2>1, <2>2, <1>0 DEF Covered, Histories
            <3>2. CASE b # a
                  <4>1. hist'[b] = hist[b] /\ w'.strikes[b] = w.strikes[b]
                        BY <3>2, <2>1, <2>2, <1>0 DEF Histories
                  <4> QED
                      BY <4>1, <2>1, <2>2 DEF Covered, StrikesCovered
            <3> QED
                BY <3>1, <3>2
      <2> QED
          BY <2>2, <2>3 DEF StrikesCovered
<1>8. CASE Tells
      <2>1. /\ w.at = "start" /\ w'.at = "write" /\ w'.strikes = Kept /\ hist' = hist
            BY <1>8, <1>0 DEF Tells, WRecords
      <2> QED
          BY <2>1, <1>0 DEF Kept, StrikesCovered, Covered
<1>9. CASE Writes
      <2>1. w.at = "write" /\ w'.at = "idle" /\ file'.strikes = w.strikes /\ hist' = hist
            BY <1>9 DEF Writes, Idle, Saved, Fault
      <2> QED
          BY <2>1 DEF StrikesCovered, Covered
<1>10. ASSUME NEW a \in Apps, Moves(a) \/ Switches(a) PROVE StrikesCovered'
       BY <1>10 DEF Moves, Switches, StrikesCovered, Covered
<1> QED
    BY <1>1, <1>2, <1>3, <1>5, <1>6, <1>7, <1>8, <1>9, <1>10 DEF Next, Watches, WatchStep

\* Only a start resets the runs since a start, and its strikes are full.
LEMMA StartIsSpaced ==
  ASSUME WTypeOK, RunInOrder, StrikesCovered, [Next]_vars,
         NEW a \in Apps, hist'[a].since = 0, hist[a].since # 0
  PROVE  hist[a].failing >= RestartCooldownRuns /\ hist[a].since >= RestartCooldownRuns
<1> USE Watched
<1>0. /\ hist \in Histories /\ hist[a].failing \in 0 .. RestartCooldownRuns
      /\ hist[a].since \in 0 .. RestartCooldownRuns /\ w \in WRecords
      BY DEF WTypeOK, Histories
<1>1. Starts(a)
      <2>1. hist' # hist
            OBVIOUS
      <2>2. ASSUME NEW ps, NEW f, Judges(ps, f) PROVE FALSE
            BY <2>2, <1>0 DEF Judges, Capped
      <2>3. ASSUME NEW b \in Apps, Starts(b) PROVE a = b
            BY <2>3, <1>0 DEF Starts, Histories
      <2>4. Judge \/ JudgeBlind \/ JudgeAnew \/ \E b \in Apps : Starts(b)
            BY <2>1 DEF Next, Watches, WatchStep, Beats, vars, wvars, Begin, Look, Waits,
                        StartFails, Tells, Writes, Moves, Switches
      <2> QED
          BY <2>2, <2>3, <2>4 DEF Judge, JudgeBlind, JudgeAnew
<1>2. a \in w.restartable /\ Covered(Strike(a), a) /\ Strike(a) >= RestartCooldownRuns
      BY <1>1 DEF Starts, RunInOrder, StrikesCovered, Strike
<1>3. Strike(a) \in Int
      BY <1>0, CapIsCap DEF Strike, WRecords
<1> QED
    BY <1>2, <1>3, <1>0 DEF Covered

-----------------------------------------------------------------------------
\* What has been bad all along is bad now.
LEMMA ThroughIsBad == through \subseteq Bad /\ [Next]_vars => (through \subseteq Bad)'
<1> SUFFICES ASSUME through \subseteq Bad, [Next]_vars PROVE (through \subseteq Bad)'
    OBVIOUS
<1>1. CASE Next
      BY <1>1 DEF Next
<1>2. CASE UNCHANGED vars
      BY <1>2 DEF vars, hvars, wvars, Bad, Awake, Stale
<1> QED
    BY <1>1, <1>2

LEMMA ThroughShrinks == Next /\ (w.at # "idle" \/ w'.at = "idle") => through' \subseteq through
BY DEF Next

\* Where messages are sent and the file is written, the file holds nothing
\* the chat does not know.
LEMMA FileStep ==
  ASSUME Faults \cap {"send", "dry", "write"} = {}, WTypeOK, InTheFile, [Next]_vars
  PROVE  InTheFile'
<1>0. w \in WRecords
      BY DEF WTypeOK
<1>1. CASE UNCHANGED vars \/ Beats
      BY <1>1 DEF vars, wvars, Beats, InTheFile
<1>2. CASE Begin
      BY <1>2 DEF Begin, Idle, InTheFile
<1>3. ASSUME NEW a \in Apps, Look(a) PROVE InTheFile'
      BY <1>3, <1>0 DEF Look, InTheFile, WRecords
<1>4. CASE Judge \/ JudgeBlind \/ JudgeAnew
      BY <1>4, <1>0 DEF Judge, JudgeBlind, JudgeAnew, Judges, NoFile, InTheFile, WRecords
<1>5. ASSUME NEW a \in Apps, Waits(a) \/ Starts(a) \/ StartFails(a) PROVE InTheFile'
      BY <1>5, <1>0 DEF Waits, Starts, StartFails, Struck, InTheFile, WRecords
<1>6. CASE Tells
      <2>1. told' = (told \cup New) \ Cleared /\ w.known \subseteq told
            BY <1>6 DEF Tells, Fault, InTheFile
      <2>2. w'.at = "write" /\ w'.found = w.found
            BY <1>6, <1>0 DEF Tells, WRecords
      <2> QED
          BY <2>1, <2>2 DEF New, Cleared, InTheFile
<1>7. CASE Writes
      BY <1>7 DEF Writes, Fault, Saved, Idle, InTheFile
<1>8. ASSUME NEW a \in Apps, Moves(a) \/ Switches(a) PROVE InTheFile'
      BY <1>8 DEF Moves, Switches, InTheFile
<1> QED
    BY <1>1, <1>2, <1>3, <1>4, <1>5, <1>6, <1>7, <1>8 DEF Next, Watches, WatchStep

\* A run sees what is bad throughout, or says that it cannot look.
LEMMA SeenStep ==
  ASSUME WTypeOK, RunInOrder, SeenThrough, through \subseteq Bad, [Next]_vars
  PROVE  SeenThrough'
<1>0. w \in WRecords
      BY DEF WTypeOK
<1>1. CASE UNCHANGED vars
      BY <1>1 DEF vars, wvars, SeenThrough, Seen
<1>2. CASE Beats \/ Writes
      BY <1>2 DEF Beats, Writes, Idle, SeenThrough
<1>3. ASSUME Next, Begin PROVE SeenThrough'
      <2>1. through' = Bad' /\ Bad' = Bad
            BY <1>3 DEF Next, Begin, Idle, Watches, Beats, Bad, Awake, Stale
      <2>2. ASSUME NEW p \in through' PROVE Seen(p)'
            <3>1. w'.at = "look"
                  BY <1>3 DEF Begin, Idle
            <3>2. CASE p \in {Problem("stale", t) : t \in {t \in Tasks : Stale(t)}}
                  BY <3>1, <3>2 DEF Seen, Problem
            <3>3. CASE NoApps \in w'.found
                  BY <2>1, <2>2, <3>1, <3>3 DEF Seen, CannotLook, Bad, Problem
            <3>4. CASE w'.todo = Apps /\ w'.awake = {a \in Apps : Awake(a)}
                  BY <2>1, <2>2, <3>1, <3>4 DEF Seen, Bad, Problem
            <3> QED
                BY <1>3, <3>3, <3>4 DEF Begin, Idle
      <2> QED
          BY <2>2 DEF SeenThrough
<1>4. ASSUME Next, NEW a \in Apps, Look(a) PROVE SeenThrough'
      <2>1. /\ w.at = "look" /\ w'.at = "look" /\ w'.todo = w.todo \ {a} /\ w'.awake = w.awake
            /\ w'.found = w.found \cup {Problem(k, a) : k \in {k \in Kinds : Says(k, a)}}
            BY <1>4, <1>0 DEF Look, WRecords
      <2>2. ASSUME NEW p \in through, Seen(p) PROVE Seen(p)'
            <3>1. p \in Bad
                  OBVIOUS
            <3>2. CASE p = Problem("down", a) /\ box[a] \in DownBoxes /\ a \in w.awake
                  <4>1. Says("down", a) /\ "down" \in Kinds
                        BY <3>2 DEF Says, Kinds
                  <4> QED
                      BY <4>1, <2>1, <3>2 DEF Seen
            <3>3. CASE p = Problem("missing", a) /\ box[a] = "none" /\ a \notin w.awake
                  <4>1. Says("missing", a) /\ "missing" \in Kinds
                        BY <3>3 DEF Says, Kinds
                  <4> QED
                      BY <4>1, <2>1, <3>3 DEF Seen
            <3>4. CASE p[1] # "stale" /\ p[2] = a /\ (p[1] = "down" <=> a \in w.awake)
                  BY <3>1, <3>2, <3>3, <3>4 DEF Bad, Problem
            <3>5. CASE ~(p[1] # "stale" /\ p[2] = a /\ (p[1] = "down" <=> a \in w.awake))
                  BY <2>1, <2>2, <3>5 DEF Seen, CannotLook
            <3> QED
                BY <3>4, <3>5
      <2> QED
          BY <2>1, <2>2, <1>4, ThroughShrinks DEF SeenThrough
<1>5. ASSUME Next, Judge \/ JudgeBlind \/ JudgeAnew PROVE SeenThrough'
      <2>1. /\ w.at = "look" /\ w.todo = {} /\ w'.at = "start" /\ w.found \subseteq w'.found
            /\ StaleProblems \subseteq w'.found \/ NoBeats \in w'.found
            <3>1. ASSUME NEW ps, NEW f, Judges(ps, f)
                  PROVE  /\ w.at = "look" /\ w.todo = {} /\ w'.at = "start"
                         /\ w'.found = w.found \cup ps
                  BY <3>1, <1>0 DEF Judges, WRecords
            <3> QED
                BY <3>1, <1>5 DEF Judge, JudgeBlind, JudgeAnew
      <2>2. ASSUME NEW p \in through, Seen(p) PROVE Seen(p)'
            <3>1. CASE p \in w.found \/ CannotLook(p) \in w.found
                  BY <3>1, <2>1 DEF Seen, CannotLook, NoApps, NoBeats
            <3>2. CASE p[1] = "stale"
                  <4>1. p \in StaleProblems
                        BY <3>2 DEF Bad, StaleProblems, Problem
                  <4> QED
                      BY <3>2, <4>1, <2>1 DEF Seen, CannotLook, NoBeats
            <3> QED
                BY <3>1, <3>2, <2>1, <2>2 DEF Seen
      <2> QED
          BY <2>1, <2>2, <1>5, ThroughShrinks DEF SeenThrough
<1>6. ASSUME Next, NEW a \in Apps, Waits(a) \/ Starts(a) \/ StartFails(a) PROVE SeenThrough'
      <2>1. w.at = "start" /\ w'.at = "start" /\ w'.found = w.found
            BY <1>6, <1>0 DEF Waits, Starts, StartFails, Struck, WRecords
      <2> QED
          BY <2>1, <1>6, ThroughShrinks DEF SeenThrough, Seen, CannotLook
<1>7. ASSUME Next, Tells PROVE SeenThrough'
      <2>1. w.at = "start" /\ w'.at = "write" /\ w'.found = w.found
            BY <1>7, <1>0 DEF Tells, WRecords
      <2> QED
          BY <2>1, <1>7, ThroughShrinks DEF SeenThrough, Seen, CannotLook
<1>8. ASSUME Next, NEW a \in Apps, Moves(a) \/ Switches(a) PROVE SeenThrough'
      <2>1. w' = w
            BY <1>8 DEF Moves, Switches
      <2> QED
          BY <2>1, <1>8, ThroughShrinks DEF SeenThrough, Seen, CannotLook
<1> QED
    BY <1>1, <1>2, <1>3, <1>4, <1>5, <1>6, <1>7, <1>8 DEF Next, Watches, WatchStep

-----------------------------------------------------------------------------
\* The watchdog takes nothing from the loops but the faults that are left.
LEMMA HeartKept == HInv /\ [Next]_vars => HInv'
<1> SUFFICES ASSUME HInv, [Next]_vars PROVE HInv'
    OBVIOUS
<1>1. CASE Beats
      BY <1>1, HeartTypes, StaysOnItsWay DEF Beats, HInv
<1>2. ASSUME UNCHANGED <<row, loop, up, hurt>>, spare' \in 0 .. MaxFaults PROVE HInv'
      BY <1>2 DEF HInv, HeartTypeOK, OnTheWay, OnItsWay, Beating, Booting
<1>3. CASE UNCHANGED vars
      BY <1>2, <1>3 DEF vars, hvars, HInv, HeartTypeOK
<1>4. CASE Watches
      <2>1. \A f : Fault(f) => spare' \in 0 .. MaxFaults
            BY Timing DEF Fault, HInv, HeartTypeOK
      <2>2. spare' \in 0 .. MaxFaults
            BY <1>4, <2>1 DEF Watches, WatchStep, Begin, Look, Judge, JudgeBlind, JudgeAnew, Waits,
               Starts, StartFails, Tells, Writes, Moves, Switches, HInv, HeartTypeOK
      <2> QED
          BY <1>4, <1>2, <2>2 DEF Watches
<1> QED
    BY <1>1, <1>3, <1>4 DEF Next

(***************************************************************************)
(* The rows, the loops, the run, its file and what the chat knows keep     *)
(* their types, whatever fails.                                            *)
(***************************************************************************)
THEOREM WatchdogTypes == Spec => []TypeOK
<1>1. Init => HInv /\ WTypeOK
      BY HeartBegins, WTypeInit DEF Init
<1>2. HInv /\ WTypeOK /\ [Next]_vars => (HInv /\ WTypeOK)'
      BY HeartKept, WTypeStep
<1>3. HInv /\ WTypeOK => TypeOK
      BY DEF HInv, WTypeOK, TypeOK, WRecords, Files, Histories
<1> QED
    BY <1>1, <1>2, <1>3, PTL DEF Spec

(***************************************************************************)
(* However often the control plane restarts, a loop that has met no fault  *)
(* is never stale (main.py:381): its last beat, the pass that a restart    *)
(* cuts short and the shortened sleep after it fit into the tolerance.     *)
(***************************************************************************)
THEOREM LoopsOnTime == Spec => []OnTime
<1>1. Init => HInv
      BY HeartBegins DEF Init
<1> QED
    BY <1>1, HeartKept, NotStale, PTL DEF Spec

(***************************************************************************)
(* Where the state file can be written, no container is started before it  *)
(* has been down in RestartCooldownRuns runs in a row, none of which       *)
(* started it (paas-watchdog:57-59).                                       *)
(***************************************************************************)
THEOREM CooldownKept == ASSUME "write" \notin Faults PROVE Spec => StartsSpaced
<1> DEFINE Inv == WTypeOK /\ RunInOrder /\ StrikesCovered
<1>1. Init => Inv
      BY WTypeInit, Watched
      DEF Init, Idle, NoFile, NoStrikes, RunInOrder, StrikesCovered, Covered
<1>2. Inv /\ [Next]_vars => Inv'
      BY WTypeStep, OrderStep, StrikesStep
<1>3. Inv /\ [Next]_vars =>
        [\A a \in Apps : (hist'[a].since = 0 /\ hist[a].since # 0)
           => hist[a].failing >= RestartCooldownRuns /\ hist[a].since >= RestartCooldownRuns]_vars
      BY StartIsSpaced
<1> QED
    BY <1>1, <1>2, <1>3, PTL DEF Spec, StartsSpaced

(***************************************************************************)
(* Where every message arrives, nobody runs it dry and the state file can  *)
(* be written, what was bad throughout a run has been told, or that the    *)
(* run could not look (paas-watchdog:27-29); unreadable apps, rows or      *)
(* state files do not change that.                                         *)
(***************************************************************************)
THEOREM EverybodyTold ==
  ASSUME Faults \cap {"send", "dry", "write"} = {} PROVE Spec => []NobodyInTheDark
<1> DEFINE Inv == /\ WTypeOK /\ RunInOrder /\ InTheFile /\ SeenThrough /\ through \subseteq Bad
                  /\ NobodyInTheDark
<1>1. Init => Inv
      BY WTypeInit
      DEF Init, Idle, NoFile, RunInOrder, InTheFile, SeenThrough, NobodyInTheDark
<1>2. Inv /\ [Next]_vars => NobodyInTheDark'
      <2> SUFFICES ASSUME Inv, [Next]_vars, w'.at = "idle", NEW p \in through' PROVE Told(p)'
          BY DEF NobodyInTheDark
      <2>1. CASE UNCHANGED vars
            BY <2>1 DEF vars, wvars, NobodyInTheDark, Told, CannotLook
      <2>2. CASE Next
            <3>1. p \in through
                  BY <2>2, ThroughShrinks
            <3>2. CASE w.at = "idle"
                  <4>1. told' = told
                        BY <2>2, <3>2 DEF Next, Watches, WatchStep, Beats, Begin, Idle, Look, Judge,
                           JudgeBlind, JudgeAnew, Judges, Waits, Starts, StartFails, Tells, Writes,
                           Moves, Switches
                  <4> QED
                      BY <3>1, <3>2, <4>1 DEF NobodyInTheDark, Told, CannotLook
            <3>3. CASE w.at # "idle"
                  <4>1. w.at = "write" /\ told' = told
                        <5>1. w \in WRecords
                              BY DEF WTypeOK
                        <5> QED
                            BY <2>2, <3>3, <5>1 DEF Next, Watches, WatchStep, Beats, Begin, Look,
                               Judge, JudgeBlind, JudgeAnew, Judges, Waits, Starts, StartFails,
                               Struck, Tells, Writes, Moves, Switches, WRecords
                  <4> QED
                      BY <3>1, <4>1 DEF SeenThrough, Seen, InTheFile, Told, CannotLook
            <3> QED
                BY <3>2, <3>3
      <2> QED
          BY <2>1, <2>2
<1>3. Inv /\ [Next]_vars => Inv'
      BY <1>2, WTypeStep, OrderStep, FileStep, SeenStep, ThroughIsBad
<1>4. Inv => NobodyInTheDark
      OBVIOUS
<1> QED
    BY <1>1, <1>3, <1>4, PTL DEF Spec
=============================================================================
