------------------------------- MODULE Watchdog -------------------------------
(***************************************************************************)
(* The host's watchdog, src/paas-watchdog, over the beats of Heartbeat.    *)
(*                                                                         *)
(* Every five minutes a run looks at each deployed app's containers and at *)
(* each task's row, compares the problems it finds with those of its state *)
(* file, starts the containers of apps that have been down for two runs,   *)
(* tells the chat what is new and what is gone, and writes the file.       *)
(* Containers and flags move between any two of its steps.  Left out:      *)
(* how a container is found by name or label, the texts, and a run    *)
(* that finds no database, which ends before it has done anything.         *)
(***************************************************************************)
EXTENDS Heartbeat, FiniteSets

CONSTANTS
  Apps,                   \* the deployed apps
  AlwaysOn,               \* the control plane and the static host
  Restarts,               \* whether the crontab says --restart
  RestartCooldownRuns     \* failing runs before a start

VARIABLES
  box,      \* per app, its containers
  sleeps,   \* the apps whose row says sleep_when_idle
  w,        \* the run of the watchdog
  file,     \* its state file
  told,     \* problems the chat has been told of and not that they are gone
  hist,     \* per app, history: failing runs in a row, runs since a start
  through   \* history: what has been bad ever since the run began

wvars == <<box, sleeps, w, file, told, hist, through>>
vars == <<hvars, wvars>>

ASSUME Watched == Restarts \in BOOLEAN /\ AlwaysOn \subseteq Apps /\ RestartCooldownRuns \in Nat \ {0}

\* No container, one that does not run, that runs, that runs and fails its
\* health check, or two that have run for over DUPLICATE_GRACE_S.
Boxes == {"none", "exited", "running", "unhealthy", "twice"}
DownBoxes == {"none", "exited"}

Awake(a) == a \notin sleeps \/ a \in AlwaysOn

Kinds == {"duplicate", "missing", "down", "unhealthy"}
Problem(kind, x) == <<kind, x>>
NoApps == Problem("db", "apps")
NoBeats == Problem("heartbeat", "unreadable")
Problems == {Problem(k, a) : k \in Kinds, a \in Apps}
            \cup {Problem("stale", t) : t \in Tasks} \cup {NoApps, NoBeats}

NoStrikes == [a \in Apps |-> 0]
NoFile == [problems |-> {}, strikes |-> NoStrikes]
Idle == [at |-> "idle", todo |-> {}, awake |-> {}, found |-> {}, restartable |-> {},
         known |-> {}, strikes |-> NoStrikes]

\* What somebody should be told of: an app that is down and should run, one
\* with nothing left to wake, a task that is stale.
Bad == {Problem("down", a) : a \in {a \in Apps : box[a] \in DownBoxes /\ Awake(a)}}
       \cup {Problem("missing", a) : a \in {a \in Apps : box[a] = "none" /\ ~Awake(a)}}
       \cup {Problem("stale", t) : t \in {t \in Tasks : Stale(t)}}

Init == /\ HeartInit
        /\ box = [a \in Apps |-> "running"] /\ sleeps \in SUBSET Apps
        /\ w = Idle /\ file = NoFile /\ told = {} /\ through = {}
        /\ hist = [a \in Apps |-> [failing |-> 0, since |-> RestartCooldownRuns]]
-----------------------------------------------------------------------------
\* The crontab starts a run: it reads which apps there are and which sleep.
Begin == /\ w.at = "idle"
         /\ \/ w' = [Idle EXCEPT !.at = "look", !.todo = Apps,
                                 !.awake = {a \in Apps : Awake(a)}]
               /\ UNCHANGED spare
            \/ w' = [Idle EXCEPT !.at = "look", !.found = {NoApps}]
               /\ Fault("apps")
         /\ UNCHANGED <<box, sleeps, file, told, hist>>

\* What an app's containers say.  A sleeping app's run state says nothing,
\* whether it still has a container says everything.
Says(kind, a) == CASE kind = "duplicate" -> box[a] = "twice"
                   [] kind = "missing" -> a \notin w.awake /\ box[a] = "none"
                   [] kind = "down" -> a \in w.awake /\ box[a] \in DownBoxes
                   [] kind = "unhealthy" -> a \in w.awake /\ box[a] = "unhealthy"

Look(a) == /\ w.at = "look" /\ a \in w.todo
           /\ w' = [w EXCEPT !.todo = @ \ {a},
                             !.found = @ \cup {Problem(k, a) : k \in {k \in Kinds : Says(k, a)}},
                             !.restartable = IF Says("down", a) THEN @ \cup {a} ELSE @]
           /\ UNCHANGED <<spare, box, sleeps, file, told, hist>>

\* The tasks' rows, then the state file; either may turn out unreadable.
Capped(n) == IF n < RestartCooldownRuns THEN n + 1 ELSE n

Judges(problems, f) ==
  /\ w.at = "look" /\ w.todo = {}
  /\ w' = [w EXCEPT !.at = "start", !.todo = IF Restarts THEN w.restartable ELSE {},
                    !.found = @ \cup problems, !.known = f.problems, !.strikes = f.strikes]
  /\ hist' = [a \in Apps |-> [failing |-> IF a \in w.restartable
                                          THEN Capped(hist[a].failing) ELSE 0,
                              since |-> Capped(hist[a].since)]]
  /\ UNCHANGED <<box, sleeps, file, told>>

StaleProblems == {Problem("stale", t) : t \in {t \in Tasks : Stale(t)}}
Judge == Judges(StaleProblems, file) /\ UNCHANGED spare
JudgeBlind == Judges({NoBeats}, file) /\ Fault("beats")
JudgeAnew == Judges(StaleProblems, NoFile) /\ Fault("state")

\* --restart, one app after the other.  Strikes beyond the cooldown are not
\* told apart.
Strike(a) == Capped(w.strikes[a])
Struck(a, n) == w' = [w EXCEPT !.todo = @ \ {a}, !.strikes = [@ EXCEPT ![a] = n]]

Waits(a) == /\ w.at = "start" /\ a \in w.todo
            /\ (Strike(a) < RestartCooldownRuns \/ box[a] = "none")
            /\ Struck(a, Strike(a))
            /\ UNCHANGED <<spare, box, sleeps, file, told, hist>>

\* docker start of the newest container, which also succeeds on one that runs.
Starts(a) == /\ w.at = "start" /\ a \in w.todo
             /\ Strike(a) >= RestartCooldownRuns /\ box[a] # "none"
             /\ Struck(a, 0)
             /\ box' = [box EXCEPT ![a] = IF @ \in DownBoxes THEN "running" ELSE @]
             /\ hist' = [hist EXCEPT ![a].since = 0]
             /\ UNCHANGED <<spare, sleeps, file, told>>

StartFails(a) == /\ w.at = "start" /\ a \in w.todo
                 /\ Strike(a) >= RestartCooldownRuns /\ box[a] # "none"
                 /\ Struck(a, Strike(a))
                 /\ UNCHANGED <<spare, box, sleeps, file, told, hist>>

\* The strikes of apps that are not down are dropped, and the chat is told
\* what is new and then what is gone.  A message that fails is not repeated,
\* and --dry-run sends none.
New == w.found \ w.known
Cleared == w.known \ w.found
\* Mutant: strikes outlive the failure.
KeptAll == w.strikes
Kept == [a \in Apps |-> IF a \in w.restartable THEN w.strikes[a] ELSE 0]

Tells == /\ w.at = "start" /\ w.todo = {}
         /\ w' = [w EXCEPT !.at = "write", !.strikes = Kept]
         /\ \/ told' = (told \cup New) \ Cleared /\ UNCHANGED spare
            \/ told' = told \ Cleared /\ Fault("send")
            \/ told' = told \cup New /\ Fault("send")
            \/ told' = told /\ Fault("dry")
         /\ UNCHANGED <<box, sleeps, file, hist>>

\* Mutant: a problem once written is never taken out.
SavedForever == [problems |-> w.known \cup w.found, strikes |-> w.strikes]

\* Also on a dry run.
Saved == [problems |-> w.found, strikes |-> w.strikes]
Writes == /\ w.at = "write" /\ w' = Idle
          /\ \/ file' = Saved /\ UNCHANGED spare
             \/ file' = file /\ Fault("write")
          /\ UNCHANGED <<box, sleeps, told, hist>>

\* Deploys, crashes, idleness and Docker's own restarts move containers, and
\* somebody may switch an app's sleeping on or off.
Moves(a) == /\ \E b \in Boxes \ {box[a]} : box' = [box EXCEPT ![a] = b]
            /\ UNCHANGED <<spare, sleeps, w, file, told, hist>>

Switches(a) == /\ sleeps' = IF a \in sleeps THEN sleeps \ {a} ELSE sleeps \cup {a}
               /\ UNCHANGED <<spare, box, w, file, told, hist>>

WatchStep == \/ Begin \/ Judge \/ JudgeBlind \/ JudgeAnew \/ Tells \/ Writes
             \/ \E a \in Apps : \/ Look(a) \/ Waits(a) \/ Starts(a) \/ StartFails(a)
                                \/ Moves(a) \/ Switches(a)

Watches == WatchStep /\ UNCHANGED <<row, loop, up, hurt>>

\* A run reads the rows in one query, so that what a loop does meanwhile may
\* as well come before the run or after it.
Beats == /\ HeartNext /\ w.at = "idle"
         /\ UNCHANGED <<box, sleeps, w, file, told, hist>>

\* What has been bad ever since the run began.
Next == /\ Watches \/ Beats
        /\ through' = IF w.at = "idle" /\ w'.at # "idle" THEN Bad' ELSE through \cap Bad'

Spec == Init /\ [][Next]_vars
-----------------------------------------------------------------------------
TypeOK ==
  /\ HeartTypeOK
  /\ box \in [Apps -> Boxes] /\ sleeps \subseteq Apps
  /\ w \in [at : {"idle", "look", "start", "write"}, todo : SUBSET Apps,
            awake : SUBSET Apps, restartable : SUBSET Apps,
            found : SUBSET Problems, known : SUBSET Problems,
            strikes : [Apps -> 0 .. RestartCooldownRuns]]
  /\ file \in [problems : SUBSET Problems, strikes : [Apps -> 0 .. RestartCooldownRuns]]
  /\ told \subseteq Problems /\ through \subseteq Problems
  /\ hist \in [Apps -> [failing : 0 .. RestartCooldownRuns, since : 0 .. RestartCooldownRuns]]

(***************************************************************************)
(* Nobody is left in the dark: what has been bad from the beginning of a   *)
(* run until after its end is something the chat has been told of and not  *)
(* told that it is gone, or the run has said that it could not look        *)
(* (paas-watchdog:27-29).                                                  *)
(***************************************************************************)
CannotLook(p) == IF p[1] = "stale" THEN NoBeats ELSE NoApps
Told(p) == p \in told \/ CannotLook(p) \in told
NobodyInTheDark == w.at = "idle" => \A p \in through : Told(p)

(***************************************************************************)
(* A container is started only when its app was down in the last two runs  *)
(* and none of them started it with success: a fault is not turned into a  *)
(* restart loop (paas-watchdog:57-59).                                     *)
(***************************************************************************)
StartsSpaced ==
  [][\A a \in Apps : (hist'[a].since = 0 /\ hist[a].since # 0)
        => hist[a].failing >= RestartCooldownRuns /\ hist[a].since >= RestartCooldownRuns]_vars

(***************************************************************************)
(* What paas-watchdog:27-28 says and the code does not keep: a recovery is *)
(* announced of what has recovered.  The message names the app or task and *)
(* not the problem, so an app that goes from unhealthy to down recovers,   *)
(* and so does everything when the apps cannot be read (WatchdogGone.cfg). *)
(***************************************************************************)
GoneIsGone == [][w.at = "start" /\ w'.at = "write"
                   => \A p \in Cleared, q \in through : p[2] # q[2]]_vars

(***************************************************************************)
(* What paas-watchdog:31-35 says: a container that is started belongs to   *)
(* an app that does not sleep (WatchdogWakes.cfg: its flag was read before). *)
(***************************************************************************)
WakesNobody == [][\A a \in Apps : (hist'[a].since = 0 /\ hist[a].since # 0) => Awake(a)]_vars
=============================================================================
