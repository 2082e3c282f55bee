------------------------------- MODULE Alerts -------------------------------
(***************************************************************************)
(* The alert loop: alerts.check_once, every 150 s, for one app and for the *)
(* Traefik proxy, with the alert_state row it keeps about each, the        *)
(* once-a-day probe of the app's public URL, and the restart that heals a  *)
(* proxy that came up without its Sablier plugin.                          *)
(*                                                                         *)
(* Dates are kept relative: a row or a running check says whether the date *)
(* it holds is still today's, and Midnight makes it yesterday's.  The age  *)
(* of the last heal is counted in checks.  Whether Telegram takes a        *)
(* message changes nothing in this code; a message counts as told when it  *)
(* is handed to notify.send.                                               *)
(***************************************************************************)
EXTENDS Naturals, Sequences, FiniteSets

CONSTANTS
  DownAfter,       \* DOWN_AFTER
  Threshold,       \* ALERT_5XX_THRESHOLD
  HealCooldown,    \* PLUGIN_HEAL_COOLDOWN_S, in checks
  Varies,          \* BOUND: what goes wrong or changes outside in this instance
  MaxErrors,       \* BOUND: 5xx responses in all
  MaxFaults,       \* BOUND: checks cut short by an exception or a restart
  DockerMayFail    \* a docker or Traefik API call may fail

ASSUME AlertsAssumption ==
  /\ DownAfter \in Nat \ {0} /\ Threshold \in Nat \ {0}
  /\ HealCooldown \in Nat \ {0}
  /\ Varies \subseteq {"container", "sleep", "idle", "reach", "routers", "plugin"}
  /\ MaxErrors \in Nat /\ MaxFaults \in Nat
  /\ DockerMayFail \in BOOLEAN

Never == HealCooldown + 1   \* healed_at IS NULL

VARIABLES
  sleeps,            \* apps.sleep_when_idle
  box,               \* the app's container: up, stopped, or none at all
  reach,             \* a request to the public URL comes back
  routersOk, plugin, \* Traefik serves every router; it loaded its plugin
  hour,              \* the app's probe hour: still to come, now, over
  errors,            \* analytics_perf: today's 5xx
  row,               \* alert_state of the app
  proxy,             \* alert_state of __traefik__
  pc,                \* where check_once is
  tick,              \* its local variables
  mail, globalMail,  \* messages, messages_global
  faults,
  told,              \* HISTORY: the alarms a reader has not seen resolved
  absent,            \* HISTORY: looks that found no container since a check did
  counted, reported, \* HISTORY: 5xx there were, 5xx in messages
  sinceHeal,         \* HISTORY: checks since the proxy was restarted
  since,             \* HISTORY: the plugin was loaded, or not seen, since then
  torn,              \* HISTORY: a check was cut between a message and its row
  late               \* HISTORY: midnight fell within a check

world == <<sleeps, box, reach, routersOk, plugin, hour, errors>>
kept  == <<row, proxy>>
local == <<pc, tick, mail, globalMail>>
hist  == <<told, absent, counted, reported, sinceHeal, since, torn, late>>
vars  == <<world, kept, local, faults, hist>>

Cap(n, top) == IF n > top THEN top ELSE n

\* fail_count and alerted_down are written and never looked at.
NoRow == [known |-> FALSE,
          alertedStuck |-> FALSE, missing |-> 0, alertedMissing |-> FALSE,
          probedToday |-> FALSE, alertedUnreachable |-> FALSE,
          errToday |-> FALSE, err |-> 0]
NoTick == [sleeps |-> FALSE, row |-> NoRow, err |-> 0,
           own |-> FALSE, due |-> FALSE, today |-> FALSE,
           broken |-> FALSE, latch |-> FALSE,
           healAge |-> Never, running |-> FALSE, found |-> FALSE, idle |-> FALSE,
           delta |-> 0, owes |-> {}]

Init ==
  /\ sleeps \in BOOLEAN
  /\ box \in {"up", "stopped"}
  /\ reach = TRUE /\ routersOk = TRUE /\ plugin = TRUE
  /\ hour = "before" /\ errors = 0
  /\ row = NoRow /\ proxy = [alerted |-> FALSE, healAge |-> Never]
  /\ pc = "idle" /\ tick = NoTick /\ mail = <<>> /\ globalMail = <<>>
  /\ faults = 0
  /\ told = {} /\ absent = 0
  /\ counted = 0 /\ reported = 0
  /\ sinceHeal = HealCooldown /\ since = {"loaded"} /\ torn = FALSE
  /\ late = FALSE
-----------------------------------------------------------------------------
\* The queries at the start of check_once, all before its first docker call.
Read ==
  /\ pc = "idle"
  /\ tick' = [NoTick EXCEPT !.sleeps = sleeps, !.row = row, !.err = errors,
                            !.own = (hour = "own"), !.today = TRUE,
                            !.due = (hour = "own" /\ ~row.probedToday),
                            !.latch = proxy.alerted]
  /\ pc' = "proxy"
  /\ proxy' = [proxy EXCEPT !.healAge =
                 IF @ = Never THEN Never ELSE Cap(@ + 1, HealCooldown)]
  /\ sinceHeal' = Cap(sinceHeal + 1, HealCooldown)
  /\ UNCHANGED <<world, row, mail, globalMail, faults, told, absent, counted,
                 reported, since, torn, late>>

\* What a call that may fail says about a condition: how it is, or "unknown".
Reading(is) == {IF is THEN "yes" ELSE "no"}
               \cup (IF DockerMayFail THEN {"unknown"} ELSE {})

\* Mutant: the cooldown is not looked at.
ShouldHealAlways(loaded) == loaded = "no"

\* Mutant: one restart is all a proxy gets.
ShouldHealOnce(loaded) == loaded = "no" /\ proxy.healAge = Never

\* probe.should_heal_plugin
ShouldHealPlugin(loaded) ==
  /\ loaded = "no"
  /\ proxy.healAge \in {HealCooldown, Never}

\* Mutant: a router table that cannot be read clears the latch.
ProxyForgets ==
  /\ pc = "proxy"
  /\ \E serving \in Reading(routersOk), loaded \in Reading(plugin) :
       LET heal == ShouldHealPlugin(loaded) IN
       /\ tick' = [tick EXCEPT
            !.broken = serving = "no" \/ loaded = "no",
            !.latch = serving = "no",
            !.healAge = IF heal THEN 0
                        ELSE IF loaded = "no" THEN proxy.healAge ELSE Never]
       /\ globalMail' = IF serving = "no" /\ ~tick.latch THEN <<"routers">>
                        ELSE IF serving = "yes" /\ tick.latch THEN <<"routersOk">>
                        ELSE <<>>
       /\ since' = since \cup (IF loaded = "unknown" THEN {"unseen"} ELSE {})
       /\ pc' = IF heal THEN "heal" ELSE "look"
  /\ UNCHANGED <<world, kept, mail, faults, told, absent, counted, reported,
                 sinceHeal, torn, late>>

\* The router table and the plugin.  An unreadable table keeps its latch; a
\* plugin that is there, or cannot be seen, forgets the last heal.
Proxy ==
  /\ pc = "proxy"
  /\ \E serving \in Reading(routersOk), loaded \in Reading(plugin) :
       LET heal == ShouldHealPlugin(loaded) IN
       /\ tick' = [tick EXCEPT
            !.broken = serving = "no" \/ loaded = "no",
            !.latch = serving = "no" \/ (@ /\ serving = "unknown"),
            !.healAge = IF heal THEN 0
                        ELSE IF loaded = "no" THEN proxy.healAge ELSE Never]
       /\ globalMail' = IF serving = "no" /\ ~tick.latch THEN <<"routers">>
                        ELSE IF serving = "yes" /\ tick.latch THEN <<"routersOk">>
                        ELSE <<>>
       /\ since' = since \cup (IF loaded = "unknown" THEN {"unseen"} ELSE {})
       /\ pc' = IF heal THEN "heal" ELSE "look"
  /\ UNCHANGED <<world, kept, mail, faults, told, absent, counted, reported,
                 sinceHeal, torn, late>>

\* docker restart coolify-proxy: it may fail, and the proxy may again come up
\* without the plugin.
Heal ==
  /\ pc = "heal"
  /\ plugin' \in BOOLEAN
  /\ globalMail' = Append(globalMail, "healed")
  /\ tick' = [tick EXCEPT !.owes = @ \cup {"proxy"}]
  /\ pc' = "look"
  /\ sinceHeal' = 0 /\ since' = IF plugin' THEN {"loaded"} ELSE {}
  /\ UNCHANGED <<sleeps, box, reach, routersOk, hour, errors, kept, mail,
                 faults, told, absent, counted, reported, torn, late>>

\* stats._container_stats and stats._lifecycle.  A docker command that fails
\* lists nothing.  idle: enrolled, and since its start or last request, whichever
\* is later, longer than STUCK_AWAKE_AFTER.
Look ==
  /\ pc = "look"
  /\ \E found \in {box # "none"} \cup (IF DockerMayFail THEN {FALSE} ELSE {}),
        idle \in {FALSE, "idle" \in Varies} :
       /\ tick' = [tick EXCEPT !.running = (box = "up" /\ found), !.found = found,
                               !.idle = (box = "up" /\ found /\ idle)]
       /\ absent' = IF found THEN absent ELSE Cap(absent + 1, DownAfter)
  /\ pc' = "check"
  /\ UNCHANGED <<world, kept, mail, globalMail, faults, told, counted, reported,
                 sinceHeal, since, torn, late>>

-----------------------------------------------------------------------------
\* What each part of the loop over apps answers: messages and the row's fields.
\* prev is the row as it was read.

\* Mutant: one look without a container is enough.
MissingAtOnce(found, prev, slp) ==
  LET alarm == slp /\ prev.known /\ ~found /\ ~prev.alertedMissing
      back  == slp /\ prev.known /\ found /\ prev.alertedMissing
  IN  [msgs  |-> IF alarm THEN <<"missing">> ELSE IF back THEN <<"back">> ELSE <<>>,
       count |-> 0,
       latch |-> slp /\ (alarm \/ (prev.alertedMissing /\ ~back))]

\* Mutant: the counter runs down instead of starting again.
MissingCountsDown(found, prev, slp) ==
  LET count == IF found THEN prev.missing - 1 ELSE Cap(prev.missing + 1, DownAfter)
      alarm == slp /\ prev.known /\ ~found /\ count >= DownAfter /\ ~prev.alertedMissing
      back  == slp /\ prev.known /\ found /\ prev.alertedMissing
  IN  [msgs  |-> IF alarm THEN <<"missing">> ELSE IF back THEN <<"back">> ELSE <<>>,
       count |-> count,
       latch |-> slp /\ (alarm \/ (prev.alertedMissing /\ ~back))]

\* Mutant: the container's return does not clear the latch.
MissingKeepsLatch(found, prev, slp) ==
  LET count == IF found THEN 0 ELSE Cap(prev.missing + 1, DownAfter)
      alarm == slp /\ prev.known /\ ~found /\ count >= DownAfter /\ ~prev.alertedMissing
      back  == slp /\ prev.known /\ found /\ prev.alertedMissing
  IN  [msgs  |-> IF alarm THEN <<"missing">> ELSE IF back THEN <<"back">> ELSE <<>>,
       count |-> count,
       latch |-> slp /\ (alarm \/ prev.alertedMissing)]

\* alerts.missing_container_decision
MissingContainer(found, prev, slp) ==
  LET count == IF found THEN 0 ELSE Cap(prev.missing + 1, DownAfter)
      alarm == slp /\ prev.known /\ ~found /\ count >= DownAfter /\ ~prev.alertedMissing
      back  == slp /\ prev.known /\ found /\ prev.alertedMissing
  IN  [msgs  |-> IF alarm THEN <<"missing">> ELSE IF back THEN <<"back">> ELSE <<>>,
       count |-> count,
       latch |-> slp /\ (alarm \/ (prev.alertedMissing /\ ~back))]

\* Awake for long with nothing asking for it; clears without a message.
Stuck == tick.sleeps /\ tick.running /\ tick.idle

\* Mutant: an app whose container is not up is not worth a probe.
DueIfRunning == tick.due /\ tick.row.known /\ ~tick.broken /\ tick.running

\* probe.due_for_probe, on the time the check began and the row it read; not
\* while the proxy is known to be broken, nor on the app's first check.
DueForProbe == tick.due /\ tick.row.known /\ ~tick.broken

\* probe.reachability_decision
Reachability(serving, alerted) ==
  [msgs  |-> IF ~serving /\ ~alerted THEN <<"unreachable">>
             ELSE IF serving /\ alerted THEN <<"serving">> ELSE <<>>,
   latch |-> ~serving]

\* Mutant: the count of a day is always compared with nothing.
NewErrorsAbsolute(prev, count) == count

\* New 5xx since the row's count, which only stands on the day it was taken.
NewErrors(prev, count) ==
  LET baseline == IF prev.errToday THEN prev.err ELSE 0
  IN  IF prev.known /\ count > baseline THEN count - baseline ELSE 0

\* One round of the loop over apps, up to its messages.  date.today() is asked
\* after the probe, which may have taken minutes.
Check ==
  /\ pc = "check"
  /\ LET prev  == tick.row
         gone  == MissingContainer(tick.found, prev, tick.sleeps)
         probe == IF DueForProbe THEN Reachability(reach, prev.alertedUnreachable)
                  ELSE [msgs |-> <<>>, latch |-> prev.alertedUnreachable]
         delta == NewErrors(prev, tick.err)
     IN  /\ mail' = gone.msgs
                    \o (IF Stuck /\ ~prev.alertedStuck THEN <<"stuck">> ELSE <<>>)
                    \o probe.msgs
                    \o (IF delta >= Threshold THEN <<"errors">> ELSE <<>>)
         /\ tick' = [tick EXCEPT !.delta = delta, !.row =
              [known |-> TRUE,
               alertedStuck |-> Stuck,
               missing |-> gone.count, alertedMissing |-> gone.latch,
               probedToday |-> IF DueForProbe THEN tick.today ELSE prev.probedToday,
               alertedUnreachable |-> probe.latch,
               errToday |-> TRUE, err |-> tick.err]]
  /\ pc' = "send"
  /\ UNCHANGED <<world, kept, globalMail, faults, hist>>

\* The alarms open for the reader after message m.
After(m) ==
  CASE m \in {"missing", "unreachable", "routers"} -> told \cup {m}
    [] m = "back"      -> told \ {"missing"}
    [] m = "serving"   -> told \ {"unreachable"}
    [] m = "routersOk" -> told \ {"routers"}
    [] OTHER           -> told

Send ==
  /\ pc = "send" /\ mail # <<>>
  /\ mail' = Tail(mail) /\ told' = After(Head(mail))
  /\ reported' = reported + (IF Head(mail) = "errors" THEN tick.delta ELSE 0)
  /\ tick' = [tick EXCEPT !.owes = @ \cup {"row"}]
  /\ UNCHANGED <<world, kept, pc, globalMail, faults, absent, counted, sinceHeal,
                 since, torn, late>>

\* The app's row; its date is CURRENT_DATE as it is written.
Write ==
  /\ pc = "send" /\ mail = <<>>
  /\ row' = [tick.row EXCEPT !.errToday = TRUE]
  /\ tick' = [tick EXCEPT !.owes = @ \ {"row"}]
  /\ told' = IF tick.sleeps THEN told ELSE told \ {"missing"}
  /\ absent' = IF tick.found THEN 0 ELSE absent
  /\ pc' = "global"
  /\ UNCHANGED <<world, proxy, mail, globalMail, faults, counted, reported,
                 sinceHeal, since, torn, late>>

SendGlobal ==
  /\ pc = "global" /\ globalMail # <<>>
  /\ globalMail' = Tail(globalMail) /\ told' = After(Head(globalMail))
  /\ tick' = [tick EXCEPT !.owes = @ \cup {"proxy"}]
  /\ UNCHANGED <<world, kept, pc, mail, faults, absent, counted, reported,
                 sinceHeal, since, torn, late>>

\* The proxy's row; the loop sleeps.
WriteGlobal ==
  /\ pc = "global" /\ globalMail = <<>>
  /\ proxy' = [alerted |-> tick.latch, healAge |-> tick.healAge]
  /\ pc' = "idle" /\ tick' = NoTick
  /\ UNCHANGED <<world, row, mail, globalMail, faults, hist>>

\* An exception (_alerts_loop swallows it) or a restart of the control plane.
Abort ==
  /\ pc # "idle" /\ faults < MaxFaults
  /\ faults' = faults + 1
  /\ torn' = (torn \/ tick.owes # {})
  /\ pc' = "idle" /\ tick' = NoTick /\ mail' = <<>> /\ globalMail' = <<>>
  /\ UNCHANGED <<world, kept, told, absent, counted, reported, sinceHeal, since,
                 late>>

-----------------------------------------------------------------------------
\* The world.

Elsewhere == UNCHANGED <<kept, local, faults, told, absent, reported, sinceHeal,
                         since, torn, late>>

\* A deploy, a rollback, Sablier, a crash or a wake: the container comes and goes.
ContainerChanges ==
  /\ "container" \in Varies
  /\ box' \in {"up", "stopped", "none"} \ {box}
  /\ UNCHANGED <<sleeps, reach, routersOk, plugin, hour, errors, counted>>
  /\ Elsewhere

\* PUT /apps/<id>/sleep
SetSleep ==
  /\ "sleep" \in Varies
  /\ sleeps' = ~sleeps
  /\ UNCHANGED <<box, reach, routersOk, plugin, hour, errors, counted>>
  /\ Elsewhere

ReachChanges ==
  /\ "reach" \in Varies
  /\ reach' = ~reach
  /\ UNCHANGED <<sleeps, box, routersOk, plugin, hour, errors, counted>>
  /\ Elsewhere

RoutersChange ==
  /\ "routers" \in Varies
  /\ routersOk' = ~routersOk
  /\ UNCHANGED <<sleeps, box, reach, plugin, hour, errors, counted>>
  /\ Elsewhere

\* A reboot: the proxy starts before the network.
PluginLost ==
  /\ "plugin" \in Varies /\ plugin
  /\ plugin' = FALSE
  /\ UNCHANGED <<sleeps, box, reach, routersOk, hour, errors, counted>>
  /\ Elsewhere

ServerError ==
  /\ counted < MaxErrors
  /\ errors' = errors + 1 /\ counted' = counted + 1
  /\ UNCHANGED <<sleeps, box, reach, routersOk, plugin, hour>>
  /\ Elsewhere

\* The app's hour comes, and lasts long enough for a check to begin in it.
HourPasses ==
  /\ \/ hour = "before" /\ hour' = "own"
     \/ hour = "own" /\ tick.own /\ hour' = "after"
  /\ UNCHANGED <<sleeps, box, reach, routersOk, plugin, errors, counted>>
  /\ Elsewhere

Midnight ==
  /\ hour = "after"
  /\ hour' = "before" /\ errors' = 0
  /\ late' = (late \/ (pc # "idle" /\ counted > 0))
  /\ row' = [row EXCEPT !.probedToday = FALSE, !.errToday = FALSE]
  /\ tick' = [tick EXCEPT !.today = FALSE, !.row.probedToday = FALSE,
                          !.row.errToday = FALSE]
  /\ UNCHANGED <<sleeps, box, reach, routersOk, plugin, proxy, pc, mail,
                 globalMail, faults, told, absent, counted, reported, sinceHeal,
                 since, torn>>

CheckOnce == Read \/ Proxy \/ Heal \/ Look \/ Check \/ Send \/ Write
             \/ SendGlobal \/ WriteGlobal

Next ==
  \/ CheckOnce \/ Abort
  \/ ContainerChanges \/ SetSleep \/ ReachChanges \/ RoutersChange
  \/ PluginLost \/ ServerError \/ HourPasses \/ Midnight

Spec == Init /\ [][Next]_vars

\* The loop goes on, every call in it has a time limit, hours pass, and neither
\* a docker call nor the proxy's start fails every time.
FairSpec ==
  /\ Spec
  /\ WF_vars(CheckOnce) /\ SF_vars(HourPasses) /\ SF_vars(Midnight)
  /\ SF_vars(Proxy /\ pc' = "heal") /\ SF_vars(Heal /\ plugin')
-----------------------------------------------------------------------------
TypeOK ==
  /\ {sleeps, reach, routersOk, plugin, torn, late} \subseteq BOOLEAN
  /\ box \in {"up", "stopped", "none"} /\ hour \in {"before", "own", "after"}
  /\ errors \in 0 .. MaxErrors /\ counted \in 0 .. MaxErrors /\ reported \in Nat
  /\ \A r \in {row, tick.row} :
       /\ r.missing \in 0 .. DownAfter
       /\ r.err \in 0 .. MaxErrors
       /\ {r.known, r.alertedStuck, r.alertedMissing,
           r.probedToday, r.alertedUnreachable, r.errToday} \subseteq BOOLEAN
  /\ proxy.alerted \in BOOLEAN
  /\ proxy.healAge \in 0 .. Never /\ tick.healAge \in 0 .. Never
  /\ pc \in {"idle", "proxy", "heal", "look", "check", "send", "global"}
  /\ faults \in 0 .. MaxFaults
  /\ told \subseteq {"missing", "unreachable", "routers"}
  /\ absent \in 0 .. DownAfter /\ sinceHeal \in 0 .. HealCooldown
  /\ since \subseteq {"loaded", "unseen"}

\* The message that notify.send is about to be given.
Sending ==
  CASE pc = "send" /\ mail # <<>>         -> {Head(mail)}
    [] pc = "global" /\ globalMail # <<>> -> {Head(globalMail)}
    [] OTHER                              -> {}

\* "Missing" is only said of an app that two looks found without a container
\* and no completed check between them with one, so the moment between the two
\* containers of a redeploy says nothing, however often sleeping was switched
\* and wherever checks were cut short.  (missing_container_decision and its
\* counter in alert_state.)
MissingDebounced == "missing" \in Sending => absent >= DownAfter

\* Alarm and all-clear alternate, for containers, public URLs and routers: no
\* alarm is repeated while it stands, and no all-clear comes without an alarm.
\* (The latches in alert_state; a check that is cut between a message and its
\* row may repeat itself.)
OnlyEdges ==
  ~torn =>
    \A m \in Sending :
      /\ m \in {"missing", "unreachable", "routers"} => m \notin told
      /\ m = "back" => "missing" \in told
      /\ m = "serving" => "unreachable" \in told
      /\ m = "routersOk" => "routers" \in told

\* No 5xx response is reported twice, over any number of days, except by a
\* check that midnight falls into: it counts on one day and writes its baseline
\* for the other.  (The baseline of the 5xx check.)
ReportedOnce == ~torn /\ ~late => reported <= counted

\* The proxy is not restarted again within the cooldown, unless a check in
\* between saw the plugin or could not tell.  (should_heal_plugin, healed_at.)
HealsSpaced ==
  [][~torn /\ pc = "heal" /\ pc' = "look"
       => sinceHeal >= HealCooldown \/ since # {}]_vars

\* A sleeping app whose container is gone for good is reported, without a
\* single request to it.  (The existence check of check_once.)
MissingReported ==
  <>[](sleeps /\ box = "none" /\ ~torn) => <>[]("missing" \in told)

\* An app whose public URL stops answering for good is reported by the daily
\* probe, whatever its container looks like, unless the proxy itself is what
\* is reported.  (due_for_probe and reachability_decision.)
UnreachableReported ==
  <>[](~reach /\ routersOk /\ plugin /\ ~torn) => <>[]("unreachable" \in told)

\* A proxy without its plugin does not stay so.
PluginHeals == []<>plugin
=============================================================================
