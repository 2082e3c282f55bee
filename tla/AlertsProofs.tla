---------------------------- MODULE AlertsProofs ----------------------------
(***************************************************************************)
(* What is proved of alerts.check_once, for every threshold, cooldown and  *)
(* bound: the types, that an alarm about a container is debounced, that    *)
(* alarms and all-clears alternate, that no 5xx is reported twice, and     *)
(* that restarts of the proxy are spaced.                                  *)
(*                                                                         *)
(* The five follow from one inductive invariant, Inv.  Its parts follow    *)
(* the latches, counters and dates from the rows into the local variables  *)
(* of a check, through the messages that still wait in its two lists, and  *)
(* back into the rows.                                                     *)
(***************************************************************************)
EXTENDS Alerts, SequenceTheorems, TLAPS

\* What messages (of the app) and messages_global can hold.
AppMessages   == {"missing", "back", "stuck", "unreachable", "serving", "errors"}
ProxyMessages == {"routers", "routersOk", "healed"}

\* The rows of alert_state, and the locals of one check.
RowRecords ==
  [known : BOOLEAN, alertedStuck : BOOLEAN, missing : 0 .. DownAfter,
   alertedMissing : BOOLEAN, probedToday : BOOLEAN, alertedUnreachable : BOOLEAN,
   errToday : BOOLEAN, err : 0 .. MaxErrors]

TickRecords ==
  [sleeps : BOOLEAN, row : RowRecords, err : 0 .. MaxErrors, own : BOOLEAN,
   due : BOOLEAN, today : BOOLEAN, broken : BOOLEAN, latch : BOOLEAN,
   healAge : 0 .. Never, running : BOOLEAN, found : BOOLEAN, idle : BOOLEAN,
   delta : 0 .. MaxErrors, owes : SUBSET {"row", "proxy"}]

ProxyRecords == [alerted : BOOLEAN, healAge : 0 .. Never]

\* m is among the messages of s, none of which is there twice.
Holds(s, m) == \E i \in 1 .. Len(s) : s[i] = m
Once(s)     == \A i, j \in 1 .. Len(s) : s[i] = s[j] => i = j

\* The types, with no message twice in a list.  Today's 5xx are among those there
\* were.
Typed ==
  /\ sleeps \in BOOLEAN /\ reach \in BOOLEAN /\ routersOk \in BOOLEAN /\ plugin \in BOOLEAN
  /\ torn \in BOOLEAN /\ late \in BOOLEAN
  /\ box \in {"up", "stopped", "none"} /\ hour \in {"before", "own", "after"}
  /\ counted \in 0 .. MaxErrors /\ errors \in 0 .. counted /\ reported \in Nat
  /\ row \in RowRecords /\ proxy \in ProxyRecords /\ tick \in TickRecords
  /\ pc \in {"idle", "proxy", "heal", "look", "check", "send", "global"}
  /\ mail \in Seq(AppMessages) /\ Once(mail)
  /\ globalMail \in Seq(ProxyMessages) /\ Once(globalMail)
  /\ faults \in 0 .. MaxFaults
  /\ told \subseteq {"missing", "unreachable", "routers"}
  /\ absent \in 0 .. DownAfter /\ sinceHeal \in 0 .. HealCooldown
  /\ since \subseteq {"loaded", "unseen"}

\* The steps of a check before its decisions are in tick.row.
Before  == {"proxy", "heal", "look", "check"}

\* Where a check is and what it holds: until its decisions it has the row as it
\* is kept, a list is empty outside its own part of the check, and a row is only
\* owed once a message about it went out.
InOrder ==
  /\ pc \in Before => tick.row = row
  /\ pc = "idle" => tick.err = 0
  /\ pc \in {"idle", "proxy"} => tick.owes = {}
  /\ pc # "send" => "row" \notin tick.owes
  /\ pc \in {"idle", "proxy"} => globalMail = <<>>
  /\ pc = "heal" => ~Holds(globalMail, "healed")
  /\ pc # "send" => mail = <<>>

\* The counter never runs ahead of the looks that found nothing: not in the row,
\* not in what the check is about to make of it, not in what it made of it.
Debounced ==
  /\ row.missing <= absent
  /\ pc = "check" /\ ~tick.found => Cap(tick.row.missing + 1, DownAfter) <= absent
  /\ pc = "send" => tick.row.missing <= absent /\ (Holds(mail, "missing") => absent = DownAfter)
  /\ pc = "send" /\ tick.found => tick.row.missing = 0

\* The latch that is about to be written, given the messages that are still to
\* be sent: an alarm in s will open name, an all-clear will close it, and without
\* either the reader and the latch already agree.
Latched(raise, clear, s, name, latch) ==
  /\ Holds(s, raise) => name \notin told /\ latch
  /\ Holds(s, clear) => name \in told /\ ~latch
  /\ ~Holds(s, raise) /\ ~Holds(s, clear) => (name \in told <=> latch)

\* Latches and the reader agree: the rows with what was told, unless a message
\* went out since they were written; and the decisions of the check with what will
\* have been told once its messages are sent.
Told ==
  ~torn =>
  /\ "row" \notin tick.owes => /\ "missing" \in told <=> row.alertedMissing
                               /\ "unreachable" \in told <=> row.alertedUnreachable
  /\ "proxy" \notin tick.owes => ("routers" \in told <=> proxy.alerted)
  /\ pc = "proxy" => tick.latch = proxy.alerted
  /\ pc \notin {"idle", "proxy"} =>
       Latched("routers", "routersOk", globalMail, "routers", tick.latch)
  /\ pc = "send" =>
       /\ Latched("unreachable", "serving", mail, "unreachable", tick.row.alertedUnreachable)
       /\ IF tick.sleeps
          THEN Latched("missing", "back", mail, "missing", tick.row.alertedMissing)
          ELSE ~Holds(mail, "missing") /\ ~Holds(mail, "back") /\ ~tick.row.alertedMissing

\* The baseline that a row gives the 5xx check today.
Base(r) == IF r.errToday THEN r.err ELSE 0

\* Of the 5xx there were, those reported and those still above the baseline are
\* different ones; and the message that waits pays for the higher baseline.
Counted ==
  ~torn /\ ~late =>
  /\ Base(row) <= errors /\ tick.err <= errors
  /\ pc \in Before => Base(row) <= tick.err
  /\ "row" \notin tick.owes => reported + errors <= counted + Base(row)
  /\ pc = "send" =>
       /\ tick.row.err = tick.err
       /\ reported + errors + (IF Holds(mail, "errors") THEN tick.delta ELSE 0) <= counted + tick.err

\* A known time of the last heal that is no further back than the heal is.
Aged(age) == age # Never /\ age <= sinceHeal

\* While the plugin has neither been loaded nor gone unseen since the last heal,
\* it is missing, the time of that heal is kept in the row or in the check, and a
\* check that is about to heal has waited for the cooldown.
Spaced ==
  /\ since = {} => ~plugin
  /\ pc = "heal" => tick.healAge = 0
  /\ ~torn /\ since = {} =>
       /\ "proxy" \notin tick.owes => Aged(proxy.healAge)
       /\ pc \notin {"idle", "proxy", "heal"} => Aged(tick.healAge)
       /\ pc = "heal" => sinceHeal >= HealCooldown

\* The inductive invariant.
Inv == Typed /\ InOrder /\ Debounced /\ Told /\ Counted /\ Spaced
-----------------------------------------------------------------------------
\* An empty list holds no message.
LEMMA HoldsNone == \A m : ~Holds(<<>>, m)
  BY DEF Holds

\* A list of one message holds that message, once.
LEMMA HoldsOne ==
  ASSUME NEW a
  PROVE  Once(<<a>>) /\ \A m : Holds(<<a>>, m) <=> m = a
  <1>1. Len(<<a>>) = 1 /\ <<a>>[1] = a OBVIOUS
  <1> QED BY <1>1 DEF Once, Holds

\* Two lists that share no message, one behind the other: the messages of both,
\* each once.  (The four parts of messages in check_once.)
LEMMA HoldsJoin ==
  ASSUME NEW S, NEW s \in Seq(S), NEW t \in Seq(S), Once(s), Once(t),
         \A m : ~(Holds(s, m) /\ Holds(t, m))
  PROVE  /\ s \o t \in Seq(S) /\ Once(s \o t)
         /\ \A m : Holds(s \o t, m) <=> Holds(s, m) \/ Holds(t, m)
  <1> DEFINE u == s \o t
  <1>1. /\ u \in Seq(S) /\ Len(u) = Len(s) + Len(t)
        /\ Len(s) \in Nat /\ Len(t) \in Nat
        /\ \A i \in 1 .. Len(u) : u[i] = IF i <= Len(s) THEN s[i] ELSE t[i - Len(s)]
    BY ConcatProperties, LenProperties
  <1> HIDE DEF u
  <1>2. ASSUME NEW m, Holds(s, m) PROVE Holds(u, m)
    <2>1. PICK i \in 1 .. Len(s) : s[i] = m BY <1>2 DEF Holds
    <2>2. i \in 1 .. Len(u) /\ u[i] = m BY <1>1, <2>1
    <2> QED BY <2>2 DEF Holds
  <1>3. ASSUME NEW m, Holds(t, m) PROVE Holds(u, m)
    <2>1. PICK i \in 1 .. Len(t) : t[i] = m BY <1>3 DEF Holds
    <2>2. i + Len(s) \in 1 .. Len(u) /\ ~(i + Len(s) <= Len(s)) BY <1>1, <2>1
    <2>3. (i + Len(s)) - Len(s) = i BY <1>1, <2>1
    <2>4. u[i + Len(s)] = t[(i + Len(s)) - Len(s)] BY <1>1, <2>2
    <2> QED BY <2>1, <2>2, <2>3, <2>4 DEF Holds
  <1>4. ASSUME NEW m, Holds(u, m) PROVE Holds(s, m) \/ Holds(t, m)
    <2>1. PICK i \in 1 .. Len(u) : u[i] = m BY <1>4 DEF Holds
    <2>2. CASE i <= Len(s)
      <3>1. i \in 1 .. Len(s) /\ s[i] = m BY <1>1, <2>1, <2>2
      <3> QED BY <3>1 DEF Holds
    <2>3. CASE ~(i <= Len(s))
      <3>1. i - Len(s) \in 1 .. Len(t) /\ t[i - Len(s)] = m BY <1>1, <2>1, <2>3
      <3> QED BY <3>1 DEF Holds
    <2> QED BY <2>2, <2>3
  <1>5. Once(u)
    <2> SUFFICES ASSUME NEW i \in 1 .. Len(u), NEW j \in 1 .. Len(u), u[i] = u[j]
                 PROVE  i = j
      BY DEF Once
    <2>1. ASSUME NEW k \in 1 .. Len(u), k <= Len(s)
          PROVE  k \in 1 .. Len(s) /\ u[k] = s[k]
      BY <1>1, <2>1
    <2>2. ASSUME NEW k \in 1 .. Len(u), ~(k <= Len(s))
          PROVE  k - Len(s) \in 1 .. Len(t) /\ u[k] = t[k - Len(s)]
      BY <1>1, <2>2
    <2>3. CASE i <= Len(s) /\ j <= Len(s) BY <2>1, <2>3 DEF Once
    <2>4. CASE ~(i <= Len(s)) /\ ~(j <= Len(s))
      <3>1. i - Len(s) = j - Len(s) BY <2>2, <2>4 DEF Once
      <3> QED BY <3>1, <1>1
    <2>5. CASE i <= Len(s) /\ ~(j <= Len(s)) BY <2>1, <2>2, <2>5 DEF Holds
    <2>6. CASE ~(i <= Len(s)) /\ j <= Len(s) BY <2>1, <2>2, <2>6 DEF Holds
    <2> QED BY <2>3, <2>4, <2>5, <2>6
  <1> QED BY <1>1, <1>2, <1>3, <1>4, <1>5 DEF u

\* What is left of a list when its first message is sent is all the others.
LEMMA HoldsRest ==
  ASSUME NEW S, NEW s \in Seq(S), s # <<>>, Once(s)
  PROVE  /\ Tail(s) \in Seq(S) /\ Once(Tail(s))
         /\ Head(s) \in S /\ Holds(s, Head(s))
         /\ \A m : Holds(Tail(s), m) <=> Holds(s, m) /\ m # Head(s)
  <1> DEFINE r == Tail(s)
  <1>1. /\ Len(s) \in Nat \ {0} /\ Head(s) = s[1] /\ Head(s) \in S
        /\ r \in Seq(S) /\ Len(r) = Len(s) - 1
        /\ \A i \in 1 .. Len(r) : r[i] = s[i + 1]
    BY HeadTailProperties, LenProperties, EmptySeq
  <1> HIDE DEF r
  <1>2. Once(r)
    <2> SUFFICES ASSUME NEW i \in 1 .. Len(r), NEW j \in 1 .. Len(r), r[i] = r[j]
                 PROVE  i = j
      BY DEF Once
    <2>1. i + 1 \in 1 .. Len(s) /\ j + 1 \in 1 .. Len(s) /\ s[i + 1] = s[j + 1] BY <1>1
    <2>2. i + 1 = j + 1 BY <2>1 DEF Once
    <2> QED BY <2>2
  <1>3. Holds(s, Head(s)) BY <1>1 DEF Holds
  <1>4. ASSUME NEW m, Holds(r, m) PROVE Holds(s, m) /\ m # Head(s)
    <2>1. PICK i \in 1 .. Len(r) : r[i] = m BY <1>4 DEF Holds
    <2>2. i + 1 \in 1 .. Len(s) /\ s[i + 1] = m /\ i + 1 # 1 /\ 1 \in 1 .. Len(s) BY <1>1, <2>1
    <2> QED BY <1>1, <2>2 DEF Holds, Once
  <1>5. ASSUME NEW m, Holds(s, m), m # Head(s) PROVE Holds(r, m)
    <2>1. PICK i \in 1 .. Len(s) : s[i] = m BY <1>5 DEF Holds
    <2>2. i # 1 BY <1>1, <1>5, <2>1
    <2>3. i - 1 \in 1 .. Len(r) /\ r[i - 1] = m BY <1>1, <2>1, <2>2
    <2> QED BY <2>3 DEF Holds
  <1> QED BY <1>1, <1>2, <1>3, <1>4, <1>5 DEF r
-----------------------------------------------------------------------------
\* The row that is not there and the check that has not begun are of their types.
LEMMA Records == NoRow \in RowRecords /\ NoTick \in TickRecords
  <1>1. NoRow \in RowRecords
    BY AlertsAssumption DEF NoRow, RowRecords
  <1>2. NoTick \in TickRecords
    BY <1>1, AlertsAssumption DEF NoTick, TickRecords, Never
  <1> QED BY <1>1, <1>2

\* The control plane starts on empty rows.
LEMMA Starts == Init => Inv
  <1> SUFFICES ASSUME Init PROVE Inv OBVIOUS
  <1> USE AlertsAssumption
  <1>1. Typed
    <2>1. <<>> \in Seq(AppMessages) /\ <<>> \in Seq(ProxyMessages) /\ Once(<<>>)
      BY DEF Once
    <2>2. proxy \in ProxyRecords BY DEF Init, ProxyRecords, Never
    <2>3. row \in RowRecords /\ tick \in TickRecords BY Records DEF Init
    <2>4. errors \in 0 .. counted /\ counted \in 0 .. MaxErrors /\ reported \in Nat
          /\ faults \in 0 .. MaxFaults /\ absent \in 0 .. DownAfter
          /\ sinceHeal \in 0 .. HealCooldown
      BY DEF Init
    <2>5. mail \in Seq(AppMessages) /\ globalMail \in Seq(ProxyMessages)
          /\ Once(mail) /\ Once(globalMail)
      BY <2>1 DEF Init
    <2> QED BY <2>2, <2>3, <2>4, <2>5 DEF Init, Typed
  <1>2. InOrder BY DEF Init, InOrder, Before, NoTick
  <1>3. Debounced BY DEF Init, Debounced, NoTick, NoRow
  <1>4. Told BY DEF Init, Told, NoTick, NoRow
  <1>5. Counted BY DEF Init, Counted, NoTick, NoRow, Base, Before
  <1>6. Spaced BY DEF Init, Spaced
  <1> QED BY <1>1, <1>2, <1>3, <1>4, <1>5, <1>6 DEF Inv

\* The queries: the check takes over row, latch and count; the heal gets older.
LEMMA ReadKeeps == Inv /\ Read => Inv'
  <1> SUFFICES ASSUME Inv, Read PROVE Inv' OBVIOUS
  <1> USE AlertsAssumption
  <1> DEFINE t == [NoTick EXCEPT !.sleeps = sleeps, !.row = row, !.err = errors,
                            !.own = (hour = "own"), !.today = TRUE,
                            !.due = (hour = "own" /\ ~row.probedToday),
                            !.latch = proxy.alerted]
             p == [proxy EXCEPT !.healAge =
                 IF @ = Never THEN Never ELSE Cap(@ + 1, HealCooldown)]
  <1>0. Typed BY DEF Inv
  <1>1. /\ sleeps \in BOOLEAN /\ row \in RowRecords /\ proxy.alerted \in BOOLEAN
        /\ proxy \in ProxyRecords /\ proxy.healAge \in 0 .. Never
        /\ errors \in 0 .. MaxErrors /\ row.missing \in 0 .. DownAfter
    BY <1>0 DEF Typed, ProxyRecords, RowRecords
  <1>2. /\ t.row = row /\ t.err = errors /\ t.latch = proxy.alerted /\ t.owes = {}
        /\ t.found = FALSE
    BY DEF NoTick
  <1>3. t \in TickRecords
    BY <1>1, Records DEF TickRecords
  <1>4. /\ p \in ProxyRecords /\ p.alerted = proxy.alerted
        /\ p.healAge = IF proxy.healAge = Never THEN Never
                       ELSE Cap(proxy.healAge + 1, HealCooldown)
    BY <1>1 DEF ProxyRecords, Cap, Never
  <1>5. tick' = t /\ proxy' = p BY DEF Read
  <1> HIDE DEF t, p
  <1>6. Typed' BY <1>0, <1>3, <1>4, <1>5 DEF Typed, Read, world, Cap
  <1>7. InOrder' BY <1>2, <1>5 DEF Inv, InOrder, Before, Read
  <1>8. Debounced' BY DEF Inv, Debounced, Read
  <1>9. Told' BY <1>2, <1>4, <1>5 DEF Inv, Told, InOrder, Read
  <1>10. Counted'
    <2>1. /\ pc = "idle" /\ pc' = "proxy" /\ errors' = errors /\ row' = row /\ torn' = torn
          /\ late' = late /\ reported' = reported /\ counted' = counted
      BY DEF Read, world
    <2>2. "row" \notin tick.owes /\ "row" \notin tick'.owes
      BY <1>2, <1>5, <2>1 DEF Inv, InOrder
    <2> QED BY <1>1, <1>2, <1>5, <2>1, <2>2 DEF Inv, Counted
  <1>11. Spaced'
    <2>1. /\ pc = "idle" /\ pc' = "proxy" /\ torn' = torn /\ since' = since /\ plugin' = plugin
          /\ sinceHeal' = Cap(sinceHeal + 1, HealCooldown)
      BY DEF Read, world
    <2>2. "proxy" \notin tick.owes BY <2>1 DEF Inv, InOrder
    <2>3. Aged(proxy.healAge) => Aged(proxy.healAge)'
      BY <1>0, <1>1, <1>4, <1>5, <2>1 DEF Aged, Cap, Never, Typed
    <2> QED BY <2>1, <2>2, <2>3 DEF Inv, Spaced
  <1> QED BY <1>6, <1>7, <1>8, <1>9, <1>10, <1>11 DEF Inv

\* The proxy's part: the router latch follows the message it puts into
\* messages_global, and only a plugin seen missing past the cooldown leads to a heal.
LEMMA ProxyKeeps == Inv /\ Proxy => Inv'
  <1> SUFFICES ASSUME Inv, Proxy PROVE Inv' OBVIOUS
  <1> USE AlertsAssumption
  <1>0. Typed BY DEF Inv
  <1>1. PICK serving \in Reading(routersOk), loaded \in Reading(plugin) :
       LET heal == ShouldHealPlugin(loaded) IN
       /\ tick' = [tick EXCEPT
            !.broken = serving = "no" \/ loaded = "no",
            !.latch = serving = "no" \/ (@ /\ serving = "unknown"),
            !.healAge = IF heal THEN 0
                        ELSE IF loaded = "no" THEN proxy.healAge ELSE Never]
       /\ globalMail' = IF serving = "no" /\ ~tick.latch THEN <<"routers">>
                        ELSE IF serving = "yes" /\ tick.latch THEN <<"routersOk">>
                        ELSE <<>>
       /\ since' = since \cup (IF loaded = "unknown" THEN {"unseen"} ELSE {})
       /\ pc' = IF heal THEN "heal" ELSE "look"
    BY DEF Proxy
  <1> DEFINE heal == ShouldHealPlugin(loaded)
             age == IF heal THEN 0 ELSE IF loaded = "no" THEN proxy.healAge ELSE Never
             latch == serving = "no" \/ (tick.latch /\ serving = "unknown")
  <1>2. /\ tick \in TickRecords /\ proxy.healAge \in 0 .. Never /\ plugin \in BOOLEAN
        /\ proxy.alerted \in BOOLEAN /\ tick.latch \in BOOLEAN
    BY <1>0 DEF Typed, ProxyRecords, TickRecords
  <1>3. age \in 0 .. Never /\ latch \in BOOLEAN /\ heal \in BOOLEAN
    BY <1>2 DEF Never, ShouldHealPlugin
  <1>4. /\ tick' \in TickRecords /\ tick'.row = tick.row /\ tick'.err = tick.err
        /\ tick'.owes = tick.owes /\ tick'.latch = latch /\ tick'.healAge = age
    BY <1>1, <1>2, <1>3 DEF TickRecords
  <1>5. /\ pc = "proxy" /\ UNCHANGED <<world, kept, mail, faults, told, absent, counted,
                    reported, sinceHeal, torn, late>>
    BY DEF Proxy
  <1>6. pc' = IF heal THEN "heal" ELSE "look" BY <1>1
  <1>7. /\ globalMail' \in Seq(ProxyMessages) /\ Once(globalMail')
        /\ Holds(globalMail, "routers")' <=> (serving = "no" /\ ~tick.latch)
        /\ Holds(globalMail, "routersOk")' <=> (serving = "yes" /\ tick.latch)
        /\ ~Holds(globalMail, "healed")'
    <2>1. CASE serving = "no" /\ ~tick.latch
      BY <1>1, <2>1, HoldsOne DEF ProxyMessages
    <2>2. CASE serving = "yes" /\ tick.latch
      BY <1>1, <2>2, HoldsOne DEF ProxyMessages
    <2>3. CASE ~(serving = "no" /\ ~tick.latch) /\ ~(serving = "yes" /\ tick.latch)
      <3>1. globalMail' = <<>> BY <1>1, <2>3
      <3> QED BY <3>1, <2>3, HoldsNone DEF Once
    <2> QED BY <2>1, <2>2, <2>3
  <1>8. /\ serving \in {"yes", "no", "unknown"}
        /\ loaded \in {"yes", "no", "unknown"} /\ (loaded = "yes" => plugin)
        /\ since' = since \cup (IF loaded = "unknown" THEN {"unseen"} ELSE {})
    BY <1>1, <1>2 DEF Reading
  <1>9. loaded = "no" => (heal <=> proxy.healAge \in {HealCooldown, Never})
    BY DEF ShouldHealPlugin
  <1>10. heal => loaded = "no" BY DEF ShouldHealPlugin
  <1> HIDE DEF heal, latch
  <1>11. Typed' BY <1>0, <1>4, <1>5, <1>6, <1>7, <1>8 DEF Typed, world, kept
  <1>12. InOrder' BY <1>4, <1>5, <1>6, <1>7 DEF Inv, InOrder, Before, kept
  <1>13. Debounced' BY <1>4, <1>5, <1>6 DEF Inv, Debounced, kept
  <1>14. Told'
    <2>1. ~torn => Latched("routers", "routersOk", globalMail, "routers", tick.latch)'
      BY <1>2, <1>4, <1>5, <1>7, <1>8 DEF Inv, Told, InOrder, kept, Latched, latch
    <2> QED BY <2>1, <1>4, <1>5, <1>6 DEF Inv, Told, kept
  <1>15. Counted' BY <1>4, <1>5, <1>6 DEF Inv, Counted, kept, world, Before
  <1>16. Spaced'
    <2>1. (since = {} => ~plugin) /\ (since' = {} => since = {} /\ loaded # "unknown")
      BY <1>8 DEF Inv, Spaced
    <2>2. since' = {} => loaded = "no" BY <2>1, <1>8
    <2>3. tick.owes = {} BY <1>5 DEF Inv, InOrder
    <2>4. ~torn /\ since' = {} => Aged(proxy.healAge)
      BY <2>1, <2>3, <1>5 DEF Inv, Spaced
    <2>5. ~torn /\ since' = {} /\ ~heal => Aged(age)
      BY <2>2, <2>4, <1>5
    <2>6. heal => age = 0 OBVIOUS
    <2>7. /\ torn' = torn /\ plugin' = plugin /\ proxy' = proxy /\ sinceHeal' = sinceHeal
      BY <1>5 DEF kept, world
    <2>8. ~torn /\ since' = {} /\ heal => sinceHeal >= HealCooldown
      BY <2>2, <2>4, <1>0, <1>2, <1>9 DEF Aged, Never, Typed
    <2> QED BY <2>1, <2>3, <2>4, <2>5, <2>6, <2>7, <2>8, <1>4, <1>6 DEF Spaced, Aged
  <1> QED BY <1>11, <1>12, <1>13, <1>14, <1>15, <1>16 DEF Inv
\* The restart: the cooldown starts again, in the history as in the check.
LEMMA HealKeeps == Inv /\ Heal => Inv'
  <1> SUFFICES ASSUME Inv, Heal PROVE Inv' OBVIOUS
  <1> USE AlertsAssumption
  <1>0. Typed BY DEF Inv
  <1>1. /\ pc = "heal" /\ pc' = "look" /\ plugin' \in BOOLEAN
        /\ globalMail' = Append(globalMail, "healed")
        /\ sinceHeal' = 0 /\ since' = IF plugin' THEN {"loaded"} ELSE {}
        /\ UNCHANGED <<sleeps, box, reach, routersOk, hour, errors, row, proxy, mail,
                 faults, told, absent, counted, reported, torn, late>>
    BY DEF Heal, kept
  <1>2. /\ tick' \in TickRecords /\ tick'.row = tick.row /\ tick'.err = tick.err
        /\ tick'.owes = tick.owes \cup {"proxy"} /\ tick'.latch = tick.latch
        /\ tick'.healAge = tick.healAge
    BY <1>0 DEF Heal, Typed, TickRecords
  <1>3. /\ globalMail' \in Seq(ProxyMessages) /\ Once(globalMail')
        /\ \A m \in {"routers", "routersOk"} : Holds(globalMail, m)' <=> Holds(globalMail, m)
    <2>1. Once(<<"healed">>) /\ \A m : Holds(<<"healed">>, m) <=> m = "healed"
      BY HoldsOne
    <2>2. <<"healed">> \in Seq(ProxyMessages) BY DEF ProxyMessages
    <2>3. globalMail \in Seq(ProxyMessages) /\ Once(globalMail)
      BY <1>0 DEF Typed
    <2>4. \A m : ~(Holds(globalMail, m) /\ Holds(<<"healed">>, m))
      BY <1>1, <2>1 DEF Inv, InOrder
    <2>5. globalMail' = globalMail \o <<"healed">>
      BY <1>1, <2>3, AppendIsConcat
    <2>6. /\ globalMail \o <<"healed">> \in Seq(ProxyMessages)
          /\ Once(globalMail \o <<"healed">>)
          /\ \A m : Holds(globalMail \o <<"healed">>, m)
                    <=> Holds(globalMail, m) \/ Holds(<<"healed">>, m)
      BY <2>1, <2>2, <2>3, <2>4, HoldsJoin
    <2> QED BY <2>1, <2>5, <2>6
  <1>4. Typed' BY <1>0, <1>1, <1>2, <1>3 DEF Typed
  <1>5. InOrder' BY <1>1, <1>2 DEF Inv, InOrder, Before
  <1>6. Debounced' BY <1>1, <1>2 DEF Inv, Debounced
  <1>7. Told' BY <1>1, <1>2, <1>3 DEF Inv, Told, Latched
  <1>8. Counted' BY <1>1, <1>2 DEF Inv, Counted, Before
  <1>9. Spaced' BY <1>0, <1>1, <1>2 DEF Inv, Spaced, Aged, Never, Typed
  <1> QED BY <1>4, <1>5, <1>6, <1>7, <1>8, <1>9 DEF Inv

\* docker ps: a look that found nothing counts in the history as it will in the row.
LEMMA LookKeeps == Inv /\ Look => Inv'
  <1> SUFFICES ASSUME Inv, Look PROVE Inv' OBVIOUS
  <1> USE AlertsAssumption
  <1>0. Typed BY DEF Inv
  <1>1. /\ pc = "look" /\ pc' = "check"
        /\ UNCHANGED <<world, row, proxy, mail, globalMail, faults, told, counted,
                 reported, sinceHeal, since, torn, late>>
    BY DEF Look, kept
  <1>2. PICK found \in {box # "none"} \cup (IF DockerMayFail THEN {FALSE} ELSE {}),
             idle \in {FALSE, "idle" \in Varies} :
       /\ tick' = [tick EXCEPT !.running = (box = "up" /\ found), !.found = found,
                               !.idle = (box = "up" /\ found /\ idle)]
       /\ absent' = IF found THEN absent ELSE Cap(absent + 1, DownAfter)
    BY DEF Look
  <1>3. found \in BOOLEAN OBVIOUS
  <1>4. /\ tick' \in TickRecords /\ tick'.row = tick.row /\ tick'.err = tick.err
        /\ tick'.owes = tick.owes /\ tick'.latch = tick.latch
        /\ tick'.healAge = tick.healAge /\ tick'.found = found
    <2> DEFINE running == box = "up" /\ found
               i == box = "up" /\ found /\ idle
    <2>1. running \in BOOLEAN /\ i \in BOOLEAN OBVIOUS
    <2>2. tick' = [tick EXCEPT !.running = running, !.found = found, !.idle = i]
      BY <1>2
    <2> HIDE DEF running, i
    <2> QED BY <1>0, <1>3, <2>1, <2>2 DEF Typed, TickRecords
  <1>5. tick.row = row /\ row.missing \in 0 .. DownAfter /\ absent \in 0 .. DownAfter
    BY <1>0, <1>1 DEF Inv, InOrder, Before, Typed, RowRecords
  <1>6. absent' \in 0 .. DownAfter /\ absent <= absent'
        /\ (~found => absent' = Cap(absent + 1, DownAfter))
    BY <1>2, <1>5 DEF Cap
  <1>7. Typed' BY <1>0, <1>1, <1>4, <1>6 DEF Typed, world
  <1>8. InOrder' BY <1>1, <1>4 DEF Inv, InOrder, Before
  <1>9. Debounced' BY <1>1, <1>4, <1>5, <1>6 DEF Inv, Debounced, Cap
  <1>10. Told' BY <1>1, <1>4 DEF Inv, Told, Latched
  <1>11. Counted' BY <1>1, <1>4 DEF Inv, Counted, Before, world
  <1>12. Spaced' BY <1>1, <1>4 DEF Inv, Spaced, Aged, world
  <1> QED BY <1>7, <1>8, <1>9, <1>10, <1>11, <1>12 DEF Inv

\* A message about the app goes out, and the reader catches up with the latch.
LEMMA SendKeeps == Inv /\ Send => Inv'
  <1> SUFFICES ASSUME Inv, Send PROVE Inv' OBVIOUS
  <1> USE AlertsAssumption
  <1>0. Typed BY DEF Inv
  <1> DEFINE h == Head(mail)
  <1>1. /\ pc = "send" /\ pc' = "send" /\ mail # <<>>
        /\ mail' = Tail(mail) /\ told' = After(h)
        /\ reported' = reported + (IF h = "errors" THEN tick.delta ELSE 0)
        /\ UNCHANGED <<world, row, proxy, globalMail, faults, absent, counted, sinceHeal,
                 since, torn, late>>
    BY DEF Send, kept
  <1>2. /\ tick' \in TickRecords /\ tick'.row = tick.row /\ tick'.err = tick.err
        /\ tick'.owes = tick.owes \cup {"row"} /\ tick'.latch = tick.latch
        /\ tick'.healAge = tick.healAge /\ tick'.found = tick.found
        /\ tick'.delta = tick.delta /\ tick'.sleeps = tick.sleeps
    BY <1>0 DEF Send, Typed, TickRecords
  <1>3. /\ mail' \in Seq(AppMessages) /\ Once(mail')
        /\ h \in AppMessages /\ Holds(mail, h)
        /\ \A m : Holds(mail, m)' <=> Holds(mail, m) /\ m # h
    <2>1. mail \in Seq(AppMessages) /\ Once(mail) BY <1>0 DEF Typed
    <2> QED BY <1>1, <2>1, HoldsRest
  <1>4. /\ told' \subseteq {"missing", "unreachable", "routers"}
        /\ "routers" \in told' <=> "routers" \in told
        /\ "missing" \in told' <=> h = "missing" \/ ("missing" \in told /\ h # "back")
        /\ "unreachable" \in told' <=> h = "unreachable" \/ ("unreachable" \in told /\ h # "serving")
    BY <1>0, <1>1, <1>3 DEF After, Typed, AppMessages
  <1>5. tick.delta \in Nat /\ tick.err \in Nat /\ reported \in Nat /\ reported' \in Nat
    BY <1>0, <1>1 DEF Typed, TickRecords
  <1> HIDE DEF h
  <1>6. Typed' BY <1>0, <1>1, <1>2, <1>3, <1>4, <1>5 DEF Typed, world
  <1>7. InOrder' BY <1>1, <1>2 DEF Inv, InOrder, Before
  <1>8. Debounced' BY <1>1, <1>2, <1>3 DEF Inv, Debounced
  <1>9. Told'
    <2>1. "row" \in tick'.owes BY <1>2
    <2>2. ~torn => Latched("routers", "routersOk", globalMail, "routers", tick.latch)'
      BY <1>1, <1>2, <1>4 DEF Inv, Told, Latched
    <2>3. ~torn => Latched("unreachable", "serving", mail, "unreachable",
                           tick.row.alertedUnreachable)'
      BY <1>1, <1>2, <1>3, <1>4 DEF Inv, Told, Latched
    <2>4. ~torn /\ tick.sleeps =>
            Latched("missing", "back", mail, "missing", tick.row.alertedMissing)'
      BY <1>1, <1>2, <1>3, <1>4 DEF Inv, Told, Latched
    <2>5. ~torn /\ ~tick.sleeps =>
            ~Holds(mail, "missing")' /\ ~Holds(mail, "back")' /\ ~tick'.row.alertedMissing
      BY <1>1, <1>2, <1>3 DEF Inv, Told
    <2> QED BY <2>1, <2>2, <2>3, <2>4, <2>5, <1>1, <1>2, <1>4 DEF Inv, Told
  <1>10. Counted'
    <2>1. CASE h = "errors"
      BY <2>1, <1>0, <1>1, <1>2, <1>3, <1>5 DEF Inv, Counted, Before, world, Typed
    <2>2. CASE h # "errors"
      BY <2>2, <1>0, <1>1, <1>2, <1>3, <1>5 DEF Inv, Counted, Before, world, Typed
    <2> QED BY <2>1, <2>2
  <1>11. Spaced' BY <1>1, <1>2 DEF Inv, Spaced, Aged, world
  <1> QED BY <1>6, <1>7, <1>8, <1>9, <1>10, <1>11 DEF Inv

\* The app's row is written when its messages are out.
LEMMA WriteKeeps == Inv /\ Write => Inv'
  <1> SUFFICES ASSUME Inv, Write PROVE Inv' OBVIOUS
  <1> USE AlertsAssumption
  <1>0. Typed BY DEF Inv
  <1>1. /\ pc = "send" /\ pc' = "global" /\ mail = <<>> /\ mail' = <<>>
        /\ told' = (IF tick.sleeps THEN told ELSE told \ {"missing"})
        /\ absent' = (IF tick.found THEN 0 ELSE absent)
        /\ UNCHANGED <<world, proxy, globalMail, faults, counted, reported,
                 sinceHeal, since, torn, late>>
    BY DEF Write
  <1>2. /\ tick' \in TickRecords /\ tick'.row = tick.row /\ tick'.err = tick.err
        /\ tick'.owes = tick.owes \ {"row"} /\ tick'.latch = tick.latch
        /\ tick'.healAge = tick.healAge
    BY <1>0 DEF Write, Typed, TickRecords
  <1>3. /\ row' \in RowRecords /\ row'.missing = tick.row.missing
        /\ row'.alertedMissing = tick.row.alertedMissing
        /\ row'.alertedUnreachable = tick.row.alertedUnreachable
        /\ row'.errToday = TRUE /\ row'.err = tick.row.err
        /\ row'.missing \in 0 .. DownAfter
    <2>1. tick.row \in RowRecords BY <1>0 DEF Typed, TickRecords
    <2> QED BY <2>1 DEF Write, RowRecords
  <1>4. \A m : ~Holds(mail, m) BY <1>1, HoldsNone
  <1>5. Typed' BY <1>0, <1>1, <1>2, <1>3 DEF Typed, world
  <1>6. InOrder' BY <1>1, <1>2 DEF Inv, InOrder, Before
  <1>7. Debounced' BY <1>0, <1>1, <1>3 DEF Inv, Debounced, Typed
  <1>8. Told'
    <2>1. ~torn => ("missing" \in told' <=> row'.alertedMissing)
                   /\ ("unreachable" \in told' <=> row'.alertedUnreachable)
      BY <1>1, <1>3, <1>4 DEF Inv, Told, Latched
    <2> QED BY <2>1, <1>1, <1>2 DEF Inv, Told, Latched
  <1>9. Counted'
    <2>1. tick'.err = tick.err /\ errors' = errors /\ ~Holds(mail, "errors")
      BY <1>1, <1>2, <1>4 DEF world
    <2>2. ~torn /\ ~late => tick.row.err = tick.err /\ tick.err <= errors
                           /\ reported + errors + 0 <= counted + tick.err
      BY <1>1, <2>1 DEF Inv, Counted
    <2>3. ~torn /\ ~late => Base(row)' = tick.err
      BY <1>3, <2>2 DEF Base
    <2>4. reported + errors + 0 = reported + errors BY <1>0 DEF Typed
    <2> QED BY <1>1, <2>1, <2>2, <2>3, <2>4 DEF Counted, Before
  <1>10. Spaced' BY <1>1, <1>2 DEF Inv, Spaced, Aged, world
  <1> QED BY <1>5, <1>6, <1>7, <1>8, <1>9, <1>10 DEF Inv

\* A message about the proxy goes out.
LEMMA SendGlobalKeeps == Inv /\ SendGlobal => Inv'
  <1> SUFFICES ASSUME Inv, SendGlobal PROVE Inv' OBVIOUS
  <1> USE AlertsAssumption
  <1>0. Typed BY DEF Inv
  <1> DEFINE h == Head(globalMail)
  <1>1. /\ pc = "global" /\ pc' = "global" /\ globalMail # <<>>
        /\ globalMail' = Tail(globalMail) /\ told' = After(h)
        /\ UNCHANGED <<world, row, proxy, mail, faults, absent, counted, reported, sinceHeal,
                 since, torn, late>>
    BY DEF SendGlobal, kept
  <1>2. /\ tick' \in TickRecords /\ tick'.row = tick.row /\ tick'.err = tick.err
        /\ tick'.owes = tick.owes \cup {"proxy"} /\ tick'.latch = tick.latch
        /\ tick'.healAge = tick.healAge
    BY <1>0 DEF SendGlobal, Typed, TickRecords
  <1>3. /\ globalMail' \in Seq(ProxyMessages) /\ Once(globalMail')
        /\ h \in ProxyMessages /\ Holds(globalMail, h)
        /\ \A m : Holds(globalMail, m)' <=> Holds(globalMail, m) /\ m # h
    <2>1. globalMail \in Seq(ProxyMessages) /\ Once(globalMail) BY <1>0 DEF Typed
    <2> QED BY <1>1, <2>1, HoldsRest
  <1>4. /\ told' \subseteq {"missing", "unreachable", "routers"}
        /\ "missing" \in told' <=> "missing" \in told
        /\ "unreachable" \in told' <=> "unreachable" \in told
        /\ "routers" \in told' <=> h = "routers" \/ ("routers" \in told /\ h # "routersOk")
    BY <1>0, <1>1, <1>3 DEF After, Typed, ProxyMessages
  <1> HIDE DEF h
  <1>5. Typed' BY <1>0, <1>1, <1>2, <1>3, <1>4 DEF Typed, world
  <1>6. InOrder' BY <1>1, <1>2 DEF Inv, InOrder, Before
  <1>7. Debounced' BY <1>1 DEF Inv, Debounced
  <1>8. Told'
    <2>1. ~torn => Latched("routers", "routersOk", globalMail, "routers", tick.latch)'
      BY <1>1, <1>2, <1>3, <1>4 DEF Inv, Told, Latched
    <2> QED BY <2>1, <1>1, <1>2, <1>4 DEF Inv, Told
  <1>9. Counted' BY <1>1, <1>2 DEF Inv, Counted, Before, world
  <1>10. Spaced' BY <1>1, <1>2 DEF Inv, Spaced, Aged, world
  <1> QED BY <1>5, <1>6, <1>7, <1>8, <1>9, <1>10 DEF Inv

\* The proxy's row is written, and the check is over.
LEMMA WriteGlobalKeeps == Inv /\ WriteGlobal => Inv'
  <1> SUFFICES ASSUME Inv, WriteGlobal PROVE Inv' OBVIOUS
  <1> USE AlertsAssumption
  <1>0. Typed BY DEF Inv
  <1>1. /\ pc = "global" /\ pc' = "idle" /\ globalMail = <<>> /\ globalMail' = <<>>
        /\ tick' = NoTick
        /\ proxy' = [alerted |-> tick.latch, healAge |-> tick.healAge]
        /\ UNCHANGED <<world, row, mail, faults, hist>>
    BY DEF WriteGlobal
  <1>2. tick' \in TickRecords /\ tick'.owes = {} /\ tick'.err = 0
    BY <1>1, Records DEF NoTick
  <1>3. proxy' \in ProxyRecords /\ proxy'.alerted = tick.latch /\ proxy'.healAge = tick.healAge
    BY <1>0, <1>1 DEF Typed, ProxyRecords, TickRecords
  <1>4. \A m : ~Holds(globalMail, m) BY <1>1, HoldsNone
  <1>5. Typed' BY <1>0, <1>1, <1>2, <1>3 DEF Typed, world, hist
  <1>6. InOrder' BY <1>1, <1>2 DEF Inv, InOrder, Before
  <1>7. Debounced' BY <1>1 DEF Inv, Debounced, hist
  <1>8. Told' BY <1>1, <1>2, <1>3, <1>4 DEF Inv, Told, InOrder, Latched, hist
  <1>9. Counted' BY <1>0, <1>1, <1>2 DEF Inv, Counted, InOrder, Before, world, hist, Typed
  <1>10. Spaced' BY <1>1, <1>2, <1>3 DEF Inv, Spaced, Aged, world, hist
  <1> QED BY <1>5, <1>6, <1>7, <1>8, <1>9, <1>10 DEF Inv

\* A check cut short leaves the rows as they were: they are torn from what was told
\* only if a message had gone out.
LEMMA AbortKeeps == Inv /\ Abort => Inv'
  <1> SUFFICES ASSUME Inv, Abort PROVE Inv' OBVIOUS
  <1> USE AlertsAssumption
  <1>0. Typed BY DEF Inv
  <1>1. /\ pc # "idle" /\ faults < MaxFaults /\ faults' = faults + 1
        /\ torn' = (torn \/ tick.owes # {})
        /\ pc' = "idle" /\ tick' = NoTick /\ mail' = <<>> /\ globalMail' = <<>>
        /\ UNCHANGED <<world, row, proxy, told, absent, counted, reported, sinceHeal, since,
                 late>>
    BY DEF Abort, kept
  <1>2. tick' \in TickRecords /\ tick'.owes = {} /\ tick'.err = 0
    BY <1>1, Records DEF NoTick
  <1>3. ~torn' => ~torn /\ tick.owes = {} BY <1>1
  <1>4. Once(<<>>) /\ <<>> \in Seq(AppMessages) /\ <<>> \in Seq(ProxyMessages) BY DEF Once
  <1>5. faults' \in 0 .. MaxFaults /\ torn' \in BOOLEAN BY <1>0, <1>1 DEF Typed
  <1>6. Typed' BY <1>0, <1>1, <1>2, <1>4, <1>5 DEF Typed, world
  <1>7. InOrder' BY <1>1, <1>2 DEF InOrder, Before
  <1>8. Debounced' BY <1>1 DEF Inv, Debounced
  <1>9. Told' BY <1>1, <1>2, <1>3 DEF Inv, Told
  <1>10. Counted' BY <1>0, <1>1, <1>2, <1>3 DEF Inv, Counted, Before, world, Typed
  <1>11. Spaced' BY <1>1, <1>2, <1>3 DEF Inv, Spaced, Aged, world
  <1> QED BY <1>6, <1>7, <1>8, <1>9, <1>10, <1>11 DEF Inv
\* A message that is in its list or not.
LEMMA OneOrNone ==
  ASSUME NEW m \in AppMessages, NEW p \in BOOLEAN, NEW s, s = IF p THEN <<m>> ELSE <<>>
  PROVE  /\ s \in Seq(AppMessages) /\ Once(s)
         /\ \A x : Holds(s, x) <=> p /\ x = m
  <1>1. CASE p BY <1>1, HoldsOne
  <1>2. CASE ~p
    <2>1. s = <<>> BY <1>2
    <2> QED BY <1>2, <2>1, HoldsNone DEF Once
  <1> QED BY <1>1, <1>2

\* What missing_container_decision owes its caller: an alarm only after DownAfter
\* looks without a container and over an open latch, an all-clear only over a
\* closed one, a latch that moves with them, a counter that starts again with a
\* container; and nothing at all for an app that does not sleep.
MissingVerdict(gone, found, prev, slp) ==
  /\ gone.msgs \in Seq(AppMessages) /\ Once(gone.msgs)
  /\ \A m : Holds(gone.msgs, m) => m \in {"missing", "back"}
  /\ gone.count \in 0 .. DownAfter /\ gone.latch \in BOOLEAN
  /\ found => gone.count = 0
  /\ ~found => gone.count = Cap(prev.missing + 1, DownAfter)
  /\ Holds(gone.msgs, "missing") =>
       ~found /\ gone.count = DownAfter /\ ~prev.alertedMissing /\ gone.latch
  /\ Holds(gone.msgs, "back") => prev.alertedMissing /\ ~gone.latch
  /\ IF slp
     THEN ~Holds(gone.msgs, "missing") /\ ~Holds(gone.msgs, "back")
            => (prev.alertedMissing <=> gone.latch)
     ELSE gone.msgs = <<>> /\ ~gone.latch

\* missing_container_decision does so.
LEMMA MissingAnswers ==
  ASSUME NEW found \in BOOLEAN, NEW prev \in RowRecords, NEW slp \in BOOLEAN
  PROVE  MissingVerdict(MissingContainer(found, prev, slp), found, prev, slp)
  <1> DEFINE gone == MissingContainer(found, prev, slp)
  <1> SUFFICES MissingVerdict(gone, found, prev, slp) OBVIOUS
  <1> USE AlertsAssumption
  <1> DEFINE count == IF found THEN 0 ELSE Cap(prev.missing + 1, DownAfter)
             alarm == slp /\ prev.known /\ ~found /\ count >= DownAfter /\ ~prev.alertedMissing
             back == slp /\ prev.known /\ found /\ prev.alertedMissing
  <1>1. /\ gone.msgs = IF alarm THEN <<"missing">> ELSE IF back THEN <<"back">> ELSE <<>>
        /\ gone.count = count
        /\ gone.latch = (slp /\ (alarm \/ (prev.alertedMissing /\ ~back)))
    BY DEF MissingContainer
  <1>2. /\ prev.missing \in 0 .. DownAfter /\ prev.known \in BOOLEAN
        /\ prev.alertedMissing \in BOOLEAN
    BY DEF RowRecords
  <1>3. count \in 0 .. DownAfter BY <1>2 DEF Cap
  <1>4. alarm => ~found /\ count = DownAfter /\ ~prev.alertedMissing /\ slp /\ ~back
    BY <1>2, <1>3
  <1>5. back => found /\ prev.alertedMissing /\ slp /\ ~alarm OBVIOUS
  <1>6. /\ found => count = 0
        /\ ~found => count = Cap(prev.missing + 1, DownAfter)
    OBVIOUS
  <1>7. gone.latch \in BOOLEAN BY <1>1, <1>2
  <1> HIDE DEF gone, count, alarm, back
  <1>8. CASE alarm
    <2>1. gone.msgs = <<"missing">> /\ gone.latch BY <1>1, <1>4, <1>8
    <2>2. /\ gone.msgs \in Seq(AppMessages) /\ Once(gone.msgs)
          /\ \A m : Holds(gone.msgs, m) <=> m = "missing"
      BY <2>1, HoldsOne DEF AppMessages
    <2> QED BY <2>1, <2>2, <1>1, <1>2, <1>3, <1>4, <1>6, <1>7, <1>8 DEF MissingVerdict
  <1>9. CASE back
    <2>1. gone.msgs = <<"back">> /\ ~gone.latch BY <1>1, <1>5, <1>9
    <2>2. /\ gone.msgs \in Seq(AppMessages) /\ Once(gone.msgs)
          /\ \A m : Holds(gone.msgs, m) <=> m = "back"
      BY <2>1, HoldsOne DEF AppMessages
    <2> QED BY <2>1, <2>2, <1>1, <1>2, <1>3, <1>5, <1>6, <1>7, <1>9 DEF MissingVerdict
  <1>10. CASE ~alarm /\ ~back
    <2>1. gone.msgs = <<>> /\ gone.latch = (slp /\ prev.alertedMissing)
      BY <1>1, <1>2, <1>10
    <2>2. gone.msgs \in Seq(AppMessages) /\ Once(gone.msgs) /\ \A m : ~Holds(gone.msgs, m)
      BY <2>1, HoldsNone DEF Once
    <2> QED BY <2>1, <2>2, <1>1, <1>2, <1>3, <1>6, <1>7 DEF MissingVerdict
  <1> QED BY <1>8, <1>9, <1>10

\* reachability_decision, or no probe at all: the latch moves with the message.
LEMMA ReachAnswers ==
  ASSUME NEW serving \in BOOLEAN, NEW alerted \in BOOLEAN,
         NEW probe, \/ probe = Reachability(serving, alerted)
                    \/ probe = [msgs |-> <<>>, latch |-> alerted]
  PROVE  /\ probe.msgs \in Seq(AppMessages) /\ Once(probe.msgs)
         /\ \A m : Holds(probe.msgs, m) => m \in {"unreachable", "serving"}
         /\ probe.latch \in BOOLEAN
         /\ Holds(probe.msgs, "unreachable") => ~alerted /\ probe.latch
         /\ Holds(probe.msgs, "serving") => alerted /\ ~probe.latch
         /\ ~Holds(probe.msgs, "unreachable") /\ ~Holds(probe.msgs, "serving")
              => (alerted <=> probe.latch)
  <1>1. CASE probe = Reachability(serving, alerted)
    <2>1. /\ probe.msgs = IF ~serving /\ ~alerted THEN <<"unreachable">>
                          ELSE IF serving /\ alerted THEN <<"serving">> ELSE <<>>
          /\ probe.latch = ~serving
      BY <1>1 DEF Reachability
    <2>2. CASE ~serving /\ ~alerted
      <3>1. probe.msgs = <<"unreachable">> /\ probe.latch BY <2>1, <2>2
      <3>2. /\ probe.msgs \in Seq(AppMessages) /\ Once(probe.msgs)
            /\ \A m : Holds(probe.msgs, m) <=> m = "unreachable"
        BY <3>1, HoldsOne DEF AppMessages
      <3> QED BY <2>1, <2>2, <3>1, <3>2
    <2>3. CASE serving /\ alerted
      <3>1. probe.msgs = <<"serving">> /\ ~probe.latch BY <2>1, <2>3
      <3>2. /\ probe.msgs \in Seq(AppMessages) /\ Once(probe.msgs)
            /\ \A m : Holds(probe.msgs, m) <=> m = "serving"
        BY <3>1, HoldsOne DEF AppMessages
      <3> QED BY <2>1, <2>3, <3>1, <3>2
    <2>4. CASE (serving /\ ~alerted) \/ (~serving /\ alerted)
      <3>1. probe.msgs = <<>> BY <2>1, <2>4
      <3> QED BY <2>1, <2>4, <3>1, HoldsNone DEF Once
    <2> QED BY <2>2, <2>3, <2>4
  <1>2. CASE probe = [msgs |-> <<>>, latch |-> alerted]
    <2>1. probe.msgs = <<>> /\ probe.latch = alerted BY <1>2
    <2> QED BY <2>1, HoldsNone DEF Once
  <1> QED BY <1>1, <1>2

\* The loop over apps: the four parts make up messages and the row to be written.
LEMMA CheckKeeps == Inv /\ Check => Inv'
  <1> SUFFICES ASSUME Inv, Check PROVE Inv' OBVIOUS
  <1> USE AlertsAssumption
  <1>0. Typed BY DEF Inv
  <1> DEFINE prev  == tick.row
             gone  == MissingContainer(tick.found, prev, tick.sleeps)
             probe == IF DueForProbe THEN Reachability(reach, prev.alertedUnreachable)
                      ELSE [msgs |-> <<>>, latch |-> prev.alertedUnreachable]
             delta == NewErrors(prev, tick.err)
             b == IF Stuck /\ ~prev.alertedStuck THEN <<"stuck">> ELSE <<>>
             d == IF delta >= Threshold THEN <<"errors">> ELSE <<>>
             r == [known |-> TRUE,
                   alertedStuck |-> Stuck,
                   missing |-> gone.count, alertedMissing |-> gone.latch,
                   probedToday |-> IF DueForProbe THEN tick.today ELSE prev.probedToday,
                   alertedUnreachable |-> probe.latch,
                   errToday |-> TRUE, err |-> tick.err]
  <1>1. /\ mail' = gone.msgs \o b \o probe.msgs \o d
        /\ tick' = [tick EXCEPT !.delta = delta, !.row = r]
        /\ pc = "check" /\ pc' = "send"
        /\ UNCHANGED <<world, row, proxy, globalMail, faults, hist>>
    BY DEF Check, kept
  <1>2. /\ tick \in TickRecords /\ prev \in RowRecords /\ tick.found \in BOOLEAN
        /\ tick.sleeps \in BOOLEAN /\ reach \in BOOLEAN /\ tick.err \in 0 .. MaxErrors
        /\ prev.alertedUnreachable \in BOOLEAN /\ tick.today \in BOOLEAN
        /\ prev.probedToday \in BOOLEAN /\ prev.alertedStuck \in BOOLEAN
        /\ tick.running \in BOOLEAN /\ tick.idle \in BOOLEAN
        /\ prev.err \in 0 .. MaxErrors /\ prev.errToday \in BOOLEAN
        /\ prev.known \in BOOLEAN /\ prev.missing \in 0 .. DownAfter
    BY <1>0 DEF Typed, TickRecords, RowRecords
  <1>3. /\ gone.msgs \in Seq(AppMessages) /\ Once(gone.msgs)
        /\ \A m : Holds(gone.msgs, m) => m \in {"missing", "back"}
        /\ gone.count \in 0 .. DownAfter /\ gone.latch \in BOOLEAN
        /\ tick.found => gone.count = 0
        /\ ~tick.found => gone.count = Cap(prev.missing + 1, DownAfter)
        /\ Holds(gone.msgs, "missing") =>
             ~tick.found /\ gone.count = DownAfter /\ ~prev.alertedMissing /\ gone.latch
        /\ Holds(gone.msgs, "back") => prev.alertedMissing /\ ~gone.latch
        /\ IF tick.sleeps
           THEN ~Holds(gone.msgs, "missing") /\ ~Holds(gone.msgs, "back")
                  => (prev.alertedMissing <=> gone.latch)
           ELSE gone.msgs = <<>> /\ ~gone.latch
    <2>1. MissingVerdict(gone, tick.found, prev, tick.sleeps) BY <1>2, MissingAnswers
    <2> HIDE DEF gone
    <2> QED BY <2>1 DEF MissingVerdict
  <1>4. /\ probe.msgs \in Seq(AppMessages) /\ Once(probe.msgs)
        /\ \A m : Holds(probe.msgs, m) => m \in {"unreachable", "serving"}
        /\ probe.latch \in BOOLEAN
        /\ Holds(probe.msgs, "unreachable") => ~prev.alertedUnreachable /\ probe.latch
        /\ Holds(probe.msgs, "serving") => prev.alertedUnreachable /\ ~probe.latch
        /\ ~Holds(probe.msgs, "unreachable") /\ ~Holds(probe.msgs, "serving")
             => (prev.alertedUnreachable <=> probe.latch)
    <2>1. \/ probe = Reachability(reach, prev.alertedUnreachable)
          \/ probe = [msgs |-> <<>>, latch |-> prev.alertedUnreachable]
      OBVIOUS
    <2> HIDE DEF probe
    <2> QED BY <1>2, <2>1, ReachAnswers
  <1>5. Stuck \in BOOLEAN BY <1>2 DEF Stuck
  <1>6. /\ b \in Seq(AppMessages) /\ Once(b)
        /\ \A m : Holds(b, m) => m = "stuck"
    <2> DEFINE p == Stuck /\ ~prev.alertedStuck
    <2>1. "stuck" \in AppMessages /\ p \in BOOLEAN
      BY <1>5 DEF AppMessages
    <2>2. b = IF p THEN <<"stuck">> ELSE <<>> OBVIOUS
    <2> HIDE DEF b, p
    <2> QED BY <2>1, <2>2, OneOrNone
  <1>7. delta \in 0 .. MaxErrors /\ delta + Base(prev) <= IF tick.err > Base(prev) THEN tick.err ELSE Base(prev)
    BY <1>2 DEF NewErrors, Base
  <1>8. /\ d \in Seq(AppMessages) /\ Once(d)
        /\ \A m : Holds(d, m) => m = "errors"
    <2>1. "errors" \in AppMessages /\ (delta >= Threshold) \in BOOLEAN BY DEF AppMessages
    <2> QED BY <2>1, OneOrNone
  <1>9. /\ r \in RowRecords
        /\ r.missing = gone.count /\ r.alertedMissing = gone.latch
        /\ r.alertedUnreachable = probe.latch /\ r.err = tick.err
    <2>1. (IF DueForProbe THEN tick.today ELSE prev.probedToday) \in BOOLEAN BY <1>2
    <2> HIDE DEF gone, probe
    <2> QED BY <1>2, <1>3, <1>4, <1>5, <2>1 DEF RowRecords
  <1> HIDE DEF gone, probe, delta, b, d, r
  <1>10. /\ tick' \in TickRecords /\ tick'.row = r /\ tick'.delta = delta
         /\ tick'.err = tick.err /\ tick'.owes = tick.owes /\ tick'.latch = tick.latch
         /\ tick'.healAge = tick.healAge /\ tick'.found = tick.found
         /\ tick'.sleeps = tick.sleeps
    BY <1>1, <1>2, <1>7, <1>9 DEF TickRecords
  <1>11. /\ mail' \in Seq(AppMessages) /\ Once(mail')
         /\ \A m : Holds(mail, m)' <=> Holds(gone.msgs, m) \/ Holds(b, m)
                                       \/ Holds(probe.msgs, m) \/ Holds(d, m)
    <2> DEFINE s1 == gone.msgs \o b
               s2 == s1 \o probe.msgs
               s3 == s2 \o d
    <2>1. /\ s1 \in Seq(AppMessages) /\ Once(s1)
          /\ \A m : Holds(s1, m) <=> Holds(gone.msgs, m) \/ Holds(b, m)
      <3>1. \A m : ~(Holds(gone.msgs, m) /\ Holds(b, m)) BY <1>3, <1>6
      <3> QED BY <1>3, <1>6, <3>1, HoldsJoin
    <2> HIDE DEF s1
    <2>2. /\ s2 \in Seq(AppMessages) /\ Once(s2)
          /\ \A m : Holds(s2, m) <=> Holds(s1, m) \/ Holds(probe.msgs, m)
      <3>1. \A m : ~(Holds(s1, m) /\ Holds(probe.msgs, m)) BY <1>3, <1>4, <1>6, <2>1
      <3> QED BY <1>4, <2>1, <3>1, HoldsJoin
    <2> HIDE DEF s2
    <2>3. /\ s3 \in Seq(AppMessages) /\ Once(s3)
          /\ \A m : Holds(s3, m) <=> Holds(s2, m) \/ Holds(d, m)
      <3>1. \A m : ~(Holds(s2, m) /\ Holds(d, m)) BY <1>3, <1>4, <1>6, <1>8, <2>1, <2>2
      <3> QED BY <1>8, <2>2, <3>1, HoldsJoin
    <2>4. mail' = s3 BY <1>1 DEF s1, s2, s3
    <2> HIDE DEF s3
    <2> QED BY <2>1, <2>2, <2>3, <2>4
  <1>12. /\ Holds(mail, "missing")' <=> Holds(gone.msgs, "missing")
         /\ Holds(mail, "back")' <=> Holds(gone.msgs, "back")
         /\ Holds(mail, "unreachable")' <=> Holds(probe.msgs, "unreachable")
         /\ Holds(mail, "serving")' <=> Holds(probe.msgs, "serving")
    BY <1>3, <1>4, <1>6, <1>8, <1>11
  <1>13. prev = row /\ "row" \notin tick.owes
    BY <1>1 DEF Inv, InOrder, Before
  <1>14. Typed' BY <1>0, <1>1, <1>10, <1>11 DEF Typed, world, hist
  <1>15. InOrder' BY <1>1, <1>10 DEF Inv, InOrder, Before
  <1>16. Debounced'
    <2>1. row' = row /\ absent' = absent /\ absent \in 0 .. DownAfter
      BY <1>0, <1>1 DEF hist, Typed
    <2>2. tick.found => r.missing = 0 BY <1>3, <1>9
    <2>3. ~tick.found => r.missing <= absent
      BY <1>1, <1>3, <1>9 DEF Inv, Debounced
    <2>4. Holds(mail, "missing")' => absent = DownAfter
      BY <1>3, <1>9, <1>12, <2>1, <2>3
    <2> QED BY <2>1, <2>2, <2>3, <2>4, <1>1, <1>10 DEF Inv, Debounced
  <1>17. Told'
    <2>1. told' = told /\ torn' = torn /\ row' = row /\ proxy' = proxy /\ globalMail' = globalMail
      BY <1>1 DEF hist
    <2>2. ~torn => ("missing" \in told <=> prev.alertedMissing)
                   /\ ("unreachable" \in told <=> prev.alertedUnreachable)
      BY <1>13 DEF Inv, Told
    <2>3. ~torn => Latched("routers", "routersOk", globalMail, "routers", tick.latch)'
      BY <1>1, <1>10, <2>1 DEF Inv, Told, Latched
    <2>4. ~torn => Latched("unreachable", "serving", mail, "unreachable",
                           tick.row.alertedUnreachable)'
      BY <1>4, <1>9, <1>10, <1>12, <2>1, <2>2 DEF Latched
    <2>5. ~torn /\ tick.sleeps =>
            Latched("missing", "back", mail, "missing", tick.row.alertedMissing)'
      BY <1>3, <1>9, <1>10, <1>12, <2>1, <2>2 DEF Latched
    <2>6. ~tick.sleeps =>
            ~Holds(mail, "missing")' /\ ~Holds(mail, "back")' /\ ~tick'.row.alertedMissing
      BY <1>3, <1>9, <1>10, <1>12, HoldsNone
    <2> QED BY <2>1, <2>3, <2>4, <2>5, <2>6, <1>1, <1>10 DEF Inv, Told
  <1>18. Counted'
    <2>1. /\ torn' = torn /\ late' = late /\ errors' = errors /\ row' = row
          /\ counted' = counted /\ reported' = reported
      BY <1>1 DEF hist, world
    <2>2. ~torn /\ ~late => /\ Base(prev) <= tick.err
                            /\ reported + errors <= counted + Base(prev)
      BY <1>1, <1>13 DEF Inv, Counted, Before
    <2>3. errors \in Nat /\ counted \in Nat /\ reported \in Nat /\ Base(prev) \in Nat
          /\ tick.err \in Nat /\ delta \in Nat
      BY <1>0, <1>2, <1>7 DEF Typed, Base
    <2>4. ~torn /\ ~late => reported + errors + delta <= counted + tick.err
                            /\ reported + errors + 0 <= counted + tick.err
      BY <1>7, <2>2, <2>3
    <2> QED BY <2>1, <2>4, <1>1, <1>9, <1>10 DEF Inv, Counted, Before
  <1>19. Spaced' BY <1>1, <1>10 DEF Inv, Spaced, Aged, world, hist
  <1> QED BY <1>14, <1>15, <1>16, <1>17, <1>18, <1>19 DEF Inv
\* What changes around the loop without touching what it keeps or counts.
Outside == ContainerChanges \/ SetSleep \/ ReachChanges \/ RoutersChange
           \/ PluginLost \/ HourPasses

\* None of that disturbs a check.
LEMMA OutsideKeeps == Inv /\ Outside => Inv'
  <1> SUFFICES ASSUME Inv, Outside PROVE Inv' OBVIOUS
  <1> USE AlertsAssumption
  <1>0. Typed BY DEF Inv
  <1>1. /\ UNCHANGED <<errors, counted, row, proxy, pc, tick, mail, globalMail, faults, told,
                      absent, reported, sinceHeal, since, torn, late>>
        /\ sleeps' \in BOOLEAN /\ box' \in {"up", "stopped", "none"} /\ reach' \in BOOLEAN
        /\ routersOk' \in BOOLEAN /\ plugin' \in BOOLEAN /\ (plugin' => plugin)
        /\ hour' \in {"before", "own", "after"}
    <2>1. CASE ContainerChanges BY <1>0, <2>1 DEF ContainerChanges, Elsewhere, kept, local, Typed
    <2>2. CASE SetSleep BY <1>0, <2>2 DEF SetSleep, Elsewhere, kept, local, Typed
    <2>3. CASE ReachChanges BY <1>0, <2>3 DEF ReachChanges, Elsewhere, kept, local, Typed
    <2>4. CASE RoutersChange BY <1>0, <2>4 DEF RoutersChange, Elsewhere, kept, local, Typed
    <2>5. CASE PluginLost BY <1>0, <2>5 DEF PluginLost, Elsewhere, kept, local, Typed
    <2>6. CASE HourPasses BY <1>0, <2>6 DEF HourPasses, Elsewhere, kept, local, Typed
    <2> QED BY <2>1, <2>2, <2>3, <2>4, <2>5, <2>6 DEF Outside
  <1>2. Typed' BY <1>0, <1>1 DEF Typed
  <1>3. InOrder' BY <1>1 DEF Inv, InOrder, Before
  <1>4. Debounced' BY <1>1 DEF Inv, Debounced
  <1>5. Told' BY <1>1 DEF Inv, Told, Latched
  <1>6. Counted' BY <1>1 DEF Inv, Counted, Before
  <1>7. Spaced' BY <1>1 DEF Inv, Spaced, Aged
  <1> QED BY <1>2, <1>3, <1>4, <1>5, <1>6, <1>7 DEF Inv

\* One more 5xx is one more above the baseline.
LEMMA ServerErrorKeeps == Inv /\ ServerError => Inv'
  <1> SUFFICES ASSUME Inv, ServerError PROVE Inv' OBVIOUS
  <1> USE AlertsAssumption
  <1>0. Typed BY DEF Inv
  <1>1. /\ counted < MaxErrors /\ errors' = errors + 1 /\ counted' = counted + 1
        /\ UNCHANGED <<sleeps, box, reach, routersOk, plugin, hour, row, proxy, pc, tick,
                       mail, globalMail, faults, told, absent, reported, sinceHeal, since,
                       torn, late>>
    BY DEF ServerError, Elsewhere, kept, local
  <1>2. Typed' BY <1>0, <1>1 DEF Typed
  <1>3. InOrder' BY <1>1 DEF Inv, InOrder, Before
  <1>4. Debounced' BY <1>1 DEF Inv, Debounced
  <1>5. Told' BY <1>1 DEF Inv, Told, Latched
  <1>6. Counted'
    <2>1. /\ Base(row) \in Nat /\ tick.err \in Nat /\ tick.delta \in Nat
          /\ errors \in Nat /\ counted \in Nat /\ reported \in Nat
      BY <1>0 DEF Typed, RowRecords, TickRecords, Base
    <2>2. Base(row)' = Base(row) BY <1>1
    <2>3. \A n \in Nat : reported + errors + n <= counted + tick.err
                         => reported + errors' + n <= counted' + tick.err
      BY <1>1, <2>1
    <2>4. (IF Holds(mail, "errors") THEN tick.delta ELSE 0) \in Nat BY <2>1
    <2>5. /\ Base(row) <= errors => Base(row) <= errors'
          /\ tick.err <= errors => tick.err <= errors'
          /\ reported + errors <= counted + Base(row)
               => reported + errors' <= counted' + Base(row)
      BY <1>1, <2>1
    <2> QED BY <1>1, <2>2, <2>3, <2>4, <2>5 DEF Inv, Counted, Before
  <1>7. Spaced' BY <1>1 DEF Inv, Spaced, Aged
  <1> QED BY <1>2, <1>3, <1>4, <1>5, <1>6, <1>7 DEF Inv

\* Midnight: the row and the check's copy of it age alike.  The count starts again
\* at nothing, which no check that counted yesterday's is in the middle of (late).
LEMMA MidnightKeeps == Inv /\ Midnight => Inv'
  <1> SUFFICES ASSUME Inv, Midnight PROVE Inv' OBVIOUS
  <1> USE AlertsAssumption
  <1>0. Typed BY DEF Inv
  <1>1. /\ hour' = "before" /\ errors' = 0
        /\ late' = (late \/ (pc # "idle" /\ counted > 0))
        /\ UNCHANGED <<sleeps, box, reach, routersOk, plugin, proxy, pc, mail, globalMail,
                       faults, told, absent, counted, reported, sinceHeal, since, torn>>
    BY DEF Midnight
  <1>2. /\ row' \in RowRecords /\ row'.missing = row.missing
        /\ row'.alertedMissing = row.alertedMissing
        /\ row'.alertedUnreachable = row.alertedUnreachable
        /\ row'.errToday = FALSE /\ row'.err = row.err
    BY <1>0 DEF Midnight, Typed, RowRecords
  <1> DEFINE r == [tick.row EXCEPT !.probedToday = FALSE, !.errToday = FALSE]
  <1>3. tick \in TickRecords /\ tick.row \in RowRecords BY <1>0 DEF Typed, TickRecords
  <1>4. /\ r \in RowRecords /\ r.missing = tick.row.missing
        /\ r.alertedMissing = tick.row.alertedMissing
        /\ r.alertedUnreachable = tick.row.alertedUnreachable
        /\ r.errToday = FALSE /\ r.err = tick.row.err
    BY <1>3 DEF RowRecords
  <1>5. tick' = [tick EXCEPT !.today = FALSE, !.row = r]
    BY <1>3 DEF Midnight, TickRecords, RowRecords
  <1>6. tick.row = row => r = row' BY DEF Midnight
  <1> HIDE DEF r
  <1>7. /\ tick' \in TickRecords /\ tick'.row = r /\ tick'.err = tick.err
        /\ tick'.owes = tick.owes /\ tick'.latch = tick.latch
        /\ tick'.healAge = tick.healAge /\ tick'.found = tick.found
        /\ tick'.sleeps = tick.sleeps /\ tick'.delta = tick.delta
    BY <1>3, <1>4, <1>5 DEF TickRecords
  <1>8. late' \in BOOLEAN /\ (~late' => ~late /\ (pc = "idle" \/ counted = 0))
    <2>1. counted \in Nat /\ late \in BOOLEAN BY <1>0 DEF Typed
    <2>2. late' \in BOOLEAN BY <1>1, <2>1
    <2>3. CASE pc # "idle" /\ counted > 0 BY <1>1, <2>1, <2>2, <2>3
    <2>4. CASE pc = "idle" BY <1>1, <2>1, <2>2, <2>4
    <2>5. CASE counted = 0 BY <1>1, <2>1, <2>2, <2>5
    <2> QED BY <2>1, <2>3, <2>4, <2>5
  <1>9. Typed' BY <1>0, <1>1, <1>2, <1>7, <1>8 DEF Typed
  <1>10. InOrder' BY <1>1, <1>6, <1>7 DEF Inv, InOrder, Before
  <1>11. Debounced' BY <1>1, <1>2, <1>4, <1>7 DEF Inv, Debounced
  <1>12. Told' BY <1>1, <1>2, <1>4, <1>7 DEF Inv, Told, Latched
  <1>13. Counted'
    <2> SUFFICES ASSUME ~torn', ~late' PROVE Counted' BY DEF Counted
    <2>1. ~torn /\ ~late BY <1>1, <1>8
    <2>2. /\ Base(row) \in Nat /\ tick.err \in Nat /\ tick.delta \in Nat
          /\ errors \in 0 .. counted /\ counted \in Nat /\ reported \in Nat
      BY <1>0 DEF Typed, RowRecords, TickRecords, Base
    <2>3. Base(row)' = 0 BY <1>2 DEF Base
    <2>4. Base(row) <= errors /\ tick.err <= errors BY <2>1 DEF Inv, Counted
    <2>5. CASE pc = "idle"
      <3>1. tick.err = 0 /\ "row" \notin tick.owes BY <2>5 DEF Inv, InOrder
      <3>2. reported + errors <= counted + Base(row) BY <2>1, <3>1 DEF Inv, Counted
      <3>3. reported + 0 <= counted + 0 BY <2>2, <2>4, <3>2
      <3> QED BY <1>1, <1>7, <2>3, <2>5, <3>1, <3>3 DEF Counted, Before
    <2>6. CASE counted = 0
      <3>1. errors = 0 /\ tick.err = 0 /\ Base(row) = 0 BY <2>2, <2>4, <2>6
      <3>2. errors' = errors /\ counted' = counted /\ reported' = reported
            /\ Base(row)' = Base(row)
        BY <1>1, <2>3, <3>1
      <3> QED BY <1>1, <1>4, <1>7, <2>1, <3>2 DEF Inv, Counted, Before
    <2> QED BY <1>8, <2>5, <2>6
  <1>14. Spaced' BY <1>1, <1>7 DEF Inv, Spaced, Aged
  <1> QED BY <1>9, <1>10, <1>11, <1>12, <1>13, <1>14 DEF Inv

\* A step of nothing.
LEMMA Rests == Inv /\ UNCHANGED vars => Inv'
  <1> SUFFICES ASSUME Inv, UNCHANGED vars PROVE Inv' OBVIOUS
  <1>1. UNCHANGED <<sleeps, box, reach, routersOk, plugin, hour, errors, row, proxy, pc, tick,
                    mail, globalMail, faults, told, absent, counted, reported, sinceHeal,
                    since, torn, late>>
    BY DEF vars, world, kept, local, hist
  <1>2. Typed' BY <1>1 DEF Inv, Typed
  <1>3. InOrder' BY <1>1 DEF Inv, InOrder, Before
  <1>4. Debounced' BY <1>1 DEF Inv, Debounced
  <1>5. Told' BY <1>1 DEF Inv, Told, Latched
  <1>6. Counted' BY <1>1 DEF Inv, Counted, Before
  <1>7. Spaced' BY <1>1 DEF Inv, Spaced, Aged
  <1> QED BY <1>2, <1>3, <1>4, <1>5, <1>6, <1>7 DEF Inv

\* Inv holds throughout, and so does what follows from it.
LEMMA Always == Spec => []Inv
  <1>1. Inv /\ [Next]_vars => Inv'
    <2> SUFFICES ASSUME Inv, [Next]_vars PROVE Inv' OBVIOUS
    <2>1. CASE CheckOnce
      BY <2>1, ReadKeeps, ProxyKeeps, HealKeeps, LookKeeps, CheckKeeps, SendKeeps, WriteKeeps,
         SendGlobalKeeps, WriteGlobalKeeps DEF CheckOnce
    <2>2. CASE Abort BY <2>2, AbortKeeps
    <2>3. CASE Outside BY <2>3, OutsideKeeps
    <2>4. CASE ServerError BY <2>4, ServerErrorKeeps
    <2>5. CASE Midnight BY <2>5, MidnightKeeps
    <2>6. CASE UNCHANGED vars BY <2>6, Rests
    <2> QED BY <2>1, <2>2, <2>3, <2>4, <2>5, <2>6 DEF Next, Outside
  <1> QED BY <1>1, Starts, PTL DEF Spec
-----------------------------------------------------------------------------
\* Every variable of the alert loop keeps to its type, the counter of a missing
\* container to DOWN_AFTER and the age of a heal to its cooldown.
THEOREM AlertTypes == Spec => []TypeOK
  <1>1. Inv => TypeOK
    <2> SUFFICES ASSUME Inv PROVE TypeOK OBVIOUS
    <2>1. Typed BY DEF Inv
    <2>2. \A r \in RowRecords :
            /\ r.missing \in 0 .. DownAfter /\ r.err \in 0 .. MaxErrors
            /\ {r.known, r.alertedStuck, r.alertedMissing,
                r.probedToday, r.alertedUnreachable, r.errToday} \subseteq BOOLEAN
      BY DEF RowRecords
    <2>3. row \in RowRecords /\ tick.row \in RowRecords
      BY <2>1 DEF Typed, TickRecords
    <2>4. /\ proxy.alerted \in BOOLEAN
          /\ proxy.healAge \in 0 .. Never /\ tick.healAge \in 0 .. Never
      BY <2>1 DEF Typed, TickRecords, ProxyRecords
    <2>5. errors \in 0 .. MaxErrors BY <2>1, AlertsAssumption DEF Typed
    <2>6. \A r \in {row, tick.row} :
            /\ r.missing \in 0 .. DownAfter /\ r.err \in 0 .. MaxErrors
            /\ {r.known, r.alertedStuck, r.alertedMissing,
                r.probedToday, r.alertedUnreachable, r.errToday} \subseteq BOOLEAN
      BY <2>2, <2>3
    <2> QED BY <2>1, <2>4, <2>5, <2>6 DEF Typed, TypeOK
  <1> QED BY <1>1, Always, PTL

\* The message about to be sent is one of those that wait.
LEMMA Sends ==
  ASSUME Typed, NEW m \in Sending
  PROVE  \/ pc = "send" /\ Holds(mail, m) /\ m \in AppMessages
         \/ pc = "global" /\ Holds(globalMail, m) /\ m \in ProxyMessages
  <1>1. CASE pc = "send" /\ mail # <<>>
    <2>1. mail \in Seq(AppMessages) /\ Once(mail) BY DEF Typed
    <2>2. m = Head(mail) BY <1>1 DEF Sending
    <2> QED BY <1>1, <2>1, <2>2, HoldsRest
  <1>2. CASE pc = "global" /\ globalMail # <<>>
    <2>1. globalMail \in Seq(ProxyMessages) /\ Once(globalMail) BY DEF Typed
    <2>2. m = Head(globalMail) BY <1>2 DEF Sending
    <2> QED BY <1>2, <2>1, <2>2, HoldsRest
  <1>3. CASE ~(pc = "send" /\ mail # <<>>) /\ ~(pc = "global" /\ globalMail # <<>>)
    BY <1>3 DEF Sending
  <1> QED BY <1>1, <1>2, <1>3

\* "Missing" is only said of an app that DownAfter looks found without a container,
\* with no completed check between them that found one.
THEOREM MissingIsDebounced == Spec => []MissingDebounced
  <1>1. Inv => MissingDebounced
    <2> SUFFICES ASSUME Inv, "missing" \in Sending PROVE absent >= DownAfter
      BY DEF MissingDebounced
    <2>1. pc = "send" /\ Holds(mail, "missing") BY Sends DEF Inv, ProxyMessages
    <2> QED BY <2>1, AlertsAssumption DEF Inv, Debounced
  <1> QED BY <1>1, Always, PTL

\* No alarm is repeated while it stands and no all-clear comes without an alarm, as
\* long as no check was cut between a message and its row.
THEOREM AlarmsAlternate == Spec => []OnlyEdges
  <1>1. Inv => OnlyEdges
    <2> SUFFICES ASSUME Inv, ~torn, NEW m \in Sending
                 PROVE  /\ m \in {"missing", "unreachable", "routers"} => m \notin told
                        /\ m = "back" => "missing" \in told
                        /\ m = "serving" => "unreachable" \in told
                        /\ m = "routersOk" => "routers" \in told
      BY DEF OnlyEdges
    <2>1. CASE pc = "send" /\ Holds(mail, m) /\ m \in AppMessages
      BY <2>1 DEF Inv, Told, Latched, AppMessages
    <2>2. CASE pc = "global" /\ Holds(globalMail, m) /\ m \in ProxyMessages
      BY <2>2 DEF Inv, Told, Latched, ProxyMessages
    <2> QED BY <2>1, <2>2, Sends DEF Inv
  <1> QED BY <1>1, Always, PTL

\* No 5xx response is reported twice, over any number of days, unless a check was
\* cut between a message and its row or midnight fell into one.
THEOREM ErrorsCountedOnce == Spec => []ReportedOnce
  <1>1. Inv => ReportedOnce
    <2> SUFFICES ASSUME Inv, ~torn, ~late PROVE reported <= counted
      BY DEF ReportedOnce
    <2>1. /\ Base(row) \in Nat /\ tick.err \in Nat /\ tick.delta \in Nat
          /\ errors \in Nat /\ counted \in Nat /\ reported \in Nat
      BY DEF Inv, Typed, RowRecords, TickRecords, Base
    <2>2. Base(row) <= errors /\ tick.err <= errors BY DEF Inv, Counted
    <2>3. CASE pc = "send"
      <3>1. reported + errors + (IF Holds(mail, "errors") THEN tick.delta ELSE 0)
              <= counted + tick.err
        BY <2>3 DEF Inv, Counted
      <3>2. (IF Holds(mail, "errors") THEN tick.delta ELSE 0) \in Nat BY <2>1
      <3> QED BY <2>1, <2>2, <3>1, <3>2
    <2>4. CASE pc # "send"
      <3>1. reported + errors <= counted + Base(row)
        BY <2>4 DEF Inv, InOrder, Counted
      <3> QED BY <2>1, <2>2, <3>1
    <2> QED BY <2>3, <2>4
  <1> QED BY <1>1, Always, PTL

\* The proxy is not restarted again within the cooldown, unless a check in between
\* saw the plugin or could not tell.
THEOREM HealsAreSpaced == Spec => HealsSpaced
  <1>1. Inv => (~torn /\ pc = "heal" => sinceHeal >= HealCooldown \/ since # {})
    BY DEF Inv, Spaced
  <1>2. Inv /\ [Next]_vars
        => [~torn /\ pc = "heal" /\ pc' = "look"
              => sinceHeal >= HealCooldown \/ since # {}]_vars
    BY <1>1
  <1> QED BY <1>2, Always, PTL DEF Spec, HealsSpaced
=============================================================================
