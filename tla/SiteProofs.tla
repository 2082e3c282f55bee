----------------------------- MODULE SiteProofs -----------------------------
(***************************************************************************)
(* For any numbers of requests, uploads, changes and retries: a visitor is *)
(* answered with a whole file of a bundle that was there, a request is not *)
(* sent again once the app has said it carried it out, and one kill of the *)
(* control plane loses no bundle.                                          *)
(***************************************************************************)
EXTENDS Site, TLAPS

Edits == \E h \in Editors : EditRules(h) \/ EditSpa(h)
Controls == UploadBegins \/ Upload \/ Crash \/ Edits \/ \E h \in Handlers : Handle(h)
Hosts(r) == Ask(r) \/ Serves(r) \/ Forwards(r)

\* A step of either process, or none.
LEMMA TwoProcesses ==
  ASSUME [Next]_vars
  PROVE  Controls \/ (\E r \in Requests : Hosts(r)) \/ UNCHANGED vars
BY DEF Next, Controls, Edits, Hosts

LEMMA Constants ==
  /\ MaxUploads \in Nat /\ MaxEdits \in Nat /\ MaxCrashes \in Nat
  /\ WakeTries \in Nat /\ GatewayTries \in 0..WakeTries
  /\ "upload" \in Handlers /\ "upload" \notin Editors /\ Editors \subseteq Handlers
  /\ Gone \in [there : BOOLEAN, site : Bundles, whole : BOOLEAN, cfg : Settings]
  /\ StaticOnly \in Settings /\ 0 \in Bundles
BY SiteAssumption DEF Handlers, Gone, StaticOnly, Settings, Bundles

-----------------------------------------------------------------------------
(* Types. *)

LEMMA TypesBegin == Init => TypeOK
<1> SUFFICES ASSUME Init PROVE TypeOK
    OBVIOUS
<1>1. ControlTypes
      BY Constants DEF Init, ControlTypes, Dirs, Settings, StaticOnly, Gone, Bundles
<1>2. RequestTypes
  <2>1. Fresh \in Visits /\ Counted(Fresh)
        BY Constants DEF Fresh, Visits, Counted, Places, Kinds
  <2>2. QED
        BY <2>1, Constants DEF Init, RequestTypes
<1>3. QED
      BY <1>1, <1>2 DEF TypeOK

\* What the row says, and a bundle being unpacked.
LEMMA Written ==
  ASSUME ControlTypes
  PROVE  /\ Desired \in Settings
         /\ left.uploads > 0 => Unpacking \in Dirs
BY Constants DEF ControlTypes, Desired, Settings, Unpacking, Dirs, Bundles

LEMMA ControlKeepsTypes ==
  ASSUME ControlTypes, Controls
  PROVE  ControlTypes'
<1> USE Constants
<1>1. CASE UploadBegins
      BY <1>1, Written DEF UploadBegins, StartsUpload, Step, ControlTypes, Outside
<1>2. CASE Upload
  <2>1. CASE UploadRefused
        BY <1>2, <2>1 DEF UploadRefused, Step, ControlTypes, Outside, Dirs
  <2>2. CASE UploadUnpacks
        BY <1>2, <2>2 DEF UploadUnpacks, Step, ControlTypes, Outside, Dirs
  <2>3. CASE UploadMoves
        BY <1>2, <2>3 DEF UploadMoves, Replace, Step, ControlTypes, Outside, Dirs
  <2>4. CASE UploadSwaps
        BY <1>2, <2>4 DEF UploadSwaps, Replace, Step, ControlTypes, Outside, Dirs
  <2>5. CASE UploadRecords
        BY <1>2, <2>5 DEF UploadRecords, Step, ControlTypes, Outside, disk
  <2>6. QED
        BY <1>2, <2>1, <2>2, <2>3, <2>4, <2>5 DEF Upload
<1>3. CASE Crash
      BY <1>3 DEF Crash, ControlTypes, Outside, disk
<1>4. CASE Edits
  <2>1. ASSUME NEW h \in Editors, EditRules(h) PROVE ControlTypes'
    <3>1. row' \in [image : BOOLEAN, spa : BOOLEAN, rules : BOOLEAN, front : BOOLEAN]
          BY <2>1 DEF EditRules, ControlTypes
    <3>2. left' \in [uploads : 0..MaxUploads, edits : 0..MaxEdits, crashes : 0..MaxCrashes]
          BY <2>1 DEF EditRules, ControlTypes
    <3>3. QED
          BY <2>1, <3>1, <3>2 DEF EditRules, Step, ControlTypes, disk
  <2>2. ASSUME NEW h \in Editors, EditSpa(h) PROVE ControlTypes'
    <3>1. /\ row' \in [image : BOOLEAN, spa : BOOLEAN, rules : BOOLEAN, front : BOOLEAN]
          /\ got' \in [Handlers -> Settings]
          BY <2>2 DEF EditSpa, ControlTypes, Settings
    <3>2. left' \in [uploads : 0..MaxUploads, edits : 0..MaxEdits, crashes : 0..MaxCrashes]
          BY <2>2 DEF EditSpa, ControlTypes
    <3>3. QED
          BY <2>2, <3>1, <3>2 DEF EditSpa, Step, ControlTypes, disk
  <2>3. QED
        BY <1>4, <2>1, <2>2 DEF Edits
<1>5. ASSUME NEW h \in Handlers, Handle(h) PROVE ControlTypes'
  <2>1. CASE Reads(h)
        BY <2>1, Written DEF Reads, Step, ControlTypes, Outside, disk, Settings
  <2>2. CASE SyncReads(h)
        BY <2>2, Written DEF SyncReads, Step, ControlTypes, Outside, disk
  <2>3. CASE WriteBegins(h)
        BY <2>3 DEF WriteBegins, Replace, Step, ControlTypes, Outside, Dirs
  <2>4. CASE WriteEnds(h)
        BY <2>4 DEF WriteEnds, Replace, Step, ControlTypes, Outside, Dirs
  <2>5. QED
        BY <1>5, <2>1, <2>2, <2>3, <2>4 DEF Handle
<1>6. QED
      BY <1>1, <1>2, <1>3, <1>4, <1>5 DEF Controls

\* What a control step does to the requests: seen follows what is in place.
LEMMA Follows ==
  ASSUME ControlTypes, RequestTypes, Controls
  PROVE  /\ UNCHANGED <<req, fate>>
         /\ \/ target'.site = target.site /\ seen' = seen
            \/ seen' = [r \in Requests |-> IF Open(r) THEN seen[r] \cup {target'.site}
                                           ELSE seen[r]]
<1>1. CASE UploadBegins
      BY <1>1 DEF UploadBegins, Outside
<1>2. CASE Upload
      BY <1>2 DEF Upload, UploadRefused, UploadUnpacks, UploadMoves, UploadSwaps,
                  UploadRecords, Replace, Outside, disk
<1>3. CASE Crash
      BY <1>3 DEF Crash, Outside, disk
<1>4. CASE Edits
      BY <1>4 DEF Edits, EditRules, EditSpa, Outside, disk
<1>5. ASSUME NEW h \in Handlers, Handle(h)
      PROVE  /\ UNCHANGED <<req, fate>>
             /\ \/ target'.site = target.site /\ seen' = seen
                \/ seen' = [r \in Requests |-> IF Open(r) THEN seen[r] \cup {target'.site}
                                               ELSE seen[r]]
      BY <1>5 DEF Handle, Reads, SyncReads, WriteBegins, WriteEnds, Replace, Outside, disk
<1>6. QED
      BY <1>1, <1>2, <1>3, <1>4, <1>5 DEF Controls

Fates == {"none", "doubt", "said", "again"}

\* A hop carries the request out or does not; only one that went badly leaves it
\* in doubt.
LEMMA Carries ==
  ASSUME RequestTypes, NEW r \in Requests, NEW res, Hop(r, res)
  PROVE  /\ fate' \in [Requests -> Fates]
         /\ \A s \in Requests \ {r} : fate'[s] = fate[s]
         /\ fate[r] \in {"none", "doubt"} =>
              /\ fate'[r] # "again"
              /\ Doubtful(r, res) \/ res = "down" => fate'[r] \in {"none", "doubt"}
<1>1. PICK o \in Outcomes :
        /\ res = o[1]
        /\ fate' = IF o[2] THEN [fate EXCEPT ![r] = Carried(r, res)] ELSE fate
      BY DEF Hop
<1>2. o[2] \in BOOLEAN /\ (res = "down" => ~o[2])
      BY <1>1 DEF Outcomes
<1>3. fate \in [Requests -> Fates] /\ Carried(r, res) \in Fates
      BY DEF RequestTypes, Carried, Fates
<1>4. CASE o[2]
      BY <1>1, <1>2, <1>3, <1>4 DEF Carried
<1>5. CASE ~o[2]
      BY <1>1, <1>3, <1>5 DEF Fates
<1>6. QED
      BY <1>2, <1>4, <1>5

\* What the static host remembers of a request, as it goes on.
LEMMA Asked ==
  ASSUME NEW q \in Visits, NEW p \in Places \ {"retry"}, NEW k \in Kinds, q.tries = 0
  PROVE  LET v == [q EXCEPT !.at = p, !.kind = k] IN v \in Visits /\ Counted(v)
<1>1. [q EXCEPT !.at = p, !.kind = k] \in Visits
      BY DEF Visits
<1>2. Counted([q EXCEPT !.at = p, !.kind = k])
      BY SiteAssumption DEF Visits, Counted
<1>3. QED
      BY <1>1, <1>2

LEMMA Started ==
  ASSUME NEW q \in Visits, NEW p \in Places, NEW b \in 0..WakeTries, q.tries = 0
  PROVE  LET v == [q EXCEPT !.at = p, !.budget = b] IN v \in Visits /\ Counted(v)
<1>1. [q EXCEPT !.at = p, !.budget = b] \in Visits
      BY DEF Visits
<1>2. Counted([q EXCEPT !.at = p, !.budget = b])
      BY SiteAssumption DEF Visits, Counted
<1>3. QED
      BY <1>1, <1>2

LEMMA Tried ==
  ASSUME NEW q \in Visits, q.at = "retry", q.tries < q.budget
  PROVE  LET v == [q EXCEPT !.tries = @ + 1] IN v \in Visits /\ Counted(v)
<1>1. [q EXCEPT !.tries = @ + 1] \in Visits
      BY SiteAssumption DEF Visits
<1>2. Counted([q EXCEPT !.tries = @ + 1])
      BY SiteAssumption DEF Visits, Counted
<1>3. QED
      BY <1>1, <1>2

LEMMA Refused ==
  ASSUME NEW q \in Visits
  PROVE  LET v == [q EXCEPT !.at = "missing", !.budget = 0, !.tries = 0] IN
         v \in Visits /\ Counted(v)
<1>1. "missing" \in Places /\ 0 \in 0..WakeTries
      BY SiteAssumption DEF Places
<1>2. [q EXCEPT !.at = "missing", !.budget = 0, !.tries = 0] \in Visits
      BY <1>1 DEF Visits
<1>3. Counted([q EXCEPT !.at = "missing", !.budget = 0, !.tries = 0])
      BY DEF Visits, Counted
<1>4. QED
      BY <1>2, <1>3

LEMMA Answered ==
  ASSUME NEW a \in {"file", "torn", "cut", "other"}, NEW f \in Bundles
  PROVE  LET v == [Fresh EXCEPT !.at = "done", !.answer = a, !.file = f] IN
         v \in Visits /\ Counted(v)
<1>1. "done" \in Places /\ "file" \in Kinds /\ 0 \in 0..WakeTries
      BY SiteAssumption DEF Places, Kinds
<1>2. [Fresh EXCEPT !.at = "done", !.answer = a, !.file = f] \in Visits
      BY <1>1 DEF Fresh, Visits
<1>3. Counted([Fresh EXCEPT !.at = "done", !.answer = a, !.file = f])
      BY DEF Fresh, Counted
<1>4. QED
      BY <1>2, <1>3

LEMMA HostKeepsTypes ==
  ASSUME ControlTypes, RequestTypes, NEW r \in Requests, Hosts(r)
  PROVE  RequestTypes' /\ UNCHANGED <<control, left, published>>
<1> DEFINE Same == UNCHANGED <<control, left, published>>
\* A step that gives r the record q.
<1>1. ASSUME NEW q \in Visits, Counted(q), Goes(r, q), fate' \in [Requests -> Fates]
      PROVE  RequestTypes' /\ Same
      BY <1>1 DEF Goes, RequestTypes, Fates
<1>2. ASSUME NEW p \in Places, NEW f \in Places \ {"retry"}, Moves(r, f, p),
             fate' \in [Requests -> Fates]
      PROVE  RequestTypes' /\ Same
  <2>1. /\ [req[r] EXCEPT !.at = p] \in Visits
        /\ Counted([req[r] EXCEPT !.at = p])
        BY <1>2 DEF RequestTypes, Moves, Visits, Counted
  <2>2. QED
        BY <1>1, <1>2, <2>1 DEF Moves, RequestTypes
<1>3. ASSUME NEW a \in {"file", "torn", "cut", "other"}, NEW f \in Bundles,
             AnswersWith(r, a, f), fate' \in [Requests -> Fates]
      PROVE  RequestTypes' /\ Same
  <2>1. LET q == [Fresh EXCEPT !.at = "done", !.answer = a, !.file = f] IN
        q \in Visits /\ Counted(q)
        BY <1>3, Answered
  <2>2. QED
        BY <1>3, <2>1 DEF AnswersWith, RequestTypes, Fates
<1>4. Answers(r) /\ fate' \in [Requests -> Fates] => RequestTypes' /\ Same
      BY <1>3, Constants DEF Answers
<1>5. Idle => fate' \in [Requests -> Fates]
      BY DEF Idle, RequestTypes, Fates
<1>6. /\ WakeTries \in 0..WakeTries /\ 0 \in Bundles
      /\ req[r] \in Visits /\ Counted(req[r]) /\ target \in Dirs /\ 0 \in 0..WakeTries
      /\ {"look", "find", "send", "open", "missing", "probe", "wake", "retry"} \subseteq Places
      /\ {"file", "page"} \subseteq Kinds
      BY Constants DEF RequestTypes, ControlTypes, Places, Kinds
<1>7. ASSUME NEW res, Hop(r, res), Passes(r, res) PROVE RequestTypes' /\ Same
  <2>1. fate' \in [Requests -> Fates]
        BY <1>7, Carries
  <2>2. LET q == [req[r] EXCEPT !.at = "missing", !.budget = 0, !.tries = 0] IN
        q \in Visits /\ Counted(q)
        BY <1>6, Refused
  <2>3. QED
        BY <1>1, <1>4, <1>7, <2>1, <2>2 DEF Passes
<1>8. CASE Ask(r)
  <2>1. PICK k \in Kinds : /\ req' = [req EXCEPT ![r].at = "look", ![r].kind = k]
                           /\ seen' = [seen EXCEPT ![r] = {target.site}]
                           /\ Same /\ Idle
        BY <1>8 DEF Ask
  <2>2. target.site \in Bundles
        BY <1>6 DEF Dirs
  <2>3. req' = [req EXCEPT ![r] = [req[r] EXCEPT !.at = "look", !.kind = k]]
        BY <2>1 DEF RequestTypes
  <2>4. LET q == [req[r] EXCEPT !.at = "look", !.kind = k] IN q \in Visits /\ Counted(q)
        BY <1>6, <1>8, Asked DEF Ask, Counted
  <2>5. QED
        BY <2>1, <2>2, <2>3, <2>4 DEF RequestTypes, Idle
<1>9. CASE Looks(r)
      BY <1>2, <1>4, <1>5, <1>9 DEF Looks, Places
<1>10. CASE ReadsManifest(r)
  <2>1. [req[r] EXCEPT !.at = "find", !.backend = target.cfg.backend, !.spa = target.cfg.spa]
          \in Visits
        BY <1>6 DEF Dirs, Settings, Visits
  <2>2. QED
        BY <1>1, <1>2, <1>4, <1>5, <1>6, <1>10, <2>1 DEF ReadsManifest, Places, Counted, Visits
<1>11. CASE Finds(r)
  <2>1. /\ [req[r] EXCEPT !.at = "send", !.backend = FALSE, !.spa = FALSE] \in Visits
        /\ [req[r] EXCEPT !.at = IF req[r].backend THEN "probe" ELSE "missing",
                          !.backend = FALSE, !.kind = "page"] \in Visits
        BY <1>6 DEF Visits
  <2>2. QED
        BY <1>1, <1>5, <1>6, <1>11, <2>1 DEF Finds, Counted, Visits
<1>12. CASE Stats(r)
  <2>1. LET q == [req[r] EXCEPT !.at = "open", !.file = target.site] IN
        q.at = "open" /\ q.tries = req[r].tries /\ q.budget = req[r].budget /\ q \in Visits
        BY <1>6 DEF Dirs, Visits
  <2>2. QED
        BY <1>1, <1>4, <1>5, <1>6, <1>12, <2>1 DEF Stats, Counted
<1>19. CASE Opens(r)
      BY <1>3, <1>5, <1>6, <1>19 DEF Opens, Dirs
<1>13. CASE NotFound(r)
      BY <1>2, <1>4, <1>5, <1>13 DEF NotFound, Places
<1>14. CASE Probes(r)
  <2>1. PICK res \in Results :
          /\ req[r].at = "probe" /\ Hop(r, res)
          /\ IF res \in NotRunning \cup {"unreached"}
             THEN Goes(r, [req[r] EXCEPT
                        !.at = IF res = "unreached" THEN "retry" ELSE "wake",
                        !.budget = IF res = "down" THEN WakeTries ELSE GatewayTries])
             ELSE Passes(r, res)
        BY <1>14 DEF Probes
  <2>2. fate' \in [Requests -> Fates]
        BY <2>1, Carries
  <2>3. CASE res \in NotRunning \cup {"unreached"}
    <3>1. CASE res = "unreached"
          BY <1>1, <1>6, <2>1, <2>2, <3>1, Started, Constants DEF Counted
    <3>2. CASE res = "down"
          BY <1>1, <1>6, <2>1, <2>2, <3>2, Started, Constants DEF Counted, NotRunning
    <3>3. CASE res = "gateway"
          BY <1>1, <1>6, <2>1, <2>2, <3>3, Started, Constants DEF Counted, NotRunning
    <3>4. QED
          BY <2>3, <3>1, <3>2, <3>3 DEF NotRunning
  <2>4. QED
        BY <1>7, <2>1, <2>3
<1>15. CASE Wakes(r)
      BY <1>2, <1>4, <1>5, <1>15 DEF Wakes, Places
<1>16. CASE Retries(r)
  <2>1. PICK res \in Results :
          /\ req[r].at = "retry" /\ req[r].tries < req[r].budget /\ Hop(r, res)
          /\ IF res \in Unfulfilled THEN Goes(r, [req[r] EXCEPT !.tries = @ + 1])
             ELSE Passes(r, res)
        BY <1>16 DEF Retries
  <2>2. LET q == [req[r] EXCEPT !.tries = @ + 1] IN q \in Visits /\ Counted(q)
        BY <1>6, <2>1, Tried
  <2>3. QED
        BY <1>1, <1>6, <1>7, <2>1, <2>2, Carries
<1>17. CASE GivesUp(r)
  <2>1. CASE Answers(r) /\ Idle
        BY <1>4, <1>5, <2>1
  <2>2. CASE \E res \in Results :
               Hop(r, res) /\ IF res = "unreached" THEN Answers(r) ELSE Passes(r, res)
        BY <1>4, <1>7, <2>2, Carries
  <2>3. QED
        BY <1>17, <2>1, <2>2 DEF GivesUp
<1>18. QED
       BY <1>8, <1>9, <1>10, <1>11, <1>12, <1>13, <1>14, <1>15, <1>16, <1>17,
          <1>19
       DEF Hosts, Serves, Forwards

LEMMA StepKeepsTypes == TypeOK /\ [Next]_vars => TypeOK'
<1> SUFFICES ASSUME TypeOK, [Next]_vars PROVE TypeOK'
    OBVIOUS
<1>1. ControlTypes /\ RequestTypes
      BY DEF TypeOK
<1>2. CASE Controls
  <2>1. ControlTypes'
        BY <1>1, <1>2, ControlKeepsTypes
  <2>2. target'.site \in Bundles
        BY <2>1 DEF ControlTypes, Dirs
  <2>3. RequestTypes'
        BY <1>1, <1>2, <2>2, Follows DEF RequestTypes
  <2>4. QED
        BY <2>1, <2>3 DEF TypeOK
<1>3. ASSUME NEW r \in Requests, Hosts(r) PROVE TypeOK'
  <2>1. RequestTypes' /\ UNCHANGED <<control, left, published>>
        BY <1>1, <1>3, HostKeepsTypes
  <2>2. QED
        BY <1>1, <2>1 DEF TypeOK, ControlTypes, control, disk
<1>4. CASE UNCHANGED vars
      BY <1>1, <1>4 DEF TypeOK, ControlTypes, RequestTypes, vars, control, disk
<1>5. QED
      BY <1>2, <1>3, <1>4, TwoProcesses

\* Every variable keeps its type, whatever the two processes do.
THEOREM SiteTypes == Spec => []TypeOK
<1>1. QED
      BY TypesBegin, StepKeepsTypes, PTL DEF Spec
-----------------------------------------------------------------------------
(* What the app is sent. *)

\* Where a request is until the app has answered it.
Waits == {"none", "look", "manifest", "find", "probe", "wake", "retry"}

SaidOnce == \A r \in Requests :
  fate[r] # "again" /\ (req[r].at \in Waits => fate[r] \in {"none", "doubt"})

LEMMA OtherRequests ==
  ASSUME RequestTypes, NEW r \in Requests, Hosts(r)
  PROVE  \A s \in Requests \ {r} : req'[s] = req[s] /\ fate'[s] = fate[s]
<1>1. ASSUME NEW q, Goes(r, q) PROVE \A s \in Requests \ {r} : req'[s] = req[s]
      BY <1>1 DEF Goes, RequestTypes
<1>2. ASSUME NEW a, NEW f, AnswersWith(r, a, f)
      PROVE  \A s \in Requests \ {r} : req'[s] = req[s]
      BY <1>2 DEF AnswersWith, RequestTypes
<1>3. ASSUME NEW res, Hop(r, res) PROVE \A s \in Requests \ {r} : fate'[s] = fate[s]
      BY <1>3, Carries
<1>4. ASSUME NEW res, Passes(r, res) PROVE \A s \in Requests \ {r} : req'[s] = req[s]
      BY <1>1, <1>2, <1>4 DEF Passes, Answers
<1>5. CASE Ask(r)
      BY <1>5 DEF Ask, Idle, RequestTypes
<1>6. CASE Serves(r)
      BY <1>1, <1>2, <1>6 DEF Serves, Looks, ReadsManifest, Finds, Stats, Opens, NotFound,
                              Wakes, Moves, Answers, Idle
<1>7. CASE Probes(r) \/ Retries(r)
      BY <1>1, <1>3, <1>4, <1>7 DEF Probes, Retries
<1>8. CASE GivesUp(r)
      BY <1>2, <1>3, <1>4, <1>8 DEF GivesUp, Answers, Idle
<1>9. QED
      BY <1>5, <1>6, <1>7, <1>8 DEF Hosts, Forwards

LEMMA HostSaysOnce ==
  ASSUME RequestTypes, SaidOnce, NEW r \in Requests, Hosts(r)
  PROVE  SaidOnce'
<1> DEFINE Fine == /\ fate'[r] # "again"
                   /\ req'[r].at \in Waits => fate'[r] \in {"none", "doubt"}
<1> SUFFICES Fine
    BY OtherRequests DEF SaidOnce
<1>1. ASSUME NEW q, q.at \in Waits => req[r].at \in Waits, Goes(r, q), Idle PROVE Fine
      BY <1>1 DEF Goes, Idle, SaidOnce, RequestTypes
<1>2. ASSUME NEW p, p \in Waits => req[r].at \in Waits, Moves(r, req[r].at, p), Idle PROVE Fine
  <2>1. [req[r] EXCEPT !.at = p].at = p
        BY DEF RequestTypes, Visits
  <2>2. QED
        BY <1>1, <1>2, <2>1 DEF Moves
<1>3. ASSUME NEW a, NEW f, AnswersWith(r, a, f) PROVE req'[r].at = "done"
  <2>1. [Fresh EXCEPT !.at = "done", !.answer = a, !.file = f].at = "done"
        BY DEF Fresh
  <2>2. QED
        BY <1>3, <2>1 DEF AnswersWith, RequestTypes
<1>4. ASSUME NEW a, NEW f, AnswersWith(r, a, f), Idle PROVE Fine
      BY <1>3, <1>4 DEF Idle, SaidOnce, Waits
<1>5. ASSUME NEW res, Passes(r, res) PROVE req'[r].at \in {"missing", "done"}
  <2>1. [req[r] EXCEPT !.at = "missing", !.budget = 0, !.tries = 0].at = "missing"
        BY DEF RequestTypes, Visits
  <2>2. QED
        BY <1>3, <1>5, <2>1 DEF Passes, Goes, Answers, RequestTypes
<1>6. ASSUME NEW res, Hop(r, res), req[r].at \in Waits, Passes(r, res) PROVE Fine
      BY <1>5, <1>6, Carries DEF SaidOnce, Waits
\* What is tried again is what left it in doubt, or never reached the app.
<1>7. ASSUME NEW res, Hop(r, res), req[r].at \in Waits, Doubtful(r, res) \/ res = "down"
      PROVE  Fine
      BY <1>7, Carries DEF SaidOnce
<1>8. CASE Ask(r)
  <2>1. req[r].at \in Waits
        BY <1>8 DEF Ask, Waits
  <2>2. QED
        BY <1>8, <2>1 DEF Ask, Idle, SaidOnce
<1>9. CASE Looks(r) \/ NotFound(r) \/ Wakes(r)
      BY <1>2, <1>4, <1>9 DEF Looks, NotFound, Wakes, Moves, Answers, Waits
<1>10. CASE ReadsManifest(r) \/ Finds(r)
  <2>1. req[r].at \in Waits /\ Idle
        BY <1>10 DEF ReadsManifest, Finds, Waits
  <2>2. QED
        BY <2>1 DEF Idle, SaidOnce
<1>11. CASE Stats(r) \/ Opens(r)
  <2>1. [req[r] EXCEPT !.at = "open", !.file = target.site].at \notin Waits
        BY DEF RequestTypes, Visits, Waits
  <2>2. QED
        BY <1>1, <1>4, <1>11, <2>1 DEF Stats, Opens, Answers
<1>12. CASE Probes(r)
  <2>1. req[r].at \in Waits
        BY <1>12 DEF Probes, Waits
  <2>2. QED
        BY <1>6, <1>7, <1>12, <2>1 DEF Probes, NotRunning, Doubtful
<1>13. CASE Retries(r)
  <2>1. req[r].at \in Waits
        BY <1>13 DEF Retries, Waits
  <2>2. QED
        BY <1>6, <1>7, <1>13, <2>1 DEF Retries, Unfulfilled, NotRunning, Doubtful
<1>14. CASE GivesUp(r)
  <2>1. req[r].at \in Waits
        BY <1>14 DEF GivesUp, Waits
  <2>2. ASSUME NEW res, Hop(r, res), Answers(r) PROVE Fine
        BY <1>3, <2>1, <2>2, Carries DEF Answers, SaidOnce, Waits
  <2>3. QED
        BY <1>4, <1>6, <1>14, <2>1, <2>2 DEF GivesUp, Answers
<1>15. QED
       BY <1>8, <1>9, <1>10, <1>11, <1>12, <1>13, <1>14 DEF Hosts, Serves, Forwards

\* Whatever fails, whether or not the app had carried the request out by then, and
\* however many retries the budgets allow: an answer that says the app has had the
\* request is the last, and the request is not sent again.
THEOREM SaidIsLast == Spec => []RepeatedOnlyInDoubt
<1>1. Init => SaidOnce
      BY DEF Init, SaidOnce, Fresh
<1>2. TypeOK /\ SaidOnce /\ [Next]_vars => SaidOnce'
  <2> SUFFICES ASSUME TypeOK, SaidOnce, [Next]_vars PROVE SaidOnce'
      OBVIOUS
  <2>1. CASE Controls
        BY <2>1, Follows DEF SaidOnce, TypeOK
  <2>2. ASSUME NEW r \in Requests, Hosts(r) PROVE SaidOnce'
        BY <2>2, HostSaysOnce DEF TypeOK
  <2>3. CASE UNCHANGED vars
        BY <2>3 DEF SaidOnce, vars
  <2>4. QED
        BY <2>1, <2>2, <2>3, TwoProcesses
<1>3. SaidOnce => RepeatedOnlyInDoubt
      BY DEF SaidOnce, RepeatedOnlyInDoubt
<1>4. QED
      BY <1>1, <1>2, <1>3, SiteTypes, PTL DEF Spec
-----------------------------------------------------------------------------
(* The bundle. *)

Newest == MaxUploads - left.uploads + 1

\* How far an upload has come; what is in place is a whole bundle or none.
Unpacked ==
  /\ target.whole /\ published <= Newest
  /\ at["upload"] \in {"unpack", "move", "swap"} =>
       section = "upload" /\ staging.there /\ staging.site = Newest
  /\ at["upload"] \in {"move", "swap"} => staging.whole

Good(d) == d.there /\ d.whole /\ d.site >= published

\* The bundle that is live is in place; between the renames, and once the
\* control plane has been killed there, it is next to it.
Kept ==
  published > 0 =>
    IF at["upload"] = "swap" THEN left.crashes > 0 => Good(old)
    ELSE Good(target) \/ (left.crashes = 0 /\ Good(old))

LEMMA EditsKeepBundles ==
  ASSUME ControlTypes, Edits
  PROVE  /\ UNCHANGED <<disk, section, published, left.uploads, left.crashes>>
         /\ at'["upload"] = at["upload"]
<1>1. ASSUME NEW h \in Editors, EditRules(h)
      PROVE  /\ UNCHANGED <<disk, section, published, left.uploads, left.crashes>>
             /\ at'["upload"] = at["upload"]
      BY <1>1, Constants DEF EditRules, Step, ControlTypes
<1>2. ASSUME NEW h \in Editors, EditSpa(h)
      PROVE  /\ UNCHANGED <<disk, section, published, left.uploads, left.crashes>>
             /\ at'["upload"] = at["upload"]
      BY <1>2, Constants DEF EditSpa, Step, ControlTypes
<1>3. QED
      BY <1>1, <1>2 DEF Edits

\* A handler at a manifest changes what it says, and nothing of a bundle.
LEMMA HandlersKeepBundles ==
  ASSUME ControlTypes, Unpacked, NEW h \in Handlers, Handle(h)
  PROVE  /\ UNCHANGED <<staging, old, published, left>>
         /\ target'.site = target.site /\ target'.whole = target.whole
         /\ target.there => target'.there
         /\ at'["upload"] \in {"unpack", "move", "swap"} => UNCHANGED <<at["upload"], section>>
         /\ at'["upload"] = "swap" <=> at["upload"] = "swap"
<1> USE Constants
<1>1. CASE Reads(h)
      BY <1>1 DEF Reads, Step, ControlTypes, disk
<1>2. CASE SyncReads(h)
      BY <1>2 DEF SyncReads, Step, ControlTypes, disk
<1>3. CASE WriteBegins(h)
  <2>1. /\ target' = [target EXCEPT !.there = TRUE, !.cfg = StaticOnly]
        /\ UNCHANGED <<staging, old, published, left>>
        BY <1>3 DEF WriteBegins, Replace
  <2>2. at["upload"] \notin {"unpack", "move", "swap"}
        BY <1>3 DEF WriteBegins, Unpacked
  <2>3. at'["upload"] \notin {"unpack", "move", "swap"}
        BY <1>3, <2>2 DEF WriteBegins, Step, ControlTypes
  <2>4. QED
        BY <2>1, <2>2, <2>3 DEF ControlTypes, Dirs
<1>4. CASE WriteEnds(h)
  <2>1. /\ target' = [target EXCEPT !.cfg = got[h]]
        /\ UNCHANGED <<staging, old, published, left>>
        BY <1>4 DEF WriteEnds, Replace
  <2>2. at["upload"] \notin {"unpack", "move", "swap"}
        BY <1>4, SiteAssumption DEF WriteEnds, Step, Unpacked
  <2>3. at'["upload"] \notin {"unpack", "move", "swap"}
        BY <1>4, <2>2 DEF WriteEnds, Step, ControlTypes
  <2>4. QED
        BY <2>1, <2>2, <2>3 DEF ControlTypes, Dirs
<1>5. QED
      BY <1>1, <1>2, <1>3, <1>4 DEF Handle

LEMMA UploadsUnpack ==
  ASSUME ControlTypes, Unpacked, Controls
  PROVE  Unpacked'
<1> USE Constants
<1>1. CASE UploadBegins
  <2>1. Newest' = Newest + 1 /\ Newest \in Nat
        BY <1>1 DEF UploadBegins, StartsUpload, ControlTypes, Newest
  <2>2. staging'.there /\ staging'.site = Newest'
        BY <1>1 DEF UploadBegins, StartsUpload, Unpacking, ControlTypes, Newest
  <2>3. at'["upload"] = "unpack" /\ section' = "upload" /\ UNCHANGED <<target, published>>
        BY <1>1 DEF UploadBegins, StartsUpload, Step, ControlTypes
  <2>4. published \in Nat
        BY DEF ControlTypes, Bundles
  <2>5. QED
        BY <2>1, <2>2, <2>3, <2>4 DEF Unpacked
<1>2. CASE UploadRefused
      BY <1>2 DEF UploadRefused, Step, ControlTypes, Unpacked, Newest
<1>3. CASE UploadUnpacks
      BY <1>3 DEF UploadUnpacks, Step, ControlTypes, Dirs, Unpacked, Newest
<1>4. CASE UploadMoves
      BY <1>4 DEF UploadMoves, Replace, Gone, Step, ControlTypes, Unpacked, Newest
<1>5. CASE UploadSwaps
      BY <1>5 DEF UploadSwaps, Replace, Step, ControlTypes, Dirs, Unpacked, Newest
<1>6. CASE UploadRecords
      BY <1>6 DEF UploadRecords, disk, Step, ControlTypes, Unpacked, Newest
<1>7. CASE Crash
      BY <1>7 DEF Crash, disk, ControlTypes, Unpacked, Newest
<1>8. CASE Edits
      BY <1>8, EditsKeepBundles DEF Unpacked, Newest, disk
<1>9. ASSUME NEW h \in Handlers, Handle(h) PROVE Unpacked'
      BY <1>9, HandlersKeepBundles DEF Unpacked, Newest
<1>10. QED
       BY <1>1, <1>2, <1>3, <1>4, <1>5, <1>6, <1>7, <1>8, <1>9 DEF Controls, Upload

LEMMA UploadsKeep ==
  ASSUME MaxCrashes <= 1, ControlTypes, Unpacked, Kept, Controls
  PROVE  Kept'
<1> USE Constants
<1>1. CASE UploadBegins
      BY <1>1 DEF UploadBegins, StartsUpload, Step, ControlTypes, Kept, Good
<1>2. CASE UploadRefused
      BY <1>2 DEF UploadRefused, Step, ControlTypes, Kept, Good
<1>3. CASE UploadUnpacks
      BY <1>3 DEF UploadUnpacks, Step, ControlTypes, Kept, Good
<1>4. CASE UploadMoves
      BY <1>4 DEF UploadMoves, Replace, Step, ControlTypes, Kept, Good
<1>5. CASE UploadSwaps
  <2>1. Good(target)'
        BY <1>5 DEF UploadSwaps, Replace, Step, ControlTypes, Dirs, Bundles, Unpacked, Newest,
                    Good
  <2>2. at'["upload"] # "swap"
        BY <1>5 DEF UploadSwaps, Step, ControlTypes
  <2>3. QED
        BY <2>1, <2>2 DEF Kept
<1>6. CASE UploadRecords
      BY <1>6 DEF UploadRecords, disk, Step, ControlTypes, Kept, Good
<1>7. CASE Crash
      BY <1>7 DEF Crash, disk, ControlTypes, Kept, Good
<1>8. CASE Edits
      BY <1>8, EditsKeepBundles DEF Kept, Good, disk
<1>9. ASSUME NEW h \in Handlers, Handle(h) PROVE Kept'
      BY <1>9, HandlersKeepBundles DEF Kept, Good
<1>10. QED
       BY <1>1, <1>2, <1>3, <1>4, <1>5, <1>6, <1>7, <1>8, <1>9 DEF Controls, Upload

LEMMA StartsUnpacked == Init => Unpacked /\ Kept
BY Constants DEF Init, Unpacked, Kept, Good, Newest, Gone

LEMMA StepUnpacks == TypeOK /\ Unpacked /\ [Next]_vars => Unpacked'
<1> SUFFICES ASSUME TypeOK, Unpacked, [Next]_vars PROVE Unpacked'
    OBVIOUS
<1>1. CASE Controls
      BY <1>1, UploadsUnpack DEF TypeOK
<1>2. ASSUME NEW r \in Requests, Hosts(r) PROVE Unpacked'
      BY <1>2, HostKeepsTypes DEF TypeOK, Unpacked, Newest, control, disk
<1>3. CASE UNCHANGED vars
      BY <1>3 DEF Unpacked, Newest, vars, control, disk
<1>4. QED
      BY <1>1, <1>2, <1>3, TwoProcesses

LEMMA StepKeeps ==
  ASSUME MaxCrashes <= 1
  PROVE  TypeOK /\ Unpacked /\ Kept /\ [Next]_vars => Kept'
<1> SUFFICES ASSUME TypeOK, Unpacked, Kept, [Next]_vars PROVE Kept'
    OBVIOUS
<1>1. CASE Controls
      BY <1>1, UploadsKeep DEF TypeOK
<1>2. ASSUME NEW r \in Requests, Hosts(r) PROVE Kept'
      BY <1>2, HostKeepsTypes DEF TypeOK, Kept, Good, control, disk
<1>3. CASE UNCHANGED vars
      BY <1>3 DEF Kept, Good, vars, control, disk
<1>4. QED
      BY <1>1, <1>2, <1>3, TwoProcesses

\* However many bundles are uploaded, and wherever the control plane is killed
\* once: the site, or a newer one, is still there, whole.
THEOREM BundleKept ==
  ASSUME MaxCrashes <= 1
  PROVE  Spec => []NeverLost
<1>1. TypeOK /\ Unpacked /\ Kept => NeverLost
      BY Constants DEF TypeOK, ControlTypes, Dirs, Bundles, Unpacked, Kept, Good, Newest, NeverLost
<1>2. QED
      BY <1>1, StartsUnpacked, StepUnpacks, StepKeeps, SiteTypes, PTL DEF Spec
-----------------------------------------------------------------------------
(* The answer. *)

Witnessed == \A r \in Requests :
  /\ Open(r) => target.site \in seen[r]
  /\ req[r].at # "done" => req[r].answer = "none"
  /\ req[r].at = "done" => req[r].answer \in {"file", "cut", "other"}
  /\ req[r].at = "open" => req[r].file \in seen[r]

\* A request comes in, goes on, or is answered, with a file of the bundle that
\* is in place, with one cut off that was of another, or with something else.
Comes(r) == /\ req[r].at = "none" /\ Open(r)' /\ req'[r].answer = "none"
            /\ seen' = [seen EXCEPT ![r] = {target.site}] /\ req'[r].at = "look"
GoesOn(r) == /\ Open(r) /\ Open(r)' /\ req'[r].answer = "none" /\ seen' = seen
             /\ req'[r].at = "open" => req'[r].file = target.site
IsTold(r) == /\ Open(r) /\ req'[r].at = "done" /\ seen' = [seen EXCEPT ![r] = {}]
             /\ \/ req'[r].answer = "other"
                \/ /\ req'[r].answer = "cut"
                   /\ req[r].at = "open" /\ req[r].file # target.site
                \/ req'[r].answer = "file" /\ req'[r].file = target.site

LEMMA HostSteps ==
  ASSUME RequestTypes, target.whole, Witnessed, NEW r \in Requests, Hosts(r)
  PROVE  Comes(r) \/ GoesOn(r) \/ IsTold(r)
<1>1. ASSUME Open(r), NEW q, q.at \notin {"none", "done"}, q.answer = req[r].answer, Goes(r, q),
             q.at = "open" => q.file = target.site
      PROVE  GoesOn(r)
      BY <1>1 DEF Goes, GoesOn, Open, Witnessed, RequestTypes
<1>2. ASSUME Open(r), NEW p \in Places \ {"none", "open", "done"}, NEW f, Moves(r, f, p)
      PROVE  GoesOn(r)
  <2>1. [req[r] EXCEPT !.at = p].at = p /\ [req[r] EXCEPT !.at = p].answer = req[r].answer
        BY DEF RequestTypes, Visits
  <2>2. QED
        BY <1>1, <1>2, <2>1 DEF Moves
<1>3. ASSUME NEW a, NEW f, AnswersWith(r, a, f)
      PROVE  /\ req'[r].at = "done" /\ req'[r].answer = a /\ req'[r].file = f
             /\ seen' = [seen EXCEPT ![r] = {}]
  <2>1. LET v == [Fresh EXCEPT !.at = "done", !.answer = a, !.file = f] IN
        v.at = "done" /\ v.answer = a /\ v.file = f
        BY DEF Fresh
  <2>2. QED
        BY <1>3, <2>1 DEF AnswersWith, RequestTypes
<1>4. ASSUME Open(r), Answers(r) PROVE IsTold(r)
      BY <1>3, <1>4 DEF Answers, IsTold
<1>5. ASSUME Open(r), NEW res, Passes(r, res) PROVE GoesOn(r) \/ IsTold(r)
  <2>1. LET v == [req[r] EXCEPT !.at = "missing", !.budget = 0, !.tries = 0] IN
        v.at = "missing" /\ v.answer = req[r].answer
        BY DEF RequestTypes, Visits
  <2>2. QED
        BY <1>1, <1>4, <1>5, <2>1 DEF Passes
<1>6. CASE Ask(r)
  <2>1. PICK k \in Kinds : /\ req[r].at = "none"
                           /\ req' = [req EXCEPT ![r].at = "look", ![r].kind = k]
                           /\ seen' = [seen EXCEPT ![r] = {target.site}]
        BY <1>6 DEF Ask
  <2>2. req'[r].at = "look" /\ req'[r].answer = req[r].answer
        BY <2>1 DEF RequestTypes, Visits
  <2>3. QED
        BY <2>1, <2>2 DEF Comes, Open, Witnessed
<1>7. CASE Looks(r)
      BY <1>2, <1>4, <1>7 DEF Looks, Open, Places
<1>8. CASE ReadsManifest(r)
  <2>1. LET v == [req[r] EXCEPT !.at = "find", !.backend = target.cfg.backend,
                                !.spa = target.cfg.spa] IN
        v.at = "find" /\ v.answer = req[r].answer
        BY DEF RequestTypes, Visits
  <2>2. QED
        BY <1>1, <1>2, <1>4, <1>8, <2>1 DEF ReadsManifest, Open, Places
<1>9. CASE Finds(r)
  <2>1. LET v == [req[r] EXCEPT !.at = "send", !.backend = FALSE, !.spa = FALSE] IN
        v.at = "send" /\ v.answer = req[r].answer
        BY DEF RequestTypes, Visits
  <2>2. LET v == [req[r] EXCEPT !.at = IF req[r].backend THEN "probe" ELSE "missing",
                                !.backend = FALSE, !.kind = "page"] IN
        v.at \in {"probe", "missing"} /\ v.answer = req[r].answer
        BY DEF RequestTypes, Visits
  <2>3. QED
        BY <1>1, <1>9, <2>1, <2>2 DEF Finds, Open
<1>10. CASE Stats(r)
  <2>1. LET v == [req[r] EXCEPT !.at = "open", !.file = target.site] IN
        v.at = "open" /\ v.answer = req[r].answer /\ v.file = target.site
        BY DEF RequestTypes, Visits
  <2>2. QED
        BY <1>1, <1>4, <1>10, <2>1 DEF Stats, Open
<1>17. CASE Opens(r)
       BY <1>3, <1>17 DEF Opens, Open, IsTold
<1>11. CASE NotFound(r)
       BY <1>2, <1>4, <1>11 DEF NotFound, Open, Places
<1>12. CASE Probes(r)
  <2>1. PICK res \in Results :
          /\ req[r].at = "probe"
          /\ IF res \in NotRunning \cup {"unreached"}
             THEN Goes(r, [req[r] EXCEPT
                        !.at = IF res = "unreached" THEN "retry" ELSE "wake",
                        !.budget = IF res = "down" THEN WakeTries ELSE GatewayTries])
             ELSE Passes(r, res)
        BY <1>12 DEF Probes
  <2>2. LET v == [req[r] EXCEPT
                   !.at = IF res = "unreached" THEN "retry" ELSE "wake",
                   !.budget = IF res = "down" THEN WakeTries ELSE GatewayTries] IN
        v.at \in {"retry", "wake"} /\ v.answer = req[r].answer
        BY DEF RequestTypes, Visits
  <2>3. QED
        BY <1>1, <1>5, <2>1, <2>2 DEF Open
<1>13. CASE Wakes(r)
       BY <1>2, <1>4, <1>13 DEF Wakes, Open, Places
<1>14. CASE Retries(r)
  <2>1. LET v == [req[r] EXCEPT !.tries = @ + 1] IN
        v.at = req[r].at /\ v.answer = req[r].answer
        BY DEF RequestTypes, Visits
  <2>2. QED
        BY <1>1, <1>5, <1>14, <2>1 DEF Retries, Open
<1>15. CASE GivesUp(r)
       BY <1>4, <1>5, <1>15 DEF GivesUp, Open
<1>16. QED
       BY <1>6, <1>7, <1>8, <1>9, <1>10, <1>11, <1>12, <1>13, <1>14, <1>15, <1>17
       DEF Hosts, Serves, Forwards

LEMMA StepWitnesses == TypeOK /\ target.whole /\ Witnessed /\ [Next]_vars => Witnessed'
<1> SUFFICES ASSUME TypeOK, target.whole, Witnessed, [Next]_vars PROVE Witnessed'
    OBVIOUS
<1> USE DEF TypeOK
<1>1. CASE Controls
  <2>1. req' = req
        BY <1>1, Follows
  <2>2. CASE target'.site = target.site /\ seen' = seen
        BY <2>1, <2>2 DEF Witnessed, Open
  <2>3. CASE seen' = [r \in Requests |-> IF Open(r) THEN seen[r] \cup {target'.site} ELSE seen[r]]
        BY <2>1, <2>3 DEF Witnessed, Open
  <2>4. QED
        BY <1>1, <2>2, <2>3, Follows
<1>2. ASSUME NEW r \in Requests, Hosts(r) PROVE Witnessed'
  <2>1. target' = target
        BY <1>2, HostKeepsTypes DEF control, disk
  <2>2. \A s \in Requests \ {r} : req'[s] = req[s]
        BY <1>2, OtherRequests
  <2>3. Comes(r) \/ GoesOn(r) \/ IsTold(r)
        BY <1>2, HostSteps
  <2>4. \A s \in Requests \ {r} : seen'[s] = seen[s]
        BY <2>3 DEF Comes, GoesOn, IsTold, RequestTypes
  <2>5. /\ Open(r)' => target.site \in seen'[r]
        /\ req'[r].at # "done" => req'[r].answer = "none"
        /\ req'[r].at = "done" => req'[r].answer \in {"file", "cut", "other"}
        /\ req'[r].at = "open" => req'[r].file \in seen'[r]
        BY <2>3 DEF Comes, GoesOn, IsTold, Open, Witnessed, RequestTypes
  <2>6. QED
        BY <2>1, <2>2, <2>4, <2>5 DEF Witnessed, Open
<1>3. CASE UNCHANGED vars
      BY <1>3 DEF Witnessed, Open, vars, control, disk
<1>4. QED
      BY <1>1, <1>2, <1>3, TwoProcesses

\* What the visitor is told, before and after.
LEMMA Tells ==
  ASSUME Witnessed, NEW r \in Requests
  PROVE  /\ Told(r) \in {<<"waiting">>, <<"forwarded">>} <=> Open(r)
         /\ req[r].at = "none" => Told(r) = <<"none">>
         /\ Open(r) /\ ~Forwarded(r) => Told(r) = <<"waiting">>
         /\ req[r].at = "done" /\ req[r].answer \in {"cut", "other"} => Told(r) = <<req[r].answer>>
         /\ req[r].at = "done" /\ req[r].answer = "file" => Told(r) = <<"file", req[r].file>>
BY DEF Told, Open, Forwarded, Witnessed

LEMMA StepTells ==
  ASSUME TypeOK, target.whole, Witnessed, Witnessed', TypeOK', [Next]_vars
  PROVE  [P!PromiseNext]_<<target.site, seen, [r \in Requests |-> Told(r)]>>
<1> DEFINE ans == [r \in Requests |-> Told(r)]
<1> USE DEF TypeOK
<1>1. CASE Controls
  <2>1. req' = req /\ target'.site \in Bundles
        BY <1>1, Follows DEF ControlTypes, Dirs
  <2>2. ans' = ans
        BY <2>1 DEF Told, Open, Forwarded
  <2>3. CASE target'.site = target.site /\ seen' = seen
        BY <2>2, <2>3
  <2>4. CASE seen' = [r \in Requests |-> IF Open(r) THEN seen[r] \cup {target'.site} ELSE seen[r]]
    <3>1. seen' = [r \in Requests |-> IF P!Pending(r) THEN seen[r] \cup {target'.site}
                                      ELSE seen[r]]
          BY <2>4, Tells DEF P!Pending
    <3>2. P!Publish(target'.site)
          BY <2>2, <3>1 DEF P!Publish
    <3>3. QED
          BY <2>1, <3>2 DEF P!PromiseNext
  <2>5. QED
        BY <1>1, <2>3, <2>4, Follows
<1>2. ASSUME NEW r \in Requests, Hosts(r)
      PROVE  [P!PromiseNext]_<<target.site, seen, ans>>
  <2>1. target' = target
        BY <1>2, HostKeepsTypes DEF control, disk
  <2>2. \A s \in Requests \ {r} : ans'[s] = ans[s]
        BY <1>2, OtherRequests DEF Told, Open, Forwarded
  <2>3. CASE Comes(r)
    <3>1. ans[r] = <<"none">> /\ ans'[r] = <<"waiting">>
          BY <2>3, Tells DEF Comes, Told, Open, Forwarded
    <3>2. ans' = [ans EXCEPT ![r] = <<"waiting">>]
          BY <2>2, <3>1
    <3>3. P!Come(r)
          BY <2>1, <2>3, <3>1, <3>2 DEF Comes, P!Come
    <3>4. QED
          BY <3>3 DEF P!PromiseNext
  <2>4. CASE GoesOn(r)
    <3>1. ans[r] \in {<<"waiting">>, <<"forwarded">>} /\ ans'[r] \in {<<"waiting">>, <<"forwarded">>}
          BY <2>4 DEF GoesOn, Told, Open, Forwarded
    <3>2. ans' = [ans EXCEPT ![r] = ans'[r]]
          BY <2>2
    <3>3. CASE ans[r] = ans'[r]
          BY <2>1, <2>4, <3>2, <3>3 DEF GoesOn
    <3>4. CASE ans[r] = <<"waiting">> /\ ans'[r] = <<"forwarded">>
          BY <2>1, <2>4, <3>2, <3>4 DEF GoesOn, P!Forward, P!PromiseNext
    <3>5. CASE ans[r] = <<"forwarded">> /\ ans'[r] = <<"waiting">>
          BY <2>1, <2>4, <3>2, <3>5 DEF GoesOn, P!Back, P!PromiseNext
    <3>6. QED
          BY <3>1, <3>3, <3>4, <3>5
  <2>5. CASE IsTold(r)
    <3>1. P!Pending(r)
          BY <2>5, Tells DEF IsTold, P!Pending
    <3>2. target.site \in seen[r] /\ (req[r].at = "open" => req[r].file \in seen[r])
          BY <2>5 DEF IsTold, Witnessed
    <3>3. ans'[r] \in P!Replies(seen[r])
      <4>1. CASE req'[r].answer = "other"
            BY <2>5, <4>1 DEF IsTold, Told, Open, Forwarded, P!Replies
      <4>2. CASE req'[r].answer = "cut" /\ req[r].at = "open" /\ req[r].file # target.site
        <5>1. ans'[r] = <<"cut">>
              BY <2>5, <4>2 DEF IsTold, Told, Open, Forwarded
        <5>2. QED
              BY <3>2, <4>2, <5>1 DEF P!Replies
      <4>3. CASE req'[r].answer = "file" /\ req'[r].file = target.site
        <5>1. ans'[r] = <<"file", target.site>>
              BY <2>5, <4>3 DEF IsTold, Told, Open, Forwarded
        <5>2. QED
              BY <3>2, <5>1 DEF P!Replies
      <4>4. QED
            BY <2>5, <4>1, <4>2, <4>3 DEF IsTold
    <3>4. P!Reply(r)
      <4>1. ans' = [ans EXCEPT ![r] = ans'[r]]
            BY <2>2
      <4>2. QED
            BY <2>1, <2>5, <3>1, <3>3, <4>1 DEF IsTold, P!Reply
    <3>5. QED
          BY <3>4 DEF P!PromiseNext
  <2>6. QED
        BY <1>2, <2>3, <2>4, <2>5, HostSteps
<1>3. CASE UNCHANGED vars
      BY <1>3 DEF vars, control, disk, Told, Open, Forwarded
<1>4. QED
      BY <1>1, <1>2, <1>3, TwoProcesses

\* Whatever bundles are swapped in under a request, and whichever settings are
\* written: what it is answered is a whole file of one bundle that was in place
\* while it was under way, or no file; it breaks off only if another came.
THEOREM TellsTheTruth == Spec => AnswersTruly
<1>1. Init => Witnessed
      BY DEF Init, Witnessed, Open, Fresh
<1>2. Init => P!PromiseInit
  <2> SUFFICES ASSUME Init PROVE P!PromiseInit
      OBVIOUS
  <2>1. target.site \in Bundles
        BY TypesBegin DEF TypeOK, ControlTypes, Dirs
  <2>2. \A r \in Requests : Told(r) = <<"none">>
        BY <1>1, Tells DEF Init, Fresh
  <2>3. QED
        BY <2>1, <2>2 DEF Init, P!PromiseInit
<1>3. Unpacked => target.whole
      BY DEF Unpacked
<1>4. Spec => []TypeOK /\ []Unpacked
      BY SiteTypes, StartsUnpacked, StepUnpacks, PTL DEF Spec
<1>5. Spec => []Witnessed
      BY <1>1, <1>3, <1>4, StepWitnesses, PTL DEF Spec
<1>6. QED
      BY <1>2, <1>3, <1>4, <1>5, StepTells, PTL DEF Spec, AnswersTruly, P!Truly, P!pvars
=============================================================================
