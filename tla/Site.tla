-------------------------------- MODULE Site --------------------------------
(***************************************************************************)
(* One app behind the static host: its directory on the shared volume, the *)
(* control-plane handlers that replace the bundle and rewrite the manifest *)
(* next to it, and the requests the static host answers from it, from the  *)
(* backend, or after waking the backend.                                   *)
(*                                                                         *)
(* The two are separate processes.  The control plane is one event loop:   *)
(* what it does between two awaits is a section of several file operations *)
(* that no other handler of its own enters, and that the static host may   *)
(* look at half way.  A request of the static host reads the directory     *)
(* once to see that it is there, once for the manifest, once to find a     *)
(* file, once for its length and once to open it.                          *)
(***************************************************************************)
EXTENDS Naturals, FiniteSets

CONSTANTS
  Requests,       \* requests for the app's hostname
  Editors,        \* handlers that change a setting
  MaxUploads,     \* BOUND: bundles uploaded
  MaxEdits,       \* BOUND: settings changed
  MaxCrashes,     \* BOUND: times the control plane is killed
  WakeTries,      \* WAKE_RETRY_BUDGET, in retries
  GatewayTries    \* GATEWAY_RETRY_BUDGET, in retries

ASSUME SiteAssumption ==
  /\ Cardinality(Editors) \in Nat /\ Editors \cap {"upload", "sweep", "nobody"} = {}
  /\ {MaxUploads, MaxEdits, MaxCrashes} \subseteq Nat
  /\ WakeTries \in Nat \ {0} /\ GatewayTries \in 1..WakeTries

VARIABLES
  row,         \* apps: image, spa, redirects, has_frontend
  target, staging, old,   \* <root>/<app>, <root>/.<app>.new, <root>/.<app>.old
  at,          \* where each handler of the control plane is
  got,         \* the row a handler has read
  section,     \* the handler whose section the control plane is in
  req,         \* the static host's requests
  left,        \* what the bounds still allow
  published,   \* HISTORY: the last bundle that was swapped in
  seen,        \* HISTORY: per request, what the directory held meanwhile
  fate         \* HISTORY: per request, whether the app has carried it out and
               \* said so: "none", "doubt", "said"; "again" if once more then

disk    == <<target, staging, old>>
control == <<row, disk, at, got, section>>
vars    == <<control, req, left, published, seen, fate>>

Handlers == Editors \cup {"upload", "sweep"}

\* What a manifest says; "Absent/broken means static only, no backend".
Settings   == [backend : BOOLEAN, spa : BOOLEAN, rules : BOOLEAN]
StaticOnly == [backend |-> FALSE, spa |-> FALSE, rules |-> FALSE]

\* The bundles, as they come; none.
Bundles == 0..MaxUploads + 1

\* A directory: the bundle in it (0: none), whether all of its files are there,
\* and what its manifest is read as.
Gone == [there |-> FALSE, site |-> 0, whole |-> TRUE, cfg |-> StaticOnly]

Desired == [backend |-> row.image, spa |-> row.spa, rules |-> row.rules]

\* _FRONTED: a bundle, rules, or a backend that sleeps.
Fronted == row.front \/ row.rules \/ row.image

\* A request is for a file every bundle has, for a path no bundle has, or it is
\* a write or an upgrade.
Kinds == {"file", "page", "write", "upgrade"}

Fresh == [at |-> "none", kind |-> "file", backend |-> FALSE, spa |-> FALSE, budget |-> 0,
          tries |-> 0, answer |-> "none", file |-> 0]

\* The app starts as a backend that sleeps and has no directory yet, or as a
\* site without a backend.
Init ==
  /\ \E asleep \in BOOLEAN :
       /\ row = [image |-> asleep, spa |-> FALSE, rules |-> FALSE, front |-> ~asleep]
       /\ published = IF asleep THEN 0 ELSE 1
       /\ target = IF asleep THEN Gone
                   ELSE [there |-> TRUE, site |-> 1, whole |-> TRUE, cfg |-> StaticOnly]
  /\ staging = Gone /\ old = Gone
  /\ at = [h \in Handlers |-> "idle"]
  /\ got = [h \in Handlers |-> StaticOnly]
  /\ section = "nobody"
  /\ req = [r \in Requests |-> Fresh]
  /\ left = [uploads |-> MaxUploads, edits |-> MaxEdits, crashes |-> MaxCrashes]
  /\ seen = [r \in Requests |-> {}]
  /\ fate = [r \in Requests |-> "none"]

Open(r) == req[r].at \notin {"none", "done"}

\* Every file operation of the control plane on the directory goes through
\* here, so that seen keeps up with it.
Replace(d) ==
  /\ target' = d
  /\ seen' = [r \in Requests |-> IF Open(r) THEN seen[r] \cup {d.site} ELSE seen[r]]
-----------------------------------------------------------------------------
(* The control plane. *)

Step(h, from, to) ==
  /\ at[h] = from /\ section \in {"nobody", h}
  /\ at' = [at EXCEPT ![h] = to]

Outside == UNCHANGED <<req, fate>>

StartsUpload ==
  /\ left.uploads > 0 /\ section = "nobody"
  /\ Step("upload", "idle", "unpack")
  /\ left' = [left EXCEPT !.uploads = @ - 1]
  /\ section' = "upload"

Unpacking == [there |-> TRUE, site |-> MaxUploads - left.uploads + 2, whole |-> FALSE,
              cfg |-> StaticOnly]

\* Mutant: what an earlier upload left behind is tidied away at the start.
UploadTidies ==
  /\ StartsUpload
  /\ staging' = Unpacking /\ old' = Gone
  /\ UNCHANGED <<row, target, got, published, seen>> /\ Outside

\* Mutant: the files are unpacked over those in place.
UploadOverwrites ==
  /\ StartsUpload
  /\ staging' = Unpacking /\ Replace([Unpacking EXCEPT !.cfg = target.cfg])
  /\ UNCHANGED <<row, old, got, published>> /\ Outside

\* deploy_bundle, deploy_files: the archive is fine so far; staging is emptied.
UploadBegins ==
  /\ StartsUpload
  /\ staging' = Unpacking
  /\ UNCHANGED <<row, target, old, got, published, seen>> /\ Outside

\* A bundle without an index page is thrown away again.
UploadRefused ==
  /\ Step("upload", "unpack", "idle")
  /\ staging' = Gone /\ section' = "nobody"
  /\ UNCHANGED <<row, target, old, got, left, published, seen>> /\ Outside

\* The last file is written and the manifest in place is copied next to it.
UploadUnpacks ==
  /\ Step("upload", "unpack", "move")
  /\ staging' = [staging EXCEPT !.whole = TRUE, !.cfg = target.cfg]
  /\ UNCHANGED <<row, target, old, got, section, left, published, seen>> /\ Outside

\* target.rename(old), over whatever an earlier upload left there.
UploadMoves ==
  /\ Step("upload", "move", "swap")
  /\ old' = target
  /\ Replace(Gone)
  /\ UNCHANGED <<row, staging, got, section, left, published>> /\ Outside

\* staging.rename(target); the old bundle is removed.
UploadSwaps ==
  /\ Step("upload", "swap", "update")
  /\ Replace(staging)
  /\ published' = staging.site
  /\ staging' = Gone /\ old' = Gone /\ section' = "nobody"
  /\ UNCHANGED <<row, got, left>> /\ Outside

UploadRecords ==
  /\ Step("upload", "update", "read")
  /\ row' = [row EXCEPT !.front = TRUE]
  /\ UNCHANGED <<disk, got, section, left, published, seen>> /\ Outside

\* apps_redirects_set and apps_update spa=...: neither waits for a lock.
EditRules(h) ==
  /\ left.edits > 0
  /\ Step(h, "idle", "read")
  /\ row' = [row EXCEPT !.rules = ~@]
  /\ left' = [left EXCEPT !.edits = @ - 1]
  /\ UNCHANGED <<disk, got, section, published, seen>> /\ Outside

EditSpa(h) ==
  /\ left.edits > 0
  /\ Step(h, "idle", "spa")
  /\ row' = [row EXCEPT !.spa = ~@]
  /\ got' = [got EXCEPT ![h].spa = ~row.spa]
  /\ left' = [left EXCEPT !.edits = @ - 1]
  /\ UNCHANGED <<disk, section, published, seen>> /\ Outside

\* The row is read; the answer is acted on when the loop gets back to the
\* handler.  _set_spa writes the flag it was asked for, not the row's.
Reads(h) ==
  /\ \/ /\ Step(h, "read", "write")
        /\ got' = [got EXCEPT ![h] = Desired]
     \/ /\ Step(h, "spa", "spawrite")
        /\ got' = [got EXCEPT ![h] = [Desired EXCEPT !.spa = got[h].spa]]
  /\ UNCHANGED <<row, disk, section, left, published, seen>> /\ Outside

\* Mutant: an app that has a directory has its manifest.
SyncReadsNew(h) ==
  /\ \A o \in Handlers : at[o] \notin {"syncwrite", "synctorn"}
  /\ IF Fronted /\ ~target.there
     THEN /\ Step(h, IF h = "sweep" THEN "idle" ELSE "sync", "syncwrite")
          /\ got' = [got EXCEPT ![h] = Desired]
     ELSE /\ Step(h, "sync", "idle")
          /\ UNCHANGED got
  /\ UNCHANGED <<row, disk, section, left, published, seen>> /\ Outside

\* sync_frontend_routes, which the sweep runs and an upload and a change of
\* the rules end with: one at a time, over the apps the static host fronts.
SyncReads(h) ==
  /\ \A o \in Handlers : at[o] \notin {"syncwrite", "synctorn"}
  /\ IF Fronted
     THEN /\ Step(h, IF h = "sweep" THEN "idle" ELSE "sync", "syncwrite")
          /\ got' = [got EXCEPT ![h] = Desired]
     ELSE /\ Step(h, "sync", "idle")
          /\ UNCHANGED got
  /\ UNCHANGED <<row, disk, section, left, published, seen>> /\ Outside

\* write_manifest: the directory is made, the file emptied, then written; half
\* written it is read as no manifest.
WriteBegins(h) ==
  /\ section = "nobody"
  /\ \/ Step(h, "write", "torn") \/ Step(h, "spawrite", "spatorn")
     \/ Step(h, "syncwrite", "synctorn")
  /\ section' = h
  /\ Replace([target EXCEPT !.there = TRUE, !.cfg = StaticOnly])
  /\ UNCHANGED <<row, staging, old, got, left, published>> /\ Outside

WriteEnds(h) ==
  /\ \/ Step(h, "torn", "sync") \/ Step(h, "spatorn", "idle")
     \/ Step(h, "synctorn", "idle")
  /\ section' = "nobody"
  /\ Replace([target EXCEPT !.cfg = got[h]])
  /\ got' = [got EXCEPT ![h] = StaticOnly]
  /\ UNCHANGED <<row, staging, old, left, published>> /\ Outside

\* The control plane is replaced, often by its own deploy, wherever it is.
Crash ==
  /\ left.crashes > 0
  /\ left' = [left EXCEPT !.crashes = @ - 1]
  /\ at' = [h \in Handlers |-> "idle"]
  /\ got' = [h \in Handlers |-> StaticOnly]
  /\ section' = "nobody"
  /\ UNCHANGED <<row, disk, published, seen>> /\ Outside
-----------------------------------------------------------------------------
(* The backend, as the static host meets it through Traefik: asleep,        *)
(* starting, up or on its way down, as it likes.                           *)

\* How one hop can end: no connection, or one that breaks; no router, so the
\* request comes back to the static host, which says so; a gateway error; an
\* error; or an answer.
Results == {"unreached", "down", "gateway", "error", "missing", "ok"}

\* And whether the app has carried the request out: it may have in all but one.
Outcomes == {o \in Results \X BOOLEAN : o[1] = "down" => ~o[2]}
-----------------------------------------------------------------------------
(* The static host. *)

\* A step of request r that changes its record to q.
Goes(r, q) == /\ req' = [req EXCEPT ![r] = q]
              /\ UNCHANGED <<control, left, published, seen>>

Moves(r, from, to) == req[r].at = from /\ Goes(r, [req[r] EXCEPT !.at = to])

\* The answer goes out, and what the request remembered goes with it.
AnswersWith(r, a, f) ==
  /\ req' = [req EXCEPT ![r] = [Fresh EXCEPT !.at = "done", !.answer = a, !.file = f]]
  /\ seen' = [seen EXCEPT ![r] = {}]
  /\ UNCHANGED <<control, left, published>>

\* No file of the bundle: a redirect, an error, or what the backend says.
Answers(r) == AnswersWith(r, "other", 0)

Idle == UNCHANGED fate

Ask(r) == \E k \in Kinds :
  /\ req[r].at = "none"
  /\ req' = [req EXCEPT ![r].at = "look", ![r].kind = k]
  /\ seen' = [seen EXCEPT ![r] = {target.site}]
  /\ UNCHANGED <<control, left, published>> /\ Idle

\* (ROOT / aid).is_dir(), or "no frontend for this host"
Looks(r) ==
  /\ req[r].at = "look"
  /\ IF target.there THEN Moves(r, "look", "manifest") ELSE Answers(r)
  /\ Idle

\* The manifest is read, and its rules are tried before anything else, though not
\* on an upgrade; a write or an upgrade is the backend's or nobody's.
ReadsManifest(r) ==
  /\ req[r].at = "manifest"
  /\ LET cfg == target.cfg IN
     \/ cfg.rules /\ req[r].kind # "upgrade" /\ Answers(r)
     \/ /\ req[r].kind \in {"write", "upgrade"}
        /\ IF cfg.backend THEN Moves(r, "manifest", "probe") ELSE Answers(r)
     \/ /\ req[r].kind \in {"file", "page"}
        /\ Goes(r, [req[r] EXCEPT !.at = "find", !.backend = cfg.backend, !.spa = cfg.spa])
  /\ Idle

\* A file of the bundle wins; then the backend; then nobody.
Finds(r) ==
  /\ req[r].at = "find"
  /\ IF req[r].kind = "file" /\ target.site > 0
     THEN Goes(r, [req[r] EXCEPT !.at = "send", !.backend = FALSE, !.spa = FALSE])
     ELSE Goes(r, [req[r] EXCEPT !.at = IF req[r].backend THEN "probe" ELSE "missing",
                                 !.backend = FALSE, !.kind = "page"])
  /\ Idle

\* FileResponse takes the file's length when it is sent, and fails if the file is
\* gone, or is the 404 page and another bundle has none.
Stats(r) ==
  /\ req[r].at = "send"
  /\ \/ target.site > 0 /\ Goes(r, [req[r] EXCEPT !.at = "open", !.file = target.site])
     \/ (target.site = 0 \/ req[r].kind = "page") /\ Answers(r)
  /\ Idle

\* The headers are out when it opens the file: one that is gone by then, or has
\* another length, breaks the answer off.
Opens(r) ==
  /\ req[r].at = "open"
  /\ \/ target.site # req[r].file /\ AnswersWith(r, "cut", 0)
     \/ /\ target.site > 0
        /\ AnswersWith(r, IF target.whole THEN "file" ELSE "torn", target.site)
  /\ Idle

\* _not_found: the router's page, the bundle's own 404 page if it ships one, or
\* a 404, the backend's if it gave one.
NotFound(r) ==
  /\ req[r].at = "missing"
  /\ \/ target.site > 0 /\ Moves(r, "missing", "send")
     \/ ~(req[r].spa /\ target.site > 0) /\ Answers(r)
  /\ Idle

\* The two answers that say the app has not had the request.
NotRunning == {"down", "gateway"}

\* Mutant: a 404 just after a wake is taken for Traefik's.
UnfulfilledNotFound == NotRunning \cup {"unreached", "error", "missing"}

\* What is tried again once the app has been woken: a 500 too.
Unfulfilled == NotRunning \cup {"unreached", "error"}

\* The answer of the app, or of Traefik, is the answer: but a page nobody has
\* goes back to the bundle.
Passes(r, res) ==
  IF res = "missing" /\ req[r].kind \in {"file", "page"}
  THEN Goes(r, [req[r] EXCEPT !.at = "missing", !.budget = 0, !.tries = 0])
  ELSE Answers(r)

\* Whether an answer leaves open that the app carried the request out: none, one
\* that may be the gateway's, and a 500 to an app that is just starting.
Doubtful(r, res) == res \in {"unreached", "gateway"} \/ (res = "error" /\ req[r].at = "retry")

Carried(r, res) == IF fate[r] \in {"said", "again"} THEN "again"
                   ELSE IF Doubtful(r, res) THEN "doubt" ELSE "said"

\* _send, _ws_dial: one hop.
Hop(r, res) ==
  \E o \in Outcomes :
    /\ res = o[1]
    /\ fate' = IF o[2] THEN [fate EXCEPT ![r] = Carried(r, res)] ELSE fate

\* _proxy, _ws_open: the first try, on the budget its failure earns.
Probes(r) == \E res \in Results :
  /\ req[r].at = "probe"
  /\ Hop(r, res)
  /\ IF res \in NotRunning \cup {"unreached"}
     THEN Goes(r, [req[r] EXCEPT
                !.at = IF res = "unreached" THEN "retry" ELSE "wake",
                !.budget = IF res = "down" THEN WakeTries ELSE GatewayTries])
     ELSE Passes(r, res)

\* _wake blocks until Sablier has the app healthy; Traefik may not know yet.
Wakes(r) ==
  /\ req[r].at = "wake"
  /\ Moves(r, "wake", "retry") \/ Answers(r)
  /\ Idle

Retries(r) == \E res \in Results :
  /\ req[r].at = "retry" /\ req[r].tries < req[r].budget
  /\ Hop(r, res)
  /\ IF res \in Unfulfilled
     THEN Goes(r, [req[r] EXCEPT !.tries = @ + 1])
     ELSE Passes(r, res)

\* The budget is spent.  A request is sent once more and what comes back is
\* passed on; an upgrade is refused as it was the last time.
GivesUp(r) ==
  /\ req[r].at = "retry" /\ req[r].tries = req[r].budget
  /\ \/ req[r].kind = "upgrade" /\ Answers(r) /\ Idle
     \/ /\ req[r].kind # "upgrade"
        /\ \E res \in Results :
             /\ Hop(r, res)
             /\ IF res = "unreached" THEN Answers(r) ELSE Passes(r, res)
-----------------------------------------------------------------------------
\* What the static host does by itself, or waits for with a timeout, and what it
\* waits for until the backend answers.
Serves(r) == Looks(r) \/ ReadsManifest(r) \/ Finds(r) \/ Stats(r) \/ Opens(r) \/ NotFound(r)
             \/ Wakes(r)
Forwards(r) == Probes(r) \/ Retries(r) \/ GivesUp(r)

Upload == UploadRefused \/ UploadUnpacks \/ UploadMoves \/ UploadSwaps \/ UploadRecords

Handle(h) == Reads(h) \/ SyncReads(h) \/ WriteBegins(h) \/ WriteEnds(h)

Next ==
  \/ UploadBegins \/ Upload \/ Crash
  \/ \E h \in Editors : EditRules(h) \/ EditSpa(h)
  \/ \E h \in Handlers : Handle(h)
  \/ \E r \in Requests : Ask(r) \/ Serves(r) \/ Forwards(r)

\* Handlers go on, the sweep comes round, and the static host goes on with what
\* is its own to do.  A hop may take for ever: it is read without a timeout.
Spec ==
  /\ Init /\ [][Next]_vars
  /\ WF_vars(Upload) /\ \A h \in Handlers : WF_vars(Handle(h))
  /\ \A r \in Requests : WF_vars(Serves(r))
-----------------------------------------------------------------------------
Dirs == [there : BOOLEAN, site : Bundles, whole : BOOLEAN, cfg : Settings]

ControlTypes ==
  /\ row \in [image : BOOLEAN, spa : BOOLEAN, rules : BOOLEAN, front : BOOLEAN]
  /\ target \in Dirs /\ staging \in Dirs /\ old \in Dirs
  /\ at \in [Handlers -> {"idle", "unpack", "move", "swap", "update", "read", "write",
                          "torn", "spa", "spawrite", "spatorn", "sync", "syncwrite",
                          "synctorn"}]
  /\ got \in [Handlers -> Settings]
  /\ section \in Handlers \cup {"nobody"}
  /\ left \in [uploads : 0..MaxUploads, edits : 0..MaxEdits, crashes : 0..MaxCrashes]
  /\ published \in Bundles

Places == {"none", "look", "manifest", "find", "send", "open", "missing", "probe", "wake",
           "retry", "done"}

Visits == [at : Places, kind : Kinds, backend : BOOLEAN, spa : BOOLEAN,
           budget : 0..WakeTries, tries : 0..WakeTries,
           answer : {"none", "file", "torn", "cut", "other"}, file : Bundles]

\* Retries are counted while they are made, and within their budget.
Counted(q) == q.tries <= q.budget /\ (q.at # "retry" => q.tries = 0)

RequestTypes ==
  /\ req \in [Requests -> Visits] /\ \A r \in Requests : Counted(req[r])
  /\ seen \in [Requests -> SUBSET Bundles]
  /\ fate \in [Requests -> {"none", "doubt", "said", "again"}]

TypeOK == ControlTypes /\ RequestTypes

\* Wherever the control plane is killed once, a bundle as new as the last one that
\* went live is whole in one of the three directories, and no later upload
\* removes it before it has its own.  Killed twice between the two renames, it
\* is lost: SiteLost.cfg.  (deploy_bundle, deploy_files.)
NeverLost ==
  published > 0 =>
    \E d \in {target, staging, old} : d.there /\ d.whole /\ d.site >= published

\* Over every wake, retry, stop and deploy of the backend, a request the app has
\* carried out is sent again only if no answer said so: the connection broke, the
\* answer may have been the gateway's, or it was a 500 to an app just woken.  An
\* answer of the app's, its 404 after a wake and its 500 before one included, is
\* the last.  (_proxy, _ws_open.)
RepeatedOnlyInDoubt == \A r \in Requests : fate[r] # "again"

\* "502/503/504 all mean the request was not fulfilled, so re-sending cannot
\* double-apply it": an app that answers so, or a connection that breaks, after
\* the request was carried out does not keep this: SiteResends.cfg.
AppliedOnce == [][\A r \in Requests : fate[r] = "doubt" => fate'[r] # "said"]_vars

\* Whatever order the handlers write the manifest in, from rows read when, and
\* wherever one was killed, the sweep brings it to what the row says, and
\* leaves it there but for the moments it writes it again.
SettingsSettle ==
  <>[](Fronted /\ section = "nobody" => target.there /\ target.cfg = Desired)

\* SitePromise sees the bundle in place, whether a request is the backend's for
\* now, and what it was answered.
Forwarded(r) == req[r].at \in {"probe", "wake", "retry"}

Told(r) == CASE req[r].at = "none" -> <<"none">>
             [] Forwarded(r) -> <<"forwarded">>
             [] Open(r) /\ ~Forwarded(r) -> <<"waiting">>
             [] req[r].at = "done" /\ req[r].answer = "file" -> <<"file", req[r].file>>
             [] OTHER -> <<req[r].answer>>

P == INSTANCE SitePromise
  WITH Sites <- Bundles, site <- target.site, seen <- seen,
       answer <- [r \in Requests |-> Told(r)]

\* A visitor whose request is not with the backend is answered, and with a whole
\* file of one bundle that was in place meanwhile; an answer that breaks off is
\* one a new bundle came under.
KeepsPromise == P!Promise

\* Of that, what needs no fairness: whatever a visitor is answered.
AnswersTruly == P!Truly
=============================================================================
