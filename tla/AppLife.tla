------------------------------ MODULE AppLife ------------------------------
(***************************************************************************)
(* The life of an app: requests that create it (alone or with its staging  *)
(* sister), give it a container, attach and detach its database, re-issue  *)
(* its deploy key, schedule a job on it and delete it.                     *)
(*                                                                         *)
(* Nothing here is a transaction.  An app is a row of the registry, its    *)
(* keys and its jobs, a login and a database on the shared server and an   *)
(* application of Coolify's; every statement commits by itself, every step *)
(* is an await at which another request may run, and no request but a      *)
(* deploy takes a lock.  What a request undoes when a step fails is what   *)
(* keeps the parts together.                                               *)
(***************************************************************************)
EXTENDS Naturals, Sequences

CONSTANTS
  Handlers,    \* requests; each is asked for once
  Main, Dev,   \* an id and its staging sister's, <id>-dev
  First,       \* who made what is there at the start
  Nobody,
  Faults,      \* steps that may fail, of github, pdb, coolify, busy, host, sql,
               \* mint, crash
  MaxFaults    \* BOUND: how many do

Ids    == {Main, Dev}
Makers == Handlers \cup {First}

ASSUME AppLifeAssumption ==
  /\ Main # Dev /\ First \notin Handlers /\ Nobody \notin Makers
  /\ Faults \subseteq {"github", "pdb", "coolify", "busy", "host", "sql", "mint", "crash"}
  /\ MaxFaults \in Nat

VARIABLES
  row,     \* apps: who inserted it, whether it names a database, coolify_uuid
  user, base,     \* who made the login and the database of that name
  keys,    \* api_keys: who minted the deploy keys of an id
  crons,   \* crons: whether an id has jobs
  applications,   \* Coolify's applications, by who made them
  my,      \* what each handler is doing
  left,    \* faults still allowed
  raced,   \* HISTORY: ids whose database was being dropped while another request
           \* that may drop it was at work
  stuck    \* HISTORY: <<request, id, "base" or "row">>: what it could not remove

things == <<row, user, base, keys, crons, applications>>
vars   == <<things, my, left, raced, stuck>>

NoRow == [by |-> Nobody, db |-> FALSE, uuid |-> Nobody]

There(id) == row[id].by # Nobody

\* pc; the request; the id in hand; the ids still to register, that one first;
\* those registered; whether a database is asked for or was read in the row;
\* the uuid read; whether the process still runs.
Idle == [pc |-> "idle", op |-> "none", id |-> Main, todo |-> <<>>, made |-> <<>>,
         db |-> FALSE, uuid |-> Nobody, up |-> TRUE]

\* There is a backend to start with, with a database or without, or nothing.
Init ==
  /\ \E there \in BOOLEAN, db \in BOOLEAN :
       LET if(c, v, w) == [id \in Ids |-> IF id = Main /\ c THEN v ELSE w] IN
       /\ row = if(there, [by |-> First, db |-> db, uuid |-> First], NoRow)
       /\ user = if(there /\ db, First, Nobody)
       /\ base = if(there /\ db, First, Nobody)
       /\ keys = if(there, {First}, {})
       /\ applications = IF there THEN {First} ELSE {}
  /\ crons = [id \in Ids |-> FALSE]
  /\ my = [h \in Handlers |-> Idle]
  /\ left = MaxFaults
  /\ raced = {} /\ stuck = {}
-----------------------------------------------------------------------------
At(h, pc) == my[h].up /\ my[h].pc = pc

Becomes(h, m)  == my' = [my EXCEPT ![h] = m]
Goes(h, pc)    == my' = [my EXCEPT ![h].pc = pc]

NoFault  == UNCHANGED left
Fault(f) == f \in Faults /\ left > 0 /\ left' = left - 1

AllGone == UNCHANGED stuck
Keeps(h, part) == stuck' = stuck \cup {<<h, my[h].id, part>>}

\* create_app's except clause: the next of the ids registered is unregistered;
\* when there is none the request has failed.
RollBack(m) ==
  IF m.made = <<>> THEN [m EXCEPT !.pc = "failed"]
  ELSE [m EXCEPT !.todo = <<>>, !.id = Head(m.made), !.made = Tail(m.made),
                 !.pc = IF m.db THEN "dropbase" ELSE "unkey"]

\* _register's: this id's database is dropped, but not an id's it did not make.
Undo(m) == IF m.db THEN [m EXCEPT !.pc = "dropbase"] ELSE RollBack(m)

\* What a step that raises leads to.
Raises(m) ==
  IF m.op # "create" THEN [m EXCEPT !.pc = "failed"] ELSE RollBack(m)

\* A request that would be refused at once is not asked: it changes nothing.
Ask(h) ==
  /\ At(h, "idle")
  /\ \/ \E ids \in {<<Main>>, <<Dev>>, <<Main, Dev>>}, db \in BOOLEAN :
          /\ ~There(Head(ids))
          /\ Becomes(h, [Idle EXCEPT !.pc = "check", !.op = "create", !.id = Head(ids),
                                     !.todo = ids, !.db = db])
     \/ \E id \in Ids, op \in {"attach", "detach", "delete", "deploy", "rekey", "cron"} :
          There(id) /\ Becomes(h, [Idle EXCEPT !.pc = "check", !.op = op, !.id = id])
  /\ UNCHANGED things /\ NoFault /\ AllGone

\* create_app: neither id may be taken; each is looked at by itself.
CreateChecks(h) ==
  /\ my[h].op = "create"
  /\ LET m == my[h]
         start == IF m.db THEN "user" ELSE "insert" IN
     \/ /\ At(h, "check")
        /\ Goes(h, CASE There(m.id) -> "refused"
                     [] Len(m.todo) = 2 -> "checkdev"
                     [] OTHER -> start)
     \/ /\ At(h, "checkdev")
        /\ Goes(h, IF There(Dev) THEN "refused" ELSE start)
  /\ UNCHANGED things /\ NoFault /\ AllGone

\* apply_image holds the app's lock; one deploy of an id at a time.
Locked(id) == \E g \in Handlers :
  my[g].up /\ my[g].op = "deploy" /\ my[g].id = id /\ my[g].pc \in {"newapp", "saveuuid"}

\* The other requests read the row once and go on with what it said.
Reads(h) ==
  /\ At(h, "check") /\ my[h].op # "create"
  /\ LET m == my[h]
         r == row[m.id]
         To(pc) == Becomes(h, [m EXCEPT !.pc = pc, !.db = r.db, !.uuid = r.uuid]) IN
     CASE ~There(m.id) -> Goes(h, "refused")
       [] m.op = "attach" -> IF r.db \/ r.uuid = Nobody THEN Goes(h, "refused")
                             ELSE Becomes(h, [m EXCEPT !.pc = "user", !.db = TRUE])
       [] m.op = "detach" -> IF r.db THEN To("dropbase") ELSE Goes(h, "refused")
       [] m.op = "delete" -> To(CASE r.uuid # Nobody -> "app"
                                  [] r.db -> "dropbase"
                                  [] OTHER -> "unkey")
       [] m.op = "deploy" -> /\ ~Locked(m.id)
                             /\ Goes(h, IF r.uuid = Nobody THEN "newapp" ELSE "done")
       [] m.op = "rekey"  -> Goes(h, "revoke")
       [] m.op = "cron"   -> Goes(h, "cron")
  /\ UNCHANGED things /\ NoFault /\ AllGone
-----------------------------------------------------------------------------
(* pdb: two statements to create, two to drop. *)

\* Mutant: whatever fails while the id is registered, its database is dropped.
CreateUserOrDrop(h) ==
  /\ At(h, "user")
  /\ LET m == my[h] IN
     IF user[m.id] = Nobody
     THEN user' = [user EXCEPT ![m.id] = h] /\ Goes(h, "base")
     ELSE /\ Becomes(h, IF m.op = "create" THEN Undo(m) ELSE Raises(m))
          /\ UNCHANGED user
  /\ UNCHANGED <<row, base, keys, crons, applications>> /\ NoFault /\ AllGone

\* CREATE USER, which fails when there is one.
CreateUser(h) ==
  /\ At(h, "user")
  /\ LET m == my[h] IN
     IF user[m.id] = Nobody
     THEN user' = [user EXCEPT ![m.id] = h] /\ Goes(h, "base")
     ELSE Becomes(h, Raises(m)) /\ UNCHANGED user
  /\ UNCHANGED <<row, base, keys, crons, applications>> /\ NoFault /\ AllGone

\* CREATE DATABASE.
CreateBase(h) ==
  /\ At(h, "base")
  /\ LET m == my[h] IN
     \/ /\ base[m.id] = Nobody /\ NoFault
        /\ base' = [base EXCEPT ![m.id] = h]
        /\ Goes(h, IF m.op = "create" THEN "insert" ELSE "save")
     \/ /\ Fault("pdb") \/ (base[m.id] # Nobody /\ NoFault)
        /\ Becomes(h, Raises(m)) /\ UNCHANGED base
  /\ UNCHANGED <<row, user, keys, crons, applications>> /\ AllGone

\* After a drop, or after one that failed where that is let pass.
Dropped(m) ==
  CASE m.op = "create" /\ m.todo # <<>> -> RollBack(m)
    [] m.op = "detach" -> [m EXCEPT !.pc = "clear"]
    [] OTHER -> [m EXCEPT !.pc = "unkey"]

DropRaises(m) == IF m.op = "create" THEN Dropped(m) ELSE [m EXCEPT !.pc = "failed"]

\* DROP DATABASE IF EXISTS, which fails while a container is connected to it, or
\* while the server cannot be reached.
DropBase(h) ==
  /\ At(h, "dropbase")
  /\ \/ /\ base' = [base EXCEPT ![my[h].id] = Nobody]
        /\ Goes(h, "dropuser") /\ NoFault /\ AllGone
     \/ /\ Fault("busy")
        /\ Becomes(h, DropRaises(my[h])) /\ UNCHANGED base
        /\ IF my[h].op = "create" THEN Keeps(h, "base") ELSE AllGone
  /\ UNCHANGED <<row, user, keys, crons, applications>>

\* DROP USER IF EXISTS, which fails while it owns a database, and with the server:
\* then the database is gone and the row of a detach or a delete still names it.
DropUser(h) ==
  /\ At(h, "dropuser")
  /\ \/ /\ base[my[h].id] = Nobody /\ NoFault /\ AllGone
        /\ user' = [user EXCEPT ![my[h].id] = Nobody]
        /\ Becomes(h, Dropped(my[h]))
     \/ /\ Becomes(h, DropRaises(my[h])) /\ UNCHANGED user
        /\ \/ base[my[h].id] # Nobody /\ NoFault /\ AllGone
           \/ Fault("busy") /\ IF my[h].op = "create" THEN AllGone ELSE Keeps(h, "row")
  /\ UNCHANGED <<row, base, keys, crons, applications>>
-----------------------------------------------------------------------------
(* The rest of _register, and the answer. *)

\* INSERT INTO apps, whose primary key is the id.
Insert(h) ==
  /\ At(h, "insert")
  /\ LET m == my[h] IN
     IF There(m.id) THEN Becomes(h, Undo(m)) /\ UNCHANGED row
     ELSE /\ row' = [row EXCEPT ![m.id] = [by |-> h, db |-> m.db, uuid |-> Nobody]]
          /\ Goes(h, "mint")
  /\ UNCHANGED <<user, base, keys, crons, applications>> /\ NoFault /\ AllGone

\* mint_key, for a new app or a new key; then the sister, or the delivery.
Mint(h) ==
  /\ At(h, "mint")
  /\ LET m == my[h] IN
     \/ /\ keys' = [keys EXCEPT ![m.id] = @ \cup {h}] /\ NoFault
        /\ IF Len(m.todo) < 2
           THEN Becomes(h, [m EXCEPT !.pc = "deliver", !.todo = <<>>, !.made = @ \o m.todo])
           ELSE Becomes(h, [m EXCEPT !.pc = IF m.db THEN "user" ELSE "insert",
                                     !.todo = Tail(@), !.id = Dev, !.made = <<m.id>>])
     \/ /\ Fault("mint") /\ UNCHANGED keys
        /\ Becomes(h, IF m.op = "create" THEN Undo(m) ELSE Raises(m))
  /\ UNCHANGED <<row, user, base, crons, applications>> /\ AllGone

\* Mutant: a key that could not be delivered is only reported.
DeliverOrNot(h) ==
  /\ At(h, "deliver")
  /\ \/ Goes(h, IF my[h].op = "create" /\ my[h].db THEN "compose" ELSE "done") /\ NoFault
     \/ Goes(h, "failed") /\ Fault("github")
  /\ UNCHANGED things /\ AllGone

\* _deliver_key: GitHub takes the keys, or they go into the answer.
Deliver(h) ==
  /\ At(h, "deliver")
  /\ \/ Goes(h, IF my[h].op = "create" /\ my[h].db THEN "compose" ELSE "done") /\ NoFault
     \/ Becomes(h, Raises(my[h])) /\ Fault("github")
  /\ UNCHANGED things /\ AllGone

\* The answer names the database: its server is asked for, outside of every try, so
\* that the app stays though the answer is an error.
Compose(h) ==
  /\ At(h, "compose")
  /\ \/ Goes(h, "done") /\ NoFault
     \/ Goes(h, "unanswered") /\ Fault("host")
  /\ UNCHANGED things /\ AllGone

\* _unregister and delete_app: keys, jobs (only a delete's), the row.
Unkey(h) ==
  /\ At(h, "unkey")
  /\ keys' = [keys EXCEPT ![my[h].id] = {}]
  /\ Goes(h, IF my[h].op = "create" THEN "unrow" ELSE "uncron")
  /\ UNCHANGED <<row, user, base, crons, applications>> /\ NoFault /\ AllGone

Uncron(h) ==
  /\ At(h, "uncron")
  /\ crons' = [crons EXCEPT ![my[h].id] = FALSE]
  /\ Goes(h, "unrow")
  /\ UNCHANGED <<row, user, base, keys, applications>> /\ NoFault /\ AllGone

Unrow(h) ==
  /\ At(h, "unrow")
  /\ row' = [row EXCEPT ![my[h].id] = NoRow]
  /\ Becomes(h, IF my[h].op = "create" THEN RollBack(my[h]) ELSE [my[h] EXCEPT !.pc = "done"])
  /\ UNCHANGED <<user, base, keys, crons, applications>> /\ NoFault /\ AllGone

\* A statement on the registry raises and writes nothing: a create's INSERT ends the
\* registration; a roll-back leaves that id as it is and goes on with the next; any
\* other request ends.  (One that has changed nothing yet has just not come.)
Declined(h) ==
  /\ my[h].up /\ Fault("sql")
  /\ LET m == my[h] IN
     \/ /\ m.pc = "insert" /\ AllGone
        /\ Becomes(h, Undo(m))
     \/ /\ m.pc \in {"unkey", "unrow"} /\ m.op = "create" /\ Keeps(h, "row")
        /\ Becomes(h, RollBack(m))
     \/ /\ m.pc \in {"unkey", "uncron", "unrow", "clear"} /\ m.op # "create" /\ Keeps(h, "row")
        /\ Goes(h, "failed")
     \/ /\ m.pc \in {"save", "saveuuid"} /\ AllGone
        /\ Goes(h, "failed")
  /\ UNCHANGED things
-----------------------------------------------------------------------------
(* The other requests. *)

\* coolify.delete_app: an application that is not there is an error.
DeleteApp(h) ==
  /\ At(h, "app")
  /\ LET m == my[h] IN
     \/ /\ m.uuid \in applications /\ NoFault
        /\ applications' = applications \ {m.uuid}
        /\ Goes(h, IF m.db THEN "dropbase" ELSE "unkey")
     \/ /\ (m.uuid \notin applications /\ NoFault) \/ Fault("coolify")
        /\ Goes(h, "failed") /\ UNCHANGED applications
  /\ UNCHANGED <<row, user, base, keys, crons>> /\ AllGone

\* Mutant: the row is written whether or not it is there.
Upserts(id, r) == row' = [row EXCEPT ![id] = r]

\* An UPDATE of a row that is gone changes nothing.
Updates(id, r) == row' = [row EXCEPT ![id] = IF There(id) THEN r ELSE NoRow]

\* attach_db: the row names the database; the container is told next.
Save(h) ==
  /\ At(h, "save")
  /\ Updates(my[h].id, [row[my[h].id] EXCEPT !.db = TRUE])
  /\ Goes(h, "tell")
  /\ UNCHANGED <<user, base, keys, crons, applications>> /\ NoFault /\ AllGone

\* Mutant: the container first, and the row only when that went well.
ClearLast(h) ==
  /\ At(h, "clear")
  /\ \/ /\ Updates(my[h].id, [row[my[h].id] EXCEPT !.db = FALSE])
        /\ Goes(h, "done") /\ NoFault
     \/ Fault("coolify") /\ Goes(h, "failed") /\ UNCHANGED row
  /\ UNCHANGED <<user, base, keys, crons, applications>> /\ AllGone

\* detach_db: the row stops naming it, before the container is told.
Clear(h) ==
  /\ At(h, "clear")
  /\ Updates(my[h].id, [row[my[h].id] EXCEPT !.db = FALSE])
  /\ Goes(h, IF my[h].uuid = Nobody THEN "done" ELSE "tell")
  /\ UNCHANGED <<user, base, keys, crons, applications>> /\ NoFault /\ AllGone

\* sync_env and deploy: Coolify's part, which may fail, and does for an
\* application that is gone.
Tell(h) ==
  /\ At(h, "tell")
  /\ \/ Goes(h, "done") /\ NoFault
     \/ Goes(h, "failed") /\ Fault("coolify")
  /\ UNCHANGED things /\ AllGone

\* apply_image, the first time: the application is made, and its uuid saved.
NewApp(h) ==
  /\ At(h, "newapp")
  /\ \/ applications' = applications \cup {h} /\ Goes(h, "saveuuid") /\ NoFault
     \/ Fault("coolify") /\ Goes(h, "failed") /\ UNCHANGED applications
  /\ UNCHANGED <<row, user, base, keys, crons>> /\ AllGone

\* The row is read again after that; there may be none.
SaveUuid(h) ==
  /\ At(h, "saveuuid")
  /\ Updates(my[h].id, [row[my[h].id] EXCEPT !.uuid = h])
  /\ Goes(h, IF There(my[h].id) THEN "done" ELSE "failed")
  /\ UNCHANGED <<user, base, keys, crons, applications>> /\ NoFault /\ AllGone

\* deploy_key: the keys there are go, then one is minted.
Revoke(h) ==
  /\ At(h, "revoke")
  /\ keys' = [keys EXCEPT ![my[h].id] = {}]
  /\ Goes(h, "mint")
  /\ UNCHANGED <<row, user, base, crons, applications>> /\ NoFault /\ AllGone

\* create_cron: the INSERT does not look at the app again.
AddCron(h) ==
  /\ At(h, "cron")
  /\ crons' = [crons EXCEPT ![my[h].id] = TRUE]
  /\ Goes(h, "done")
  /\ UNCHANGED <<row, user, base, keys, applications>> /\ NoFault /\ AllGone

Ended == {"idle", "done", "unanswered", "failed", "refused"}

\* A request that is at work, and may yet drop what goes by the id.
MayDrop(h, id) ==
  /\ my[h].up /\ my[h].pc \notin Ended \cup {"compose"}
  /\ \/ my[h].op \in {"detach", "delete"} /\ my[h].id = id
     \/ my[h].op = "create" /\ id \in {my[h].id} \cup {my[h].made[i] : i \in DOMAIN my[h].made}

Racing == {id \in Ids : \E h, g \in Handlers :
             h # g /\ my[h].op # "create" /\ MayDrop(h, id) /\ MayDrop(g, id)}

\* The control plane is replaced, with its requests wherever they are.
Crash ==
  /\ Fault("crash")
  /\ \E h \in Handlers : my[h].pc \notin Ended
  /\ my' = [h \in Handlers |-> [my[h] EXCEPT !.up = @ /\ my[h].pc \in Ended]]
  /\ UNCHANGED <<things, raced, stuck>>
-----------------------------------------------------------------------------
Step(h) ==
  \/ Ask(h) \/ CreateChecks(h) \/ Reads(h)
  \/ CreateUser(h) \/ CreateBase(h) \/ DropBase(h) \/ DropUser(h)
  \/ Insert(h) \/ Mint(h) \/ Deliver(h) \/ Compose(h) \/ Declined(h)
  \/ Unkey(h) \/ Uncron(h) \/ Unrow(h)
  \/ DeleteApp(h) \/ Save(h) \/ Clear(h) \/ Tell(h) \/ NewApp(h) \/ SaveUuid(h)
  \/ Revoke(h) \/ AddCron(h)

Next == Crash \/ \E h \in Handlers : Step(h) /\ raced' = raced \cup Racing'

Spec == Init /\ [][Next]_vars
-----------------------------------------------------------------------------
Pcs == Ended \cup
  {"check", "checkdev", "user", "base", "insert", "mint", "deliver", "compose", "dropbase",
   "dropuser", "unkey", "uncron", "unrow", "app", "save", "clear", "tell", "newapp",
   "saveuuid", "revoke", "cron"}

Ops == {"none", "create", "attach", "detach", "delete", "deploy", "rekey", "cron"}

Orders == {<<>>, <<Main>>, <<Dev>>, <<Main, Dev>>}

Requests == [pc : Pcs, op : Ops, id : Ids, todo : Orders, made : Orders,
             db : BOOLEAN, uuid : Makers \cup {Nobody}, up : BOOLEAN]

Rows == [by : Makers \cup {Nobody}, db : BOOLEAN, uuid : Makers \cup {Nobody}]

TypeOK ==
  /\ row \in [Ids -> Rows]
  /\ \A id \in Ids : ~There(id) => row[id] = NoRow
  /\ {user, base} \subseteq [Ids -> Makers \cup {Nobody}]
  /\ keys \in [Ids -> SUBSET Makers]
  /\ crons \in [Ids -> BOOLEAN]
  /\ applications \subseteq Makers
  /\ my \in [Handlers -> Requests]
  /\ left \in 0..MaxFaults /\ raced \subseteq Ids
  /\ stuck \subseteq Handlers \X Ids \X {"base", "row"}

Asked(ops, id) ==
  \E h \in Handlers : my[h].op \in ops /\ my[h].id = id

\* An app whose creation was answered stays, and so does one that is complete when
\* its answer fails (compose_url): whatever other creates, deploys,
\* attaches, failures, roll-backs and crashes do, its row, its key and its
\* database are those its creator made, until somebody asks to delete the app,
\* detach the database or re-issue the key.  (_register, _unregister.)
AcknowledgedKept ==
  \A h \in Handlers :
    my[h].op = "create" /\ my[h].pc \in {"done", "unanswered"} =>
      \A i \in DOMAIN my[h].made :
        LET id == my[h].made[i] IN
        ~Asked({"delete", "detach"}, id) =>
          /\ row[id].by = h
          /\ my[h].db => row[id].db /\ user[id] = h /\ base[id] = h
          /\ h \in keys[id] \/ Asked({"rekey"}, id)

\* "A half-made pair is worse than no pair": a create that was rolled back has left
\* no row, key or database of either id, whatever ran meanwhile, but for what the
\* roll-back was refused: a database that could not be dropped leaves no row or key
\* behind, a row that could not be deleted no database, and neither anything of the
\* other id.  (create_app, _register, _unregister.)
FailedLeavesNothing ==
  \A h \in Handlers :
    my[h].op = "create" /\ my[h].pc = "failed" =>
      \A id \in Ids :
        /\ <<h, id, "row">> \notin stuck => row[id].by # h /\ h \notin keys[id]
        /\ <<h, id, "base">> \notin stuck => base[id] # h

\* "A Coolify failure must never leave the registry claiming a database that has
\* been destroyed": a row names a database only while there is one, but for a
\* request between dropping it and saying so; whatever attaches, creates, failures
\* and crashes overlap with that, but for another request that drops it or one
\* that may still undo its creation, and for a row that could not be written.
\* (detach_db, attach_db, delete_app.)
Stale == {id \in Ids : \E h \in Handlers : <<h, id, "row">> \in stuck}

ClaimsDatabase ==
  \A id \in Ids \ (raced \cup Stale) :
    row[id].db /\ base[id] = Nobody =>
      \E h \in Handlers :
        /\ my[h].id = id /\ my[h].db
        /\ my[h].pc \in {"dropuser", "clear", "unkey", "uncron", "unrow"}

\* What the code does not keep, with the configuration that shows it.

\* "One active deploy key per app": two requests for one at once leave two.
\* (deploy_key; AppLifeKeys.cfg.)
OneActiveKey == \A id \in Ids : \A h, g \in keys[id] : h = g

\* delete_app takes an app's jobs with it, lest one "fires every minute for ever":
\* one scheduled while the app was being deleted stays.  The dispatcher joins jobs
\* with apps, so it is idle until the id is used again, and then it is that app's.
\* (create_cron; AppLifeJobs.cfg.)
JobsHaveApps ==
  \A id \in Ids : crons[id] /\ ~There(id) => \E h \in Handlers : my[h].pc \notin Ended

\* "Destroy an app completely" can be asked for again until it is done: the
\* application the row names is there for delete_app to delete.  It is not, once
\* a step after that has failed.  (delete_app; AppLifeStuck.cfg.)
Deletable ==
  \A id \in Ids : There(id) /\ row[id].uuid \notin applications \cup {Nobody} =>
    \E h \in Handlers : my[h].op = "delete" /\ my[h].pc \notin Ended
=============================================================================
