--------------------------- MODULE AppLifeProofs ---------------------------
(***************************************************************************)
(* For any number of requests: types; what an answered create made stays;  *)
(* a create that failed leaves nothing but what it was not let remove; a   *)
(* row claims only a database that is there.  The first two hold whatever  *)
(* fails.  The other two do not when mint_key's INSERT may fail, and say   *)
(* so.                                                                     *)
(*                                                                         *)
(* Each theorem has an invariant of its own, about one request h and one   *)
(* id: KeptBy, Traced and Owned.  A step of h is looked at action by       *)
(* action; a step of another request is shown to leave h's part alone.     *)
(***************************************************************************)
EXTENDS AppLife, SequenceTheorems, TLAPS

\* The ids a create has registered.
Made(m) == {m.made[i] : i \in DOMAIN m.made}

\* Before anything of an id is made, and while a database is dropped.
Begun   == {"check", "checkdev", "refused"}
Undoing == {"dropbase", "dropuser"}

\* A create whose keys are delivered: it undoes nothing any more.
Over == {"compose", "done", "unanswered"}

\* A create on its way: at Main, with Main made next or the pair, or at Dev, alone or
\* after Main.  And one rolling back, at an id that is no longer among those made.
Forward(m) ==
  \/ m.id = Main /\ m.todo \in {<<Main>>, <<Main, Dev>>} /\ m.made = <<>>
  \/ m.id = Dev /\ m.todo = <<Dev>> /\ m.made \in {<<>>, <<Main>>}

Backward(m) ==
  m.todo = <<>> /\ (m.made = <<>> \/ (m.made = <<Dev>> /\ m.id = Main))

\* Where a create can be, with which ids still to register and which registered.
WellCreate(m) ==
  \/ /\ m.pc \in Begun /\ Forward(m) /\ m.made = <<>>
     /\ m.pc = "checkdev" => m.todo = <<Main, Dev>>
  \/ m.pc \in {"user", "base"} /\ m.db /\ Forward(m)
  \/ m.pc \in {"insert", "mint"} /\ Forward(m)
  \/ m.pc \in Undoing /\ m.db /\ (Forward(m) \/ Backward(m))
  \/ m.pc \in {"unkey", "unrow"} /\ Backward(m)
  \/ m.pc \in {"deliver"} \cup Over /\ m.todo = <<>> /\ m.made \in Orders \ {<<>>}
  \/ m.pc = "failed" /\ m.made = <<>>

\* Where each of the other requests can be.
WellOther(m) ==
  /\ m.todo = <<>> /\ m.made = <<>>
  /\ \/ m.op # "none" /\ m.pc \in {"check", "refused", "done", "failed"}
     \/ m.op = "none"   /\ m.pc = "idle"
     \/ m.op = "attach" /\ (m.pc = "tell" \/ (m.db /\ m.pc \in {"user", "base", "save"}))
     \/ m.op = "detach" /\ (m.pc = "tell" \/ (m.db /\ m.pc \in Undoing \cup {"clear"}))
     \/ m.op = "delete" /\ (m.pc \in {"app", "unkey", "uncron", "unrow"}
                            \/ (m.db /\ m.pc \in Undoing))
     \/ m.op = "deploy" /\ m.pc \in {"newapp", "saveuuid"}
     \/ m.op = "rekey"  /\ m.pc \in {"revoke", "mint", "deliver"}
     \/ m.op = "cron"   /\ m.pc = "cron"

\* Every request is at a place of its own operation.
WellOne(m) == IF m.op = "create" THEN WellCreate(m) ELSE WellOther(m)

Well == \A h \in Handlers : WellOne(my[h])

\* An app's row, key and database are those h made.
Whole(h, id) ==
  /\ row[id].by = h
  /\ my[h].db => row[id].db /\ user[id] = h /\ base[id] = h
  /\ h \in keys[id] \/ Asked({"rekey"}, id)

\* The create in hand has inserted its row and not deleted it.
HasRow(m) == m.pc \in {"mint", "unkey", "unrow"} \/ (m.pc \in Undoing /\ m.todo = <<>>)

\* The strengthening of AcknowledgedKept: an app that h registered is whole, and of the
\* id in hand there is the login, then the database, then the row, until h drops them.
KeptBy(h, id) ==
  LET m == my[h] IN
  m.op = "create" =>
    /\ id \in Made(m) => Whole(h, id)
    /\ m.id = id =>
         /\ m.pc = "base" \/ (m.db /\ m.pc \in {"insert", "mint"} \cup Undoing) => user[id] = h
         /\ m.db /\ m.pc \in {"insert", "mint", "dropbase"} => base[id] = h
         /\ HasRow(m) => row[id].by = h
         /\ m.pc = "mint" /\ m.db => row[id].db

\* It holds of an id as long as nobody asks to delete the app or detach its database.
Kept == \A id \in Ids : ~Asked({"delete", "detach"}, id) => \A h \in Handlers : KeptBy(h, id)

\* What h could not remove of an id.
Unmoved(h, id, part) == <<h, id, part>> \in stuck

\* The strengthening of FailedLeavesNothing: whatever h made is of an id it knows it
\* registered, or of the id in hand, at a step that will still undo it, or it is what
\* it could not remove.
Traced(h, id) ==
  LET m == my[h] IN
  m.op \in {"none", "create"} =>
    /\ row[id].by = h =>
         Unmoved(h, id, "row") \/ id \in Made(m) \/ (m.id = id /\ HasRow(m))
    /\ h \in keys[id] =>
         \/ Unmoved(h, id, "row") \/ id \in Made(m)
         \/ m.id = id /\ HasRow(m) /\ m.pc \notin {"mint", "unrow"}
    /\ base[id] = h =>
         \/ Unmoved(h, id, "base")
         \/ m.db /\ (id \in Made(m) \/ (m.id = id /\ m.pc \in {"insert", "mint", "dropbase"}))

AllTraced == \A h \in Handlers, id \in Ids : Traced(h, id)

\* Dropped, and not yet said so in the row; Gap counts the login's drop in.
Later == {"clear", "unkey", "uncron", "unrow"}
Late(h, id) == my[h].id = id /\ my[h].db /\ my[h].pc \in Later
Gap(h, id)  == my[h].id = id /\ my[h].db /\ my[h].pc \in Later \cup {"dropuser"}

\* Nobody raced for the id, its row was written, and no crash cut a drop short.
Clean(id) == id \notin raced \cup Stale /\ \A h \in Handlers : Gap(h, id) => my[h].up

\* A request that made the database and goes on from there.
HoldsBase(m, id) ==
  \/ m.id = id /\ m.pc = "save"
  \/ m.op = "create" /\ m.db /\ m.id = id /\ m.pc \in {"insert", "mint", "dropbase"}
  \/ m.op = "create" /\ m.db /\ id \in Made(m) /\ m.pc \notin Over

\* A request that made the login.
HoldsUser(m, id) ==
  \/ HoldsBase(m, id)
  \/ m.id = id /\ m.pc = "base"
  \/ m.op = "create" /\ m.id = id /\ m.pc = "dropuser"

\* It made the login, and the row does not name the database.
Unclaimed(m, id) ==
  /\ m.id = id
  /\ \/ m.pc \in {"base", "save"}
     \/ m.op = "create" /\ m.db /\ m.pc = "insert"
     \/ m.op = "create" /\ m.pc \in Undoing /\ m.todo # <<>>

\* A detach or a delete that read a database in the row and has not dropped it yet.
Drops(m, id) ==
  m.op \in {"detach", "delete"} /\ m.id = id /\ m.db /\ m.pc \in {"app"} \cup Undoing

\* What a request relies on.  The login and the database are its own; a row that names a
\* database while h makes one is about to be cleared or deleted; the row names what h drops.
Owned(h, id) ==
  my[h].up =>
    /\ HoldsUser(my[h], id) => user[id] = h
    /\ HoldsBase(my[h], id) => base[id] = h
    /\ Unclaimed(my[h], id) /\ row[id].db => \E g \in Handlers : Late(g, id)
    /\ Drops(my[h], id) => row[id].db /\ (my[h].pc = "dropuser" => user[id] # Nobody)

\* The strengthening of ClaimsDatabase.  A database has a login; when a row names one
\* that is not there, there is a request between the drop and saying so.
Claimed(id) ==
  /\ base[id] # Nobody => user[id] # Nobody
  /\ row[id].db /\ base[id] = Nobody => \E g \in Handlers : Gap(g, id)
  /\ \A h \in Handlers : Owned(h, id)

\* It holds of clean ids, and the history has seen every race there is.
CleanClaimed == \A id \in Ids : Clean(id) => Claimed(id)
RacesSeen == Racing \subseteq raced

USE DEF Over
-----------------------------------------------------------------------------
\* The two ids one after the other are the pair.
LEMMA Pair == <<Main>> \o <<Dev>> = <<Main, Dev>>
<1> DEFINE s == <<Main>>
           t == <<Dev>>
           both == <<Main, Dev>>
<1>1. /\ s \in Seq(Ids) /\ t \in Seq(Ids) /\ both \in Seq(Ids)
      /\ Len(s) = 1 /\ Len(t) = 1 /\ Len(both) = 2
      BY DEF Ids
<1>2. s[1] = Main /\ t[1] = Dev /\ both[1] = Main /\ both[2] = Dev
      OBVIOUS
<1> HIDE DEF s, t, both
<1>3. /\ s \o t \in Seq(Ids) /\ Len(s \o t) = Len(s) + Len(t)
      /\ \A i \in 1..Len(s) + Len(t) :
           (s \o t)[i] = IF i <= Len(s) THEN s[i] ELSE t[i - Len(s)]
      BY <1>1, ConcatProperties
<1>4. \A i \in 1..Len(s \o t) : (s \o t)[i] = both[i]
      BY <1>1, <1>2, <1>3
<1>5. s \o t = both
      BY <1>1, <1>3, <1>4, SeqEqual
<1>6. QED
      BY <1>5 DEF s, t, both

\* The four lists of ids a create goes through: heads, tails, lengths, concatenations.
LEMMA Lists ==
  /\ Main # Dev /\ Main \in Ids /\ Dev \in Ids
  /\ <<Main>> # <<>> /\ <<Dev>> # <<>> /\ <<Main, Dev>> # <<>>
  /\ <<Main>> # <<Dev>> /\ <<Main, Dev>> # <<Main>> /\ <<Main, Dev>> # <<Dev>>
  /\ Head(<<Main>>) = Main /\ Head(<<Dev>>) = Dev /\ Head(<<Main, Dev>>) = Main
  /\ Tail(<<Main>>) = <<>> /\ Tail(<<Dev>>) = <<>> /\ Tail(<<Main, Dev>>) = <<Dev>>
  /\ Len(<<>>) = 0 /\ Len(<<Main>>) = 1 /\ Len(<<Dev>>) = 1 /\ Len(<<Main, Dev>>) = 2
  /\ <<>> \o <<>> = <<>> /\ <<>> \o <<Main>> = <<Main>> /\ <<>> \o <<Dev>> = <<Dev>>
  /\ <<Main>> \o <<Dev>> = <<Main, Dev>>
<1>1. Main # Dev /\ Main \in Ids /\ Dev \in Ids
      BY AppLifeAssumption DEF Ids
<1>2. /\ <<Main>> # <<>> /\ <<Dev>> # <<>> /\ <<Main, Dev>> # <<>>
      /\ <<Main>> # <<Dev>> /\ <<Main, Dev>> # <<Main>> /\ <<Main, Dev>> # <<Dev>>
      BY <1>1
<1>3. Head(<<Main>>) = Main /\ Head(<<Dev>>) = Dev /\ Head(<<Main, Dev>>) = Main
      BY <1>2
<1>4. Tail(<<Main>>) = <<>>
      OBVIOUS
<1>5. Tail(<<Dev>>) = <<>>
      OBVIOUS
<1>6. Tail(<<Main, Dev>>) = <<Dev>>
      OBVIOUS
<1>7. Len(<<>>) = 0 /\ Len(<<Main>>) = 1 /\ Len(<<Dev>>) = 1 /\ Len(<<Main, Dev>>) = 2
      OBVIOUS
<1>8. <<>> \o <<>> = <<>>
      OBVIOUS
<1>9. <<>> \o <<Main>> = <<Main>>
      OBVIOUS
<1>10. <<>> \o <<Dev>> = <<Dev>>
      OBVIOUS
<1>11. QED
      BY <1>1, <1>2, <1>3, <1>4, <1>5, <1>6, <1>7, <1>8, <1>9, <1>10, Pair

\* The ids of each list.
LEMMA MadeOf ==
  ASSUME NEW m
  PROVE  /\ m.made = <<>> => Made(m) = {}
         /\ m.made = <<Main>> => Made(m) = {Main}
         /\ m.made = <<Dev>> => Made(m) = {Dev}
         /\ m.made = <<Main, Dev>> => Made(m) = {Main, Dev}
<1>1. m.made = <<>> => Made(m) = {}
      BY DEF Made
<1>2. m.made = <<Main>> => Made(m) = {Main}
      BY DEF Made
<1>3. m.made = <<Dev>> => Made(m) = {Dev}
      BY DEF Made
<1>4. m.made = <<Main, Dev>> => Made(m) = {Main, Dev}
      BY DEF Made
<1>5. QED
      BY <1>1, <1>2, <1>3, <1>4

\* What a step of a request keeps.
Same(m, n) == n.op = m.op /\ n.db = m.db /\ n.up = m.up

Stays(m, n) == Same(m, n) /\ n.id = m.id /\ n.todo = m.todo /\ n.made = m.made

\* A create's next step backwards: the next of its ids, or the end.
RolledBack(m, n) ==
  /\ Same(m, n)
  /\ \/ m.made = <<>> /\ n.made = <<>> /\ n.pc = "failed"
     \/ /\ n.id \in Made(m) /\ Made(n) = Made(m) \ {n.id} /\ n.todo = <<>>
        /\ n.pc = IF m.db THEN "dropbase" ELSE "unkey"

\* Rolling back takes up the next of the ids registered, or ends.
LEMMA RollsBack ==
  ASSUME NEW m \in Requests, m.op = "create", WellCreate(m)
  PROVE  LET n == RollBack(m) IN n \in Requests /\ WellCreate(n) /\ RolledBack(m, n)
<1> DEFINE n == RollBack(m)
<1>1. CASE m.made = <<>>
  <2>1. n = [m EXCEPT !.pc = "failed"]
        BY <1>1 DEF RollBack
  <2>2. n \in Requests
        BY <2>1 DEF Requests, Pcs, Ended
  <2>3. n.pc = "failed" /\ n.made = <<>> /\ Same(m, n)
        BY <1>1, <2>1 DEF Requests, Same
  <2> HIDE DEF n
  <2>4. QED
        BY <1>1, <2>2, <2>3 DEF WellCreate, RolledBack, n
<1>2. CASE m.made # <<>>
  <2>1. n = [m EXCEPT !.todo = <<>>, !.id = Head(m.made), !.made = Tail(m.made),
                      !.pc = IF m.db THEN "dropbase" ELSE "unkey"]
        BY <1>2 DEF RollBack
  <2>2. \/ m.made = <<Main>> \/ m.made = <<Dev>> \/ m.made = <<Main, Dev>>
        BY <1>2 DEF Requests, Orders
  <2>3. /\ Head(m.made) \in Ids /\ Tail(m.made) \in Orders
        /\ (IF m.db THEN "dropbase" ELSE "unkey") \in Pcs
        BY <2>2, Lists DEF Orders, Pcs
  <2>4. n \in Requests
        BY <2>1, <2>3 DEF Requests, Orders
  <2>5. /\ n.todo = <<>> /\ n.id = Head(m.made) /\ n.made = Tail(m.made)
        /\ n.pc = (IF m.db THEN "dropbase" ELSE "unkey") /\ Same(m, n)
        BY <2>1 DEF Requests, Same
  <2> HIDE DEF n
  <2>6. n.id \in Made(m) /\ Made(n) = Made(m) \ {n.id}
        BY <2>2, <2>5, MadeOf, Lists
  <2>7. Backward(n)
        BY <2>2, <2>5, Lists DEF Backward
  <2>8. WellCreate(n)
        BY <2>5, <2>7 DEF WellCreate, Undoing, Same, Requests
  <2>9. QED
        BY <2>4, <2>5, <2>6, <2>8 DEF RolledBack, n
<1>3. QED
      BY <1>1, <1>2

\* One request moved.
Moved(h, n) ==
  /\ my' \in [Handlers -> Requests]
  /\ my'[h] = n /\ n \in Requests /\ WellOne(n)
  /\ \A g \in Handlers \ {h} : my'[g] = my[g]

\* A request that becomes a well-formed one has moved.
LEMMA Moving ==
  ASSUME TypeOK, NEW h \in Handlers, NEW n \in Requests, WellOne(n), Becomes(h, n)
  PROVE  Moved(h, n)
BY DEF TypeOK, Becomes, Moved

\* A request whose place alone changes.
LEMMA Going ==
  ASSUME TypeOK, NEW h \in Handlers, NEW p \in Pcs, Goes(h, p)
  PROVE  LET n == [my[h] EXCEPT !.pc = p] IN
         /\ n \in Requests /\ n.pc = p /\ Stays(my[h], n)
         /\ WellOne(n) => Moved(h, n)
<1> DEFINE m == my[h]
           n == [m EXCEPT !.pc = p]
<1>1. m \in Requests
      BY DEF TypeOK
<1>2. n \in Requests /\ n.pc = p /\ Stays(m, n)
      BY <1>1 DEF Requests, Stays, Same
<1>3. my' = [my EXCEPT ![h] = n]
      BY DEF Goes, TypeOK
<1>4. WellOne(n) => Moved(h, n)
      BY <1>2, <1>3 DEF TypeOK, Moved
<1>5. QED
      BY <1>2, <1>4

\* What each process of the code does to the request that runs it.  First the asking:
\* it has made nothing.
LEMMA Asks ==
  ASSUME TypeOK, Well, NEW h \in Handlers, Ask(h)
  PROVE  LET n == my'[h] IN
         /\ Moved(h, n) /\ my[h].op = "none" /\ my[h].pc = "idle" /\ n.op # "none"
         /\ n.pc = "check" /\ n.made = <<>>
<1> USE Lists
<1>1. my[h].pc = "idle" /\ my[h] \in Requests /\ WellOne(my[h])
      BY DEF Ask, At, TypeOK, Well
<1>2. my[h].op = "none"
      BY <1>1 DEF WellOne, WellCreate, WellOther, Begun, Undoing
<1>3. ASSUME NEW ids \in {<<Main>>, <<Dev>>, <<Main, Dev>>}, NEW db \in BOOLEAN,
             NEW n, n = [Idle EXCEPT !.pc = "check", !.op = "create", !.id = Head(ids),
                                     !.todo = ids, !.db = db]
      PROVE  /\ n \in Requests /\ WellOne(n)
             /\ n.op # "none" /\ n.pc = "check" /\ n.made = <<>>
  <2>1. n = [pc |-> "check", op |-> "create", id |-> Head(ids), todo |-> ids, made |-> <<>>,
             db |-> db, uuid |-> Nobody, up |-> TRUE]
        BY <1>3 DEF Idle
  <2>2. "check" \in Pcs /\ "create" \in Ops /\ Head(ids) \in Ids /\ ids \in Orders
        /\ <<>> \in Orders
        BY DEF Pcs, Ops, Orders
  <2>3. n \in Requests
        BY <2>1, <2>2 DEF Requests
  <2>4. WellOne(n)
        BY <2>1 DEF WellOne, WellCreate, Begun, Forward
  <2>5. QED
        BY <2>1, <2>3, <2>4
<1>4. ASSUME NEW id \in Ids, NEW op \in Ops \ {"none", "create"},
             NEW n, n = [Idle EXCEPT !.pc = "check", !.op = op, !.id = id]
      PROVE  /\ n \in Requests /\ WellOne(n)
             /\ n.op # "none" /\ n.pc = "check" /\ n.made = <<>>
  <2>1. n = [pc |-> "check", op |-> op, id |-> id, todo |-> <<>>, made |-> <<>>,
             db |-> FALSE, uuid |-> Nobody, up |-> TRUE]
        BY <1>4 DEF Idle
  <2>2. "check" \in Pcs /\ <<>> \in Orders
        BY DEF Pcs, Orders
  <2>3. n \in Requests
        BY <2>1, <2>2 DEF Requests
  <2>4. WellOne(n)
        BY <2>1 DEF WellOne, WellOther
  <2>5. QED
        BY <2>1, <2>3, <2>4
<1>5. CASE \E ids \in {<<Main>>, <<Dev>>, <<Main, Dev>>}, db \in BOOLEAN :
             Becomes(h, [Idle EXCEPT !.pc = "check", !.op = "create", !.id = Head(ids),
                                     !.todo = ids, !.db = db])
  <2>1. PICK ids \in {<<Main>>, <<Dev>>, <<Main, Dev>>}, db \in BOOLEAN :
             Becomes(h, [Idle EXCEPT !.pc = "check", !.op = "create", !.id = Head(ids),
                                     !.todo = ids, !.db = db])
        BY <1>5
  <2> DEFINE n == [Idle EXCEPT !.pc = "check", !.op = "create", !.id = Head(ids),
                               !.todo = ids, !.db = db]
  <2>2. /\ n \in Requests /\ WellOne(n)
        /\ n.op # "none" /\ n.pc = "check" /\ n.made = <<>>
        BY <1>3
  <2>3. Becomes(h, n)
        BY <2>1
  <2> HIDE DEF n
  <2>4. Moved(h, n) /\ my'[h] = n
        BY <2>2, <2>3, Moving DEF Moved
  <2>5. QED
        BY <1>1, <1>2, <2>2, <2>4
<1>6. CASE \E id \in Ids, op \in {"attach", "detach", "delete", "deploy", "rekey", "cron"} :
             Becomes(h, [Idle EXCEPT !.pc = "check", !.op = op, !.id = id])
  <2>1. PICK id \in Ids, op \in Ops \ {"none", "create"} :
             Becomes(h, [Idle EXCEPT !.pc = "check", !.op = op, !.id = id])
        BY <1>6 DEF Ops
  <2> DEFINE n == [Idle EXCEPT !.pc = "check", !.op = op, !.id = id]
  <2>2. /\ n \in Requests /\ WellOne(n)
        /\ n.op # "none" /\ n.pc = "check" /\ n.made = <<>>
        BY <1>4
  <2>3. Becomes(h, n)
        BY <2>1
  <2> HIDE DEF n
  <2>4. Moved(h, n) /\ my'[h] = n
        BY <2>2, <2>3, Moving DEF Moved
  <2>5. QED
        BY <1>1, <1>2, <2>2, <2>4
<1>7. QED
      BY <1>5, <1>6 DEF Ask

\* A create that looks at the ids is refused or begins.
LEMMA Checks ==
  ASSUME TypeOK, Well, NEW h \in Handlers, CreateChecks(h)
  PROVE  LET m == my[h]
             n == my'[h]
         IN  /\ Moved(h, n) /\ Stays(m, n) /\ m.op = "create" /\ m.pc \in Begun
             /\ m.made = <<>> /\ n.pc \in {"refused", "checkdev", IF m.db THEN "user" ELSE "insert"}
<1> USE Lists
<1> DEFINE m == my[h]
           start == IF m.db THEN "user" ELSE "insert"
<1>1. /\ m.op = "create" /\ m.pc \in {"check", "checkdev"} /\ m \in Requests
      /\ WellCreate(m)
      BY DEF CreateChecks, At, TypeOK, Well, WellOne
<1>2. /\ Forward(m) /\ m.made = <<>> /\ m.pc \in Begun
      /\ m.pc = "checkdev" \/ Len(m.todo) = 2 => m.todo = <<Main, Dev>>
      BY <1>1 DEF WellCreate, Begun, Undoing, Forward
<1>3. PICK p \in {"refused", "checkdev", start} :
        /\ Goes(h, p)
        /\ p = "checkdev" => Len(m.todo) = 2
      BY DEF CreateChecks
<1>4. p \in Pcs
      BY <1>3 DEF Pcs, Ended
<1> DEFINE n == [m EXCEPT !.pc = p]
<1>5. /\ n \in Requests /\ n.pc = p /\ Stays(m, n)
      /\ WellOne(n) => Moved(h, n)
      BY <1>3, <1>4, Going
<1> HIDE DEF n
<1>6. Forward(n) /\ n.made = <<>> /\ n.op = "create" /\ n.db = m.db
      BY <1>1, <1>2, <1>5 DEF Stays, Same, Forward
<1>7. n.pc = "checkdev" => n.todo = <<Main, Dev>>
      BY <1>2, <1>3, <1>5 DEF Stays
<1>8. WellOne(n)
      BY <1>3, <1>5, <1>6, <1>7, <1>1 DEF WellOne, WellCreate, Begun, Requests
<1>9. QED
      BY <1>1, <1>2, <1>3, <1>5, <1>8 DEF Moved

\* The other requests go on with what the row said: a detach or a delete drops a database
\* only when the row names it.
LEMMA Reading ==
  ASSUME TypeOK, Well, NEW h \in Handlers, Reads(h)
  PROVE  LET m == my[h]
             n == my'[h]
         IN  /\ Moved(h, n) /\ m.op \notin {"create", "none"} /\ m.pc = "check"
             /\ n.op = m.op /\ n.id = m.id /\ n.made = <<>> /\ n.up = m.up
             /\ n.pc \in {"refused", "user", "dropbase", "app", "unkey", "newapp", "done",
                          "revoke", "cron"}
             /\ n.op \in {"detach", "delete"} /\ n.pc # "refused" => n.db = row[n.id].db
<1> DEFINE m == my[h]
           r == row[m.id]
<1>1. m \in Requests /\ m.pc = "check" /\ m.op # "create" /\ WellOther(m)
      BY DEF Reads, At, TypeOK, Well, WellOne
<1>2. m.op # "none" /\ m.todo = <<>> /\ m.made = <<>>
      BY <1>1 DEF WellOther, Undoing
<1>3. r \in Rows /\ r.db \in BOOLEAN /\ r.uuid \in Makers \cup {Nobody}
      BY <1>1 DEF TypeOK, Requests, Rows
<1>4. ASSUME NEW p \in Pcs, Goes(h, p), p \in {"refused", "done", "newapp", "revoke", "cron"},
             m.op \in {"detach", "delete"} => p = "refused",
             p = "newapp" => m.op = "deploy", p = "revoke" => m.op = "rekey",
             p = "cron" => m.op = "cron"
      PROVE  /\ Moved(h, my'[h]) /\ Same(m, my'[h]) /\ my'[h].id = m.id
             /\ my'[h].made = <<>> /\ my'[h].pc = p
  <2> DEFINE n == [m EXCEPT !.pc = p]
  <2>1. /\ n \in Requests /\ n.pc = p /\ Stays(m, n)
        /\ WellOne(n) => Moved(h, n)
        BY <1>4, Going
  <2> HIDE DEF n
  <2>2. WellOne(n)
        BY <1>1, <1>2, <1>4, <2>1 DEF WellOne, WellOther, Stays, Same
  <2>3. QED
        BY <1>2, <2>1, <2>2 DEF Moved, Stays
<1>5. ASSUME NEW n \in Requests, Becomes(h, n), n.op = m.op, n.up = m.up, n.id = m.id,
             n.todo = m.todo, n.made = m.made, WellOther(n)
      PROVE  Moved(h, n) /\ my'[h] = n
      BY <1>1, <1>5, Moving DEF WellOne, Moved
<1>6. ASSUME NEW p \in Pcs, NEW db \in BOOLEAN, NEW u \in Makers \cup {Nobody},
             Becomes(h, [m EXCEPT !.pc = p, !.db = db, !.uuid = u]),
             \/ m.op = "detach" /\ p = "dropbase" /\ db
             \/ m.op = "delete" /\ (p \in {"app", "unkey"} \/ (p = "dropbase" /\ db))
             \/ m.op = "attach" /\ p = "user" /\ db
      PROVE  LET n == my'[h] IN
             /\ Moved(h, n) /\ n.op = m.op /\ n.up = m.up /\ n.id = m.id /\ n.made = <<>>
             /\ n.pc = p /\ n.db = db
  <2> DEFINE n == [m EXCEPT !.pc = p, !.db = db, !.uuid = u]
  <2>1. /\ n \in Requests /\ n.op = m.op /\ n.up = m.up /\ n.id = m.id
        /\ n.todo = m.todo /\ n.made = m.made /\ n.pc = p /\ n.db = db
        BY <1>1 DEF Requests
  <2>2. Becomes(h, n)
        BY <1>6
  <2> HIDE DEF n
  <2>3. WellOther(n)
        BY <1>2, <1>6, <2>1 DEF WellOther, Undoing
  <2>4. Moved(h, n) /\ my'[h] = n
        BY <1>5, <2>1, <2>2, <2>3
  <2>5. QED
        BY <1>2, <2>1, <2>4
<1>7. {"refused", "done", "newapp", "revoke", "cron", "user", "dropbase", "app", "unkey"}
        \subseteq Pcs
      BY DEF Pcs, Ended
<1> DEFINE To(p) == Becomes(h, [m EXCEPT !.pc = p, !.db = r.db, !.uuid = r.uuid])
<1>8. \/ \E p \in Pcs :
           /\ Goes(h, p) /\ p \in {"refused", "done", "newapp", "revoke", "cron"}
           /\ m.op \in {"detach", "delete"} => p = "refused"
           /\ p = "newapp" => m.op = "deploy"
           /\ p = "revoke" => m.op = "rekey"
           /\ p = "cron" => m.op = "cron"
      \/ m.op = "attach" /\ Becomes(h, [m EXCEPT !.pc = "user", !.db = TRUE])
      \/ m.op = "detach" /\ r.db /\ To("dropbase")
      \/ m.op = "delete" /\ \E p \in {"app", "unkey", "dropbase"} :
                              To(p) /\ (p = "dropbase" => r.db)
  <2>1. CASE ~There(m.id)
        BY <1>7, <2>1 DEF Reads
  <2> SUFFICES ASSUME There(m.id) PROVE <1>8!1 \/ <1>8!2 \/ <1>8!3 \/ <1>8!4
      BY <2>1
  <2>2. CASE m.op = "attach"
        BY <1>7, <2>2 DEF Reads
  <2>3. CASE m.op = "detach"
        BY <1>7, <2>3 DEF Reads
  <2>4. CASE m.op = "delete"
        BY <1>7, <2>4 DEF Reads
  <2>5. CASE m.op = "deploy"
        BY <1>7, <2>5 DEF Reads
  <2>6. CASE m.op \in {"rekey", "cron"}
        BY <1>7, <2>6 DEF Reads
  <2>7. QED
        BY <1>1, <1>2, <2>2, <2>3, <2>4, <2>5, <2>6 DEF Requests, Ops
<1>9. CASE m.op = "attach" /\ Becomes(h, [m EXCEPT !.pc = "user", !.db = TRUE])
  <2>1. [m EXCEPT !.pc = "user", !.db = TRUE]
          = [m EXCEPT !.pc = "user", !.db = TRUE, !.uuid = m.uuid]
        BY <1>1 DEF Requests
  <2>2. "user" \in Pcs /\ TRUE \in BOOLEAN /\ m.uuid \in Makers \cup {Nobody}
        BY <1>1, <1>7 DEF Requests
  <2>3. QED
        BY <1>1, <1>2, <1>6, <1>9, <2>1, <2>2
<1>10. CASE \E p \in Pcs :
           /\ Goes(h, p) /\ p \in {"refused", "done", "newapp", "revoke", "cron"}
           /\ m.op \in {"detach", "delete"} => p = "refused"
           /\ p = "newapp" => m.op = "deploy"
           /\ p = "revoke" => m.op = "rekey"
           /\ p = "cron" => m.op = "cron"
      BY <1>1, <1>2, <1>4, <1>10 DEF Same
<1>11. CASE m.op = "detach" /\ r.db /\ To("dropbase")
      BY <1>1, <1>2, <1>3, <1>6, <1>7, <1>11
<1>12. CASE m.op = "delete" /\ \E p \in {"app", "unkey", "dropbase"} :
                              To(p) /\ (p = "dropbase" => r.db)
  <2>1. PICK p \in {"app", "unkey", "dropbase"} : To(p) /\ (p = "dropbase" => r.db)
        BY <1>12
  <2>2. LET n == my'[h] IN
        /\ Moved(h, n) /\ n.op = m.op /\ n.up = m.up /\ n.id = m.id /\ n.made = <<>>
        /\ n.pc = p /\ n.db = r.db
    <3>1. p \in Pcs
          BY <1>7, <2>1
    <3>2. \/ m.op = "detach" /\ p = "dropbase" /\ r.db
          \/ m.op = "delete" /\ (p \in {"app", "unkey"} \/ (p = "dropbase" /\ r.db))
          \/ m.op = "attach" /\ p = "user" /\ r.db
          BY <1>12, <2>1
    <3>3. Becomes(h, [m EXCEPT !.pc = p, !.db = r.db, !.uuid = r.uuid])
          BY <2>1
    <3> HIDE DEF r
    <3>4. QED
          BY <1>3, <1>6, <3>1, <3>2, <3>3
  <2>3. QED
        BY <1>1, <1>2, <1>12, <2>1, <2>2
<1>13. QED
      BY <1>8, <1>9, <1>10, <1>11, <1>12

\* A step that raises ends the request, or starts a create's roll-back.
Fails(m, n) ==
  IF m.op = "create" THEN RolledBack(m, n) ELSE Stays(m, n) /\ n.pc = "failed"

\* _register's and attach_db's failures.
LEMMA Raising ==
  ASSUME NEW m \in Requests, WellOne(m),
         m.pc \in {"user", "base", "mint", "deliver"}
  PROVE  LET n == Raises(m) IN n \in Requests /\ WellOne(n) /\ Fails(m, n)
<1> DEFINE n == Raises(m)
<1>1. CASE m.op = "create"
  <2>1. n = RollBack(m) /\ WellCreate(m)
        BY <1>1 DEF Raises, WellOne
  <2>2. n \in Requests /\ WellCreate(n) /\ RolledBack(m, n)
        BY <1>1, <2>1, RollsBack DEF Begun
  <2>3. QED
        BY <1>1, <2>2 DEF WellOne, Fails, RolledBack, Same
<1>2. CASE m.op # "create"
  <2>1. n = [m EXCEPT !.pc = "failed"] /\ "failed" \in Pcs
        BY <1>2 DEF Raises, Pcs, Ended
  <2>2. n \in Requests /\ Stays(m, n) /\ n.pc = "failed"
        BY <2>1 DEF Requests, Stays, Same
  <2> HIDE DEF n
  <2>3. m.op # "none" /\ m.todo = <<>> /\ m.made = <<>>
        BY <1>2 DEF WellOne, WellOther, Undoing
  <2>4. WellOne(n)
        BY <1>2, <2>2, <2>3 DEF WellOne, WellOther, Stays, Same
  <2>5. QED
        BY <1>2, <2>2, <2>4 DEF Fails, n
<1>3. QED
      BY <1>1, <1>2

\* What _register undoes: its database, when it made one.
Undone(m, n) ==
  IF m.db THEN Stays(m, n) /\ n.pc = "dropbase" ELSE RolledBack(m, n)

\* An INSERT that fails undoes the database of its id.
LEMMA Undoes ==
  ASSUME NEW m \in Requests, m.op = "create", WellCreate(m), m.pc \in {"insert", "mint"}
  PROVE  LET n == Undo(m) IN n \in Requests /\ WellOne(n) /\ Undone(m, n)
<1> DEFINE n == Undo(m)
<1>1. CASE m.db
  <2>1. n = [m EXCEPT !.pc = "dropbase"] /\ "dropbase" \in Pcs
        BY <1>1 DEF Undo, Pcs
  <2>2. n \in Requests /\ Stays(m, n) /\ n.pc = "dropbase"
        BY <2>1 DEF Requests, Stays, Same
  <2> HIDE DEF n
  <2>3. Forward(m)
        BY DEF WellCreate, Begun, Undoing
  <2>4. Forward(n)
        BY <2>2, <2>3 DEF Forward, Stays
  <2>5. WellOne(n)
        BY <1>1, <2>2, <2>4 DEF WellOne, WellCreate, Undoing, Stays, Same
  <2>6. QED
        BY <1>1, <2>2, <2>5 DEF Undone, n
<1>2. CASE ~m.db
  <2>1. n = RollBack(m)
        BY <1>2 DEF Undo
  <2>2. n \in Requests /\ WellCreate(n) /\ RolledBack(m, n)
        BY <1>2, <2>1, RollsBack DEF Begun
  <2>3. QED
        BY <1>2, <2>2 DEF WellOne, Undone, RolledBack, Same
<1>3. QED
      BY <1>1, <1>2 DEF Requests

\* After a drop.
After(m, n) ==
  IF m.op = "create" /\ m.todo # <<>> THEN RolledBack(m, n)
  ELSE Stays(m, n) /\ n.pc = IF m.op = "detach" THEN "clear" ELSE "unkey"

\* Only a create, a detach or a delete drops, and goes on or fails after it.
LEMMA Drop ==
  ASSUME NEW m \in Requests, WellOne(m), m.pc \in Undoing
  PROVE  /\ m.op \in {"create", "detach", "delete"} /\ m.db
         /\ LET n == Dropped(m) IN n \in Requests /\ WellOne(n) /\ After(m, n)
         /\ LET n == DropRaises(m) IN
            /\ n \in Requests /\ WellOne(n)
            /\ IF m.op = "create" THEN After(m, n) ELSE Stays(m, n) /\ n.pc = "failed"
<1>1. m.op \in {"create", "detach", "delete"} /\ m.db
      BY DEF WellOne, WellCreate, WellOther, Undoing, Begun
<1>2. LET n == Dropped(m) IN n \in Requests /\ WellOne(n) /\ After(m, n)
  <2> DEFINE n == Dropped(m)
  <2>1. CASE m.op = "create" /\ m.todo # <<>>
    <3>1. n = RollBack(m)
          BY <2>1 DEF Dropped
    <3>2. n \in Requests /\ WellCreate(n) /\ RolledBack(m, n)
          BY <2>1, <3>1, RollsBack DEF Begun, Undoing, WellOne
    <3>3. QED
          BY <2>1, <3>2 DEF WellOne, After, RolledBack, Same
  <2>2. CASE ~(m.op = "create" /\ m.todo # <<>>)
    <3> DEFINE p == IF m.op = "detach" THEN "clear" ELSE "unkey"
    <3>1. n = [m EXCEPT !.pc = p] /\ p \in Pcs
          BY <1>1, <2>2 DEF Dropped, Pcs
    <3>2. n \in Requests /\ Stays(m, n) /\ n.pc = p
          BY <3>1 DEF Requests, Stays, Same
    <3> HIDE DEF n
    <3>3. WellOne(n)
      <4>1. CASE m.op = "create"
        <5>1. Backward(m)
              BY <2>2, <4>1, Lists DEF WellOne, WellCreate, Forward, Begun, Undoing
        <5>2. Backward(n)
              BY <3>2, <5>1 DEF Backward, Stays
        <5>3. QED
              BY <3>2, <4>1, <5>2 DEF WellOne, WellCreate, Stays, Same
      <4>2. CASE m.op # "create"
        <5>1. m.todo = <<>> /\ m.made = <<>>
              BY <4>2 DEF WellOne, WellOther
        <5>2. QED
              BY <1>1, <3>2, <4>2, <5>1 DEF WellOne, WellOther, Stays, Same
      <4>3. QED
            BY <4>1, <4>2
    <3>4. QED
          BY <2>2, <3>2, <3>3 DEF After, n
  <2>3. QED
        BY <2>1, <2>2
<1>3. LET n == DropRaises(m) IN
      /\ n \in Requests /\ WellOne(n)
      /\ IF m.op = "create" THEN After(m, n) ELSE Stays(m, n) /\ n.pc = "failed"
  <2>1. CASE m.op = "create"
        BY <1>2, <2>1 DEF DropRaises
  <2>2. CASE m.op # "create"
    <3> DEFINE n == DropRaises(m)
    <3>1. n = [m EXCEPT !.pc = "failed"] /\ "failed" \in Pcs
          BY <2>2 DEF DropRaises, Pcs, Ended
    <3>2. n \in Requests /\ Stays(m, n) /\ n.pc = "failed"
          BY <3>1 DEF Requests, Stays, Same
    <3> HIDE DEF n
    <3>3. m.todo = <<>> /\ m.made = <<>>
          BY <2>2 DEF WellOne, WellOther
    <3>4. WellOne(n)
          BY <1>1, <2>2, <3>2, <3>3 DEF WellOne, WellOther, Stays, Same
    <3>5. QED
          BY <2>2, <3>2, <3>4 DEF n
  <2>3. QED
        BY <2>1, <2>2
<1>4. QED
      BY <1>1, <1>2, <1>3

\* The places a request goes to from the one it is at, when nothing is in its way.
Leads(m, p) ==
  \/ m.pc = "user" /\ p = "base"
  \/ m.pc = "base" /\ p = IF m.op = "create" THEN "insert" ELSE "save"
  \/ m.pc = "dropbase" /\ p = "dropuser"
  \/ m.pc = "insert" /\ p = "mint"
  \/ m.pc = "deliver" /\ p = IF m.op = "create" /\ m.db THEN "compose" ELSE "done"
  \/ m.pc = "compose" /\ p \in {"done", "unanswered"}
  \/ m.pc = "unkey" /\ p = IF m.op = "create" THEN "unrow" ELSE "uncron"
  \/ m.pc = "uncron" /\ p = "unrow"
  \/ m.pc = "app" /\ p = IF m.db THEN "dropbase" ELSE "unkey"
  \/ m.pc \in {"save", "clear"} /\ p = "tell"
  \/ m.pc = "newapp" /\ p = "saveuuid"
  \/ m.pc = "revoke" /\ p = "mint"
  \/ m.op # "create" /\ m.pc # "idle" /\ p \in {"done", "failed"}

\* A request that goes one of these ways is well-formed there.
LEMMA Leading ==
  ASSUME TypeOK, Well, NEW h \in Handlers, NEW p, Leads(my[h], p), Goes(h, p)
  PROVE  LET n == my'[h] IN Moved(h, n) /\ Stays(my[h], n) /\ n.pc = p
<1> DEFINE m == my[h]
           n == [m EXCEPT !.pc = p]
<1>1. m \in Requests /\ WellOne(m)
      BY DEF TypeOK, Well
<1>2. p \in Pcs
      BY DEF Leads, Pcs, Ended
<1>3. /\ n \in Requests /\ n.pc = p /\ Stays(m, n)
      /\ WellOne(n) => Moved(h, n)
      BY <1>2, Going
<1> HIDE DEF n
<1>4. CASE m.op = "create"
  <2> SUFFICES WellOne(n)
      BY <1>3 DEF Moved
  <2>1. /\ Forward(m) => Forward(n)
        /\ Backward(m) => Backward(n)
        BY <1>3 DEF Forward, Backward, Stays
  <2>2. CASE m.pc \in {"user", "base", "insert"}
        BY <1>1, <1>3, <1>4, <2>1, <2>2
        DEF Leads, WellOne, WellCreate, Stays, Same, Begun, Undoing
  <2>3. CASE m.pc \in {"dropbase", "unkey", "deliver", "compose"}
        BY <1>1, <1>3, <1>4, <2>1, <2>3
        DEF Leads, WellOne, WellCreate, Stays, Same, Begun, Undoing
  <2>4. CASE m.pc \notin {"user", "base", "insert", "dropbase", "unkey", "deliver", "compose"}
        BY <1>1, <1>4, <2>4 DEF Leads, WellOne, WellCreate, Begun, Undoing
  <2>5. QED
        BY <2>2, <2>3, <2>4
<1>5. CASE m.op # "create"
  <2>1. m.todo = <<>> /\ m.made = <<>> /\ n.todo = <<>> /\ n.made = <<>>
        BY <1>1, <1>3, <1>5 DEF WellOne, WellOther, Stays
  <2>2. WellOne(n)
        BY <1>1, <1>3, <1>5, <2>1 DEF Leads, WellOne, WellOther, Stays, Same, Undoing
  <2>3. QED
        BY <1>3, <2>2 DEF Moved
<1>6. QED
      BY <1>4, <1>5

\* my[h] becomes one of what the lemmas above say.
LEMMA Becoming ==
  ASSUME TypeOK, NEW h \in Handlers, NEW n \in Requests, WellOne(n), Becomes(h, n)
  PROVE  Moved(h, my'[h]) /\ my'[h] = n
BY Moving DEF Moved

\* CREATE USER: the login is h's and was nobody's, or the request fails.
LEMMA UserMade ==
  ASSUME TypeOK, Well, NEW h \in Handlers, CreateUser(h)
  PROVE  LET m == my[h]
             n == my'[h]
         IN  /\ Moved(h, n) /\ m.pc = "user"
             /\ \/ /\ user[m.id] = Nobody /\ user' = [user EXCEPT ![m.id] = h]
                   /\ Stays(m, n) /\ n.pc = "base"
                \/ user' = user /\ Fails(m, n)
<1> DEFINE m == my[h]
<1>1. m \in Requests /\ WellOne(m) /\ m.pc = "user"
      BY DEF TypeOK, Well, CreateUser, At
<1>2. CASE user[m.id] = Nobody
  <2>1. Goes(h, "base") /\ user' = [user EXCEPT ![m.id] = h]
        BY <1>2 DEF CreateUser
  <2>2. Leads(m, "base")
        BY <1>1 DEF Leads
  <2>3. QED
        BY <1>1, <1>2, <2>1, <2>2, Leading
<1>3. CASE user[m.id] # Nobody
  <2>1. Becomes(h, Raises(m)) /\ user' = user
        BY <1>3 DEF CreateUser
  <2>2. LET n == Raises(m) IN n \in Requests /\ WellOne(n) /\ Fails(m, n)
        BY <1>1, Raising
  <2>3. QED
        BY <1>1, <2>1, <2>2, Becoming
<1>4. QED
      BY <1>2, <1>3

\* CREATE DATABASE: likewise.
LEMMA BaseMade ==
  ASSUME TypeOK, Well, NEW h \in Handlers, CreateBase(h)
  PROVE  LET m == my[h]
             n == my'[h]
         IN  /\ Moved(h, n) /\ m.pc = "base"
             /\ \/ /\ base[m.id] = Nobody /\ base' = [base EXCEPT ![m.id] = h]
                   /\ Stays(m, n) /\ n.pc = IF m.op = "create" THEN "insert" ELSE "save"
                \/ base' = base /\ Fails(m, n)
<1> DEFINE m == my[h]
           p == IF m.op = "create" THEN "insert" ELSE "save"
<1>1. m \in Requests /\ WellOne(m) /\ m.pc = "base"
      BY DEF TypeOK, Well, CreateBase, At
<1>2. CASE base[m.id] = Nobody /\ base' = [base EXCEPT ![m.id] = h] /\ Goes(h, p)
  <2>1. Leads(m, p)
        BY <1>1 DEF Leads
  <2>2. QED
        BY <1>1, <1>2, <2>1, Leading
<1>3. CASE Becomes(h, Raises(m)) /\ base' = base
  <2>1. LET n == Raises(m) IN n \in Requests /\ WellOne(n) /\ Fails(m, n)
        BY <1>1, Raising
  <2>2. QED
        BY <1>1, <1>3, <2>1, Becoming
<1>4. QED
      BY <1>2, <1>3 DEF CreateBase

\* DROP DATABASE: it is gone, or a detach or a delete fails and a create leaves it.
LEMMA BaseDropped ==
  ASSUME TypeOK, Well, NEW h \in Handlers, DropBase(h)
  PROVE  LET m == my[h]
             n == my'[h]
         IN  /\ Moved(h, n) /\ m.pc = "dropbase" /\ m.db
             /\ m.op \in {"create", "detach", "delete"}
             /\ \/ /\ base' = [base EXCEPT ![m.id] = Nobody]
                   /\ Stays(m, n) /\ n.pc = "dropuser"
                \/ /\ base' = base
                   /\ IF m.op = "create" THEN After(m, n) /\ Keeps(h, "base")
                      ELSE Stays(m, n) /\ n.pc = "failed"
<1> DEFINE m == my[h]
<1>1. m \in Requests /\ WellOne(m) /\ m.pc = "dropbase" /\ m.pc \in Undoing
      BY DEF TypeOK, Well, DropBase, At, Undoing
<1>2. CASE base' = [base EXCEPT ![m.id] = Nobody] /\ Goes(h, "dropuser")
  <2>1. Leads(m, "dropuser")
        BY <1>1 DEF Leads
  <2>2. QED
        BY <1>1, <1>2, <2>1, Leading, Drop
<1>3. CASE /\ Becomes(h, DropRaises(m)) /\ base' = base
           /\ m.op = "create" => Keeps(h, "base")
  <2>1. LET n == DropRaises(m) IN
        /\ n \in Requests /\ WellOne(n)
        /\ IF m.op = "create" THEN After(m, n) ELSE Stays(m, n) /\ n.pc = "failed"
        BY <1>1, Drop
  <2>2. QED
        BY <1>1, <1>3, <2>1, Becoming, Drop
<1>4. QED
      BY <1>2, <1>3 DEF DropBase

\* DROP USER: gone, unless there is a database or the statement fails, which leaves the
\* row of a detach or a delete as it is.
LEMMA UserDropped ==
  ASSUME TypeOK, Well, NEW h \in Handlers, DropUser(h)
  PROVE  LET m == my[h]
             n == my'[h]
         IN  /\ Moved(h, n) /\ m.pc = "dropuser" /\ m.db
             /\ m.op \in {"create", "detach", "delete"}
             /\ \/ /\ base[m.id] = Nobody /\ user' = [user EXCEPT ![m.id] = Nobody]
                   /\ After(m, n)
                \/ /\ user' = user
                   /\ IF m.op = "create" THEN After(m, n)
                      ELSE /\ Stays(m, n) /\ n.pc = "failed"
                           /\ base[m.id] # Nobody \/ Keeps(h, "row")
<1> DEFINE m == my[h]
<1>1. m \in Requests /\ WellOne(m) /\ m.pc = "dropuser" /\ m.pc \in Undoing
      BY DEF TypeOK, Well, DropUser, At, Undoing
<1>2. CASE /\ base[m.id] = Nobody /\ user' = [user EXCEPT ![m.id] = Nobody]
           /\ Becomes(h, Dropped(m))
  <2>1. user' = [user EXCEPT ![m.id] = Nobody] /\ Becomes(h, Dropped(m))
        BY <1>2
  <2>2. LET n == Dropped(m) IN n \in Requests /\ WellOne(n) /\ After(m, n)
        BY <1>1, Drop
  <2>3. QED
        BY <1>1, <1>2, <2>1, <2>2, Becoming, Drop
<1>3. CASE /\ user' = user /\ Becomes(h, DropRaises(m))
           /\ m.op # "create" => base[m.id] # Nobody \/ Keeps(h, "row")
  <2>1. LET n == DropRaises(m) IN
        /\ n \in Requests /\ WellOne(n)
        /\ IF m.op = "create" THEN After(m, n) ELSE Stays(m, n) /\ n.pc = "failed"
        BY <1>1, Drop
  <2>2. QED
        BY <1>1, <1>3, <2>1, Becoming, Drop
<1>4. QED
      BY <1>2, <1>3 DEF DropUser

\* INSERT INTO apps: the row is h's and there was none, or the create undoes the id.
LEMMA Inserted ==
  ASSUME TypeOK, Well, NEW h \in Handlers, Insert(h)
  PROVE  LET m == my[h]
             n == my'[h]
         IN  /\ Moved(h, n) /\ m.pc = "insert" /\ m.op = "create"
             /\ \/ There(m.id) /\ row' = row /\ Undone(m, n)
                \/ /\ ~There(m.id) /\ Stays(m, n) /\ n.pc = "mint"
                   /\ row' = [row EXCEPT ![m.id] = [by |-> h, db |-> m.db, uuid |-> Nobody]]
<1> DEFINE m == my[h]
<1>1. m \in Requests /\ WellOne(m) /\ m.pc = "insert"
      BY DEF TypeOK, Well, Insert, At
<1>2. m.op = "create"
      BY <1>1 DEF WellOne, WellOther, Undoing
<1>3. CASE There(m.id)
  <2>1. row' = row /\ Becomes(h, Undo(m))
        BY <1>3 DEF Insert
  <2>2. LET n == Undo(m) IN n \in Requests /\ WellOne(n) /\ Undone(m, n)
        BY <1>1, <1>2, Undoes DEF WellOne
  <2>3. QED
        BY <1>1, <1>2, <1>3, <2>1, <2>2, Becoming
<1>4. CASE ~There(m.id)
  <2>1. /\ Goes(h, "mint")
        /\ row' = [row EXCEPT ![m.id] = [by |-> h, db |-> m.db, uuid |-> Nobody]]
        BY <1>4 DEF Insert
  <2>2. Leads(m, "mint")
        BY <1>1 DEF Leads
  <2>3. QED
        BY <1>1, <1>2, <1>4, <2>1, <2>2, Leading
<1>5. QED
      BY <1>3, <1>4

\* A create's id is registered once its key is minted.
LEMMA Minted ==
  ASSUME TypeOK, Well, NEW h \in Handlers, Mint(h)
  PROVE  LET m == my[h]
             n == my'[h]
         IN  /\ Moved(h, n) /\ m.pc = "mint" /\ Same(m, n)
             /\ m.op # "create" => n.id = m.id
             /\ \/ /\ keys' = [keys EXCEPT ![m.id] = @ \cup {h}]
                   /\ n.pc \in {"deliver", "insert"} \cup (IF m.db THEN {"user"} ELSE {})
                   /\ n.pc = "insert" => ~m.db
                   /\ m.op = "create" => Made(n) = Made(m) \cup {m.id}
                \/ /\ keys' = keys /\ "mint" \in Faults
                   /\ IF m.op = "create" THEN Undone(m, n) ELSE Fails(m, n)
<1> DEFINE m == my[h]
<1> USE Lists
<1>1. m \in Requests /\ WellOne(m) /\ m.pc = "mint"
      BY DEF TypeOK, Well, Mint, At
<1>2. CASE /\ keys' = [keys EXCEPT ![m.id] = @ \cup {h}]
           /\ Len(m.todo) < 2
           /\ Becomes(h, [m EXCEPT !.pc = "deliver", !.todo = <<>>, !.made = @ \o m.todo])
  <2> DEFINE n == [m EXCEPT !.pc = "deliver", !.todo = <<>>, !.made = @ \o m.todo]
  <2>1. /\ m.op = "create" => m.made \o m.todo \in Orders \ {<<>>}
        /\ m.op # "create" => m.made \o m.todo = <<>>
    <3>1. CASE m.op = "create"
      <4>1. Forward(m)
            BY <1>1, <3>1 DEF WellOne, WellCreate, Begun, Undoing
      <4>2. \/ m.todo = <<Main>> /\ m.made = <<>>
            \/ m.todo = <<Dev>> /\ m.made \in {<<>>, <<Main>>}
            BY <1>2, <4>1 DEF Forward
      <4>3. QED
            BY <3>1, <4>2 DEF Orders
    <3>2. CASE m.op # "create"
          BY <1>1, <3>2 DEF WellOne, WellOther
    <3>3. QED
          BY <3>1, <3>2
  <2>2. "deliver" \in Pcs /\ <<>> \in Orders /\ m.made \o m.todo \in Orders
        BY <2>1 DEF Pcs, Orders
  <2>3. n \in Requests
        BY <1>1, <2>2 DEF Requests
  <2>4. /\ n.pc = "deliver" /\ n.todo = <<>> /\ n.made = m.made \o m.todo /\ Same(m, n)
        /\ n.id = m.id
        BY <1>1 DEF Requests, Same
  <2> HIDE DEF n
  <2>5. WellOne(n)
    <3>1. CASE m.op = "create"
          BY <2>1, <2>4, <3>1 DEF WellOne, WellCreate, Same
    <3>2. CASE m.op # "create"
      <4>1. m.op = "rekey"
            BY <1>1, <3>2 DEF WellOne, WellOther, Undoing
      <4>2. QED
            BY <2>1, <2>4, <4>1 DEF WellOne, WellOther, Same
    <3>3. QED
          BY <3>1, <3>2
  <2>6. m.op = "create" => Made(n) = Made(m) \cup {m.id}
    <3> SUFFICES ASSUME m.op = "create" PROVE Made(n) = Made(m) \cup {m.id}
        OBVIOUS
    <3>1. Forward(m)
          BY <1>1 DEF WellOne, WellCreate, Begun, Undoing
    <3>2. \/ m.todo = <<Main>> /\ m.made = <<>> /\ m.id = Main
          \/ m.todo = <<Dev>> /\ m.made = <<>> /\ m.id = Dev
          \/ m.todo = <<Dev>> /\ m.made = <<Main>> /\ m.id = Dev
          BY <1>2, <3>1 DEF Forward
    <3>3. QED
          BY <2>4, <3>2, MadeOf
  <2>7. Moved(h, n) /\ my'[h] = n
        BY <1>2, <2>3, <2>5, Moving DEF Moved, n
  <2>8. QED
        BY <1>1, <1>2, <2>4, <2>6, <2>7
<1>3. CASE /\ keys' = [keys EXCEPT ![m.id] = @ \cup {h}]
           /\ ~(Len(m.todo) < 2)
           /\ Becomes(h, [m EXCEPT !.pc = IF m.db THEN "user" ELSE "insert",
                                   !.todo = Tail(@), !.id = Dev, !.made = <<m.id>>])
  <2> DEFINE p == IF m.db THEN "user" ELSE "insert"
             n == [m EXCEPT !.pc = p, !.todo = Tail(@), !.id = Dev, !.made = <<m.id>>]
  <2>1. m.op = "create"
        BY <1>1, <1>3 DEF WellOne, WellOther
  <2>2. m.todo = <<Main, Dev>> /\ m.id = Main /\ m.made = <<>>
    <3>1. Forward(m)
          BY <1>1, <2>1 DEF WellOne, WellCreate, Begun, Undoing
    <3>2. ~(Len(m.todo) < 2)
          BY <1>3
    <3>3. Len(<<Main>>) < 2 /\ Len(<<Dev>>) < 2
          OBVIOUS
    <3>4. m.todo # <<Main>> /\ m.todo # <<Dev>>
          BY <3>2, <3>3, Zenon
    <3>5. QED
          BY <3>1, <3>4 DEF Forward
  <2>3. p \in Pcs /\ <<Dev>> \in Orders /\ <<Main>> \in Orders
        BY DEF Pcs, Orders
  <2>4. n \in Requests
        BY <1>1, <2>2, <2>3 DEF Requests
  <2>5. /\ n.pc = p /\ n.todo = <<Dev>> /\ n.id = Dev /\ n.made = <<Main>> /\ Same(m, n)
        BY <1>1, <2>2 DEF Requests, Same
  <2> HIDE DEF n
  <2>6. Forward(n)
        BY <2>5 DEF Forward
  <2>7. WellOne(n)
        BY <1>1, <2>1, <2>5, <2>6 DEF WellOne, WellCreate, Same, Requests
  <2>8. Made(n) = Made(m) \cup {m.id}
        BY <2>2, <2>5, MadeOf
  <2>9. Moved(h, n) /\ my'[h] = n
        BY <1>3, <2>4, <2>7, Moving DEF Moved, n
  <2>10. QED
        BY <1>1, <1>3, <2>1, <2>5, <2>8, <2>9
<1>4. CASE /\ Fault("mint") /\ keys' = keys
           /\ Becomes(h, IF m.op = "create" THEN Undo(m) ELSE Raises(m))
  <2>1. "mint" \in Faults
        BY <1>4 DEF Fault
  <2>2. CASE m.op = "create"
    <3>1. LET n == Undo(m) IN n \in Requests /\ WellOne(n) /\ Undone(m, n)
          BY <1>1, <2>2, Undoes DEF WellOne
    <3>2. QED
          BY <1>1, <1>4, <2>1, <2>2, <3>1, Becoming DEF Undone, RolledBack, Stays
  <2>3. CASE m.op # "create"
    <3>1. LET n == Raises(m) IN n \in Requests /\ WellOne(n) /\ Fails(m, n)
          BY <1>1, Raising
    <3>2. QED
          BY <1>1, <1>4, <2>1, <2>3, <3>1, Becoming DEF Fails, RolledBack, Stays
  <2>4. QED
        BY <2>2, <2>3
<1>5. QED
      BY <1>2, <1>3, <1>4 DEF Mint

\* The delivery of the keys: the request is answered, or a create rolls back.
LEMMA Delivered ==
  ASSUME TypeOK, Well, NEW h \in Handlers, Deliver(h)
  PROVE  LET m == my[h]
             n == my'[h]
         IN  /\ Moved(h, n) /\ m.pc = "deliver"
             /\ (Stays(m, n) /\ n.pc \in {"compose", "done"}) \/ Fails(m, n)
<1> DEFINE m == my[h]
           p == IF m.op = "create" /\ m.db THEN "compose" ELSE "done"
<1>1. m \in Requests /\ WellOne(m) /\ m.pc = "deliver"
      BY DEF TypeOK, Well, Deliver, At
<1>2. CASE Goes(h, p)
  <2>1. Leads(m, p)
        BY <1>1 DEF Leads
  <2>2. QED
        BY <1>1, <1>2, <2>1, Leading
<1>3. CASE Becomes(h, Raises(m))
  <2>1. LET n == Raises(m) IN n \in Requests /\ WellOne(n) /\ Fails(m, n)
        BY <1>1, Raising
  <2>2. QED
        BY <1>1, <1>3, <2>1, Becoming
<1>4. QED
      BY <1>2, <1>3 DEF Deliver

\* The answer is composed, or it is an error; nothing is undone.
LEMMA Composed ==
  ASSUME TypeOK, Well, NEW h \in Handlers, Compose(h)
  PROVE  LET m == my[h]
             n == my'[h]
         IN  /\ Moved(h, n) /\ Stays(m, n) /\ m.pc = "compose" /\ m.op = "create"
             /\ n.pc \in {"done", "unanswered"}
<1> DEFINE m == my[h]
<1>1. WellOne(m) /\ m.pc = "compose"
      BY DEF Well, Compose, At
<1>2. m.op = "create"
      BY <1>1 DEF WellOne, WellOther, Undoing
<1>3. PICK p \in {"done", "unanswered"} : Goes(h, p)
      BY DEF Compose
<1>4. Leads(m, p)
      BY <1>1 DEF Leads
<1>5. QED
      BY <1>1, <1>2, <1>3, <1>4, Leading

\* A statement that is refused: a create undoes the id it was registering, or leaves the
\* id it was removing; another request ends.
LEMMA Declining ==
  ASSUME TypeOK, Well, NEW h \in Handlers, Declined(h)
  PROVE  LET m == my[h]
             n == my'[h]
         IN  /\ Moved(h, n) /\ UNCHANGED things /\ m.op # "none"
             /\ \/ m.op = "create" /\ m.pc = "insert" /\ Undone(m, n)
                \/ /\ m.op = "create" /\ m.pc \in {"unkey", "unrow"}
                   /\ RolledBack(m, n) /\ Keeps(h, "row")
                \/ /\ m.op # "create" /\ m.pc \in {"unkey", "uncron", "unrow", "clear"}
                   /\ Stays(m, n) /\ n.pc = "failed" /\ Keeps(h, "row")
                \/ /\ m.op # "create" /\ m.pc \in {"save", "saveuuid"}
                   /\ Stays(m, n) /\ n.pc = "failed"
<1> DEFINE m == my[h]
<1>1. m \in Requests /\ WellOne(m) /\ UNCHANGED things
      BY DEF TypeOK, Well, Declined
<1>2. CASE m.pc = "insert" /\ Becomes(h, Undo(m))
  <2>1. m.op = "create"
        BY <1>1, <1>2 DEF WellOne, WellOther, Undoing
  <2>2. LET n == Undo(m) IN n \in Requests /\ WellOne(n) /\ Undone(m, n)
        BY <1>1, <1>2, <2>1, Undoes DEF WellOne
  <2>3. QED
        BY <1>1, <1>2, <2>1, <2>2, Becoming
<1>3. CASE /\ m.pc \in {"unkey", "unrow"} /\ m.op = "create" /\ Keeps(h, "row")
           /\ Becomes(h, RollBack(m))
  <2>1. LET n == RollBack(m) IN n \in Requests /\ WellCreate(n) /\ RolledBack(m, n)
        BY <1>1, <1>3, RollsBack DEF WellOne, Begun
  <2>2. LET n == RollBack(m) IN n \in Requests /\ WellOne(n) /\ RolledBack(m, n)
        BY <1>3, <2>1 DEF WellOne, RolledBack, Same
  <2>3. QED
        BY <1>1, <1>3, <2>2, Becoming
<1>4. CASE /\ m.pc \in {"unkey", "uncron", "unrow", "clear"} /\ m.op # "create"
           /\ Keeps(h, "row") /\ Goes(h, "failed")
  <2>1. Leads(m, "failed") /\ m.op # "none"
        BY <1>1, <1>4 DEF Leads, WellOne, WellOther, Undoing
  <2>2. QED
        BY <1>1, <1>4, <2>1, Leading
<1>5. CASE m.pc \in {"save", "saveuuid"} /\ Goes(h, "failed")
  <2>1. m.op # "create" /\ m.op # "none"
        BY <1>1, <1>5 DEF WellOne, WellCreate, WellOther, Begun, Undoing
  <2>2. Leads(m, "failed")
        BY <1>5, <2>1 DEF Leads
  <2>3. QED
        BY <1>1, <1>5, <2>1, <2>2, Leading
<1>6. QED
      BY <1>2, <1>3, <1>4, <1>5 DEF Declined

\* The keys go before the row does.
LEMMA Unkeyed ==
  ASSUME TypeOK, Well, NEW h \in Handlers, Unkey(h)
  PROVE  LET m == my[h]
             n == my'[h]
         IN  /\ Moved(h, n) /\ Stays(m, n) /\ m.pc = "unkey" /\ m.op \in {"create", "delete"}
             /\ n.pc = IF m.op = "create" THEN "unrow" ELSE "uncron"
<1> DEFINE m == my[h]
           p == IF m.op = "create" THEN "unrow" ELSE "uncron"
<1>1. WellOne(m) /\ m.pc = "unkey" /\ Goes(h, p)
      BY DEF Well, Unkey, At
<1>2. Leads(m, p) /\ m.op \in {"create", "delete"}
      BY <1>1 DEF Leads, WellOne, WellOther, Undoing
<1>3. QED
      BY <1>1, <1>2, Leading

\* The row goes last; a create takes up its next id.
LEMMA Unrowed ==
  ASSUME TypeOK, Well, NEW h \in Handlers, Unrow(h)
  PROVE  LET m == my[h]
             n == my'[h]
         IN  /\ Moved(h, n) /\ m.pc = "unrow" /\ m.op \in {"create", "delete"}
             /\ IF m.op = "create" THEN RolledBack(m, n) ELSE Stays(m, n) /\ n.pc = "done"
<1> DEFINE m == my[h]
<1>1. m \in Requests /\ WellOne(m) /\ m.pc = "unrow"
      BY DEF TypeOK, Well, Unrow, At
<1>2. m.op \in {"create", "delete"}
      BY <1>1 DEF WellOne, WellOther, Undoing
<1>3. CASE m.op = "create"
  <2>1. LET n == RollBack(m) IN n \in Requests /\ WellCreate(n) /\ RolledBack(m, n)
        BY <1>1, <1>3, RollsBack DEF WellOne, Begun
  <2>2. LET n == RollBack(m) IN n \in Requests /\ WellOne(n) /\ RolledBack(m, n)
        BY <1>3, <2>1 DEF WellOne, RolledBack, Same
  <2>3. Becomes(h, RollBack(m))
        BY <1>3 DEF Unrow
  <2>4. QED
        BY <1>1, <1>3, <2>2, <2>3, Becoming
<1>4. CASE m.op # "create"
  <2>1. Goes(h, "done")
        BY <1>4 DEF Unrow, Becomes, Goes
  <2>2. Leads(m, "done")
        BY <1>1, <1>4 DEF Leads
  <2>3. QED
        BY <1>1, <1>2, <1>4, <2>1, <2>2, Leading
<1>5. QED
      BY <1>3, <1>4

\* The requests that only go on or fail.
LEMMA Others ==
  ASSUME TypeOK, Well, NEW h \in Handlers,
         \/ Uncron(h) \/ DeleteApp(h) \/ Save(h) \/ Clear(h) \/ Tell(h) \/ NewApp(h)
         \/ SaveUuid(h) \/ Revoke(h) \/ AddCron(h)
  PROVE  LET m == my[h]
             n == my'[h]
         IN  /\ Moved(h, n) /\ Stays(m, n) /\ m.op \notin {"create", "none"}
             /\ Leads(m, n.pc)
             /\ m.pc \in {"uncron", "app", "save", "clear", "tell", "newapp", "saveuuid",
                          "revoke", "cron"}
<1> DEFINE m == my[h]
<1>1. WellOne(m)
      BY DEF Well
<1>2. m.pc \in {"uncron", "app", "save", "clear", "tell", "newapp", "saveuuid", "revoke", "cron"}
      BY DEF Uncron, DeleteApp, Save, Clear, Tell, NewApp, SaveUuid, Revoke, AddCron, At
<1>3. m.op \notin {"create", "none"}
      BY <1>1, <1>2 DEF WellOne, WellCreate, WellOther, Begun, Undoing
<1>4. \E p : Leads(m, p) /\ Goes(h, p)
      BY <1>2, <1>3
      DEF Uncron, DeleteApp, Save, Clear, Tell, NewApp, SaveUuid, Revoke, AddCron, At, Leads
<1>5. QED
      BY <1>2, <1>3, <1>4, Leading

\* Whatever a request does, it stays what it was asked for.
LEMMA Steps ==
  ASSUME TypeOK, Well, NEW h \in Handlers, Step(h)
  PROVE  LET m == my[h]
             n == my'[h]
         IN  /\ Moved(h, n) /\ m.up
             /\ m.op # "none" => n.op = m.op /\ n.up
             /\ m.op \notin {"none", "create"} => n.id = m.id
<1>1. CASE Ask(h)
      BY <1>1, Asks DEF Ask, At
<1>2. CASE CreateChecks(h)
      BY <1>2, Checks DEF CreateChecks, At, Stays, Same
<1>3. CASE Reads(h)
      BY <1>3, Reading DEF Reads, At
<1>4. CASE CreateUser(h)
      BY <1>4, UserMade DEF CreateUser, At, Stays, Same, Fails, RolledBack
<1>5. CASE CreateBase(h)
      BY <1>5, BaseMade DEF CreateBase, At, Stays, Same, Fails, RolledBack
<1>6. CASE DropBase(h)
      BY <1>6, BaseDropped DEF DropBase, At, Stays, Same, After, RolledBack
<1>7. CASE DropUser(h)
      BY <1>7, UserDropped DEF DropUser, At, Stays, Same, After, RolledBack
<1>8. CASE Insert(h)
      BY <1>8, Inserted DEF Insert, At, Stays, Same, Undone, RolledBack
<1>9. CASE Mint(h)
      BY <1>9, Minted DEF Mint, At, Same
<1>10. CASE Deliver(h)
      BY <1>10, Delivered DEF Deliver, At, Stays, Same, Fails, RolledBack
<1>11. CASE Unkey(h)
      BY <1>11, Unkeyed DEF Unkey, At, Stays, Same
<1>12. CASE Unrow(h)
      BY <1>12, Unrowed DEF Unrow, At, Stays, Same, RolledBack
<1>13. CASE \/ Uncron(h) \/ DeleteApp(h) \/ Save(h) \/ Clear(h) \/ Tell(h) \/ NewApp(h)
            \/ SaveUuid(h) \/ Revoke(h) \/ AddCron(h)
  <2>1. my[h].up
        BY <1>13
        DEF Uncron, DeleteApp, Save, Clear, Tell, NewApp, SaveUuid, Revoke, AddCron, At
  <2>2. QED
        BY <1>13, <2>1, Others DEF Stays, Same
<1>14. CASE Compose(h)
      BY <1>14, Composed DEF Compose, At, Stays, Same
<1>15. CASE Declined(h)
      BY <1>15, Declining DEF Declined, Stays, Same, Undone, RolledBack
<1>16. QED
      BY <1>1, <1>2, <1>3, <1>4, <1>5, <1>6, <1>7, <1>8, <1>9, <1>10, <1>11, <1>12, <1>13,
         <1>14, <1>15
      DEF Step

\* What could not be removed stays on the list, and a step adds to it what is in hand.
LEMMA Marking ==
  ASSUME NEW h \in Handlers, Step(h)
  PROVE  AllGone \/ Keeps(h, "base") \/ Keeps(h, "row")
<1>1. CASE Ask(h) \/ CreateChecks(h) \/ Reads(h) \/ CreateUser(h) \/ CreateBase(h)
      BY <1>1 DEF Ask, CreateChecks, Reads, CreateUser, CreateBase
<1>2. CASE DropBase(h) \/ DropUser(h)
      BY <1>2 DEF DropBase, DropUser
<1>3. CASE Insert(h) \/ Mint(h) \/ Deliver(h) \/ Compose(h) \/ Declined(h)
      BY <1>3 DEF Insert, Mint, Deliver, Compose, Declined
<1>4. CASE Unkey(h) \/ Uncron(h) \/ Unrow(h) \/ DeleteApp(h)
      BY <1>4 DEF Unkey, Uncron, Unrow, DeleteApp
<1>5. CASE Save(h) \/ Clear(h) \/ Tell(h) \/ NewApp(h) \/ SaveUuid(h)
      BY <1>5 DEF Save, Clear, Tell, NewApp, SaveUuid
<1>6. CASE Revoke(h) \/ AddCron(h)
      BY <1>6 DEF Revoke, AddCron
<1>7. QED
      BY <1>1, <1>2, <1>3, <1>4, <1>5, <1>6 DEF Step

\* So it only grows.
LEMMA StillThere ==
  ASSUME NEW h \in Handlers, Step(h)
  PROVE  stuck \subseteq stuck' /\ Stale \subseteq Stale'
<1>1. stuck \subseteq stuck'
      BY Marking DEF AllGone, Keeps
<1>2. QED
      BY <1>1 DEF Stale

\* An id whose row a request could not write is counted.
LEMMA Marked ==
  ASSUME NEW h \in Handlers, Keeps(h, "row"), my[h].id \in Ids
  PROVE  my[h].id \in Stale'
BY DEF Keeps, Stale
-----------------------------------------------------------------------------
(* Types. *)

\* What there is to start with is well-formed.
LEMMA TypesBegin == Init => TypeOK /\ Well
<1> SUFFICES ASSUME Init PROVE TypeOK /\ Well
    OBVIOUS
<1>1. Idle \in Requests
  <2>1. "idle" \in Pcs /\ "none" \in Ops /\ Main \in Ids /\ <<>> \in Orders
        BY DEF Pcs, Ended, Ops, Ids, Orders
  <2>2. QED
        BY <2>1 DEF Idle, Requests
<1>2. Well
      BY DEF Init, Well, WellOne, WellOther, Idle
<1>3. PICK there \in BOOLEAN, db \in BOOLEAN :
        LET if(c, v, w) == [id \in Ids |-> IF id = Main /\ c THEN v ELSE w] IN
        /\ row = if(there, [by |-> First, db |-> db, uuid |-> First], NoRow)
        /\ user = if(there /\ db, First, Nobody)
        /\ base = if(there /\ db, First, Nobody)
        /\ keys = if(there, {First}, {})
        /\ applications = IF there THEN {First} ELSE {}
      BY DEF Init
<1>4. First \in Makers /\ First # Nobody
      BY AppLifeAssumption DEF Makers
<1>5. [by |-> First, db |-> db, uuid |-> First] \in Rows /\ NoRow \in Rows
      BY <1>4 DEF Rows, NoRow
<1>6. row \in [Ids -> Rows] /\ \A id \in Ids : ~There(id) => row[id] = NoRow
      BY <1>3, <1>4, <1>5 DEF There, NoRow
<1>7. /\ {user, base} \subseteq [Ids -> Makers \cup {Nobody}]
      /\ keys \in [Ids -> SUBSET Makers] /\ applications \subseteq Makers
      BY <1>3, <1>4
<1>8. /\ crons \in [Ids -> BOOLEAN] /\ my \in [Handlers -> Requests]
      /\ left \in 0..MaxFaults /\ raced \subseteq Ids
      /\ stuck \subseteq Handlers \X Ids \X {"base", "row"}
      BY <1>1, AppLifeAssumption DEF Init
<1>9. QED
      BY <1>2, <1>6, <1>7, <1>8 DEF TypeOK

\* What the steps do to the parts of an app, in one formula.
WroteRow(h) ==
  row' = row \/ \E r \in Rows : /\ row' = [row EXCEPT ![my[h].id] = r]
                                /\ r.by = Nobody => r = NoRow
                                /\ r.by \in {h, Nobody, row[my[h].id].by}

\* Nothing of another id, and a row, a login, a database or a key only for h.
Wrote(h) ==
  LET m == my[h] IN
  /\ WroteRow(h)
  /\ user' = user \/ \E w \in {h, Nobody} : user' = [user EXCEPT ![m.id] = w]
  /\ base' = base \/ \E w \in {h, Nobody} : base' = [base EXCEPT ![m.id] = w]
  /\ keys' = keys \/ \E k \in {{}, keys[m.id] \cup {h}} : keys' = [keys EXCEPT ![m.id] = k]
  /\ crons' = crons \/ \E b \in BOOLEAN : crons' = [crons EXCEPT ![m.id] = b]
  /\ applications' \subseteq applications \cup {h}
  /\ left' = left \/ (left > 0 /\ left' = left - 1)

\* An UPDATE keeps who inserted the row.
LEMMA Updating ==
  ASSUME TypeOK, NEW id \in Ids, NEW r \in Rows, r.by = row[id].by, Updates(id, r)
  PROVE  \E s \in Rows : /\ row' = [row EXCEPT ![id] = s]
                         /\ s.by = Nobody => s = NoRow
                         /\ s.by \in {Nobody, row[id].by}
<1>1. NoRow \in Rows /\ NoRow.by = Nobody
      BY DEF Rows, NoRow
<1>2. QED
      BY <1>1 DEF Updates, There

\* Every step writes like that.
LEMMA Writing ==
  ASSUME TypeOK, NEW h \in Handlers, Step(h)
  PROVE  Wrote(h)
<1>1. /\ my[h].id \in Ids /\ h # Nobody /\ h \in Makers /\ row[my[h].id] \in Rows
      /\ my[h].db \in BOOLEAN /\ left \in Nat
      BY AppLifeAssumption DEF TypeOK, Makers, Requests
<1>2. CASE \/ Ask(h) \/ CreateChecks(h) \/ Reads(h) \/ Deliver(h) \/ Compose(h)
           \/ Declined(h) \/ Tell(h)
      BY <1>2 DEF Ask, CreateChecks, Reads, Deliver, Compose, Declined, Tell, things, NoFault,
         Fault, Wrote, WroteRow
<1>3. CASE CreateUser(h) \/ DropUser(h)
      BY <1>3 DEF CreateUser, DropUser, NoFault, Fault, Wrote, WroteRow
<1>4. CASE CreateBase(h) \/ DropBase(h)
      BY <1>4 DEF CreateBase, DropBase, NoFault, Fault, Wrote, WroteRow
<1>5. CASE Insert(h)
  <2>1. [by |-> h, db |-> my[h].db, uuid |-> Nobody] \in Rows
        BY <1>1 DEF Rows
  <2>2. QED
        BY <1>1, <1>5, <2>1 DEF Insert, NoFault, Wrote, WroteRow
<1>6. CASE Mint(h) \/ Unkey(h) \/ Revoke(h)
      BY <1>6 DEF Mint, Unkey, Revoke, NoFault, Fault, Wrote, WroteRow
<1>7. CASE Uncron(h) \/ AddCron(h)
      BY <1>7 DEF Uncron, AddCron, NoFault, Wrote, WroteRow
<1>8. CASE Unrow(h)
  <2>1. NoRow \in Rows /\ NoRow.by = Nobody
        BY DEF Rows, NoRow
  <2>2. QED
        BY <1>8, <2>1 DEF Unrow, NoFault, Wrote, WroteRow
<1>9. CASE DeleteApp(h) \/ NewApp(h)
      BY <1>9 DEF DeleteApp, NewApp, NoFault, Fault, Wrote, WroteRow
<1>10. CASE Save(h) \/ Clear(h) \/ SaveUuid(h)
  <2>1. /\ [row[my[h].id] EXCEPT !.db = TRUE] \in Rows
        /\ [row[my[h].id] EXCEPT !.db = TRUE].by = row[my[h].id].by
        BY <1>1 DEF Rows
  <2>2. /\ [row[my[h].id] EXCEPT !.db = FALSE] \in Rows
        /\ [row[my[h].id] EXCEPT !.db = FALSE].by = row[my[h].id].by
        BY <1>1 DEF Rows
  <2>3. /\ [row[my[h].id] EXCEPT !.uuid = h] \in Rows
        /\ [row[my[h].id] EXCEPT !.uuid = h].by = row[my[h].id].by
        BY <1>1 DEF Rows
  <2>4. \E r \in Rows : /\ row' = [row EXCEPT ![my[h].id] = r]
                        /\ r.by = Nobody => r = NoRow
                        /\ r.by \in {Nobody, row[my[h].id].by}
    <3>1. CASE Save(h)
          BY <1>1, <2>1, <3>1, Updating DEF Save
    <3>2. CASE Clear(h)
          BY <1>1, <2>2, <3>2, Updating DEF Clear
    <3>3. CASE SaveUuid(h)
          BY <1>1, <2>3, <3>3, Updating DEF SaveUuid
    <3>4. QED
          BY <1>10, <3>1, <3>2, <3>3
  <2>5. WroteRow(h)
        BY <2>4 DEF WroteRow
  <2>6. /\ user' = user /\ base' = base /\ keys' = keys /\ crons' = crons
        /\ applications' = applications /\ left' = left
        BY <1>10 DEF Save, Clear, SaveUuid, NoFault
  <2>7. QED
        BY <2>5, <2>6 DEF Wrote
<1>11. QED
      BY <1>2, <1>3, <1>4, <1>5, <1>6, <1>7, <1>8, <1>9, <1>10 DEF Step

\* A request's step keeps the types and the places.
LEMMA TypesStep ==
  ASSUME TypeOK, Well, NEW h \in Handlers, Step(h), raced' = raced \cup Racing'
  PROVE  TypeOK' /\ Well'
<1> DEFINE m == my[h]
<1>1. Moved(h, my'[h]) /\ Wrote(h)
      BY Steps, Writing
<1>2. m.id \in Ids /\ h \in Makers
      BY DEF TypeOK, Requests, Makers
<1>3. my' \in [Handlers -> Requests] /\ Well'
      BY <1>1 DEF Moved, Well
<1>4. row' \in [Ids -> Rows] /\ \A id \in Ids : row'[id].by = Nobody => row'[id] = NoRow
  <2>1. CASE row' = row
        BY <2>1 DEF TypeOK, There
  <2>2. ASSUME NEW r \in Rows, row' = [row EXCEPT ![m.id] = r], r.by = Nobody => r = NoRow
        PROVE  row' \in [Ids -> Rows] /\ \A id \in Ids : row'[id].by = Nobody => row'[id] = NoRow
        BY <1>2, <2>2 DEF TypeOK, There
  <2>3. QED
        BY <1>1, <2>1, <2>2 DEF Wrote, WroteRow
<1>5. {user', base'} \subseteq [Ids -> Makers \cup {Nobody}]
  <2>1. user' \in [Ids -> Makers \cup {Nobody}]
        BY <1>1, <1>2 DEF TypeOK, Wrote
  <2>2. base' \in [Ids -> Makers \cup {Nobody}]
        BY <1>1, <1>2 DEF TypeOK, Wrote
  <2>3. QED
        BY <2>1, <2>2
<1>6. keys' \in [Ids -> SUBSET Makers]
      BY <1>1, <1>2 DEF TypeOK, Wrote
<1>7. crons' \in [Ids -> BOOLEAN] /\ applications' \subseteq Makers
      BY <1>1, <1>2 DEF TypeOK, Wrote
<1>8. left' \in 0..MaxFaults
      BY <1>1, AppLifeAssumption DEF TypeOK, Wrote
<1>9. raced' \subseteq Ids /\ stuck' \subseteq Handlers \X Ids \X {"base", "row"}
      BY <1>2, Marking DEF TypeOK, Racing, AllGone, Keeps
<1>10. QED
      BY <1>3, <1>4, <1>5, <1>6, <1>7, <1>8, <1>9 DEF TypeOK, There

\* A crash stops the requests where they are.
LEMMA Crashing ==
  ASSUME TypeOK, Well, Crash
  PROVE  /\ TypeOK' /\ Well' /\ UNCHANGED <<things, raced, stuck>>
         /\ \A h \in Handlers : /\ my'[h].up => my[h].up /\ my[h].pc \in Ended
                                /\ my'[h].pc = my[h].pc /\ my'[h].op = my[h].op
                                /\ my'[h].id = my[h].id /\ my'[h].todo = my[h].todo
                                /\ my'[h].made = my[h].made /\ my'[h].db = my[h].db
<1>1. my' = [h \in Handlers |-> [my[h] EXCEPT !.up = @ /\ my[h].pc \in Ended]]
      BY DEF Crash
<1>2. ASSUME NEW h \in Handlers
      PROVE  /\ my'[h] \in Requests
             /\ my'[h].up => my[h].up /\ my[h].pc \in Ended
             /\ my'[h].pc = my[h].pc /\ my'[h].op = my[h].op
             /\ my'[h].id = my[h].id /\ my'[h].todo = my[h].todo
             /\ my'[h].made = my[h].made /\ my'[h].db = my[h].db
  <2>1. my[h] \in Requests
        BY DEF TypeOK
  <2>2. (my[h].up /\ my[h].pc \in Ended) \in BOOLEAN
        OBVIOUS
  <2>3. my'[h] = [my[h] EXCEPT !.up = my[h].up /\ my[h].pc \in Ended]
        BY <1>1
  <2>4. QED
        BY <2>1, <2>2, <2>3 DEF Requests
<1>3. Well'
  <2> SUFFICES ASSUME NEW h \in Handlers PROVE WellOne(my'[h])
      BY DEF Well
  <2>1. WellOne(my[h])
        BY DEF Well
  <2>2. QED
        BY <1>2, <2>1 DEF WellOne, WellCreate, WellOther, Forward, Backward
<1>4. left' \in 0..MaxFaults /\ UNCHANGED <<things, raced, stuck>>
      BY AppLifeAssumption DEF Crash, Fault, TypeOK
<1>5. my' \in [Handlers -> Requests]
      BY <1>1, <1>2
<1>6. TypeOK'
      BY <1>4, <1>5 DEF TypeOK, things, There
<1>7. QED
      BY <1>2, <1>3, <1>4, <1>6

\* So does every step.
LEMMA TypesNext ==
  ASSUME TypeOK, Well, [Next]_vars
  PROVE  TypeOK' /\ Well'
<1>1. CASE Crash
      BY <1>1, Crashing
<1>2. ASSUME NEW h \in Handlers, Step(h), raced' = raced \cup Racing'
      PROVE  TypeOK' /\ Well'
      BY <1>2, TypesStep
<1>3. CASE UNCHANGED vars
      BY <1>3 DEF vars, things, TypeOK, There, Well
<1>4. QED
      BY <1>1, <1>2, <1>3 DEF Next

\* The types, for any requests, faults and bounds: in particular a row that is not there
\* is NoRow whole, and a create's lists are four of its two ids.  (create_app, _register.)
THEOREM AppTypes == Spec => []TypeOK
<1>1. TypeOK /\ Well /\ [Next]_vars => (TypeOK /\ Well)'
      BY TypesNext
<1>2. QED
      BY <1>1, TypesBegin, PTL DEF Spec
-----------------------------------------------------------------------------
(* What an answered create made, and what one still at work has made so far. *)

\* A create at work is never at an id it has registered.
LEMMA Apart ==
  ASSUME NEW m, m.op = "create", WellOne(m), m.pc \notin {"deliver"} \cup Over
  PROVE  m.id \notin Made(m)
<1>1. Forward(m) \/ Backward(m) \/ m.made = <<>>
      BY DEF WellOne, WellCreate
<1>2. \/ m.made = <<>>
      \/ m.id = Dev /\ m.made = <<Main>>
      \/ m.id = Main /\ m.made = <<Dev>>
      BY <1>1 DEF Forward, Backward
<1>3. QED
      BY <1>2, MadeOf, Lists

\* Once asked, always asked.
LEMMA AskedStays ==
  ASSUME TypeOK, Well, NEW h \in Handlers, Step(h), NEW id \in Ids,
         NEW ops \in SUBSET {"delete", "detach", "rekey"}, Asked(ops, id)
  PROVE  Asked(ops, id)'
<1>1. PICK g \in Handlers : my[g].op \in ops /\ my[g].id = id
      BY DEF Asked
<1>2. Moved(h, my'[h])
      BY Steps
<1>3. my'[g].op = my[g].op /\ my'[g].id = my[g].id
  <2>1. CASE g = h
        BY <1>1, <2>1, Steps
  <2>2. CASE g # h
        BY <1>2, <2>2 DEF Moved
  <2>3. QED
        BY <2>1, <2>2
<1>4. QED
      BY <1>1, <1>3 DEF Asked

\* What h made of id stays as it is.
Harmless(h, id) ==
  /\ row[id].by = h => row'[id].by = h /\ (row[id].db => row'[id].db)
  /\ user[id] = h => user'[id] = h
  /\ user[id] = h /\ base[id] = h => base'[id] = h
  /\ row[id].by = h /\ h \in keys[id] => h \in keys'[id] \/ Asked({"rekey"}, id)'
  /\ Asked({"rekey"}, id) => Asked({"rekey"}, id)'

\* A step that does no harm to what h made keeps it.
LEMMA Standing ==
  ASSUME NEW h \in Handlers, NEW id \in Ids, KeptBy(h, id), Harmless(h, id), my'[h] = my[h]
  PROVE  KeptBy(h, id)'
<1>1. my'[h].op = my[h].op /\ my'[h].id = my[h].id /\ my'[h].pc = my[h].pc
      /\ my'[h].db = my[h].db /\ Made(my'[h]) = Made(my[h]) /\ HasRow(my'[h]) = HasRow(my[h])
      OBVIOUS
<1>2. Whole(h, id) => Whole(h, id)'
      BY <1>1 DEF Whole, Harmless
<1> DEFINE m == my[h]
           n == my'[h]
<1>3. CASE m.op = "create" /\ m.id = id
  <2>1. m.pc = "base" \/ (m.db /\ m.pc \in {"insert", "mint"} \cup Undoing) => user'[id] = h
        BY <1>3 DEF KeptBy, Harmless
  <2>2. m.db /\ m.pc \in {"insert", "mint", "dropbase"} => base'[id] = h
        BY <1>3 DEF KeptBy, Harmless, Undoing
  <2>3. HasRow(m) => row'[id].by = h
        BY <1>3 DEF KeptBy, Harmless
  <2>4. m.pc = "mint" /\ m.db => row'[id].db
        BY <1>3 DEF KeptBy, Harmless, HasRow
  <2>5. id \in Made(m) => Whole(h, id)'
        BY <1>2, <1>3 DEF KeptBy
  <2>6. QED
        BY <1>1, <2>1, <2>2, <2>3, <2>4, <2>5 DEF KeptBy
<1>4. QED
      BY <1>1, <1>2, <1>3 DEF KeptBy

\* A create that takes up the next of its ids finds it whole.
LEMMA Retreating ==
  ASSUME NEW h \in Handlers, NEW id \in Ids, KeptBy(h, id), my[h].op = "create",
         RolledBack(my[h], my'[h]), id \in Made(my[h]) => Harmless(h, id)
  PROVE  KeptBy(h, id)'
<1> DEFINE m == my[h]
           n == my'[h]
<1>1. n.op = "create" /\ n.db = m.db
      BY DEF RolledBack, Same
<1>2. CASE m.made = <<>> /\ n.made = <<>> /\ n.pc = "failed"
  <2>1. Made(n) = {}
        BY <1>2, MadeOf
  <2>2. QED
        BY <1>2, <2>1 DEF KeptBy, HasRow, Undoing
<1>3. CASE /\ n.id \in Made(m) /\ Made(n) = Made(m) \ {n.id} /\ n.todo = <<>>
           /\ n.pc = IF m.db THEN "dropbase" ELSE "unkey"
  <2>1. CASE id \notin Made(m)
        BY <1>3, <2>1 DEF KeptBy
  <2>2. CASE id \in Made(m)
    <3>1. Whole(h, id) /\ Harmless(h, id)
          BY <2>2 DEF KeptBy
    <3>2. Whole(h, id)'
          BY <1>1, <3>1 DEF Whole, Harmless
    <3>3. QED
          BY <1>1, <1>3, <3>2 DEF KeptBy, Whole, HasRow, Undoing
  <2>3. QED
        BY <2>1, <2>2
<1>4. QED
      BY <1>2, <1>3 DEF RolledBack

\* No step of another request touches what h made of an id that nobody asked to
\* delete or to detach.
LEMMA Spares ==
  ASSUME TypeOK, Well, NEW g \in Handlers, Step(g), NEW h \in Handlers, h # g,
         NEW id \in Ids, KeptBy(g, id), ~Asked({"delete", "detach"}, id)'
  PROVE  Harmless(h, id)
<1> DEFINE m == my[g]
<1>1. /\ m.id \in Ids /\ row[id] \in Rows /\ h # Nobody
      /\ ~Asked({"delete", "detach"}, id)
      /\ Asked({"rekey"}, id) => Asked({"rekey"}, id)'
      BY AskedStays, AppLifeAssumption DEF TypeOK, Requests, Makers
<1>2. m.op \in {"delete", "detach"} => m.id # id
      BY <1>1 DEF Asked
<1>3. CASE /\ row'[id] = row[id] /\ user'[id] = user[id] /\ base'[id] = base[id]
           /\ keys'[id] = keys[id]
      BY <1>1, <1>3 DEF Harmless
<1>4. CASE m.id # id
      BY <1>1, <1>3, <1>4, Writing DEF Wrote, WroteRow, TypeOK
<1> SUFFICES ASSUME m.id = id PROVE Harmless(h, id)
    BY <1>4
<1>5. CASE \/ Ask(g) \/ CreateChecks(g) \/ Reads(g) \/ Deliver(g) \/ Compose(g)
           \/ Declined(g) \/ Tell(g)
      BY <1>3, <1>5 DEF Ask, CreateChecks, Reads, Deliver, Compose, Declined, Tell, things
<1>6. CASE CreateUser(g)
  <2>1. row' = row /\ base' = base /\ keys' = keys
        BY <1>6 DEF CreateUser
  <2>2. user' = user \/ user[id] = Nobody
        BY <1>6 DEF CreateUser
  <2>3. QED
        BY <1>1, <2>1, <2>2 DEF Harmless
<1>7. CASE CreateBase(g)
  <2>1. row' = row /\ user' = user /\ keys' = keys
        BY <1>7 DEF CreateBase
  <2>2. base' = base \/ base[id] = Nobody
        BY <1>7 DEF CreateBase
  <2>3. QED
        BY <1>1, <2>1, <2>2 DEF Harmless
<1>8. CASE DropBase(g)
  <2>1. row' = row /\ user' = user /\ keys' = keys
        BY <1>8 DEF DropBase
  <2>2. m.op = "create" /\ m.pc = "dropbase" /\ m.db
        BY <1>2, <1>8, BaseDropped
  <2>3. user[id] = g
        BY <2>2 DEF KeptBy, Undoing
  <2>4. QED
        BY <1>1, <2>1, <2>3 DEF Harmless
<1>9. CASE DropUser(g)
  <2>1. row' = row /\ base' = base /\ keys' = keys
        BY <1>9 DEF DropUser
  <2>2. m.op = "create" /\ m.pc = "dropuser" /\ m.db
        BY <1>2, <1>9, UserDropped
  <2>3. user[id] = g
        BY <2>2 DEF KeptBy, Undoing
  <2>4. QED
        BY <1>1, <2>1, <2>3 DEF Harmless
<1>10. CASE Insert(g)
  <2>1. user' = user /\ base' = base /\ keys' = keys
        BY <1>10 DEF Insert
  <2>2. row' = row \/ row[id].by = Nobody
        BY <1>10 DEF Insert, There
  <2>3. QED
        BY <1>1, <2>1, <2>2 DEF Harmless
<1>11. CASE Mint(g)
  <2>1. row' = row /\ user' = user /\ base' = base
        BY <1>11 DEF Mint
  <2>2. keys[id] \subseteq keys'[id]
        BY <1>11 DEF Mint, TypeOK
  <2>3. QED
        BY <1>1, <2>1, <2>2 DEF Harmless
<1>12. CASE Unkey(g)
  <2>1. row' = row /\ user' = user /\ base' = base
        BY <1>12 DEF Unkey
  <2>2. m.op = "create" /\ m.pc = "unkey"
        BY <1>2, <1>12, Unkeyed
  <2>3. row[id].by = g
        BY <2>2 DEF KeptBy, HasRow
  <2>4. QED
        BY <1>1, <2>1, <2>3 DEF Harmless
<1>13. CASE Unrow(g)
  <2>1. user' = user /\ base' = base /\ keys' = keys
        BY <1>13 DEF Unrow
  <2>2. m.op = "create" /\ m.pc = "unrow"
        BY <1>2, <1>13, Unrowed
  <2>3. row[id].by = g
        BY <2>2 DEF KeptBy, HasRow
  <2>4. QED
        BY <1>1, <2>1, <2>3 DEF Harmless
<1>14. CASE Save(g)
  <2>1. user' = user /\ base' = base /\ keys' = keys
        BY <1>14 DEF Save
  <2>2. There(id) => row'[id] = [row[id] EXCEPT !.db = TRUE]
        BY <1>14 DEF Save, Updates, TypeOK
  <2>3. There(id) => row'[id].by = row[id].by /\ row'[id].db
        BY <1>1, <2>2 DEF Rows
  <2>4. QED
        BY <1>1, <2>1, <2>3 DEF Harmless, There
<1>15. CASE Clear(g)
  <2>1. m.op = "detach"
        BY <1>15 DEF Clear, At, Well, WellOne, WellCreate, WellOther, Begun, Undoing
  <2>2. QED
        BY <1>2, <2>1
<1>16. CASE SaveUuid(g)
  <2>1. user' = user /\ base' = base /\ keys' = keys
        BY <1>16 DEF SaveUuid
  <2>2. There(id) => row'[id] = [row[id] EXCEPT !.uuid = g]
        BY <1>16 DEF SaveUuid, Updates, TypeOK
  <2>3. There(id) => row'[id].by = row[id].by /\ row'[id].db = row[id].db
        BY <1>1, <2>2 DEF Rows
  <2>4. QED
        BY <1>1, <2>1, <2>3 DEF Harmless, There
<1>17. CASE Revoke(g)
  <2>1. row' = row /\ user' = user /\ base' = base
        BY <1>17 DEF Revoke
  <2>2. m.op = "rekey"
        BY <1>17 DEF Revoke, At, Well, WellOne, WellCreate, WellOther, Begun, Undoing
  <2>3. Asked({"rekey"}, id)'
        BY <1>1, <2>2 DEF Asked
  <2>4. QED
        BY <1>1, <2>1, <2>3 DEF Harmless
<1>18. CASE Uncron(g) \/ DeleteApp(g) \/ NewApp(g) \/ AddCron(g)
      BY <1>3, <1>18 DEF Uncron, DeleteApp, NewApp, AddCron
<1>19. QED
      BY <1>5, <1>6, <1>7, <1>8, <1>9, <1>10, <1>11, <1>12, <1>13, <1>14, <1>15, <1>16, <1>17,
         <1>18 DEF Step

\* A step about another id does no harm.
LEMMA Elsewhere ==
  ASSUME TypeOK, Well, NEW g \in Handlers, Step(g), NEW h \in Handlers,
         NEW id \in Ids, id # my[g].id
  PROVE  Harmless(h, id)
<1>1. Asked({"rekey"}, id) => Asked({"rekey"}, id)'
      BY AskedStays
<1>2. row'[id] = row[id] /\ user'[id] = user[id] /\ base'[id] = base[id] /\ keys'[id] = keys[id]
      BY Writing DEF Wrote, WroteRow, TypeOK, Requests
<1>3. QED
      BY <1>1, <1>2 DEF Harmless

\* A create's own step keeps what it has made so far.
LEMMA OwnKept ==
  ASSUME TypeOK, Well, NEW h \in Handlers, Step(h), NEW id \in Ids, KeptBy(h, id),
         ~Asked({"delete", "detach"}, id)'
  PROVE  KeptBy(h, id)'
<1> DEFINE m == my[h]
           n == my'[h]
<1> SUFFICES ASSUME n.op = "create" PROVE KeptBy(h, id)'
    BY DEF KeptBy
<1>1. /\ m \in Requests /\ WellOne(m) /\ m.id \in Ids /\ m.db \in BOOLEAN
      /\ h # Nobody /\ row[id] \in Rows
      BY AppLifeAssumption DEF TypeOK, Well, Requests, Makers
<1>2. CASE Ask(h)
  <2>1. n.pc = "check" /\ Made(n) = {}
        BY <1>2, Asks, MadeOf
  <2>2. QED
        BY <2>1 DEF KeptBy, HasRow, Undoing
<1> SUFFICES ASSUME ~Ask(h) PROVE KeptBy(h, id)'
    BY <1>2
<1>3. m.op = "create"
  <2>1. m.op # "none"
        BY <1>1 DEF WellOne, WellOther, Undoing, Step, CreateChecks, Reads, CreateUser, CreateBase,
           DropBase, DropUser, Insert, Mint, Deliver, Compose, Declined, Unkey, Uncron, Unrow,
           DeleteApp, Save, Clear, Tell, NewApp, SaveUuid, Revoke, AddCron, At
  <2>2. QED
        BY <2>1, Steps
<1>4. m.pc \notin {"deliver"} \cup Over => (id \in Made(m) => id # m.id /\ Harmless(h, id))
      BY <1>1, <1>3, Apart, Elsewhere
<1>5. ASSUME Stays(m, n) PROVE n.op = "create" /\ n.db = m.db /\ n.id = m.id /\ Made(n) = Made(m)
                               /\ n.todo = m.todo
      BY <1>3, <1>5 DEF Stays, Same, Made
<1>6. ASSUME id \in Made(m), Harmless(h, id) PROVE Whole(h, id) /\ (n.db = m.db => Whole(h, id)')
      BY <1>3, <1>6 DEF KeptBy, Whole, Harmless
<1>7. CASE CreateChecks(h)
  <2>1. /\ Stays(m, n) /\ m.made = <<>>
        /\ n.pc \in {"refused", "checkdev", IF m.db THEN "user" ELSE "insert"}
        BY <1>7, Checks
  <2>2. Made(n) = {} /\ n.db = m.db
        BY <1>5, <2>1, MadeOf
  <2>3. QED
        BY <1>1, <2>1, <2>2 DEF KeptBy, HasRow, Undoing
<1>8. CASE CreateUser(h)
  <2>1. m.pc = "user"
        BY <1>8, UserMade
  <2>2. CASE Stays(m, n) /\ n.pc = "base" /\ user' = [user EXCEPT ![m.id] = h]
    <3>1. id = m.id => user'[id] = h
          BY <1>1, <2>2 DEF TypeOK
    <3>2. QED
          BY <1>4, <1>5, <1>6, <2>1, <2>2, <3>1 DEF KeptBy, HasRow, Undoing
  <2>3. CASE Fails(m, n)
        BY <1>3, <1>4, <2>1, <2>3, Retreating DEF Fails
  <2>4. QED
        BY <1>8, <2>2, <2>3, UserMade
<1>9. CASE CreateBase(h)
  <2>1. m.pc = "base" /\ user' = user
        BY <1>9, BaseMade DEF CreateBase
  <2>2. CASE Stays(m, n) /\ n.pc = "insert" /\ base' = [base EXCEPT ![m.id] = h]
    <3>1. id = m.id => base'[id] = h /\ user'[id] = h
          BY <1>1, <1>3, <2>1, <2>2 DEF TypeOK, KeptBy
    <3>2. QED
          BY <1>4, <1>5, <1>6, <2>1, <2>2, <3>1 DEF KeptBy, HasRow, Undoing
  <2>3. CASE Fails(m, n)
        BY <1>3, <1>4, <2>1, <2>3, Retreating DEF Fails
  <2>4. QED
        BY <1>3, <1>9, <2>2, <2>3, BaseMade
<1>10. CASE DropBase(h)
  <2>1. m.pc = "dropbase" /\ m.db /\ row' = row /\ user' = user
        BY <1>3, <1>10, BaseDropped DEF DropBase
  <2>2. id = m.id => user'[id] = h /\ (m.todo = <<>> => row'[id].by = h)
        BY <1>3, <2>1 DEF KeptBy, HasRow, Undoing
  <2>3. CASE Stays(m, n) /\ n.pc \in {"dropuser", "unkey"} /\ (n.pc = "unkey" => m.todo = <<>>)
        BY <1>4, <1>5, <1>6, <2>1, <2>2, <2>3 DEF KeptBy, HasRow, Undoing
  <2>4. CASE RolledBack(m, n)
        BY <1>3, <1>4, <2>1, <2>4, Retreating
  <2>5. QED
        BY <1>3, <1>10, <2>3, <2>4, BaseDropped DEF After
<1>11. CASE DropUser(h)
  <2>1. m.pc = "dropuser" /\ After(m, n) /\ row' = row
        BY <1>3, <1>11, UserDropped DEF DropUser
  <2>2. CASE m.todo # <<>>
        BY <1>3, <1>4, <2>1, <2>2, Retreating DEF After
  <2>3. CASE m.todo = <<>>
    <3>1. Stays(m, n) /\ n.pc = "unkey"
          BY <1>3, <2>1, <2>3 DEF After
    <3>2. id = m.id => row'[id].by = h
          BY <1>3, <2>1, <2>3 DEF KeptBy, HasRow, Undoing
    <3>3. QED
          BY <1>4, <1>5, <1>6, <2>1, <3>1, <3>2 DEF KeptBy, HasRow, Undoing
  <2>4. QED
        BY <2>2, <2>3
<1>12. CASE Insert(h)
  <2>1. m.pc = "insert" /\ user' = user /\ base' = base
        BY <1>12, Inserted DEF Insert
  <2>2. id = m.id /\ m.db => user'[id] = h /\ base'[id] = h
        BY <1>3, <2>1 DEF KeptBy
  <2>3. CASE There(m.id) /\ Undone(m, n)
    <3>1. CASE m.db
      <4>1. Stays(m, n) /\ n.pc = "dropbase"
            BY <2>3, <3>1 DEF Undone
      <4>2. m.todo # <<>>
            BY <1>1, <1>3, <2>1, Lists DEF WellOne, WellCreate, Forward, Begun, Undoing
      <4>3. QED
            BY <1>4, <1>5, <1>6, <2>1, <2>2, <3>1, <4>1, <4>2 DEF KeptBy, HasRow, Undoing
    <3>2. CASE ~m.db
          BY <1>3, <1>4, <2>1, <2>3, <3>2, Retreating DEF Undone
    <3>3. QED
          BY <3>1, <3>2
  <2>4. CASE /\ Stays(m, n) /\ n.pc = "mint"
             /\ row' = [row EXCEPT ![m.id] = [by |-> h, db |-> m.db, uuid |-> Nobody]]
    <3>1. id = m.id => row'[id] = [by |-> h, db |-> m.db, uuid |-> Nobody]
          BY <1>1, <2>4 DEF TypeOK
    <3>2. id = m.id => row'[id].by = h /\ row'[id].db = m.db
          BY <3>1
    <3>3. QED
          BY <1>4, <1>5, <1>6, <2>1, <2>2, <2>4, <3>2 DEF KeptBy, HasRow, Undoing
  <2>5. QED
        BY <1>12, <2>3, <2>4, Inserted
<1>13. CASE Mint(h)
  <2>1. m.pc = "mint" /\ n.db = m.db /\ row' = row /\ user' = user /\ base' = base
        BY <1>13, Minted DEF Mint, Same
  <2>2. id = m.id => row'[id].by = h /\ (m.db => row'[id].db /\ user'[id] = h /\ base'[id] = h)
        BY <1>3, <2>1 DEF KeptBy, HasRow
  <2>3. CASE /\ keys' = [keys EXCEPT ![m.id] = @ \cup {h}]
             /\ n.pc \in {"deliver", "insert"} \cup (IF m.db THEN {"user"} ELSE {})
             /\ n.pc = "insert" => ~m.db
             /\ Made(n) = Made(m) \cup {m.id}
    <3>1. id = m.id => h \in keys'[id]
          BY <1>1, <2>3 DEF TypeOK
    <3>2. id \in Made(n) => Whole(h, id)'
          BY <1>4, <1>6, <2>1, <2>2, <2>3, <3>1 DEF Whole
    <3>3. QED
          BY <1>1, <2>1, <2>3, <3>2 DEF KeptBy, HasRow, Undoing
  <2>4. CASE Undone(m, n)
    <3>1. CASE m.db
      <4>1. Stays(m, n) /\ n.pc = "dropbase"
            BY <2>4, <3>1 DEF Undone
      <4>2. QED
            BY <1>4, <1>5, <1>6, <2>1, <2>2, <3>1, <4>1 DEF KeptBy, HasRow, Undoing
    <3>2. CASE ~m.db
          BY <1>3, <1>4, <2>1, <2>4, <3>2, Retreating DEF Undone
    <3>3. QED
          BY <3>1, <3>2
  <2>5. QED
        BY <1>3, <1>13, <2>3, <2>4, Minted
<1>14. CASE Deliver(h)
  <2>1. m.pc = "deliver" /\ row' = row /\ user' = user /\ base' = base /\ keys' = keys
        BY <1>14, Delivered DEF Deliver, things
  <2>2. Harmless(h, id)
        BY <2>1, AskedStays DEF Harmless
  <2>3. CASE Stays(m, n) /\ n.pc \in {"compose", "done"}
        BY <1>5, <1>6, <2>2, <2>3 DEF KeptBy, HasRow, Undoing
  <2>4. CASE Fails(m, n)
        BY <1>3, <2>2, <2>4, Retreating DEF Fails
  <2>5. QED
        BY <1>14, <2>3, <2>4, Delivered
<1>15. CASE Unkey(h)
  <2>1. m.pc = "unkey" /\ Stays(m, n) /\ n.pc = "unrow" /\ row' = row
        BY <1>3, <1>15, Unkeyed DEF Unkey
  <2>2. id = m.id => row'[id].by = h
        BY <1>3, <2>1 DEF KeptBy, HasRow
  <2>3. QED
        BY <1>4, <1>5, <1>6, <2>1, <2>2 DEF KeptBy, HasRow, Undoing
<1>16. CASE Unrow(h)
  <2>1. m.pc = "unrow" /\ RolledBack(m, n)
        BY <1>3, <1>16, Unrowed
  <2>2. QED
        BY <1>3, <1>4, <2>1, Retreating
<1>17. CASE Reads(h)
      BY <1>3, <1>17 DEF Reads
<1>18. CASE \/ Uncron(h) \/ DeleteApp(h) \/ Save(h) \/ Clear(h) \/ Tell(h) \/ NewApp(h)
            \/ SaveUuid(h) \/ Revoke(h) \/ AddCron(h)
      BY <1>3, <1>18, Others
<1>19. CASE Compose(h)
  <2>1. /\ Stays(m, n) /\ n.pc \in {"done", "unanswered"}
        /\ row' = row /\ user' = user /\ base' = base /\ keys' = keys
        BY <1>19, Composed DEF Compose, things
  <2>2. Harmless(h, id)
        BY <2>1, AskedStays DEF Harmless
  <2>3. QED
        BY <1>5, <1>6, <2>1, <2>2 DEF KeptBy, HasRow, Undoing
<1>20. CASE Declined(h)
  <2>1. user' = user /\ base' = base /\ m.pc \in {"insert", "unkey", "unrow"}
        BY <1>3, <1>20, Declining DEF things
  <2>2. CASE m.pc = "insert" /\ m.db /\ Stays(m, n) /\ n.pc = "dropbase"
    <3>1. id = m.id => user'[id] = h /\ base'[id] = h
          BY <1>3, <2>1, <2>2 DEF KeptBy
    <3>2. m.todo # <<>>
          BY <1>1, <1>3, <2>2, Lists DEF WellOne, WellCreate, Forward, Begun, Undoing
    <3>3. QED
          BY <1>4, <1>5, <1>6, <2>2, <3>1, <3>2 DEF KeptBy, HasRow, Undoing
  <2>3. CASE RolledBack(m, n)
        BY <1>3, <1>4, <2>1, <2>3, Retreating
  <2>4. QED
        BY <1>3, <1>20, <2>2, <2>3, Declining DEF Undone
<1>21. QED
      BY <1>7, <1>8, <1>9, <1>10, <1>11, <1>12, <1>13, <1>14, <1>15, <1>16, <1>17, <1>18, <1>19,
         <1>20 DEF Step

\* Every step keeps what was made of the ids nobody asked to delete or detach.
LEMMA KeptNext ==
  ASSUME TypeOK, Well, Kept, [Next]_vars
  PROVE  Kept'
<1> SUFFICES ASSUME NEW id \in Ids, ~Asked({"delete", "detach"}, id)', NEW h \in Handlers
             PROVE  KeptBy(h, id)'
    BY DEF Kept
<1>1. CASE Crash
  <2>1. /\ \A g \in Handlers : my'[g].op = my[g].op /\ my'[g].id = my[g].id
        /\ row' = row /\ user' = user /\ base' = base /\ keys' = keys
        BY <1>1, Crashing DEF things
  <2>2. \A ops : Asked(ops, id)' <=> Asked(ops, id)
        BY <2>1 DEF Asked
  <2>3. KeptBy(h, id)
        BY <2>2 DEF Kept
  <2>4. /\ my'[h].pc = my[h].pc /\ my'[h].todo = my[h].todo /\ my'[h].made = my[h].made
        /\ my'[h].db = my[h].db
        BY <1>1, Crashing
  <2>5. Made(my'[h]) = Made(my[h]) /\ HasRow(my'[h]) = HasRow(my[h])
        BY <2>4 DEF Made, HasRow
  <2>6. Whole(h, id) => Whole(h, id)'
        BY <2>1, <2>2, <2>4 DEF Whole
  <2>7. QED
        BY <2>1, <2>3, <2>4, <2>5, <2>6 DEF KeptBy
<1>2. ASSUME NEW g \in Handlers, Step(g) PROVE KeptBy(h, id)'
  <2>1. KeptBy(h, id) /\ KeptBy(g, id)
    <3>1. ~Asked({"delete", "detach"}, id)
          BY <1>2, AskedStays
    <3>2. QED
          BY <3>1 DEF Kept
  <2>2. CASE g = h
        BY <1>2, <2>1, <2>2, OwnKept
  <2>3. CASE g # h
    <3>1. Harmless(h, id)
          BY <1>2, <2>1, <2>3, Spares
    <3>2. my'[h] = my[h]
          BY <1>2, <2>3, Steps DEF Moved
    <3>3. QED
          BY <2>1, <3>1, <3>2, Standing
  <2>4. QED
        BY <2>2, <2>3
<1>3. CASE UNCHANGED vars
      BY <1>3 DEF vars, things, Kept, KeptBy, Whole, HasRow, Made, Asked
<1>4. QED
      BY <1>1, <1>2, <1>3 DEF Next

\* Whatever other creates, deploys, attaches, failures, roll-backs and crashes do, an app
\* whose creation was answered keeps its row, its key and its database until somebody asks
\* to delete the app, detach the database or re-issue the key.  (_register, _unregister.)
THEOREM AcknowledgedStays == Spec => []AcknowledgedKept
<1>1. Init => Kept
      BY MadeOf DEF Init, Idle, Kept, KeptBy, HasRow, Undoing
<1>2. TypeOK /\ Well /\ Kept /\ [Next]_vars => (TypeOK /\ Well /\ Kept)'
      BY TypesNext, KeptNext
<1>3. Kept /\ TypeOK => AcknowledgedKept
  <2> SUFFICES ASSUME Kept, TypeOK, NEW h \in Handlers, my[h].op = "create",
                      NEW i \in DOMAIN my[h].made,
                      ~Asked({"delete", "detach"}, my[h].made[i])
               PROVE  Whole(h, my[h].made[i])
      BY DEF AcknowledgedKept, Whole
  <2>1. my[h].made[i] \in Made(my[h])
        BY DEF Made
  <2>2. my[h].made \in Orders
        BY DEF TypeOK, Requests
  <2>3. Made(my[h]) \subseteq Ids
        BY <2>2, MadeOf, Lists DEF Orders
  <2>4. QED
        BY <2>1, <2>3 DEF Kept, KeptBy
<1>4. QED
      BY <1>1, <1>2, <1>3, TypesBegin, PTL DEF Spec
-----------------------------------------------------------------------------
(* What a create that failed has left. *)

\* Another request's step gives h nothing.
LEMMA NotMine ==
  ASSUME TypeOK, Well, NEW g \in Handlers, Step(g), NEW h \in Handlers, h # g,
         NEW id \in Ids, Traced(h, id)
  PROVE  Traced(h, id)'
<1>1. my'[h] = my[h] /\ h # Nobody /\ my[g].id \in Ids
      BY Steps, AppLifeAssumption DEF Moved, Makers, TypeOK, Requests
<1>2. row'[id].by = h => row[id].by = h
      BY <1>1, Writing DEF Wrote, WroteRow, TypeOK
<1>3. h \in keys'[id] => h \in keys[id]
      BY <1>1, Writing DEF Wrote, TypeOK
<1>4. base'[id] = h => base[id] = h
      BY <1>1, Writing DEF Wrote, TypeOK
<1>5. Made(my'[h]) = Made(my[h]) /\ HasRow(my'[h]) = HasRow(my[h])
      BY <1>1
<1>6. /\ Unmoved(h, id, "row") => Unmoved(h, id, "row")'
      /\ Unmoved(h, id, "base") => Unmoved(h, id, "base")'
      BY StillThere DEF Unmoved
<1>7. QED
      BY <1>1, <1>2, <1>3, <1>4, <1>5, <1>6 DEF Traced

\* What h has of an id and might have removed.
Has(h, id) ==
  \/ ~Unmoved(h, id, "row") /\ (row[id].by = h \/ h \in keys[id])
  \/ ~Unmoved(h, id, "base") /\ base[id] = h

\* A create that takes up the next id of those it registered still knows of it.
LEMMA Retraced ==
  ASSUME NEW h \in Handlers, NEW id \in Ids, my[h].op = "create",
         RolledBack(my[h], my'[h]), Has(h, id)' => id \in Made(my[h]),
         base'[id] = h => my[h].db \/ Unmoved(h, id, "base")'
  PROVE  Traced(h, id)'
<1> DEFINE m == my[h]
           n == my'[h]
<1>1. n.op = "create" /\ n.db = m.db
      BY DEF RolledBack, Same
<1>2. CASE m.made = <<>>
  <2>1. ~Has(h, id)'
        BY <1>2, MadeOf
  <2>2. QED
        BY <2>1 DEF Traced, Has
<1>3. CASE /\ n.id \in Made(m) /\ Made(n) = Made(m) \ {n.id} /\ n.todo = <<>>
           /\ n.pc = IF m.db THEN "dropbase" ELSE "unkey"
  <2>1. HasRow(n)
        BY <1>3 DEF HasRow, Undoing
  <2>2. Has(h, id)' => id \in Made(n) \/ n.id = id
        BY <1>3
  <2>3. QED
        BY <1>1, <1>3, <2>1, <2>2 DEF Traced, Has
<1>4. QED
      BY <1>2, <1>3 DEF RolledBack

\* A create knows of all it made, after each of its own steps.
LEMMA OwnTraced ==
  ASSUME TypeOK, Well, "mint" \notin Faults, NEW h \in Handlers, Step(h), NEW id \in Ids,
         Traced(h, id)
  PROVE  Traced(h, id)'
<1> DEFINE m == my[h]
           n == my'[h]
<1> SUFFICES ASSUME n.op \in {"none", "create"} PROVE Traced(h, id)'
    BY DEF Traced
<1>1. /\ m \in Requests /\ WellOne(m) /\ m.id \in Ids /\ m.db \in BOOLEAN
      /\ h # Nobody /\ row[id] \in Rows
      BY AppLifeAssumption DEF TypeOK, Well, Requests, Makers
<1>0. /\ Unmoved(h, id, "row") => Unmoved(h, id, "row")'
      /\ Unmoved(h, id, "base") => Unmoved(h, id, "base")'
      BY StillThere DEF Unmoved
<1>2. CASE Ask(h)
  <2>1. m.op = "none" /\ m.pc = "idle" /\ m.made = <<>>
        BY <1>1, <1>2, Asks DEF WellOne, WellOther
  <2>2. ~Has(h, id) /\ row' = row /\ keys' = keys /\ base' = base
        BY <1>2, <2>1, MadeOf DEF Traced, HasRow, Undoing, Has, Ask, things
  <2>3. QED
        BY <1>0, <2>2 DEF Traced, Has
<1> SUFFICES ASSUME ~Ask(h) PROVE Traced(h, id)'
    BY <1>2
<1>3. m.op = "create"
  <2>1. m.op # "none"
        BY <1>1 DEF WellOne, WellOther, Undoing, Step, CreateChecks, Reads, CreateUser, CreateBase,
           DropBase, DropUser, Insert, Mint, Deliver, Compose, Declined, Unkey, Uncron, Unrow,
           DeleteApp, Save, Clear, Tell, NewApp, SaveUuid, Revoke, AddCron, At
  <2>2. QED
        BY <2>1, Steps
<1>4. /\ row[id].by = h => Unmoved(h, id, "row")' \/ id \in Made(m) \/ (m.id = id /\ HasRow(m))
      /\ h \in keys[id] =>
           \/ Unmoved(h, id, "row")' \/ id \in Made(m)
           \/ m.id = id /\ HasRow(m) /\ m.pc \notin {"mint", "unrow"}
      /\ base[id] = h =>
           \/ Unmoved(h, id, "base")'
           \/ m.db /\ (id \in Made(m) \/ (m.id = id /\ m.pc \in {"insert", "mint", "dropbase"}))
      BY <1>0, <1>3 DEF Traced
<1>5. ASSUME Stays(m, n) PROVE n.op = "create" /\ n.db = m.db /\ n.id = m.id /\ Made(n) = Made(m)
                               /\ n.todo = m.todo
      BY <1>3, <1>5 DEF Stays, Same, Made
<1>6. id # m.id => /\ row'[id] = row[id] /\ base'[id] = base[id] /\ keys'[id] = keys[id]
      BY <1>1, Writing DEF Wrote, WroteRow, TypeOK
<1>7. CASE CreateChecks(h)
  <2>1. /\ Stays(m, n) /\ m.pc \in Begun
        /\ row' = row /\ base' = base /\ keys' = keys
        BY <1>7, Checks DEF CreateChecks, things
  <2>2. QED
        BY <1>4, <1>5, <2>1 DEF Traced, HasRow, Undoing, Begun
<1>8. CASE CreateUser(h)
  <2>1. m.pc = "user" /\ row' = row /\ base' = base /\ keys' = keys
        BY <1>8, UserMade DEF CreateUser
  <2>2. CASE Stays(m, n) /\ n.pc = "base"
        BY <1>4, <1>5, <2>1, <2>2 DEF Traced, HasRow, Undoing
  <2>3. CASE Fails(m, n)
        BY <1>3, <1>4, <2>1, <2>3, Retraced DEF Fails, Has, HasRow, Undoing
  <2>4. QED
        BY <1>8, <2>2, <2>3, UserMade
<1>9. CASE CreateBase(h)
  <2>1. m.pc = "base" /\ m.db /\ row' = row /\ keys' = keys
        BY <1>1, <1>3, <1>9, BaseMade DEF CreateBase, WellOne, WellCreate, Begun, Undoing
  <2>2. CASE Stays(m, n) /\ n.pc = "insert" /\ base' = [base EXCEPT ![m.id] = h]
        BY <1>4, <1>5, <1>6, <2>1, <2>2 DEF Traced, HasRow, Undoing
  <2>3. CASE base' = base /\ Fails(m, n)
        BY <1>3, <1>4, <2>1, <2>3, Retraced DEF Fails, Has, HasRow, Undoing
  <2>4. QED
        BY <1>3, <1>9, <2>2, <2>3, BaseMade
<1>10. CASE DropBase(h)
  <2>1. m.pc = "dropbase" /\ m.db /\ row' = row /\ keys' = keys
        BY <1>3, <1>10, BaseDropped DEF DropBase
  <2>2. CASE /\ base' = [base EXCEPT ![m.id] = Nobody]
             /\ Stays(m, n) /\ n.pc = "dropuser"
    <3>1. id = m.id => base'[id] # h
          BY <1>1, <2>2 DEF TypeOK
    <3>2. QED
          BY <1>4, <1>5, <1>6, <2>1, <2>2, <3>1 DEF Traced, HasRow, Undoing
  <2>3. CASE base' = base /\ After(m, n) /\ Keeps(h, "base")
    <3>1. id = m.id => Unmoved(h, id, "base")'
          BY <2>3 DEF Unmoved, Keeps
    <3>2. CASE m.todo # <<>>
          BY <1>3, <1>4, <2>1, <2>3, <3>1, <3>2, Retraced DEF After, Has, HasRow, Undoing
    <3>3. CASE m.todo = <<>>
      <4>1. Stays(m, n) /\ n.pc = "unkey"
            BY <1>3, <2>3, <3>3 DEF After
      <4>2. QED
            BY <1>4, <1>5, <2>1, <2>3, <3>1, <3>3, <4>1 DEF Traced, HasRow, Undoing
    <3>4. QED
          BY <3>2, <3>3
  <2>4. QED
        BY <1>3, <1>10, <2>2, <2>3, BaseDropped
<1>11. CASE DropUser(h)
  <2>1. m.pc = "dropuser" /\ m.db /\ After(m, n) /\ row' = row /\ base' = base /\ keys' = keys
        BY <1>3, <1>11, UserDropped DEF DropUser
  <2>2. CASE m.todo # <<>>
        BY <1>3, <1>4, <2>1, <2>2, Retraced DEF After, Has, HasRow, Undoing
  <2>3. CASE m.todo = <<>>
    <3>1. Stays(m, n) /\ n.pc = "unkey"
          BY <1>3, <2>1, <2>3 DEF After
    <3>2. QED
          BY <1>4, <1>5, <2>1, <2>3, <3>1 DEF Traced, HasRow, Undoing
  <2>4. QED
        BY <2>2, <2>3
<1>12. CASE Insert(h)
  <2>1. m.pc = "insert" /\ base' = base /\ keys' = keys
        BY <1>12, Inserted DEF Insert
  <2>2. CASE row' = row /\ Undone(m, n)
    <3>1. CASE m.db
      <4>1. Stays(m, n) /\ n.pc = "dropbase"
            BY <2>2, <3>1 DEF Undone
      <4>2. /\ row'[id].by = h => Unmoved(h, id, "row")' \/ id \in Made(m)
            /\ h \in keys'[id] => Unmoved(h, id, "row")' \/ id \in Made(m)
            /\ base'[id] = h => Unmoved(h, id, "base")' \/ id \in Made(m) \/ m.id = id
            BY <1>4, <2>1, <2>2 DEF HasRow, Undoing
      <4>3. QED
            BY <1>5, <3>1, <4>1, <4>2 DEF Traced
    <3>2. CASE ~m.db
          BY <1>3, <1>4, <2>1, <2>2, <3>2, Retraced DEF Undone, Has, HasRow, Undoing
    <3>3. QED
          BY <3>1, <3>2
  <2>3. CASE Stays(m, n) /\ n.pc = "mint"
        BY <1>4, <1>5, <1>6, <2>1, <2>3 DEF Traced, HasRow, Undoing
  <2>4. QED
        BY <1>12, <2>2, <2>3, Inserted
<1>13. CASE Mint(h)
  <2>1. /\ m.pc = "mint" /\ n.db = m.db /\ row' = row /\ base' = base
        /\ Made(n) = Made(m) \cup {m.id} /\ keys' = [keys EXCEPT ![m.id] = @ \cup {h}]
        BY <1>3, <1>13, Minted DEF Mint, Same
  <2>2. QED
        BY <1>4, <1>6, <2>1 DEF Traced, HasRow, Undoing
<1>14. CASE Deliver(h)
  <2>1. m.pc = "deliver" /\ row' = row /\ base' = base /\ keys' = keys
        BY <1>14, Delivered DEF Deliver, things
  <2>2. CASE Stays(m, n) /\ n.pc \in {"compose", "done"}
        BY <1>4, <1>5, <2>1, <2>2 DEF Traced, HasRow, Undoing
  <2>3. CASE Fails(m, n)
        BY <1>3, <1>4, <2>1, <2>3, Retraced DEF Fails, Has, HasRow, Undoing
  <2>4. QED
        BY <1>14, <2>2, <2>3, Delivered
<1>15. CASE Unkey(h)
  <2>1. /\ m.pc = "unkey" /\ Stays(m, n) /\ n.pc = "unrow" /\ row' = row /\ base' = base
        /\ keys' = [keys EXCEPT ![m.id] = {}]
        BY <1>3, <1>15, Unkeyed DEF Unkey
  <2>2. id = m.id => h \notin keys'[id]
        BY <1>1, <2>1 DEF TypeOK
  <2>3. QED
        BY <1>4, <1>5, <1>6, <2>1, <2>2 DEF Traced, HasRow, Undoing
<1>16. CASE Unrow(h)
  <2>1. /\ m.pc = "unrow" /\ RolledBack(m, n) /\ base' = base /\ keys' = keys
        /\ row' = [row EXCEPT ![m.id] = NoRow]
        BY <1>3, <1>16, Unrowed DEF Unrow
  <2>2. id = m.id => row'[id].by # h
        BY <1>1, <2>1 DEF TypeOK, NoRow
  <2>3. QED
        BY <1>3, <1>4, <1>6, <2>1, <2>2, Retraced DEF Has
<1>17. CASE Reads(h)
      BY <1>3, <1>17 DEF Reads
<1>18. CASE \/ Uncron(h) \/ DeleteApp(h) \/ Save(h) \/ Clear(h) \/ Tell(h) \/ NewApp(h)
            \/ SaveUuid(h) \/ Revoke(h) \/ AddCron(h)
      BY <1>3, <1>18, Others
<1>19. CASE Compose(h)
  <2>1. /\ Stays(m, n) /\ n.pc \in {"done", "unanswered"} /\ m.pc = "compose"
        /\ row' = row /\ base' = base /\ keys' = keys
        BY <1>19, Composed DEF Compose, things
  <2>2. QED
        BY <1>4, <1>5, <2>1 DEF Traced, HasRow, Undoing
<1>20. CASE Declined(h)
  <2>1. row' = row /\ base' = base /\ keys' = keys
        BY <1>20, Declining DEF things
  <2>2. CASE m.pc = "insert" /\ Undone(m, n)
    <3>1. /\ row'[id].by = h => Unmoved(h, id, "row")' \/ id \in Made(m)
          /\ h \in keys'[id] => Unmoved(h, id, "row")' \/ id \in Made(m)
          /\ base'[id] = h => Unmoved(h, id, "base")' \/ id \in Made(m) \/ (m.db /\ m.id = id)
          BY <1>4, <2>1, <2>2 DEF HasRow, Undoing
    <3>2. CASE m.db
      <4>1. Stays(m, n) /\ n.pc = "dropbase"
            BY <2>2, <3>2 DEF Undone
      <4>2. QED
            BY <1>5, <3>1, <3>2, <4>1 DEF Traced
    <3>3. CASE ~m.db
      <4>1. RolledBack(m, n)
            BY <2>2, <3>3 DEF Undone
      <4>2. base'[id] = h => Unmoved(h, id, "base")'
            BY <1>4, <2>1, <3>3
      <4>3. QED
            BY <1>3, <3>1, <4>1, <4>2, Retraced DEF Has
    <3>4. QED
          BY <3>2, <3>3
  <2>3. CASE m.pc \in {"unkey", "unrow"} /\ RolledBack(m, n) /\ Keeps(h, "row")
    <3>1. id = m.id => Unmoved(h, id, "row")'
          BY <2>3 DEF Unmoved, Keeps
    <3>2. Has(h, id)' => id \in Made(m)
          BY <1>4, <2>1, <2>3, <3>1 DEF Has
    <3>3. base'[id] = h => m.db \/ Unmoved(h, id, "base")'
          BY <1>4, <2>1
    <3>4. QED
          BY <1>3, <2>3, <3>2, <3>3, Retraced
  <2>4. QED
        BY <1>3, <1>20, <2>2, <2>3, Declining
<1>21. QED
      BY <1>7, <1>8, <1>9, <1>10, <1>11, <1>12, <1>13, <1>14, <1>15, <1>16, <1>17, <1>18, <1>19,
         <1>20 DEF Step

\* Every step keeps that.
LEMMA TracedNext ==
  ASSUME TypeOK, Well, AllTraced, "mint" \notin Faults, [Next]_vars
  PROVE  AllTraced'
<1> SUFFICES ASSUME NEW h \in Handlers, NEW id \in Ids PROVE Traced(h, id)'
    BY DEF AllTraced
<1>1. Traced(h, id)
      BY DEF AllTraced
<1>2. CASE Crash
  <2>1. row' = row /\ base' = base /\ keys' = keys /\ stuck' = stuck
        BY <1>2, Crashing DEF things
  <2>2. /\ my'[h].op = my[h].op /\ my'[h].id = my[h].id /\ my'[h].pc = my[h].pc
        /\ my'[h].todo = my[h].todo /\ my'[h].made = my[h].made /\ my'[h].db = my[h].db
        BY <1>2, Crashing
  <2>3. Made(my'[h]) = Made(my[h]) /\ HasRow(my'[h]) = HasRow(my[h])
        BY <2>2 DEF Made, HasRow
  <2>4. QED
        BY <1>1, <2>1, <2>2, <2>3 DEF Traced, Unmoved
<1>3. ASSUME NEW g \in Handlers, Step(g) PROVE Traced(h, id)'
      BY <1>1, <1>3, OwnTraced, NotMine
<1>4. CASE UNCHANGED vars
      BY <1>1, <1>4 DEF vars, things, Traced, Unmoved, HasRow, Made
<1>5. QED
      BY <1>2, <1>3, <1>4 DEF Next

\* As long as mint_key does not fail, a create that was rolled back has left no row, key or
\* database of either id but what the statement to remove it did not: a database that could
\* not be dropped, or a row and its keys; whatever ran meanwhile, and whatever else fails.
\* (create_app, _register, _unregister.)
THEOREM FailedLeft == "mint" \notin Faults /\ Spec => []FailedLeavesNothing
<1> SUFFICES ASSUME "mint" \notin Faults PROVE Spec => []FailedLeavesNothing
    OBVIOUS
<1>1. Init => AllTraced
  <2> SUFFICES ASSUME Init, NEW h \in Handlers, NEW id \in Ids PROVE Traced(h, id)
      BY DEF AllTraced
  <2>1. h # First /\ h # Nobody /\ NoRow.by = Nobody
        BY AppLifeAssumption DEF Makers, NoRow
  <2>2. ~Has(h, id)
        BY <2>1 DEF Init, Has
  <2>3. QED
        BY <2>2 DEF Traced, Has
<1>2. TypeOK /\ Well /\ AllTraced /\ [Next]_vars => (TypeOK /\ Well /\ AllTraced)'
      BY TypesNext, TracedNext
<1>3. Well /\ AllTraced => FailedLeavesNothing
  <2> SUFFICES ASSUME Well, AllTraced, NEW h \in Handlers, my[h].op = "create",
                      my[h].pc = "failed", NEW id \in Ids
               PROVE  ~Has(h, id)
      BY DEF FailedLeavesNothing, Has, Unmoved
  <2>1. Made(my[h]) = {}
        BY MadeOf DEF Well, WellOne, WellCreate, Begun, Undoing
  <2>2. QED
        BY <2>1 DEF AllTraced, Traced, Has, HasRow, Undoing
<1>4. QED
      BY <1>1, <1>2, <1>3, TypesBegin, PTL DEF Spec
-----------------------------------------------------------------------------
(* What a row says of its database. *)

\* The history misses no race: each step but a crash adds the ids raced for after it, and
\* a crash leaves no request at work.
LEMMA RacesNext ==
  ASSUME TypeOK, Well, RacesSeen, [Next]_vars
  PROVE  RacesSeen'
<1>1. CASE Crash
      BY <1>1, Crashing DEF RacesSeen, Racing, MayDrop
<1>2. CASE raced' = raced \cup Racing'
      BY <1>2 DEF RacesSeen
<1>3. CASE UNCHANGED vars
      BY <1>3 DEF vars, RacesSeen, Racing, MayDrop
<1>4. QED
      BY <1>1, <1>2, <1>3 DEF Next

\* While one request drops what goes by an id that no race has touched, no other may.
LEMMA Alone ==
  ASSUME RacesSeen, NEW id \in Ids \ raced, NEW h \in Handlers, NEW g \in Handlers, g # h,
         my[h].op # "create", MayDrop(h, id)
  PROVE  ~MayDrop(g, id)
BY DEF RacesSeen, Racing

\* Who holds a login or a database, who drops one, and who is about to say so.
LEMMA Holders ==
  ASSUME TypeOK, Well, NEW g \in Handlers, my[g].up, NEW id \in Ids
  PROVE  /\ HoldsBase(my[g], id) => HoldsUser(my[g], id)
         /\ Unclaimed(my[g], id) => HoldsUser(my[g], id)
         /\ HoldsUser(my[g], id) => MayDrop(g, id) \/ Unclaimed(my[g], id)
         /\ Gap(g, id) => MayDrop(g, id)
         /\ Drops(my[g], id) => MayDrop(g, id) /\ my[g].op # "create"
<1> DEFINE m == my[g]
<1>1. WellOne(m)
      BY DEF Well
<1>2. HoldsBase(m, id) => HoldsUser(m, id)
      BY DEF HoldsUser
<1>3. Unclaimed(m, id) => HoldsUser(m, id)
      BY <1>1 DEF Unclaimed, HoldsUser, HoldsBase, WellOne, WellCreate, Begun, Undoing
<1>4. HoldsUser(m, id) => MayDrop(g, id) \/ Unclaimed(m, id)
  <2> SUFFICES ASSUME HoldsUser(m, id), ~Unclaimed(m, id) PROVE MayDrop(g, id)
      OBVIOUS
  <2>1. m.op = "create" /\ m.pc \notin Over /\ (m.id = id \/ id \in Made(m))
        BY DEF HoldsUser, HoldsBase, Unclaimed
  <2>2. m.pc \notin {"idle", "failed", "refused"}
    <3>1. CASE m.made = <<>>
          BY <3>1, MadeOf DEF HoldsUser, HoldsBase, Unclaimed
    <3>2. CASE m.made # <<>>
          BY <1>1, <2>1, <3>2 DEF WellOne, WellCreate, Begun, Undoing
    <3>3. QED
          BY <3>1, <3>2
  <2>3. QED
        BY <2>1, <2>2 DEF MayDrop, Ended, Made
<1>5. Gap(g, id) => MayDrop(g, id)
      BY <1>1 DEF Gap, Later, MayDrop, Ended, WellOne, WellOther, Undoing
<1>6. Drops(m, id) => MayDrop(g, id) /\ m.op # "create"
      BY DEF Drops, MayDrop, Ended, Undoing
<1>7. QED
      BY <1>2, <1>3, <1>4, <1>5, <1>6

\* A clean id has been clean.
LEMMA CleanBefore ==
  ASSUME TypeOK, Well, [Next]_vars, NEW id \in Ids, Clean(id)'
  PROVE  Clean(id)
<1>1. CASE Crash
      BY <1>1, Crashing DEF Clean, Gap, Stale
<1>2. ASSUME NEW h \in Handlers, Step(h), raced' = raced \cup Racing' PROVE Clean(id)
  <2>1. id \notin raced \cup Stale
        BY <1>2, StillThere DEF Clean
  <2>2. ASSUME NEW g \in Handlers, Gap(g, id) PROVE my[g].up
    <3>1. CASE g = h
          BY <1>2, <3>1, Steps
    <3>2. CASE g # h
      <4>1. my'[g] = my[g]
            BY <1>2, <3>2, Steps DEF Moved
      <4>2. QED
            BY <2>2, <4>1 DEF Clean, Gap
    <3>3. QED
          BY <3>1, <3>2
  <2>3. QED
        BY <2>1, <2>2 DEF Clean
<1>3. CASE UNCHANGED vars
      BY <1>3 DEF vars, Clean, Gap, Stale
<1>4. QED
      BY <1>1, <1>2, <1>3 DEF Next

\* No other request holds anything of an id while one drops its database.
LEMMA NoneHolds ==
  ASSUME TypeOK, Well, RacesSeen, NEW id \in Ids, Clean(id), Claimed(id),
         NEW h \in Handlers, my[h].up, Drops(my[h], id), my[h].pc \in Undoing,
         NEW g \in Handlers, g # h, my[g].up
  PROVE  ~HoldsUser(my[g], id) /\ ~Drops(my[g], id)
<1>1. /\ my[h].op # "create" /\ MayDrop(h, id) /\ id \notin raced /\ row[id].db
      /\ \A k \in Handlers \ {h} : ~MayDrop(k, id)
      BY Holders, Alone DEF Clean, Claimed, Owned
<1>2. ~Unclaimed(my[g], id)
  <2> SUFFICES ASSUME Unclaimed(my[g], id) PROVE FALSE
      OBVIOUS
  <2>1. PICK k \in Handlers : Late(k, id)
        BY <1>1 DEF Claimed, Owned
  <2>2. Gap(k, id) /\ my[k].up /\ k # h
        BY <2>1 DEF Late, Gap, Clean, Later, Undoing
  <2>3. QED
        BY <1>1, <2>2, Holders
<1>3. QED
      BY <1>1, <1>2, Holders

\* What a create that takes up the next of its ids holds.
LEMMA OwnedBack ==
  ASSUME NEW h \in Handlers, NEW id \in Ids, Owned(h, id), my[h].op = "create", my[h].up,
         my[h].pc \notin Over, RolledBack(my[h], my'[h]),
         id \in Made(my[h]) => user'[id] = user[id] /\ base'[id] = base[id]
  PROVE  Owned(h, id)'
<1> DEFINE m == my[h]
           n == my'[h]
<1>1. n.op = "create" /\ n.db = m.db
      BY DEF RolledBack, Same
<1>2. CASE m.made = <<>> /\ n.made = <<>> /\ n.pc = "failed"
  <2>1. Made(n) = {}
        BY <1>2, MadeOf
  <2>2. QED
        BY <1>1, <1>2, <2>1 DEF Owned, HoldsUser, HoldsBase, Unclaimed, Drops, Undoing
<1>3. CASE /\ n.id \in Made(m) /\ Made(n) = Made(m) \ {n.id} /\ n.todo = <<>>
           /\ n.pc = IF m.db THEN "dropbase" ELSE "unkey"
  <2>1. HoldsUser(n, id) => m.db /\ id \in Made(m)
        BY <1>1, <1>3 DEF HoldsUser, HoldsBase
  <2>2. m.db /\ id \in Made(m) => HoldsBase(m, id) /\ HoldsUser(m, id)
        BY DEF HoldsUser, HoldsBase
  <2>3. HoldsBase(n, id) => HoldsUser(n, id)
        BY DEF HoldsUser
  <2>4. ~Unclaimed(n, id) /\ ~Drops(n, id)
        BY <1>1, <1>3 DEF Unclaimed, Drops
  <2>5. QED
        BY <2>1, <2>2, <2>3, <2>4 DEF Owned
<1>4. QED
      BY <1>2, <1>3 DEF RolledBack

\* A request that holds nothing and drops nothing.
Idles(m, id) ==
  ~HoldsUser(m, id) /\ ~HoldsBase(m, id) /\ ~Unclaimed(m, id) /\ ~Drops(m, id)

\* The places at which a request holds and drops nothing.
LEMMA Quits ==
  ASSUME NEW m, NEW id,
         m.pc \in {"idle", "check", "checkdev", "refused", "tell", "revoke", "cron", "newapp",
                   "saveuuid", "clear", "uncron", "failed", "user", "unkey", "unrow", "mint",
                   "deliver", "insert"} \cup Over,
         m.pc \notin Over /\ m.op = "create" /\ m.db => id \notin Made(m),
         m.pc \in {"insert", "mint"} => m.op # "create" \/ ~m.db
  PROVE  Idles(m, id)
BY DEF Idles, HoldsUser, HoldsBase, Unclaimed, Drops, Undoing

\* A step that leaves alone what g relies on.
Leaves(g, id) ==
  /\ HoldsUser(my[g], id) => user'[id] = user[id]
  /\ HoldsBase(my[g], id) => base'[id] = base[id]
  /\ Unclaimed(my[g], id) /\ row'[id].db =>
       row[id].db /\ \A k \in Handlers : Late(k, id) => Late(k, id)'
  /\ Drops(my[g], id) => row'[id].db = row[id].db /\ (user[id] # Nobody => user'[id] # Nobody)

\* A request that is left alone still has what it relies on.
LEMMA LeftAlone ==
  ASSUME NEW g \in Handlers, NEW id \in Ids, Owned(g, id), my[g].up => Leaves(g, id),
         my'[g] = my[g]
  PROVE  Owned(g, id)'
<1>1. /\ my'[g].up = my[g].up /\ my'[g].pc = my[g].pc
      /\ HoldsUser(my'[g], id) = HoldsUser(my[g], id)
      /\ HoldsBase(my'[g], id) = HoldsBase(my[g], id)
      /\ Unclaimed(my'[g], id) = Unclaimed(my[g], id)
      /\ Drops(my'[g], id) = Drops(my[g], id)
      OBVIOUS
<1> SUFFICES ASSUME my[g].up PROVE Owned(g, id)'
    BY <1>1 DEF Owned
<1>2. Unclaimed(my[g], id) /\ row'[id].db => \E k \in Handlers : Late(k, id)'
      BY DEF Owned, Leaves
<1>3. QED
      BY <1>1, <1>2 DEF Owned, Leaves

\* One that holds nothing relies on nothing.
LEMMA Idling ==
  ASSUME NEW h \in Handlers, NEW id \in Ids, Idles(my'[h], id)
  PROVE  Owned(h, id)'
BY DEF Owned, Idles

\* A step that changes nothing of the database or of what is said of it.
LEMMA Quiet ==
  ASSUME TypeOK, Well, NEW h \in Handlers, Step(h), NEW id \in Ids, Claimed(id),
         row'[id].db = row[id].db, user'[id] = user[id], base'[id] = base[id],
         Late(h, id) => Late(h, id)', Gap(h, id) => Gap(h, id)', Owned(h, id)'
  PROVE  Claimed(id)'
<1>1. \A g \in Handlers \ {h} : my'[g] = my[g]
      BY Steps DEF Moved
<1>2. \A g \in Handlers : Late(g, id) => Late(g, id)'
      BY <1>1 DEF Late
<1>3. \A g \in Handlers : Gap(g, id) => Gap(g, id)'
      BY <1>1 DEF Gap
<1>4. \A g \in Handlers : Leaves(g, id)
      BY <1>2 DEF Leaves
<1>5. \A g \in Handlers : Owned(g, id)'
      BY <1>1, <1>4, LeftAlone DEF Claimed
<1>6. QED
      BY <1>3, <1>5 DEF Claimed

\* How a request's step changes it.
LEMMA Ways ==
  ASSUME TypeOK, Well, NEW h \in Handlers, Step(h)
  PROVE  LET m == my[h]
             n == my'[h]
         IN  /\ m.pc \in Over => m.pc = "compose" /\ n.pc \in Over
             /\ \/ n.pc = "check" /\ n.made = <<>>
                \/ Stays(m, n)
                \/ m.op = "create" /\ RolledBack(m, n)
                \/ Reads(h) \/ Mint(h)
<1>1. CASE Ask(h) \/ CreateChecks(h) \/ Reads(h)
      BY <1>1, Asks, Checks DEF Reads, At, Begun
<1>2. CASE CreateUser(h) \/ CreateBase(h)
      BY <1>2, UserMade, BaseMade DEF Fails
<1>3. CASE DropBase(h) \/ DropUser(h)
      BY <1>3, BaseDropped, UserDropped DEF After
<1>4. CASE Insert(h) \/ Mint(h)
      BY <1>4, Inserted DEF Undone, Mint, At
<1>5. CASE Deliver(h) \/ Unkey(h) \/ Unrow(h)
      BY <1>5, Delivered, Unkeyed, Unrowed DEF Fails
<1>6. CASE \/ Uncron(h) \/ DeleteApp(h) \/ Save(h) \/ Clear(h) \/ Tell(h) \/ NewApp(h)
           \/ SaveUuid(h) \/ Revoke(h) \/ AddCron(h)
      BY <1>6, Others
<1>7. CASE Compose(h) \/ Declined(h)
      BY <1>7, Composed, Declining DEF Undone
<1>8. QED
      BY <1>1, <1>2, <1>3, <1>4, <1>5, <1>6, <1>7 DEF Step

\* A step about another id, which may end at this one.
LEMMA ClaimedAway ==
  ASSUME TypeOK, Well, "mint" \notin Faults, NEW h \in Handlers, Step(h), NEW id \in Ids,
         Claimed(id), my[h].id # id
  PROVE  Claimed(id)'
<1> DEFINE m == my[h]
           n == my'[h]
<1>1. row'[id] = row[id] /\ user'[id] = user[id] /\ base'[id] = base[id]
      BY Writing DEF Wrote, WroteRow, TypeOK, Requests
<1>2. ~Late(h, id) /\ ~Gap(h, id)
      BY DEF Late, Gap
<1>3. m.up /\ Owned(h, id)
      BY Steps DEF Claimed
<1>4. Owned(h, id)'
  <2>1. CASE n.pc = "check" /\ n.made = <<>>
        BY <2>1, MadeOf, Quits, Idling
  <2>2. CASE Stays(m, n)
    <3>1. /\ Made(n) = Made(m) /\ n.id # id /\ n.op = m.op /\ n.db = m.db
          /\ m.pc \in Over => n.pc \in Over
          BY <2>2, Ways DEF Stays, Same, Made
    <3>2. /\ HoldsUser(n, id) => HoldsUser(m, id) /\ HoldsBase(m, id)
          /\ HoldsBase(n, id) => HoldsBase(m, id)
          /\ ~Unclaimed(n, id) /\ ~Drops(n, id)
          BY <3>1 DEF HoldsUser, HoldsBase, Unclaimed, Drops
    <3>3. QED
          BY <1>1, <1>3, <3>2 DEF Owned
  <2>3. CASE m.op = "create" /\ RolledBack(m, n)
    <3>1. m.pc \notin Over
          BY <2>3, Ways DEF RolledBack
    <3>2. QED
          BY <1>1, <1>3, <2>3, <3>1, OwnedBack
  <2>4. CASE Reads(h)
    <3>1. n.op # "create" /\ n.id # id
          BY <2>4, Reading
    <3>2. Idles(n, id)
          BY <3>1 DEF Idles, HoldsUser, HoldsBase, Unclaimed, Drops
    <3>3. QED
          BY <3>2, Idling
  <2>5. CASE Mint(h)
    <3>1. CASE m.op # "create"
      <4>1. n.op # "create" /\ n.id # id
            BY <2>5, <3>1, Minted DEF Same
      <4>2. Idles(n, id)
            BY <4>1 DEF Idles, HoldsUser, HoldsBase, Unclaimed, Drops
      <4>3. QED
            BY <4>2, Idling
    <3>2. CASE m.op = "create"
      <4>1. /\ Made(n) = Made(m) \cup {m.id} /\ n.op = m.op /\ n.db = m.db
            /\ n.pc \in {"deliver", "insert", "user"} /\ (n.pc = "insert" => ~m.db)
            BY <2>5, <3>2, Minted DEF Same
      <4>2. m.pc = "mint"
            BY <2>5, Minted
      <4>3. /\ HoldsUser(n, id) => HoldsUser(m, id) /\ HoldsBase(m, id)
            /\ HoldsBase(n, id) => HoldsBase(m, id)
            /\ ~Unclaimed(n, id) /\ ~Drops(n, id)
            BY <3>2, <4>1, <4>2 DEF HoldsUser, HoldsBase, Unclaimed, Drops, Undoing
      <4>4. QED
            BY <1>1, <1>3, <4>3 DEF Owned
    <3>3. QED
          BY <3>1, <3>2
  <2>6. QED
        BY <2>1, <2>2, <2>3, <2>4, <2>5, Ways
<1>5. QED
      BY <1>1, <1>2, <1>4, Quiet

\* What holds when h's step is about this id: nobody raced it, and its row is written.
Here(h, id) ==
  /\ TypeOK /\ Well /\ RacesSeen /\ "mint" \notin Faults
  /\ Step(h) /\ my[h].id = id /\ my[h].up
  /\ Clean(id) /\ id \notin Stale' /\ Claimed(id) /\ Owned(h, id)
  /\ \A g \in Handlers \ {h} : my'[g] = my[g]

\* It is enough to look at h, at what the others rely on, and at the database.
LEMMA Together ==
  ASSUME NEW h \in Handlers, NEW id \in Ids, Here(h, id), Owned(h, id)',
         \A g \in Handlers \ {h} : my[g].up => Leaves(g, id),
         base'[id] # Nobody => user'[id] # Nobody,
         row'[id].db /\ base'[id] = Nobody => \E g \in Handlers : Gap(g, id)'
  PROVE  Claimed(id)'
<1>1. \A g \in Handlers \ {h} : Owned(g, id)'
      BY LeftAlone DEF Here, Claimed
<1>2. QED
      BY <1>1 DEF Claimed

\* CREATE USER at this id.  When the row names a database and there is no login, there is
\* no database, so a request is past both drops and about to say so.
LEMMA ClaimedUser ==
  ASSUME NEW h \in Handlers, NEW id \in Ids, Here(h, id), CreateUser(h)
  PROVE  Claimed(id)'
<1> USE DEF Here
<1> DEFINE m == my[h]
           n == my'[h]
<1>1. /\ m \in Requests /\ WellOne(m) /\ m.pc = "user" /\ h # Nobody
      /\ row' = row /\ base' = base
      BY AppLifeAssumption, UserMade DEF TypeOK, Well, Makers, CreateUser
<1>2. ~Late(h, id) /\ ~Gap(h, id)
      BY <1>1 DEF Late, Gap, Later
<1>3. CASE /\ user[id] = Nobody /\ user' = [user EXCEPT ![id] = h]
           /\ Stays(m, n) /\ n.pc = "base"
  <2>1. user'[id] = h
        BY <1>3 DEF TypeOK
  <2>2. ASSUME NEW g \in Handlers \ {h}, my[g].up PROVE Leaves(g, id)
    <3>1. ~HoldsUser(my[g], id) /\ ~HoldsBase(my[g], id) /\ ~Unclaimed(my[g], id)
          BY <1>3, <2>2, Holders, AppLifeAssumption DEF Claimed, Owned, Makers
    <3>2. QED
          BY <1>1, <2>1, <3>1 DEF Leaves
  <2>3. row[id].db => \E g \in Handlers : Late(g, id)'
    <3> SUFFICES ASSUME row[id].db PROVE \E g \in Handlers : Late(g, id)'
        OBVIOUS
    <3>1. PICK g \in Handlers : Gap(g, id)
          BY <1>3 DEF Claimed
    <3>2. g # h /\ my[g].up /\ my'[g] = my[g] /\ WellOne(my[g])
          BY <1>2, <3>1 DEF Clean, Well
    <3>3. my[g].pc # "dropuser"
      <4>1. ~HoldsUser(my[g], id) /\ ~(Drops(my[g], id) /\ my[g].pc = "dropuser")
            BY <1>3, <3>2, AppLifeAssumption DEF Claimed, Owned, Makers
      <4>2. QED
            BY <3>1, <3>2, <4>1
            DEF Gap, HoldsUser, Drops, Undoing, WellOne, WellOther
    <3>4. Late(g, id)
          BY <3>1, <3>3 DEF Gap, Late
    <3>5. QED
          BY <3>2, <3>4 DEF Late
  <2>4. Owned(h, id)'
    <3>1. /\ Made(n) = Made(m) /\ n.op = m.op /\ n.db = m.db /\ n.id = id
          /\ m.op = "create" => id \notin Made(m)
          BY <1>1, <1>3, Apart DEF Stays, Same, Made
    <3>2. ~HoldsBase(n, id) /\ ~Drops(n, id)
          BY <1>3, <3>1 DEF HoldsBase, Drops, Undoing
    <3>3. QED
          BY <1>1, <2>1, <2>3, <3>2 DEF Owned
  <2>5. row'[id].db /\ base'[id] = Nobody => \E g \in Handlers : Gap(g, id)'
        BY <1>1, <2>3 DEF Late, Gap
  <2>6. QED
        BY <1>1, <2>1, <2>2, <2>4, <2>5, Together
<1>4. CASE user' = user /\ Fails(m, n)
  <2>1. Owned(h, id)'
    <3>1. CASE m.op = "create"
          BY <1>1, <1>4, <3>1, OwnedBack DEF Fails
    <3>2. CASE m.op # "create"
          BY <1>4, <3>2, Quits, Idling DEF Fails, Stays, Same
    <3>3. QED
          BY <3>1, <3>2
  <2>2. QED
        BY <1>1, <1>2, <1>4, <2>1, Quiet
<1>5. QED
      BY <1>3, <1>4, UserMade

\* CREATE DATABASE at this id: nobody else holds a database of it.
LEMMA ClaimedBase ==
  ASSUME NEW h \in Handlers, NEW id \in Ids, Here(h, id), CreateBase(h)
  PROVE  Claimed(id)'
<1> USE DEF Here
<1> DEFINE m == my[h]
           n == my'[h]
<1>1. /\ m \in Requests /\ WellOne(m) /\ m.pc = "base" /\ h # Nobody
      /\ row' = row /\ user' = user
      BY AppLifeAssumption, BaseMade DEF TypeOK, Well, Makers, CreateBase
<1>2. ~Late(h, id) /\ ~Gap(h, id)
      BY <1>1 DEF Late, Gap, Later
<1>3. CASE /\ base[id] = Nobody /\ base' = [base EXCEPT ![id] = h]
           /\ Stays(m, n) /\ n.pc = IF m.op = "create" THEN "insert" ELSE "save"
  <2>1. base'[id] = h
        BY <1>3 DEF TypeOK
  <2>2. user[id] = h
        BY <1>1 DEF Owned, HoldsUser
  <2>3. \A g \in Handlers : Late(g, id) => Late(g, id)'
        BY <1>2 DEF Late
  <2>4. ASSUME NEW g \in Handlers \ {h}, my[g].up PROVE Leaves(g, id)
    <3>1. ~HoldsBase(my[g], id)
          BY <1>3, <2>4, AppLifeAssumption DEF Claimed, Owned, Makers
    <3>2. QED
          BY <1>1, <2>3, <3>1 DEF Leaves
  <2>5. Owned(h, id)'
    <3>1. Unclaimed(m, id) /\ ~Drops(n, id)
          BY <1>1, <1>3 DEF Unclaimed, Drops, Undoing
    <3>2. row'[id].db => \E g \in Handlers : Late(g, id)'
          BY <1>1, <2>3, <3>1 DEF Owned
    <3>3. QED
          BY <1>1, <2>1, <2>2, <3>1, <3>2 DEF Owned
  <2>6. QED
        BY <1>1, <2>1, <2>2, <2>4, <2>5, Together
<1>4. CASE base' = base /\ Fails(m, n)
  <2>1. Owned(h, id)'
    <3>1. CASE m.op = "create"
          BY <1>1, <1>4, <3>1, OwnedBack DEF Fails
    <3>2. CASE m.op # "create"
          BY <1>4, <3>2, Quits, Idling DEF Fails, Stays, Same
    <3>3. QED
          BY <3>1, <3>2
  <2>2. QED
        BY <1>1, <1>2, <1>4, <2>1, Quiet
<1>5. QED
      BY <1>3, <1>4, BaseMade

\* DROP DATABASE: a create's own, or one that a detach or a delete has to itself.
LEMMA ClaimedDropBase ==
  ASSUME NEW h \in Handlers, NEW id \in Ids, Here(h, id), DropBase(h)
  PROVE  Claimed(id)'
<1> USE DEF Here
<1> DEFINE m == my[h]
           n == my'[h]
<1>1. /\ m \in Requests /\ WellOne(m) /\ m.pc = "dropbase" /\ m.db /\ h # Nobody
      /\ row' = row /\ user' = user /\ m.op \in {"create", "detach", "delete"}
      BY AppLifeAssumption, BaseDropped DEF TypeOK, Well, Makers, DropBase
<1>2. ~Late(h, id) /\ ~Gap(h, id)
      BY <1>1 DEF Late, Gap, Later
<1>3. CASE base' = [base EXCEPT ![id] = Nobody] /\ Stays(m, n) /\ n.pc = "dropuser"
  <2>0. n.op = m.op /\ n.id = id /\ n.db /\ n.todo = m.todo /\ Made(n) = Made(m)
        BY <1>1, <1>3 DEF Stays, Same, Made
  <2>1. base'[id] = Nobody /\ Gap(h, id)'
        BY <2>0, <1>3 DEF TypeOK, Gap
  <2>2. \A g \in Handlers : Late(g, id) => Late(g, id)'
        BY <1>2 DEF Late
  <2>3. CASE m.op = "create"
    <3>1. user[id] = h /\ base[id] = h
          BY <1>1, <2>3 DEF Owned, HoldsUser, HoldsBase
    <3>2. ASSUME NEW g \in Handlers \ {h}, my[g].up PROVE Leaves(g, id)
      <4>1. ~HoldsBase(my[g], id)
            BY <3>1, <3>2 DEF Claimed, Owned
      <4>2. QED
            BY <1>1, <2>2, <4>1 DEF Leaves
    <3>3. Owned(h, id)'
      <4>1. ~HoldsBase(n, id) /\ ~Drops(n, id)
            BY <1>1, <2>0, <1>3, <2>3, Apart DEF HoldsBase, Drops
      <4>2. Unclaimed(n, id) => Unclaimed(m, id)
            BY <1>1, <2>0, <1>3, <2>3 DEF Unclaimed, Undoing
      <4>3. Unclaimed(n, id) /\ row'[id].db => \E g \in Handlers : Late(g, id)'
            BY <1>1, <2>2, <4>2 DEF Owned
      <4>4. QED
            BY <1>1, <3>1, <4>1, <4>3 DEF Owned
    <3>4. QED
          BY <2>1, <3>2, <3>3, Together
  <2>4. CASE m.op # "create"
    <3>1. Drops(m, id) /\ m.pc \in Undoing
          BY <1>1, <2>4 DEF Drops, Undoing
    <3>2. ASSUME NEW g \in Handlers \ {h}, my[g].up PROVE Leaves(g, id)
      <4>1. ~HoldsUser(my[g], id) /\ ~HoldsBase(my[g], id) /\ ~Drops(my[g], id)
            BY <3>1, <3>2, NoneHolds, Holders
      <4>2. ~Unclaimed(my[g], id)
            BY <3>2, <4>1, Holders
      <4>3. QED
            BY <4>1, <4>2 DEF Leaves
    <3>3. row[id].db /\ user[id] # Nobody
      <4>1. row[id].db
            BY <3>1 DEF Owned
      <4>2. ~\E g \in Handlers : Gap(g, id)
            BY <1>2, <3>1, Holders, Alone DEF Clean
      <4>3. QED
            BY <4>1, <4>2 DEF Claimed
    <3>4. Owned(h, id)'
      <4>1. ~HoldsUser(n, id) /\ ~HoldsBase(n, id) /\ ~Unclaimed(n, id)
            BY <2>0, <1>3, <2>4 DEF HoldsUser, HoldsBase, Unclaimed
      <4>2. QED
            BY <1>1, <3>3, <4>1 DEF Owned
    <3>5. QED
          BY <2>1, <3>2, <3>4, Together
  <2>5. QED
        BY <2>3, <2>4
<1>4. CASE /\ base' = base
           /\ IF m.op = "create" THEN After(m, n) ELSE Stays(m, n) /\ n.pc = "failed"
  <2>1. Owned(h, id)'
    <3>1. CASE m.op = "create" /\ RolledBack(m, n)
          BY <1>1, <1>4, <3>1, OwnedBack
    <3>2. CASE m.op = "create" /\ Stays(m, n) /\ n.pc = "unkey"
      <4>1. id \notin Made(n)
            BY <1>1, <3>2, Apart DEF Stays, Made
      <4>2. QED
            BY <3>2, <4>1, Quits, Idling
    <3>3. CASE m.op # "create" /\ Stays(m, n) /\ n.pc = "failed"
          BY <3>3, Quits, Idling DEF Stays, Same
    <3>4. QED
          BY <1>4, <3>1, <3>2, <3>3 DEF After
  <2>2. QED
        BY <1>1, <1>2, <1>4, <2>1, Quiet
<1>5. QED
      BY <1>3, <1>4, BaseDropped

\* DROP USER: likewise; a create that then leaves the id had not put it in the row.
LEMMA ClaimedDropUser ==
  ASSUME NEW h \in Handlers, NEW id \in Ids, Here(h, id), DropUser(h)
  PROVE  Claimed(id)'
<1> USE DEF Here
<1> DEFINE m == my[h]
           n == my'[h]
<1>1. /\ m \in Requests /\ WellOne(m) /\ m.pc = "dropuser" /\ m.db /\ h # Nobody
      /\ row' = row /\ base' = base /\ m.op \in {"create", "detach", "delete"}
      BY AppLifeAssumption, UserDropped DEF TypeOK, Well, Makers, DropUser
<1>2. ~Late(h, id) /\ Gap(h, id) /\ MayDrop(h, id)
      BY <1>1 DEF Late, Gap, Later, MayDrop, Ended
<1>3. \A g \in Handlers : Late(g, id) => Late(g, id)'
      BY <1>2 DEF Late
<1>4. \/ /\ Owned(h, id)'
         /\ row[id].db /\ base[id] = Nobody => \E g \in Handlers : Gap(g, id)'
      \/ n.pc = "failed" /\ Stays(m, n) /\ base[id] # Nobody /\ user' = user /\ m.op # "create"
  <2>1. CASE m.op = "create" /\ m.todo # <<>> /\ RolledBack(m, n)
    <3>1. id \notin Made(m)
          BY <1>1, <2>1, Apart
    <3>2. Owned(h, id)'
          BY <1>1, <2>1, <3>1, OwnedBack
    <3>3. Unclaimed(m, id)
          BY <1>1, <2>1 DEF Unclaimed, Undoing
    <3>4. row[id].db => \E g \in Handlers : Late(g, id)'
          BY <1>3, <3>3 DEF Owned
    <3>5. row[id].db => \E g \in Handlers : Gap(g, id)'
          BY <3>4 DEF Late, Gap
    <3>6. QED
          BY <3>2, <3>5
  <2>2. CASE Stays(m, n) /\ n.pc = IF m.op = "detach" THEN "clear" ELSE "unkey"
    <3>1. n.op = m.op /\ n.id = id /\ n.db /\ Made(n) = Made(m)
          BY <1>1, <2>2 DEF Stays, Same, Made
    <3>2. Idles(n, id)
          BY <1>1, <2>2, <3>1, Apart, Quits
    <3>3. Gap(h, id)'
          BY <2>2, <3>1 DEF Gap, Later
    <3>4. QED
          BY <3>2, <3>3, Idling
  <2>3. ~Keeps(h, "row")
        BY Marked
  <2>4. QED
        BY <2>1, <2>2, <2>3, UserDropped DEF After
<1>5. CASE user' = user
  <2>1. Owned(h, id)'
    <3>1. CASE n.pc = "failed" /\ Stays(m, n) /\ m.op # "create"
          BY <3>1, Quits, Idling DEF Stays, Same
    <3>2. QED
          BY <1>4, <3>1
  <2>2. \A g \in Handlers : Leaves(g, id)
        BY <1>1, <1>3, <1>5 DEF Leaves
  <2>3. row[id].db /\ base[id] = Nobody => \E g \in Handlers : Gap(g, id)'
        BY <1>4
  <2>4. QED
        BY <1>1, <1>5, <2>1, <2>2, <2>3, Together DEF Claimed
<1>6. CASE base[id] = Nobody /\ user' = [user EXCEPT ![id] = Nobody]
  <2>1. user'[id] = Nobody
        BY <1>6 DEF TypeOK
  <2>2. ASSUME NEW g \in Handlers \ {h}, my[g].up
        PROVE  ~HoldsUser(my[g], id) /\ ~Drops(my[g], id)
    <3>1. CASE m.op = "create"
      <4>1. user[id] = h
            BY <1>1, <3>1 DEF Owned, HoldsUser
      <4>2. ~HoldsUser(my[g], id)
            BY <2>2, <4>1 DEF Claimed, Owned
      <4>3. ~Drops(my[g], id)
            BY <1>2, <2>2, Holders, Alone DEF Clean
      <4>4. QED
            BY <4>2, <4>3
    <3>2. CASE m.op # "create"
      <4>1. Drops(m, id) /\ m.pc \in Undoing
            BY <1>1, <3>2 DEF Drops, Undoing
      <4>2. QED
            BY <2>2, <4>1, NoneHolds
    <3>3. QED
          BY <3>1, <3>2
  <2>3. ASSUME NEW g \in Handlers \ {h}, my[g].up PROVE Leaves(g, id)
        BY <1>1, <1>3, <2>2, <2>3, Holders DEF Leaves
  <2>4. QED
        BY <1>1, <1>4, <1>6, <2>3, Together
<1>7. QED
      BY <1>5, <1>6, UserDropped

\* INSERT: a row that names a database names h's own.
LEMMA ClaimedInsert ==
  ASSUME NEW h \in Handlers, NEW id \in Ids, Here(h, id), Insert(h)
  PROVE  Claimed(id)'
<1> USE DEF Here
<1> DEFINE m == my[h]
           n == my'[h]
<1>1. /\ m \in Requests /\ WellOne(m) /\ m.pc = "insert" /\ m.op = "create" /\ h # Nobody
      /\ m.db \in BOOLEAN /\ user' = user /\ base' = base /\ id \notin Made(m)
      BY AppLifeAssumption, Inserted, Apart DEF TypeOK, Well, Makers, Requests, Insert
<1>2. ~Late(h, id) /\ ~Gap(h, id)
      BY <1>1 DEF Late, Gap, Later
<1>3. m.db => user[id] = h /\ base[id] = h
      BY <1>1 DEF Owned, HoldsUser, HoldsBase
<1>4. ASSUME Stays(m, n)
      PROVE  n.op = "create" /\ n.id = id /\ n.db = m.db /\ Made(n) = Made(m) /\ n.todo = m.todo
      BY <1>1, <1>4 DEF Stays, Same, Made
<1>5. CASE row' = row /\ Undone(m, n)
  <2>1. Owned(h, id)'
    <3>1. CASE m.db
      <4>1. Stays(m, n) /\ n.pc = "dropbase"
            BY <1>5, <3>1 DEF Undone
      <4>2. ~Drops(n, id) /\ Unclaimed(m, id)
            BY <1>1, <1>4, <3>1, <4>1 DEF Drops, Unclaimed
      <4>3. row'[id].db => \E g \in Handlers : Late(g, id)'
            BY <1>2, <1>5, <4>2 DEF Owned, Late
      <4>4. QED
            BY <1>1, <1>3, <3>1, <4>2, <4>3 DEF Owned
    <3>2. CASE ~m.db
          BY <1>1, <1>5, <3>2, OwnedBack DEF Undone
    <3>3. QED
          BY <1>1, <3>1, <3>2
  <2>2. QED
        BY <1>1, <1>2, <1>5, <2>1, Quiet
<1>6. CASE /\ ~There(id) /\ Stays(m, n) /\ n.pc = "mint"
           /\ row' = [row EXCEPT ![id] = [by |-> h, db |-> m.db, uuid |-> Nobody]]
  <2>1. row'[id].db = m.db
    <3>1. row'[id] = [by |-> h, db |-> m.db, uuid |-> Nobody]
          BY <1>6 DEF TypeOK
    <3>2. QED
          BY <3>1
  <2>2. ~row[id].db
        BY <1>6 DEF TypeOK, NoRow
  <2>3. ASSUME NEW g \in Handlers \ {h}, my[g].up PROVE Leaves(g, id)
    <3>1. ~Drops(my[g], id)
          BY <2>2, <2>3 DEF Claimed, Owned
    <3>2. m.db => ~Unclaimed(my[g], id)
          BY <1>3, <2>3, Holders DEF Claimed, Owned
    <3>3. QED
          BY <1>1, <2>1, <3>1, <3>2 DEF Leaves
  <2>4. Owned(h, id)'
    <3>1. ~Unclaimed(n, id) /\ ~Drops(n, id)
          BY <1>4, <1>6 DEF Unclaimed, Drops, Undoing
    <3>2. HoldsUser(n, id) => m.db
          BY <1>1, <1>4, <1>6 DEF HoldsUser, HoldsBase
    <3>3. HoldsBase(n, id) => m.db
          BY <1>1, <1>4, <1>6 DEF HoldsBase
    <3>4. QED
          BY <1>1, <1>3, <3>1, <3>2, <3>3 DEF Owned
  <2>5. base'[id] # Nobody => user'[id] # Nobody
        BY <1>1 DEF Claimed
  <2>6. QED
        BY <1>1, <1>3, <2>1, <2>3, <2>4, <2>5, Together
<1>7. QED
      BY <1>5, <1>6, Inserted

\* The row goes: nobody else is dropping what it named.
LEMMA ClaimedUnrow ==
  ASSUME NEW h \in Handlers, NEW id \in Ids, Here(h, id), Unrow(h)
  PROVE  Claimed(id)'
<1> USE DEF Here
<1> DEFINE m == my[h]
           n == my'[h]
<1>1. /\ m \in Requests /\ WellOne(m) /\ m.pc = "unrow" /\ m.op \in {"create", "delete"}
      /\ user' = user /\ base' = base
      BY Unrowed DEF TypeOK, Well, Unrow
<1>2. MayDrop(h, id)
      BY <1>1 DEF MayDrop, Ended
<1>3. ~row'[id].db
      BY DEF Unrow, TypeOK, NoRow
<1>4. ASSUME NEW g \in Handlers \ {h}, my[g].up PROVE Leaves(g, id)
  <2>1. ~Drops(my[g], id)
        BY <1>2, <1>4, Holders, Alone DEF Clean
  <2>2. QED
        BY <1>1, <1>3, <2>1 DEF Leaves
<1>5. Owned(h, id)'
  <2>1. CASE m.op = "create"
        BY <1>1, <2>1, Unrowed, OwnedBack
  <2>2. CASE m.op # "create"
    <3>1. n.pc = "done"
          BY <2>2, Unrowed
    <3>2. QED
          BY <3>1, Quits, Idling
  <2>3. QED
        BY <2>1, <2>2
<1>6. QED
      BY <1>1, <1>3, <1>4, <1>5, Together DEF Claimed

\* attach_db's UPDATE: the database it names is h's own.
LEMMA ClaimedSave ==
  ASSUME NEW h \in Handlers, NEW id \in Ids, Here(h, id), Save(h)
  PROVE  Claimed(id)'
<1> USE DEF Here
<1> DEFINE m == my[h]
           n == my'[h]
<1>1. /\ m.pc = "save" /\ h # Nobody /\ user' = user /\ base' = base /\ row[id] \in Rows
      BY AppLifeAssumption DEF Save, At, Makers, TypeOK
<1>2. user[id] = h /\ base[id] = h
      BY <1>1 DEF Owned, HoldsUser, HoldsBase
<1>3. row[id].db => row'[id].db = row[id].db
  <2>1. row[id].db => There(id)
        BY DEF TypeOK, NoRow
  <2>2. There(id) => row'[id] = [row[id] EXCEPT !.db = TRUE]
        BY DEF Save, Updates, TypeOK
  <2>3. QED
        BY <1>1, <2>1, <2>2 DEF Rows
<1>4. ASSUME NEW g \in Handlers \ {h}, my[g].up PROVE Leaves(g, id)
  <2>1. ~Unclaimed(my[g], id)
        BY <1>2, <1>4, Holders DEF Claimed, Owned
  <2>2. Drops(my[g], id) => row[id].db
        BY <1>4 DEF Claimed, Owned
  <2>3. QED
        BY <1>1, <1>3, <2>1, <2>2 DEF Leaves
<1>5. Owned(h, id)'
  <2>1. n.op # "create" /\ n.pc \in {"tell", "done", "failed"}
        BY <1>1, Others DEF Stays, Same, Leads
  <2>2. QED
        BY <2>1, Quits, Idling
<1>6. QED
      BY <1>1, <1>2, <1>4, <1>5, Together

\* detach_db's UPDATE.
LEMMA ClaimedClear ==
  ASSUME NEW h \in Handlers, NEW id \in Ids, Here(h, id), Clear(h)
  PROVE  Claimed(id)'
<1> USE DEF Here
<1> DEFINE m == my[h]
           n == my'[h]
<1>1. m.pc = "clear" /\ user' = user /\ base' = base /\ row[id] \in Rows /\ WellOne(m)
      BY DEF Clear, At, TypeOK, Well
<1>2. m.op = "detach" /\ MayDrop(h, id)
      BY <1>1 DEF WellOne, WellCreate, WellOther, Begun, Undoing, MayDrop, Ended
<1>3. ~row'[id].db
  <2>1. row'[id] = [row[id] EXCEPT !.db = FALSE] \/ row'[id] = NoRow
        BY DEF Clear, Updates, TypeOK
  <2>2. QED
        BY <1>1, <2>1 DEF Rows, NoRow
<1>4. ASSUME NEW g \in Handlers \ {h}, my[g].up PROVE Leaves(g, id)
  <2>1. ~Drops(my[g], id)
        BY <1>2, <1>4, Holders, Alone DEF Clean
  <2>2. QED
        BY <1>1, <1>3, <2>1 DEF Leaves
<1>5. Owned(h, id)'
  <2>1. n.op # "create" /\ n.pc \in {"tell", "done", "failed"}
        BY <1>1, Others DEF Stays, Same, Leads
  <2>2. QED
        BY <2>1, Quits, Idling
<1>6. QED
      BY <1>1, <1>3, <1>4, <1>5, Together DEF Claimed

\* A statement that is refused, when that leaves no row unwritten.
LEMMA ClaimedDeclined ==
  ASSUME NEW h \in Handlers, NEW id \in Ids, Here(h, id), Declined(h)
  PROVE  Claimed(id)'
<1> USE DEF Here
<1> DEFINE m == my[h]
           n == my'[h]
<1>1. /\ m \in Requests /\ WellOne(m) /\ m.db \in BOOLEAN
      /\ row' = row /\ user' = user /\ base' = base
      BY Declining DEF TypeOK, Well, Requests, things
<1>2. ~Keeps(h, "row")
      BY Marked
<1>3. ~Late(h, id) /\ ~Gap(h, id)
      BY <1>2, Declining DEF Late, Gap, Later
<1>4. Owned(h, id)'
  <2>1. CASE m.op = "create" /\ m.pc = "insert" /\ m.db /\ Stays(m, n) /\ n.pc = "dropbase"
    <3>1. n.op = "create" /\ n.id = id /\ n.db = m.db /\ Made(n) = Made(m) /\ n.todo = m.todo
          BY <2>1 DEF Stays, Same, Made
    <3>2. ~Drops(n, id) /\ Unclaimed(m, id)
          BY <2>1, <3>1 DEF Drops, Unclaimed
    <3>3. row'[id].db => \E g \in Handlers : Late(g, id)'
          BY <1>1, <1>3, <3>2 DEF Owned, Late
    <3>4. user[id] = h /\ base[id] = h
          BY <2>1 DEF Owned, HoldsUser, HoldsBase
    <3>5. QED
          BY <1>1, <3>2, <3>3, <3>4 DEF Owned
  <2>2. CASE m.op = "create" /\ m.pc = "insert" /\ RolledBack(m, n)
        BY <1>1, <2>2, OwnedBack
  <2>3. CASE m.op # "create" /\ Stays(m, n) /\ n.pc = "failed"
        BY <2>3, Quits, Idling DEF Stays, Same
  <2>4. QED
        BY <1>1, <1>2, <2>1, <2>2, <2>3, Declining DEF Undone
<1>5. QED
      BY <1>1, <1>3, <1>4, Quiet

\* The steps that touch neither the database nor what is said of it.
LEMMA ClaimedOther ==
  ASSUME NEW h \in Handlers, NEW id \in Ids, Here(h, id),
         \/ Ask(h) \/ CreateChecks(h) \/ Reads(h) \/ Mint(h) \/ Deliver(h) \/ Compose(h)
         \/ Unkey(h) \/ Uncron(h) \/ DeleteApp(h) \/ Tell(h) \/ NewApp(h) \/ SaveUuid(h) \/ Revoke(h) \/ AddCron(h)
  PROVE  Claimed(id)'
<1> USE DEF Here
<1> DEFINE m == my[h]
           n == my'[h]
<1>1. m \in Requests /\ WellOne(m) /\ m.db \in BOOLEAN /\ row[id] \in Rows
      BY DEF TypeOK, Well, Requests
<1>2. user'[id] = user[id] /\ base'[id] = base[id]
      BY DEF Ask, CreateChecks, Reads, Mint, Deliver, Compose, Unkey, Uncron, DeleteApp, Tell,
             NewApp, SaveUuid, Revoke, AddCron, things
<1>3. row'[id].db = row[id].db
  <2>1. CASE SaveUuid(h)
    <3>1. row'[id] = [row[id] EXCEPT !.uuid = h] \/ (~There(id) /\ row'[id] = NoRow)
          BY <2>1 DEF SaveUuid, Updates, TypeOK
    <3>2. QED
          BY <1>1, <3>1 DEF Rows, TypeOK
  <2>2. CASE ~SaveUuid(h)
        BY <2>2 DEF Ask, CreateChecks, Reads, Mint, Deliver, Compose, Unkey, Uncron, DeleteApp,
               Tell, NewApp, SaveUuid, Revoke, AddCron, things
  <2>3. QED
        BY <2>1, <2>2
<1>4. /\ Late(h, id) => Late(h, id)'
      /\ Gap(h, id) => Gap(h, id)'
  <2>1. CASE Unkey(h)
        BY <2>1, Unkeyed DEF Late, Gap, Later, Stays, Same
  <2>2. CASE Uncron(h)
    <3>1. n.pc = "unrow"
          BY <2>2 DEF Uncron, Goes, At, TypeOK, Requests
    <3>2. QED
          BY <2>2, <3>1, Others DEF Late, Gap, Later, Stays, Same
  <2>3. CASE ~Unkey(h) /\ ~Uncron(h)
        BY <2>3 DEF Ask, CreateChecks, Reads, Mint, Deliver, Compose, DeleteApp, Tell, NewApp,
               SaveUuid, Revoke, AddCron, At, Late, Gap, Later
  <2>4. QED
        BY <2>1, <2>2, <2>3
<1>5. Owned(h, id)'
  <2>1. CASE Ask(h)
        BY <2>1, Asks, MadeOf, Quits, Idling
  <2>2. CASE CreateChecks(h)
    <3>1. /\ n.pc \in {"refused", "checkdev", IF m.db THEN "user" ELSE "insert"}
          /\ Made(n) = {} /\ n.db = m.db
          BY <2>2, Checks, MadeOf DEF Stays, Same
    <3>2. QED
          BY <1>1, <3>1, Quits, Idling
  <2>3. CASE Reads(h)
    <3>1. /\ n.op # "create" /\ n.id = id
          /\ n.pc \in {"refused", "user", "dropbase", "app", "unkey", "newapp", "done", "revoke",
                       "cron"}
          /\ n.op \in {"detach", "delete"} /\ n.pc # "refused" => n.db = row[id].db
          BY <2>3, Reading
    <3>2. ~HoldsUser(n, id) /\ ~HoldsBase(n, id) /\ ~Unclaimed(n, id)
          BY <3>1 DEF HoldsUser, HoldsBase, Unclaimed
    <3>3. Drops(n, id) => row'[id].db /\ n.pc # "dropuser"
          BY <1>3, <3>1 DEF Drops, Undoing
    <3>4. QED
          BY <3>2, <3>3 DEF Owned
  <2>4. CASE Mint(h)
    <3>1. CASE m.op # "create"
      <4>1. n.op # "create" /\ n.pc \in {"deliver", "insert", "user"}
            BY <2>4, <3>1, Minted DEF Same
      <4>2. QED
            BY <4>1, Quits, Idling
    <3>2. CASE m.op = "create"
      <4>1. /\ Made(n) = Made(m) \cup {id} /\ n.op = m.op /\ n.db = m.db /\ m.pc = "mint"
            /\ n.pc \in {"deliver", "insert", "user"} /\ (n.pc = "insert" => ~m.db)
            BY <2>4, <3>2, Minted DEF Same
      <4>2. ~Unclaimed(n, id) /\ ~Drops(n, id)
            BY <3>2, <4>1 DEF Unclaimed, Drops, Undoing
      <4>3. HoldsUser(n, id) => m.db
            BY <4>1 DEF HoldsUser, HoldsBase
      <4>4. HoldsBase(n, id) => m.db
            BY <4>1 DEF HoldsBase
      <4>5. m.db => user[id] = h /\ base[id] = h
            BY <3>2, <4>1 DEF Owned, HoldsUser, HoldsBase
      <4>6. QED
            BY <1>2, <4>2, <4>3, <4>4, <4>5 DEF Owned
    <3>3. QED
          BY <3>1, <3>2
  <2>5. CASE Deliver(h)
    <3>1. CASE Stays(m, n) /\ n.pc \in {"compose", "done"}
          BY <3>1, Quits, Idling
    <3>2. CASE m.op = "create" /\ RolledBack(m, n)
          BY <1>2, <2>5, <3>2, Delivered, OwnedBack
    <3>3. CASE m.op # "create" /\ Stays(m, n) /\ n.pc = "failed"
          BY <3>3, Quits, Idling DEF Stays, Same
    <3>4. QED
          BY <2>5, <3>1, <3>2, <3>3, Delivered DEF Fails
  <2>6. CASE Unkey(h)
    <3>1. /\ n.op = m.op /\ n.pc \in {"unrow", "uncron"} /\ Made(n) = Made(m) /\ n.db = m.db
          /\ m.pc = "unkey"
          BY <2>6, Unkeyed DEF Stays, Same, Made
    <3>2. n.op = "create" => id \notin Made(n)
          BY <1>1, <3>1, Apart
    <3>3. QED
          BY <3>1, <3>2, Quits, Idling
  <2>7. CASE DeleteApp(h)
    <3>1. /\ m.pc = "app" /\ m.op # "create" /\ Stays(m, n)
          /\ n.pc \in {"dropbase", "unkey", "done", "failed"}
          BY <2>7, Others DEF Leads, DeleteApp, At
    <3>2. ~HoldsUser(n, id) /\ ~HoldsBase(n, id) /\ ~Unclaimed(n, id)
          BY <3>1 DEF HoldsUser, HoldsBase, Unclaimed, Stays, Same
    <3>3. Drops(n, id) => Drops(m, id) /\ n.pc # "dropuser"
          BY <3>1 DEF Drops, Stays, Same, Undoing
    <3>4. QED
          BY <1>3, <3>2, <3>3 DEF Owned
  <2>8. CASE Uncron(h) \/ Tell(h) \/ NewApp(h) \/ SaveUuid(h) \/ Revoke(h) \/ AddCron(h)
    <3>1. m.op # "create" /\ n.op # "create" /\ Leads(m, n.pc)
          BY <2>8, Others DEF Stays, Same
    <3>2. m.pc \in {"uncron", "tell", "newapp", "saveuuid", "revoke", "cron"}
          BY <2>8 DEF Uncron, Tell, NewApp, SaveUuid, Revoke, AddCron, At
    <3>3. n.pc \in {"unrow", "saveuuid", "mint", "done", "failed"}
          BY <3>1, <3>2 DEF Leads
    <3>4. QED
          BY <3>1, <3>3, Quits, Idling
  <2>9. CASE Compose(h)
        BY <2>9, Composed, Quits, Idling
  <2>10. QED
        BY <2>1, <2>2, <2>3, <2>4, <2>5, <2>6, <2>7, <2>8, <2>9
<1>6. QED
      BY <1>2, <1>3, <1>4, <1>5, Quiet

\* Every step keeps what rows say of the databases of clean ids true.
LEMMA ClaimedNext ==
  ASSUME TypeOK, Well, RacesSeen, CleanClaimed, "mint" \notin Faults, [Next]_vars
  PROVE  CleanClaimed'
<1> SUFFICES ASSUME NEW id \in Ids, Clean(id)' PROVE Claimed(id)'
    BY DEF CleanClaimed
<1>1. Clean(id) /\ Claimed(id)
      BY CleanBefore DEF CleanClaimed
<1>2. CASE Crash
  <2>1. row' = row /\ user' = user /\ base' = base
        BY <1>2, Crashing DEF things
  <2>2. ASSUME NEW g \in Handlers
        PROVE  /\ my'[g].up => my[g].up
               /\ HoldsUser(my'[g], id) = HoldsUser(my[g], id)
               /\ HoldsBase(my'[g], id) = HoldsBase(my[g], id)
               /\ Unclaimed(my'[g], id) = Unclaimed(my[g], id)
               /\ Drops(my'[g], id) = Drops(my[g], id)
               /\ my'[g].pc = my[g].pc
               /\ Late(g, id)' = Late(g, id) /\ Gap(g, id)' = Gap(g, id)
    <3>1. /\ my'[g].up => my[g].up
          /\ my'[g].pc = my[g].pc /\ my'[g].op = my[g].op /\ my'[g].id = my[g].id
          /\ my'[g].todo = my[g].todo /\ my'[g].made = my[g].made /\ my'[g].db = my[g].db
          BY <1>2, Crashing
    <3>2. Made(my'[g]) = Made(my[g])
          BY <3>1 DEF Made
    <3>3. HoldsBase(my'[g], id) = HoldsBase(my[g], id)
          BY <3>1, <3>2 DEF HoldsBase
    <3>4. HoldsUser(my'[g], id) = HoldsUser(my[g], id)
          BY <3>1, <3>3 DEF HoldsUser
    <3>5. /\ Unclaimed(my'[g], id) = Unclaimed(my[g], id)
          /\ Drops(my'[g], id) = Drops(my[g], id)
          BY <3>1 DEF Unclaimed, Drops
    <3>6. Late(g, id)' = Late(g, id) /\ Gap(g, id)' = Gap(g, id)
          BY <3>1 DEF Late, Gap
    <3>7. QED
          BY <3>1, <3>3, <3>4, <3>5, <3>6
  <2>3. \A g \in Handlers : Owned(g, id)'
        BY <1>1, <2>1, <2>2 DEF Claimed, Owned
  <2>4. QED
        BY <1>1, <2>1, <2>2, <2>3 DEF Claimed
<1>3. ASSUME NEW h \in Handlers, Step(h) PROVE Claimed(id)'
  <2>1. CASE my[h].id # id
        BY <1>1, <1>3, <2>1, ClaimedAway
  <2>2. CASE my[h].id = id
    <3>1. Here(h, id)
          BY <1>1, <1>3, <2>2, Steps DEF Here, Claimed, Moved, Clean
    <3>2. QED
          BY <1>3, <3>1, ClaimedUser, ClaimedBase, ClaimedDropBase, ClaimedDropUser, ClaimedInsert,
             ClaimedUnrow, ClaimedSave, ClaimedClear, ClaimedDeclined, ClaimedOther DEF Step
  <2>3. QED
        BY <2>1, <2>2
<1>4. CASE UNCHANGED vars
      BY <1>1, <1>4 DEF vars, things, Claimed, Owned, Late, Gap
<1>5. QED
      BY <1>2, <1>3, <1>4 DEF Next

\* As long as mint_key does not fail, a row names a database only while there is one, but
\* for a request between dropping it and saying so, unless a second request raced for it or
\* the row could not be written.  (detach_db, attach_db, delete_app.)
THEOREM ClaimsTheDatabase == "mint" \notin Faults /\ Spec => []ClaimsDatabase
<1> SUFFICES ASSUME "mint" \notin Faults PROVE Spec => []ClaimsDatabase
    OBVIOUS
<1>1. Init => RacesSeen /\ CleanClaimed
  <2> SUFFICES ASSUME Init PROVE RacesSeen /\ CleanClaimed
      OBVIOUS
  <2>1. \A h \in Handlers : my[h] = Idle
        BY DEF Init
  <2>2. RacesSeen
        BY <2>1 DEF RacesSeen, Racing, MayDrop, Idle, Ended
  <2>3. \A h \in Handlers, id \in Ids : Idles(my[h], id)
        BY <2>1 DEF Idles, HoldsUser, HoldsBase, Unclaimed, Drops, Undoing, Idle
  <2>4. \A h \in Handlers, id \in Ids : Owned(h, id)
        BY <2>3 DEF Owned, Idles
  <2>5. \A id \in Ids : /\ base[id] # Nobody => user[id] # Nobody
                        /\ row[id].db => base[id] # Nobody
        BY AppLifeAssumption DEF Init, NoRow, Makers
  <2>6. QED
        BY <2>2, <2>4, <2>5 DEF CleanClaimed, Claimed
<1>2. /\ TypeOK /\ Well /\ RacesSeen /\ CleanClaimed /\ [Next]_vars
        => (TypeOK /\ Well /\ RacesSeen /\ CleanClaimed)'
      BY TypesNext, RacesNext, ClaimedNext
<1>3. CleanClaimed => ClaimsDatabase
  <2> SUFFICES ASSUME CleanClaimed, NEW id \in Ids \ (raced \cup Stale),
                      row[id].db, base[id] = Nobody
               PROVE  \E h \in Handlers : Gap(h, id)
      BY DEF ClaimsDatabase, Gap, Later
  <2>1. CASE Clean(id)
        BY <2>1 DEF CleanClaimed, Claimed
  <2>2. CASE ~Clean(id)
        BY <2>2 DEF Clean
  <2>3. QED
        BY <2>1, <2>2
<1>4. QED
      BY <1>1, <1>2, <1>3, TypesBegin, PTL DEF Spec
=============================================================================
