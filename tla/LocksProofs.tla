---------------------------- MODULE LocksProofs ----------------------------
(***************************************************************************)
(* For any number of apps and of coroutines, and whichever handlers they   *)
(* are in: what a handler acquires it acquires in the order of LockOrder,  *)
(* on every path through it and on every way an exception takes out of it. *)
(*                                                                         *)
(* A path is a sequence of entries and exits, so what has to be said of it *)
(* is that it runs: from the blocks s, each entry is in order and each     *)
(* exit leaves a block, and the path ends in the blocks e (Run(p, s, e)).  *)
(* The handlers are put together from Skip, Then, Maybe and In, and one    *)
(* lemma for each says that it keeps "runs back to where it began"         *)
(* (Closed).  What remains of a path once an exception has left a block is *)
(* the hard part: Levels counts how deep a run is at each of its steps,    *)
(* and FirstBelow finds the block again at the first step below.           *)
(*                                                                         *)
(* The library's induction theorems cannot be instantiated here, but an    *)
(* induction over a set of numbers can be done with the least element that *)
(* its complement would have: Least and Climbs.                            *)
(***************************************************************************)
EXTENDS Locks, SequenceTheorems, FiniteSetTheorems, WellFoundedInduction, TLAPS

\* A set of numbers that has a member has a least one.
LEMMA Least ==
  ASSUME NEW S \in SUBSET Nat, S # {}
  PROVE  \E n \in S : \A m \in S : n <= m
  <1> DEFINE R == OpToRel(<, Nat)
  <1>1. IsWellFoundedOn(R, Nat) BY NatLessThanWellFounded
  <1>2. R = {ss \in Nat \X Nat : ss[1] < ss[2]} BY DEF OpToRel
  <1> HIDE DEF R
  <1>3. PICK x \in S : \A y \in S : ~ (<<y, x>> \in R)
    BY <1>1, WFMin
  <1>4. ASSUME NEW y \in S PROVE x <= y
    <2>1. x \in Nat /\ y \in Nat OBVIOUS
    <2>2. ~(y < x) BY <1>2, <1>3, <2>1
    <2> QED BY <2>1, <2>2
  <1> QED BY <1>4

\* Induction up to N: a set with 0 in it and closed under the next number has all
\* of 0 .. N in it.
LEMMA Climbs ==
  ASSUME NEW N \in Nat, NEW S, 0 \in S,
         \A n \in 0 .. N - 1 : n \in S => n + 1 \in S
  PROVE  0 .. N \subseteq S
  <1> SUFFICES ASSUME (0 .. N) \ S # {} PROVE FALSE OBVIOUS
  <1>1. PICK n \in (0 .. N) \ S : \A m \in (0 .. N) \ S : n <= m
    <2> DEFINE T == (0 .. N) \ S
    <2>1. T \in SUBSET Nat /\ T # {} OBVIOUS
    <2> HIDE DEF T
    <2>2. \E n \in T : \A m \in T : n <= m BY <2>1, Least
    <2> QED BY <2>2 DEF T
  <1>2. n # 0 OBVIOUS
  <1>3. n - 1 \in 0 .. N - 1 /\ (n - 1) + 1 = n BY <1>1, <1>2
  <1>4. n - 1 \in S BY <1>1, <1>3
  <1> QED BY <1>1, <1>3, <1>4
-----------------------------------------------------------------------------
\* What an `async with` enters, and what a path consists of.
Blocks == Locks \cup {Conn}
Steps  == Blocks \cup {Exit}

\* Locks, connections, exits and Nothing are told apart.
LEMMA Kinds == /\ Exit \notin Blocks /\ Conn \notin Locks /\ Nothing \notin Steps
               /\ Web \in Blocks /\ Routing \in Blocks /\ Conn \in Blocks /\ Apps \subseteq Blocks
               /\ Web # Routing /\ Routing \notin Apps /\ Web \in Apps
  BY LockOrderAssumption, LocksAssumption DEF Blocks, Steps, Locks

\* Entering a block adds its lock, or one connection, and leaving it again is the
\* way back.
LEMMA EntersBlock ==
  ASSUME NEW s \in Seq(Blocks), NEW r \in Blocks
  PROVE  /\ Append(s, r) \in Seq(Blocks) /\ Append(s, r) # <<>> /\ Front(Append(s, r)) = s
         /\ LocksOf(Append(s, r)) = LocksOf(s) \cup ({r} \ {Conn})
         /\ ConnsOf(Append(s, r)) = ConnsOf(s) + (IF r = Conn THEN 1 ELSE 0)
         /\ ConnsOf(s) \in Nat
  <1> DEFINE u == Append(s, r)
  <1>1. /\ u \in Seq(Blocks) /\ u # <<>> /\ Len(u) = Len(s) + 1 /\ Len(s) \in Nat
        /\ DOMAIN s = 1 .. Len(s) /\ DOMAIN u = 1 .. Len(s) + 1
        /\ \A i \in 1 .. Len(s) : u[i] = s[i]
        /\ u[Len(s) + 1] = r
    BY AppendProperties, LenProperties
  <1> HIDE DEF u
  <1>2. Front(u) = s
    <2>1. Front(u) = SubSeq(u, 1, Len(s)) BY <1>1 DEF Front
    <2>2. \A i \in 1 .. Len(s) : u[i] \in Blocks BY <1>1, ElementOfSeq
    <2>3. /\ SubSeq(u, 1, Len(s)) \in Seq(Blocks)
          /\ Len(SubSeq(u, 1, Len(s))) = IF 1 <= Len(s) THEN Len(s) - 1 + 1 ELSE 0
          /\ \A i \in 1 .. Len(s) - 1 + 1 : SubSeq(u, 1, Len(s))[i] = u[1 + i - 1]
      BY <1>1, <2>2, SubSeqProperties
    <2>4. Len(SubSeq(u, 1, Len(s))) = Len(s) BY <1>1, <2>3
    <2>5. \A i \in 1 .. Len(s) : SubSeq(u, 1, Len(s))[i] = s[i] BY <1>1, <2>3
    <2> QED BY <2>1, <2>3, <2>4, <2>5, SeqEqual
  <1>3. LocksOf(u) = LocksOf(s) \cup ({r} \ {Conn})
    <2>1. {u[i] : i \in DOMAIN u} = {s[i] : i \in DOMAIN s} \cup {r} BY <1>1
    <2> QED BY <2>1 DEF LocksOf, ToSet
  <1>4. /\ ConnsOf(u) = ConnsOf(s) + (IF r = Conn THEN 1 ELSE 0)
        /\ ConnsOf(s) \in Nat
    <2> DEFINE C(v) == {i \in DOMAIN v : v[i] = Conn}
    <2>1. C(u) = IF r = Conn THEN C(s) \cup {Len(s) + 1} ELSE C(s)
      BY <1>1
    <2>2. C(s) \in SUBSET (1 .. Len(s)) BY <1>1
    <2>3. IsFiniteSet(C(s)) /\ Cardinality(C(s)) \in Nat
      <3>1. IsFiniteSet(1 .. Len(s)) BY <1>1, FS_Interval
      <3> HIDE DEF C
      <3> QED BY <2>2, <3>1, FS_Subset, FS_CardinalityType
    <2>4. Len(s) + 1 \notin C(s) BY <1>1
    <2>5. ConnsOf(u) = Cardinality(C(u)) /\ ConnsOf(s) = Cardinality(C(s)) BY DEF ConnsOf
    <2> HIDE DEF C
    <2>6. Cardinality(C(s) \cup {Len(s) + 1}) = Cardinality(C(s)) + 1
      BY <2>3, <2>4, FS_AddElement
    <2> QED BY <2>1, <2>3, <2>5, <2>6
  <1> QED BY <1>1, <1>2, <1>3, <1>4 DEF u

\* Leaving the innermost block of a non-empty stack gives up at most what the
\* stack holds.
LEMMA LeavesBlock ==
  ASSUME NEW s \in Seq(Blocks), s # <<>>
  PROVE  /\ Front(s) \in Seq(Blocks) /\ Len(Front(s)) = Len(s) - 1
         /\ \A i \in 1 .. Len(s) - 1 : Front(s)[i] = s[i]
         /\ LocksOf(Front(s)) \subseteq LocksOf(s)
         /\ ConnsOf(Front(s)) \in 0 .. ConnsOf(s)
  <1>1. PICK f \in Seq(Blocks), r \in Blocks : s = Append(f, r)
    BY SequenceEmptyOrAppend
  <1>2. Front(s) = f BY <1>1, EntersBlock
  <1>3. Len(s) = Len(f) + 1 /\ Len(f) \in Nat /\ \A i \in 1 .. Len(f) : s[i] = f[i]
    BY <1>1, AppendProperties, LenProperties
  <1>4. LocksOf(f) \subseteq LocksOf(s) /\ ConnsOf(f) \in 0 .. ConnsOf(s)
    BY <1>1, EntersBlock
  <1> QED BY <1>2, <1>3, <1>4

\* Outside every block nothing is held.
LEMMA OutOfBlocks == LocksOf(<<>>) = {} /\ ConnsOf(<<>>) = 0
  <1>1. DOMAIN <<>> = {} OBVIOUS
  <1>2. ToSet(<<>>) = {} BY <1>1 DEF ToSet
  <1>3. {i \in DOMAIN <<>> : <<>>[i] = Conn} = {} BY <1>1
  <1> QED BY <1>2, <1>3, FS_EmptySet DEF LocksOf, ConnsOf
-----------------------------------------------------------------------------
\* In the blocks s, r may be asked for.
MayEnter(s, r) == r \in Blocks /\ InOrder(LocksOf(s), ConnsOf(s), r)

\* One element of a path: an exit, or an entry in order, from the blocks s to e.
Step(s, r, e) ==
  \/ r = Exit /\ s # <<>> /\ e = Front(s)
  \/ MayEnter(s, r) /\ e = Append(s, r)

\* The blocks a run of n steps goes through, and that p leads through them.
Traces(n) == [0 .. n -> Seq(Blocks)]

Walks(p, st) == \A i \in 1 .. Len(p) : Step(st[i - 1], p[i], st[i])

\* The path p, begun in the blocks s, acquires in order all the way and ends in e.
Run(p, s, e) ==
  /\ p \in Seq(Steps)
  /\ \E st \in Traces(Len(p)) : st[0] = s /\ st[Len(p)] = e /\ Walks(p, st)

\* The empty path runs from anywhere to there.
LEMMA RunsNowhere ==
  ASSUME NEW s \in Seq(Blocks)
  PROVE  Run(<<>>, s, s)
  <1> DEFINE st == [i \in 0 .. 0 |-> s]
  <1>1. <<>> \in Seq(Steps) /\ Len(<<>>) = 0 OBVIOUS
  <1>2. st \in Traces(0) /\ st[0] = s BY DEF Traces
  <1>3. Walks(<<>>, st) BY <1>1 DEF Walks
  <1> QED BY <1>1, <1>2, <1>3 DEF Run

\* A path of one step.
LEMMA RunsOne ==
  ASSUME NEW s \in Seq(Blocks), NEW e \in Seq(Blocks), NEW r \in Steps, Step(s, r, e)
  PROVE  Run(<<r>>, s, e)
  <1> DEFINE st == [i \in 0 .. 1 |-> IF i = 0 THEN s ELSE e]
  <1>1. <<r>> \in Seq(Steps) /\ Len(<<r>>) = 1 /\ <<r>>[1] = r OBVIOUS
  <1>2. st \in Traces(1) /\ st[0] = s /\ st[1] = e BY DEF Traces
  <1> HIDE DEF st
  <1>3. ASSUME NEW i \in 1 .. 1 PROVE Step(st[i - 1], <<r>>[i], st[i])
    <2>1. i = 1 /\ i - 1 = 0 OBVIOUS
    <2> QED BY <1>1, <1>2, <2>1
  <1>4. Walks(<<r>>, st) BY <1>1, <1>3 DEF Walks
  <1> QED BY <1>1, <1>2, <1>4 DEF Run

\* A path that goes on where another ended.
LEMMA RunsOn ==
  ASSUME NEW p, NEW q, NEW s, NEW m, NEW e, Run(p, s, m), Run(q, m, e)
  PROVE  Run(p \o q, s, e)
  <1>1. p \in Seq(Steps) /\ q \in Seq(Steps) BY DEF Run
  <1>2. PICK a \in Traces(Len(p)) : a[0] = s /\ a[Len(p)] = m /\ Walks(p, a) BY DEF Run
  <1>3. PICK b \in Traces(Len(q)) : b[0] = m /\ b[Len(q)] = e /\ Walks(q, b) BY DEF Run
  <1> DEFINE u == p \o q
             k == Len(p)
             n == Len(p) + Len(q)
             st == [i \in 0 .. n |-> IF i <= k THEN a[i] ELSE b[i - k]]
  <1>4. /\ u \in Seq(Steps) /\ Len(u) = n /\ k \in Nat /\ Len(q) \in Nat /\ n \in Nat /\ n = k + Len(q)
        /\ \A i \in 1 .. n : u[i] = IF i <= k THEN p[i] ELSE q[i - k]
    BY <1>1, ConcatProperties, LenProperties
  <1>5. st \in Traces(n)
    <2>1. \A i \in 0 .. k : a[i] \in Seq(Blocks) BY <1>2 DEF Traces
    <2>2. \A i \in 0 .. Len(q) : b[i] \in Seq(Blocks) BY <1>3 DEF Traces
    <2>3. ASSUME NEW i \in 0 .. n PROVE st[i] \in Seq(Blocks)
      <3>1. CASE i <= k BY <1>4, <2>1, <3>1
      <3>2. CASE ~(i <= k)
        <4>1. i - k \in 0 .. Len(q) BY <1>4, <3>2
        <4>2. st[i] = b[i - k] BY <3>2
        <4> QED BY <2>2, <4>1, <4>2
      <3> QED BY <3>1, <3>2
    <2> QED BY <2>3 DEF Traces
  <1>6. \A i \in 0 .. n : st[i] = IF i <= k THEN a[i] ELSE b[i - k] OBVIOUS
  <1> HIDE DEF st, u, k, n
  <1>7. st[0] = s BY <1>2, <1>4, <1>6
  <1>8. st[n] = e
    <2>1. CASE Len(q) = 0
      <3>1. n = k /\ n \in 0 .. n BY <1>4, <2>1
      <3> QED BY <1>2, <1>3, <1>6, <2>1, <3>1 DEF k
    <2>2. CASE Len(q) # 0
      <3>1. ~(n <= k) /\ n - k = Len(q) /\ n \in 0 .. n BY <1>4, <2>2
      <3> QED BY <1>3, <1>6, <3>1
    <2> QED BY <2>1, <2>2
  <1>9. ASSUME NEW i \in 1 .. n PROVE Step(st[i - 1], u[i], st[i])
    <2>1. CASE i <= k
      <3>1. i \in 1 .. k /\ i - 1 \in 0 .. n /\ i \in 0 .. n /\ i - 1 <= k BY <1>4, <2>1
      <3>2. st[i - 1] = a[i - 1] /\ st[i] = a[i] /\ u[i] = p[i] BY <1>4, <1>6, <2>1, <3>1
      <3> QED BY <1>2, <3>1, <3>2 DEF Walks, k
    <2>2. CASE ~(i <= k)
      <3>1. i - k \in 1 .. Len(q) /\ i - 1 \in 0 .. n /\ i \in 0 .. n BY <1>4, <2>2
      <3>2. st[i] = b[i - k] /\ u[i] = q[i - k] BY <1>4, <1>6, <2>2, <3>1
      <3>3. Step(b[(i - k) - 1], q[i - k], b[i - k]) BY <1>3, <3>1 DEF Walks
      <3>4. st[i - 1] = b[(i - k) - 1]
        <4>1. CASE i - 1 = k
          <5>1. (i - k) - 1 = 0 /\ i - 1 <= k BY <1>4, <4>1
          <5> QED BY <1>2, <1>3, <1>6, <3>1, <4>1, <5>1 DEF k
        <4>2. CASE i - 1 # k
          <5>1. ~(i - 1 <= k) /\ (i - 1) - k = (i - k) - 1 BY <1>4, <2>2, <4>2
          <5> QED BY <1>6, <3>1, <5>1
        <4> QED BY <4>1, <4>2
      <3> QED BY <3>2, <3>3, <3>4
    <2> QED BY <2>1, <2>2
  <1>10. Walks(u, st) BY <1>4, <1>9 DEF Walks
  <1>11. Run(u, s, e) BY <1>4, <1>5, <1>7, <1>8, <1>10 DEF Run
  <1> QED BY <1>11 DEF u

\* What is left of a path after n of its steps runs too.
LEMMA RunsRest ==
  ASSUME NEW p \in Seq(Steps), NEW st \in Traces(Len(p)), Walks(p, st),
         NEW n \in 0 .. Len(p)
  PROVE  Run(SubSeq(p, n + 1, Len(p)), st[n], st[Len(p)])
  <1> DEFINE q == SubSeq(p, n + 1, Len(p))
             k == Len(p) - n
             b == [i \in 0 .. k |-> st[i + n]]
  <1>1. Len(p) \in Nat /\ k \in Nat /\ n \in Nat /\ Len(p) = n + k BY LenProperties
  <1>2. /\ q \in Seq(Steps) /\ Len(q) = k
        /\ \A i \in 1 .. k : q[i] = p[i + n]
    <2>1. \A i \in n + 1 .. Len(p) : p[i] \in Steps BY ElementOfSeq
    <2>2. /\ q \in Seq(Steps)
          /\ Len(q) = IF n + 1 <= Len(p) THEN Len(p) - (n + 1) + 1 ELSE 0
          /\ \A i \in 1 .. Len(p) - (n + 1) + 1 : q[i] = p[(n + 1) + i - 1]
      BY <1>1, <2>1, SubSeqProperties
    <2>3. Len(q) = k
      <3> HIDE DEF q, k
      <3>1. Len(p) = n + k /\ Len(p) \in Nat /\ n \in Nat /\ k \in Nat BY <1>1
      <3>2. CASE k = 0
        <4>1. ~(n + 1 <= Len(p)) BY <3>1, <3>2
        <4> QED BY <2>2, <3>2, <4>1
      <3>3. CASE k # 0
        <4>1. n + 1 <= Len(p) /\ Len(p) - (n + 1) + 1 = k BY <3>1, <3>3
        <4> QED BY <2>2, <4>1
      <3> QED BY <3>2, <3>3
    <2>4. ASSUME NEW i \in 1 .. k PROVE q[i] = p[i + n]
      <3>1. i \in 1 .. Len(p) - (n + 1) + 1 /\ (n + 1) + i - 1 = i + n BY <1>1
      <3> HIDE DEF q
      <3> QED BY <2>2, <3>1
    <2> QED BY <2>2, <2>3, <2>4
  <1>3. /\ b \in Traces(k)
        /\ \A i \in 0 .. k : b[i] = st[i + n]
    <2>1. \A i \in 0 .. k : i + n \in 0 .. Len(p) BY <1>1
    <2> QED BY <2>1 DEF Traces
  <1> HIDE DEF q, b
  <1>4. b[0] = st[n] /\ b[k] = st[Len(p)]
    <2>1. 0 \in 0 .. k /\ k \in 0 .. k /\ 0 + n = n /\ k + n = Len(p) BY <1>1
    <2> QED BY <1>3, <2>1
  <1>5. ASSUME NEW i \in 1 .. k PROVE Step(b[i - 1], q[i], b[i])
    <2>1. /\ i \in 0 .. k /\ i - 1 \in 0 .. k /\ i + n \in 1 .. Len(p)
          /\ (i - 1) + n = (i + n) - 1
      BY <1>1
    <2>2. Step(st[(i + n) - 1], p[i + n], st[i + n]) BY <2>1 DEF Walks
    <2> HIDE DEF k
    <2> QED BY <1>2, <1>3, <2>1, <2>2
  <1>6. Walks(q, b) BY <1>2, <1>5 DEF Walks
  <1>7. Run(q, st[n], st[Len(p)]) BY <1>2, <1>3, <1>4, <1>6 DEF Run
  <1> QED BY <1>7 DEF q

\* A non-empty path runs its first step, and then its tail.
LEMMA RunsFirst ==
  ASSUME NEW p, NEW s, NEW e, Run(p, s, e), p # <<>>
  PROVE  /\ Head(p) \in Steps
         /\ \E m \in Seq(Blocks) : Step(s, Head(p), m) /\ Run(Tail(p), m, e)
  <1>1. p \in Seq(Steps) BY DEF Run
  <1>2. PICK st \in Traces(Len(p)) : st[0] = s /\ st[Len(p)] = e /\ Walks(p, st) BY DEF Run
  <1>3. Len(p) \in Nat \ {0} /\ Head(p) = p[1] /\ Head(p) \in Steps /\ Tail(p) = SubSeq(p, 2, Len(p))
    BY <1>1, EmptySeq, HeadTailProperties, TailIsSubSeq
  <1>4. 1 \in 0 .. Len(p) /\ 1 \in 1 .. Len(p) /\ 1 - 1 = 0 /\ 1 + 1 = 2 BY <1>3
  <1>5. Step(st[0], p[1], st[1]) BY <1>2, <1>4 DEF Walks
  <1>6. Run(SubSeq(p, 1 + 1, Len(p)), st[1], st[Len(p)]) BY <1>1, <1>2, <1>4, RunsRest
  <1>7. st[1] \in Seq(Blocks) BY <1>4 DEF Traces
  <1> QED BY <1>2, <1>3, <1>4, <1>5, <1>6, <1>7

\* The empty path ends where it began.
LEMMA RunsEnd ==
  ASSUME NEW s, NEW e, Run(<<>>, s, e)
  PROVE  s = e
  <1>1. Len(<<>>) = 0 OBVIOUS
  <1> QED BY <1>1 DEF Run
-----------------------------------------------------------------------------
\* Entries(p, n) counts the entries among the first n elements of p.
LEMMA Counts ==
  ASSUME NEW p
  PROVE  /\ Entries(p, 0) = 0
         /\ \A n \in Nat : /\ Entries(p, n) \in Nat
                           /\ Entries(p, n + 1) = Entries(p, n)
                                + (IF p[n + 1] # Exit THEN 1 ELSE 0)
  <1> DEFINE C(n) == {i \in 1 .. n : p[i] # Exit}
  <1>1. C(0) = {} OBVIOUS
  <1>2. Entries(p, 0) = 0 BY <1>1, FS_EmptySet DEF Entries
  <1>3. ASSUME NEW n \in Nat
        PROVE  /\ Entries(p, n) \in Nat
               /\ Entries(p, n + 1) = Entries(p, n) + (IF p[n + 1] # Exit THEN 1 ELSE 0)
    <2>1. IsFiniteSet(1 .. n) BY FS_Interval
    <2>2. C(n) \in SUBSET (1 .. n) OBVIOUS
    <2>3. C(n + 1) = IF p[n + 1] # Exit THEN C(n) \cup {n + 1} ELSE C(n) OBVIOUS
    <2>4. n + 1 \notin C(n) OBVIOUS
    <2>5. Entries(p, n) = Cardinality(C(n)) /\ Entries(p, n + 1) = Cardinality(C(n + 1))
      BY DEF Entries
    <2> HIDE DEF C
    <2>6. IsFiniteSet(C(n)) /\ Cardinality(C(n)) \in Nat
      BY <2>1, <2>2, FS_Subset, FS_CardinalityType
    <2>7. Cardinality(C(n) \cup {n + 1}) = Cardinality(C(n)) + 1
      BY <2>4, <2>6, FS_AddElement
    <2> QED BY <2>3, <2>5, <2>6, <2>7
  <1> QED BY <1>2, <1>3

\* A step goes one block up or one down, and leaves the blocks below alone.
LEMMA StepLevel ==
  ASSUME NEW s \in Seq(Blocks), NEW e, NEW r, Step(s, r, e)
  PROVE  /\ e \in Seq(Blocks)
         /\ r # Exit => Len(e) = Len(s) + 1 /\ \A i \in 1 .. Len(s) : e[i] = s[i]
         /\ r = Exit => s # <<>> /\ e = Front(s) /\ Len(e) = Len(s) - 1
                        /\ \A i \in 1 .. Len(s) - 1 : e[i] = s[i]
  <1>1. CASE r = Exit /\ s # <<>> /\ e = Front(s)
    BY <1>1, LeavesBlock
  <1>2. CASE MayEnter(s, r) /\ e = Append(s, r)
    <2>1. r \in Blocks /\ r # Exit BY <1>2, Kinds DEF MayEnter
    <2> QED BY <1>2, <2>1, AppendProperties
  <1> QED BY <1>1, <1>2 DEF Step

\* After n steps a run is as deep as its entries and exits say.
LEMMA Levels ==
  ASSUME NEW p \in Seq(Steps), NEW st \in Traces(Len(p)), Walks(p, st),
         NEW n \in 0 .. Len(p)
  PROVE  Len(st[n]) + n = Len(st[0]) + 2 * Entries(p, n)
  <1> DEFINE S == {m \in 0 .. Len(p) : Len(st[m]) + m = Len(st[0]) + 2 * Entries(p, m)}
  <1>1. Len(p) \in Nat BY LenProperties
  <1>2. \A m \in 0 .. Len(p) : st[m] \in Seq(Blocks) /\ Len(st[m]) \in Nat
    BY LenProperties DEF Traces
  <1>3. 0 \in S
    <2>1. 0 \in 0 .. Len(p) /\ Entries(p, 0) = 0 BY <1>1, Counts
    <2>2. Len(st[0]) \in Nat BY <1>2, <2>1
    <2>3. Len(st[0]) + 0 = Len(st[0]) + 2 * 0 BY <2>2
    <2> QED BY <2>1, <2>3
  <1>4. ASSUME NEW m \in 0 .. Len(p) - 1, m \in S PROVE m + 1 \in S
    <2>1. m + 1 \in 1 .. Len(p) /\ (m + 1) - 1 = m /\ m \in 0 .. Len(p) /\ m \in Nat
          /\ m + 1 \in 0 .. Len(p)
      BY <1>1
    <2>2. Step(st[m], p[m + 1], st[m + 1])
      <3>1. Step(st[(m + 1) - 1], p[m + 1], st[m + 1]) BY <2>1 DEF Walks
      <3> QED BY <2>1, <3>1
    <2>3. /\ p[m + 1] # Exit => Len(st[m + 1]) = Len(st[m]) + 1
          /\ p[m + 1] = Exit => Len(st[m + 1]) = Len(st[m]) - 1
      BY <1>2, <2>1, <2>2, StepLevel
    <2>4. /\ Entries(p, m) \in Nat
          /\ Entries(p, m + 1) = Entries(p, m) + (IF p[m + 1] # Exit THEN 1 ELSE 0)
      BY <2>1, Counts
    <2>5. Len(st[m]) + m = Len(st[0]) + 2 * Entries(p, m) BY <1>4
    <2>6. Len(st[m]) \in Nat /\ Len(st[0]) \in Nat BY <1>1, <1>2, <2>1
    <2> DEFINE a == Len(st[m])
               b == Len(st[m + 1])
               l == Len(st[0])
               c == Entries(p, m)
               d == Entries(p, m + 1)
    <2>7. /\ a \in Nat /\ l \in Nat /\ c \in Nat /\ a + m = l + 2 * c
          /\ \/ b = a + 1 /\ d = c + 1
             \/ b = a - 1 /\ d = c
      BY <2>3, <2>4, <2>5, <2>6
    <2> HIDE DEF a, b, l, c, d
    <2>8. b + (m + 1) = l + 2 * d BY <2>1, <2>7
    <2>9. Len(st[m + 1]) + (m + 1) = Len(st[0]) + 2 * Entries(p, m + 1)
      BY <2>8 DEF b, l, d
    <2> QED BY <2>1, <2>9
  <1> HIDE DEF S
  <1>5. 0 .. Len(p) \subseteq S BY <1>1, <1>3, <1>4, Climbs
  <1> QED BY <1>5 DEF S

\* The first time a run has more exits than entries it has just left the block it
\* began in: it never left it before, so the blocks below are still the same.
LEMMA FirstBelow ==
  ASSUME NEW p \in Seq(Steps), NEW st \in Traces(Len(p)), Walks(p, st),
         st[0] # <<>>, NEW n \in 1 .. Len(p),
         2 * Entries(p, n) < n, \A m \in 1 .. n - 1 : 2 * Entries(p, m) >= m
  PROVE  st[n] = Front(st[0])
  <1> DEFINE L == Len(st[0])
  <1>1. Len(p) \in Nat /\ n \in Nat /\ n - 1 \in Nat BY LenProperties
  <1>2. \A m \in 0 .. Len(p) : st[m] \in Seq(Blocks) /\ Len(st[m]) \in Nat
    BY LenProperties DEF Traces
  <1>3. L \in Nat /\ st[0] \in Seq(Blocks) BY <1>1, <1>2
  <1>4. \A m \in 0 .. Len(p) : Len(st[m]) + m = L + 2 * Entries(p, m) /\ Entries(p, m) \in Nat
    BY <1>1, Levels, Counts
  <1>5. \A m \in 0 .. n - 1 : Len(st[m]) >= L
    <2> SUFFICES ASSUME NEW m \in 0 .. n - 1 PROVE Len(st[m]) >= L OBVIOUS
    <2>1. m \in 0 .. Len(p) BY <1>1
    <2>2. 2 * Entries(p, m) >= m
      <3>1. CASE m = 0 BY <3>1, Counts
      <3>2. CASE m # 0 BY <1>1, <3>2
      <3> QED BY <3>1, <3>2
    <2> QED BY <1>2, <1>3, <1>4, <2>1, <2>2
  <1>6. Len(st[n]) < L
    <2>1. n \in 0 .. Len(p) BY <1>1
    <2> QED BY <1>2, <1>3, <1>4, <2>1
  <1>7. \A m \in 1 .. n : Step(st[m - 1], p[m], st[m]) /\ st[m - 1] \in Seq(Blocks)
    <2> SUFFICES ASSUME NEW m \in 1 .. n
                 PROVE  Step(st[m - 1], p[m], st[m]) /\ st[m - 1] \in Seq(Blocks)
      OBVIOUS
    <2>1. m \in 1 .. Len(p) /\ m - 1 \in 0 .. Len(p) BY <1>1
    <2> QED BY <1>2, <2>1 DEF Walks
  <1> DEFINE S == {m \in 0 .. n - 1 : \A i \in 1 .. L : st[m][i] = st[0][i]}
  <1> HIDE DEF L
  <1>8. 0 \in S BY <1>1
  <1>9. ASSUME NEW m \in 0 .. (n - 1) - 1, m \in S PROVE m + 1 \in S
    <2>1. m + 1 \in 1 .. n /\ (m + 1) - 1 = m /\ m \in 0 .. n - 1 /\ m + 1 \in 0 .. n - 1
          /\ m + 1 \in 0 .. Len(p) /\ m \in 0 .. Len(p)
      BY <1>1
    <2>2. Step(st[m], p[m + 1], st[m + 1]) /\ st[m] \in Seq(Blocks)
      <3>1. Step(st[(m + 1) - 1], p[m + 1], st[m + 1]) /\ st[(m + 1) - 1] \in Seq(Blocks)
        BY <1>7, <2>1
      <3> QED BY <2>1, <3>1
    <2>3. /\ p[m + 1] # Exit => \A i \in 1 .. Len(st[m]) : st[m + 1][i] = st[m][i]
          /\ p[m + 1] = Exit => /\ Len(st[m + 1]) = Len(st[m]) - 1
                                /\ \A i \in 1 .. Len(st[m]) - 1 : st[m + 1][i] = st[m][i]
      <3> DEFINE a == st[m]
                 b == st[m + 1]
                 r == p[m + 1]
      <3>1. Step(a, r, b) /\ a \in Seq(Blocks) BY <2>2
      <3> HIDE DEF a, b, r
      <3>2. /\ r # Exit => \A i \in 1 .. Len(a) : b[i] = a[i]
            /\ r = Exit => /\ Len(b) = Len(a) - 1
                           /\ \A i \in 1 .. Len(a) - 1 : b[i] = a[i]
        BY <3>1, StepLevel
      <3> QED BY <3>2 DEF a, b, r
    <2>4. Len(st[m]) >= L /\ Len(st[m + 1]) >= L /\ Len(st[m]) \in Nat /\ Len(st[m + 1]) \in Nat
      BY <1>2, <1>5, <2>1
    <2>5. ASSUME NEW i \in 1 .. L PROVE st[m + 1][i] = st[0][i]
      <3>1. st[m][i] = st[0][i] BY <1>9
      <3>2. st[m + 1][i] = st[m][i]
        <4>1. CASE p[m + 1] = Exit
          <5>1. i \in 1 .. Len(st[m]) - 1 BY <1>3, <2>3, <2>4, <4>1
          <5> QED BY <2>3, <4>1, <5>1
        <4>2. CASE p[m + 1] # Exit
          <5>1. i \in 1 .. Len(st[m]) BY <1>3, <2>4
          <5> QED BY <2>3, <4>2, <5>1
        <4> QED BY <4>1, <4>2
      <3> QED BY <3>1, <3>2
    <2> QED BY <2>1, <2>5
  <1> HIDE DEF S
  <1>10. 0 .. n - 1 \subseteq S BY <1>1, <1>8, <1>9, Climbs
  <1>11. \A i \in 1 .. L : st[n - 1][i] = st[0][i]
    <2>1. n - 1 \in 0 .. n - 1 BY <1>1
    <2> QED BY <1>10, <2>1 DEF S
  <1>12. Step(st[n - 1], p[n], st[n]) /\ st[n - 1] \in Seq(Blocks)
    <2>1. n \in 1 .. n BY <1>1
    <2> QED BY <1>7, <2>1
  <1>13. Len(st[n - 1]) >= L /\ Len(st[n - 1]) \in Nat /\ Len(st[n]) \in Nat
    BY <1>1, <1>2, <1>5
  <1>14. p[n] = Exit /\ st[n] = Front(st[n - 1]) /\ Len(st[n]) = Len(st[n - 1]) - 1
    BY <1>3, <1>6, <1>12, <1>13, StepLevel
  <1>15. Len(st[n - 1]) = L BY <1>3, <1>6, <1>13, <1>14
  <1>16. st[n - 1] = st[0] BY <1>3, <1>11, <1>12, <1>15, SeqEqual DEF L
  <1> QED BY <1>14, <1>16

\* An exception that leaves the innermost block goes on with AfterBlock(p), and
\* that runs from the block outside to the end.  (Raise: `async with` gives back
\* what it entered on the way out of an exception)
LEMMA RunsOut ==
  ASSUME NEW p, NEW s, Run(p, s, <<>>), s # <<>>
  PROVE  Run(AfterBlock(p), Front(s), <<>>)
  <1>1. p \in Seq(Steps) BY DEF Run
  <1>2. PICK st \in Traces(Len(p)) : st[0] = s /\ st[Len(p)] = <<>> /\ Walks(p, st) BY DEF Run
  <1> DEFINE Out(n) == /\ 2 * Entries(p, n) < n
                       /\ \A m \in 1 .. n - 1 : 2 * Entries(p, m) >= m
             T == {n \in 1 .. Len(p) : 2 * Entries(p, n) < n}
  <1>3. Len(p) \in Nat BY <1>1, LenProperties
  <1>4. s \in Seq(Blocks) /\ Len(s) \in Nat \ {0} BY <1>2, <1>3, EmptySeq DEF Traces
  <1>5. Len(p) \in T
    <2>1. Len(p) \in 0 .. Len(p) BY <1>3
    <2>2. Len(<<>>) + Len(p) = Len(s) + 2 * Entries(p, Len(p))
      BY <1>1, <1>2, <2>1, Levels
    <2>3. Len(p) = Len(s) + 2 * Entries(p, Len(p)) /\ Entries(p, Len(p)) \in Nat
      BY <1>3, <2>2, Counts
    <2>4. 2 * Entries(p, Len(p)) < Len(p) /\ 1 <= Len(p) BY <1>3, <1>4, <2>3
    <2> QED BY <1>3, <2>4
  <1>6. \E n \in 1 .. Len(p) : Out(n)
    <2>1. T \in SUBSET Nat /\ T # {} BY <1>5
    <2>2. PICK n \in T : \A m \in T : n <= m BY <2>1, Least
    <2>3. n \in 1 .. Len(p) /\ 2 * Entries(p, n) < n OBVIOUS
    <2>4. ASSUME NEW m \in 1 .. n - 1 PROVE 2 * Entries(p, m) >= m
      <3>1. m \in 1 .. Len(p) /\ m < n /\ m \in Nat BY <1>3, <2>3
      <3>2. ~(2 * Entries(p, m) < m) BY <2>2, <2>3, <3>1
      <3>3. Entries(p, m) \in Nat BY <3>1, Counts
      <3> QED BY <3>1, <3>2, <3>3
    <2> QED BY <2>3, <2>4
  <1> DEFINE out == CHOOSE n \in 1 .. Len(p) : Out(n)
  <1>7. AfterBlock(p) = SubSeq(p, out + 1, Len(p)) BY DEF AfterBlock
  <1>8. out \in 1 .. Len(p) /\ Out(out) BY <1>6
  <1> HIDE DEF out
  <1>9. st[out] = Front(s) BY <1>1, <1>2, <1>8, FirstBelow
  <1>10. out \in 0 .. Len(p) BY <1>3, <1>8
  <1>11. Run(SubSeq(p, out + 1, Len(p)), st[out], st[Len(p)])
    BY <1>1, <1>2, <1>10, RunsRest
  <1> QED BY <1>2, <1>7, <1>9, <1>11
-----------------------------------------------------------------------------
\* Every path of P runs from s back to s.
Closed(P, s) == \A p \in P : Run(p, s, s)

\* At most n connections and no locks but those of h.
Under(s, n, h) == s \in Seq(Blocks) /\ ConnsOf(s) <= n /\ LocksOf(s) \subseteq h

\* Doing nothing changes nothing.
LEMMA SkipCloses ==
  ASSUME NEW s \in Seq(Blocks) PROVE Closed(Skip, s)
  BY RunsNowhere DEF Closed, Skip

\* One thing after another, something or nothing, or a block around something:
\* each is closed if its parts are.
LEMMA ThenCloses ==
  ASSUME NEW s, NEW P, NEW Q, Closed(P, s), Closed(Q, s)
  PROVE  Closed(Then(P, Q), s)
  <1> SUFFICES ASSUME NEW u \in Then(P, Q) PROVE Run(u, s, s)
    BY DEF Closed
  <1>1. PICK p \in P, q \in Q : u = p \o q BY DEF Then
  <1>2. Run(p, s, s) /\ Run(q, s, s) BY DEF Closed
  <1>3. Run(p \o q, s, s) BY <1>2, RunsOn
  <1> QED BY <1>1, <1>3

\* Something or nothing.
LEMMA MaybeCloses ==
  ASSUME NEW s \in Seq(Blocks), NEW P, Closed(P, s)
  PROVE  Closed(Maybe(P), s)
  BY SkipCloses DEF Closed, Maybe

\* A block that may be entered, around what is closed inside it.
LEMMA InCloses ==
  ASSUME NEW s \in Seq(Blocks), NEW r, MayEnter(s, r), NEW P, Closed(P, Append(s, r))
  PROVE  Closed(In(r, P), s)
  <1> DEFINE u == Append(s, r)
  <1> SUFFICES ASSUME NEW p \in P PROVE Run(<<r>> \o p \o <<Exit>>, s, s)
    BY DEF Closed, In
  <1>1. r \in Blocks /\ r \in Steps /\ Exit \in Steps BY DEF MayEnter, Steps
  <1>2. u \in Seq(Blocks) /\ u # <<>> /\ Front(u) = s BY <1>1, EntersBlock
  <1>3. Step(s, r, u) /\ Step(u, Exit, s) BY <1>2 DEF Step
  <1>4. Run(p, u, u) BY DEF Closed
  <1> HIDE DEF u
  <1>5. Run(<<r>>, s, u) /\ Run(<<Exit>>, u, s) BY <1>1, <1>2, <1>3, RunsOne
  <1>6. Run(<<r>> \o p, s, u) BY <1>4, <1>5, RunsOn
  <1> QED BY <1>5, <1>6, RunsOn

\* A second connection is in order whatever is held.
LEMMA UnderConn ==
  ASSUME NEW n \in {0, 1}, NEW h, NEW s, Under(s, n, h)
  PROVE  s \in Seq(Blocks) /\ MayEnter(s, Conn) /\ Under(Append(s, Conn), n + 1, h)
  <1>1. Conn \in Blocks /\ s \in Seq(Blocks) BY Kinds DEF Under
  <1>2. /\ Append(s, Conn) \in Seq(Blocks)
        /\ LocksOf(Append(s, Conn)) = LocksOf(s)
        /\ ConnsOf(Append(s, Conn)) = ConnsOf(s) + 1 /\ ConnsOf(s) \in Nat
    BY <1>1, EntersBlock
  <1>3. ConnsOf(s) < 2 /\ ConnsOf(s) + 1 <= n + 1 BY <1>2 DEF Under
  <1> QED BY <1>1, <1>2, <1>3 DEF Under, MayEnter, InOrder

\* A lock entered is one more lock held.
LEMMA UnderLock ==
  ASSUME NEW r \in Locks, NEW n \in Nat, NEW h, NEW s, Under(s, n, h)
  PROVE  /\ Under(Append(s, r), n, h \cup {r})
         /\ r \in LocksOf(Append(s, r))
  <1>1. r \in Blocks /\ r # Conn /\ s \in Seq(Blocks) BY Kinds DEF Under, Blocks
  <1>2. /\ Append(s, r) \in Seq(Blocks)
        /\ LocksOf(Append(s, r)) = LocksOf(s) \cup {r}
        /\ ConnsOf(Append(s, r)) = ConnsOf(s) + 0 /\ ConnsOf(s) \in Nat
    BY <1>1, EntersBlock
  <1> QED BY <1>1, <1>2 DEF Under

\* `async with pool().acquire()` under at most one connection.
LEMMA ConnCloses ==
  ASSUME NEW n \in {0, 1}, NEW h, NEW s, Under(s, n, h), NEW P, Closed(P, Append(s, Conn))
  PROVE  Closed(WithConn(P), s)
  <1>1. s \in Seq(Blocks) /\ MayEnter(s, Conn) BY UnderConn
  <1> QED BY <1>1, InCloses DEF WithConn
-----------------------------------------------------------------------------
\* A statement of its own, events.record and coolify.deploy may be called under
\* every lock, with one connection held.  (coolify.py, deploy)
LEMMA QueryCloses ==
  ASSUME NEW s, Under(s, 1, Locks)
  PROVE  Closed(Query, s) /\ Closed(Record, s) /\ Closed(CoolifyDeploy, s)
  <1>1. Append(s, Conn) \in Seq(Blocks) BY UnderConn DEF Under
  <1>2. Closed(Skip, Append(s, Conn)) BY <1>1, SkipCloses
  <1>3. Closed(Query, s) BY <1>2, ConnCloses DEF Query
  <1> QED BY <1>3 DEF Record, CoolifyDeploy

\* routing.apply_backend_labels takes connections only.
LEMMA LabelsClose ==
  ASSUME NEW s, Under(s, 1, Locks)
  PROVE  Closed(ApplyBackendLabels, s)
  <1>1. Closed(Query, s) /\ Closed(CoolifyDeploy, s) /\ s \in Seq(Blocks)
    BY QueryCloses DEF Under
  <1>2. Closed(Then(Query, CoolifyDeploy), s) BY <1>1, ThenCloses
  <1>3. Closed(Maybe(Then(Query, CoolifyDeploy)), s) BY <1>1, <1>2, MaybeCloses
  <1> QED BY <1>1, <1>3, ThenCloses DEF ApplyBackendLabels

\* routing.sync_frontend_routes takes ROUTING_LOCK, then the static host's lock:
\* in order under any app's lock but the static host's.  (routing.py, _sync)
LEMMA SyncCloses ==
  ASSUME NEW s, Under(s, 1, Apps \ {Web})
  PROVE  Closed(SyncFrontendRoutes, s)
  <1> DEFINE u == Append(s, Routing)
             v == Append(u, Web)
  <1>1. Routing \in Locks /\ Web \in Locks BY Kinds DEF Locks
  <1>2. s \in Seq(Blocks) /\ MayEnter(s, Routing)
    <2>1. ConnsOf(s) \in Nat /\ s \in Seq(Blocks) BY Kinds, EntersBlock DEF Under
    <2>2. ConnsOf(s) < 2 /\ LocksOf(s) \cap {Web, Routing} = {}
      BY <2>1, Kinds DEF Under
    <2> QED BY <2>1, <2>2, Kinds DEF MayEnter, InOrder
  <1>3. Under(u, 1, (Apps \ {Web}) \cup {Routing}) /\ Routing \in LocksOf(u)
    BY <1>1, UnderLock
  <1> HIDE DEF u
  <1>4. u \in Seq(Blocks) /\ MayEnter(u, Web)
    <2>1. ConnsOf(u) \in Nat /\ u \in Seq(Blocks) BY <1>3, Kinds, EntersBlock DEF Under
    <2>2. ConnsOf(u) < 2 /\ Web \notin LocksOf(u)
      BY <1>3, <2>1, Kinds DEF Under
    <2> QED BY <1>3, <2>1, <2>2, Kinds DEF MayEnter, InOrder
  <1>5. Under(v, 1, ((Apps \ {Web}) \cup {Routing}) \cup {Web})
    BY <1>1, <1>3, UnderLock
  <1> HIDE DEF v
  <1>6. Under(u, 1, Locks) /\ Under(v, 1, Locks)
    BY <1>1, <1>3, <1>5 DEF Under, Locks
  <1>7. Closed(CoolifyDeploy, v) BY <1>6, QueryCloses
  <1>8. Closed(In(Web, CoolifyDeploy), u) BY <1>4, <1>7, InCloses DEF v
  <1>9. Closed(ApplyBackendLabels, u) BY <1>6, LabelsClose
  <1>10. Closed(Maybe(In(Web, CoolifyDeploy)), u) /\ Closed(Maybe(ApplyBackendLabels), u)
    BY <1>4, <1>8, <1>9, MaybeCloses
  <1>11. Closed(Then(Maybe(In(Web, CoolifyDeploy)), Maybe(ApplyBackendLabels)), u)
    BY <1>10, ThenCloses
  <1> QED BY <1>2, <1>11, InCloses DEF u, SyncFrontendRoutes

\* Under its own app's lock, and not the static host's, is what the sync needs.
LEMMA UnderOwn ==
  ASSUME NEW a \in Apps, NEW n \in {0, 1}, NEW s, Under(s, n, {a})
  PROVE  s \in Seq(Blocks) /\ Under(s, n, Locks) /\ (a # Web => Under(s, n, Apps \ {Web}))
  BY DEF Under, Locks

\* Enrolment after a deploy, under the app's lock: the static host, under whose
\* lock the sync must not run, is excluded.  (autoupdate._maybe_enroll_sablier)
LEMMA FinishCloses ==
  ASSUME NEW a \in Apps, NEW s, Under(s, 1, {a})
  PROVE  Closed(Finish(a), s)
  <1>1. s \in Seq(Blocks) /\ Under(s, 1, Locks) BY UnderOwn
  <1>2. Closed(MaybeEnroll(a), s)
    <2>1. CASE AutoEnroll /\ ~Excluded(a)
      <3>1. Under(s, 1, Apps \ {Web}) BY <2>1, UnderOwn DEF Excluded
      <3>2. Closed(SyncFrontendRoutes, s) /\ Closed(Maybe(ApplyBackendLabels), s)
        BY <1>1, <3>1, SyncCloses, LabelsClose, MaybeCloses
      <3> QED BY <2>1, <3>2, ThenCloses DEF MaybeEnroll
    <2>2. CASE ~(AutoEnroll /\ ~Excluded(a))
      BY <1>1, <2>2, SkipCloses DEF MaybeEnroll
    <2> QED BY <2>1, <2>2
  <1>3. Closed(Maybe(Record), s) BY <1>1, QueryCloses, MaybeCloses
  <1> QED BY <1>2, <1>3 DEF Finish, Closed

\* autoupdate.check_and_update, on its caller's connection.
LEMMA UpdateCloses ==
  ASSUME NEW a \in Apps, NEW s, Under(s, 1, {a})
  PROVE  Closed(CheckAndUpdate(a), s)
  <1>1. s \in Seq(Blocks) /\ Under(s, 1, Locks) BY UnderOwn
  <1>2. Closed(CoolifyDeploy, s) /\ Closed(Maybe(Finish(a)), s)
    BY <1>1, QueryCloses, FinishCloses, MaybeCloses
  <1>3. Closed(Then(CoolifyDeploy, Maybe(Finish(a))), s) BY <1>2, ThenCloses
  <1> QED BY <1>1, <1>3, MaybeCloses DEF CheckAndUpdate

\* autoupdate.apply_image.
LEMMA ImageCloses ==
  ASSUME NEW s, Under(s, 0, Locks)
  PROVE  Closed(ApplyImage, s)
  <1>1. Under(Append(s, Conn), 0 + 1, Locks) BY UnderConn
  <1>2. Under(Append(s, Conn), 1, Locks) BY <1>1
  <1>3. Closed(CoolifyDeploy, Append(s, Conn)) BY <1>2, QueryCloses
  <1> QED BY <1>3, ConnCloses DEF ApplyImage

\* autoupdate.settle.
LEMMA SettleCloses ==
  ASSUME NEW a \in Apps, NEW s, Under(s, 0, {a})
  PROVE  Closed(Settle(a), s)
  <1>1. s \in Seq(Blocks) /\ Under(s, 1, {a}) /\ Under(s, 1, Locks)
    <2>1. s \in Seq(Blocks) /\ ConnsOf(s) <= 0 /\ LocksOf(s) \subseteq {a} BY DEF Under
    <2>2. ConnsOf(s) \in Nat BY <2>1, Kinds, EntersBlock
    <2>3. Under(s, 1, {a}) BY <2>1, <2>2 DEF Under
    <2> QED BY <2>1, <2>3, UnderOwn
  <1>2. Under(Append(s, Conn), 0 + 1, {a}) BY UnderConn
  <1>3. Under(Append(s, Conn), 1, {a}) BY <1>2
  <1>4. Closed(Finish(a), Append(s, Conn)) BY <1>3, FinishCloses
  <1>5. Closed(WithConn(Finish(a)), s) BY <1>4, ConnCloses
  <1>6. Closed(Query, s) BY <1>1, QueryCloses
  <1> QED BY <1>1, <1>5, <1>6, MaybeCloses, ThenCloses DEF Settle

\* A handler begins with nothing held; an app's lock or a connection may be first.
LEMMA Outermost ==
  ASSUME NEW a \in Apps
  PROVE  /\ <<>> \in Seq(Blocks) /\ Under(<<>>, 0, {}) /\ Under(<<>>, 0, {a})
         /\ Under(<<>>, 0, Locks) /\ Under(<<>>, 1, Locks)
         /\ Under(<<>>, 1, Apps \ {Web})
         /\ MayEnter(<<>>, a) /\ Under(Append(<<>>, a), 0, {a})
         /\ Under(Append(<<>>, Conn), 1, {})
  <1>1. <<>> \in Seq(Blocks) /\ LocksOf(<<>>) = {} /\ ConnsOf(<<>>) = 0
    BY OutOfBlocks
  <1>2. \A h : Under(<<>>, 0, h) /\ Under(<<>>, 1, h) BY <1>1 DEF Under
  <1>3. a \in Locks /\ a \in Blocks BY Kinds DEF Locks
  <1>4. MayEnter(<<>>, a) BY <1>1, <1>3 DEF MayEnter, InOrder
  <1>5. Under(Append(<<>>, a), 0, {} \cup {a}) BY <1>2, <1>3, UnderLock
  <1>6. Under(Append(<<>>, Conn), 0 + 1, {}) BY <1>2, UnderConn
  <1>7. Under(Append(<<>>, a), 0, {a}) /\ Under(Append(<<>>, Conn), 1, {})
    <2>1. {} \cup {a} = {a} /\ 0 + 1 = 1 OBVIOUS
    <2> QED BY <1>5, <1>6, <2>1
  <1> QED BY <1>1, <1>2, <1>4, <1>7

\* refresh._run, with the app's lock around the deploy.
LEMMA RefreshCloses ==
  ASSUME NEW a \in Apps PROVE Closed(Refresh(a), <<>>)
  <1> DEFINE s == Append(<<>>, a)
             u == Append(s, Conn)
  <1>1. s \in Seq(Blocks) /\ Under(s, 0, {a}) /\ Under(s, 0, Locks) /\ Under(s, 1, Locks)
    <2>1. Under(s, 0, {a}) BY Outermost
    <2>2. s \in Seq(Blocks) /\ Under(s, 0, Locks) /\ ConnsOf(s) <= 0 BY <2>1, UnderOwn DEF Under
    <2>3. ConnsOf(s) \in Nat BY <2>2, Kinds, EntersBlock
    <2> HIDE DEF s
    <2> QED BY <2>1, <2>2, <2>3 DEF Under
  <1> HIDE DEF s
  <1>2. Under(u, 1, {a})
    <2>1. Under(u, 0 + 1, {a}) BY <1>1, UnderConn
    <2> QED BY <2>1
  <1> HIDE DEF u
  <1>3. Closed(WithConn(CheckAndUpdate(a)), s) BY <1>1, <1>2, UpdateCloses, ConnCloses DEF u
  <1>4. Closed(Then(ApplyImage, Settle(a)), s) BY <1>1, ImageCloses, SettleCloses, ThenCloses
  <1>5. Closed(Then(ApplyImage, Settle(a)) \cup WithConn(CheckAndUpdate(a)), s)
    BY <1>3, <1>4 DEF Closed
  <1>6. Closed(Then(Query, Then(ApplyImage, Settle(a)) \cup WithConn(CheckAndUpdate(a))), s)
    BY <1>1, <1>5, QueryCloses, ThenCloses
  <1>7. Closed(Deploy(a), <<>>) BY <1>6, Outermost, InCloses DEF Deploy, s
  <1> QED BY <1>7, Outermost, QueryCloses, ThenCloses DEF Refresh

\* PUT /apps/<id>/code, whose settle runs after the lock is given back.
LEMMA CodeCloses ==
  ASSUME NEW a \in Apps PROVE Closed(UpdateCode(a), <<>>)
  <1> DEFINE s == Append(<<>>, a)
  <1>1. Under(s, 0, {a}) BY Outermost
  <1>2. Under(s, 0, Locks) BY <1>1, UnderOwn
  <1>3. Closed(ApplyImage, s) BY <1>2, ImageCloses
  <1>4. Closed(In(a, ApplyImage), <<>>) BY <1>3, Outermost, InCloses
  <1>5. Closed(Maybe(Settle(a)), <<>>) BY Outermost, SettleCloses, MaybeCloses
  <1> QED BY <1>4, <1>5, ThenCloses DEF UpdateCode

\* PUT /apps/<id>/frontend, with the sync under the app's lock: the static host is
\* refused.
LEMMA FrontendCloses ==
  ASSUME NEW a \in Apps PROVE Closed(DeployFrontend(a), <<>>)
  <1>1. CASE a = Web BY <1>1 DEF DeployFrontend, Closed
  <1>2. CASE a # Web
    <2> DEFINE s == Append(<<>>, a)
               u == Append(s, Conn)
    <2>1. Under(s, 0, {a}) BY Outermost
    <2> HIDE DEF s
    <2>2. Under(u, 1, {a})
      <3>1. Under(u, 0 + 1, {a}) BY <2>1, UnderConn
      <3> QED BY <3>1
    <2> HIDE DEF u
    <2>3. u \in Seq(Blocks) /\ Under(u, 1, Apps \ {Web}) BY <1>2, <2>2, UnderOwn
    <2>4. Closed(Maybe(SyncFrontendRoutes), u) BY <2>3, SyncCloses, MaybeCloses
    <2>5. Closed(WithConn(Maybe(SyncFrontendRoutes)), s) BY <2>1, <2>4, ConnCloses DEF u
    <2>6. Closed(In(a, WithConn(Maybe(SyncFrontendRoutes))), <<>>)
      BY <2>5, Outermost, InCloses DEF s
    <2>7. Closed(Maybe(Query), <<>>) BY Outermost, QueryCloses, MaybeCloses
    <2> QED BY <1>2, <2>6, <2>7, ThenCloses DEF DeployFrontend
  <1> QED BY <1>1, <1>2

\* A handler that takes a connection first.
LEMMA UnderFirstConn ==
  /\ <<>> \in Seq(Blocks) /\ Under(<<>>, 0, {}) /\ Under(<<>>, 1, Locks) /\ Under(<<>>, 0, Locks)
  /\ Append(<<>>, Conn) \in Seq(Blocks) /\ Under(Append(<<>>, Conn), 1, {})
  /\ \A h : Under(Append(<<>>, Conn), 1, h)
  <1>1. Web \in Apps BY Kinds
  <1>2. /\ <<>> \in Seq(Blocks) /\ Under(<<>>, 0, {}) /\ Under(<<>>, 1, Locks)
        /\ Under(<<>>, 0, Locks) /\ Under(Append(<<>>, Conn), 1, {})
    BY <1>1, Outermost
  <1>3. Append(<<>>, Conn) \in Seq(Blocks) /\ \A h : Under(Append(<<>>, Conn), 1, h)
    BY <1>2 DEF Under
  <1> QED BY <1>2, <1>3

\* The environment handlers ask for an app's lock with a connection held.
LEMMA EnvCloses ==
  ASSUME NEW a \in Apps PROVE Closed(SetAppEnv(a), <<>>) /\ Closed(SetSharedEnv(a), <<>>)
  <1> DEFINE s == Append(<<>>, Conn)
             u == Append(s, a)
  <1>1. s \in Seq(Blocks) /\ Under(s, 1, {}) BY UnderFirstConn
  <1> HIDE DEF s
  <1>2. a \in Locks /\ a \in Blocks BY Kinds DEF Locks
  <1>3. MayEnter(s, a)
    <2>1. ConnsOf(s) \in Nat BY <1>1, Kinds, EntersBlock
    <2> QED BY <1>1, <1>2, <2>1 DEF MayEnter, InOrder, Under
  <1>4. u \in Seq(Blocks) /\ Under(u, 1, Locks)
    <2>1. Under(u, 1, {} \cup {a}) BY <1>1, <1>2, UnderLock
    <2> HIDE DEF u
    <2> QED BY <1>2, <2>1 DEF Under
  <1> HIDE DEF u
  <1>5. Closed(Maybe(CoolifyDeploy), u) BY <1>4, QueryCloses, MaybeCloses
  <1>6. Closed(ApplyEnv(a), s) BY <1>1, <1>3, <1>5, InCloses DEF ApplyEnv, u
  <1>7. Closed(Maybe(ApplyEnv(a)), s) BY <1>1, <1>6, MaybeCloses
  <1> QED BY <1>6, <1>7, UnderFirstConn, ConnCloses DEF SetAppEnv, SetSharedEnv, s

\* The handlers that sync the routes on their caller's connection.
LEMMA RoutesClose ==
  /\ Closed(SetRedirects, <<>>) /\ Closed(SyncRoutes, <<>>) /\ Closed(DeleteApp, <<>>)
  /\ \A a \in Apps : Closed(SetSleep(a), <<>>) /\ Closed(ChangeDomains(a), <<>>)
  <1> DEFINE s == Append(<<>>, Conn)
  <1>1. s \in Seq(Blocks) /\ Under(s, 1, Locks) /\ Under(s, 1, Apps \ {Web}) BY UnderFirstConn
  <1>2. \A P : Closed(P, s) => Closed(WithConn(P), <<>>) BY UnderFirstConn, ConnCloses
  <1> HIDE DEF s
  <1>3. Closed(SyncFrontendRoutes, s) /\ Closed(ApplyBackendLabels, s)
    BY <1>1, SyncCloses, LabelsClose
  <1>4. /\ Closed(Maybe(SyncFrontendRoutes), s) /\ Closed(Maybe(ApplyBackendLabels), s)
        /\ Closed(Then(SyncFrontendRoutes, ApplyBackendLabels), s)
    BY <1>1, <1>3, MaybeCloses, ThenCloses
  <1>5. Closed(Then(SyncFrontendRoutes, Maybe(ApplyBackendLabels)), s)
    BY <1>3, <1>4, ThenCloses
  <1>6. /\ Closed(Maybe(Then(SyncFrontendRoutes, ApplyBackendLabels)), s)
        /\ Closed(Maybe(Then(SyncFrontendRoutes, Maybe(ApplyBackendLabels))), s)
    BY <1>1, <1>4, <1>5, MaybeCloses
  <1>7. Closed(SetRedirects, <<>>) /\ Closed(SyncRoutes, <<>>)
    BY <1>2, <1>3, <1>4 DEF SetRedirects, SyncRoutes
  <1>8. Closed(DeleteApp, <<>>)
    BY <1>7, UnderFirstConn, QueryCloses, ThenCloses DEF DeleteApp
  <1>9. ASSUME NEW a \in Apps PROVE Closed(SetSleep(a), <<>>) /\ Closed(ChangeDomains(a), <<>>)
    <2>1. Closed({}, <<>>) BY DEF Closed
    <2> QED BY <1>2, <1>6, <2>1 DEF SetSleep, ChangeDomains
  <1> QED BY <1>7, <1>8, <1>9

\* POST and DELETE /apps/<id>/db take no lock.
LEMMA DbCloses == Closed(ChangeDb, <<>>)
  <1>1. Closed(Query, <<>>) /\ Closed(CoolifyDeploy, <<>>) /\ <<>> \in Seq(Blocks)
    BY UnderFirstConn, QueryCloses
  <1>2. Closed(Maybe(Query), <<>>) BY <1>1, MaybeCloses
  <1>3. Closed(Then(Maybe(Query), CoolifyDeploy), <<>>) BY <1>1, <1>2, ThenCloses
  <1>4. Closed(Then(Query, Then(Maybe(Query), CoolifyDeploy)), <<>>) BY <1>1, <1>3, ThenCloses
  <1> QED BY <1>1, <1>4, ThenCloses DEF ChangeDb

\* The sweep and the reconcile hold their connection throughout.
LEMMA SweepCloses ==
  ASSUME NEW a \in Apps PROVE Closed(CheckAll(a), <<>>) /\ Closed(Reconcile(a), <<>>)
  <1> DEFINE s == Append(<<>>, Conn)
  <1>1. s \in Seq(Blocks) /\ Under(s, 1, Locks) /\ Under(s, 1, {a}) BY UnderFirstConn
  <1>2. \A P : Closed(P, s) => Closed(WithConn(P), <<>>) BY UnderFirstConn, ConnCloses
  <1> HIDE DEF s
  <1>3. Closed(CheckAndUpdate(a), s) /\ Closed(CoolifyDeploy, s) /\ Closed(ApplyBackendLabels, s)
    BY <1>1, UpdateCloses, QueryCloses, LabelsClose
  <1>4. Closed(CoolifyDeploy \cup ApplyBackendLabels, s) BY <1>3 DEF Closed
  <1>5. Closed(Maybe(CoolifyDeploy \cup ApplyBackendLabels), s) BY <1>1, <1>4, MaybeCloses
  <1> QED BY <1>2, <1>3, <1>5 DEF CheckAll, Reconcile

\* Every path of every handler runs from nothing held to nothing held.
LEMMA CallsClose ==
  ASSUME NEW p \in Calls PROVE Run(p, <<>>, <<>>)
  <1>1. PICK h \in Handlers : p \in Paths(h) BY DEF Calls
  <1>2. h \in {"refresh", "code", "frontend", "env", "sleep", "domains",
               "redirects", "routes", "delete", "db", "sweep", "reconcile"}
    BY LocksAssumption
  <1> USE DEF Closed
  <1>3. CASE h = "refresh"
    <2>1. PICK a \in Apps : p \in Refresh(a) BY <1>1, <1>3 DEF Paths
    <2> QED BY <2>1, RefreshCloses
  <1>4. CASE h = "code"
    <2>1. PICK a \in Apps : p \in UpdateCode(a) BY <1>1, <1>4 DEF Paths
    <2> QED BY <2>1, CodeCloses
  <1>5. CASE h = "frontend"
    <2>1. PICK a \in Apps : p \in DeployFrontend(a) BY <1>1, <1>5 DEF Paths
    <2> QED BY <2>1, FrontendCloses
  <1>6. CASE h = "env"
    <2>1. PICK a \in Apps : p \in SetAppEnv(a) \cup SetSharedEnv(a) BY <1>1, <1>6 DEF Paths
    <2> QED BY <2>1, EnvCloses
  <1>7. CASE h = "sleep"
    <2>1. PICK a \in Apps : p \in SetSleep(a) BY <1>1, <1>7 DEF Paths
    <2> QED BY <2>1, RoutesClose
  <1>8. CASE h = "domains"
    <2>1. PICK a \in Apps : p \in ChangeDomains(a) BY <1>1, <1>8 DEF Paths
    <2> QED BY <2>1, RoutesClose
  <1>9. CASE h = "redirects" BY <1>1, <1>9, RoutesClose DEF Paths
  <1>10. CASE h = "routes" BY <1>1, <1>10, RoutesClose DEF Paths
  <1>11. CASE h = "delete" BY <1>1, <1>11, RoutesClose DEF Paths
  <1>12. CASE h = "db" BY <1>1, <1>12, DbCloses DEF Paths
  <1>13. CASE h = "sweep"
    <2>1. PICK a \in Apps : p \in CheckAll(a) BY <1>1, <1>13 DEF Paths
    <2> QED BY <2>1, SweepCloses
  <1>14. CASE h = "reconcile"
    <2>1. PICK a \in Apps : p \in Reconcile(a) BY <1>1, <1>14 DEF Paths
    <2> QED BY <2>1, SweepCloses
  <1> QED BY <1>2, <1>3, <1>4, <1>5, <1>6, <1>7, <1>8, <1>9, <1>10, <1>11, <1>12, <1>13, <1>14
-----------------------------------------------------------------------------
\* held, conns and want keep their types: no coroutine holds a third connection.
\* (two connections are the deepest nesting of pool().acquire() in the code)
IInv == OrderTypeOK /\ WaitsInOrder

\* Nothing is held or waited for at the start.
LEMMA InitOrder == OrderInit => IInv
BY LockOrderAssumption DEF OrderInit, IInv, OrderTypeOK, WaitsInOrder, Locks

\* Every step keeps the types and the order in which things are asked for.
LEMMA NextOrder == IInv /\ [OrderNext]_lockVars => IInv'
<1> SUFFICES ASSUME IInv, [OrderNext]_lockVars PROVE IInv'
    OBVIOUS
<1> USE LockOrderAssumption DEF IInv, OrderTypeOK, WaitsInOrder
<1>1. CASE UNCHANGED lockVars
      BY <1>1 DEF lockVars
<1>2. ASSUME NEW t \in Tasks, NEW w \in Locks \cup {Conn}, Ask(t, w)
      PROVE  IInv'
      BY <1>2 DEF Ask, Locks
<1>3. ASSUME NEW t \in Tasks, Grant(t)
      PROVE  IInv'
  <2>1. InOrder(held[t], conns[t], want[t])
        BY <1>3 DEF Grant
  <2>2. CASE want[t] = Conn
    <3>1. conns[t] + 1 \in 0 .. 2
          BY <2>1 DEF InOrder
    <3>2. QED
          BY <1>3, <2>2, <3>1 DEF Grant, Locks
  <2>3. CASE want[t] # Conn
        BY <1>3, <2>3 DEF Grant, Locks
  <2>4. QED
        BY <2>2, <2>3
<1>4. ASSUME NEW t \in Tasks, Give(t)
      PROVE  IInv'
  <2>1. PICK rest \in SUBSET held[t] : held' = [held EXCEPT ![t] = rest]
        BY <1>4 DEF Give
  <2>2. PICK n \in 0 .. conns[t] : conns' = [conns EXCEPT ![t] = n]
        BY <1>4 DEF Give
  <2>3. n \in 0 .. 2
        BY <2>2
  <2>4. want' = [want EXCEPT ![t] = Nothing]
        BY <1>4 DEF Give
  <2>5. OrderTypeOK'
        BY <2>1, <2>2, <2>3, <2>4
  <2>6. WaitsInOrder'
        BY <2>1, <2>2, <2>4
  <2>7. QED
        BY <2>5, <2>6
<1>5. QED
      BY <1>1, <1>2, <1>3, <1>4 DEF OrderNext

\* If no connection is left, somebody holds two: there are not enough
\* coroutines to use the pool up with one each.
LEMMA SomebodyHasTwo ==
  ASSUME EnoughConns, OrderTypeOK, ~Available(Conn)
  PROVE  \E t \in Tasks : conns[t] = 2
<1> SUFFICES ASSUME \A t \in Tasks : conns[t] # 2
             PROVE  FALSE
    OBVIOUS
<1> DEFINE Firsts == Tasks \X {1}
<1>1. Taken \subseteq Firsts
  <2>1. \A t \in Tasks : ~(2 <= conns[t])
        BY DEF OrderTypeOK
  <2>2. QED
        BY <2>1 DEF Taken
<1>2. IsFiniteSet({1}) /\ Cardinality({1}) = 1
      BY FS_Singleton
<1>3. IsFiniteSet(Firsts) /\ Cardinality(Firsts) = Cardinality(Tasks) * 1
      BY <1>2, FS_Product, LockOrderAssumption
<1>4. Cardinality(Taken) <= Cardinality(Firsts) /\ IsFiniteSet(Taken)
      BY <1>1, <1>3, FS_Subset
<1>5. /\ Cardinality(Taken) \in Nat /\ Cardinality(Tasks) \in Nat
      /\ PoolSize \in Nat
      BY <1>4, FS_CardinalityType, LockOrderAssumption
<1>6. Cardinality(Taken) < PoolSize
      BY <1>3, <1>4, <1>5 DEF EnoughConns
<1>7. QED
      BY <1>6 DEF Available

\* A blocked coroutine waits for the pool, or for a lock that somebody holds;
\* following the holders ends after app lock, ROUTING_LOCK and the static
\* host's lock.
LEMMA OrderUnsticks ==
  ASSUME EnoughConns, IInv PROVE NeverStuck
<1> USE DEF IInv
<1> SUFFICES ASSUME NEW t \in Tasks, Blocked(t),
                    \A u \in Tasks : Busy(u) => Blocked(u)
             PROVE  FALSE
    BY DEF NeverStuck
<1>1. Available(Conn)
  <2> SUFFICES ASSUME ~Available(Conn) PROVE FALSE
      OBVIOUS
  <2>1. PICK u \in Tasks : conns[u] = 2
        BY SomebodyHasTwo
  <2>2. Blocked(u) /\ want[u] # Nothing
        BY <2>1 DEF Busy, Blocked
  <2>3. InOrder(held[u], conns[u], want[u])
        BY <2>2 DEF WaitsInOrder
  <2>4. QED
        BY <2>1, <2>3 DEF InOrder
\* Who is blocked waits for a lock with a holder, who is blocked too.
<1>2. ASSUME NEW u \in Tasks, Blocked(u)
      PROVE  /\ want[u] \in Locks /\ InOrder(held[u], conns[u], want[u])
             /\ \E v \in Tasks : want[u] \in held[v] /\ Blocked(v)
  <2>1. want[u] # Nothing /\ want[u] # Conn
        BY <1>1, <1>2 DEF Blocked
  <2>2. want[u] \in Locks
        BY <2>1 DEF OrderTypeOK
  <2>3. PICK v \in Tasks : want[u] \in held[v]
        BY <1>2, <2>1 DEF Blocked, Available
  <2>4. Blocked(v)
        BY <2>3 DEF Busy
  <2>5. InOrder(held[u], conns[u], want[u])
        BY <2>1 DEF WaitsInOrder
  <2>6. QED
        BY <2>2, <2>3, <2>4, <2>5
<1>3. ASSUME NEW u \in Tasks, Blocked(u), Web \in held[u]
      PROVE  FALSE
  <2>1. want[u] \in Locks /\ InOrder(held[u], conns[u], want[u]) /\ want[u] # Conn
        BY <1>2, <1>3, LockOrderAssumption
  <2>2. QED
        BY <1>3, <2>1 DEF InOrder
<1>4. ASSUME NEW u \in Tasks, Blocked(u), Routing \in held[u]
      PROVE  FALSE
  <2>1. /\ want[u] \in Locks /\ want[u] # Conn
        /\ InOrder(held[u], conns[u], want[u])
        BY <1>2, <1>4, LockOrderAssumption
  <2>2. want[u] = Web
        BY <1>4, <2>1 DEF InOrder
  <2>3. QED
        BY <1>2, <1>3, <1>4, <2>2
<1>5. ASSUME NEW u \in Tasks, Blocked(u), held[u] # {}
      PROVE  FALSE
  <2>1. /\ want[u] \in Locks /\ want[u] # Conn
        /\ InOrder(held[u], conns[u], want[u])
        BY <1>2, <1>5, LockOrderAssumption
  <2>2. want[u] \in {Routing, Web}
        BY <1>5, <2>1 DEF InOrder
  <2>3. QED
        BY <1>2, <1>3, <1>4, <1>5, <2>2
<1>6. PICK v \in Tasks : want[t] \in held[v] /\ Blocked(v)
      BY <1>2
<1>7. QED
      BY <1>5, <1>6

\* Requests, sweeps and route syncs that acquire in order never wait for each
\* other in a circle, whatever they do and however many apps there are.
\* (locks.py, the comment in routing._sync on the order of the two locks)
THEOREM OrderedNeverStuck ==
  ASSUME EnoughConns PROVE OrderSpec => []NeverStuck
<1>1. OrderSpec => []IInv
      BY InitOrder, NextOrder, PTL DEF OrderSpec
<1>2. IInv => NeverStuck
      BY OrderUnsticks
<1>3. QED
      BY <1>1, <1>2, PTL
-----------------------------------------------------------------------------
\* What a coroutine is in and what it still has to do fit: the rest of its path
\* runs from its blocks to outside all of them, it holds what its blocks hold, and
\* it waits for nothing but the next entry of its path.
Follows ==
  /\ stack \in [Tasks -> Seq(Blocks)] /\ todo \in [Tasks -> Seq(Steps)]
  /\ \A t \in Tasks :
       /\ Run(todo[t], stack[t], <<>>)
       /\ held[t] = LocksOf(stack[t]) /\ conns[t] = ConnsOf(stack[t])
       /\ want[t] # Nothing => todo[t] # <<>> /\ want[t] = Head(todo[t]) /\ want[t] # Exit

\* The inductive invariant.
LInv == IInv /\ Follows

\* It holds at the start.
LEMMA InitFollows == Init => OrderInit /\ LInv
  <1> SUFFICES ASSUME Init PROVE Follows BY InitOrder DEF Init, LInv
  <1>1. /\ <<>> \in Seq(Blocks) /\ <<>> \in Seq(Steps)
        /\ Run(<<>>, <<>>, <<>>)
    <2>1. <<>> \in Seq(Blocks) /\ <<>> \in Seq(Steps) OBVIOUS
    <2>2. Run(<<>>, <<>>, <<>>) BY <2>1, RunsNowhere
    <2> QED BY <2>1, <2>2
  <1>2. \A t \in Tasks : held[t] = {} /\ conns[t] = 0 /\ want[t] = Nothing
                         /\ stack[t] = <<>> /\ todo[t] = <<>>
    BY DEF Init, OrderInit
  <1>3. stack \in [Tasks -> Seq(Blocks)] /\ todo \in [Tasks -> Seq(Steps)]
    BY <1>1 DEF Init
  <1> QED BY <1>1, <1>2, <1>3, OutOfBlocks DEF Follows

\* A step of one coroutine leaves the others' part of it alone.
LEMMA OthersFollow ==
  ASSUME LInv, NEW t \in Tasks,
         stack' \in [Tasks -> Seq(Blocks)], todo' \in [Tasks -> Seq(Steps)],
         \A u \in Tasks \ {t} : /\ stack'[u] = stack[u] /\ todo'[u] = todo[u]
                                /\ held'[u] = held[u] /\ conns'[u] = conns[u]
                                /\ want'[u] = want[u],
         Run(todo'[t], stack'[t], <<>>),
         held'[t] = LocksOf(stack'[t]), conns'[t] = ConnsOf(stack'[t]),
         want'[t] # Nothing =>
           todo'[t] # <<>> /\ want'[t] = Head(todo'[t]) /\ want'[t] # Exit
  PROVE  Follows'
  BY DEF LInv, Follows

\* A new call begins outside every block, with a path that runs from there.
LEMMA CallFollows ==
  ASSUME LInv, NEW t \in Tasks, Call(t)
  PROVE  UNCHANGED lockVars /\ Follows'
  <1>1. PICK p \in Calls : todo' = [todo EXCEPT ![t] = p] BY DEF Call
  <1>2. /\ todo[t] = <<>> /\ held' = held /\ conns' = conns /\ want' = want /\ stack' = stack
    BY DEF Call, lockVars
  <1>3. Run(p, <<>>, <<>>) BY CallsClose
  <1>4. p \in Seq(Steps) BY <1>3 DEF Run
  <1>5. stack[t] = <<>> BY <1>2, RunsEnd DEF LInv, Follows
  <1>6. /\ todo' \in [Tasks -> Seq(Steps)] /\ todo'[t] = p
        /\ \A u \in Tasks \ {t} : todo'[u] = todo[u]
    BY <1>1, <1>4 DEF LInv, Follows
  <1>7. want[t] = Nothing BY <1>2 DEF LInv, Follows
  <1>8. Follows'
    BY <1>2, <1>3, <1>5, <1>6, <1>7, OthersFollow DEF LInv, Follows
  <1> QED BY <1>2, <1>8 DEF lockVars

\* What comes next on a path that runs is in order: Await is an Ask of LockOrder.
LEMMA AwaitFollows ==
  ASSUME LInv, NEW t \in Tasks, Await(t)
  PROVE  (\E w \in Locks \cup {Conn} : Ask(t, w)) /\ Follows'
  <1> DEFINE w == Head(todo[t])
  <1>1. /\ todo[t] # <<>> /\ w # Exit /\ want[t] = Nothing
        /\ want' = [want EXCEPT ![t] = w]
        /\ held' = held /\ conns' = conns /\ stack' = stack /\ todo' = todo
    BY DEF Await
  <1>2. Run(todo[t], stack[t], <<>>) /\ held[t] = LocksOf(stack[t]) /\ conns[t] = ConnsOf(stack[t])
    BY DEF LInv, Follows
  <1>3. PICK m \in Seq(Blocks) : Step(stack[t], w, m) BY <1>1, <1>2, RunsFirst
  <1>4. w \in Blocks /\ InOrder(held[t], conns[t], w)
    BY <1>1, <1>2, <1>3 DEF Step, MayEnter
  <1>5. Ask(t, w) BY <1>1, <1>4 DEF Ask
  <1> HIDE DEF w
  <1>6. /\ want'[t] = w /\ \A u \in Tasks \ {t} : want'[u] = want[u]
    BY <1>1 DEF LInv, IInv, OrderTypeOK
  <1>7. Follows'
    BY <1>1, <1>2, <1>6, OthersFollow DEF LInv, Follows, w
  <1> QED BY <1>4, <1>5, <1>7 DEF Blocks

\* Being granted it is a Grant, and the rest of the path runs from the new block.
LEMMA AcquireFollows ==
  ASSUME LInv, NEW t \in Tasks, Acquire(t)
  PROVE  Grant(t) /\ Follows'
  <1> DEFINE w == want[t]
  <1>1. /\ w # Nothing /\ want' = [want EXCEPT ![t] = Nothing]
        /\ IF w = Conn
           THEN conns' = [conns EXCEPT ![t] = @ + 1] /\ held' = held
           ELSE held' = [held EXCEPT ![t] = @ \cup {w}] /\ conns' = conns
        /\ stack' = [stack EXCEPT ![t] = Append(@, w)]
        /\ todo' = [todo EXCEPT ![t] = Tail(@)]
    BY DEF Acquire, Grant
  <1>2. /\ Run(todo[t], stack[t], <<>>) /\ held[t] = LocksOf(stack[t])
        /\ conns[t] = ConnsOf(stack[t]) /\ todo[t] # <<>> /\ w = Head(todo[t]) /\ w # Exit
        /\ stack[t] \in Seq(Blocks)
    BY <1>1 DEF LInv, Follows
  <1>3. PICK m \in Seq(Blocks) : Step(stack[t], w, m) /\ Run(Tail(todo[t]), m, <<>>)
    BY <1>2, RunsFirst
  <1>4. w \in Blocks /\ m = Append(stack[t], w) BY <1>2, <1>3 DEF Step, MayEnter
  <1>5. /\ LocksOf(m) = LocksOf(stack[t]) \cup ({w} \ {Conn})
        /\ ConnsOf(m) = ConnsOf(stack[t]) + (IF w = Conn THEN 1 ELSE 0)
        /\ ConnsOf(stack[t]) \in Nat
    BY <1>2, <1>4, EntersBlock
  <1> HIDE DEF w
  <1>6. /\ want'[t] = Nothing /\ \A u \in Tasks \ {t} : want'[u] = want[u]
    BY <1>1 DEF LInv, IInv, OrderTypeOK
  <1>7. /\ held'[t] = LocksOf(m) /\ conns'[t] = ConnsOf(m)
        /\ \A u \in Tasks \ {t} : held'[u] = held[u] /\ conns'[u] = conns[u]
    <2>1. held \in [Tasks -> SUBSET Locks] /\ conns \in [Tasks -> 0 .. 2]
      BY DEF LInv, IInv, OrderTypeOK
    <2>2. CASE w = Conn BY <1>1, <1>2, <1>5, <2>1, <2>2
    <2>3. CASE w # Conn BY <1>1, <1>2, <1>5, <2>1, <2>3
    <2> QED BY <2>2, <2>3
  <1>8. Tail(todo[t]) \in Seq(Steps) BY <1>3 DEF Run
  <1>9. /\ stack' \in [Tasks -> Seq(Blocks)] /\ stack'[t] = m
        /\ todo' \in [Tasks -> Seq(Steps)] /\ todo'[t] = Tail(todo[t])
        /\ \A u \in Tasks \ {t} : stack'[u] = stack[u] /\ todo'[u] = todo[u]
    BY <1>1, <1>3, <1>4, <1>8 DEF LInv, Follows
  <1>10. Follows' BY <1>3, <1>6, <1>7, <1>9, OthersFollow
  <1> QED BY <1>10 DEF Acquire

\* Leaving a block is a Give, whatever path runs from the block outside.
LEMMA LeaveGives ==
  ASSUME LInv, NEW t \in Tasks, stack[t] # <<>>, Leave(t),
         NEW rest, Run(rest, Front(stack[t]), <<>>), todo' = [todo EXCEPT ![t] = rest],
         want' = [want EXCEPT ![t] = Nothing]
  PROVE  Give(t) /\ Follows'
  <1> DEFINE f == Front(stack[t])
  <1>1. stack[t] \in Seq(Blocks) /\ held[t] = LocksOf(stack[t]) /\ conns[t] = ConnsOf(stack[t])
    BY DEF LInv, Follows
  <1>2. f \in Seq(Blocks) /\ LocksOf(f) \subseteq held[t] /\ ConnsOf(f) \in 0 .. conns[t]
    BY <1>1, LeavesBlock
  <1>3. /\ stack' = [stack EXCEPT ![t] = f] /\ held' = [held EXCEPT ![t] = LocksOf(f)]
        /\ conns' = [conns EXCEPT ![t] = ConnsOf(f)]
    BY DEF Leave
  <1> HIDE DEF f
  <1>4. Give(t) BY <1>2, <1>3 DEF Give
  <1>5. rest \in Seq(Steps) BY DEF Run
  <1>6. /\ stack' \in [Tasks -> Seq(Blocks)] /\ stack'[t] = f
        /\ todo' \in [Tasks -> Seq(Steps)] /\ todo'[t] = rest
        /\ \A u \in Tasks \ {t} : stack'[u] = stack[u] /\ todo'[u] = todo[u]
    BY <1>2, <1>3, <1>5 DEF LInv, Follows
  <1>7. /\ held'[t] = LocksOf(f) /\ conns'[t] = ConnsOf(f) /\ want'[t] = Nothing
        /\ \A u \in Tasks \ {t} : held'[u] = held[u] /\ conns'[u] = conns[u] /\ want'[u] = want[u]
    BY <1>3 DEF LInv, IInv, OrderTypeOK
  <1>8. Run(rest, f, <<>>) BY DEF f
  <1>9. Follows' BY <1>6, <1>7, <1>8, OthersFollow
  <1> QED BY <1>4, <1>9

\* At an exit, the rest of the path does.
LEMMA ReleaseFollows ==
  ASSUME LInv, NEW t \in Tasks, Release(t)
  PROVE  Give(t) /\ Follows'
  <1>1. /\ todo[t] # <<>> /\ Head(todo[t]) = Exit /\ Leave(t)
        /\ todo' = [todo EXCEPT ![t] = Tail(todo[t])] /\ want' = want
    BY DEF Release
  <1>2. Run(todo[t], stack[t], <<>>) /\ want[t] = Nothing
    BY <1>1 DEF LInv, Follows
  <1>3. PICK m \in Seq(Blocks) : Step(stack[t], Exit, m) /\ Run(Tail(todo[t]), m, <<>>)
    BY <1>1, <1>2, RunsFirst
  <1>4. stack[t] # <<>> /\ m = Front(stack[t]) BY <1>3, Kinds DEF Step, MayEnter
  <1>5. want' = [want EXCEPT ![t] = Nothing] BY <1>1, <1>2 DEF LInv, IInv, OrderTypeOK
  <1> QED BY <1>1, <1>3, <1>4, <1>5, LeaveGives

\* On an exception, what AfterBlock leaves of the path does.
LEMMA RaiseFollows ==
  ASSUME LInv, NEW t \in Tasks, Raise(t)
  PROVE  Give(t) /\ Follows'
  <1>1. /\ stack[t] # <<>> /\ Leave(t) /\ todo' = [todo EXCEPT ![t] = AfterBlock(todo[t])]
        /\ want' = [want EXCEPT ![t] = Nothing]
    BY DEF Raise
  <1>2. Run(todo[t], stack[t], <<>>) BY DEF LInv, Follows
  <1>3. Run(AfterBlock(todo[t]), Front(stack[t]), <<>>) BY <1>1, <1>2, RunsOut
  <1> QED BY <1>1, <1>3, LeaveGives

\* Every step of a handler is a step of LockOrder or changes nothing of it.
LEMMA NextFollows == LInv /\ [Next]_vars => [OrderNext]_lockVars /\ LInv'
  <1> SUFFICES ASSUME LInv, [Next]_vars PROVE [OrderNext]_lockVars /\ Follows'
    BY NextOrder DEF LInv
  <1>1. CASE UNCHANGED vars
    BY <1>1 DEF vars, lockVars, LInv, Follows
  <1>2. ASSUME NEW t \in Tasks, Call(t) PROVE [OrderNext]_lockVars /\ Follows'
    BY <1>2, CallFollows
  <1>3. ASSUME NEW t \in Tasks, Await(t) PROVE [OrderNext]_lockVars /\ Follows'
    BY <1>3, AwaitFollows DEF OrderNext
  <1>4. ASSUME NEW t \in Tasks, Acquire(t) PROVE [OrderNext]_lockVars /\ Follows'
    BY <1>4, AcquireFollows DEF OrderNext
  <1>5. ASSUME NEW t \in Tasks, Release(t) PROVE [OrderNext]_lockVars /\ Follows'
    BY <1>5, ReleaseFollows DEF OrderNext
  <1>6. ASSUME NEW t \in Tasks, Raise(t) PROVE [OrderNext]_lockVars /\ Follows'
    BY <1>6, RaiseFollows DEF OrderNext
  <1> QED BY <1>1, <1>2, <1>3, <1>4, <1>5, <1>6 DEF Next

\* The invariant always holds.
LEMMA AlwaysFollows == Spec => []LInv
  <1>1. Init => LInv BY InitFollows
  <1>2. LInv /\ [Next]_vars => LInv' BY NextFollows
  <1> QED BY <1>1, <1>2, PTL DEF Spec

\* Every handler, on every path through it and every way an exception takes out of
\* it, acquires app lock, ROUTING_LOCK and the static host's lock in that order,
\* no lock under a second connection and never a third connection: the handlers
\* implement LockOrder.  (locks.py; the order comment of routing._sync)
THEOREM HandlersKeepOrder == Spec => KeepsOrder
  <1>1. Init => OrderInit BY InitFollows
  <1>2. LInv /\ [Next]_vars => [OrderNext]_lockVars BY NextFollows
  <1> QED BY <1>1, <1>2, AlwaysFollows, PTL DEF Spec, KeepsOrder, OrderSpec

\* Where the pool has more connections than there are coroutines, the handlers
\* never wait for each other in a circle: among blocked coroutines there is one
\* that holds something and goes on.  (locks.py, db.init_pool)
THEOREM HandlersNeverStuck ==
  ASSUME EnoughConns PROVE Spec => []NeverStuck
  <1>1. LInv => NeverStuck BY OrderUnsticks DEF LInv
  <1> QED BY <1>1, AlwaysFollows, PTL

\* A coroutine is in a block exactly as long as the exit of that block is ahead of
\* it, and holds its blocks' locks and connections, no more and no less: no way
\* out of a handler leaves a lock held.  (every `async with` of the handlers)
THEOREM LockTypes == Spec => []TypeOK
  <1>1. LInv => TypeOK
    <2> SUFFICES ASSUME LInv PROVE TypeOK OBVIOUS
    <2>1. OrderTypeOK /\ stack \in [Tasks -> Seq(Locks \cup {Conn})]
      BY DEF LInv, IInv, Follows, Blocks
    <2>2. ASSUME NEW t \in Tasks
          PROVE  /\ Len(stack[t]) + 2 * Entries(todo[t], Len(todo[t])) = Len(todo[t])
                 /\ held[t] = LocksOf(stack[t]) /\ conns[t] = ConnsOf(stack[t])
                 /\ want[t] \in {Nothing, Head(Append(todo[t], Nothing))}
      <3>1. /\ todo[t] \in Seq(Steps) /\ Run(todo[t], stack[t], <<>>)
            /\ stack[t] \in Seq(Blocks)
            /\ held[t] = LocksOf(stack[t]) /\ conns[t] = ConnsOf(stack[t])
            /\ want[t] # Nothing => todo[t] # <<>> /\ want[t] = Head(todo[t])
        BY DEF LInv, Follows
      <3>2. PICK st \in Traces(Len(todo[t])) :
              st[0] = stack[t] /\ st[Len(todo[t])] = <<>> /\ Walks(todo[t], st)
        BY <3>1 DEF Run
      <3>3. Len(todo[t]) \in Nat /\ Len(stack[t]) \in Nat /\ Len(todo[t]) \in 0 .. Len(todo[t])
        BY <3>1, LenProperties
      <3>4. Len(<<>>) + Len(todo[t]) = Len(stack[t]) + 2 * Entries(todo[t], Len(todo[t]))
        BY <3>1, <3>2, <3>3, Levels
      <3>5. Len(stack[t]) + 2 * Entries(todo[t], Len(todo[t])) = Len(todo[t])
        <4>1. Len(<<>>) + Len(todo[t]) = Len(todo[t]) BY <3>3
        <4> QED BY <3>4, <4>1
      <3>6. todo[t] # <<>> => Head(Append(todo[t], Nothing)) = Head(todo[t])
        BY <3>1, HeadTailAppend
      <3> QED BY <3>1, <3>5, <3>6
    <2> QED BY <2>1, <2>2 DEF TypeOK
  <1> QED BY <1>1, AlwaysFollows, PTL
=============================================================================
