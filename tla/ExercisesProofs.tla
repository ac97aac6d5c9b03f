--------------------------- MODULE ExercisesProofs ---------------------------
(***************************************************************************)
(* Proofs about the programs of Exercises, for any number of children,     *)
(* words, numbers, clients and descriptors.                                *)
(***************************************************************************)
EXTENDS Exercises, FiniteSetTheorems, SequenceTheorems, WellFoundedInduction, TLAPS

-----------------------------------------------------------------------------
(* Sets of numbers and sequences *)

\* A set of natural numbers has a least one.
LEMMA Least ==
  ASSUME NEW T \in SUBSET Nat, T # {}
  PROVE  \E x \in T : \A y \in T : x <= y
<1> DEFINE R == {ss \in Nat \X Nat : ss[1] < ss[2]}
<1>1. IsWellFoundedOn(R, Nat)
  BY NatLessThanWellFounded DEF OpToRel
<1>2. PICK x \in T : \A y \in T : <<y, x>> \notin R
  <2> HIDE DEF R
  <2> QED BY <1>1, WFMin
<1>3. \A y \in T : ~(y < x)
  BY <1>2
<1> QED BY <1>3

\* Induction up to n, for a set of numbers.
LEMMA Upward ==
  ASSUME NEW n \in Nat, NEW P, 0 \in P, \A i \in 1 .. n : i - 1 \in P => i \in P
  PROVE  \A i \in 0 .. n : i \in P
<1> DEFINE T == {i \in 0 .. n : i \notin P}
<1> SUFFICES ASSUME T # {} PROVE FALSE
  OBVIOUS
<1>1. PICK x \in T : \A y \in T : x <= y
  <2>1. T \in SUBSET Nat
    OBVIOUS
  <2> HIDE DEF T
  <2> QED BY <2>1, Least
<1>2. x \in 1 .. n /\ x - 1 \notin T
  BY <1>1
<1>3. x - 1 \in P
  BY <1>2
<1> QED BY <1>1, <1>2, <1>3

\* A recursion from 0 to n has a value.
LEMMA Recursion ==
  ASSUME NEW n \in Nat, NEW step \in [Int \X (1 .. n) -> Int]
  PROVE  \E f \in [0 .. n -> Int] :
           f[0] = 0 /\ \A i \in 1 .. n : f[i] = step[<<f[i - 1], i>>]
<1> DEFINE Upto(k, f) == f[0] = 0 /\ \A i \in 1 .. k : f[i] = step[<<f[i - 1], i>>]
           P == {k \in 0 .. n : \E f \in [0 .. k -> Int] : Upto(k, f)}
<1>1. 0 \in P
  <2>1. [i \in 0 .. 0 |-> 0] \in [0 .. 0 -> Int] /\ Upto(0, [i \in 0 .. 0 |-> 0])
    OBVIOUS
  <2> HIDE DEF Upto
  <2> QED BY <2>1
<1>2. ASSUME NEW k \in 1 .. n, k - 1 \in P PROVE k \in P
  <2>1. PICK f \in [0 .. k - 1 -> Int] : Upto(k - 1, f)
    BY <1>2
  <2> DEFINE g == [i \in 0 .. k |-> IF i = k THEN step[<<f[k - 1], k>>] ELSE f[i]]
  <2>2. g \in [0 .. k -> Int]
    <3>1. f[k - 1] \in Int
      OBVIOUS
    <3>2. step[<<f[k - 1], k>>] \in Int
      BY <3>1
    <3>3. \A i \in 0 .. k : i # k => f[i] \in Int
      OBVIOUS
    <3> QED BY <3>2, <3>3
  <2>3. g[k] = step[<<f[k - 1], k>>] /\ \A i \in 0 .. k - 1 : g[i] = f[i]
    OBVIOUS
  <2> HIDE DEF g
  <2>4. Upto(k, g)
    <3>1. g[0] = 0
      BY <2>1, <2>3
    <3>2. ASSUME NEW i \in 1 .. k PROVE g[i] = step[<<g[i - 1], i>>]
      <4>1. CASE i = k
        <5>1. g[i - 1] = f[k - 1]
          BY <2>3, <4>1
        <5> QED BY <2>3, <4>1, <5>1
      <4>2. CASE i # k
        <5>1. g[i] = f[i] /\ g[i - 1] = f[i - 1] /\ i \in 1 .. k - 1
          BY <2>3, <4>2
        <5> QED BY <2>1, <5>1
      <4> QED BY <4>1, <4>2
    <3> QED BY <3>1, <3>2
  <2> HIDE DEF Upto
  <2> QED BY <2>2, <2>4
<1>3. n \in P
  <2> HIDE DEF P
  <2> QED BY <1>1, <1>2, Upward
<1> QED BY <1>3

\* What CHOOSE takes as the least.
LEMMA LeastChosen ==
  ASSUME NEW T \in SUBSET Nat, T # {}
  PROVE  (CHOOSE x \in T : \A y \in T : x <= y) \in T
BY Least

LEMMA TimesMonotonic ==
  ASSUME NEW k \in Nat, NEW i \in Nat, NEW j \in Nat, i <= j
  PROVE  k * i <= k * j
<1>1. k * j = k * i + k * (j - i)
  OBVIOUS
<1>2. k * (j - i) >= 0
  OBVIOUS
<1>3. k * i \in Int /\ k * j \in Int /\ k * (j - i) \in Int
  OBVIOUS
<1> DEFINE a == k * i
           b == k * j
           c == k * (j - i)
<1>4. a \in Int /\ b \in Int /\ c \in Int /\ b = a + c /\ c >= 0
  BY <1>1, <1>2, <1>3
<1> HIDE DEF a, b, c
<1>5. a <= b
  BY <1>4
<1> QED BY <1>5 DEF a, b

\* u is s without its k-th element
WithoutAt(s, k, u) ==
  /\ Len(u) = Len(s) - 1
  /\ \A j \in 1 .. Len(s) - 1 : u[j] = IF j < k THEN s[j] ELSE s[j + 1]

\* The two parts of a sequence around an element make the sequence without it.
LEMMA TwoParts ==
  ASSUME NEW S, NEW s \in Seq(S), NEW k \in 1 .. Len(s)
  PROVE  /\ SubSeq(s, 1, k - 1) \o SubSeq(s, k + 1, Len(s)) \in Seq(S)
         /\ WithoutAt(s, k, SubSeq(s, 1, k - 1) \o SubSeq(s, k + 1, Len(s)))
<1> DEFINE a == SubSeq(s, 1, k - 1)
           b == SubSeq(s, k + 1, Len(s))
<1>0. Len(s) \in Nat /\ \A j \in 1 .. Len(s) : s[j] \in S
  BY LenProperties
<1>1. a \in Seq(S) /\ Len(a) = k - 1 /\ \A j \in 1 .. k - 1 : a[j] = s[j]
  BY <1>0, SubSeqProperties
<1>2. /\ b \in Seq(S) /\ Len(b) = Len(s) - k
      /\ \A j \in 1 .. Len(s) - k : b[j] = s[k + j]
  <2>1. /\ b \in Seq(S) /\ Len(b) = IF k + 1 <= Len(s) THEN Len(s) - (k + 1) + 1 ELSE 0
        /\ \A j \in 1 .. Len(s) - (k + 1) + 1 : b[j] = s[(k + 1) + j - 1]
    BY <1>0, SubSeqProperties
  <2> QED BY <1>0, <2>1
<1>3. /\ a \o b \in Seq(S)
      /\ Len(a \o b) = Len(a) + Len(b)
      /\ \A i \in 1 .. Len(a) + Len(b) :
           (a \o b)[i] = IF i <= Len(a) THEN a[i] ELSE b[i - Len(a)]
  BY <1>1, <1>2, ConcatProperties
<1> HIDE DEF a, b
<1>4. Len(a \o b) = Len(s) - 1
  BY <1>0, <1>1, <1>2, <1>3
<1>5. ASSUME NEW j \in 1 .. Len(s) - 1
      PROVE  (a \o b)[j] = IF j < k THEN s[j] ELSE s[j + 1]
  <2>1. (a \o b)[j] = IF j <= k - 1 THEN a[j] ELSE b[j - (k - 1)]
    BY <1>0, <1>1, <1>2, <1>3
  <2>2. CASE j < k
    BY <1>0, <1>1, <2>1, <2>2
  <2>3. CASE ~(j < k)
    <3>1. b[j - (k - 1)] = s[k + (j - (k - 1))]
      BY <1>0, <1>2, <2>3
    <3> QED BY <1>0, <2>1, <2>3, <3>1
  <2> QED BY <2>2, <2>3
<1>6. WithoutAt(s, k, a \o b)
  BY <1>4, <1>5 DEF WithoutAt
<1> QED BY <1>3, <1>6 DEF a, b

-----------------------------------------------------------------------------
(* tp_02_01: keeping n_childs children *)

\* the children in a state, were p the states of the children
InState(p, s) == {c \in Child : p[c] = s}

KeeperState == {"none", "runs", "zombie", "gone"}

One(b) == IF b THEN 1 ELSE 0
\* a child is there that alive_childs does not count yet
Forking == parent \in {"load", "store"}

\* alive_childs is never below what runs and what it is about to be told of, and
\* main loads it when it is below n_childs; the zombies are those that a pending
\* signal stands for and the one that the handler is about to wait for, or more.
KeeperCount(running_, zombies) ==
  /\ alive_childs + One(Forking) >= running_ + One(pending)
  /\ ~uncounted /\ parent # "ended" =>
       /\ alive_childs + One(Forking) = running_ + One(pending)
       /\ parent = "store" => register = alive_childs
  /\ zombies >= One(pending) + One(handler = "wait")

KeeperRest ==
  /\ alive_childs \in Int /\ alive_childs <= n_childs
  /\ register \in -Cardinality(Child) .. n_childs
  /\ parent \in {"loop", "load", "store", "ended"} /\ handler \in {"out", "wait"}
  /\ pending \in BOOLEAN /\ uncounted \in BOOLEAN
  /\ Forking => Child # {}
  /\ parent = "load" => alive_childs < n_childs
  /\ parent = "store" => alive_childs <= register /\ register < n_childs

KeeperInv ==
  /\ KeeperRest
  /\ proc \in [Child -> KeeperState]
  /\ KeeperCount(Cardinality(InState(proc, "runs")), Cardinality(InState(proc, "zombie")))

\* The module counts as this one does.
LEMMA KeeperCardinality == \A S : Keeper!Cardinality(S) = Cardinality(S)
  BY DEF Keeper!Cardinality, Cardinality

LEMMA StateCount ==
  ASSUME NEW p, NEW s
  PROVE  /\ IsFiniteSet(InState(p, s))
         /\ Cardinality(InState(p, s)) \in Nat
         /\ Cardinality(InState(p, s)) <= Cardinality(Child)
         /\ Cardinality(Child) \in Nat
  BY KeeperAssumption, FS_Subset, FS_CardinalityType DEF InState

\* q is p, but for one child, which is in state s
Moved(p, q, c, s) ==
  /\ q \in [Child -> KeeperState]
  /\ Cardinality(InState(q, s)) = Cardinality(InState(p, s)) + 1
  /\ Cardinality(InState(q, p[c])) = Cardinality(InState(p, p[c])) - 1
  /\ \A r : r # s /\ r # p[c] =>
       Cardinality(InState(q, r)) = Cardinality(InState(p, r))

\* A child goes from one state into another.
LEMMA StateMoved ==
  ASSUME NEW p \in [Child -> KeeperState], NEW c \in Child, NEW s \in KeeperState,
         p[c] # s
  PROVE  Moved(p, [p EXCEPT ![c] = s], c, s)
<1> DEFINE q == [p EXCEPT ![c] = s]
<1>0. q \in [Child -> KeeperState]
  OBVIOUS
<1>1. InState(q, s) = InState(p, s) \cup {c} /\ c \notin InState(p, s)
  BY DEF InState
<1>2. InState(q, p[c]) = InState(p, p[c]) \ {c} /\ c \in InState(p, p[c])
  BY DEF InState
<1>3. \A r : r # s /\ r # p[c] => InState(q, r) = InState(p, r)
  BY DEF InState
<1>4. IsFiniteSet(InState(p, s)) /\ IsFiniteSet(InState(p, p[c]))
  BY StateCount
<1>5. Cardinality(InState(q, s)) = Cardinality(InState(p, s)) + 1
  BY <1>1, <1>4, FS_AddElement
<1>6. Cardinality(InState(q, p[c])) = Cardinality(InState(p, p[c])) - 1
  BY <1>2, <1>4, FS_RemoveElement
<1> QED BY <1>0, <1>3, <1>5, <1>6 DEF Moved

LEMMA InitKeeper == Init => KeeperInv
<1> SUFFICES ASSUME Keeper!Init PROVE KeeperInv
  BY DEF Init
<1>1. InState(proc, "runs") = {} /\ InState(proc, "zombie") = {}
  BY DEF Keeper!Init, InState
<1>2. Cardinality({}) = 0 /\ Cardinality(Child) \in Nat
  BY FS_EmptySet, StateCount
<1>3. proc \in [Child -> KeeperState]
  BY DEF Keeper!Init, KeeperState
<1>4. pending \in BOOLEAN /\ uncounted \in BOOLEAN /\ ~pending
  BY Zenon DEF Keeper!Init
<1>5. 0 \in -Cardinality(Child) .. n_childs /\ 0 <= n_childs
  BY <1>2, KeeperAssumption
<1>6. KeeperCount(0, 0)
  BY <1>4 DEF Keeper!Init, KeeperCount, Forking, One
<1> QED
  BY <1>1, <1>2, <1>3, <1>4, <1>5, <1>6 DEF Keeper!Init, KeeperInv, KeeperRest, Forking

LEMMA NextKeeper == KeeperInv /\ Keeper!Next => KeeperInv'
<1> SUFFICES ASSUME KeeperInv, Keeper!Next PROVE KeeperInv'
  OBVIOUS
<1>a. PICK runs, zombies : /\ runs = Cardinality(InState(proc, "runs"))
                           /\ zombies = Cardinality(InState(proc, "zombie"))
  OBVIOUS
<1>0. /\ runs \in Nat /\ zombies \in Nat /\ runs <= Cardinality(Child)
      /\ Cardinality(Child) \in Nat /\ n_childs \in Nat
  BY <1>a, StateCount, KeeperAssumption
<1>b. /\ proc \in [Child -> KeeperState]
      /\ pending \in BOOLEAN /\ uncounted \in BOOLEAN
      /\ KeeperCount(runs, zombies)
  BY <1>a DEF KeeperInv, KeeperRest
<1>c. KeeperRest
  BY DEF KeeperInv
<1>d. ASSUME KeeperRest', proc' \in [Child -> KeeperState], NEW r, NEW z,
             r = Cardinality(InState(proc', "runs")), z = Cardinality(InState(proc', "zombie")),
             KeeperCount(r, z)'
      PROVE  KeeperInv'
  BY <1>d DEF KeeperInv, KeeperCount, Forking, One
<1>1. CASE Keeper!Fork
  <2>0. "runs" \in KeeperState
    BY DEF KeeperState
  <2>1. PICK c \in Child : proc[c] = "none" /\ proc' = [proc EXCEPT ![c] = "runs"]
    BY <1>1 DEF Keeper!Fork, Keeper!In
  <2>2. /\ Cardinality(InState(proc', "runs")) = runs + 1
        /\ Cardinality(InState(proc', "zombie")) = zombies
        /\ proc' \in [Child -> KeeperState]
    <3>1. proc \in [Child -> KeeperState]
      BY <1>b
    <3>2. Moved(proc, proc', c, "runs")
      BY <2>0, <2>1, <3>1, StateMoved
    <3> QED BY <1>a, <2>0, <2>1, <3>2 DEF Moved
  <2>3. KeeperRest'
    BY <1>0, <1>c, <1>1, <2>1
      DEF Keeper!Fork, Keeper!Wants, KeeperRest, KeeperCount, Forking, One
  <2>4. KeeperCount(runs + 1, zombies)'
    BY <1>0, <1>b, <1>c, <1>1 DEF Keeper!Fork, KeeperRest, KeeperCount, Forking, One
  <2> QED BY <1>b, <1>d, <1>1, <2>2, <2>3, <2>4 DEF Keeper!Fork, KeeperCount, Forking, One
<1>2. CASE Keeper!ForkFails
  <2>1. KeeperRest'
    BY <1>c, <1>2 DEF Keeper!ForkFails, KeeperRest, KeeperCount, Forking, One
  <2>2. KeeperCount(runs, zombies)'
    BY <1>0, <1>b, <1>c, <1>2 DEF Keeper!ForkFails, KeeperRest, KeeperCount, Forking, One
  <2> QED BY <1>a, <1>b, <1>d, <1>2, <2>1, <2>2
    DEF Keeper!ForkFails, KeeperCount, Forking, One
<1>3. CASE Keeper!Load
  <2>1. KeeperRest'
    <3>1. Cardinality(Child) >= 1
      BY <1>0, <1>c, <1>3, KeeperAssumption, FS_EmptySet
        DEF Keeper!Load, KeeperRest, Forking
    <3>2. alive_childs >= -1
      BY <1>0, <1>b, <1>c DEF KeeperRest, KeeperCount, Forking, One
    <3> QED BY <1>0, <1>c, <1>3, <3>1, <3>2 DEF Keeper!Load, KeeperRest, Forking
  <2>2. KeeperCount(runs, zombies)'
    BY <1>0, <1>b, <1>c, <1>3 DEF Keeper!Load, KeeperRest, KeeperCount, Forking, One
  <2> QED BY <1>a, <1>b, <1>d, <1>3, <2>1, <2>2 DEF Keeper!Load, KeeperCount, Forking, One
<1>4. CASE Keeper!Store
  <2>1. KeeperRest'
    BY <1>0, <1>c, <1>4 DEF Keeper!Store, KeeperRest, KeeperCount, Forking, One
  <2>2. KeeperCount(runs, zombies)'
    BY <1>0, <1>b, <1>c, <1>4 DEF Keeper!Store, KeeperRest, KeeperCount, Forking, One
  <2> QED BY <1>a, <1>b, <1>d, <1>4, <2>1, <2>2
    DEF Keeper!Store, KeeperCount, Forking, One
<1>5. CASE Keeper!HandlerStarts
  <2>0. /\ pending /\ ~pending' /\ pending' \in BOOLEAN /\ uncounted' \in BOOLEAN
        /\ ~uncounted' => ~uncounted /\ parent # "store"
    BY Zenon, <1>b, <1>5 DEF Keeper!HandlerStarts
  <2>1. KeeperRest'
    BY <1>0, <1>c, <1>5, <2>0
      DEF Keeper!HandlerStarts, Keeper!CountDown, KeeperRest, Forking
  <2>2. KeeperCount(runs, zombies)'
    BY <1>0, <1>b, <1>c, <1>5, <2>0
      DEF Keeper!HandlerStarts, Keeper!CountDown, KeeperRest, KeeperCount, Forking, One
  <2> QED BY <1>a, <1>b, <1>d, <1>5, <2>0, <2>1, <2>2
    DEF Keeper!HandlerStarts, KeeperCount, Forking, One
<1>6. CASE Keeper!HandlerWaits
  <2>0. "gone" \in KeeperState
    BY DEF KeeperState
  <2>1. PICK c \in Child : proc[c] = "zombie" /\ proc' = [proc EXCEPT ![c] = "gone"]
    BY <1>6 DEF Keeper!HandlerWaits, Keeper!Reap, Keeper!In
  <2>2. /\ Cardinality(InState(proc', "runs")) = runs
        /\ Cardinality(InState(proc', "zombie")) = zombies - 1
        /\ proc' \in [Child -> KeeperState]
    <3>1. proc \in [Child -> KeeperState]
      BY <1>b
    <3>2. Moved(proc, proc', c, "gone")
      BY <2>0, <2>1, <3>1, StateMoved
    <3> QED BY <1>a, <2>0, <2>1, <3>2 DEF Moved
  <2>3. KeeperRest'
    BY <1>c, <1>6 DEF Keeper!HandlerWaits, KeeperRest, KeeperCount, Forking, One
  <2>4. KeeperCount(runs, zombies - 1)'
    BY <1>0, <1>b, <1>c, <1>6
      DEF Keeper!HandlerWaits, KeeperRest, KeeperCount, Forking, One
  <2> QED BY <1>b, <1>d, <1>6, <2>2, <2>3, <2>4
    DEF Keeper!HandlerWaits, KeeperCount, Forking, One
<1>7. ASSUME NEW c \in Child, Keeper!Ends(c) PROVE KeeperInv'
  <2>0. /\ proc[c] = "runs" /\ proc' = [proc EXCEPT ![c] = "zombie"]
        /\ pending' => parent # "ended"
        /\ parent # "ended" => pending'
        /\ pending' \in BOOLEAN /\ uncounted' \in BOOLEAN
        /\ ~uncounted' => ~uncounted /\ ~pending
    BY Zenon, <1>b, <1>7 DEF Keeper!Ends
  <2>1. "zombie" \in KeeperState
    BY DEF KeeperState
  <2>2. /\ Cardinality(InState(proc', "runs")) = runs - 1
        /\ Cardinality(InState(proc', "zombie")) = zombies + 1
        /\ proc' \in [Child -> KeeperState]
    <3>1. proc \in [Child -> KeeperState]
      BY <1>b
    <3>2. Moved(proc, proc', c, "zombie")
      BY <2>0, <2>1, <3>1, StateMoved
    <3> QED BY <1>a, <2>0, <2>1, <3>2 DEF Moved
  <2>3. KeeperRest'
    BY <1>c, <1>7 DEF Keeper!Ends, KeeperRest, KeeperCount, Forking, One
  <2>4. KeeperCount(runs - 1, zombies + 1)'
    BY <1>0, <1>b, <1>c, <1>7, <2>0 DEF Keeper!Ends, KeeperRest, KeeperCount, Forking, One
  <2> QED BY <1>d, <2>0, <2>2, <2>3, <2>4 DEF KeeperCount, Forking, One
<1> QED
  BY Zenon, <1>1, <1>2, <1>3, <1>4, <1>5, <1>6, <1>7 DEF Keeper!Next, Keeper!Main

LEMMA KeeperInvariance == Spec => []KeeperInv
<1>1. KeeperInv /\ [Next]_vars => KeeperInv'
  <2>1. KeeperInv /\ UNCHANGED keeper => KeeperInv'
    BY DEF keeper, KeeperInv, KeeperRest, KeeperCount, Forking, One, InState
  <2> QED
    BY <2>1, NextKeeper
    DEF Next, KeeperNext, ListNext, WordsNext, SearchesNext, ServersNext, FilterNext, vars
<1> QED BY InitKeeper, <1>1, PTL DEF Spec

\* For any number of children: no more than n_childs run, the handler's wait finds
\* one that has ended, and the count is exact until a decrement is lost or two ends
\* merge.
THEOREM Kept == Spec => []KeeperSafe
<1>1. KeeperInv => KeeperSafe
  <2> SUFFICES ASSUME KeeperInv PROVE KeeperSafe
    OBVIOUS
  <2>a. PICK runs, zombies : /\ runs = Cardinality(InState(proc, "runs"))
                             /\ zombies = Cardinality(InState(proc, "zombie"))
    OBVIOUS
  <2>1. /\ runs \in Nat /\ zombies \in Nat /\ runs <= Cardinality(Child)
        /\ Cardinality(Child) \in Nat /\ n_childs \in Nat
    BY <2>a, StateCount, KeeperAssumption
  <2>2. /\ Keeper!Cardinality(Keeper!In("runs")) = runs
        /\ Keeper!In("zombie") = InState(proc, "zombie")
    BY <2>a, KeeperCardinality DEF Keeper!In, InState
  <2>3. Child # {} => Cardinality(Child) >= 1
    BY <2>1, KeeperAssumption, FS_EmptySet
  <2>4. zombies # 0 => Keeper!In("zombie") # {}
    BY <2>a, <2>2, FS_EmptySet
  <2>5. /\ KeeperCount(runs, zombies)
        /\ pending \in BOOLEAN /\ uncounted \in BOOLEAN
    BY <2>a DEF KeeperInv, KeeperRest
  <2> USE DEF KeeperCount, Forking, One
  <2>6. Keeper!TypeOK
    <3>1. alive_childs \in -Cardinality(Child) .. n_childs
      BY <2>1, <2>3, <2>5 DEF KeeperInv, KeeperRest
    <3> QED BY <3>1, KeeperCardinality
      DEF Keeper!TypeOK, KeeperInv, KeeperRest, KeeperState
  <2>7. Keeper!NeverTooMany
    BY <2>1, <2>2, <2>5 DEF Keeper!NeverTooMany, KeeperInv, KeeperRest
  <2>8. Keeper!WaitFindsChild
    BY <2>1, <2>4, <2>5 DEF Keeper!WaitFindsChild
  <2>9. Keeper!CountExact
    BY <2>1, <2>2, <2>5 DEF Keeper!CountExact
  <2> QED BY <2>6, <2>7, <2>8, <2>9 DEF KeeperSafe, Keeper!Safe
<1> QED BY KeeperInvariance, <1>1, PTL

-----------------------------------------------------------------------------
(* tp_02_04: two threads that search *)

\* What each thread has passed is not its number; who said that there is none has
\* passed all; a thread is cancelled by one that has found its number; and main
\* goes on when the thread it joins has ended.
Passed ==
  /\ \A i \in 0 .. ARRAY_SIZE : i < at[1] => numeros[i] # 1
  /\ \A i \in 0 .. ARRAY_SIZE : i > at[2] => numeros[i] # 2
Speech(t) ==
  /\ thread[t] = "absent" \/ told[t] = "absent" => ~Searches!Looking(t)
  /\ thread[t] = "cancel" => told[t] = "found"
  /\ told[t] = "found" => thread[t] \in {"cancel", "ended"}
  /\ thread[t] = "ended" => told[t] \in {"found", "absent"} \/ cancelled[t]
  /\ cancelled[t] => told[3 - t] = "found"
Joined ==
  /\ main = "create1" => thread[1] = "none"
  /\ main \in {"create1", "create2"} => thread[2] = "none"
  /\ main \in {"join2", "done"} => thread[1] = "ended"
  /\ main = "done" => thread[2] = "ended"

SearchesInv == Searches!TypeOK /\ Passed /\ Speech(1) /\ Speech(2) /\ Joined

LEMMA InitSearches == Init => SearchesInv
<1> SUFFICES ASSUME Searches!Init PROVE SearchesInv
  BY DEF Init
<1> USE SearchesAssumption DEF Searches!Init, Searches!Thread
<1>1. /\ at[1] = 0 /\ at[2] = ARRAY_SIZE /\ thread[1] = "none" /\ thread[2] = "none"
      /\ told[1] = "nothing" /\ told[2] = "nothing"
  OBVIOUS
<1>2. ~cancelled[1] /\ ~cancelled[2]
  BY Zenon
<1>3. at \in [{1, 2} -> 0 .. ARRAY_SIZE]
  OBVIOUS
<1>4. Searches!TypeOK
  BY <1>3 DEF Searches!TypeOK
<1>5. Passed
  BY <1>1 DEF Passed
<1>6. Speech(1) /\ Speech(2)
  BY <1>1, <1>2 DEF Speech
<1>7. Joined
  BY <1>1 DEF Joined
<1> QED BY <1>4, <1>5, <1>6, <1>7 DEF SearchesInv

LEMMA NextSearches == SearchesInv /\ Searches!Next => SearchesInv'
<1> SUFFICES ASSUME SearchesInv, Searches!Next PROVE SearchesInv'
  OBVIOUS
<1>a. Searches!TypeOK /\ Passed /\ Speech(1) /\ Speech(2) /\ Joined
  BY DEF SearchesInv
<1>b. /\ numeros \in [0 .. ARRAY_SIZE -> {0, 1, 2}]
      /\ at \in [{1, 2} -> 0 .. ARRAY_SIZE]
      /\ thread \in [{1, 2} -> {"none", "start", "search", "found", "absent", "cancel", "ended"}]
      /\ cancelled \in [{1, 2} -> BOOLEAN]
      /\ told \in [{1, 2} -> {"nothing", "found", "absent"}]
      /\ main \in {"create1", "create2", "join1", "join2", "done", "crashed"}
      /\ ARRAY_SIZE \in Nat \ {0}
  BY <1>a, SearchesAssumption DEF Searches!TypeOK, Searches!Thread
<1> USE DEF Searches!Thread
<1>1. CASE Searches!Main
  <2> USE <1>1 DEF Searches!Main, Searches!Create1, Searches!Create2, Searches!Create,
                   Searches!Join1, Searches!Join2, Searches!Join
  <2>1. Searches!TypeOK'
    BY <1>b DEF Searches!TypeOK
  <2>2. Passed'
    BY <1>a DEF Passed
  <2>3. Speech(1)' /\ Speech(2)'
    BY <1>a, <1>b DEF Speech, Joined, Searches!Looking
  <2>4. Joined'
    BY <1>a, <1>b DEF Joined
  <2> QED BY <2>1, <2>2, <2>3, <2>4 DEF SearchesInv
<1>2. ASSUME NEW t \in {1, 2}, Searches!Works(t) PROVE SearchesInv'
  <2>0. /\ 3 - t \in {1, 2} /\ 3 - t # t /\ 3 - (3 - t) = t /\ {t, 3 - t} = {1, 2}
        /\ Speech(t) /\ Speech(3 - t)
    BY <1>a
  <2>1. CASE Searches!Starts(t)
    <3> USE <2>1 DEF Searches!Starts
    <3>1. Searches!TypeOK' /\ Passed' /\ Joined'
      BY <1>a, <1>b DEF Searches!TypeOK, Passed, Joined
    <3>2. Speech(1)' /\ Speech(2)'
      BY <1>a, <1>b DEF Speech, Searches!Looking
    <3> QED BY <3>1, <3>2 DEF SearchesInv
  <2>2. CASE Searches!Look(t)
    <3> USE <2>2 DEF Searches!Look, Searches!Looking, Searches!NextAt, Searches!Found
    <3>1. Searches!TypeOK'
      <4>1. at' \in [{1, 2} -> 0 .. ARRAY_SIZE]
        BY <1>b
      <4> QED BY <1>b, <4>1 DEF Searches!TypeOK
    <3>2. Passed'
      BY <1>a, <1>b DEF Passed, Searches!Desired
    <3>3. Speech(1)' /\ Speech(2)'
      BY <1>a, <1>b DEF Speech
    <3>4. Joined'
      BY <1>a, <1>b DEF Joined
    <3> QED BY <3>1, <3>2, <3>3, <3>4 DEF SearchesInv
  <2>3. CASE Searches!SayFound(t) \/ Searches!SayAbsent(t) \/ Searches!Silenced(t)
    <3> USE <2>3 DEF Searches!SayFound, Searches!SayAbsent, Searches!Silenced
    <3>1. Searches!TypeOK' /\ Passed' /\ Joined'
      BY <1>a, <1>b DEF Searches!TypeOK, Passed, Joined
    <3>2. Speech(1)' /\ Speech(2)'
      BY <1>a, <1>b DEF Speech, Searches!Looking
    <3> QED BY <3>1, <3>2 DEF SearchesInv
  <2>4. CASE Searches!CancelOther(t)
    <3> USE <2>4 DEF Searches!CancelOther, Searches!Other
    <3>0. cancelled' \in [{1, 2} -> BOOLEAN]
      <4>1. CASE cancelled' = [cancelled EXCEPT ![3 - t] = TRUE]
        BY Zenon, <1>b, <4>1
      <4>2. CASE cancelled' = cancelled
        BY Zenon, <1>b, <4>2
      <4> QED BY Zenon, <4>1, <4>2
    <3>1. Searches!TypeOK' /\ Passed' /\ Joined'
      <4>1. Searches!TypeOK'
        BY <1>b, <3>0 DEF Searches!TypeOK
      <4>2. Passed' /\ Joined'
        BY <1>a, <1>b DEF Passed, Joined
      <4> QED BY <4>1, <4>2
    <3>2. Speech(1)' /\ Speech(2)'
      BY <1>a, <1>b DEF Speech, Searches!Looking
    <3> QED BY <3>1, <3>2 DEF SearchesInv
  <2> QED BY Zenon, <1>2, <2>1, <2>2, <2>3, <2>4 DEF Searches!Works
<1> QED BY Zenon, <1>1, <1>2 DEF Searches!Next

LEMMA SearchesInvariance == Spec => []SearchesInv
<1>1. SearchesInv /\ [Next]_vars => SearchesInv'
  <2>1. SearchesInv /\ UNCHANGED searches => SearchesInv'
    BY
      DEF searches, SearchesInv, Searches!TypeOK, Passed, Speech, Joined, Searches!Looking
  <2> QED
    BY <2>1, NextSearches
    DEF Next, KeeperNext, ListNext, WordsNext, SearchesNext, ServersNext, FilterNext, vars
<1> QED BY InitSearches, <1>1, PTL DEF Spec

\* For an array of any size: a number said to be absent is not in the second to the
\* last element, and of two threads that have ended one has said what it found, or
\* both what they did not find.
THEOREM Searched == Spec => []SearchesSafe
<1>1. SearchesInv => SearchesSafe
  <2> SUFFICES ASSUME SearchesInv PROVE SearchesSafe
    OBVIOUS
  <2>a. Searches!TypeOK /\ Passed /\ Speech(1) /\ Speech(2) /\ Joined
    BY DEF SearchesInv
  <2>b. /\ ARRAY_SIZE \in Nat \ {0} /\ at \in [{1, 2} -> 0 .. ARRAY_SIZE]
        /\ told \in [{1, 2} -> {"nothing", "found", "absent"}]
    BY <2>a, SearchesAssumption DEF Searches!TypeOK, Searches!Thread
  <2>1. Searches!AbsentIsAbsent
    BY <2>a, <2>b
    DEF Searches!AbsentIsAbsent, Passed, Speech, Searches!Looking, Searches!Thread,
        Searches!Desired
  <2>2. Searches!OneSpeaks
    BY <2>a, <2>b DEF Searches!OneSpeaks, Speech, Joined, Searches!Thread
  <2> QED BY <2>a, <2>1, <2>2 DEF SearchesSafe, Searches!Safe
<1> QED BY SearchesInvariance, <1>1, PTL

-----------------------------------------------------------------------------
(* tp_04_01 and tp_04_02: servers of connections *)

\* a connection that has been accepted, or none
Accepted(c) ==
  c \in Client =>
    client[c] # "out" /\ \A i \in 1 .. Len(backlog) : backlog[i] # c

\* Each connection waits once, and those accepted wait no more; the server's own is
\* no child's until it has forked; and a server that does not fork closes what it
\* has accepted.
Waiting ==
  /\ \A i, j \in 1 .. Len(backlog) : i # j => backlog[i] # backlog[j]
  /\ \A i \in 1 .. Len(backlog) : client[backlog[i]] # "out"
HeldOnce ==
  /\ \A i, j \in 1 .. ProcMax : i # j /\ child[i].fd = child[j].fd => child[i].fd = Nobody
  /\ forks /\ server \in {"fork", "send", "sleep"} =>
       \A i \in 1 .. ProcMax : child[i].fd = conn => conn = Nobody
Closes ==
  ~forks => \/ server = "accept" /\ fds = 0
            \/ server \in {"send", "sleep"} /\ fds = 1

ServersInv ==
  /\ Servers!TypeOK /\ forks \in BOOLEAN
  /\ Waiting /\ HeldOnce /\ Closes
  /\ Accepted(conn) /\ \A i \in 1 .. ProcMax : Accepted(child[i].fd)

\* RemoveFirst takes an element that is c from the backlog, if there is one.
LEMMA BacklogWithout ==
  ASSUME NEW s \in Seq(Client), NEW c
  PROVE  \/ \E k \in 1 .. Len(s) : /\ s[k] = c
                                   /\ Servers!RemoveFirst(s, c) \in Seq(Client)
                                   /\ WithoutAt(s, k, Servers!RemoveFirst(s, c))
         \/ Servers!RemoveFirst(s, c) = s /\ \A k \in 1 .. Len(s) : s[k] # c
<1>1. CASE \A k \in 1 .. Len(s) : s[k] # c
  BY <1>1 DEF Servers!RemoveFirst
<1>2. CASE \E k \in 1 .. Len(s) : s[k] = c
  <2> DEFINE T == {k \in 1 .. Len(s) : s[k] = c}
             k == CHOOSE x \in T : \A y \in T : x <= y
  <2>1. T \in SUBSET Nat /\ T # {}
    BY <1>2
  <2>2. k \in 1 .. Len(s) /\ s[k] = c
    <3>1. k \in T
      <4> HIDE DEF T
      <4> QED BY <2>1, LeastChosen
    <3> QED BY <3>1
  <2>3. Servers!RemoveFirst(s, c) = SubSeq(s, 1, k - 1) \o SubSeq(s, k + 1, Len(s))
    BY <1>2, <2>1
    DEF Servers!RemoveFirst, Servers!RemoveAt, Servers!SelectInSeq, Servers!Min
  <2> HIDE DEF k
  <2> QED BY <2>2, <2>3, TwoParts
<1> QED BY <1>1, <1>2

LEMMA InitServers == Init => ServersInv
<1> SUFFICES ASSUME Servers!Init PROVE ServersInv
  BY DEF Init
<1> USE ServersAssumption DEF Servers!Init, Servers!Forked
<1>1. Servers!TypeOK
  <2>1. /\ client \in [Client -> {"out", "reads", "told", "nothing"}]
        /\ child \in [1 .. ProcMax -> [state : {"none", "send", "sleep", "zombie"},
                                       fd : Client \cup {Nobody}]]
    OBVIOUS
  <2>2. backlog \in Seq(Client) /\ Len(backlog) = 0
    BY EmptySeq
  <2> QED BY <2>1, <2>2 DEF Servers!TypeOK
<1>2. forks \in BOOLEAN /\ conn = Nobody /\ fds = 0 /\ server = "accept"
  BY Zenon
<1>3. Len(backlog) = 0 /\ \A i \in 1 .. ProcMax : child[i].fd = Nobody
  BY EmptySeq
<1>4. Waiting /\ HeldOnce /\ Closes
  BY <1>2, <1>3 DEF Waiting, HeldOnce, Closes
<1>5. Accepted(conn) /\ \A i \in 1 .. ProcMax : Accepted(child[i].fd)
  BY <1>2, <1>3 DEF Accepted
<1> QED BY <1>1, <1>2, <1>4, <1>5 DEF ServersInv

LEMMA NextServers == ServersInv /\ Servers!Next => ServersInv'
<1> SUFFICES ASSUME ServersInv, Servers!Next PROVE ServersInv'
  OBVIOUS
<1>a. /\ Waiting /\ HeldOnce /\ Closes
      /\ Accepted(conn) /\ \A i \in 1 .. ProcMax : Accepted(child[i].fd)
  BY DEF ServersInv
<1>b. /\ client \in [Client -> {"out", "reads", "told", "nothing"}]
      /\ backlog \in Seq(Client) /\ Len(backlog) <= Backlog
      /\ server \in {"accept", "fork", "send", "sleep", "ended"}
      /\ conn \in Client \cup {Nobody} /\ fds \in 0 .. FdMax
      /\ child \in [1 .. ProcMax -> [state : {"none", "send", "sleep", "zombie"},
                                     fd : Client \cup {Nobody}]]
      /\ forks \in BOOLEAN
      /\ FdMax \in Nat \ {0} /\ Backlog \in Nat /\ ProcMax \in Nat /\ Nobody \notin Client
  BY Zenon, ServersAssumption DEF ServersInv, Servers!TypeOK, Servers!Forked
<1>c. Len(backlog) \in Nat /\ \A i \in 1 .. Len(backlog) : backlog[i] \in Client
  BY <1>b, LenProperties
<1> USE DEF Servers!Forked
<1>1. ASSUME NEW c \in Client, Servers!Connect(c) PROVE ServersInv'
  <2> USE <1>1 DEF Servers!Connect, Servers!serverVars
  <2>1. /\ backlog' \in Seq(Client) /\ Len(backlog') = Len(backlog) + 1
        /\ \A i \in 1 .. Len(backlog) : backlog'[i] = backlog[i]
        /\ backlog'[Len(backlog) + 1] = c
    BY <1>b, AppendProperties
  <2>2. /\ client' \in [Client -> {"out", "reads", "told", "nothing"}]
        /\ client[c] = "out" /\ client'[c] # "out"
        /\ \A d \in Client : d # c => client'[d] = client[d]
    BY <1>b
  <2>3. Servers!TypeOK' /\ forks' \in BOOLEAN
    BY <1>b, <1>c, <2>1, <2>2 DEF Servers!TypeOK
  <2>4. Waiting'
    BY <1>a, <1>c, <2>1, <2>2 DEF Waiting
  <2>5. HeldOnce' /\ Closes'
    BY <1>a DEF HeldOnce, Closes
  <2>6. ASSUME NEW d, Accepted(d) PROVE Accepted(d)'
    BY <1>c, <2>1, <2>2, <2>6 DEF Accepted
  <2>7. Accepted(conn)' /\ \A i \in 1 .. ProcMax : Accepted(child[i].fd)'
    BY <1>a, <2>6 DEF Accepted
  <2> QED BY <2>3, <2>4, <2>5, <2>7 DEF ServersInv
<1>2. ASSUME NEW c \in Client, Servers!Fails(c) PROVE ServersInv'
  <2> USE <1>2 DEF Servers!Fails, Servers!serverVars
  <2> DEFINE Shorter(s) ==
        /\ s \in Seq(Client) /\ Len(s) <= Len(backlog) /\ Len(s) \in Nat
        /\ \A i \in 1 .. Len(s) : \E j \in 1 .. Len(backlog) : s[i] = backlog[j]
        /\ \A i, j \in 1 .. Len(s) : i # j => s[i] # s[j]
  <2>1. Shorter(backlog')
    <3>1. CASE backlog' = backlog
      <4>1. Shorter(backlog)
        BY <1>a, <1>b, <1>c DEF Waiting
      <4> HIDE DEF Shorter
      <4> QED BY <3>1, <4>1
    <3>2. ASSUME NEW k \in 1 .. Len(backlog), backlog' \in Seq(Client),
                 WithoutAt(backlog, k, backlog')
          PROVE  Shorter(backlog')
      <4>1. /\ Len(backlog') = Len(backlog) - 1
            /\ \A i \in 1 .. Len(backlog) - 1 :
                 backlog'[i] = backlog[IF i < k THEN i ELSE i + 1]
        BY <1>c, <3>2 DEF WithoutAt
      <4>2. ASSUME NEW i \in 1 .. Len(backlog'), NEW j \in 1 .. Len(backlog'), i # j
            PROVE  backlog'[i] # backlog'[j]
        BY <1>a, <1>c, <4>1, <4>2 DEF Waiting
      <4>3. ASSUME NEW i \in 1 .. Len(backlog')
            PROVE  \E j \in 1 .. Len(backlog) : backlog'[i] = backlog[j]
        BY <1>c, <4>1
      <4> QED BY <1>c, <3>2, <4>1, <4>2, <4>3
    <3> HIDE DEF Shorter
    <3> QED BY <1>b, <3>1, <3>2, BacklogWithout
  <2>2. /\ client' \in [Client -> {"out", "reads", "told", "nothing"}]
        /\ \A d \in Client : client[d] # "out" => client'[d] # "out"
    BY <1>b
  <2>3. Servers!TypeOK' /\ forks' \in BOOLEAN
    BY <1>b, <1>c, <2>1, <2>2 DEF Servers!TypeOK
  <2>4. Waiting'
    BY <1>a, <1>c, <2>1, <2>2 DEF Waiting
  <2>5. HeldOnce' /\ Closes'
    BY <1>a DEF HeldOnce, Closes
  <2>6. ASSUME NEW d, Accepted(d) PROVE Accepted(d)'
    BY <1>c, <2>1, <2>2, <2>6 DEF Accepted
  <2>7. Accepted(conn)' /\ \A i \in 1 .. ProcMax : Accepted(child[i].fd)'
    BY <1>a, <2>6 DEF Accepted
  <2> QED BY <2>3, <2>4, <2>5, <2>7 DEF ServersInv
<1>3. CASE Servers!Accept
  <2> USE <1>3 DEF Servers!Accept, Servers!HasFd, Servers!AfterAccept
  <2>1. /\ Len(backlog) # 0 /\ conn' = backlog[1] /\ conn' \in Client
        /\ backlog' \in Seq(Client) /\ Len(backlog') = Len(backlog) - 1
        /\ \A i \in 1 .. Len(backlog) - 1 : backlog'[i] = backlog[i + 1]
    BY <1>b, HeadTailProperties, EmptySeq
  <2>2. server' \in {"fork", "send"} /\ (server' = "send" => ~forks) /\ forks' = forks
    BY <1>b
  <2>3. Servers!TypeOK' /\ forks' \in BOOLEAN
    BY <1>b, <1>c, <2>1, <2>2 DEF Servers!TypeOK
  <2>4. Waiting' /\ Accepted(conn)'
    BY <1>a, <1>c, <2>1 DEF Waiting, Accepted
  <2>5. \A i \in 1 .. ProcMax : child[i].fd # conn'
    BY <1>a, <1>c, <2>1 DEF Accepted
  <2>6. HeldOnce'
    BY <1>a, <2>5 DEF HeldOnce
  <2>7. Closes'
    BY <1>a, <1>b DEF Closes
  <2>8. ASSUME NEW d, Accepted(d) PROVE Accepted(d)'
    BY <1>c, <2>1, <2>8 DEF Accepted
  <2>9. \A i \in 1 .. ProcMax : Accepted(child[i].fd)'
    BY <1>a, <2>8 DEF Accepted
  <2> QED BY <2>3, <2>4, <2>6, <2>7, <2>9 DEF ServersInv
<1>4. CASE Servers!AcceptFails
  <2> USE <1>4
    DEF Servers!AcceptFails, Servers!HasFd, Servers!AfterAccept, Servers!NoConn,
                   Servers!clientVars
  <2>1. forks
    BY <1>a, <1>b DEF Closes
  <2>2. Servers!TypeOK' /\ forks' \in BOOLEAN
    BY <1>b, <2>1 DEF Servers!TypeOK
  <2>3. Waiting' /\ HeldOnce' /\ Closes'
    BY <1>a, <2>1 DEF Waiting, HeldOnce, Closes
  <2>4. Accepted(conn)' /\ \A i \in 1 .. ProcMax : Accepted(child[i].fd)'
    BY <1>a, <1>b DEF Accepted
  <2> QED BY <2>2, <2>3, <2>4 DEF ServersInv
<1>5. CASE Servers!Fork
  <2> USE <1>5 DEF Servers!Fork, Servers!clientVars
  <2>1. PICK i \in 1 .. ProcMax :
          child' = [child EXCEPT ![i] = [state |-> "send", fd |-> conn]]
    OBVIOUS
  <2>2. /\ child'[i].fd = conn
        /\ \A j \in 1 .. ProcMax : j # i => child'[j].fd = child[j].fd
        /\ child' \in [1 .. ProcMax -> [state : {"none", "send", "sleep", "zombie"},
                                        fd : Client \cup {Nobody}]]
    BY <1>b, <2>1
  <2>3. forks
    BY <1>a DEF Closes
  <2>4. Servers!TypeOK' /\ forks' \in BOOLEAN
    BY <1>b, <2>2 DEF Servers!TypeOK
  <2>5. Waiting' /\ HeldOnce' /\ Closes'
    BY <1>a, <2>2, <2>3 DEF Waiting, HeldOnce, Closes
  <2>6. Accepted(conn)' /\ \A j \in 1 .. ProcMax : Accepted(child[j].fd)'
    BY <1>a, <2>2 DEF Accepted
  <2> QED BY <2>4, <2>5, <2>6 DEF ServersInv
<1>6. CASE Servers!ForkFails \/ Servers!CloseAndGoOn \/ Servers!CloseAndExit
  <2> USE <1>6 DEF Servers!ForkFails, Servers!CloseAndGoOn, Servers!CloseAndExit,
                   Servers!ForkFailed, Servers!Close, Servers!clientVars
  <2>1. Servers!TypeOK' /\ forks' \in BOOLEAN
    BY <1>a, <1>b DEF Servers!TypeOK, Closes
  <2>2. Waiting' /\ HeldOnce' /\ Closes'
    BY <1>a, <1>b DEF Waiting, HeldOnce, Closes
  <2>3. Accepted(conn)' /\ \A j \in 1 .. ProcMax : Accepted(child[j].fd)'
    BY <1>a DEF Accepted
  <2> QED BY <2>1, <2>2, <2>3 DEF ServersInv
<1>7. ASSUME Servers!Send \/ \E i \in 1 .. ProcMax : Servers!ChildFunc(i)
      PROVE  ServersInv'
  <2>0. /\ forks' = forks /\ backlog' = backlog /\ conn' = conn /\ fds' = fds
        /\ server' = server \/ (server = "send" /\ server' = "sleep")
        /\ client' = client \/ \E c : client' = [client EXCEPT ![c] = "told"]
    BY <1>7 DEF Servers!Send, Servers!ChildFunc, Servers!ChildSends, Servers!ChildExits,
                Servers!Told, Servers!clientVars, Servers!serverVars
  <2>1. /\ client' \in [Client -> {"out", "reads", "told", "nothing"}]
        /\ \A d \in Client : client[d] # "out" => client'[d] # "out"
    BY <1>b, <2>0
  <2> DEFINE SameFds(p) ==
        /\ \A j \in 1 .. ProcMax : p[j].fd = child[j].fd
        /\ p \in [1 .. ProcMax -> [state : {"none", "send", "sleep", "zombie"},
                                   fd : Client \cup {Nobody}]]
  <2>2. SameFds(child')
    <3>1. CASE Servers!Send
      BY <1>b, <3>1 DEF Servers!Send
    <3>2. ASSUME NEW i \in 1 .. ProcMax, NEW s \in {"sleep", "zombie"},
                 child' = [child EXCEPT ![i].state = s]
          PROVE  SameFds(child')
      BY <1>b, <3>2
    <3> HIDE DEF SameFds
    <3> QED
      BY <1>7, <3>1, <3>2 DEF Servers!ChildFunc, Servers!ChildSends, Servers!ChildExits
  <2>3. Servers!TypeOK' /\ forks' \in BOOLEAN
    BY <1>b, <2>0, <2>1, <2>2 DEF Servers!TypeOK
  <2>4. Waiting' /\ HeldOnce' /\ Closes'
    BY <1>a, <1>c, <2>0, <2>1, <2>2 DEF Waiting, HeldOnce, Closes
  <2>5. Accepted(conn)' /\ \A j \in 1 .. ProcMax : Accepted(child[j].fd)'
    BY <1>a, <2>0, <2>1, <2>2 DEF Accepted
  <2> QED BY <2>3, <2>4, <2>5 DEF ServersInv
<1> QED BY Zenon, <1>1, <1>2, <1>3, <1>4, <1>5, <1>6, <1>7
  DEF Servers!Next, Servers!Server

LEMMA ServersInvariance == Spec => []ServersInv
<1>1. ServersInv /\ [Next]_vars => ServersInv'
  <2>1. ServersInv /\ UNCHANGED servers => ServersInv'
    BY DEF servers, ServersInv, Servers!TypeOK, Waiting, HeldOnce, Closes, Accepted
  <2> QED
    BY <2>1, NextServers
    DEF Next, KeeperNext, ListNext, WordsNext, SearchesNext, ServersNext, FilterNext, vars
<1> QED BY InitServers, <1>1, PTL DEF Spec

\* For any number of clients, descriptors and processes: no connection is served by
\* two processes, and descriptors and children stay within their limits.
THEOREM ServedOnce == Spec => []ServersSafe
<1>1. ServersInv => ServersSafe
  BY
    DEF ServersInv, ServersSafe, Servers!Safe, Servers!OneServesEach, HeldOnce,
        Servers!Forked
<1> QED BY ServersInvariance, <1>1, PTL

-----------------------------------------------------------------------------
(* tp_02_02: a list of children *)

Elements(s) == {s[i] : i \in 1 .. Len(s)}
Increasing(s) == \A i, j \in 1 .. Len(s) : i < j => s[i] < s[j]

\* Who was dismissed runs; the first element is there when main asks for a pid; and
\* while main kills, those run that it dismissed or has still to kill.
ListInv ==
  /\ List!TypeOK
  /\ dismissed \subseteq running
  /\ listParent = "askPid" => ~headFreed
  /\ ~headFreed /\ listParent \notin {"undefined", "lost"} =>
       Elements(childList) = running \ dismissed /\ Increasing(childList)
  /\ listParent = "killing" =>
       /\ running = dismissed \cup Elements(arEl) /\ Increasing(arEl)
       /\ Elements(arEl) \cap dismissed = {}
  /\ listParent = "exited" => running = dismissed

\* A sequence of increasing numbers without its k-th element, and without the first.
LEMMA IncreasingWithout ==
  ASSUME NEW n \in Nat, NEW s \in Seq(1 .. n), Increasing(s), NEW k \in 1 .. Len(s),
         NEW u, WithoutAt(s, k, u)
  PROVE  Increasing(u) /\ Elements(u) = Elements(s) \ {s[k]}
<1>0. Len(s) \in Nat /\ \A i \in 1 .. Len(s) : s[i] \in 1 .. n
  BY LenProperties
<1>1. /\ Len(u) = Len(s) - 1
      /\ \A i \in 1 .. Len(s) - 1 : i < k => u[i] = s[i] /\ i \in 1 .. Len(s)
      /\ \A i \in 1 .. Len(s) - 1 : ~(i < k) => u[i] = s[i + 1] /\ i + 1 \in 1 .. Len(s)
  BY <1>0 DEF WithoutAt
<1>2. ASSUME NEW i \in 1 .. Len(u), NEW j \in 1 .. Len(u), i < j PROVE u[i] < u[j]
  <2>1. CASE j < k
    BY <1>0, <1>1, <1>2, <2>1 DEF Increasing
  <2>2. CASE i < k /\ ~(j < k)
    <3>1. /\ u[i] = s[i] /\ u[j] = s[j + 1] /\ i < j + 1
          /\ i \in 1 .. Len(s) /\ j + 1 \in 1 .. Len(s)
      BY <1>0, <1>1, <2>2
    <3> QED BY <3>1 DEF Increasing
  <2>3. CASE ~(i < k)
    <3>1. /\ u[i] = s[i + 1] /\ u[j] = s[j + 1] /\ i + 1 < j + 1
          /\ i + 1 \in 1 .. Len(s) /\ j + 1 \in 1 .. Len(s)
      BY <1>0, <1>1, <1>2, <2>3
    <3> QED BY <3>1 DEF Increasing
  <2> QED BY <2>1, <2>2, <2>3
<1>3. \A i \in 1 .. Len(s) : i # k => s[i] # s[k]
  BY <1>0 DEF Increasing
<1>4. ASSUME NEW i \in 1 .. Len(u) PROVE u[i] \in Elements(s) \ {s[k]}
  <2>0. \A j \in 1 .. Len(s) : j # k => s[j] \in Elements(s) \ {s[k]}
    BY <1>3 DEF Elements
  <2>1. CASE i < k
    <3>1. u[i] = s[i] /\ i \in 1 .. Len(s) /\ i # k
      BY <1>0, <1>1, <2>1
    <3> QED BY <2>0, <3>1
  <2>2. CASE ~(i < k)
    <3>1. u[i] = s[i + 1] /\ i + 1 \in 1 .. Len(s) /\ i + 1 # k
      BY <1>0, <1>1, <2>2
    <3> QED BY <2>0, <3>1
  <2> QED BY <2>1, <2>2
<1>5. ASSUME NEW i \in 1 .. Len(s), i # k PROVE s[i] \in Elements(u)
  <2>1. CASE i < k
    <3>1. i \in 1 .. Len(u) /\ u[i] = s[i]
      BY <1>0, <1>1, <2>1
    <3> QED BY <3>1 DEF Elements
  <2>2. CASE i > k
    <3>1. i - 1 \in 1 .. Len(u) /\ u[i - 1] = s[i]
      BY <1>0, <1>1, <2>2
    <3> QED BY <3>1 DEF Elements
  <2> QED BY <1>5, <2>1, <2>2
<1>6. Elements(u) = Elements(s) \ {s[k]}
  BY <1>4, <1>5 DEF Elements
<1> QED BY <1>2, <1>6 DEF Increasing

LEMMA IncreasingTail ==
  ASSUME NEW n \in Nat, NEW s \in Seq(1 .. n), Increasing(s), s # << >>
  PROVE  /\ Tail(s) \in Seq(1 .. n) /\ Head(s) \in 1 .. n /\ Increasing(Tail(s))
         /\ Head(s) \in Elements(s) /\ Elements(Tail(s)) = Elements(s) \ {Head(s)}
<1>1. Len(s) \in Nat \ {0} /\ Head(s) = s[1]
  BY EmptySeq
<1>2. WithoutAt(s, 1, Tail(s))
  BY <1>1, HeadTailProperties DEF WithoutAt
<1>3. Tail(s) \in Seq(1 .. n) /\ Head(s) \in 1 .. n
  BY HeadTailProperties
<1>4. Increasing(Tail(s)) /\ Elements(Tail(s)) = Elements(s) \ {s[1]}
  BY <1>1, <1>2, IncreasingWithout
<1>5. s[1] \in Elements(s)
  BY <1>1 DEF Elements
<1> QED BY <1>1, <1>3, <1>4, <1>5

\* RemoveFirst takes the entry of a child out of the list, if there is one.
LEMMA ListRemoved ==
  ASSUME NEW s \in Seq(List!Pid), NEW c
  PROVE  \/ \E k \in 1 .. Len(s) : /\ s[k] = c
                                   /\ List!RemoveFirst(s, c) \in Seq(List!Pid)
                                   /\ WithoutAt(s, k, List!RemoveFirst(s, c))
         \/ List!RemoveFirst(s, c) = s /\ \A k \in 1 .. Len(s) : s[k] # c
<1>1. CASE \A k \in 1 .. Len(s) : s[k] # c
  BY <1>1 DEF List!RemoveFirst
<1>2. CASE \E k \in 1 .. Len(s) : s[k] = c
  <2> DEFINE T == {k \in 1 .. Len(s) : s[k] = c}
             k == CHOOSE x \in T : \A y \in T : x <= y
  <2>1. T \in SUBSET Nat /\ T # {}
    BY <1>2
  <2>2. k \in 1 .. Len(s) /\ s[k] = c
    <3>1. k \in T
      <4> HIDE DEF T
      <4> QED BY <2>1, LeastChosen
    <3> QED BY <3>1
  <2>3. List!RemoveFirst(s, c) = SubSeq(s, 1, k - 1) \o SubSeq(s, k + 1, Len(s))
    BY <1>2, <2>1 DEF List!RemoveFirst, List!RemoveAt, List!SelectInSeq, List!Min
  <2> HIDE DEF k
  <2> QED BY <2>2, <2>3, TwoParts
<1> QED BY <1>1, <1>2

LEMMA InitList == Init => ListInv
<1> SUFFICES ASSUME List!Init PROVE ListInv
  BY DEF Init
<1>1. createChildsFlag \in BOOLEAN /\ destroyChildsFlag \in BOOLEAN /\ headFreed \in BOOLEAN
  BY Zenon DEF List!Init
<1>2. childList \in Seq(List!Pid) /\ arEl \in Seq(List!Pid) /\ Len(childList) = 0
  BY EmptySeq DEF List!Init
<1> QED
  BY <1>1, <1>2, ListAssumption
  DEF List!Init, ListInv, List!TypeOK, Elements, Increasing

LEMMA NextList == ListInv /\ List!Next => ListInv'
<1> SUFFICES ASSUME ListInv, List!Next PROVE ListInv'
  OBVIOUS
<1>a. /\ createChildsFlag \in BOOLEAN /\ destroyChildsFlag \in BOOLEAN
      /\ headFreed \in BOOLEAN
  BY Zenon DEF ListInv, List!TypeOK
<1>b. /\ listParent \in {"isCreate", "isDestroy", "askNumber", "create", "askPid",
                         "clearDestroy", "killing", "exited", "crashed", "undefined", "lost"}
      /\ todo \in 0 .. MaxPid - born /\ born \in 0 .. MaxPid
      /\ childList \in Seq(1 .. MaxPid) /\ arEl \in Seq(1 .. MaxPid)
      /\ running \subseteq 1 .. born /\ dismissed \subseteq 1 .. born
      /\ MaxPid \in Nat
  BY ListAssumption DEF ListInv, List!TypeOK, List!Pid
<1>c. Len(childList) \in Nat /\ Len(arEl) \in Nat
  BY <1>b, LenProperties
<1> DEFINE
    Settings == /\ createChildsFlag' \in BOOLEAN /\ destroyChildsFlag' \in BOOLEAN
                /\ headFreed' \in BOOLEAN
    Types == /\ todo' \in 0 .. MaxPid - born' /\ born' \in 0 .. MaxPid
             /\ childList' \in Seq(1 .. MaxPid) /\ arEl' \in Seq(1 .. MaxPid)
             /\ running' \subseteq 1 .. born' /\ dismissed' \subseteq 1 .. born'
             /\ listParent' \in {"isCreate", "isDestroy", "askNumber", "create", "askPid",
                  "clearDestroy", "killing", "exited", "crashed", "undefined", "lost"}
<1>d. ASSUME Settings, Types,
             dismissed' \subseteq running',
             listParent' = "askPid" => ~headFreed',
             ~headFreed' /\ listParent' \notin {"undefined", "lost"} =>
               Elements(childList)' = running' \ dismissed' /\ Increasing(childList)',
             listParent' = "killing" =>
               /\ running' = dismissed' \cup Elements(arEl)' /\ Increasing(arEl)'
               /\ Elements(arEl)' \cap dismissed' = {},
             listParent' = "exited" => running' = dismissed'
      PROVE  ListInv'
  BY <1>d DEF ListInv, List!TypeOK, List!Pid
\* main or a handler does nothing to the list and the children
<1>e. ASSUME Settings, UNCHANGED <<childList, headFreed, running, born, dismissed, arEl>>,
             todo' \in 0 .. MaxPid - born,
             \/ listParent' = listParent
             \/ /\ listParent # "lost" /\ listParent # "undefined"
                /\ listParent' \in {"isCreate", "isDestroy", "askNumber", "create", "clearDestroy",
                                    "crashed"}
             \/ listParent' \in {"undefined", "lost"}
             \/ listParent' = "askPid" /\ ~headFreed /\ listParent = "isDestroy"
             \/ listParent' = "exited" /\ listParent = "killing" /\ arEl = << >>
      PROVE  ListInv'
  <2>1. Types
    BY <1>b, <1>e
  <2>2. Elements(<< >>) = {}
    BY DEF Elements
  <2>3. dismissed' \subseteq running' /\ (listParent' = "askPid" => ~headFreed')
    BY <1>e DEF ListInv
  <2>4. ~headFreed' /\ listParent' \notin {"undefined", "lost"} =>
          Elements(childList)' = running' \ dismissed' /\ Increasing(childList)'
    BY <1>e DEF ListInv, Elements, Increasing
  <2>5. listParent' = "killing" =>
          /\ running' = dismissed' \cup Elements(arEl)' /\ Increasing(arEl)'
          /\ Elements(arEl)' \cap dismissed' = {}
    BY <1>e DEF ListInv, Elements, Increasing
  <2>6. listParent' = "exited" => running' = dismissed'
    BY <1>e, <2>2 DEF ListInv
  <2> HIDE DEF Settings, Types
  <2> QED BY <1>d, <1>e, <2>1, <2>3, <2>4, <2>5, <2>6
\* kill and DeleteChildEntry for one pid
<1>f. ASSUME NEW pid, listParent = "askPid", List!Dismiss(pid), Settings,
             UNCHANGED <<todo, arEl, running, born>>
      PROVE  ListInv'
  <2>0. /\ ~headFreed /\ Elements(childList) = running \ dismissed /\ Increasing(childList)
        /\ dismissed \subseteq running
    BY <1>f DEF ListInv
  <2>1. CASE childList = << >>
    <3>1. listParent' = "crashed" /\ UNCHANGED <<childList, headFreed, dismissed>>
      BY <1>f, <2>1 DEF List!Dismiss
    <3> HIDE DEF Settings, Types
    <3> QED BY <1>b, <1>e, <1>f, <3>1
  <2>2. CASE childList # << >>
    <3>1. /\ childList' = List!RemoveFirst(childList, pid)
          /\ dismissed' = dismissed \cup (List!ToSet(childList) \cap {pid})
          /\ listParent' = "clearDestroy"
      BY <1>f, <2>2 DEF List!Dismiss, List!DeleteChildEntry, List!ListWithout
    <3>2. List!ToSet(childList) = Elements(childList)
      BY <1>b, LenProperties DEF List!ToSet, Elements
    <3>3. /\ childList' \in Seq(1 .. MaxPid) /\ Increasing(childList')
          /\ Elements(childList') = Elements(childList) \ {pid}
      <4>1. CASE childList' = childList /\ \A k \in 1 .. Len(childList) : childList[k] # pid
        <5>1. pid \notin Elements(childList)
          BY <4>1 DEF Elements
        <5> QED BY <1>b, <2>0, <4>1, <5>1
      <4>2. ASSUME NEW k \in 1 .. Len(childList), childList[k] = pid,
                   childList' \in Seq(1 .. MaxPid), WithoutAt(childList, k, childList')
            PROVE  <3>3
        BY <1>b, <2>0, <4>2, IncreasingWithout
      <4> QED BY <1>b, <3>1, <4>1, <4>2, ListRemoved DEF List!Pid
    <3>4. dismissed' \subseteq running /\ running \ dismissed' = Elements(childList')
      BY <2>0, <3>1, <3>2, <3>3
    <3>5. Types
      BY <1>b, <1>f, <3>1, <3>3, <3>4
    <3>6. /\ Elements(childList)' = Elements(childList')
          /\ Increasing(childList)' = Increasing(childList')
      BY DEF Elements, Increasing
    <3> HIDE DEF Settings, Types
    <3> QED BY <1>d, <1>f, <3>1, <3>3, <3>4, <3>5, <3>6
  <2> QED BY <2>1, <2>2
\* the walk over the list begins
<1>g. ASSUME listParent = "askPid", arEl' = childList, listParent' = "killing", Settings,
             UNCHANGED <<todo, childList, headFreed, running, born, dismissed>>
      PROVE  ListInv'
  <2>0. /\ ~headFreed /\ Elements(childList) = running \ dismissed /\ Increasing(childList)
        /\ dismissed \subseteq running
    BY <1>g DEF ListInv
  <2>1. Types
    BY <1>b, <1>g
  <2>2. /\ Elements(childList)' = Elements(childList)
        /\ Increasing(childList)' = Increasing(childList)
        /\ Elements(arEl)' = Elements(childList) /\ Increasing(arEl)' = Increasing(childList)
    BY <1>g DEF Elements, Increasing
  <2> HIDE DEF Settings, Types
  <2> QED BY <1>d, <1>g, <2>0, <2>1, <2>2
<1> USE DEF List!flags, List!listVars, List!childVars
<1>1. CASE List!Usr1 \/ List!Usr2
  <2>1. Settings
    BY Zenon, <1>1, <1>a DEF List!Usr1, List!Usr2
  <2> HIDE DEF Settings
  <2> QED BY <1>b, <1>1, <1>e, <2>1 DEF List!Usr1, List!Usr2
<1>2. CASE List!NumberInterrupted
  <2>1. Settings
    BY Zenon, <1>2, <1>a DEF List!NumberInterrupted, List!HandlerFlags
  <2> HIDE DEF Settings
  <2> QED BY <1>b, <1>2, <1>e, <2>1 DEF List!NumberInterrupted
<1>3. CASE List!PidInterrupted
  <2>1. CASE \E pid : List!Dismiss(pid) /\ UNCHANGED arEl
    <3>1. PICK pid : List!Dismiss(pid) /\ UNCHANGED arEl
      BY <2>1
    <3>2. Settings
      <4>1. createChildsFlag' \in BOOLEAN /\ destroyChildsFlag' \in BOOLEAN
        BY Zenon, <1>3, <1>a DEF List!PidInterrupted, List!HandlerFlags
      <4>2. headFreed' \in BOOLEAN
        BY Zenon, <1>a, <3>1 DEF List!Dismiss, List!DeleteChildEntry
      <4> QED BY <4>1, <4>2
    <3> HIDE DEF Settings
    <3> QED BY <1>3, <1>f, <3>1, <3>2 DEF List!PidInterrupted
  <2>2. CASE /\ arEl' = childList /\ listParent' = "killing"
             /\ UNCHANGED <<childList, headFreed, dismissed>>
    <3>1. Settings
      BY Zenon, <1>3, <1>a, <2>2 DEF List!PidInterrupted, List!HandlerFlags
    <3> HIDE DEF Settings
    <3> QED BY <1>3, <1>g, <2>2, <3>1 DEF List!PidInterrupted
  <2> QED BY <1>3, <2>1, <2>2 DEF List!PidInterrupted
<1>4. CASE List!ForkFails
  <2>1. Settings
    BY Zenon, <1>4, <1>a DEF List!ForkFails
  <2> HIDE DEF Settings
  <2> QED BY <1>b, <1>4, <1>e, <2>1 DEF List!ForkFails
<1>5. CASE List!IsCreate \/ List!IsDestroy \/ List!ClearCreate \/ List!ClearDestroy
  <2>1. Settings
    BY Zenon, <1>5, <1>a
      DEF List!IsCreate, List!IsDestroy, List!ClearCreate, List!ClearDestroy
  <2>2. /\ UNCHANGED <<childList, headFreed, running, born, dismissed, arEl, todo>>
        /\ listParent \in {"isCreate", "isDestroy", "create", "clearDestroy"}
        /\ \/ listParent' \in {"askNumber", "isDestroy", "isCreate", "undefined"}
           \/ listParent' = "askPid" /\ ~headFreed /\ listParent = "isDestroy"
    BY <1>5 DEF List!IsCreate, List!IsDestroy, List!ClearCreate, List!ClearDestroy
  <2> HIDE DEF Settings
  <2> QED BY <1>b, <1>e, <2>1, <2>2
<1>6. CASE List!AskNumber
  <2>1. Settings
    BY Zenon, <1>6, <1>a DEF List!AskNumber
  <2> HIDE DEF Settings
  <2> QED BY <1>b, <1>6, <1>e, <2>1 DEF List!AskNumber
<1>7. CASE List!Create
  <2>0. /\ todo > 0 /\ born' = born + 1 /\ running' = running \cup {born + 1}
        /\ todo' = todo - 1 /\ UNCHANGED <<headFreed, arEl, dismissed>>
        /\ listParent = "create"
        /\ \/ headFreed /\ listParent' = "undefined" /\ childList' = childList
           \/ ~headFreed /\ listParent' = "create" /\ childList' = Append(childList, born + 1)
    BY <1>7 DEF List!Create, List!ListWith
  <2>1. Settings
    BY Zenon, <1>7, <1>a DEF List!Create
  <2>2. born + 1 \in 1 .. MaxPid
    BY <1>b, <2>0
  <2>3. CASE headFreed
    <3>1. Types
      BY <1>b, <2>0, <2>2, <2>3
    <3>2. dismissed' \subseteq running'
      BY <2>0 DEF ListInv
    <3> HIDE DEF Settings, Types
    <3> QED BY <1>d, <2>0, <2>1, <2>3, <3>1, <3>2
  <2>4. CASE ~headFreed
    <3>0. /\ Elements(childList) = running \ dismissed /\ Increasing(childList)
          /\ dismissed \subseteq running
      BY <2>0, <2>4 DEF ListInv
    <3>1. /\ childList' \in Seq(1 .. MaxPid) /\ Len(childList') = Len(childList) + 1
          /\ \A i \in 1 .. Len(childList) : childList'[i] = childList[i]
          /\ childList'[Len(childList) + 1] = born + 1
      <4>1. childList' = Append(childList, born + 1)
        BY <2>0, <2>4
      <4> QED BY <1>b, <2>2, <4>1, AppendProperties
    <3>2. Types
      BY <1>b, <2>0, <2>2, <2>4, <3>1
    <3>3. Elements(childList)' = Elements(childList) \cup {born + 1}
      <4>1. 1 .. Len(childList') = 1 .. Len(childList) \cup {Len(childList) + 1}
        BY <1>c, <3>1
      <4> QED BY <3>1, <4>1 DEF Elements
    <3>4. \A i \in 1 .. Len(childList) : childList[i] < born + 1 /\ childList[i] \in Int
      <4>1. \A i \in 1 .. Len(childList) : childList[i] \in 1 .. born
        BY <1>b, <3>0 DEF Elements
      <4> QED BY <1>b, <4>1
    <3>5. Increasing(childList)'
      <4>1. ASSUME NEW i \in 1 .. Len(childList'), NEW j \in 1 .. Len(childList'), i < j
            PROVE  childList'[i] < childList'[j]
        <5>1. CASE j = Len(childList) + 1
          <6>1. i \in 1 .. Len(childList)
            BY <1>c, <3>1, <4>1, <5>1
          <6> QED BY <3>1, <3>4, <5>1, <6>1
        <5>2. CASE j # Len(childList) + 1
          BY <1>c, <3>0, <3>1, <4>1, <5>2 DEF Increasing
        <5> QED BY <5>1, <5>2
      <4> QED BY <4>1 DEF Increasing
    <3>6. dismissed' \subseteq running' /\ Elements(childList)' = running' \ dismissed'
      <4>1. born + 1 \notin dismissed
        BY <1>b
      <4> QED BY <2>0, <3>0, <3>3, <4>1
    <3> HIDE DEF Settings, Types
    <3> QED BY <1>d, <2>0, <2>1, <2>4, <3>2, <3>5, <3>6
  <2> QED BY <2>3, <2>4
<1>8. CASE List!DestroyOne
  <2>1. PICK pid : List!Dismiss(pid)
    BY <1>8 DEF List!DestroyOne
  <2>2. Settings
    <3>1. createChildsFlag' \in BOOLEAN /\ destroyChildsFlag' \in BOOLEAN
      BY Zenon, <1>8, <1>a DEF List!DestroyOne
    <3>2. headFreed' \in BOOLEAN
      BY Zenon, <1>a, <2>1 DEF List!Dismiss, List!DeleteChildEntry
    <3> QED BY <3>1, <3>2
  <2> HIDE DEF Settings
  <2> QED BY <1>8, <1>f, <2>1, <2>2 DEF List!DestroyOne
<1>9. CASE List!DestroyAll
  <2>1. Settings
    BY Zenon, <1>9, <1>a DEF List!DestroyAll
  <2> HIDE DEF Settings
  <2> QED BY <1>9, <1>g, <2>1 DEF List!DestroyAll
<1>10. CASE List!KillNext
  <2>0. /\ arEl # << >> /\ running' = running \ {Head(arEl)} /\ arEl' = Tail(arEl)
        /\ listParent = "killing" /\ listParent' \in {"killing", "crashed"}
        /\ UNCHANGED <<todo, childList, born, dismissed>>
    BY <1>10 DEF List!KillNext, List!NextEl
  <2>1. Settings /\ headFreed'
    BY Zenon, <1>10, <1>a DEF List!KillNext
  <2>2. /\ running = dismissed \cup Elements(arEl) /\ Increasing(arEl)
        /\ Elements(arEl) \cap dismissed = {}
    BY <2>0 DEF ListInv
  <2>3. /\ arEl' \in Seq(1 .. MaxPid) /\ Increasing(arEl')
        /\ Head(arEl) \in Elements(arEl) /\ Elements(arEl') = Elements(arEl) \ {Head(arEl)}
    BY <1>b, <2>0, <2>2, IncreasingTail
  <2>4. Types
    BY <1>b, <2>0, <2>3
  <2>5. /\ running' = dismissed' \cup Elements(arEl') /\ dismissed' \subseteq running'
        /\ Elements(arEl') \cap dismissed' = {}
    BY <2>0, <2>2, <2>3
  <2>6. Elements(arEl)' = Elements(arEl') /\ Increasing(arEl)' = Increasing(arEl')
    BY DEF Elements, Increasing
  <2> HIDE DEF Settings, Types
  <2> QED BY <1>d, <2>0, <2>1, <2>3, <2>4, <2>5, <2>6
<1>11. CASE List!KilledAll
  <2>1. Settings
    BY Zenon, <1>11, <1>a DEF List!KilledAll
  <2> HIDE DEF Settings
  <2> QED BY <1>b, <1>11, <1>e, <2>1 DEF List!KilledAll
<1> QED
  BY Zenon, <1>1, <1>2, <1>3, <1>4, <1>5, <1>6, <1>7, <1>8, <1>9, <1>10, <1>11
  DEF List!Next, List!Main

LEMMA ListInvariance == Spec => []ListInv
<1>1. ListInv /\ [Next]_vars => ListInv'
  <2>1. ListInv /\ UNCHANGED list => ListInv'
    BY DEF list, ListInv, List!TypeOK, Elements, Increasing
  <2> QED
    BY <2>1, NextList
    DEF Next, KeeperNext, ListNext, WordsNext, SearchesNext, ServersNext, FilterNext, vars
<1> QED BY InitList, <1>1, PTL DEF Spec

\* For any number of children: the list is the children created and not destroyed,
\* in order, until its first element is freed, and at exit only those survive that
\* were sent the SIGINT they ignore.
THEOREM Listed == Spec => []ListSafe
<1>1. ListInv => ListSafe
  <2> SUFFICES ASSUME ListInv PROVE ListSafe
    OBVIOUS
  <2>1. childList \in Seq(List!Pid) /\ List!TypeOK
    BY DEF ListInv, List!TypeOK
  <2>2. DOMAIN childList = 1 .. Len(childList)
    BY <2>1, LenProperties
  <2>3. List!ToSet(childList) = Elements(childList)
    BY <2>2 DEF List!ToSet, Elements
  <2>4. List!ListExact
    BY <2>2, <2>3 DEF ListInv, List!ListExact, Increasing
  <2>5. List!OnlyDismissedSurvive
    BY DEF ListInv, List!OnlyDismissedSurvive
  <2> QED BY <2>1, <2>4, <2>5 DEF ListSafe, List!Safe
<1> QED BY ListInvariance, <1>1, PTL

-----------------------------------------------------------------------------
(* tp_02_03: words through a pipe *)

Typed == Word \cup {<<Unset>>, END}
Byte == Letter \cup {Zero}

WordsState ==
  /\ task1 \in {"main", "scan", "write", "done", "killed", "none"}
  /\ task2 \in {"none", "read", "done"} /\ behind \in BOOLEAN
  /\ cad1 \in Typed
  /\ cad2 \in Seq(Byte) /\ Len(cad2) = Block
  /\ pipe \in Seq(Byte)
  /\ written \in Seq(Typed) /\ shown \in Seq(Seq(Byte))

\* a read takes a byte or more
WordsBound ==
  /\ Len(written) <= MaxWords /\ (task1 = "write" => Len(written) < MaxWords)
  /\ Len(shown) + Len(pipe) <= Block * Len(written)

\* While Task2 does not lag the pipe holds the one word that it has not shown, if it
\* is one, and its cad the last that it has; Task2 ends after END, and Task1 has
\* written nothing after it.
InStep ==
  /\ task1 # "killed"
  /\ Len(shown) <= Len(written) /\ \A i \in 1 .. Len(shown) : shown[i] = written[i]
  /\ Len(shown) = Len(written) => pipe = << >>
  /\ Len(shown) + 1 = Len(written) => pipe = Words!Bytes(written[Len(written)])
  /\ Len(shown) # 0 => Words!Text(cad2) = shown[Len(shown)]
  /\ task2 = "done" => task1 \in {"done", "none"}

WordsInv ==
  /\ WordsState /\ WordsBound
  /\ \A i \in 1 .. Len(written) : written[i] = END => task1 = "done"
  /\ ~behind => InStep

\* A word and its zero.
LEMMA WordBytes ==
  ASSUME NEW w \in Typed
  PROVE  /\ w \in Seq(Letter) /\ Len(w) \in Nat /\ Len(w) < Block
         /\ Words!Bytes(w) \in Seq(Byte) /\ Len(Words!Bytes(w)) = Len(w) + 1
         /\ \A i \in 1 .. Len(w) : Words!Bytes(w)[i] = w[i] /\ w[i] # Zero
         /\ Words!Bytes(w)[Len(w) + 1] = Zero
<1>1. <<Unset>> \in Seq(Letter) /\ Len(<<Unset>>) = 1 /\ 1 < Block
  BY WordsAssumption
<1>2. w \in Seq(Letter) /\ Len(w) < Block
  BY <1>1, WordsAssumption DEF Typed
<1>3. /\ Len(w) \in Nat /\ \A i \in 1 .. Len(w) : w[i] \in Letter
      /\ w \in Seq(Byte)
  BY <1>2, LenProperties, SeqMonotonic DEF Byte
<1>4. <<Zero>> \in Seq(Byte) /\ Len(<<Zero>>) = 1 /\ <<Zero>>[1] = Zero
  BY DEF Byte
<1>5. /\ w \o <<Zero>> \in Seq(Byte) /\ Len(w \o <<Zero>>) = Len(w) + 1
      /\ \A i \in 1 .. Len(w) + 1 :
           (w \o <<Zero>>)[i] = IF i <= Len(w) THEN w[i] ELSE <<Zero>>[i - Len(w)]
  BY <1>3, <1>4, ConcatProperties
<1>6. \A i \in 1 .. Len(w) : (w \o <<Zero>>)[i] = w[i] /\ w[i] # Zero
  BY <1>3, <1>5, WordsAssumption
<1>7. (w \o <<Zero>>)[Len(w) + 1] = Zero
  BY <1>3, <1>4, <1>5
<1> QED BY <1>2, <1>3, <1>5, <1>6, <1>7 DEF Words!Bytes

\* What is shown of cad is bytes.
LEMMA TextIsBytes ==
  ASSUME NEW b \in Seq(Byte)
  PROVE  Words!Text(b) \in Seq(Byte)
<1> DEFINE T == {i \in 1 .. Len(b) : b[i] = Zero}
           m == IF T # {} THEN CHOOSE x \in T : \A y \in T : x <= y ELSE 0
<1>1. T \in SUBSET Nat /\ T \subseteq 1 .. Len(b)
  OBVIOUS
<1>2. m \in 0 .. Len(b)
  <2>1. CASE T = {}
    BY <2>1, LenProperties
  <2>2. CASE T # {}
    <3>1. (CHOOSE x \in T : \A y \in T : x <= y) \in T
      <4> HIDE DEF T
      <4> QED BY <1>1, <2>2, LeastChosen
    <3> QED BY <2>2, <3>1, LenProperties
  <2> QED BY <2>1, <2>2
<1>3. Words!Text(b) = SubSeq(b, 1, m - 1)
  BY DEF Words!Text, Words!SelectInSeq, Words!Min
<1> HIDE DEF m
<1>4. \A i \in 1 .. m - 1 : b[i] \in Byte
  BY <1>2, LenProperties
<1> QED BY <1>2, <1>3, <1>4, SubSeqProperties

\* A word is shown of the cad that begins with it and its zero.
LEMMA TextOfWord ==
  ASSUME NEW w \in Typed, NEW b \in Seq(Byte), Len(b) = Block,
         \A i \in 1 .. Len(w) + 1 : b[i] = Words!Bytes(w)[i]
  PROVE  Words!Text(b) = w
<1> DEFINE T == {i \in 1 .. Len(b) : b[i] = Zero}
           m == CHOOSE x \in T : \A y \in T : x <= y
<1>0. /\ w \in Seq(Letter) /\ Len(w) \in Nat /\ Len(w) < Block /\ Block \in Nat
      /\ \A i \in 1 .. Len(w) : b[i] = w[i] /\ w[i] # Zero
      /\ b[Len(w) + 1] = Zero
  BY WordBytes, WordsAssumption
<1>1. Len(w) + 1 \in T /\ \A y \in T : Len(w) + 1 <= y
  BY <1>0
<1>2. T \subseteq Nat
  OBVIOUS
<1>3. m = Len(w) + 1
  <2> HIDE DEF T
  <2>1. m \in T /\ \A y \in T : m <= y
    BY <1>1
  <2> HIDE DEF m
  <2> QED BY <1>0, <1>1, <1>2, <2>1
<1>4. Words!Text(b) = SubSeq(b, 1, m - 1)
  <2>1. T # {}
    <3> HIDE DEF T
    <3> QED BY <1>1
  <2> QED BY <2>1 DEF Words!Text, Words!SelectInSeq, Words!Min
<1>5. Words!Text(b) = SubSeq(b, 1, Len(w))
  <2> HIDE DEF m
  <2>1. m - 1 = Len(w)
    BY <1>0, <1>3
  <2> QED BY <1>4, <2>1
<1>6. \A i \in 1 .. Len(w) : b[i] \in Letter /\ b[i] = w[i]
  BY <1>0, LenProperties
<1>7. /\ SubSeq(b, 1, Len(w)) \in Seq(Letter)
      /\ Len(SubSeq(b, 1, Len(w))) = Len(w)
      /\ \A i \in 1 .. Len(w) : SubSeq(b, 1, Len(w))[i] = w[i]
  <2>1. /\ SubSeq(b, 1, Len(w)) \in Seq(Letter)
        /\ Len(SubSeq(b, 1, Len(w))) = IF 1 <= Len(w) THEN Len(w) - 1 + 1 ELSE 0
        /\ \A i \in 1 .. Len(w) - 1 + 1 : SubSeq(b, 1, Len(w))[i] = b[1 + i - 1]
    BY <1>0, <1>6, SubSeqProperties
  <2> QED BY <1>0, <1>6, <2>1
<1>8. SubSeq(b, 1, Len(w)) = w
  BY <1>0, <1>7, SeqEqual
<1> QED BY <1>5, <1>8

\* What a read takes, what it leaves, and cad after it.
LEMMA ReadTakes ==
  ASSUME WordsState, pipe # << >>
  PROVE  /\ Words!Taken \in Seq(Byte) /\ Len(Words!Taken) \in 1 .. Block
         /\ Words!Rest \in Seq(Byte)
         /\ Len(Words!Rest) = Len(pipe) - Len(Words!Taken)
         /\ Len(pipe) <= Block => Words!Taken = pipe /\ Words!Rest = << >>
         /\ Words!Over(Words!Taken) \in Seq(Byte) /\ Len(Words!Over(Words!Taken)) = Block
         /\ \A i \in 1 .. Len(Words!Taken) : Words!Over(Words!Taken)[i] = Words!Taken[i]
<1> DEFINE t == Words!Taken
<1>0. /\ pipe \in Seq(Byte) /\ Len(pipe) \in Nat \ {0} /\ Block \in Nat \ {0}
      /\ \A i \in 1 .. Len(pipe) : pipe[i] \in Byte
      /\ cad2 \in Seq(Byte) /\ Len(cad2) = Block /\ \A i \in 1 .. Block : cad2[i] \in Byte
  BY LenProperties, EmptySeq, WordsAssumption DEF WordsState
<1>1. /\ t \in Seq(Byte) /\ Len(t) \in 1 .. Block /\ Len(t) <= Len(pipe)
      /\ Len(pipe) <= Block => t = pipe
  <2>1. CASE Len(pipe) < Block
    BY <1>0, <2>1 DEF Words!Taken
  <2>2. CASE ~(Len(pipe) < Block)
    <3>1. t = SubSeq(pipe, 1, Block)
      BY <2>2 DEF Words!Taken
    <3>2. t \in Seq(Byte) /\ Len(t) = Block
      BY <1>0, <2>2, <3>1, SubSeqProperties
    <3>3. Len(pipe) = Block => t = pipe
      BY <1>0, <3>1, SubSeqFull
    <3> QED BY <1>0, <2>2, <3>2, <3>3
  <2> QED BY <2>1, <2>2
<1> HIDE DEF t
<1>2. /\ Words!Rest \in Seq(Byte) /\ Len(Words!Rest) = Len(pipe) - Len(t)
      /\ Len(pipe) = Len(t) => Words!Rest = << >>
  <2>1. Words!Rest = SubSeq(pipe, Len(t) + 1, Len(pipe))
    BY DEF t, Words!Rest
  <2>2. \A i \in Len(t) + 1 .. Len(pipe) : pipe[i] \in Byte
    BY <1>0, <1>1
  <2>3. /\ Words!Rest \in Seq(Byte)
        /\ Len(Words!Rest) = IF Len(t) + 1 <= Len(pipe) THEN Len(pipe) - (Len(t) + 1) + 1 ELSE 0
    BY <1>0, <1>1, <2>1, <2>2, SubSeqProperties
  <2>4. Len(pipe) = Len(t) => Words!Rest = << >>
    BY <1>0, <1>1, <2>1, SubSeqEmpty
  <2> QED BY <1>0, <1>1, <2>3, <2>4
<1>3. /\ Words!Over(t) \in Seq(Byte) /\ Len(Words!Over(t)) = Block
      /\ \A i \in 1 .. Len(t) : Words!Over(t)[i] = t[i]
  <2> DEFINE r == SubSeq(cad2, Len(t) + 1, Block)
  <2>1. r \in Seq(Byte) /\ Len(r) = Block - Len(t)
    <3>1. \A i \in Len(t) + 1 .. Block : cad2[i] \in Byte
      BY <1>0, <1>1
    <3>2. /\ r \in Seq(Byte)
          /\ Len(r) = IF Len(t) + 1 <= Block THEN Block - (Len(t) + 1) + 1 ELSE 0
      BY <1>0, <1>1, <3>1, SubSeqProperties
    <3> QED BY <1>0, <1>1, <3>2
  <2>2. Words!Over(t) = t \o r
    BY <1>0 DEF Words!Over
  <2> HIDE DEF r
  <2>3. /\ t \o r \in Seq(Byte) /\ Len(t \o r) = Len(t) + Len(r)
        /\ \A i \in 1 .. Len(t) + Len(r) : (t \o r)[i] = IF i <= Len(t) THEN t[i] ELSE r[i - Len(t)]
    BY <1>1, <2>1, ConcatProperties
  <2>4. \A i \in 1 .. Len(t) : (t \o r)[i] = t[i]
    BY <1>0, <1>1, <2>1, <2>3
  <2> QED BY <1>0, <1>1, <2>1, <2>2, <2>3, <2>4
<1>4. Len(pipe) <= Block => Words!Rest = << >>
  BY <1>1, <1>2
<1> QED BY <1>1, <1>2, <1>3, <1>4 DEF t

LEMMA InitWords == Init => WordsInv
<1> SUFFICES ASSUME Words!Init PROVE WordsInv
  BY DEF Init
<1>0. Block \in Nat \ {0, 1} /\ MaxWords \in Nat /\ Unset \in Letter /\ END \in Seq(Letter)
  BY WordsAssumption
<1>1. ~behind /\ behind \in BOOLEAN
  BY Zenon DEF Words!Init
<1>2. \A w \in Typed : Words!Left(w) \in Seq(Byte) /\ Len(Words!Left(w)) = Block
  <2> SUFFICES ASSUME NEW w \in Typed
               PROVE  Words!Left(w) \in Seq(Byte) /\ Len(Words!Left(w)) = Block
    OBVIOUS
  <2>1. \A i \in 1 .. Block : (IF i <= Len(w) THEN w[i] ELSE Zero) \in Byte
    BY <1>0, WordBytes, LenProperties DEF Byte
  <2> QED BY <1>0, <2>1 DEF Words!Left
<1>3. cad2 \in Seq(Byte) /\ Len(cad2) = Block /\ cad1 \in Typed
  BY <1>2 DEF Words!Init, Typed
<1>4. /\ pipe \in Seq(Byte) /\ written \in Seq(Typed) /\ shown \in Seq(Seq(Byte))
      /\ Len(pipe) = 0 /\ Len(written) = 0 /\ Len(shown) = 0
  BY EmptySeq DEF Words!Init
<1>5. WordsState
  BY <1>1, <1>3, <1>4 DEF WordsState, Words!Init
<1>6. WordsBound
  BY <1>0, <1>4 DEF WordsBound, Words!Init
<1>7. InStep
  BY <1>4 DEF InStep, Words!Init
<1> QED BY <1>4, <1>5, <1>6, <1>7 DEF WordsInv

LEMMA NextWords == WordsInv /\ Words!Next => WordsInv'
<1> SUFFICES ASSUME WordsInv, Words!Next PROVE WordsInv'
  OBVIOUS
<1>a. /\ task1 \in {"main", "scan", "write", "done", "killed", "none"}
      /\ task2 \in {"none", "read", "done"} /\ behind \in BOOLEAN
      /\ cad1 \in Typed
      /\ cad2 \in Seq(Byte) /\ Len(cad2) = Block
      /\ pipe \in Seq(Byte)
      /\ written \in Seq(Typed) /\ shown \in Seq(Seq(Byte))
  BY Zenon DEF WordsInv, WordsState
<1>b. /\ WordsState /\ WordsBound
      /\ \A i \in 1 .. Len(written) : written[i] = END => task1 = "done"
      /\ ~behind => InStep
  BY DEF WordsInv
<1>c. /\ Len(written) \in Nat /\ Len(shown) \in Nat /\ Len(pipe) \in Nat
      /\ Block \in Nat \ {0, 1} /\ MaxWords \in Nat
  BY <1>a, LenProperties, WordsAssumption
<1> USE DEF Words!task1Vars, Words!task2Vars
<1>1. CASE Words!Fork \/ Words!ForkFails
  <2> USE <1>1 DEF Words!Fork, Words!ForkFails
  <2>1. WordsState'
    BY Zenon, <1>a DEF WordsState
  <2>2. WordsBound'
    BY <1>b DEF WordsBound
  <2>3. (\A i \in 1 .. Len(written) : written[i] = END => task1 = "done")'
    BY <1>b
  <2>4. (~behind => InStep)'
    BY <1>b DEF InStep
  <2> QED BY <2>1, <2>2, <2>3, <2>4 DEF WordsInv
<1>2. CASE Words!ScanWord \/ Words!ScanInterrupted
  <2> USE <1>2 DEF Words!ScanWord, Words!ScanInterrupted
  <2>1. WordsState'
    BY Zenon, <1>a DEF WordsState, Typed
  <2>2. WordsBound'
    BY <1>b DEF WordsBound
  <2>3. (\A i \in 1 .. Len(written) : written[i] = END => task1 = "done")'
    BY <1>b
  <2>4. (~behind => InStep)'
    BY <1>b DEF InStep
  <2> QED BY <2>1, <2>2, <2>3, <2>4 DEF WordsInv
<1>3. CASE Words!WriteWord /\ task2 = "done"
  <2> USE <1>3 DEF Words!WriteWord
  <2>0. behind /\ behind' /\ task1' = "killed"
    BY Zenon, <1>b DEF InStep
  <2>1. WordsState'
    BY Zenon, <1>a, <2>0 DEF WordsState
  <2>2. WordsBound'
    BY <1>b, <2>0 DEF WordsBound
  <2>3. (\A i \in 1 .. Len(written) : written[i] = END => task1 = "done")'
    BY <1>b
  <2> QED BY <2>0, <2>1, <2>2, <2>3 DEF WordsInv
<1>4. CASE Words!WriteWord /\ task2 # "done"
  <2>0. /\ task1 = "write" /\ pipe' = pipe \o Words!Bytes(cad1)
        /\ written' = Append(written, cad1)
        /\ task1' = IF cad1 = END THEN "done" ELSE "scan"
        /\ UNCHANGED <<cad1, task2, cad2, shown, behind>>
    BY <1>4 DEF Words!WriteWord, Words!AfterWrite
  <2>1. /\ written' \in Seq(Typed) /\ Len(written') = Len(written) + 1
        /\ \A i \in 1 .. Len(written) : written'[i] = written[i]
        /\ written'[Len(written) + 1] = cad1
    BY <1>a, <2>0, AppendProperties
  <2>2. /\ pipe' \in Seq(Byte) /\ Len(pipe') <= Len(pipe) + Block /\ Len(pipe') \in Nat
    <3>1. /\ Words!Bytes(cad1) \in Seq(Byte) /\ Len(Words!Bytes(cad1)) = Len(cad1) + 1
          /\ Len(cad1) \in Nat /\ Len(cad1) < Block
      BY <1>a, WordBytes
    <3>2. pipe' \in Seq(Byte) /\ Len(pipe') = Len(pipe) + Len(Words!Bytes(cad1))
      BY <1>a, <2>0, <3>1, ConcatProperties
    <3> QED BY <1>c, <3>1, <3>2
  <2>3. WordsState'
    BY <1>a, <2>0, <2>1, <2>2 DEF WordsState
  <2>4. WordsBound'
    <3>1. Block * (Len(written) + 1) = Block * Len(written) + Block
      BY <1>c
    <3>2. Block * Len(written) \in Int
      BY <1>c
    <3> HIDE <1>4
    <3> DEFINE l == Block * Len(written)
               l2 == Block * (Len(written) + 1)
    <3>3. l \in Int /\ l2 = l + Block /\ Len(shown) + Len(pipe) <= l
      BY <1>b, <3>1, <3>2 DEF WordsBound
    <3>4. Block * Len(written') = l2
      BY <2>1
    <3> HIDE DEF l, l2
    <3>5. Len(shown) + Len(pipe') <= l2
      BY <1>c, <2>2, <3>3
    <3>6. Len(written') <= MaxWords /\ task1' # "write"
      BY <1>b, <1>c, <2>0, <2>1 DEF WordsBound
    <3> QED BY <2>0, <3>4, <3>5, <3>6 DEF WordsBound
  <2>5. (\A i \in 1 .. Len(written) : written[i] = END => task1 = "done")'
    <3>1. \A i \in 1 .. Len(written) : written[i] # END
      BY <1>b, <2>0
    <3> QED BY <1>c, <2>0, <2>1, <3>1
  <2>6. ASSUME ~behind' PROVE InStep'
    <3>1. InStep
      BY <1>b, <2>0, <2>6
    <3>2. Len(shown) <= Len(written)
      BY <3>1 DEF InStep
    <3>3. Len(shown) = Len(written) => pipe' = Words!Bytes(cad1)
      BY <1>a, <2>0, <3>1, WordBytes, ConcatEmptySeq DEF InStep
    <3>4. task1' # "killed" /\ task2' # "done"
      BY <1>4, <2>0
    <3>5. Len(shown') <= Len(written') /\ \A i \in 1 .. Len(shown') : shown'[i] = written'[i]
      <4>1. \A i \in 1 .. Len(shown) : i \in 1 .. Len(written) /\ shown[i] = written[i]
        BY <1>c, <3>1, <3>2 DEF InStep
      <4> QED BY <1>c, <2>0, <2>1, <3>2, <4>1
    <3>6. /\ Len(shown') # Len(written')
          /\ Len(shown') + 1 = Len(written') => pipe' = Words!Bytes(written'[Len(written')])
      BY <1>c, <2>0, <2>1, <3>2, <3>3
    <3>7. Len(shown') # 0 => Words!Text(cad2') = shown'[Len(shown')]
      BY <2>0, <3>1 DEF InStep
    <3> QED BY <3>4, <3>5, <3>6, <3>7 DEF InStep
  <2> QED BY <2>3, <2>4, <2>5, <2>6 DEF WordsInv
<1>5. CASE Words!ReadBlock
  <2>0. /\ task2 = "read" /\ pipe # << >>
        /\ cad2' = Words!Over(Words!Taken) /\ pipe' = Words!Rest
        /\ shown' = Append(shown, Words!Text(cad2'))
        /\ task2' = IF Words!Text(cad2') = END THEN "done" ELSE "read"
        /\ UNCHANGED <<task1, cad1, written>>
    BY <1>5 DEF Words!ReadBlock, Words!Shows
  <2>1. /\ behind' \in BOOLEAN
        /\ ~behind' => ~behind /\ ~(Len(written) - Len(shown) > 1)
    BY Zenon, <1>5, <1>a DEF Words!ReadBlock
  <2>2. /\ Words!Taken \in Seq(Byte) /\ Len(Words!Taken) \in 1 .. Block
        /\ pipe' \in Seq(Byte) /\ Len(pipe') = Len(pipe) - Len(Words!Taken)
        /\ Len(pipe) <= Block => Words!Taken = pipe /\ pipe' = << >>
        /\ cad2' \in Seq(Byte) /\ Len(cad2') = Block
        /\ \A i \in 1 .. Len(Words!Taken) : cad2'[i] = Words!Taken[i]
    BY <1>b, <2>0, ReadTakes
  <2>3. /\ shown' \in Seq(Seq(Byte)) /\ Len(shown') = Len(shown) + 1
        /\ \A i \in 1 .. Len(shown) : shown'[i] = shown[i]
        /\ shown'[Len(shown) + 1] = Words!Text(cad2')
    <3>1. Words!Text(cad2') \in Seq(Byte)
      BY <2>2, TextIsBytes
    <3> QED BY <1>a, <2>0, <3>1, AppendProperties
  <2>4. WordsState'
    BY <1>a, <2>0, <2>1, <2>2, <2>3 DEF WordsState
  <2>5. WordsBound'
    BY <1>b, <1>c, <2>0, <2>2, <2>3 DEF WordsBound
  <2>6. (\A i \in 1 .. Len(written) : written[i] = END => task1 = "done")'
    BY <1>b, <2>0
  <2>7. ASSUME ~behind' PROVE InStep'
    <3> DEFINE w == written[Len(written)]
    <3>1. InStep /\ ~(Len(written) - Len(shown) > 1)
      BY <1>b, <2>1, <2>7
    <3>2. Len(shown) + 1 = Len(written) /\ pipe = Words!Bytes(w)
      BY <1>c, <2>0, <3>1 DEF InStep
    <3>3. w \in Typed /\ (w = END => task1 = "done")
      BY <1>a, <1>b, <1>c, <3>2, LenProperties
    <3> HIDE DEF w
    <3>4. Len(pipe) = Len(w) + 1 /\ Len(pipe) <= Block
      BY <1>c, <3>2, <3>3, WordBytes
    <3>5. Words!Taken = pipe /\ pipe' = << >>
      BY <2>2, <3>4
    <3>6. Words!Text(cad2') = w
      <4>1. \A i \in 1 .. Len(w) + 1 : cad2'[i] = Words!Bytes(w)[i]
        BY <2>2, <3>2, <3>4, <3>5
      <4> QED BY <2>2, <3>3, <4>1, TextOfWord
    <3>7. Len(shown') <= Len(written') /\ \A i \in 1 .. Len(shown') : shown'[i] = written'[i]
      <4>1. \A i \in 1 .. Len(shown) : shown[i] = written[i]
        BY <3>1 DEF InStep
      <4> QED BY <1>c, <2>0, <2>3, <3>2, <3>6, <4>1 DEF w
    <3>8. Len(shown') = Len(written') /\ shown'[Len(shown')] = Words!Text(cad2')
      BY <2>0, <2>3, <3>2
    <3>9. task1' # "killed" /\ (task2' = "done" => task1' = "done")
      BY <2>0, <3>1, <3>3, <3>6 DEF InStep
    <3>10. Len(shown') + 1 # Len(written')
      BY <1>c, <2>3, <3>8
    <3> QED BY <3>5, <3>7, <3>8, <3>9, <3>10 DEF InStep
  <2> QED BY <2>4, <2>5, <2>6, <2>7 DEF WordsInv
<1>6. CASE Words!ReadEnd \/ Words!ReadInterrupted
  <2>0. /\ task2 = "read" /\ task2' = IF Words!Text(cad2) = END THEN "done" ELSE "read"
        /\ UNCHANGED <<task1, cad1, pipe, cad2, shown, written>>
    BY <1>6 DEF Words!ReadEnd, Words!ReadInterrupted, Words!Shows
  <2>1. /\ behind' \in BOOLEAN
        /\ ~behind' => /\ ~behind
                       /\ task1 \in {"done", "killed", "none"} \/ shown # << >>
    BY Zenon, <1>6, <1>a DEF Words!ReadEnd, Words!ReadInterrupted
  <2>2. WordsState'
    BY <1>a, <2>0, <2>1 DEF WordsState
  <2>3. WordsBound'
    BY <1>b, <2>0 DEF WordsBound
  <2>4. (\A i \in 1 .. Len(written) : written[i] = END => task1 = "done")'
    BY <1>b, <2>0
  <2>5. ASSUME ~behind' PROVE InStep'
    <3>1. InStep
      BY <1>b, <2>1, <2>5
    <3>2. ASSUME task2' = "done", shown # << >> PROVE task1 = "done"
      <4>1. Words!Text(cad2) = END
        BY <2>0, <3>2
      <4>2. Len(shown) \in 1 .. Len(written) /\ Len(shown) # 0
        BY <1>a, <1>c, <3>1, <3>2, EmptySeq DEF InStep
      <4>3. Words!Text(cad2) = shown[Len(shown)] /\ shown[Len(shown)] = written[Len(shown)]
        BY <1>c, <3>1, <4>2 DEF InStep
      <4> QED BY <1>b, <4>1, <4>2, <4>3
    <3>3. task2' = "done" => task1 \in {"done", "none"}
      BY <2>1, <2>5, <3>1, <3>2 DEF InStep
    <3> QED BY <2>0, <3>1, <3>3 DEF InStep
  <2> QED BY <2>2, <2>3, <2>4, <2>5 DEF WordsInv
<1> QED BY Zenon, <1>1, <1>2, <1>3, <1>4, <1>5, <1>6 DEF Words!Next

LEMMA WordsInvariance == Spec => []WordsInv
<1>1. WordsInv /\ [Next]_vars => WordsInv'
  <2>1. WordsInv /\ UNCHANGED words => WordsInv'
    BY DEF words, WordsInv, WordsState, WordsBound, InStep
  <2> QED
    BY <2>1, NextWords
    DEF Next, KeeperNext, ListNext, WordsNext, SearchesNext, ServersNext, FilterNext, vars
<1> QED BY InitWords, <1>1, PTL DEF Spec

\* For any words that fit cad and any number of them: while Task2 does not lag it
\* shows the words in order and whole, and SIGPIPE does not end Task1.
THEOREM Shown == Spec => []WordsSafe
<1>1. WordsInv => WordsSafe
  <2> SUFFICES ASSUME WordsInv PROVE WordsSafe
    OBVIOUS
  <2>a. /\ WordsState /\ WordsBound /\ (~behind => InStep)
        /\ written \in Seq(Typed) /\ shown \in Seq(Seq(Byte)) /\ pipe \in Seq(Byte)
    BY DEF WordsInv, WordsState
  <2>b. /\ Len(written) \in Nat /\ Len(shown) \in Nat /\ Len(pipe) \in Nat
        /\ Block \in Nat \ {0, 1} /\ MaxWords \in Nat
        /\ DOMAIN written = 1 .. Len(written)
        /\ \A i \in 1 .. Len(written) : written[i] \in Typed
    BY <2>a, LenProperties, WordsAssumption
  <2>1. Words!TypeOK
    <3>1. Words!ToSet(written) \subseteq Typed
      BY <2>b DEF Words!ToSet
    <3>2. Block * Len(written) <= Block * MaxWords
      BY <2>a, <2>b, TimesMonotonic DEF WordsBound
    <3>3. Block * Len(written) \in Int /\ Block * MaxWords \in Int
      BY <2>b
    <3> DEFINE l == Block * Len(written)
               m == Block * MaxWords
    <3>4. l \in Int /\ m \in Int /\ l <= m /\ Len(shown) + Len(pipe) <= l
      BY <2>a, <3>2, <3>3 DEF WordsBound
    <3> HIDE DEF l, m
    <3>5. Len(shown) <= m /\ Len(pipe) <= m
      BY <2>b, <3>4
    <3> QED BY <2>a, <3>1, <3>5 DEF m, WordsState, Words!TypeOK, Typed
  <2>2. Words!ShownInOrder
    <3> SUFFICES ASSUME ~behind PROVE Words!IsPrefix(shown, written)
      BY DEF Words!ShownInOrder
    <3>1. Len(shown) <= Len(written) /\ \A i \in 1 .. Len(shown) : shown[i] = written[i]
      BY <2>a DEF InStep
    <3>2. SubSeq(shown, 1, Len(shown)) = SubSeq(written, 1, Len(shown))
      BY <2>b, <3>1
    <3> QED BY <3>1, <3>2 DEF Words!IsPrefix
  <2>3. Words!KilledOnlyBehind
    BY <2>a DEF InStep, Words!KilledOnlyBehind
  <2> QED BY <2>1, <2>2, <2>3 DEF WordsSafe, Words!Safe
<1> QED BY WordsInvariance, <1>1, PTL

-----------------------------------------------------------------------------
(* tp_04_03: the filter *)

\* taps, memory and frame keep their types, and a frame that has left the filter is
\* the one that entered it
FilterInv ==
  /\ input \in [1 .. 2 * SAMPLE_N -> DSP!Sample]
  /\ taps \in [1 .. FILTER_SIZE -> DSP!Sample]
  /\ beyond \in [1 .. FILTER_SIZE - 1 -> DSP!Sample]
  /\ output = << >> \/ output = input

\* A sample is not wrapped, and what is wrapped or saturated is a sample.
LEMMA Samples ==
  /\ 0 \in DSP!Sample
  /\ \A x \in DSP!Sample : x \in Int
  /\ \A x \in Int : DSP!Wrap(x) \in DSP!Sample
  /\ \A x \in DSP!Sample : DSP!Wrap(x) = x
  /\ \A x, y \in Int : DSP!SaturatingAdd(x, y) \in Int
<1>0. Half \in Nat \ {0}
  BY FilterAssumption
<1>1. ASSUME NEW x \in Int PROVE DSP!Wrap(x) \in DSP!Sample
  <2>1. (x + Half) % (2 * Half) \in 0 .. 2 * Half - 1
    BY <1>0, SMT
  <2> QED BY <1>0, <2>1 DEF DSP!Wrap, DSP!Sample
<1>2. ASSUME NEW x \in DSP!Sample PROVE DSP!Wrap(x) = x
  <2>1. x + Half \in 0 .. 2 * Half - 1
    BY <1>0 DEF DSP!Sample
  <2>2. (x + Half) % (2 * Half) = x + Half
    BY <1>0, <2>1, SMT
  <2> QED BY <1>0, <2>1, <2>2 DEF DSP!Wrap, DSP!Sample
<1>3. \A x, y \in Int : DSP!SaturatingAdd(x, y) \in Int
  BY <1>0 DEF DSP!SaturatingAdd
<1> QED BY <1>0, <1>1, <1>2, <1>3 DEF DSP!Sample

\* p are the products of the n taps h with the samples from j on.
AreProducts(p, h, in, j, n) ==
  /\ n \in Nat /\ Len(h) = n
  /\ p \in [1 .. n -> Int] /\ \A i \in 1 .. n : h[i] * in[i + j - 1] = p[i]

\* The sums after each tap.
LEMMA SumsAre ==
  ASSUME NEW h, NEW in, NEW j, NEW n, NEW p, AreProducts(p, h, in, j, n)
  PROVE  /\ DSP!Sums(in, h, j)[0] = 0
         /\ \A i \in 0 .. n : DSP!Sums(in, h, j)[i] \in Int
         /\ \A i \in 1 .. n : DSP!Sums(in, h, j)[i] = DSP!Sums(in, h, j)[i - 1] + p[i]
<1>0. /\ n \in Nat /\ Len(h) = n
      /\ p \in [1 .. n -> Int] /\ \A i \in 1 .. n : h[i] * in[i + j - 1] = p[i]
  BY DEF AreProducts
<1> DEFINE step == [q \in Int \X (1 .. n) |-> q[1] + p[q[2]]]
           s == DSP!Sums(in, h, j)
<1>2. /\ step \in [Int \X (1 .. n) -> Int]
      /\ \A x \in Int, i \in 1 .. n : step[<<x, i>>] = x + p[i]
  BY <1>0
<1> HIDE DEF step
<1>3. PICK f \in [0 .. n -> Int] :
        f[0] = 0 /\ \A i \in 1 .. n : f[i] = step[<<f[i - 1], i>>]
  BY <1>0, <1>2, Recursion
<1>4. ASSUME NEW i \in 1 .. n PROVE f[i] = f[i - 1] + p[i]
  <2>1. i - 1 \in 0 .. n
    BY <1>0
  <2>2. f[i - 1] \in Int
    BY <1>0, <2>1
  <2> QED BY <1>0, <1>2, <1>3, <2>2
<1>5. f = [i \in 0 .. n |-> IF i = 0 THEN 0 ELSE f[i - 1] + h[i] * in[i + j - 1]]
  BY <1>0, <1>3, <1>4
<1>6. s = [i \in 0 .. n |-> IF i = 0 THEN 0 ELSE s[i - 1] + h[i] * in[i + j - 1]]
  BY <1>0, <1>5 DEF DSP!Sums
<1> HIDE DEF s
<1>7. s[0] = 0 /\ \A i \in 1 .. n : s[i] = s[i - 1] + p[i]
  BY <1>0, <1>6
<1>8. \A i \in 0 .. n : s[i] = f[i]
  <2> DEFINE P == {i \in 0 .. n : s[i] = f[i]}
  <2>1. 0 \in P
    BY <1>0, <1>3, <1>7
  <2>2. \A i \in 1 .. n : i - 1 \in P => i \in P
    BY <1>0, <1>4, <1>7
  <2> HIDE DEF P
  <2>3. \A i \in 0 .. n : i \in P
    BY <1>0, <2>1, <2>2, Upward
  <2> QED BY <1>0, <2>3 DEF P
<1>9. \A i \in 0 .. n : s[i] \in Int
  BY <1>0, <1>8
<1> QED BY <1>0, <1>7, <1>9 DEF s

\* What the C version has accumulated after each tap.
LEMMA AccumulatedIs ==
  ASSUME NEW h, NEW in, NEW j, NEW n, NEW p, AreProducts(p, h, in, j, n)
  PROVE  /\ DSP!Accumulated(in, h, j)[0] = 0
         /\ \A i \in 1 .. n :
              DSP!Accumulated(in, h, j)[i] =
                DSP!SaturatingAdd(DSP!Accumulated(in, h, j)[i - 1], DSP!Wrap(p[i]))
<1>0. /\ n \in Nat /\ Len(h) = n
      /\ p \in [1 .. n -> Int] /\ \A i \in 1 .. n : h[i] * in[i + j - 1] = p[i]
  BY DEF AreProducts
<1> DEFINE w == [i \in 1 .. n |-> DSP!Wrap(p[i])]
           step == [q \in Int \X (1 .. n) |-> DSP!SaturatingAdd(q[1], w[q[2]])]
           s == DSP!Accumulated(in, h, j)
<1>1. w \in [1 .. n -> Int] /\ \A i \in 1 .. n : DSP!Wrap(p[i]) = w[i]
  <2>1. \A x \in Int : DSP!Wrap(x) \in Int
    BY <1>0, Samples
  <2> QED BY <1>0, <2>1
<1> HIDE DEF w
<1>2. /\ step \in [Int \X (1 .. n) -> Int]
      /\ \A x \in Int, i \in 1 .. n : step[<<x, i>>] = DSP!SaturatingAdd(x, w[i])
  BY <1>0, <1>1, Samples
<1> HIDE DEF step
<1>3. PICK f \in [0 .. n -> Int] :
        f[0] = 0 /\ \A i \in 1 .. n : f[i] = step[<<f[i - 1], i>>]
  BY <1>0, <1>2, Recursion
<1>4. ASSUME NEW i \in 1 .. n PROVE f[i] = DSP!SaturatingAdd(f[i - 1], w[i])
  <2>1. i - 1 \in 0 .. n
    BY <1>0
  <2>2. f[i - 1] \in Int
    BY <1>0, <2>1
  <2> QED BY <1>0, <1>2, <1>3, <2>2
<1>5. f = [i \in 0 .. n |-> IF i = 0 THEN 0
             ELSE DSP!SaturatingAdd(f[i - 1], DSP!Wrap(h[i] * in[i + j - 1]))]
  BY <1>0, <1>1, <1>3, <1>4
<1>6. s = [i \in 0 .. n |-> IF i = 0 THEN 0
             ELSE DSP!SaturatingAdd(s[i - 1], DSP!Wrap(h[i] * in[i + j - 1]))]
  BY <1>0, <1>5 DEF DSP!Accumulated
<1> HIDE DEF s
<1>7. \A i \in 1 .. n : DSP!Wrap(h[i] * in[i + j - 1]) = DSP!Wrap(p[i])
  BY <1>0
<1>8. s[0] = 0 /\ \A i \in 1 .. n : s[i] = DSP!SaturatingAdd(s[i - 1], DSP!Wrap(p[i]))
  BY <1>0, <1>6, <1>7
<1> QED BY <1>0, <1>8 DEF s

\* Where every product and every sum is a sample, the C version has the exact sums.
LEMMA ExactWhereItFits ==
  ASSUME NEW h, NEW in, NEW j, NEW n \in Nat, Len(h) = n,
         \A i \in 1 .. n : h[i] * in[i + j - 1] \in DSP!Sample,
         \A i \in 1 .. n : DSP!Sums(in, h, j)[i] \in DSP!Sample
  PROVE  \A i \in 0 .. n : DSP!Accumulated(in, h, j)[i] = DSP!Sums(in, h, j)[i]
<1> DEFINE s == DSP!Sums(in, h, j)
           a == DSP!Accumulated(in, h, j)
           p == [i \in 1 .. n |-> h[i] * in[i + j - 1]]
           P == {i \in 0 .. n : a[i] = s[i]}
<1>1. \A i \in 1 .. n : h[i] * in[i + j - 1] \in Int
  BY Samples
<1>2. /\ s[0] = 0 /\ a[0] = 0
      /\ \A i \in 0 .. n : s[i] \in Int
      /\ \A i \in 1 .. n : s[i] = s[i - 1] + p[i]
      /\ \A i \in 1 .. n : a[i] = DSP!SaturatingAdd(a[i - 1], DSP!Wrap(p[i]))
  <2>1. AreProducts(p, h, in, j, n)
    BY <1>1 DEF AreProducts
  <2> HIDE DEF p
  <2> QED BY <2>1, SumsAre, AccumulatedIs
<1>3. \A i \in 1 .. n : p[i] \in DSP!Sample /\ s[i] \in DSP!Sample
  OBVIOUS
<1> HIDE DEF s, a, p
<1>4. 0 \in P
  BY <1>2
<1>5. ASSUME NEW i \in 1 .. n, i - 1 \in P PROVE i \in P
  <2>0. i \in 0 .. n /\ a[i - 1] = s[i - 1]
    BY <1>5
  <2>1. a[i] = DSP!SaturatingAdd(s[i - 1], p[i])
    <3>1. DSP!Wrap(p[i]) = p[i]
      BY <1>3, Samples
    <3> QED BY <1>2, <2>0, <3>1
  <2>2. s[i - 1] + p[i] = s[i] /\ s[i] \in -Half .. Half - 1
    BY <1>2, <1>3 DEF DSP!Sample
  <2>3. DSP!SaturatingAdd(s[i - 1], p[i]) = s[i]
    BY <2>2, FilterAssumption DEF DSP!SaturatingAdd
  <2> QED BY <2>0, <2>1, <2>3
<1> HIDE DEF P
<1>6. \A i \in 0 .. n : i \in P
  BY <1>4, <1>5, Upward
<1> QED BY <1>6 DEF P, s, a

\* Where the products have one sign, the C version has the sums cut off at the limit
\* on that side: a sum that has reached it never comes back.
LEMMA CutOff ==
  ASSUME NEW h, NEW in, NEW j, NEW n \in Nat, Len(h) = n,
         \/ \A i \in 1 .. n : h[i] * in[i + j - 1] \in 0 .. Half - 1
         \/ \A i \in 1 .. n : h[i] * in[i + j - 1] \in -Half .. 0
  PROVE  \A i \in 0 .. n :
           DSP!Accumulated(in, h, j)[i] = DSP!Clamp(DSP!Sums(in, h, j)[i])
<1> DEFINE s == DSP!Sums(in, h, j)
           a == DSP!Accumulated(in, h, j)
           p == [i \in 1 .. n |-> h[i] * in[i + j - 1]]
<1>0. Half \in Nat \ {0}
  BY FilterAssumption
<1>1. \A i \in 1 .. n : h[i] * in[i + j - 1] \in DSP!Sample
  BY <1>0 DEF DSP!Sample
<1>2. \A i \in 1 .. n : h[i] * in[i + j - 1] \in Int
  BY <1>1, Samples
<1>3. /\ s[0] = 0 /\ a[0] = 0
      /\ \A i \in 0 .. n : s[i] \in Int
      /\ \A i \in 1 .. n : s[i] = s[i - 1] + p[i]
      /\ \A i \in 1 .. n : a[i] = DSP!SaturatingAdd(a[i - 1], DSP!Wrap(p[i]))
  <2>1. AreProducts(p, h, in, j, n)
    BY <1>2 DEF AreProducts
  <2> HIDE DEF p
  <2> QED BY <2>1, SumsAre, AccumulatedIs
<1>4. /\ \A i \in 1 .. n : p[i] \in DSP!Sample /\ p[i] \in Int
      /\ \/ \A i \in 1 .. n : p[i] \in 0 .. Half - 1
         \/ \A i \in 1 .. n : p[i] \in -Half .. 0
  BY <1>1, <1>2
<1> HIDE DEF s, a, p
<1>5. \A i \in 1 .. n : a[i] = DSP!SaturatingAdd(a[i - 1], p[i])
  BY <1>3, <1>4, Samples
<1>6. CASE \A i \in 1 .. n : p[i] \in 0 .. Half - 1
  <2> DEFINE P == {i \in 0 .. n : s[i] >= 0 /\ a[i] = DSP!Clamp(s[i])}
  <2>1. 0 \in P
    BY <1>0, <1>3 DEF DSP!Clamp
  <2>2. ASSUME NEW i \in 1 .. n, i - 1 \in P PROVE i \in P
    <3>1. /\ i \in 0 .. n /\ s[i - 1] \in Int /\ s[i - 1] >= 0 /\ p[i] \in 0 .. Half - 1
          /\ s[i] = s[i - 1] + p[i]
          /\ a[i] = DSP!SaturatingAdd(DSP!Clamp(s[i - 1]), p[i])
      BY <1>3, <1>5, <1>6, <2>2
    <3>2. s[i] >= 0
      BY <3>1
    <3>3. DSP!SaturatingAdd(DSP!Clamp(s[i - 1]), p[i]) = DSP!Clamp(s[i])
      <4>1. CASE s[i - 1] > Half - 1
        <5>1. DSP!Clamp(s[i - 1]) = Half - 1 /\ DSP!Clamp(s[i]) = Half - 1
          BY <1>0, <3>1, <4>1 DEF DSP!Clamp
        <5>2. DSP!SaturatingAdd(Half - 1, p[i]) = Half - 1
          BY <1>0, <3>1 DEF DSP!SaturatingAdd
        <5> QED BY <5>1, <5>2
      <4>2. CASE ~(s[i - 1] > Half - 1)
        <5>1. DSP!Clamp(s[i - 1]) = s[i - 1]
          BY <1>0, <3>1, <4>2 DEF DSP!Clamp
        <5>2. DSP!SaturatingAdd(s[i - 1], p[i]) = DSP!Clamp(s[i])
          BY <1>0, <3>1, <3>2 DEF DSP!SaturatingAdd, DSP!Clamp
        <5> QED BY <5>1, <5>2
      <4> QED BY <4>1, <4>2
    <3> QED BY <3>1, <3>2, <3>3
  <2> HIDE DEF P
  <2>3. \A i \in 0 .. n : i \in P
    BY <2>1, <2>2, Upward
  <2> QED BY <2>3 DEF P, s, a
<1>7. CASE \A i \in 1 .. n : p[i] \in -Half .. 0
  <2> DEFINE P == {i \in 0 .. n : s[i] <= 0 /\ a[i] = DSP!Clamp(s[i])}
  <2>1. 0 \in P
    BY <1>0, <1>3 DEF DSP!Clamp
  <2>2. ASSUME NEW i \in 1 .. n, i - 1 \in P PROVE i \in P
    <3>1. /\ i \in 0 .. n /\ s[i - 1] \in Int /\ s[i - 1] <= 0 /\ p[i] \in -Half .. 0
          /\ s[i] = s[i - 1] + p[i]
          /\ a[i] = DSP!SaturatingAdd(DSP!Clamp(s[i - 1]), p[i])
      BY <1>3, <1>5, <1>7, <2>2
    <3>2. s[i] <= 0 /\ DSP!SaturatingAdd(DSP!Clamp(s[i - 1]), p[i]) = DSP!Clamp(s[i])
      BY <1>0, <3>1 DEF DSP!Clamp, DSP!SaturatingAdd
    <3> QED BY <3>1, <3>2
  <2> HIDE DEF P
  <2>3. \A i \in 0 .. n : i \in P
    BY <2>1, <2>2, Upward
  <2> QED BY <2>3 DEF P, s, a
<1> QED BY <1>4, <1>6, <1>7

\* A channel with the memory after it.
LEMMA ChannelSamples ==
  ASSUME NEW ch \in [1 .. SAMPLE_N -> DSP!Sample],
         beyond \in [1 .. FILTER_SIZE - 1 -> DSP!Sample]
  PROVE  /\ \A j \in 1 .. SAMPLE_N : (ch \o beyond)[j] = ch[j]
         /\ \A j \in 1 .. SAMPLE_N, i \in 1 .. FILTER_SIZE :
              (ch \o beyond)[i + j - 1] \in DSP!Sample
<1>0. SAMPLE_N \in Nat \ {0} /\ FILTER_SIZE \in Nat \ {0}
  BY FilterAssumption
<1>1. ch \in Seq(DSP!Sample) /\ Len(ch) = SAMPLE_N
  BY <1>0, SeqDef
<1>2. beyond \in Seq(DSP!Sample) /\ Len(beyond) = FILTER_SIZE - 1
  <2>1. FILTER_SIZE - 1 \in Nat
    BY <1>0
  <2> QED BY <2>1, SeqDef
<1>3. /\ Len(ch \o beyond) = SAMPLE_N + FILTER_SIZE - 1
      /\ \A k \in 1 .. SAMPLE_N + FILTER_SIZE - 1 :
           (ch \o beyond)[k] = IF k <= SAMPLE_N THEN ch[k] ELSE beyond[k - SAMPLE_N]
  BY <1>0, <1>1, <1>2, ConcatProperties
<1>4. \A j \in 1 .. SAMPLE_N : (ch \o beyond)[j] = ch[j]
  BY <1>0, <1>3
<1>5. ASSUME NEW j \in 1 .. SAMPLE_N, NEW i \in 1 .. FILTER_SIZE
      PROVE  (ch \o beyond)[i + j - 1] \in DSP!Sample
  <2> DEFINE k == i + j - 1
  <2>1. k \in 1 .. SAMPLE_N + FILTER_SIZE - 1
    BY <1>0
  <2> HIDE DEF k
  <2>2. (ch \o beyond)[k] = IF k <= SAMPLE_N THEN ch[k] ELSE beyond[k - SAMPLE_N]
    BY <1>3, <2>1
  <2>3. k <= SAMPLE_N => k \in 1 .. SAMPLE_N
    BY <1>0, <2>1
  <2>4. ~(k <= SAMPLE_N) => k - SAMPLE_N \in 1 .. FILTER_SIZE - 1
    BY <1>0, <2>1
  <2>5. (ch \o beyond)[k] \in DSP!Sample
    BY <2>2, <2>3, <2>4
  <2> QED BY <2>5 DEF k
<1> QED BY <1>4, <1>5

\* With the coefficients of the source only the first product counts.
LEMMA IdentitySums ==
  ASSUME NEW in, NEW j \in Int, in[j] \in Int,
         \A i \in 1 .. FILTER_SIZE : in[i + j - 1] \in Int
  PROVE  DSP!Sums(in, Identity, j)[FILTER_SIZE] = in[j]
<1> DEFINE s == DSP!Sums(in, Identity, j)
           P == {i \in 0 .. FILTER_SIZE : i >= 1 => s[i] = in[j]}
<1>0. FILTER_SIZE \in Nat \ {0}
  BY FilterAssumption
<1>1. Len(Identity) = FILTER_SIZE
  <2>1. Identity \in Seq(Int) /\ DOMAIN Identity = 1 .. FILTER_SIZE
    BY <1>0, SeqDef DEF Identity
  <2> QED BY <1>0, <2>1, LenProperties
<1>2. ASSUME NEW i \in 1 .. FILTER_SIZE
      PROVE  Identity[i] * in[i + j - 1] = IF i = 1 THEN in[j] ELSE 0
  <2>1. CASE i = 1
    <3>1. i + j - 1 = j /\ Identity[i] = 1
      BY <2>1 DEF Identity
    <3>2. 1 * in[j] = in[j]
      OBVIOUS
    <3> QED BY <2>1, <3>1, <3>2
  <2>2. CASE i # 1
    <3>1. Identity[i] = 0 /\ in[i + j - 1] \in Int
      BY <2>2 DEF Identity
    <3> QED BY <2>2, <3>1
  <2> QED BY <2>1, <2>2
<1>3. /\ s[0] = 0
      /\ \A i \in 1 .. FILTER_SIZE :
           s[i] = s[i - 1] + (IF i = 1 THEN in[j] ELSE 0)
  <2> DEFINE p == [i \in 1 .. FILTER_SIZE |-> IF i = 1 THEN in[j] ELSE 0]
  <2>0. FILTER_SIZE \in Nat
    BY <1>0
  <2>1. /\ s[0] = 0
        /\ \A i \in 1 .. FILTER_SIZE : s[i] = s[i - 1] + p[i]
    <3>1. AreProducts(p, Identity, in, j, FILTER_SIZE)
      BY <2>0, <1>1, <1>2 DEF AreProducts
    <3> HIDE DEF p
    <3> QED BY <3>1, SumsAre
  <2> HIDE DEF s
  <2> QED BY <2>1
<1> HIDE DEF s
<1>4. 0 \in P
  BY <1>0
<1>5. ASSUME NEW i \in 1 .. FILTER_SIZE, i - 1 \in P PROVE i \in P
  <2>1. CASE i = 1
    <3>1. s[1] = 0 + in[j]
      BY <1>3, <2>1
    <3>2. s[i] = in[j]
      BY <2>1, <3>1
    <3> QED BY <3>2
  <2>2. CASE i # 1
    <3>1. s[i - 1] = in[j] /\ s[i] = s[i - 1] + 0
      BY <1>3, <1>5, <2>2
    <3>2. s[i] = in[j]
      BY <3>1
    <3> QED BY <3>2
  <2> QED BY <2>1, <2>2
<1> HIDE DEF P
<1>6. FILTER_SIZE \in P
  BY <1>0, <1>4, <1>5, Upward
<1> QED BY <1>0, <1>6 DEF P, s

\* The filter with the coefficients of the source leaves a channel as it is, whatever
\* the memory after it holds.
LEMMA ChannelKept ==
  ASSUME NEW ch \in [1 .. SAMPLE_N -> DSP!Sample],
         beyond \in [1 .. FILTER_SIZE - 1 -> DSP!Sample]
  PROVE  DSP!Filtered(ch) = ch
<1>0. Len(Identity) = FILTER_SIZE
  <2>1. Identity \in Seq(Int) /\ DOMAIN Identity = 1 .. FILTER_SIZE
    BY FilterAssumption, SeqDef DEF Identity
  <2> QED BY FilterAssumption, <2>1, LenProperties
<1>1. DSP!asm_fir_16b(ch \o beyond, Identity) = ch
  <2> DEFINE in == ch \o beyond
  <2>1. ASSUME NEW j \in 1 .. SAMPLE_N
        PROVE  DSP!Wrap(DSP!Sums(in, Identity, j)[FILTER_SIZE]) = ch[j]
    <3>1. /\ in[j] = ch[j] /\ ch[j] \in DSP!Sample
          /\ \A i \in 1 .. FILTER_SIZE : in[i + j - 1] \in DSP!Sample
      BY ChannelSamples
    <3> HIDE DEF in
    <3>2. j \in Int /\ in[j] \in Int
      BY <3>1, Samples
    <3>3. \A i \in 1 .. FILTER_SIZE : in[i + j - 1] \in Int
      BY <3>1, Samples
    <3>4. DSP!Sums(in, Identity, j)[FILTER_SIZE] = ch[j]
      BY <3>1, <3>2, <3>3, IdentitySums
    <3> QED BY <3>1, <3>4, Samples
  <2> HIDE DEF in
  <2>2. DSP!asm_fir_16b(in, Identity) = [j \in 1 .. SAMPLE_N |-> ch[j]]
    BY <1>0, <2>1 DEF DSP!asm_fir_16b
  <2> QED BY <2>2 DEF in
<1>2. \A k \in 1 .. 3 : [i \in 1 .. 3 |-> Identity][k] = Identity
  OBVIOUS
<1> QED BY <1>1, <1>2 DEF DSP!Filtered

\* The two channels of a frame make the frame.
LEMMA FrameJoined ==
  ASSUME NEW in \in [1 .. 2 * SAMPLE_N -> DSP!Sample]
  PROVE  /\ DSP!separateChannels(in, 1) \in [1 .. SAMPLE_N -> DSP!Sample]
         /\ DSP!separateChannels(in, 2) \in [1 .. SAMPLE_N -> DSP!Sample]
         /\ DSP!joinChannels(DSP!separateChannels(in, 1), DSP!separateChannels(in, 2)) = in
<1> DEFINE one == DSP!separateChannels(in, 1)
           two == DSP!separateChannels(in, 2)
<1>0. SAMPLE_N \in Nat \ {0}
  BY FilterAssumption
<1>1. /\ one \in [1 .. SAMPLE_N -> DSP!Sample]
      /\ \A j \in 1 .. SAMPLE_N : one[j] = in[(j - 1) * 2 + 1]
  BY <1>0 DEF DSP!separateChannels, DSP!CHANNELS
<1>2. /\ two \in [1 .. SAMPLE_N -> DSP!Sample]
      /\ \A j \in 1 .. SAMPLE_N : two[j] = in[(j - 1) * 2 + 2]
  BY <1>0 DEF DSP!separateChannels, DSP!CHANNELS
<1> HIDE DEF one, two
<1>3. DSP!joinChannels(one, two) = in
  <2>1. ASSUME NEW k \in 1 .. 2 * SAMPLE_N
        PROVE  (IF (k - 1) % 2 = 0 THEN one[((k - 1) \div 2) + 1]
                ELSE two[((k - 1) \div 2) + 1]) = in[k]
    <3> DEFINE j == ((k - 1) \div 2) + 1
    <3>1. j \in 1 .. SAMPLE_N
      BY <1>0, SMT
    <3>2. /\ (k - 1) % 2 = 0 => (j - 1) * 2 + 1 = k
          /\ (k - 1) % 2 # 0 => (j - 1) * 2 + 2 = k
      BY <1>0, SMT
    <3> HIDE DEF j
    <3>3. /\ (k - 1) % 2 = 0 => one[j] = in[k]
          /\ (k - 1) % 2 # 0 => two[j] = in[k]
      BY <1>1, <1>2, <3>1, <3>2
    <3> QED BY <3>3 DEF j
  <2>2. DSP!joinChannels(one, two) = [k \in 1 .. 2 * SAMPLE_N |-> in[k]]
    BY <2>1 DEF DSP!joinChannels, DSP!CHANNELS
  <2> QED BY <2>2
<1> QED BY <1>1, <1>2, <1>3 DEF one, two

\* AudioDSP returns the frame it is given.
LEMMA SameFrame ==
  ASSUME NEW in \in [1 .. 2 * SAMPLE_N -> DSP!Sample],
         beyond \in [1 .. FILTER_SIZE - 1 -> DSP!Sample]
  PROVE  DSP!AudioDSP(in) = in
BY FrameJoined, ChannelKept DEF DSP!AudioDSP

LEMMA InitFilter == Init => FilterInv
<1> SUFFICES ASSUME Init PROVE FilterInv
  OBVIOUS
<1>0. /\ Half \in Nat \ {0} /\ SAMPLE_N \in Nat \ {0} /\ FILTER_SIZE \in Nat \ {0}
      /\ InputSample \subseteq DSP!Sample /\ InputTap \subseteq DSP!Sample
      /\ InputBeyond \subseteq [1 .. FILTER_SIZE - 1 -> DSP!Sample]
  BY FilterAssumption DEF DSP!Sample
<1>1. CASE program = "filter"
  BY <1>0, <1>1 DEF Init, DSPInit, FilterInv
<1>2. CASE program # "filter"
  <2>1. 0 \in DSP!Sample /\ 1 \in DSP!Sample
    BY FilterAssumption DEF DSP!Sample
  <2>2. /\ input = [k \in 1 .. 2 * SAMPLE_N |-> 0] /\ taps = Identity
        /\ beyond = [k \in 1 .. FILTER_SIZE - 1 |-> 0] /\ output = << >>
    BY <1>2 DEF Init
  <2>3. Identity \in [1 .. FILTER_SIZE -> DSP!Sample]
    BY <2>1 DEF Identity
  <2> QED BY <2>1, <2>2, <2>3 DEF FilterInv
<1> QED BY <1>1, <1>2

LEMMA NextFilter == FilterInv /\ DSP!Filter => FilterInv'
<1> SUFFICES ASSUME FilterInv, DSP!Filter PROVE FilterInv'
  OBVIOUS
<1>1. output' = input
  BY SameFrame DEF FilterInv, DSP!Filter
<1> QED BY <1>1 DEF FilterInv, DSP!Filter

LEMMA FilterInvariance == Spec => []FilterInv
<1>1. FilterInv /\ [Next]_vars => FilterInv'
  <2>1. FilterInv /\ UNCHANGED filter => FilterInv'
    BY DEF filter, FilterInv
  <2> QED
    BY <2>1, NextFilter
    DEF Next, KeeperNext, ListNext, WordsNext, SearchesNext, ServersNext, FilterNext, vars
<1> QED BY InitFilter, <1>1, PTL DEF Spec

\* For any frame, any taps and any memory after the channels: the filter of the
\* source returns the frame it is given, its two versions agree where nothing wraps
\* or saturates, and products of one sign saturate to the limit of their side.
THEOREM Unchanged == Spec => []FilterSafe
<1>1. FilterInv => FilterSafe
  <2> SUFFICES ASSUME FilterInv PROVE FilterSafe
    OBVIOUS
  <2>0. Half \in Nat \ {0} /\ SAMPLE_N \in Nat \ {0} /\ FILTER_SIZE \in Nat \ {0}
    BY FilterAssumption
  <2>a. /\ DOMAIN taps = 1 .. FILTER_SIZE /\ Len(taps) = FILTER_SIZE
        /\ \A i \in 1 .. FILTER_SIZE : taps[i] \in Int
    <3>1. taps \in Seq(DSP!Sample) /\ DOMAIN taps = 1 .. FILTER_SIZE
      BY <2>0, SeqDef DEF FilterInv
    <3>2. \A i \in 1 .. FILTER_SIZE : taps[i] \in DSP!Sample
      BY DEF FilterInv
    <3> QED BY <2>0, <3>1, <3>2, LenProperties, Samples
  <2>b. \A j \in 1 .. SAMPLE_N, i \in 1 .. FILTER_SIZE :
          taps[i] * DSP!Channel[i + j - 1] \in Int
    <3>1. DSP!separateChannels(input, 1) \in [1 .. SAMPLE_N -> DSP!Sample]
      BY FrameJoined DEF FilterInv
    <3>2. \A j \in 1 .. SAMPLE_N, i \in 1 .. FILTER_SIZE :
            DSP!Channel[i + j - 1] \in DSP!Sample
      BY <3>1, ChannelSamples DEF FilterInv, DSP!Channel
    <3>3. ASSUME NEW j \in 1 .. SAMPLE_N, NEW i \in 1 .. FILTER_SIZE
          PROVE  taps[i] * DSP!Channel[i + j - 1] \in Int
      <4>1. DSP!Channel[i + j - 1] \in Int
        BY <3>2, Samples
      <4> QED BY <2>a, <4>1
    <3> QED BY <3>3
  <2>1. DSP!TypeOK
    <3>1. 2 * SAMPLE_N \in Nat
      BY <2>0
    <3>2. input \in Seq(DSP!Sample) /\ DOMAIN input = 1 .. 2 * SAMPLE_N
      BY <3>1, SeqDef DEF FilterInv
    <3>3. Len(input) = 2 * SAMPLE_N
      BY <3>1, <3>2, LenProperties
    <3> QED BY <3>2, <3>3 DEF FilterInv, DSP!TypeOK, DSP!CHANNELS
  <2>2. DSP!FrameKept
    BY DEF FilterInv, DSP!FrameKept
  <2>3. DSP!VersionsAgree
    <3> SUFFICES ASSUME NEW j \in 1 .. SAMPLE_N, DSP!Fits(taps, j)
                 PROVE  /\ DSP!C_fir_mono_16bit(DSP!Channel, taps)[j]
                             = DSP!Exact(taps, j, Len(taps))
                        /\ DSP!asm_fir_16b(DSP!Channel, taps)[j]
                             = DSP!Exact(taps, j, Len(taps))
      BY DEF DSP!VersionsAgree
    <3> DEFINE c == DSP!Channel
    <3>1. \A i \in 1 .. FILTER_SIZE : /\ taps[i] * c[i + j - 1] \in DSP!Sample
                                      /\ DSP!Sums(c, taps, j)[i] \in DSP!Sample
      BY <2>a DEF DSP!Fits, DSP!Exact
    <3> HIDE DEF c
    <3>2. DSP!Accumulated(c, taps, j)[FILTER_SIZE] = DSP!Sums(c, taps, j)[FILTER_SIZE]
      BY <2>0, <2>a, <3>1, ExactWhereItFits
    <3>3. DSP!Wrap(DSP!Sums(c, taps, j)[FILTER_SIZE]) = DSP!Sums(c, taps, j)[FILTER_SIZE]
      <4>1. DSP!Sums(c, taps, j)[FILTER_SIZE] \in DSP!Sample
        BY <2>0, <3>1
      <4> QED BY <4>1, Samples
    <3>4. /\ DSP!C_fir_mono_16bit(c, taps)[j] = DSP!Accumulated(c, taps, j)[FILTER_SIZE]
          /\ DSP!asm_fir_16b(c, taps)[j] = DSP!Wrap(DSP!Sums(c, taps, j)[FILTER_SIZE])
      BY <2>a DEF DSP!C_fir_mono_16bit, DSP!asm_fir_16b
    <3>5. DSP!Exact(taps, j, Len(taps)) = DSP!Sums(c, taps, j)[FILTER_SIZE]
      BY <2>a DEF DSP!Exact, c
    <3> QED BY <3>2, <3>3, <3>4, <3>5 DEF c
  <2>4. DSP!SaturatesOnItsSide
    <3> SUFFICES ASSUME NEW j \in 1 .. SAMPLE_N,
                        \/ \A i \in DOMAIN taps :
                             taps[i] * DSP!Channel[i + j - 1] \in 0 .. Half - 1
                        \/ \A i \in DOMAIN taps :
                             taps[i] * DSP!Channel[i + j - 1] \in -Half .. 0
                 PROVE  DSP!C_fir_mono_16bit(DSP!Channel, taps)[j]
                          = DSP!Clamp(DSP!Exact(taps, j, Len(taps)))
      BY DEF DSP!SaturatesOnItsSide
    <3> DEFINE c == DSP!Channel
    <3>1. \/ \A i \in 1 .. FILTER_SIZE : taps[i] * c[i + j - 1] \in 0 .. Half - 1
          \/ \A i \in 1 .. FILTER_SIZE : taps[i] * c[i + j - 1] \in -Half .. 0
      BY <2>a
    <3>2. DSP!Exact(taps, j, Len(taps)) = DSP!Sums(c, taps, j)[FILTER_SIZE]
      BY <2>a DEF DSP!Exact
    <3> HIDE DEF c
    <3>3. DSP!Accumulated(c, taps, j)[FILTER_SIZE]
            = DSP!Clamp(DSP!Sums(c, taps, j)[FILTER_SIZE])
      <4>1. FILTER_SIZE \in Nat /\ FILTER_SIZE \in 0 .. FILTER_SIZE
        BY <2>0
      <4>2. \A i \in 0 .. FILTER_SIZE :
              DSP!Accumulated(c, taps, j)[i] = DSP!Clamp(DSP!Sums(c, taps, j)[i])
        <5>1. CASE \A i \in 1 .. FILTER_SIZE : taps[i] * c[i + j - 1] \in 0 .. Half - 1
          BY <4>1, <2>a, <5>1, CutOff
        <5>2. CASE \A i \in 1 .. FILTER_SIZE : taps[i] * c[i + j - 1] \in -Half .. 0
          BY <4>1, <2>a, <5>2, CutOff
        <5> QED BY <3>1, <5>1, <5>2
      <4> QED BY <4>1, <4>2
    <3>4. DSP!C_fir_mono_16bit(c, taps)[j] = DSP!Accumulated(c, taps, j)[FILTER_SIZE]
      BY <2>a DEF DSP!C_fir_mono_16bit
    <3> QED BY <3>2, <3>3, <3>4 DEF c
  <2> QED BY <2>1, <2>2, <2>3, <2>4 DEF FilterSafe, DSP!Safe
<1> QED BY FilterInvariance, <1>1, PTL
=============================================================================
