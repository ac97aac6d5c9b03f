------------------------- MODULE TaskSchedulerProofs -------------------------
(***************************************************************************)
(* Proofs about TaskScheduler and FairShare, for every number of tasks,    *)
(* every priority range, every set of keys and every set of sleeping       *)
(* times: sleeping tasks are never run, slices of the tasks that the keys  *)
(* do not touch are respected, nobody waits for longer than the slices of  *)
(* the others, and a removed task that does not sleep stays out.           *)
(***************************************************************************)
EXTENDS FairShare, WellFoundedInduction, TLAPS

LEMMA LeastNatural ==
  ASSUME NEW T \in SUBSET Nat, T # {}
  PROVE  \E x \in T : \A y \in T : x <= y
<1> DEFINE R == OpToRel(<, Nat)
<1>1. IsWellFoundedOn(R, Nat)
  BY NatLessThanWellFounded
<1>2. \A x, y \in Nat : x < y => <<x, y>> \in R
  BY DEF OpToRel
<1> HIDE DEF R
<1>3. PICK x \in T : \A y \in T : ~ (<<y, x>> \in R)
  BY <1>1, WFMin
<1>4. ASSUME NEW y \in T PROVE x <= y
  <2>1. x \in Nat /\ y \in Nat /\ ~ (y < x)
    BY <1>2, <1>3
  <2> QED BY <2>1
<1> QED BY <1>4

\* Distances on the ring.
LEMMA AheadPositive ==
  ASSUME NEW t \in Task, NEW u \in Task
  PROVE  Ahead(t, u) \in Nat \ {0}
  BY TasksAssumption DEF Task, Ahead

\* As long as Idle can run, the loop Ts ends, at a task that can run and that
\* is the nearest one.
LEMMA NextTaskRuns ==
  ASSUME NEW st, NEW t \in Task, Runnable(st[Idle])
  PROVE  /\ NextTask(st, t) \in Task /\ Runnable(st[NextTask(st, t)])
         /\ \A u \in Task : Runnable(st[u]) => Ahead(t, NextTask(st, t)) <= Ahead(t, u)
<1> DEFINE Ready == {u \in Task : Runnable(st[u])}
           Distance == {Ahead(t, u) : u \in Ready}
<1>1. Distance \in SUBSET Nat
  BY AheadPositive
<1>2. Idle \in Ready
  BY TasksAssumption DEF Idle, Task
<1>3. PICK d \in Distance : \A e \in Distance : d <= e
  BY <1>1, <1>2, LeastNatural
<1>4. PICK u \in Ready : d = Ahead(t, u)
  BY <1>3
<1>5. /\ u \in Task /\ Runnable(st[u])
      /\ \A v \in Task : Runnable(st[v]) => Ahead(t, u) <= Ahead(t, v)
  BY <1>3, <1>4
<1> QED BY <1>5 DEF NextTask

-----------------------------------------------------------------------------

\* The inductive invariant: Idle can always run, so a search for a task ends.
IInv ==
  /\ TypeOK
  /\ state[Idle] = RUNNING
  /\ SleepersAsleep
  /\ SlicesRespected

LEMMA InitIInv == Init => IInv
  BY TasksAssumption, TimesAssumption
  DEF Init, IInv, TypeOK, SleepersAsleep, SlicesRespected, Idle, A, Task,
      READY, RUNNING, DORMANT

\* A switch of tasks, from any states of the tasks in which Idle can run.
LEMMA SwitchSafe ==
  ASSUME IInv, Sch_switchTask, state'[Idle] = RUNNING, maxTicks' = maxTicks
  PROVE  /\ current' \in Task
         /\ state'[current'] \notin {READY, DORMANT}
         /\ currentTicks' \in [Task -> 0 .. TickModulus - 1]
         /\ SlicesRespected'
<1>1. Runnable(state'[Idle])
  BY DEF Runnable, RUNNING, READY, DORMANT
<1>2. current' \in Task /\ Runnable(state'[current'])
  BY <1>1, NextTaskRuns DEF Sch_switchTask, IInv, TypeOK
<1>3. currentTicks' \in [Task -> 0 .. TickModulus - 1]
  BY TimesAssumption DEF Sch_switchTask, LeaveTicks, IInv, TypeOK
<1>4. SlicesRespected'
  BY TimesAssumption
  DEF Sch_switchTask, LeaveTicks, IInv, TypeOK, SlicesRespected
<1> QED BY <1>2, <1>3, <1>4 DEF Runnable

LEMMA TickSafe == IInv /\ Tick => IInv'
<1> SUFFICES ASSUME IInv, Tick PROVE IInv'
  OBVIOUS
<1> USE DEF READY, RUNNING, DORMANT
<1>1. /\ state' \in [Task -> {READY, RUNNING, DORMANT}]
      /\ sleepMS' \in [Task -> Nat]
      /\ state'[Idle] = RUNNING
      /\ \A t \in Task : state'[t] = DORMANT =>
                            state[t] = DORMANT /\ sleepMS'[t] > 0
  <2>1. /\ sleepMS' = [t \in Task |-> SleepLeft(t)]
        /\ state' = [t \in Task |-> Wake(t, sleepMS'[t])]
    BY DEF Tick, Sch_DormantTsk_Update
  <2>2. \A t \in Task : SleepLeft(t) \in Nat
    BY DEF SleepLeft, IInv, TypeOK, SleepersAsleep
  <2>3. sleepMS' \in [Task -> Nat]
    BY <2>1, <2>2
  <2>4. \A t \in Task : Wake(t, sleepMS'[t]) \in {READY, RUNNING, DORMANT}
    BY DEF Wake, IInv, TypeOK
  <2>5. Idle \in Task
    BY TasksAssumption DEF Idle, Task
  <2>6. state'[Idle] = RUNNING
    BY <2>1, <2>5 DEF Wake, IInv
  <2>7. ASSUME NEW t \in Task, state'[t] = DORMANT
        PROVE  state[t] = DORMANT /\ sleepMS'[t] > 0
    BY <2>1, <2>3, <2>7 DEF Wake
  <2> QED BY <2>1, <2>3, <2>4, <2>6, <2>7
<1>2. Ticks \in 0 .. TickModulus - 1
  BY TimesAssumption, SMT DEF Ticks, IInv, TypeOK
<1>3. ASSUME current # A PROVE Ticks = currentTicks[current] + 1
  BY <1>3, TimesAssumption, SMT DEF Ticks, IInv, TypeOK, SlicesRespected
<1>4. maxTicks' = maxTicks /\ orgTicks' = orgTicks /\ ctl' = ctl
      /\ removed' = removed
  BY DEF Tick
<1>5. CASE Ticks # maxTicks[current] /\ current' = current
           /\ currentTicks' = [currentTicks EXCEPT ![current] = Ticks]
  <2>1. TypeOK'
    BY <1>1, <1>2, <1>4, <1>5 DEF IInv, TypeOK
  <2>2. SleepersAsleep'
    BY <1>1, <1>5 DEF IInv, TypeOK, SleepersAsleep
  <2>3. SlicesRespected'
    BY <1>3, <1>4, <1>5, TimesAssumption DEF IInv, TypeOK, SlicesRespected
  <2> QED BY <1>1, <2>1, <2>2, <2>3 DEF IInv
<1>6. CASE Sch_switchTask
  <2>1. /\ current' \in Task
        /\ state'[current'] \notin {READY, DORMANT}
        /\ currentTicks' \in [Task -> 0 .. TickModulus - 1]
        /\ SlicesRespected'
    BY <1>1, <1>4, <1>6, SwitchSafe
  <2>2. TypeOK'
    BY <1>1, <1>4, <2>1 DEF IInv, TypeOK
  <2>3. SleepersAsleep'
    BY <1>1, <2>1 DEF SleepersAsleep
  <2> QED BY <1>1, <2>1, <2>2, <2>3 DEF IInv
<1> QED BY <1>5, <1>6 DEF Tick

LEMMA SleepSafe ==
  ASSUME IInv, NEW ms \in SleepTimes, mSleep(ms)
  PROVE  IInv'
<1> USE DEF READY, RUNNING, DORMANT
<1>1. current \in Task /\ current # Idle /\ ms \in Nat /\ ms > 0
  BY TasksAssumption, TimesAssumption DEF mSleep, Idle, IInv, TypeOK
<1>2. state'[Idle] = RUNNING
  BY <1>1, TasksAssumption DEF mSleep, IInv, TypeOK, Idle, Task
<1>3. /\ current' \in Task
      /\ state'[current'] \notin {READY, DORMANT}
      /\ currentTicks' \in [Task -> 0 .. TickModulus - 1]
      /\ SlicesRespected'
  BY <1>2, SwitchSafe DEF mSleep
<1>4. TypeOK'
  BY <1>1, <1>3 DEF mSleep, IInv, TypeOK
<1>5. SleepersAsleep'
  BY <1>1, <1>3 DEF mSleep, IInv, TypeOK, SleepersAsleep
<1> QED BY <1>2, <1>3, <1>4, <1>5 DEF IInv

LEMMA KeysSafe ==
  ASSUME IInv,
         KeyCtl \/ KeyW \/ KeyQ \/ \E t \in Keyed : KeyAdd(t) \/ KeyRemove(t)
  PROVE  IInv'
<1> USE DEF READY, RUNNING, DORMANT
<1>a. /\ A \in Task /\ Idle \in Task /\ A # Idle
      /\ \A t \in Keyed : t \in Task /\ t # Idle
  BY TasksAssumption DEF A, Idle, Task
<1>1. CASE KeyCtl
  BY <1>1
  DEF KeyCtl, taskVars, IInv, TypeOK, SleepersAsleep, SlicesRespected
<1>2. CASE KeyW
  <2>1. TypeOK'
    BY <1>2, TimesAssumption DEF KeyW, IInv, TypeOK
  <2>2. state'[Idle] = RUNNING /\ SleepersAsleep'
    BY <1>2 DEF KeyW, IInv, SleepersAsleep
  <2>3. SlicesRespected'
    BY <1>2 DEF KeyW, IInv, TypeOK, SlicesRespected
  <2> QED BY <2>1, <2>2, <2>3 DEF IInv
<1>3. CASE KeyQ
  <2>1. \A n \in 1 .. MaxPriority : Lower(n) \in 1 .. MaxPriority
    BY TimesAssumption DEF Lower
  <2>2. TypeOK'
    BY <1>3, <2>1 DEF KeyQ, IInv, TypeOK
  <2>3. state'[Idle] = RUNNING /\ SleepersAsleep'
    BY <1>3 DEF KeyQ, IInv, SleepersAsleep
  <2>4. SlicesRespected'
    BY <1>3 DEF KeyQ, IInv, TypeOK, SlicesRespected
  <2> QED BY <2>2, <2>3, <2>4 DEF IInv
<1>4. ASSUME NEW t \in Keyed, KeyAdd(t) \/ KeyRemove(t) PROVE IInv'
  <2>1. \/ state' = [state EXCEPT ![t] = RUNNING]
        \/ state' = [state EXCEPT ![t] = READY]
    BY <1>4 DEF KeyAdd, KeyRemove
  <2>2. /\ UNCHANGED <<current, currentTicks, maxTicks, orgTicks, sleepMS, ctl>>
        /\ removed' \subseteq removed \cup {t}
    BY <1>4 DEF KeyAdd, KeyRemove
  <2>3. TypeOK'
    BY <2>1, <2>2 DEF IInv, TypeOK
  <2>4. state'[Idle] = RUNNING
    BY <1>a, <2>1 DEF IInv, TypeOK
  <2>5. SleepersAsleep'
    BY <2>1, <2>2 DEF IInv, TypeOK, SleepersAsleep
  <2>6. SlicesRespected'
    BY <2>2 DEF IInv, SlicesRespected
  <2> QED BY <2>3, <2>4, <2>5, <2>6 DEF IInv
<1> QED BY <1>1, <1>2, <1>3, <1>4

LEMMA StepIInv == IInv /\ [Next]_vars => IInv'
<1> SUFFICES ASSUME IInv, [Next]_vars PROVE IInv'
  OBVIOUS
<1>1. CASE Tick
  BY <1>1, TickSafe
<1>2. CASE CallOrKey
  BY <1>2, SleepSafe, KeysSafe DEF CallOrKey
<1>3. CASE UNCHANGED vars
  BY <1>3
  DEF vars, taskVars, IInv, TypeOK, SleepersAsleep, SlicesRespected
<1> QED BY <1>1, <1>2, <1>3 DEF Next

\* The inductive invariant holds in every state, for every value of the
\* constants.
THEOREM Invariance == Spec => []IInv
  BY InitIInv, StepIInv, PTL DEF Spec

\* For every number of tasks, the fields of the tasks stay in their ranges,
\* Sch_switchTask always finds a task, the processor is never given to a sleeping
\* one, and a sleeping one has time left.
THEOREM Safety == Spec => []Safe
<1>1. IInv => Safe
  BY DEF IInv, Safe
<1> QED BY <1>1, Invariance, PTL

\* Every task but A keeps the processor for less than its slice, for every number
\* of tasks and every use of the keys.
THEOREM Slices == Spec => []SlicesRespected
  BY Invariance, PTL DEF IInv

-----------------------------------------------------------------------------
(* FairShare *)

\* The steps of FairShare are steps of TaskScheduler.
LEMMA WaitStep == WaitNext => Next
  BY DEF WaitNext, Next

LEMMA WaitStepIInv == IInv /\ [WaitNext]_<<vars, historyVars>> => IInv'
  BY WaitStep, StepIInv DEF historyVars

\* A task in removed but not in dozed has been out of the list since its key.
OutInv == dozed \subseteq removed /\ \A t \in removed \ dozed : state[t] = READY

LEMMA OutStep ==
  ASSUME IInv, OutInv, [WaitNext]_<<vars, historyVars>>
  PROVE  OutInv'
<1> USE DEF READY, RUNNING, DORMANT
<1>0. removed \subseteq Task
  BY TasksAssumption DEF IInv, TypeOK, Task
<1>1. CASE UNCHANGED <<vars, historyVars>>
  BY <1>1 DEF vars, taskVars, historyVars, OutInv
<1>2. ASSUME dozed' = removed' \cap (dozed \cup {t \in removed : state'[t] = DORMANT}),
             Next
      PROVE  OutInv'
  <2>1. ASSUME NEW t \in removed' \ dozed' PROVE state'[t] = READY
    <3>1. CASE t \in removed
      <4>1. t \notin dozed /\ state'[t] # DORMANT /\ state[t] = READY /\ t \in Task
        BY <1>0, <1>2, <2>1, <3>1 DEF OutInv
      <4>2. CASE Tick
        BY <4>1, <4>2 DEF Tick, Sch_DormantTsk_Update, Wake
      <4>3. ASSUME NEW ms \in SleepTimes, mSleep(ms) PROVE state'[t] = READY
        BY <4>1, <4>3 DEF mSleep, IInv, TypeOK
      <4>4. CASE KeyCtl \/ KeyW \/ KeyQ
        BY <4>1, <4>4 DEF KeyCtl, KeyW, KeyQ, taskVars
      <4>5. ASSUME NEW u \in Keyed, KeyAdd(u) \/ KeyRemove(u) PROVE state'[t] = READY
        BY <2>1, <4>1, <4>5 DEF KeyAdd, KeyRemove, IInv, TypeOK
      <4> QED BY <1>2, <4>2, <4>3, <4>4, <4>5 DEF Next, CallOrKey
    <3>2. CASE t \notin removed
      <4>1. PICK u \in Keyed : KeyRemove(u) /\ t = u
        BY <1>2, <2>1, <3>2
        DEF Next, CallOrKey, Tick, mSleep, KeyCtl, KeyAdd, KeyRemove, KeyW, KeyQ
      <4>2. u \in Task
        BY TasksAssumption DEF Task
      <4> QED BY <4>1, <4>2 DEF KeyRemove, IInv, TypeOK
    <3> QED BY <3>1, <3>2
  <2> QED BY <1>2, <2>1 DEF OutInv
<1>3. CASE WaitNext
  BY <1>2, <1>3, WaitStep DEF WaitNext, Waiting
<1> QED BY <1>1, <1>3

\* The processor changes hands in Sch_switchTask only, and goes to a task that
\* can run.
LEMMA GivenToRunnable ==
  ASSUME IInv, Next, current' # current
  PROVE  /\ Runnable(state'[current']) /\ current' \in Task
         /\ state'[current'] # state[current'] => state[current'] = DORMANT
<1> USE DEF READY, RUNNING, DORMANT
<1>1. IInv'
  BY StepIInv
<1>2. Sch_switchTask /\ (Tick \/ \E ms \in SleepTimes : mSleep(ms))
  BY DEF Next, CallOrKey, Tick, mSleep, KeyCtl, KeyAdd, KeyRemove, KeyW, KeyQ
<1>3. current' \in Task /\ Runnable(state'[current'])
  BY <1>1, <1>2, NextTaskRuns DEF Sch_switchTask, IInv, TypeOK, Runnable
<1>4. CASE Tick
  BY <1>3, <1>4 DEF Tick, Sch_DormantTsk_Update, Wake
<1>5. CASE \E ms \in SleepTimes : mSleep(ms)
  BY <1>3, <1>5 DEF mSleep, IInv, TypeOK
<1> QED BY <1>2, <1>3, <1>4, <1>5

\* For every number of tasks and every use of the keys, a task that was removed
\* does not get the processor before it is added, unless it slept meanwhile.
THEOREM StaysOut == WaitSpec => RemovedStaysOut
<1>1. WaitInit => IInv /\ OutInv
  BY InitIInv DEF WaitInit, Init, OutInv
<1>2. IInv /\ OutInv /\ [WaitNext]_<<vars, historyVars>> => IInv' /\ OutInv'
  BY WaitStepIInv, OutStep
<1>3. IInv /\ OutInv /\ [WaitNext]_<<vars, historyVars>>
      => [current' # current => current' \notin removed \ dozed]_<<vars, historyVars>>
  <2> SUFFICES ASSUME IInv, OutInv, WaitNext, current' # current,
                      current' \in removed \ dozed
               PROVE  FALSE
    BY DEF vars
  <2>1. state[current'] = READY
    BY DEF OutInv
  <2> QED BY <2>1, WaitStep, GivenToRunnable DEF Runnable, READY, DORMANT
<1> QED BY <1>1, <1>2, <1>3, PTL DEF WaitSpec, RemovedStaysOut

-----------------------------------------------------------------------------
(* WaitBounded.  While t waits, the processor goes round from t to the      *)
(* current task: Share(t, c) is the longest that the tasks between t and c  *)
(* can have kept it.                                                        *)

Slice(c) == IF c = Idle THEN 1 ELSE MaxPriority

Share(t, c) ==
  IF t = Idle THEN (c - 1) * MaxPriority
  ELSE IF c = Idle THEN (NUser - t) * MaxPriority
  ELSE IF c > t THEN (c - t - 1) * MaxPriority
  ELSE (NUser - t) * MaxPriority + 1 + (c - 1) * MaxPriority

LEMMA OneMore ==
  ASSUME NEW a \in Int, NEW b \in Int, NEW m \in Nat, a < b
  PROVE  a * m + m <= b * m
<1>1. (b - a - 1) * m >= 0
  <2>1. b - a - 1 \in Nat
    OBVIOUS
  <2>2. \A k \in Nat : k * m >= 0
    BY SMT
  <2> QED BY <2>1, <2>2
<1>2. (b - a - 1) * m = b * m - (a * m + m)
  BY SMT
<1> QED BY <1>1, <1>2

\* Sums of slices, as sums: the products are left alone.
LEMMA Sums ==
  ASSUME NEW a \in Int, NEW b \in Int, NEW m \in Nat
  PROVE  /\ a * m \in Int
         /\ (a - b) * m = a * m - b * m
         /\ (a - 1) * m = a * m - m
         /\ (a - b - 1) * m = a * m - b * m - m
  BY SMT

\* Share, with the products of its parts.
LEMMA ShareIs ==
  ASSUME NEW t \in Task, NEW c \in Task, t # c
  PROVE  LET P(k) == k * MaxPriority IN
         /\ t = Idle => Share(t, c) = P(c) - MaxPriority
         /\ t # Idle /\ c = Idle => Share(t, c) = P(NUser) - P(t)
         /\ t # Idle /\ c > t => Share(t, c) = P(c) - P(t) - MaxPriority
         /\ t # Idle /\ c # Idle /\ c < t =>
              Share(t, c) = P(NUser) - P(t) + 1 + P(c) - MaxPriority
<1>1. NUser \in Int /\ t \in Int /\ c \in Int /\ MaxPriority \in Nat
  BY TasksAssumption, TimesAssumption DEF Task
<1>2. /\ (c - 1) * MaxPriority = c * MaxPriority - MaxPriority
      /\ (NUser - t) * MaxPriority = NUser * MaxPriority - t * MaxPriority
      /\ (c - t - 1) * MaxPriority = c * MaxPriority - t * MaxPriority - MaxPriority
      /\ c * MaxPriority \in Int /\ t * MaxPriority \in Int
      /\ NUser * MaxPriority \in Int
  BY <1>1, Sums
<1> QED BY <1>1, <1>2 DEF Share, Idle, Task

\* The products grow with their first factor.
LEMMA Products ==
  ASSUME NEW a \in Task, NEW b \in Task
  PROVE  /\ a * MaxPriority \in Int
         /\ a < b => a * MaxPriority + MaxPriority <= b * MaxPriority
         /\ a <= b => a * MaxPriority <= b * MaxPriority
         /\ 0 * MaxPriority = 0 /\ 1 * MaxPriority = MaxPriority
<1>1. a \in Int /\ b \in Int /\ MaxPriority \in Nat
  BY TasksAssumption, TimesAssumption DEF Task
<1>2. a * MaxPriority \in Int /\ b * MaxPriority \in Int
  BY <1>1, Sums
<1>3. a < b => a * MaxPriority + MaxPriority <= b * MaxPriority
  BY <1>1, OneMore
<1>4. a = b => a * MaxPriority <= b * MaxPriority
  BY <1>2
<1>5. 0 * MaxPriority = 0 /\ 1 * MaxPriority = MaxPriority
  BY <1>1
<1> QED BY <1>1, <1>2, <1>3, <1>4, <1>5

LEMMA ShareLimited ==
  ASSUME NEW t \in Task, NEW c \in Task, t # c
  PROVE  /\ Share(t, c) \in Nat
         /\ Share(t, c) + Slice(c) <= WaitLimit(t)
<1> DEFINE P(k) == k * MaxPriority
<1>1. /\ 0 \in Task /\ 1 \in Task /\ NUser \in Task /\ NUser \in Nat \ {0}
      /\ t \in 0 .. NUser /\ c \in 0 .. NUser
      /\ MaxPriority \in Nat \ {0}
  BY TasksAssumption, TimesAssumption DEF Task
<1>2. /\ P(t) \in Int /\ P(c) \in Int /\ P(NUser) \in Int
      /\ P(t) <= P(NUser) /\ P(c) <= P(NUser)
      /\ c < t => P(c) + MaxPriority <= P(t)
      /\ t < c => P(t) + MaxPriority <= P(c)
      /\ 1 <= t => MaxPriority <= P(t)
      /\ 1 <= c => MaxPriority <= P(c)
      /\ (NUser - 1) * MaxPriority = P(NUser) - MaxPriority
  BY <1>1, Products, Sums
<1>3. /\ t = Idle => Share(t, c) = P(c) - MaxPriority
      /\ t # Idle /\ c = Idle => Share(t, c) = P(NUser) - P(t)
      /\ t # Idle /\ c > t => Share(t, c) = P(c) - P(t) - MaxPriority
      /\ t # Idle /\ c # Idle /\ c < t =>
           Share(t, c) = P(NUser) - P(t) + 1 + P(c) - MaxPriority
  BY ShareIs
<1>4. WaitLimit(t) = IF t = Idle THEN P(NUser) ELSE P(NUser) - MaxPriority + 1
  BY <1>2 DEF WaitLimit
<1> HIDE DEF P
<1> QED BY <1>1, <1>2, <1>3, <1>4 DEF Slice, Idle

\* From c the processor goes to d, which is nearer to c than t.
LEMMA ShareMoves ==
  ASSUME NEW t \in Task, NEW c \in Task, NEW d \in Task,
         t # c, t # d, c # d, Ahead(c, d) < Ahead(c, t)
  PROVE  Share(t, c) + Slice(c) <= Share(t, d)
<1> DEFINE P(k) == k * MaxPriority
<1>1. /\ 0 \in Task /\ 1 \in Task /\ NUser \in Task /\ NUser \in Nat \ {0}
      /\ t \in 0 .. NUser /\ c \in 0 .. NUser /\ d \in 0 .. NUser
      /\ MaxPriority \in Nat \ {0}
  BY TasksAssumption, TimesAssumption DEF Task
<1>2. /\ P(t) \in Int /\ P(c) \in Int /\ P(d) \in Int /\ P(NUser) \in Int
      /\ P(t) <= P(NUser) /\ P(c) <= P(NUser)
      /\ c < d => P(c) + MaxPriority <= P(d)
      /\ 1 <= d => MaxPriority <= P(d)
  BY <1>1, Products
<1>3. \A e \in {c, d} :
        /\ t = Idle => Share(t, e) = P(e) - MaxPriority
        /\ t # Idle /\ e = Idle => Share(t, e) = P(NUser) - P(t)
        /\ t # Idle /\ e > t => Share(t, e) = P(e) - P(t) - MaxPriority
        /\ t # Idle /\ e # Idle /\ e < t =>
             Share(t, e) = P(NUser) - P(t) + 1 + P(e) - MaxPriority
  BY ShareIs
<1>4. \/ c < d /\ d < t
      \/ t < c /\ c < d
      \/ d < t /\ t < c
  BY <1>1 DEF Ahead
<1> HIDE DEF P
<1> QED BY <1>1, <1>2, <1>3, <1>4 DEF Slice, Idle

\* The inductive invariant: what has been waited fits in the slices of the tasks
\* that the processor passed, and in what the current one has used of its own.
WaitInv ==
  /\ maxTicks[Idle] = 1
  /\ current # A => currentTicks[A] = 0
  /\ waited \in [Task -> Nat]
  /\ \A t \in Task :
       /\ t = current \/ state[t] # RUNNING \/ Overrun => waited[t] = 0
       /\ t # current => waited[t] <= Share(t, current) + currentTicks[current]

\* A task that does not overrun has not used up its slice.
LEMMA SliceLeft ==
  ASSUME IInv, WaitInv, ~Overrun
  PROVE  /\ currentTicks[current] < maxTicks[current]
         /\ maxTicks[current] <= Slice(current)
         /\ Ticks = currentTicks[current] + 1
<1>1. currentTicks[current] < maxTicks[current]
  BY DEF IInv, SlicesRespected, Overrun, TypeOK
<1>2. maxTicks[current] <= Slice(current)
  BY DEF IInv, TypeOK, WaitInv, Slice
<1>3. maxTicks[current] \in 1 .. MaxPriority
      /\ currentTicks[current] \in 0 .. TickModulus - 1
  BY DEF IInv, TypeOK
<1>4. currentTicks[current] + 1 < TickModulus
  BY <1>1, <1>3, TimesAssumption
<1> QED BY <1>1, <1>2, <1>3, <1>4, TimesAssumption DEF Ticks

LEMMA WaitInvStep ==
  ASSUME IInv, WaitInv, [WaitNext]_<<vars, historyVars>>
  PROVE  WaitInv'
<1> USE DEF READY, RUNNING, DORMANT
<1>i. IInv' /\ A \in Task /\ Idle \in Task /\ A # Idle /\ Keyed \subseteq Task
  BY WaitStepIInv, TasksAssumption DEF A, Idle, Task
<1>1. CASE UNCHANGED <<vars, historyVars>>
  BY <1>1 DEF vars, taskVars, historyVars, WaitInv, Overrun
<1>2. ASSUME NEW n \in {0, 1}, Waiting(n), Next,
             \/ n = 1 /\ Tick
             \/ n = 0 /\ CallOrKey
      PROVE  WaitInv'
  <2>1. maxTicks'[Idle] = 1
    BY <1>i, <1>2
    DEF CallOrKey, Tick, mSleep, KeyCtl, KeyAdd, KeyRemove, KeyW, KeyQ,
        taskVars, WaitInv, IInv, TypeOK
  <2>2. \/ /\ UNCHANGED current
           /\ \/ n = 1 /\ currentTicks' = [currentTicks EXCEPT ![current] = Ticks]
              \/ n = 0 /\ UNCHANGED currentTicks
        \/ /\ Sch_switchTask
           /\ n = 1 => Ticks = maxTicks[current]
    BY <1>2 DEF CallOrKey, Tick, mSleep, KeyCtl, KeyAdd, KeyRemove, KeyW, KeyQ, taskVars
  <2>3. (current # A => currentTicks[A] = 0)'
    BY <1>i, <2>2 DEF Sch_switchTask, LeaveTicks, WaitInv, IInv, TypeOK
  <2>4. /\ waited' \in [Task -> Nat]
        /\ \A t \in Task : waited'[t] <= waited[t] + n
    <3>1. \A t \in Task : WaitLimit(t) \in Nat
      BY TasksAssumption, TimesAssumption, ShareLimited DEF WaitLimit
    <3> QED BY <1>2, <3>1 DEF Waiting, Longer, WaitInv
  <2>5. \A t \in Task :
          t \in {current, current'} \/ state'[t] # RUNNING \/ Overrun \/ Overrun'
          => waited'[t] = 0
    BY <1>2 DEF Waiting
  <2>6. ASSUME NEW t \in Task, t # current'
        PROVE  waited'[t] <= Share(t, current') + currentTicks'[current']
    <3>1. Share(t, current') \in Nat /\ currentTicks'[current'] \in Nat
      BY <1>i, <2>6, ShareLimited DEF IInv, TypeOK
    <3>2. CASE t = current \/ state'[t] # RUNNING \/ Overrun \/ Overrun'
      BY <2>5, <3>1, <3>2
    <3>3. CASE t # current /\ state'[t] = RUNNING /\ ~Overrun
      <4>1. /\ waited'[t] <= Share(t, current) + currentTicks[current] + n
            /\ Share(t, current) \in Nat /\ currentTicks[current] \in Nat
            /\ waited'[t] \in Nat
        <5>1. waited[t] \in Nat /\ waited[t] <= Share(t, current) + currentTicks[current]
          BY <3>3 DEF WaitInv
        <5>2. Share(t, current) \in Nat /\ currentTicks[current] \in Nat
          BY <3>3, ShareLimited DEF IInv, TypeOK
        <5> QED BY <2>4, <5>1, <5>2
      <4>2. /\ currentTicks[current] < maxTicks[current]
            /\ maxTicks[current] <= Slice(current)
            /\ Ticks = currentTicks[current] + 1
        BY <3>3, SliceLeft
      <4>3. CASE UNCHANGED current /\ currentTicks'[current] = currentTicks[current] + n
        BY <4>1, <4>3
      <4>4. CASE Sch_switchTask /\ (n = 1 => Ticks = maxTicks[current])
        <5>1. /\ current' = NextTask(state', current) /\ current' \in Task
              /\ current \in Task /\ Ahead(current, current') <= Ahead(current, t)
          <6>1. Runnable(state'[t]) /\ Runnable(state'[Idle]) /\ current \in Task
            BY <1>i, <3>3 DEF Runnable, IInv, TypeOK
          <6> QED BY <4>4, <6>1, NextTaskRuns DEF Sch_switchTask
        <5>2. current' # current /\ Ahead(current, current') < Ahead(current, t)
          BY <2>6, <3>3, <5>1, TasksAssumption DEF Ahead, Task
        <5>3. Share(t, current) + Slice(current) <= Share(t, current')
          BY <2>6, <3>3, <5>1, <5>2, ShareMoves
        <5>4. currentTicks[current] + n <= Slice(current)
              /\ Slice(current) \in Nat
          BY <4>1, <4>2, <4>4, TimesAssumption DEF Slice, IInv, TypeOK
        <5> QED BY <3>1, <4>1, <5>3, <5>4
      <4>5. currentTicks \in [Task -> 0 .. TickModulus - 1] /\ current \in Task
        BY DEF IInv, TypeOK
      <4> QED BY <2>2, <4>2, <4>3, <4>4, <4>5
    <3> QED BY <3>2, <3>3
  <2>7. ASSUME NEW t \in Task, (t = current \/ state[t] # RUNNING \/ Overrun)'
        PROVE  waited'[t] = 0
    BY <2>5, <2>7
  <2> QED BY <2>1, <2>3, <2>4, <2>6, <2>7 DEF WaitInv
<1>3. CASE WaitNext
  BY <1>2, <1>3, WaitStep DEF WaitNext
<1> QED BY <1>1, <1>3

\* For every number of tasks and every priority range, round robin makes a task
\* that can run wait for less than one slice of each of the others.
THEOREM Bounded == WaitSpec => []WaitBounded
<1>1. WaitInit => IInv /\ WaitInv
  <2> SUFFICES ASSUME WaitInit PROVE WaitInv
    BY InitIInv DEF WaitInit
  <2>1. Idle \in Task /\ A \in Task /\ 0 \in Nat
    BY TasksAssumption DEF Idle, A, Task
  <2>2. \A t \in Task : t # Idle => Share(t, Idle) \in Nat
    BY <2>1, ShareLimited
  <2> QED BY <2>1, <2>2 DEF WaitInit, Init, WaitInv
<1>2. IInv /\ WaitInv /\ [WaitNext]_<<vars, historyVars>> => IInv' /\ WaitInv'
  BY WaitStepIInv, WaitInvStep
<1>3. IInv /\ WaitInv => WaitBounded
  <2> SUFFICES ASSUME IInv, WaitInv, NEW t \in Task PROVE waited[t] < WaitLimit(t)
    BY DEF WaitBounded
  <2>1. WaitLimit(t) \in Nat \ {0}
    <3>1. PICK c \in Task : c # t
      BY TasksAssumption DEF Task
    <3>2. Share(t, c) \in Nat /\ Slice(c) \in Nat \ {0}
          /\ Share(t, c) + Slice(c) <= WaitLimit(t)
      BY <3>1, ShareLimited, TimesAssumption DEF Slice
    <3>3. WaitLimit(t) \in Int
      BY TasksAssumption, TimesAssumption DEF WaitLimit
    <3> QED BY <3>2, <3>3
  <2>2. CASE t = current \/ Overrun
    BY <2>1, <2>2 DEF WaitInv
  <2>3. CASE t # current /\ ~Overrun
    <3>1. current \in Task
      BY DEF IInv, TypeOK
    <3>2. /\ waited[t] \in Nat /\ waited[t] <= Share(t, current) + currentTicks[current]
          /\ currentTicks[current] \in Nat
      BY <2>3, <3>1 DEF WaitInv, IInv, TypeOK
    <3>3. /\ currentTicks[current] < Slice(current) /\ Slice(current) \in Nat
          /\ Share(t, current) \in Nat
          /\ Share(t, current) + Slice(current) <= WaitLimit(t)
      <4>1. /\ currentTicks[current] < maxTicks[current]
            /\ maxTicks[current] <= Slice(current) /\ maxTicks[current] \in Nat
        BY <2>3, SliceLeft DEF IInv, TypeOK
      <4>2. Slice(current) \in Nat
        BY TimesAssumption DEF Slice
      <4> QED BY <2>3, <3>1, <3>2, <4>1, <4>2, ShareLimited
    <3> QED BY <2>1, <3>2, <3>3
  <2> QED BY <2>2, <2>3
<1> QED BY <1>1, <1>2, <1>3, PTL DEF WaitSpec
=============================================================================
