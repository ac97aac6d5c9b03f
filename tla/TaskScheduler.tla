---------------------------- MODULE TaskScheduler ----------------------------
(***************************************************************************)
(* The scheduler of the microkernel of tp_01_15: a circular list of tasks, *)
(* Idle first, on which the timer interrupt gives each runnable task a     *)
(* slice of prioridad_maxTicks ticks, the service mSleep puts the current  *)
(* task to sleep, and the keyboard interrupt adds tasks to the list,       *)
(* removes them and changes the priority of task A.                        *)
(*                                                                         *)
(* All gates of the IDT are interrupt gates, so every handler runs to its  *)
(* iretq with interrupts disabled: each one is a single action.  What the  *)
(* task that is switched to finds on its stack, the registers and CR3 are  *)
(* not part of this module.  The counter totalTicks, which only jiffies    *)
(* reads, is left out.                                                     *)
(***************************************************************************)
EXTENDS Integers

CONSTANTS
  NUser,         \* the user tasks are 1 .. NUser, A is task 1
  Keyed,         \* the tasks that the keys 7, 8, 9 and 0 add and remove
  Sleepers,      \* the tasks that call mSleep
  SleepTimes,    \* the milliseconds they ask for
  MaxPriority,   \* MAX_PRIORITY of the keyboard handler
  TickModulus,   \* 2^16: currentTicks is a word
  Keys           \* the keys the user presses, among KeyNames

KeyNames == {"ctl", "add", "q", "w"}

ASSUME TasksAssumption ==
  /\ NUser \in Nat \ {0}
  /\ Keyed \subseteq 1 .. NUser
  /\ Sleepers \subseteq 1 .. NUser
ASSUME TimesAssumption ==
  /\ SleepTimes \subseteq Nat \ {0}
  /\ MaxPriority \in Nat \ {0}
  /\ TickModulus \in Nat /\ TickModulus > MaxPriority
ASSUME KeysAssumption == Keys \subseteq KeyNames

VARIABLES
  current,      \* Current_disp_Task
  state, currentTicks, maxTicks, orgTicks, sleepMS, \* the fields of a task
  ctl,          \* variable_ctl_pressed
  removed       \* history: tasks removed with a key and not added since

taskVars == <<state, currentTicks, maxTicks, orgTicks, sleepMS>>
vars == <<current, taskVars, ctl, removed>>

Idle == 0
A == 1
Task == 0 .. NUser

READY == 0    \* out of the list: the scheduler skips the task
RUNNING == 1
DORMANT == 2

Init ==
  /\ current = Idle
  /\ state = [t \in Task |-> RUNNING]
  /\ currentTicks = [t \in Task |-> 0]
  /\ maxTicks = [t \in Task |-> IF t = Idle THEN 1 ELSE MaxPriority]
  /\ orgTicks = maxTicks
  /\ sleepMS = [t \in Task |-> 0]
  /\ ctl = 0
  /\ removed = {}

-----------------------------------------------------------------------------
(* Faulty variants, one for each property that must be able to fail.  No
   specification uses them. *)

\* only READY tasks are skipped
RunnableNoSleep(s) == s # READY

\* only sleeping tasks are skipped
RunnableRemoved(s) == s # DORMANT

\* a task that wakes is left out of the list
WakeReady(t, ms) ==
  IF state[t] = DORMANT /\ ms = 0 THEN READY ELSE state[t]

\* the slice of the task that leaves is not reset
LeaveTicksKept == currentTicks

\* the search starts again from Idle
AheadFromIdle(t, u) == IF u = t THEN NUser + 1 ELSE u

-----------------------------------------------------------------------------
(* Sch_switchTask *)

\* The states that the loop Ts does not skip.
Runnable(s) == s \notin {READY, DORMANT}

\* How many times Ts follows .next to get from task t to task u.
Ahead(t, u) == IF u > t THEN u - t ELSE u - t + NUser + 1

\* The task the loop Ts stops at: the nearest one ahead that can run.
NextTask(st, t) ==
  CHOOSE u \in Task :
    /\ Runnable(st[u])
    /\ \A v \in Task : Runnable(st[v]) => Ahead(t, u) <= Ahead(t, v)

LeaveTicks == [currentTicks EXCEPT ![current] = 0]

Sch_switchTask ==
  /\ currentTicks' = LeaveTicks
  /\ current' = NextTask(state', current)

-----------------------------------------------------------------------------
(* int0_TimerHandler *)

SleepLeft(t) == IF state[t] = DORMANT THEN sleepMS[t] - 1 ELSE sleepMS[t]
Wake(t, ms) ==
  IF state[t] = DORMANT /\ ms = 0 THEN RUNNING ELSE state[t]

Sch_DormantTsk_Update ==
  /\ sleepMS' = [t \in Task |-> SleepLeft(t)]
  /\ state' = [t \in Task |-> Wake(t, sleepMS'[t])]

Ticks == (currentTicks[current] + 1) % TickModulus

\* Sch_main compares for equality
Tick ==
  /\ Sch_DormantTsk_Update
  /\ \/ /\ Ticks # maxTicks[current]
        /\ currentTicks' = [currentTicks EXCEPT ![current] = Ticks]
        /\ UNCHANGED current
     \/ /\ Ticks = maxTicks[current]
        /\ Sch_switchTask
  /\ UNCHANGED <<maxTicks, orgTicks, ctl, removed>>

-----------------------------------------------------------------------------
(* Int80Han, service S_MSLEEP *)

mSleep(ms) ==
  /\ current \in Sleepers
  /\ sleepMS' = [sleepMS EXCEPT ![current] = ms]
  /\ state' = [state EXCEPT ![current] = DORMANT]
  /\ Sch_switchTask
  /\ UNCHANGED <<maxTicks, orgTicks, ctl, removed>>

-----------------------------------------------------------------------------
(* int9_keyboardHandler *)

KeyCtl ==
  /\ "ctl" \in Keys
  /\ ctl' = 1 - ctl
  /\ UNCHANGED <<current, taskVars, removed>>

\* one of 7, 8, 9, 0 without ctl: the task joins the list
KeyAdd(t) ==
  /\ "add" \in Keys
  /\ ctl = 0
  /\ state' = [state EXCEPT ![t] = RUNNING]
  /\ removed' = removed \ {t}
  /\ UNCHANGED <<current, currentTicks, maxTicks, orgTicks, sleepMS, ctl>>

\* one of 7, 8, 9, 0 with ctl: the task leaves the list
KeyRemove(t) ==
  /\ "add" \in Keys
  /\ ctl = 1
  /\ state' = [state EXCEPT ![t] = READY]
  /\ removed' = removed \cup {t}
  /\ UNCHANGED <<current, currentTicks, maxTicks, orgTicks, sleepMS, ctl>>

\* The double word that w writes at its limit covers prioridad_maxTicks and
\* prioridad_orgTicks.
KeyW ==
  /\ "w" \in Keys
  /\ IF maxTicks[A] + 1 > MaxPriority
     THEN /\ maxTicks' = [maxTicks EXCEPT ![A] = MaxPriority]
          /\ orgTicks' = [orgTicks EXCEPT ![A] = 0]
     ELSE /\ maxTicks' = [maxTicks EXCEPT ![A] = @ + 1]
          /\ UNCHANGED orgTicks
  /\ UNCHANGED <<current, state, currentTicks, sleepMS, ctl, removed>>

\* never below MIN_PRIORITY
Lower(n) == IF n - 1 < 1 THEN 1 ELSE n - 1

KeyQ ==
  /\ "q" \in Keys
  /\ maxTicks' = [maxTicks EXCEPT ![A] = Lower(@)]
  /\ UNCHANGED <<current, state, currentTicks, orgTicks, sleepMS, ctl, removed>>

-----------------------------------------------------------------------------

CallOrKey ==
  \/ \E ms \in SleepTimes : mSleep(ms)
  \/ KeyCtl
  \/ \E t \in Keyed : KeyAdd(t) \/ KeyRemove(t)
  \/ KeyW \/ KeyQ

Next == Tick \/ CallOrKey

Spec == Init /\ [][Next]_vars

-----------------------------------------------------------------------------
(* Properties *)

TypeOK ==
  /\ current \in Task
  /\ state \in [Task -> {READY, RUNNING, DORMANT}]
  /\ currentTicks \in [Task -> 0 .. TickModulus - 1]
  /\ maxTicks \in [Task -> 1 .. MaxPriority]
  /\ orgTicks \in [Task -> 0 .. MaxPriority]
  /\ sleepMS \in [Task -> Nat]
  /\ ctl \in {0, 1}
  /\ removed \subseteq Keyed

\* The processor is never given to a sleeping task, whatever the order of
\* ticks, calls of mSleep and keys; a task that sleeps has time left, so that
\* its counter never passes below zero.
SleepersAsleep ==
  /\ state[current] # DORMANT
  /\ \A t \in Task : state[t] = DORMANT => sleepMS[t] > 0

\* Whatever interrupts whatever, the scheduler finds a task that can run, no
\* sleeping task is given the processor, and no counter leaves its range.
Safe == TypeOK /\ SleepersAsleep

\* No task but A, the one whose priority the keys change, is kept longer than
\* its slice, and a slice always starts from zero.
SlicesRespected ==
  \A t \in Task \ {A} :
    /\ currentTicks[t] < maxTicks[t]
    /\ t # current => currentTicks[t] = 0

\* The processor is taken from a task after at most as many ticks as the
\* highest priority there is.
SliceWithinRange == \A t \in Task : currentTicks[t] < MaxPriority

\* A task that sleeps is in the list again in the end, unless it was removed.
SleepEnds ==
  \A t \in Task : (state[t] = DORMANT) ~> (state[t] = RUNNING \/ t \in removed)
=============================================================================
