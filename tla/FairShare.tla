------------------------------ MODULE FairShare ------------------------------
(***************************************************************************)
(* TaskScheduler with two history variables: for how many ticks each       *)
(* runnable task has been waiting for the processor, which tells how fair  *)
(* the round robin of Sch_switchTask is, and which tasks have called       *)
(* mSleep after they were removed from the list.                           *)
(*                                                                         *)
(* While A overruns its slice the others wait for the tick counter to wrap *)
(* (MCSchedSliceOverrun.cfg): their waiting is counted from its end on.    *)
(***************************************************************************)
EXTENDS TaskScheduler

VARIABLES waited, dozed

historyVars == <<waited, dozed>>

\* A has used as many ticks as its slice has, or more, and goes on
Overrun == currentTicks[A] >= maxTicks[A]

\* The ticks after which a task has waited too long: the slices of all the
\* others, and Idle has a slice of one tick.
WaitLimit(t) ==
  IF t = Idle THEN NUser * MaxPriority ELSE (NUser - 1) * MaxPriority + 1

\* The histories after a handler during which n ticks passed.  The wait stops
\* at the limit.
Longer(t, n) ==
  IF waited[t] + n > WaitLimit(t) THEN WaitLimit(t) ELSE waited[t] + n
Waiting(n) ==
  /\ waited' = [t \in Task |->
                  IF t \in {current, current'} \/ state'[t] # RUNNING \/ Overrun \/ Overrun'
                  THEN 0 ELSE Longer(t, n)]
  /\ dozed' = removed' \cap (dozed \cup {t \in removed : state'[t] = DORMANT})

WaitInit == Init /\ waited = [t \in Task |-> 0] /\ dozed = {}
WaitNext == (Tick /\ Waiting(1)) \/ (CallOrKey /\ Waiting(0))
WaitSpec == WaitInit /\ [][WaitNext]_<<vars, historyVars>>

\* The timer interrupts for ever; nobody has to press a key or to sleep.
FairWaitSpec == WaitSpec /\ WF_<<vars, historyVars>>(Tick /\ Waiting(1))

\* Round robin: a task that can run waits for less than one slice of each of the
\* others, however the others sleep, wake, leave the list or join it, and
\* however the keys change the slice of A, but for the ticks that A overruns.
WaitBounded == \A t \in Task : waited[t] < WaitLimit(t)

\* A task taken out of the list with its key does not get the processor again
\* before it is added with its key: unless it called mSleep in what was left of
\* its slice, after which the scheduler wakes it as any other.
RemovedStaysOut ==
  [][current' # current => current' \notin removed \ dozed]_<<vars, historyVars>>

\* A task that can run gets the processor in the end, unless it is removed or
\* the keys make A overrun its slice again and again.
NoStarvation ==
  \A t \in Task : (state[t] = RUNNING) ~> (current = t \/ state[t] # RUNNING \/ Overrun)

\* Nobody is forgotten: every sleep ends and every task that can run gets the
\* processor, but for removals and for A's overruns.
EveryTaskRuns == SleepEnds /\ NoStarvation
=============================================================================
