------------------------------- MODULE LazyFpu -------------------------------
(***************************************************************************)
(* The context of the SIMD registers in tp_01_15.  SwitchTo saves them only*)
(* if the task that leaves has used them (CR0.TS is clear), and nobody     *)
(* loads them before the next SIMD instruction raises exception 7, whose   *)
(* handler ex7_NMHandler restores those of the current task.               *)
(*                                                                         *)
(* Which task the scheduler chooses is the subject of TaskScheduler: here  *)
(* it may be any.  Both handlers run with interrupts disabled; between the *)
(* return of ex7_NMHandler and the instruction that raised the exception   *)
(* the timer may interrupt.                                                *)
(***************************************************************************)
CONSTANTS
  Task,      \* the tasks of the list
  Idle,      \* the one that runs when interrupts are enabled
  SimdTask,  \* E and F, the tasks whose task_struct.MMX is not 0
  Value,     \* the contents of the SIMD registers, taken together
  Zero       \* the contents of SIMD_R_TaskE and SIMD_R_TaskF at first

ASSUME TaskAssumption == Idle \in Task /\ SimdTask \subseteq Task
ASSUME ValueAssumption == Zero \in Value

VARIABLES
  current,   \* Current_disp_Task
  ts,        \* CR0.TS
  hw,        \* the SIMD registers of the processor
  area,      \* what task_struct.MMX points to
  nullSave,  \* history: SwitchTo has executed fxsave for a task without area
  last       \* history: the last SIMD instruction, with its task, what it
             \* found in the registers and what it left there

vars == <<current, ts, hw, area, nullSave, last>>

\* SIMD_Init sets CR0.TS before interrupts are enabled.
Init ==
  /\ current = Idle
  /\ ts = 1
  /\ hw \in Value
  /\ area = [t \in SimdTask |-> Zero]
  /\ nullSave = FALSE
  /\ last = << >>

-----------------------------------------------------------------------------
(* Faulty variants, one for each property that must be able to fail.  No
   specification uses them. *)

\* saveSIMD does not set CR0.TS again
TsAfterSaveClear == 0

\* the exception is taken as a sign that the registers are already there
RestoredNot(t) == hw

-----------------------------------------------------------------------------

TsAfterSave == 1

\* SwitchTo, for the task that leaves and the task t that comes
SwitchTo(t) ==
  /\ \/ /\ ts = 0 /\ current \in SimdTask
        /\ area' = [area EXCEPT ![current] = hw]
        /\ ts' = TsAfterSave
        /\ UNCHANGED nullSave
     \/ /\ ts = 0 /\ current \notin SimdTask
        /\ nullSave' = TRUE
        /\ ts' = TsAfterSave
        /\ UNCHANGED area
     \/ /\ ts = 1
        /\ UNCHANGED <<area, ts, nullSave>>
  /\ current' = t
  /\ UNCHANGED <<hw, last>>

Restored(t) == area[t]

Cleared == 0

\* A SIMD instruction while CR0.TS is set: clts, fxrstor.
ex7_NMHandler ==
  /\ current \in SimdTask
  /\ ts = 1
  /\ ts' = Cleared
  /\ hw' = Restored(current)
  /\ UNCHANGED <<current, area, nullSave, last>>

\* A SIMD instruction while CR0.TS is clear.
Execute(v) ==
  /\ current \in SimdTask
  /\ ts = 0
  /\ hw' = v
  /\ last' = <<current, hw, v>>
  /\ UNCHANGED <<current, ts, area, nullSave>>

Next ==
  \/ \E t \in Task : SwitchTo(t)
  \/ ex7_NMHandler
  \/ \E v \in Value : Execute(v)

Spec == Init /\ [][Next]_vars

-----------------------------------------------------------------------------
(* Properties *)

TypeOK ==
  /\ current \in Task
  /\ ts \in {0, 1}
  /\ hw \in Value
  /\ area \in [SimdTask -> Value]
  /\ nullSave \in BOOLEAN
  /\ last \in {<< >>} \cup (SimdTask \X Value \X Value)

\* The registers are never saved at address 0, the MMX field of the tasks that
\* have no area: whenever such a task has the processor, CR0.TS is set.
NoNullSave == ~ nullSave /\ (current \notin SimdTask => ts = 1)

\* CR0.TS and the areas are kept such that every save has an area to go to.
Safe == TypeOK /\ NoNullSave

\* The registers a task sees are those of the processor if it has used them
\* since it got the processor, and those of its area otherwise.
Seen(t) == IF t = current /\ ts = 0 THEN hw ELSE area[t]

Private == INSTANCE PrivateRegisters WITH
  regs <- [t \in SimdTask |-> Seen(t)]

\* Lazy saving and restoring cannot be told from registers of one's own.
RegistersPrivate == Private!Spec
=============================================================================
