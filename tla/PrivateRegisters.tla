--------------------------- MODULE PrivateRegisters ---------------------------
(***************************************************************************)
(* What a task that uses SIMD instructions may assume: the registers are   *)
(* its own, and change only by its own instructions, whoever else runs.    *)
(***************************************************************************)
CONSTANTS
  Task,      \* the tasks
  SimdTask,  \* those that use SIMD instructions
  Value,     \* the contents of the SIMD registers, taken together
  Zero       \* what a task finds in them at first

VARIABLES
  current,   \* the task that has the processor
  regs,      \* the registers of each task
  last       \* the last instruction: its task, what it found and what it left

vars == <<current, regs, last>>

Init ==
  /\ current \in Task
  /\ regs = [t \in SimdTask |-> Zero]
  /\ last = << >>

\* An instruction of the task that has the processor leaves v in its registers.
Execute(v) ==
  /\ current \in SimdTask
  /\ last' = <<current, regs[current], v>>
  /\ regs' = [regs EXCEPT ![current] = v]
  /\ UNCHANGED current

Run(t) ==
  /\ current' = t
  /\ UNCHANGED <<regs, last>>

Next ==
  \/ \E v \in Value : Execute(v)
  \/ \E t \in Task : Run(t)

Spec == Init /\ [][Next]_vars
=============================================================================
