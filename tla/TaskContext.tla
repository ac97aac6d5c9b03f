------------------------------ MODULE TaskContext ------------------------------
(***************************************************************************)
(* The context of a task in tp_01_15: LazyFpu with the general registers,  *)
(* the kernel stack of each task, where an interrupt leaves the place of   *)
(* the task and the handler some of its registers, and TSS.RSP0, where the *)
(* next interrupt of a task of level 3 will begin to write.                *)
(*                                                                         *)
(* A register is one of those that are treated in the same way: rdi stands *)
(* for rdx, rdi, rsi, rbp and r9 to r15.  (SwitchTo leaves r8 out, which no*)
(* task uses.)  Stacks are counted in words of 8 bytes from their tops.    *)
(* The handler of the keyboard puts back all it uses and returns to the    *)
(* task it interrupted: it has no action here.                             *)
(***************************************************************************)
EXTENDS LazyFpu, Integers, Sequences

CONSTANTS
  Sleeper,    \* the tasks that call mSleep
  Computing,  \* the tasks that use the general registers; Idle does not
  Word,       \* the contents of a register
  Kernel,     \* an address of the kernel, such as that of a task_struct
  First       \* what task_struct holds for a task that has not run yet

ASSUME ContextAssumption ==
  /\ Sleeper \subseteq Task \ {Idle} /\ Computing \subseteq Task \ {Idle}
  /\ Kernel \in Word /\ First \in Word

VARIABLES
  regs,    \* the general registers of the processor
  struct,  \* the task_struct of each task: RIP, RSP0, rcx and RDI
  stack,   \* the words on the kernel stack of each task, the last one first
  rsp0     \* TSS.RSP0: whose stack, and how many words above its top

contextVars == <<regs, struct, stack, rsp0>>

Reg == {"rax", "rbx", "rcx", "rdi"}

ContextInit ==
  /\ Init
  /\ regs = [r \in Reg |-> First]
  /\ struct = [t \in Task |->
       [rip |-> "entry", rsp |-> [of |-> t, at |-> 0], rcx |-> First, rdi |-> First]]
  /\ stack = [t \in Task |-> << >>]
  /\ rsp0 = [of |-> Idle, at |-> 0]

-----------------------------------------------------------------------------
(* Faulty variants, one for each property that must be able to fail.  No
   specification uses them. *)

\* SwitchCompleted does not count the return address of Sch_switchTask
AboveReturn(sp) == [sp EXCEPT !.at = @ + 7]

\* int0_end takes the registers in the order in which they were put
PoppedInOrder(words) ==
  IF words[1] = "Sch_main_end"
  THEN [rax |-> words[2], rbx |-> words[3]]
  ELSE [rax |-> Kernel, rbx |-> Kernel]

-----------------------------------------------------------------------------
(* The processor *)

\* An interrupt pushes rip, cs, rflags, rsp and ss at a multiple of 16 bytes: at
\* TSS.RSP0, or on the stack in use if the task has level 0, as only Idle has,
\* which hlt leaves at its top.
FrameAt == IF current = Idle THEN [of |-> Idle, at |-> 0]
                             ELSE [rsp0 EXCEPT !.at = @ - (@ % 2)]

-----------------------------------------------------------------------------
(* The two ways into Sch_switchTask: what they leave on the stack.  The timer's
   handler has pushed two registers, and each call its return address. *)

TimerWords ==
  <<"Sch_main_end", regs["rbx"], regs["rax"], "rip", "cs", "rflags", "rsp", "ss">>
SleepWords == <<"mSleep", "finInt80", "rip", "cs", "rflags", "rsp", "ss">>

\* What they take from it when the task is resumed: int0_end pops rbx and rax;
\* after mSleep rax and rbx are those of SwitchTo and SwitchCompleted.
Popped(words) ==
  IF words[1] = "Sch_main_end"
  THEN [rbx |-> words[2], rax |-> words[3]]
  ELSE [rbx |-> Kernel, rax |-> Kernel]

-----------------------------------------------------------------------------
(* SwitchTo *)

\* The task_struct of the task that leaves, from Sch_switchTask with these words
Saved(words, rcx) ==
  [rip |-> "SwitchCompleted", rsp |-> [FrameAt EXCEPT !.at = @ - Len(words)],
   rcx |-> rcx, rdi |-> regs["rdi"]]

\* A task that has not run yet finds in rax and rbx what SwitchTo left there.
Loaded(s, words) ==
  LET popped == IF s.rip = "entry" THEN [rbx |-> Kernel, rax |-> Kernel] ELSE Popped(words)
  IN  [rax |-> popped.rax, rbx |-> popped.rbx, rcx |-> s.rcx, rdi |-> s.rdi]

\* SwitchCompleted: the stack as it was before the interrupt of the timer
TopOf(sp) == [sp EXCEPT !.at = @ + 8]

\* From the current task, with these words on its stack and this rcx, to task t
SwitchContext(words, rcx, t) ==
  LET left == [stack EXCEPT ![FrameAt.of] = words]
  IN  /\ struct' = [struct EXCEPT ![current] = Saved(words, rcx)]
      /\ LET s == struct'[t]
         IN  /\ regs' = Loaded(s, left[s.rsp.of])
             /\ stack' = [left EXCEPT ![s.rsp.of] = << >>]
             /\ rsp0' = IF s.rip = "entry" THEN s.rsp ELSE TopOf(s.rsp)

-----------------------------------------------------------------------------
(* The handlers, and the instructions of the tasks *)

\* int0_TimerHandler within a slice.  Sch_DormantTsk_Update changes rcx.
TimerStays ==
  /\ regs' = [regs EXCEPT !["rcx"] = Kernel]
  /\ UNCHANGED <<vars, struct, stack, rsp0>>

\* int0_TimerHandler at the end of a slice; t may be the current task again
TimerSwitches(t) ==
  /\ SwitchContext(TimerWords, Kernel, t)
  /\ SwitchTo(t)

Timer == TimerStays \/ \E t \in Task : TimerSwitches(t)

mSleep(t) ==
  /\ current \in Sleeper
  /\ t # current
  /\ SwitchContext(SleepWords, regs["rcx"], t)
  /\ SwitchTo(t)

NotAvailable ==
  /\ ex7_NMHandler
  /\ regs' = [regs EXCEPT !["rbx"] = Kernel]
  /\ UNCHANGED <<struct, stack, rsp0>>

SimdInstruction ==
  /\ \E v \in Value : Execute(v)
  /\ UNCHANGED contextVars

\* An instruction of the task, or a service that returns a value.
Instruction(r) ==
  /\ current \in Computing
  /\ \E w \in Word : regs' = [regs EXCEPT ![r] = w]
  /\ UNCHANGED <<vars, struct, stack, rsp0>>

ContextNext ==
  \/ Timer
  \/ \E t \in Task : mSleep(t)
  \/ NotAvailable
  \/ SimdInstruction
  \/ \E r \in Reg : Instruction(r)

ContextSpec == ContextInit /\ [][ContextNext]_<<vars, contextVars>>

-----------------------------------------------------------------------------
(* Properties *)

ContextTypeOK ==
  /\ regs \in [Reg -> Word]
  /\ \A t \in Task : struct[t].rip \in {"entry", "SwitchCompleted"}
  /\ rsp0.of \in Task

\* The next interrupt of the current task begins at the top of its own stack,
\* although SwitchCompleted adds to the stack pointer what the timer's handler
\* has on the stack and mSleep has less; and all that a task without the
\* processor needs to go on is on its own stack, counted from the top.
OwnStack ==
  /\ FrameAt = [of |-> current, at |-> 0]
  /\ \A t \in Task \ {current} : struct[t].rsp = [of |-> t, at |-> - Len(stack[t])]

\* Each task has its stack, whichever way it left the processor.
ContextSafe == ContextTypeOK /\ OwnStack

\* What a task finds, or will find, in its registers.
Found(t) == IF t = current THEN regs ELSE Loaded(struct[t], stack[t])

\* The registers of a task change by its own instructions only, whatever other
\* tasks and handlers do, but for what the handlers that it enters forget: rcx at
\* each interrupt of the timer, rbx in exception 7, rax and rbx in mSleep.
RegistersKept ==
  [][\A t \in Task, r \in Reg : Found(t)[r]' # Found(t)[r] =>
       /\ t = current
       /\ \/ Instruction(r)
          \/ Timer /\ r = "rcx"
          \/ NotAvailable /\ r = "rbx"
          \/ (\E u \in Task : mSleep(u)) /\ r \in {"rax", "rbx"}]_<<vars, contextVars>>
=============================================================================
