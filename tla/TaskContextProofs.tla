--------------------------- MODULE TaskContextProofs ---------------------------
(***************************************************************************)
(* Proofs about LazyFpu and TaskContext, for any tasks, whichever of them  *)
(* sleep, use SIMD registers or the general ones, and any contents of the  *)
(* registers.                                                              *)
(***************************************************************************)
EXTENDS TaskContext, TLAPS

-----------------------------------------------------------------------------
(* LazyFpu: the SIMD registers alone *)

IInv == TypeOK /\ NoNullSave

LEMMA Initially == Init => IInv
  BY TaskAssumption, ValueAssumption DEF Init, IInv, TypeOK, NoNullSave

LEMMA Inductive == IInv /\ [Next]_vars => IInv'
<1> SUFFICES ASSUME IInv, [Next]_vars PROVE IInv'
  OBVIOUS
<1> USE TaskAssumption DEF IInv, TypeOK, NoNullSave
<1>1. ASSUME NEW t \in Task, SwitchTo(t) PROVE IInv'
  BY <1>1 DEF SwitchTo, TsAfterSave
<1>2. CASE ex7_NMHandler
  BY <1>2 DEF ex7_NMHandler, Restored, Cleared
<1>3. ASSUME NEW v \in Value, Execute(v) PROVE IInv'
  BY <1>3 DEF Execute
<1>4. CASE UNCHANGED vars
  BY <1>4 DEF vars
<1> QED BY <1>1, <1>2, <1>3, <1>4 DEF Next

LEMMA Invariance == Spec => []IInv
  BY Initially, Inductive, PTL DEF Spec

\* For every set of tasks, the registers, their areas and CR0.TS stay in their
\* types, and the registers are never saved where no area is.
THEOREM Safety == Spec => []Safe
<1>1. IInv => Safe
  BY DEF IInv, Safe
<1> QED BY <1>1, Invariance, PTL

LEMMA InitPrivate == Init => Private!Init
  BY TaskAssumption DEF Init, Private!Init, Seen

LEMMA NextPrivate == IInv /\ [Next]_vars => [Private!Next]_(Private!vars)
<1> SUFFICES ASSUME IInv, [Next]_vars PROVE [Private!Next]_(Private!vars)
  OBVIOUS
<1> DEFINE own == [t \in SimdTask |-> Seen(t)]
<1> USE DEF IInv, TypeOK, NoNullSave
<1>1. ASSUME NEW t \in Task, SwitchTo(t) PROVE Private!Next
  <2>1. \A u \in SimdTask : Seen(u)' = Seen(u)
    BY <1>1 DEF SwitchTo, TsAfterSave, Seen
  <2>2. own' = own
    BY <2>1
  <2>3. Private!Run(t)
    BY <1>1, <2>2 DEF SwitchTo, Private!Run
  <2> QED BY <2>3 DEF Private!Next
<1>2. ASSUME ex7_NMHandler PROVE UNCHANGED Private!vars
  <2>1. \A u \in SimdTask : Seen(u)' = Seen(u)
    BY <1>2 DEF ex7_NMHandler, Restored, Cleared, Seen
  <2>2. own' = own
    BY <2>1
  <2> QED BY <1>2, <2>2 DEF ex7_NMHandler, Private!vars
<1>3. ASSUME NEW v \in Value, Execute(v) PROVE Private!Next
  <2>1. hw = own[current] /\ current \in SimdTask /\ hw \in Value
    BY <1>3 DEF Execute, Seen
  <2>2. own' = [own EXCEPT ![current] = v]
    BY <1>3 DEF Execute, Seen
  <2>3. Private!Execute(v)
    BY <1>3, <2>1, <2>2 DEF Execute, Private!Execute
  <2> QED BY <2>3 DEF Private!Next
<1>4. ASSUME UNCHANGED vars PROVE UNCHANGED Private!vars
  BY <1>4 DEF vars, Seen, Private!vars
<1> QED BY <1>1, <1>2, <1>3, <1>4 DEF Next

\* Every task that uses SIMD instructions has registers of its own.
THEOREM Implementation == Spec => RegistersPrivate
  BY Invariance, InitPrivate, NextPrivate, PTL
  DEF Spec, RegistersPrivate, Private!Spec

-----------------------------------------------------------------------------
(* The whole context *)

\* A step of the whole context is a step of LazyFpu or leaves its variables.
LEMMA LazyStep == ContextNext => [Next]_vars
  BY ContextAssumption
  DEF ContextNext, Timer, TimerStays, TimerSwitches, mSleep, NotAvailable,
      SimdInstruction, Instruction, Next

\* With general registers and stacks, the SIMD registers are kept as in LazyFpu.
LEMMA Composition == ContextSpec => Spec
<1>1. ContextInit => Init
  BY DEF ContextInit
<1>2. [ContextNext]_<<vars, contextVars>> => [Next]_vars
  BY LazyStep DEF vars
<1> QED BY <1>1, <1>2, PTL DEF ContextSpec, Spec

\* The SIMD registers have an area to be saved to, whatever the handlers do with
\* the general registers.
THEOREM SimdSafety == ContextSpec => []Safe
  BY Composition, Safety, PTL

\* The SIMD registers are private, whatever the handlers do with the general ones.
THEOREM SimdPrivate == ContextSpec => RegistersPrivate
  BY Composition, Implementation, PTL

-----------------------------------------------------------------------------
(* The words that the two ways into Sch_switchTask leave on a stack *)

TimerLeft(b, a) == <<"Sch_main_end", b, a, "rip", "cs", "rflags", "rsp", "ss">>

LEMMA Lengths ==
  /\ \A a, b : Len(TimerLeft(b, a)) = 8
  /\ Len(SleepWords) = 7
  BY DEF TimerLeft, SleepWords

LEMMA PoppedLeft ==
  /\ \A a, b : Popped(TimerLeft(b, a)) = [rbx |-> b, rax |-> a]
  /\ Popped(SleepWords) = [rbx |-> Kernel, rax |-> Kernel]
  BY DEF Popped, TimerLeft, SleepWords

\* The ways in which a task can be without the processor: what struct[t] and
\* stack[t] hold, given as s and words.
Fresh(t, s, words) ==
  /\ s.rip = "entry"
  /\ s.rsp = [of |-> t, at |-> 0]
  /\ words = << >>
Interrupted(t, s, words) ==
  /\ s.rip = "SwitchCompleted"
  /\ s.rsp = [of |-> t, at |-> -8]
  /\ \E a, b \in Word : words = TimerLeft(b, a)
Asleep(t, s, words) ==
  /\ s.rip = "SwitchCompleted"
  /\ s.rsp = [of |-> t, at |-> -7]
  /\ words = SleepWords
Away(t, s, words) ==
  Fresh(t, s, words) \/ Interrupted(t, s, words) \/ Asleep(t, s, words)

TaskStruct ==
  [rip : {"entry", "SwitchCompleted"}, rsp : [of : Task, at : Int], rcx : Word, rdi : Word]

\* The inductive invariant: TSS.RSP0 is the top of the stack of the current task,
\* or one word above it if the task has slept.
CInv ==
  /\ current \in Task
  /\ regs \in [Reg -> Word]
  /\ struct \in [Task -> TaskStruct]
  /\ stack = [t \in Task |-> stack[t]]
  /\ rsp0 \in [of : {current}, at : {0, 1}]
  /\ stack[current] = << >>
  /\ \A t \in Task \ {current} : Away(t, struct[t], stack[t])

LEMMA FrameAtTop == CInv => FrameAt = [of |-> current, at |-> 0]
<1> SUFFICES ASSUME CInv PROVE FrameAt = [of |-> current, at |-> 0]
  OBVIOUS
<1>1. PICK n \in {0, 1} : rsp0 = [of |-> current, at |-> n]
  BY DEF CInv
<1>2. n - (n % 2) = 0
  BY <1>1
<1>3. [rsp0 EXCEPT !.at = @ - (@ % 2)] = [of |-> current, at |-> 0]
  BY <1>1, <1>2
<1> QED BY <1>3 DEF FrameAt

\* What a task that goes on finds in its registers has the right type, and TSS.RSP0
\* points to the top of its stack.
LEMMA Resumed ==
  ASSUME NEW t, NEW s \in TaskStruct, NEW words, Away(t, s, words)
  PROVE  /\ Loaded(s, words) \in [Reg -> Word]
         /\ s.rsp.of = t
         /\ (IF s.rip = "entry" THEN s.rsp ELSE TopOf(s.rsp)) \in [of : {t}, at : {0, 1}]
<1>0. s.rcx \in Word /\ s.rdi \in Word /\ Kernel \in Word
  BY ContextAssumption DEF TaskStruct
<1>1. CASE Fresh(t, s, words)
  BY <1>0, <1>1 DEF Fresh, Loaded, Reg
<1>2. CASE Interrupted(t, s, words)
  <2>1. PICK a, b \in Word : words = TimerLeft(b, a)
    BY <1>2 DEF Interrupted
  <2>2. Popped(words) = [rbx |-> b, rax |-> a]
    BY <2>1, PoppedLeft
  <2> QED BY <1>0, <1>2, <2>2 DEF Interrupted, Loaded, Reg, TopOf
<1>3. CASE Asleep(t, s, words)
  <2>1. Popped(words) = [rbx |-> Kernel, rax |-> Kernel]
    BY <1>3, PoppedLeft DEF Asleep
  <2> QED BY <1>0, <1>3, <2>1 DEF Asleep, Loaded, Reg, TopOf
<1> QED BY <1>1, <1>2, <1>3 DEF Away

-----------------------------------------------------------------------------
(* A switch *)

\* The task that leaves, u, and all others are away then, by the words that the
\* handler has left; the task that comes, t, finds what was saved for it.
LEMMA Switched ==
  ASSUME CInv, NEW words, NEW rcx \in Word, NEW t \in Task,
         SwitchContext(words, rcx, t), current' = t,
         Away(current, Saved(words, rcx), words)
  PROVE  /\ CInv'
         /\ regs' = IF t = current THEN Loaded(Saved(words, rcx), words)
                                   ELSE Loaded(struct[t], stack[t])
         /\ \A u \in Task \ {t} :
              IF u = current THEN struct'[u] = Saved(words, rcx) /\ stack'[u] = words
                             ELSE struct'[u] = struct[u] /\ stack'[u] = stack[u]
<1> DEFINE left == [stack EXCEPT ![current] = words]
           s == struct'[t]
<1>1. FrameAt = [of |-> current, at |-> 0]
  BY FrameAtTop
<1>2. /\ struct' = [struct EXCEPT ![current] = Saved(words, rcx)]
      /\ regs' = Loaded(s, left[s.rsp.of])
      /\ stack' = [left EXCEPT ![s.rsp.of] = << >>]
      /\ rsp0' = IF s.rip = "entry" THEN s.rsp ELSE TopOf(s.rsp)
  BY <1>1 DEF SwitchContext
<1>3. Saved(words, rcx) \in TaskStruct
  <2>1. Saved(words, rcx).rsp \in [of : Task, at : Int]
    BY DEF Away, Fresh, Interrupted, Asleep, CInv
  <2>2. regs["rdi"] \in Word
    BY DEF CInv, Reg
  <2> QED BY <2>1, <2>2 DEF Saved, TaskStruct
<1>4. struct' \in [Task -> TaskStruct]
  BY <1>2, <1>3 DEF CInv
<1>5. \A u \in Task : Away(u, struct'[u], left[u])
  BY <1>2 DEF CInv
<1>6. /\ Loaded(s, left[t]) \in [Reg -> Word]
      /\ s.rsp.of = t
      /\ rsp0' \in [of : {t}, at : {0, 1}]
  BY <1>2, <1>4, <1>5, Resumed
<1>7. stack' = [left EXCEPT ![t] = << >>] /\ regs' = Loaded(s, left[t])
  BY <1>2, <1>6
<1>8. /\ stack' = [u \in Task |-> stack'[u]]
      /\ stack'[t] = << >>
      /\ \A u \in Task \ {t} : stack'[u] = left[u]
  BY <1>7 DEF CInv
<1>9. CInv'
  BY <1>4, <1>5, <1>6, <1>7, <1>8 DEF CInv
<1>10. \A u \in Task : IF u = current THEN struct'[u] = Saved(words, rcx) /\ left[u] = words
                                      ELSE struct'[u] = struct[u] /\ left[u] = stack[u]
  BY <1>2 DEF CInv
<1> QED BY <1>7, <1>8, <1>9, <1>10

LEMMA TimerLeaves ==
  ASSUME CInv
  PROVE  Away(current, Saved(TimerWords, Kernel), TimerWords)
<1>1. regs["rax"] \in Word /\ regs["rbx"] \in Word
  BY DEF CInv, Reg
<1>2. Saved(TimerWords, Kernel).rsp = [of |-> current, at |-> -8]
  BY FrameAtTop, Lengths DEF Saved, TimerWords, TimerLeft
<1>3. Saved(TimerWords, Kernel).rip = "SwitchCompleted"
  BY DEF Saved
<1> QED BY <1>1, <1>2, <1>3 DEF Away, Interrupted, TimerWords, TimerLeft

LEMMA SleepLeaves ==
  ASSUME CInv
  PROVE  Away(current, Saved(SleepWords, regs["rcx"]), SleepWords)
<1>1. Saved(SleepWords, regs["rcx"]).rsp = [of |-> current, at |-> -7]
  BY FrameAtTop, Lengths DEF Saved
<1>2. Saved(SleepWords, regs["rcx"]).rip = "SwitchCompleted"
  BY DEF Saved
<1> QED BY <1>1, <1>2 DEF Away, Asleep

-----------------------------------------------------------------------------

LEMMA InitCInv == ContextInit => CInv
  BY TaskAssumption, ContextAssumption
  DEF ContextInit, Init, CInv, TaskStruct, Away, Fresh

LEMMA StepCInv == CInv /\ [ContextNext]_<<vars, contextVars>> => CInv'
<1> SUFFICES ASSUME CInv, [ContextNext]_<<vars, contextVars>> PROVE CInv'
  OBVIOUS
<1>a. Kernel \in Word
  BY ContextAssumption
<1>1. CASE TimerStays
  BY <1>a, <1>1 DEF TimerStays, vars, CInv
<1>2. ASSUME NEW t \in Task, TimerSwitches(t) PROVE CInv'
  BY <1>a, <1>2, TimerLeaves, Switched DEF TimerSwitches, SwitchTo
<1>3. ASSUME NEW t \in Task, mSleep(t) PROVE CInv'
  <2>1. regs["rcx"] \in Word
    BY DEF CInv, Reg
  <2> QED BY <1>3, <2>1, SleepLeaves, Switched DEF mSleep, SwitchTo
<1>4. CASE NotAvailable
  BY <1>a, <1>4 DEF NotAvailable, ex7_NMHandler, CInv
<1>5. CASE SimdInstruction
  BY <1>5 DEF SimdInstruction, Execute, contextVars, CInv
<1>6. ASSUME NEW r \in Reg, Instruction(r) PROVE CInv'
  BY <1>6 DEF Instruction, vars, CInv
<1>7. CASE UNCHANGED <<vars, contextVars>>
  BY <1>7 DEF vars, contextVars, CInv
<1> QED BY <1>1, <1>2, <1>3, <1>4, <1>5, <1>6, <1>7 DEF ContextNext, Timer

LEMMA ContextInvariance == ContextSpec => []CInv
  BY InitCInv, StepCInv, PTL DEF ContextSpec

\* For any tasks, each has its kernel stack: the next interrupt of the current one
\* begins at the top of its own, and what the others left is on theirs.
THEOREM Stacks == ContextSpec => []ContextSafe
<1> SUFFICES ASSUME CInv PROVE ContextSafe
  BY ContextInvariance, PTL
<1>1. ContextTypeOK
  BY DEF CInv, ContextTypeOK, TaskStruct
<1>2. ASSUME NEW t \in Task \ {current}
      PROVE  struct[t].rsp = [of |-> t, at |-> - Len(stack[t])]
  <2>1. Away(t, struct[t], stack[t])
    BY DEF CInv
  <2>2. CASE Fresh(t, struct[t], stack[t])
    BY <2>2 DEF Fresh
  <2>3. CASE Interrupted(t, struct[t], stack[t])
    <3>1. Len(stack[t]) = 8
      BY <2>3, Lengths DEF Interrupted
    <3> QED BY <2>3, <3>1 DEF Interrupted
  <2>4. CASE Asleep(t, struct[t], stack[t])
    <3>1. Len(stack[t]) = 7
      BY <2>4, Lengths DEF Asleep
    <3> QED BY <2>4, <3>1 DEF Asleep
  <2> QED BY <2>1, <2>2, <2>3, <2>4 DEF Away
<1> QED BY <1>1, <1>2, FrameAtTop DEF ContextSafe, OwnStack

-----------------------------------------------------------------------------
(* What a task finds in its registers *)

\* A switch changes only the registers of the task that leaves, and those as the
\* handler has left them.
LEMMA SwitchKeeps ==
  ASSUME CInv, NEW words, NEW rcx \in Word, NEW t \in Task,
         SwitchContext(words, rcx, t), current' = t,
         Away(current, Saved(words, rcx), words)
  PROVE  \A u \in Task :
           Found(u)' = IF u = current THEN Loaded(Saved(words, rcx), words) ELSE Found(u)
<1>1. ASSUME NEW u \in Task
      PROVE  Found(u)' = IF u = t THEN regs' ELSE Loaded(struct'[u], stack'[u])
  BY DEF Found, Loaded, Popped
<1> QED BY <1>1, Switched DEF Found

\* What int0_end pops is what int0_TimerHandler has pushed.
LEMMA TimerKeeps ==
  ASSUME CInv, NEW r \in Reg, r # "rcx"
  PROVE  Loaded(Saved(TimerWords, Kernel), TimerWords)[r] = regs[r]
<1>1. Popped(TimerWords) = [rbx |-> regs["rbx"], rax |-> regs["rax"]]
  BY PoppedLeft DEF TimerWords, TimerLeft
<1> QED BY <1>1 DEF Loaded, Saved, Reg

LEMMA SleepKeeps ==
  ASSUME CInv, NEW r \in Reg, r \notin {"rax", "rbx"}
  PROVE  Loaded(Saved(SleepWords, regs["rcx"]), SleepWords)[r] = regs[r]
  BY PoppedLeft DEF Loaded, Saved, Reg

\* For any tasks and any contents: no handler and no other task changes a register
\* of a task, but for those that the handlers it enters forget.
THEOREM Kept == ContextSpec => RegistersKept
<1> DEFINE Excused(t, r) ==
      /\ t = current
      /\ \/ Instruction(r)
         \/ Timer /\ r = "rcx"
         \/ NotAvailable /\ r = "rbx"
         \/ (\E u \in Task : mSleep(u)) /\ r \in {"rax", "rbx"}
<1>1. ASSUME CInv, ContextNext, NEW t \in Task, NEW r \in Reg, Found(t)[r]' # Found(t)[r]
      PROVE  Excused(t, r)
  <2>1. CASE TimerStays
    BY <1>1, <2>1 DEF TimerStays, Timer, vars, CInv, Found, Loaded, Popped
  <2>2. ASSUME NEW u \in Task, TimerSwitches(u) PROVE Excused(t, r)
    <3>1. Kernel \in Word
      BY ContextAssumption
    <3>2. Found(t)' = IF t = current THEN Loaded(Saved(TimerWords, Kernel), TimerWords)
                                     ELSE Found(t)
      BY <1>1, <2>2, <3>1, TimerLeaves, SwitchKeeps DEF TimerSwitches, SwitchTo
    <3>3. t = current /\ r = "rcx"
      BY <1>1, <3>2, TimerKeeps DEF Found
    <3> QED BY <2>2, <3>3 DEF Timer
  <2>3. ASSUME NEW u \in Task, mSleep(u) PROVE Excused(t, r)
    <3>1. regs["rcx"] \in Word
      BY <1>1 DEF CInv, Reg
    <3>2. Found(t)' = IF t = current
                      THEN Loaded(Saved(SleepWords, regs["rcx"]), SleepWords)
                      ELSE Found(t)
      BY <1>1, <2>3, <3>1, SleepLeaves, SwitchKeeps DEF mSleep, SwitchTo
    <3>3. t = current /\ r \in {"rax", "rbx"}
      BY <1>1, <3>2, SleepKeeps DEF Found
    <3> QED BY <2>3, <3>3
  <2>4. CASE NotAvailable
    BY <1>1, <2>4 DEF NotAvailable, ex7_NMHandler, CInv, Found, Loaded, Popped
  <2>5. CASE SimdInstruction
    BY <1>1, <2>5 DEF SimdInstruction, Execute, contextVars, Found, Loaded, Popped
  <2>6. ASSUME NEW q \in Reg, Instruction(q) PROVE Excused(t, r)
    BY <1>1, <2>6 DEF Instruction, vars, CInv, Found, Loaded, Popped
  <2> QED BY <1>1, <2>1, <2>2, <2>3, <2>4, <2>5, <2>6 DEF ContextNext, Timer
<1>2. CInv /\ [ContextNext]_<<vars, contextVars>>
        => [\A t \in Task, r \in Reg : Found(t)[r]' # Found(t)[r] => Excused(t, r)]_<<vars, contextVars>>
  BY <1>1
<1> QED BY <1>2, ContextInvariance, PTL DEF ContextSpec, RegistersKept
=============================================================================
