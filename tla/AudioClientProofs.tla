-------------------------- MODULE AudioClientProofs --------------------------
(***************************************************************************)
(* Proofs about AudioClient, for any size of the queue from 8 places on    *)
(* and any number of frames and signals.                                   *)
(***************************************************************************)
EXTENDS AudioClient, SequenceTheorems, TLAPS

\* What the shutdown relies on: outside of its place in main.c no thread is in
\* a call on the queue, and the queue is freed after thread_escrituraDSP ended.
CallsInPlace ==
  /\ main \notin {"add", "exit"} => addSt = "out"
  /\ writer \notin {"take", "exit"} => takeSt = "out"
  /\ main = "done" => writer = "ended"
  /\ writer = "exit" <=> main = "exit"

\* Nothing is taken from the queue before the threshold is reached, so that
\* until then the queue holds every frame that was counted.
AddedNotCounted == IF addSt = "done" THEN 1 ELSE 0
BelowThreshold ==
  readed_frames < Threshold =>
    /\ writer \in {"open", "wait", "exit"}
    /\ "writer" \notin asleep
    /\ Len(queue) = readed_frames + AddedNotCounted

\* The main thread sleeps only in its call, and with the threshold reached.
Asleep ==
  "main" \in asleep =>
    main = "add" /\ addSt = "called" /\ readed_frames >= Threshold

Shape ==
  /\ main \in MainPlace /\ writer \in WriterPlace
  /\ asleep \subseteq Thread
  /\ readed_frames \in Nat
  /\ queue \in Seq(Frame)
  /\ addItem \in Frame
  /\ addSt \in {"out", "called", "granted", "done"}
  /\ takeSt \in {"out", "called", "granted", "done"}

IInv == Shape /\ CallsInPlace /\ BelowThreshold /\ Asleep

\* main.c asks for 4 frames more than half the places: no more than there are.
LEMMA ThresholdFits == Threshold \in 1 .. BUFFER_SIZE
  BY BufferAssumption DEF Threshold

LEMMA Initially == Init => IInv
<1> SUFFICES ASSUME Init PROVE IInv
  OBVIOUS
<1>1. Len(queue) = 0 /\ queue \in Seq(Frame)
  BY DEF Init, Fifo!Init
<1> QED
  BY <1>1 DEF Init, Fifo!Init, IInv, Shape, CallsInPlace, BelowThreshold, Asleep,
              MainPlace, WriterPlace, Thread, AddedNotCounted

\* The steps that leave the queue and the calls on it alone.
LEMMA QuietSteps ==
  ASSUME IInv,
         \/ Connected \/ SelectReturns \/ SelectSleeps \/ NoDatagram
         \/ ReadTcp \/ ReadStdin \/ Dispose \/ OpenDsp \/ WriteDsp
         \/ ProcessExits \/ FrameArrives \/ ServerCloses \/ Type
         \/ UNCHANGED vars
  PROVE  IInv'
<1>1. UNCHANGED queueVars /\ UNCHANGED readed_frames /\ UNCHANGED AddedNotCounted
  BY DEF Connected, SelectReturns, SelectSleeps, NoDatagram, ReadTcp, ReadStdin,
         Dispose, OpenDsp, WriteDsp, ProcessExits, FrameArrives, ServerCloses,
         Type, vars, queueVars, AddedNotCounted
<1>2. Shape'
  BY <1>1 DEF IInv, Shape, queueVars, Connected, SelectReturns, SelectSleeps,
     NoDatagram, ReadTcp, ReadStdin, Dispose, OpenDsp, WriteDsp, ProcessExits,
     FrameArrives, ServerCloses, Type, vars, MainPlace, WriterPlace, Thread
<1>3. CallsInPlace'
  BY <1>1 DEF IInv, Shape, CallsInPlace, queueVars, Connected, SelectReturns,
     SelectSleeps, NoDatagram, ReadTcp, ReadStdin, Dispose, OpenDsp, WriteDsp,
     ProcessExits, FrameArrives, ServerCloses, Type, vars, MainPlace,
     WriterPlace, Joined
<1>4. BelowThreshold'
  BY <1>1 DEF IInv, Shape, BelowThreshold, Threshold, queueVars, Connected,
     SelectReturns, SelectSleeps, NoDatagram, ReadTcp, ReadStdin, Dispose,
     OpenDsp, WriteDsp, ProcessExits, FrameArrives, ServerCloses, Type, vars
<1>5. Asleep'
  BY <1>1 DEF IInv, Asleep, Threshold, queueVars, Connected, SelectReturns,
     SelectSleeps, NoDatagram, ReadTcp, ReadStdin, Dispose, OpenDsp, WriteDsp,
     ProcessExits, FrameArrives, ServerCloses, Type, vars
<1> QED BY <1>2, <1>3, <1>4, <1>5 DEF IInv

\* The steps of fifo_addto_smph.
LEMMA AddSteps ==
  ASSUME IInv, Receive \/ AddSleeps \/ Adds \/ Added
  PROVE  IInv'
<1> USE DEF IInv, Shape, CallsInPlace, BelowThreshold, Asleep, AddedNotCounted,
            MainPlace, WriterPlace, Thread
<1>1. CASE Receive
  <2>1. addSt = "out"
    BY <1>1 DEF Receive
  <2> QED BY <1>1, <2>1 DEF Receive, Fifo!CallAdd, Fifo!takeVars, Threshold
<1>2. CASE AddSleeps
  BY <1>2, ThresholdFits DEF AddSleeps, queueVars, Threshold
<1>3. CASE Adds
  <2>1. CASE Fifo!GrantAdd
    BY <1>3, <2>1 DEF Adds, Fifo!GrantAdd, Fifo!takeVars, Threshold
  <2>2. CASE Fifo!DoAdd
    <3>1. queue' \in Seq(Frame) /\ Len(queue') = Len(queue) + 1
      BY <2>2, AppendProperties DEF Fifo!DoAdd
    <3> QED BY <1>3, <2>2, <3>1 DEF Adds, Fifo!DoAdd, Fifo!takeVars, Threshold
  <2> QED BY <1>3, <2>1, <2>2 DEF Adds
<1>4. CASE Added
  BY <1>4, ThresholdFits DEF Added, Fifo!ReturnAdd, Fifo!takeVars, Threshold
<1> QED BY <1>1, <1>2, <1>3, <1>4

\* The steps of fifo_take_smph: the threshold has been reached.
LEMMA TakeSteps ==
  ASSUME IInv, StartTake \/ TakeSleeps \/ Takes \/ Taken
  PROVE  IInv'
<1> USE DEF IInv, Shape, CallsInPlace, BelowThreshold, Asleep,
            MainPlace, WriterPlace, Thread
<1>1. readed_frames >= Threshold /\ Threshold' = Threshold
  BY ThresholdFits DEF StartTake, TakeSleeps, Takes, Taken, Threshold
<1>2. CASE StartTake
  BY <1>1, <1>2, ThresholdFits DEF StartTake, Fifo!CallTake, Fifo!addVars
<1>3. CASE TakeSleeps
  BY <1>1, <1>3, ThresholdFits DEF TakeSleeps, queueVars
<1>4. CASE Takes
  <2>1. CASE Fifo!GrantTake
    BY <1>1, <1>4, <2>1, ThresholdFits DEF Takes, Fifo!GrantTake, Fifo!addVars
  <2>2. CASE Fifo!DoTake
    <3>1. queue' \in Seq(Frame)
      BY <2>2, HeadTailProperties DEF Fifo!DoTake
    <3> QED BY <1>1, <1>4, <2>2, <3>1, ThresholdFits
            DEF Takes, Fifo!DoTake, Fifo!addVars
  <2> QED BY <1>4, <2>1, <2>2 DEF Takes
<1>5. CASE Taken
  BY <1>1, <1>5, ThresholdFits DEF Taken, Fifo!ReturnTake, Fifo!addVars
<1> QED BY <1>2, <1>3, <1>4, <1>5

\* The steps that may interrupt a call.
LEMMA SignalSteps ==
  ASSUME IInv, KillWriter \/ Signal
  PROVE  IInv'
<1> USE DEF IInv, Shape, CallsInPlace, BelowThreshold, Asleep, AddedNotCounted,
            MainPlace, WriterPlace, Thread
<1>1. CASE KillWriter
  BY <1>1, ThresholdFits
  DEF KillWriter, Fifo!FailTake, Fifo!addVars, queueVars, Threshold
<1>2. CASE Signal
  BY <1>2, ThresholdFits
  DEF Signal, Running, Fifo!FailAdd, Fifo!takeVars, queueVars, Threshold
<1> QED BY <1>1, <1>2

LEMMA Inductive == IInv /\ [Next]_vars => IInv'
  BY QuietSteps, AddSteps, TakeSteps, SignalSteps
  DEF Next, MainStep, WriterStep, Environment

\* The inductive invariant holds in every state of every behaviour.
THEOREM Invariance == Spec => []IInv
  BY Initially, Inductive, PTL DEF Spec

\* The shutdown never frees the queue under a thread that is in a call.
THEOREM DisposedLast == Spec => []NoUseAfterDispose
<1>1. IInv => NoUseAfterDispose
  BY DEF IInv, CallsInPlace, NoUseAfterDispose
<1> QED BY <1>1, Invariance, PTL

-----------------------------------------------------------------------------
(* The bounds of the variables: what select said of the datagrams is true when *)
(* recvfrom is called, and each datagram is counted once at most.              *)

Received == IF main = "add" THEN 1 ELSE 0

Counted ==
  /\ udp \in Nat /\ net \in Nat
  /\ readed_frames + Received + udp + net <= MaxFrames
  /\ main = "udp" /\ "udp" \in ready => udp > 0

Flags == signalled \in BOOLEAN /\ typed \in BOOLEAN /\ closed \in BOOLEAN
Others ==
  /\ ready \subseteq {"udp", "tcp", "stdin"}
  /\ tcp \in {0, 1}
  /\ keys \in 0 .. MaxSignals
  /\ Len(queue) <= BUFFER_SIZE

LEMMA CountedFirst == Init => Counted /\ Flags /\ Others
<1> SUFFICES ASSUME Init PROVE Counted /\ Flags /\ Others
  OBVIOUS
<1>1. Len(queue) = 0
  BY DEF Init, Fifo!Init
<1>2. Counted
  BY BoundsAssumption DEF Init, Counted, Received
<1>3. Others
  BY <1>1, BoundsAssumption, BufferAssumption DEF Init, Others
<1>4. Flags
  BY Zenon DEF Init, Flags
<1> QED BY <1>2, <1>3, <1>4

LEMMA CountedNext == IInv /\ Counted /\ [Next]_vars => Counted'
<1> SUFFICES ASSUME IInv, Counted, [Next]_vars PROVE Counted'
  OBVIOUS
<1>1. readed_frames \in Nat /\ MaxFrames \in Nat
  BY BoundsAssumption DEF IInv, Shape
<1> USE <1>1 DEF Counted, Received
<1>2. CASE MainStep
  <2>1. CASE SelectReturns
    <3>1. "udp" \in Readable => udp > 0
      BY DEF Readable
    <3> QED BY <2>1, <3>1 DEF SelectReturns, envVars
  <2>2. CASE Receive
    BY <2>2 DEF Receive
  <2>3. CASE Connected \/ SelectSleeps \/ NoDatagram \/ AddSleeps \/ Adds
    BY <2>3
    DEF Connected, SelectSleeps, NoDatagram, AddSleeps, Adds, envVars
  <2>4. CASE Added
    BY <2>4 DEF Added, envVars
  <2>5. CASE ReadTcp \/ ReadStdin \/ KillWriter \/ Dispose
    BY <2>5 DEF ReadTcp, ReadStdin, KillWriter, Dispose, envVars
  <2> QED BY <1>2, <2>1, <2>2, <2>3, <2>4, <2>5 DEF MainStep
<1>3. CASE WriterStep
  BY <1>3
  DEF WriterStep, OpenDsp, StartTake, TakeSleeps, Takes, Taken, WriteDsp, envVars
<1>4. CASE ProcessExits
  BY <1>4 DEF ProcessExits, envVars
<1>5. CASE Environment
  BY <1>5 DEF Environment, FrameArrives, ServerCloses, Type, Signal
<1>6. CASE UNCHANGED vars
  BY <1>6 DEF vars, envVars
<1> QED BY <1>2, <1>3, <1>4, <1>5, <1>6 DEF Next

\* Only a call that found a free place puts an entry into the queue.
LEMMA LengthNext ==
  ASSUME IInv, Len(queue) <= BUFFER_SIZE, [Next]_vars
  PROVE  Len(queue') <= BUFFER_SIZE
<1>1. queue \in Seq(Frame) /\ BUFFER_SIZE \in Nat
  BY BufferAssumption DEF IInv, Shape
<1>2. CASE UNCHANGED queue
  BY <1>2
<1>3. CASE Fifo!DoAdd
  <2>1. addItem \in Frame
    BY DEF IInv, Shape
  <2>2. Len(queue') = Len(queue) + 1 /\ Len(queue) < BUFFER_SIZE
    BY <1>1, <1>3, <2>1, AppendProperties DEF Fifo!DoAdd
  <2> QED BY <1>1, <2>2
<1>4. CASE Fifo!DoTake
  <2>1. Len(queue') = Len(queue) - 1
    BY <1>1, <1>4, HeadTailProperties DEF Fifo!DoTake
  <2> QED BY <1>1, <2>1
<1>5. UNCHANGED queue \/ Fifo!DoAdd \/ Fifo!DoTake
  <2>1. CASE MainStep
    BY <2>1 DEF MainStep, Connected, SelectReturns, SelectSleeps, Receive,
      NoDatagram, AddSleeps, Adds, Added, ReadTcp, ReadStdin, KillWriter,
      Dispose, queueVars, Fifo!CallAdd, Fifo!GrantAdd, Fifo!ReturnAdd,
      Fifo!FailTake
  <2>2. CASE WriterStep
    BY <2>2 DEF WriterStep, OpenDsp, StartTake, TakeSleeps, Takes, Taken,
      WriteDsp, queueVars, Fifo!CallTake, Fifo!GrantTake, Fifo!ReturnTake
  <2>3. CASE ProcessExits \/ Environment
    BY <2>3 DEF ProcessExits, Environment, FrameArrives, ServerCloses, Type,
      Signal, queueVars, Fifo!FailAdd
  <2>4. CASE UNCHANGED vars
    BY <2>4 DEF vars, queueVars
  <2> QED BY <2>1, <2>2, <2>3, <2>4 DEF Next
<1> QED BY <1>2, <1>3, <1>4, <1>5

LEMMA FlagsNext == Flags /\ [Next]_vars => Flags'
<1> SUFFICES ASSUME Flags, [Next]_vars PROVE Flags'
  OBVIOUS
<1>1. CASE UNCHANGED <<signalled, typed, closed>>
  BY <1>1, Zenon DEF Flags
<1>2. CASE KillWriter
  BY <1>2, Zenon DEF KillWriter, envVars, Flags
<1>3. CASE ServerCloses \/ Type \/ Signal
  BY <1>3, Zenon DEF ServerCloses, Type, Signal, Flags
<1>4. CASE MainStep /\ ~KillWriter
  <2>1. UNCHANGED <<signalled, typed, closed>>
    BY <1>4 DEF MainStep, Connected, SelectReturns, SelectSleeps, Receive,
      NoDatagram, AddSleeps, Adds, Added, ReadTcp, ReadStdin, Dispose, envVars
  <2> QED BY <1>1, <2>1
<1>5. CASE WriterStep \/ ProcessExits \/ FrameArrives \/ UNCHANGED vars
  <2>1. UNCHANGED <<signalled, typed, closed>>
    BY <1>5 DEF WriterStep, OpenDsp, StartTake, TakeSleeps, Takes, Taken,
      WriteDsp, ProcessExits, FrameArrives, vars, envVars
  <2> QED BY <1>1, <2>1
<1> QED BY <1>2, <1>3, <1>4, <1>5 DEF Next, Environment

LEMMA OthersNext == IInv /\ Others /\ [Next]_vars => Others'
<1> SUFFICES ASSUME IInv, Others, [Next]_vars PROVE Others'
  OBVIOUS
<1>1. (Len(queue) <= BUFFER_SIZE)'
  BY LengthNext DEF Others
<1> USE <1>1, BoundsAssumption DEF Others
<1>2. CASE MainStep
  <2>1. CASE SelectReturns
    BY <2>1 DEF SelectReturns, Readable, envVars
  <2>2. CASE MainStep /\ ~SelectReturns
    BY <2>2 DEF MainStep, Connected, SelectSleeps, Receive, NoDatagram,
      AddSleeps, Adds, Added, ReadTcp, ReadStdin, KillWriter, Dispose, envVars
  <2> QED BY <1>2, <2>1, <2>2
<1>3. CASE WriterStep
  BY <1>3
  DEF WriterStep, OpenDsp, StartTake, TakeSleeps, Takes, Taken, WriteDsp, envVars
<1>4. CASE ProcessExits
  BY <1>4 DEF ProcessExits, envVars
<1>5. CASE Environment
  <2>1. UNCHANGED <<ready, tcp>>
    BY <1>5 DEF Environment, FrameArrives, ServerCloses, Type, Signal
  <2>2. CASE Signal
    <3>1. keys > 0 /\ keys' = keys - 1
      BY <2>2 DEF Signal
    <3> QED BY <2>1, <3>1
  <2>3. CASE ~Signal
    <3>1. UNCHANGED keys
      BY <1>5, <2>3 DEF Environment, FrameArrives, ServerCloses, Type
    <3> QED BY <2>1, <3>1
  <2> QED BY <2>2, <2>3
<1>6. CASE UNCHANGED vars
  BY <1>6 DEF vars, envVars
<1> QED BY <1>2, <1>3, <1>4, <1>5, <1>6 DEF Next

\* For any queue of 8 places or more and any number of frames and signals: the
\* queue holds no more than its places, no datagram is counted twice, and main
\* never sleeps on a full queue that thread_escrituraDSP does not empty yet.
THEOREM Safety == Spec => []Safe
<1>1. IInv /\ Counted /\ Flags /\ Others => Safe
  BY BoundsAssumption
  DEF IInv, Shape, Asleep, Counted, Received, Flags, Others, Safe, TypeOK, ThresholdReached
<1>2. Spec => [](Counted /\ Flags /\ Others)
  BY CountedFirst, CountedNext, FlagsNext, OthersNext, Invariance, PTL DEF Spec
<1> QED BY <1>1, <1>2, Invariance, PTL
=============================================================================
