------------------------------ MODULE AudioPair ------------------------------
(***************************************************************************)
(* The two programs of which CaptureRing is the first half: tp_03_01, with *)
(* the ring of RingPlayer, and tp_03_02, with the queue of QueuePlayer.    *)
(* Which of them runs is chosen at the start; what belongs to the other    *)
(* stays as it was.                                                        *)
(***************************************************************************)
EXTENDS RingPlayer, QueuePlayer

VARIABLE program

vars == <<ringVars, playerVars, queueVars, program>>

Init ==
  /\ RingInit /\ PlayerInit /\ QueueInit
  /\ program \in {"tp_03_01", "tp_03_02"}

\* The programs are followed up to the first semop that fails: no property says
\* anything of what comes later, when the processes no longer wait for another.
In(name, A) == program = name /\ ~failed /\ A /\ UNCHANGED program
InRing(A) == In("tp_03_01", A) /\ UNCHANGED queueVars
InQueue(A) == In("tp_03_02", A) /\ UNCHANGED playerVars
InBoth(A) == ~failed /\ A /\ UNCHANGED <<playerVars, queueVars, program>>

Next == InRing(RingPlayerNext) \/ InQueue(QueuePlayerNext)

\* The processes and threads are scheduled.  Sound need not come, and nobody
\* has to type exit, to stop a process, or to refuse a device.
Fairness ==
  /\ WF_vars(InBoth(MainStarts))
  /\ WF_vars(InBoth(Child1))
  /\ WF_vars(InRing(RingFill))
  /\ WF_vars(InRing(RingPlay))
  /\ WF_vars(InQueue(QueueFill))
  /\ WF_vars(InQueue(QueuePlay))

Spec == Init /\ [][Next]_vars
FairSpec == Spec /\ Fairness

-----------------------------------------------------------------------------

\* The types of the variables; where the player is depends on the program.
TypeOK ==
  /\ RingTypeOK
  /\ IF program = "tp_03_01" THEN RingPlayerTypeOK ELSE QueuePlayerTypeOK

\* The semaphores and indices are where the programs may leave them, also after
\* the kernel has undone what child2 did.
Safe == TypeOK /\ UndoneToFirstRound

\* What is captured arrives: each frame is taken from the shared memory, played
\* by the ring, and let into the queue, but for the cases these three name.
FramesArrive == FramesTaken /\ FramesPlayed /\ AddReturns
=============================================================================
