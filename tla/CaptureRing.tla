----------------------------- MODULE CaptureRing -----------------------------
(***************************************************************************)
(* What tp_03_01 and tp_03_02 have in common: main (ejercicio/main.c)      *)
(* creates the shared memory, two semaphores and two processes; child1     *)
(* captures frames into the AUDIO_CAPTURE_PACKET_N places of the shared    *)
(* memory, thread_lecturaSHM of child2 takes them from there.  What child2 *)
(* does with a frame differs: modules RingPlayer and QueuePlayer.          *)
(*                                                                         *)
(* Nobody looks at the result of a semop.  It fails, and the process goes  *)
(* on as if it had not, in two cases: with EINTR, when the process sleeps  *)
(* in it and is stopped and continued from the keyboard; and with ERANGE,  *)
(* when the sum of the process's operations with SEM_UNDO on a semaphore,  *)
(* which the kernel keeps to undo them at its end, would leave the range   *)
(* of a short.  child1 only waits on semaphore 0 and only posts semaphore  *)
(* 1, so its sums grow with every frame, and so do those of child2.        *)
(***************************************************************************)
EXTENDS Integers

CONSTANTS
  N,         \* AUDIO_CAPTURE_PACKET_N
  UndoMax,   \* SEMAEM, the largest value of a sum: 32767
  MaxFrame,  \* bound: the frames are 0 .. MaxFrame - 1
  MaxStop    \* bound: how often a sleeping process is stopped and continued

ASSUME RingAssumption == N \in Nat \ {0} /\ UndoMax \in Nat
ASSUME RingBoundsAssumption == MaxFrame \in Nat /\ MaxStop \in Nat

VARIABLES
  main,              \* where main of ejercicio is
  capture,           \* where child1 is
  reader, player,    \* where thread_lecturaSHM and thread_escrituraDSP are
  free, full,        \* semaphores 0 and 1
  waits, posts,      \* the kernel's sums: each process's waits and its posts
  place,             \* SHP->SBE
  iCapture, iRead,   \* SHP->iCapture, SHP->iRead
  frameN,            \* the frames child1 has numbered
  taken,             \* history: the last frame thread_lecturaSHM took
  failed,            \* history: some semop failed
  stops              \* how often a process may still be stopped

semVars == <<free, full, waits, posts, failed>>
captureVars == <<capture, place, iCapture, frameN>>
readerVars == <<reader, iRead, taken>>
ringVars == <<main, captureVars, readerVars, player, semVars, stops>>

Place == 0 .. N - 1
Process == {"child1", "child2"}
None == -1
Frame == None .. MaxFrame - 1
\* A place that is being captured, or that an earlier run left, holds no frame;
\* ok tells whether read filled it (readed_blocks is not -1).
Content == [frame : Frame, ok : BOOLEAN]
NoFrame == [frame |-> None, ok |-> TRUE]

MainPlace == {"sem0", "sem1", "child1", "child2", "scan", "gone"}
CapturePlace == {"none", "open", "reset", "wait", "read", "reading", "post", "dead"}
ReaderPlace == {"none", "start", "wait", "copy", "post", "dead"}

\* Nobody removes the semaphores and the shared memory of an earlier run.
RingInit ==
  /\ main = "sem0"
  /\ capture = "none" /\ reader = "none" /\ player = "none"
  /\ free \in {0, N} /\ full \in {0, N}
  /\ waits = [p \in Process |-> 0] /\ posts = [p \in Process |-> 0]
  /\ place = [i \in Place |-> NoFrame]
  /\ iCapture \in Place /\ iRead \in Place
  /\ frameN = 0 /\ taken = None
  /\ failed = FALSE
  /\ stops = MaxStop

-----------------------------------------------------------------------------
(* Faulty variants, one for each property that must be able to fail.  No
   specification uses them. *)

\* child1 resets iCapture only
ReadIndexKept == iRead

\* the wait, or the post, leaves the semaphore alone
Unchanged(n) == n

\* the end of the process does not undo its posts
FreeKept == free

-----------------------------------------------------------------------------
(* semop with SEM_UNDO *)

CanWait(p) == waits[p] < UndoMax

\* what an operation that does not fail makes of a semaphore
Less(n) == n - 1
More(n) == n + 1

WaitOn(p, sem) ==
  /\ sem > 0
  /\ IF CanWait(p)
     THEN /\ sem' = Less(sem)
          /\ waits' = [waits EXCEPT ![p] = @ + 1]
          /\ UNCHANGED failed
     ELSE failed' = TRUE /\ UNCHANGED <<sem, waits>>
  /\ UNCHANGED <<posts, stops>>

\* The process slept, was stopped and is continued.
WaitInterrupted(sem) ==
  /\ sem = 0
  /\ stops > 0
  /\ stops' = stops - 1
  /\ failed' = TRUE
  /\ UNCHANGED <<free, full, waits, posts>>

\* A post does not fail before a wait has: a process waits before each post, and
\* the sum may go one further below zero than above.
Post(p, sem) ==
  /\ sem' = More(sem)
  /\ posts' = [posts EXCEPT ![p] = @ + 1]
  /\ UNCHANGED <<waits, failed, stops>>

\* What the end of child2 leaves of semaphore 0: its posts are undone, but not
\* below zero.
FreeUndone == IF free < posts["child2"] THEN 0 ELSE free - posts["child2"]

\* child2 ends, by exit(1) or by a signal, and both its threads with it.
Child2Dies ==
  /\ reader' = "dead" /\ player' = "dead"
  /\ free' = FreeUndone
  /\ full' = full + waits["child2"]
  /\ UNCHANGED <<main, captureVars, iRead, taken, waits, posts, failed, stops>>

-----------------------------------------------------------------------------
(* main *)

SetFree ==
  /\ main = "sem0"
  /\ free' = N
  /\ main' = "sem1"
  /\ UNCHANGED <<captureVars, readerVars, player, full, waits, posts, failed, stops>>

SetFull ==
  /\ main = "sem1"
  /\ full' = 0
  /\ main' = "child1"
  /\ UNCHANGED <<captureVars, readerVars, player, free, waits, posts, failed, stops>>

\* createChild.  When fork fails, main itself takes the child's branch and
\* becomes the program; of main nothing is left (gone).
CreateChild1 ==
  /\ main = "child1"
  /\ main' \in {"child2", "gone"}
  /\ capture' = "open"
  /\ UNCHANGED <<place, iCapture, frameN, readerVars, player, semVars, stops>>

CreateChild2 ==
  /\ main = "child2"
  /\ main' \in {"scan", "gone"}
  /\ reader' = "start" /\ player' = "open"
  /\ UNCHANGED <<captureVars, iRead, taken, semVars, stops>>

\* The user types exit: main returns, the children go on.
Exit ==
  /\ main = "scan"
  /\ main' = "gone"
  /\ UNCHANGED <<captureVars, readerVars, player, semVars, stops>>

-----------------------------------------------------------------------------
(* child1 *)

OpenForCapture ==
  /\ capture = "open"
  /\ capture' = "reset"
  /\ UNCHANGED <<main, place, iCapture, frameN, readerVars, player, semVars, stops>>

\* exit(1), also when execlp fails; child1 has no operation to undo
CannotCapture ==
  /\ capture = "open"
  /\ capture' = "dead"
  /\ UNCHANGED <<main, place, iCapture, frameN, readerVars, player, semVars, stops>>

ReadIndexReset == 0

Reset ==
  /\ capture = "reset"
  /\ capture' = "wait"
  /\ iCapture' = 0 /\ iRead' = ReadIndexReset /\ frameN' = 0
  /\ UNCHANGED <<main, place, reader, taken, player, semVars, stops>>

CaptureWaits ==
  /\ capture = "wait"
  /\ WaitOn("child1", free) /\ UNCHANGED full
  /\ capture' = "read"
  /\ UNCHANGED <<main, place, iCapture, frameN, readerVars, player>>

CaptureInterrupted ==
  /\ capture = "wait"
  /\ WaitInterrupted(free)
  /\ capture' = "read"
  /\ UNCHANGED <<main, place, iCapture, frameN, readerVars, player>>

\* read of /dev/dsp begins to write the place
CaptureReads ==
  /\ capture = "read"
  /\ frameN < MaxFrame
  /\ place' = [place EXCEPT ![iCapture] = NoFrame]
  /\ capture' = "reading"
  /\ UNCHANGED <<main, iCapture, frameN, readerVars, player, semVars, stops>>

NextPlace(i) == (i + 1) % N

\* read returns, well or not; the frame is numbered, iCapture advances
Captured ==
  /\ capture = "reading"
  /\ \E ok \in BOOLEAN :
       place' = [place EXCEPT ![iCapture] = [frame |-> frameN, ok |-> ok]]
  /\ frameN' = frameN + 1
  /\ iCapture' = NextPlace(iCapture)
  /\ capture' = "post"
  /\ UNCHANGED <<main, readerVars, player, semVars, stops>>

CapturePosts ==
  /\ capture = "post"
  /\ Post("child1", full) /\ UNCHANGED free
  /\ capture' = "wait"
  /\ UNCHANGED <<main, place, iCapture, frameN, readerVars, player>>

-----------------------------------------------------------------------------
(* thread_lecturaSHM *)

\* What it resets before its loop main has set to 0 in tp_03_01; in tp_03_02 see
\* ReaderResets of QueuePlayer.
ReaderStarts ==
  /\ reader = "start"
  /\ reader' = "wait"
  /\ UNCHANGED <<main, captureVars, iRead, taken, player, semVars, stops>>

ReaderWaits ==
  /\ reader = "wait"
  /\ WaitOn("child2", full) /\ UNCHANGED free
  /\ reader' = "copy"
  /\ UNCHANGED <<main, captureVars, iRead, taken, player>>

ReaderInterrupted ==
  /\ reader = "wait"
  /\ WaitInterrupted(full)
  /\ reader' = "copy"
  /\ UNCHANGED <<main, captureVars, iRead, taken, player>>

\* the frame has been copied from the place iRead, which advances
ReaderTakes ==
  /\ reader = "copy"
  /\ taken' = place[iRead].frame
  /\ iRead' = NextPlace(iRead)
  /\ reader' = "post"
  /\ UNCHANGED <<main, captureVars, player, semVars, stops>>

ReaderPosts ==
  /\ reader = "post"
  /\ Post("child2", free) /\ UNCHANGED full
  /\ reader' = "wait"
  /\ UNCHANGED <<main, captureVars, iRead, taken, player>>

(* thread_escrituraDSP *)

OpenForPlayback ==
  /\ player = "open"
  /\ player' = "look"
  /\ UNCHANGED <<main, captureVars, readerVars, semVars, stops>>

\* exit(1)
CannotPlay == player = "open" /\ Child2Dies

-----------------------------------------------------------------------------

MainStarts == SetFree \/ SetFull \/ CreateChild1 \/ CreateChild2
\* read of /dev/dsp returns as soon as it has begun to get sound
Child1 ==
  OpenForCapture \/ Reset \/ CaptureWaits \/ Captured \/ CapturePosts
\* the steps that are the same in both programs and touch nothing else
RingNext ==
  \/ MainStarts \/ Exit \/ Child1 \/ CaptureReads \/ CannotCapture \/ CaptureInterrupted
  \/ CannotPlay

-----------------------------------------------------------------------------
(* Properties *)

RingTypeOK ==
  /\ main \in MainPlace /\ capture \in CapturePlace /\ reader \in ReaderPlace
  /\ free \in Nat /\ full \in Nat
  /\ waits \in [Process -> 0 .. UndoMax]
  /\ posts \in [Process -> 0 .. UndoMax]
  /\ place \in [Place -> Content]
  /\ iCapture \in Place /\ iRead \in Place
  /\ frameN \in 0 .. MaxFrame /\ taken \in Frame
  /\ failed \in BOOLEAN /\ stops \in 0 .. MaxStop

SemaphoresSet == main \notin {"sem0", "sem1"}
CaptureHolds == IF capture \in {"read", "reading", "post"} THEN 1 ELSE 0
ReaderHolds == IF reader \in {"copy", "post"} THEN 1 ELSE 0

\* The processes lose no place and invent none, whatever the semaphores of an
\* earlier run were and in whatever order the programs start, as long as both
\* live and no semop has failed.
PlacesAccounted ==
  SemaphoresSet /\ reader # "dead" /\ ~failed =>
    free + full + CaptureHolds + ReaderHolds = N

\* child1 never writes the place that thread_lecturaSHM is copying: there is no
\* lock, and child1 sets iRead, which is the reader's, when it starts.  It holds
\* until a semop fails.
NoSharedPlace ==
  capture \in {"read", "reading"} /\ reader = "copy" /\ ~failed =>
    iCapture # iRead

\* Every frame is taken once and in the order of the captures, until a semop
\* fails.
TakenInOrder ==
  [][taken' # taken /\ ~failed => taken' = taken + 1]_ringVars

\* When child2 ends, the kernel takes its posts back: what is left for child1 is
\* what it had not used of the first N places, and then it stops for ever.
UndoneToFirstRound ==
  reader = "dead" /\ ~failed /\ waits["child1"] >= N => free = 0

\* A captured frame reaches child2 in the end, unless child2 ends or is never
\* started, or a semop fails.
FramesTaken ==
  \A k \in 1 .. MaxFrame :
    (frameN = k) ~> \/ taken >= k - 1 \/ failed \/ reader = "dead"
                    \/ reader = "none" /\ main = "gone"
=============================================================================
