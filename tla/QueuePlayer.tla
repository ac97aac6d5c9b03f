----------------------------- MODULE QueuePlayer -----------------------------
(***************************************************************************)
(* child2 of tp_03_02: thread_lecturaSHM puts the frames into the queue    *)
(* cola_lectura_shm (utils/static_queue.c of tp_03_02), and                *)
(* thread_escrituraDSP, once BUFFER_SIZE/2 of them have been counted,      *)
(* takes them from there and writes them to /dev/dsp.  Two semaphores      *)
(* count the places of the queue; both threads are of one process, whose   *)
(* SEM_UNDO sums for these semaphores cancel out.                          *)
(*                                                                         *)
(* elements is a void pointer, and elements + index is that many bytes     *)
(* ahead of it, not that many entries: the places are shifted by one byte  *)
(* each and lie upon one another.  The memory of the queue is modelled by  *)
(* its cells; an entry fills EntryLen of them.                             *)
(***************************************************************************)
EXTENDS CaptureRing

CONSTANTS
  QueueSize,  \* BUFFER_SIZE, the n_entrys of filo_init
  EntryLen    \* entry_size, in cells
ASSUME QueueAssumption == QueueSize \in 2 .. 99 /\ EntryLen \in Nat \ {0}

VARIABLES
  cells, fillIndex, takeIndex,
  semEmpty, semFull,
  readed_frames,
  adding, added,     \* where the thread is in filo_addto_smph, cells copied
  copied, sample,    \* cells copied by filo_take_smph, and its outData
  took,              \* history: the frame whose turn it is to be taken
  disturbed          \* history: another frame was or came into its cells

addVars == <<fillIndex, adding, added, readed_frames>>
takeVars == <<takeIndex, copied, sample, took>>
queueVars == <<cells, semEmpty, semFull, addVars, takeVars, disturbed>>

Cell == 0 .. EntryLen + QueueSize - 2
Part == 1 .. EntryLen
\* what a cell holds: a part of a frame
Datum == [frame : Frame, part : Part]
Whole(f) == [p \in Part |-> [frame |-> f, part |-> p]]
Nothing == [frame |-> None, part |-> 1]

\* readed_frames is only compared with the threshold: it is counted up to there
Threshold == QueueSize \div 2
Count(n) == IF n < Threshold THEN n + 1 ELSE n

\* main leaves readed_frames as the stack had it; ReaderResets sets it.
QueueInit ==
  /\ cells = [c \in Cell |-> Nothing]
  /\ fillIndex = 0 /\ takeIndex = 0
  /\ semEmpty = QueueSize /\ semFull = 0
  /\ readed_frames \in 0 .. Threshold
  /\ adding = "none" /\ added = 0
  /\ copied = 0 /\ sample = [p \in Part |-> Nothing]
  /\ took = None /\ disturbed = FALSE

-----------------------------------------------------------------------------
(* Faulty variants.  No specification uses them. *)

\* filo_addto_smph signals before it has copied all
AddPostsEarly ==
  /\ reader = "copy" /\ adding = "copy" /\ added = 1
  /\ semFull' = semFull + 1
  /\ fillIndex' = (fillIndex + 1) % QueueSize
  /\ adding' = "done"
  /\ UNCHANGED <<ringVars, cells, semEmpty, added, readed_frames, takeVars,
                 disturbed>>

-----------------------------------------------------------------------------
(* thread_lecturaSHM, filo_addto_smph *)

\* the cell of the part p of the place elements + index
CellOf(index, p) == index + p - 1

NextIndex(index) == (index + 1) % QueueSize

\* readed_frames = 0, before the loop
ReaderResets ==
  /\ ReaderStarts
  /\ readed_frames' = 0
  /\ UNCHANGED <<cells, semEmpty, semFull, fillIndex, adding, added, takeVars,
                 disturbed>>

StartAdd ==
  /\ reader = "copy" /\ adding = "none"
  /\ adding' = "wait"
  /\ UNCHANGED <<ringVars, cells, semEmpty, semFull, fillIndex, added,
                 readed_frames, takeVars, disturbed>>

AddWaits ==
  /\ reader = "copy" /\ adding = "wait"
  /\ semEmpty > 0
  /\ semEmpty' = semEmpty - 1
  /\ adding' = "copy" /\ added' = 0
  /\ UNCHANGED <<ringVars, cells, semFull, fillIndex, readed_frames, takeVars,
                 disturbed>>

AddCopies ==
  /\ reader = "copy" /\ adding = "copy" /\ added < EntryLen
  /\ added' = added + 1
  /\ cells' = [cells EXCEPT ![CellOf(fillIndex, added')] =
                 [frame |-> place[iRead].frame, part |-> added']]
  /\ disturbed' = (disturbed \/ player = "copy")
  /\ UNCHANGED <<ringVars, semEmpty, semFull, fillIndex, adding, readed_frames,
                 takeVars>>

AddPosts ==
  /\ reader = "copy" /\ adding = "copy" /\ added = EntryLen
  /\ semFull' = semFull + 1
  /\ fillIndex' = NextIndex(fillIndex)
  /\ adding' = "done"
  /\ UNCHANGED <<ringVars, cells, semEmpty, added, readed_frames, takeVars,
                 disturbed>>

\* iRead advances, readed_frames++
Added ==
  /\ ReaderTakes /\ adding = "done"
  /\ readed_frames' = Count(readed_frames)
  /\ adding' = "none"
  /\ UNCHANGED <<cells, semEmpty, semFull, fillIndex, added, takeVars, disturbed>>

-----------------------------------------------------------------------------
(* thread_escrituraDSP, filo_take_smph *)

StartTake ==
  /\ player = "look"
  /\ readed_frames >= Threshold
  /\ player' = "wait"
  /\ UNCHANGED <<main, captureVars, readerVars, semVars, stops, queueVars>>

\* Disturbed from the start: a second frame is in the queue or on its way in.
TakeWaits ==
  /\ player = "wait"
  /\ semFull > 0
  /\ semFull' = semFull - 1
  /\ player' = "copy" /\ copied' = 0
  /\ took' = IF took < MaxFrame - 1 THEN took + 1 ELSE took
  /\ disturbed' = (semFull > 1 \/ (adding = "copy" /\ added > 0))
  /\ UNCHANGED <<main, captureVars, readerVars, semVars, stops, cells, semEmpty,
                 addVars, takeIndex, sample>>

TakeCopies ==
  /\ player = "copy" /\ copied < EntryLen
  /\ copied' = copied + 1
  /\ sample' = [sample EXCEPT ![copied'] = cells[CellOf(takeIndex, copied')]]
  /\ UNCHANGED <<ringVars, cells, semEmpty, semFull, addVars, takeIndex, took,
                 disturbed>>

TakePosts ==
  /\ player = "copy" /\ copied = EntryLen
  /\ semEmpty' = semEmpty + 1
  /\ takeIndex' = NextIndex(takeIndex)
  /\ player' = "write"
  /\ UNCHANGED <<main, captureVars, readerVars, semVars, stops, cells, semFull,
                 addVars, copied, sample, took, disturbed>>

WriteSample ==
  /\ player = "write"
  /\ player' = "look"
  /\ UNCHANGED <<main, captureVars, readerVars, semVars, stops, queueVars>>

\* child2 is stopped and continued while one of its threads sleeps in a semop:
\* those that do, fail.
ReaderSleeps == reader = "wait" /\ full = 0
AddSleeps == reader = "copy" /\ adding = "wait" /\ semEmpty = 0
TakeSleeps == player = "wait" /\ semFull = 0
QueueInterrupted ==
  /\ stops > 0
  /\ ReaderSleeps \/ AddSleeps \/ TakeSleeps
  /\ stops' = stops - 1
  /\ failed' = TRUE
  /\ reader' = IF ReaderSleeps THEN "copy" ELSE reader
  /\ adding' = IF AddSleeps THEN "copy" ELSE adding
  /\ added' = IF AddSleeps THEN 0 ELSE added
  /\ player' = IF TakeSleeps THEN "copy" ELSE player
  /\ copied' = IF TakeSleeps THEN 0 ELSE copied
  /\ UNCHANGED <<main, captureVars, iRead, taken, free, full, waits, posts, cells,
                 semEmpty, semFull, fillIndex, readed_frames, takeIndex, sample,
                 took, disturbed>>

-----------------------------------------------------------------------------

QueueFill ==
  \/ ReaderResets \/ StartAdd \/ AddWaits \/ AddCopies \/ AddPosts \/ Added
  \/ (ReaderWaits \/ ReaderPosts) /\ UNCHANGED queueVars
QueuePlay ==
  \/ OpenForPlayback /\ UNCHANGED queueVars
  \/ StartTake \/ TakeWaits \/ TakeCopies \/ TakePosts \/ WriteSample
QueuePlayerNext ==
  \/ RingNext /\ UNCHANGED queueVars
  \/ QueueFill \/ QueuePlay \/ QueueInterrupted

QueuePlayerInit == RingInit /\ QueueInit

-----------------------------------------------------------------------------
(* Properties *)

QueuePlayerTypeOK ==
  /\ player \in {"none", "open", "look", "wait", "copy", "write", "dead"}
  /\ cells \in [Cell -> Datum] /\ sample \in [Part -> Datum]
  /\ fillIndex \in 0 .. QueueSize - 1 /\ takeIndex \in 0 .. QueueSize - 1
  /\ semEmpty \in Nat /\ semFull \in Nat
  /\ adding \in {"none", "wait", "copy", "done"}
  /\ added \in 0 .. EntryLen /\ copied \in 0 .. EntryLen
  /\ took \in Frame /\ disturbed \in BOOLEAN

\* A frame is played whole if it was alone in the queue: the places that lie
\* upon one another corrupt it only when a second frame enters before the first
\* has been copied out.
AloneIsWhole ==
  player = "write" /\ took # None /\ ~disturbed /\ ~failed =>
    sample = Whole(took)

\* The shared memory's places and the queue's do not fill up for ever: once
\* enough frames are in, thread_escrituraDSP takes them, and thread_lecturaSHM
\* gets room for the one it holds.
AddReturns == (adding = "wait") ~> (adding # "wait" \/ reader = "dead" \/ failed)
=============================================================================
