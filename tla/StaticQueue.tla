----------------------------- MODULE StaticQueue -----------------------------
(***************************************************************************)
(* tp_04_03/src/utils/static_queue.c: the queue between the two threads of *)
(* the audio client.  The main thread adds the frames it receives          *)
(* (fifo_addto_smph), the thread thread_escrituraDSP takes them            *)
(* (fifo_take_smph).  Two System V semaphores count the free and the full  *)
(* places; nothing else keeps the threads apart, so every semop, every     *)
(* step of memcpy and every update of an index is a step of its own here.  *)
(*                                                                         *)
(* A semop that would have to sleep may return -1 with EINTR when a signal *)
(* arrives (AddInterrupted, TakeInterrupted).                              *)
(***************************************************************************)
EXTENDS Integers, Sequences

CONSTANTS
  NEntrys,   \* _fifo->n_entrys
  EntryLen,  \* entry_size, in the words memcpy moves one at a time
  Word       \* the values of a word

\* What fifo_init accepts (MAX_FILO_SIZE is 100); an entry is not empty.
ASSUME NEntrysAssumption == NEntrys \in 1 .. 99
ASSUME EntryLenAssumption == EntryLen \in Nat \ {0}

VARIABLES
  elements,   \* the places, as fifo_init's malloc leaves them at first
  takeIndex, fillIndex,
  semEmpty, semFull,
  pcAdd, inData, addCopied, addRet,    \* the thread in fifo_addto_smph
  pcTake, outData, takeCopied, takeRet \* the thread in fifo_take_smph

addVars == <<pcAdd, inData, addCopied, addRet>>
takeVars == <<pcTake, outData, takeCopied, takeRet>>
vars == <<elements, takeIndex, fillIndex, semEmpty, semFull, addVars, takeVars>>

Slot == 0 .. NEntrys - 1
Entry == [1 .. EntryLen -> Word]

\* Where a thread is: outside of the function, before the semop that waits,
\* in memcpy, or before the semop that signals.
Place == {"out", "wait", "copy", "post"}

\* fifo_init; the elements and both threads' buffers hold whatever the
\* allocator and the stacks held.
Init ==
  /\ elements \in [Slot -> Entry]
  /\ takeIndex = 0 /\ fillIndex = 0
  /\ semEmpty = NEntrys /\ semFull = 0
  /\ pcAdd = "out" /\ inData \in Entry /\ addCopied = 0 /\ addRet = 0
  /\ pcTake = "out" /\ outData \in Entry /\ takeCopied = 0 /\ takeRet = 0

-----------------------------------------------------------------------------
(* Faulty variants of steps below, one for each property that must be able to
   fail.  No specification uses them. *)

\* the result of the first semop is not looked at
AddInterruptedIgnored ==
  /\ pcAdd = "wait"
  /\ semEmpty = 0
  /\ pcAdd' = "copy"
  /\ addCopied' = 0
  /\ UNCHANGED <<elements, takeIndex, fillIndex, semEmpty, semFull, inData,
                 addRet, takeVars>>

\* the semop that signals is missing
AddPostLost ==
  /\ pcAdd = "post"
  /\ pcAdd' = "out"
  /\ addRet' = 0
  /\ UNCHANGED <<elements, takeIndex, fillIndex, semEmpty, semFull, inData,
                 addCopied, takeVars>>
TakePostLost ==
  /\ pcTake = "post"
  /\ pcTake' = "out"
  /\ takeRet' = 0
  /\ UNCHANGED <<elements, takeIndex, fillIndex, semEmpty, semFull, outData,
                 takeCopied, addVars>>

-----------------------------------------------------------------------------

\* index++, index %= n_entrys
NextIndex(i) == (i + 1) % NEntrys

(* fifo_addto_smph *)

AddCall ==
  /\ pcAdd = "out"
  /\ pcAdd' = "wait"
  /\ inData' \in Entry
  /\ UNCHANGED <<elements, takeIndex, fillIndex, semEmpty, semFull,
                 addCopied, addRet, takeVars>>

\* semop(sem_empty, -1)
AddWait ==
  /\ pcAdd = "wait"
  /\ semEmpty > 0
  /\ semEmpty' = semEmpty - 1
  /\ pcAdd' = "copy"
  /\ addCopied' = 0
  /\ UNCHANGED <<elements, takeIndex, fillIndex, semFull, inData, addRet,
                 takeVars>>

\* the same semop, interrupted while it sleeps
AddInterrupted ==
  /\ pcAdd = "wait"
  /\ semEmpty = 0
  /\ pcAdd' = "out"
  /\ addRet' = -1
  /\ UNCHANGED <<elements, takeIndex, fillIndex, semEmpty, semFull, inData,
                 addCopied, takeVars>>

\* one word of memcpy(element, inData, entry_size)
AddCopy ==
  /\ pcAdd = "copy"
  /\ addCopied < EntryLen
  /\ elements' = [elements EXCEPT ![fillIndex][addCopied + 1] =
                                     inData[addCopied + 1]]
  /\ addCopied' = addCopied + 1
  /\ UNCHANGED <<takeIndex, fillIndex, semEmpty, semFull, pcAdd, inData,
                 addRet, takeVars>>

AddAdvance ==
  /\ pcAdd = "copy"
  /\ addCopied = EntryLen
  /\ fillIndex' = NextIndex(fillIndex)
  /\ pcAdd' = "post"
  /\ UNCHANGED <<elements, takeIndex, semEmpty, semFull, inData, addCopied,
                 addRet, takeVars>>

\* semop(sem_full, +1), return 0
AddPost ==
  /\ pcAdd = "post"
  /\ semFull' = semFull + 1
  /\ pcAdd' = "out"
  /\ addRet' = 0
  /\ UNCHANGED <<elements, takeIndex, fillIndex, semEmpty, inData, addCopied,
                 takeVars>>

-----------------------------------------------------------------------------
(* fifo_take_smph *)

TakeCall ==
  /\ pcTake = "out"
  /\ pcTake' = "wait"
  /\ UNCHANGED <<elements, takeIndex, fillIndex, semEmpty, semFull, outData,
                 takeCopied, takeRet, addVars>>

\* semop(sem_full, -1)
TakeWait ==
  /\ pcTake = "wait"
  /\ semFull > 0
  /\ semFull' = semFull - 1
  /\ pcTake' = "copy"
  /\ takeCopied' = 0
  /\ UNCHANGED <<elements, takeIndex, fillIndex, semEmpty, outData, takeRet,
                 addVars>>

\* the same semop, interrupted while it sleeps
TakeInterrupted ==
  /\ pcTake = "wait"
  /\ semFull = 0
  /\ pcTake' = "out"
  /\ takeRet' = -1
  /\ UNCHANGED <<elements, takeIndex, fillIndex, semEmpty, semFull, outData,
                 takeCopied, addVars>>

\* one word of memcpy(outData, element, entry_size)
TakeCopy ==
  /\ pcTake = "copy"
  /\ takeCopied < EntryLen
  /\ outData' = [outData EXCEPT ![takeCopied + 1] =
                                  elements[takeIndex][takeCopied + 1]]
  /\ takeCopied' = takeCopied + 1
  /\ UNCHANGED <<elements, takeIndex, fillIndex, semEmpty, semFull, pcTake,
                 takeRet, addVars>>

TakeAdvance ==
  /\ pcTake = "copy"
  /\ takeCopied = EntryLen
  /\ takeIndex' = NextIndex(takeIndex)
  /\ pcTake' = "post"
  /\ UNCHANGED <<elements, fillIndex, semEmpty, semFull, outData, takeCopied,
                 takeRet, addVars>>

\* semop(sem_empty, +1), return 0
TakePost ==
  /\ pcTake = "post"
  /\ semEmpty' = semEmpty + 1
  /\ pcTake' = "out"
  /\ takeRet' = 0
  /\ UNCHANGED <<elements, takeIndex, fillIndex, semFull, outData, takeCopied,
                 addVars>>

-----------------------------------------------------------------------------

Next ==
  \/ AddCall \/ AddWait \/ AddInterrupted \/ AddCopy \/ AddAdvance \/ AddPost
  \/ TakeCall \/ TakeWait \/ TakeInterrupted \/ TakeCopy \/ TakeAdvance
  \/ TakePost

Spec == Init /\ [][Next]_vars

\* The threads are scheduled, and thread_escrituraDSP calls fifo_take_smph
\* again whatever it returned; frames need not arrive, so AddCall is not fair,
\* and neither are the signals.
Fairness ==
  /\ WF_vars(AddWait \/ AddCopy \/ AddAdvance \/ AddPost)
  /\ WF_vars(TakeCall)
  /\ WF_vars(TakeWait \/ TakeCopy \/ TakeAdvance \/ TakePost)

FairSpec == Spec /\ Fairness

-----------------------------------------------------------------------------
(* Properties *)

TypeOK ==
  /\ elements \in [Slot -> Entry]
  /\ takeIndex \in Slot /\ fillIndex \in Slot
  /\ semEmpty \in Nat /\ semFull \in Nat
  /\ pcAdd \in Place /\ inData \in Entry
  /\ addCopied \in 0 .. EntryLen /\ addRet \in {0, -1}
  /\ pcTake \in Place /\ outData \in Entry
  /\ takeCopied \in 0 .. EntryLen /\ takeRet \in {0, -1}

\* A thread holds a place between its two semops; while the place is being
\* copied it counts for the thread that waited for it.
AddHolds == IF pcAdd \in {"copy", "post"} THEN 1 ELSE 0
TakeHolds == IF pcTake \in {"copy", "post"} THEN 1 ELSE 0

\* Every place is free, full, or held by one of the threads: no path through
\* the two functions, interrupted or not, loses or duplicates a place.
PlacesConserved == semEmpty + semFull + AddHolds + TakeHolds = NEntrys

\* The place being filled is never the place being emptied: the memcpy of one
\* thread never overlaps that of the other.
NoSharedPlace ==
  (pcAdd = "copy" /\ pcTake = "copy") => fillIndex # takeIndex

\* The two threads never sleep in their semops at the same time.
NoMutualWait ==
  ~ (pcAdd = "wait" /\ semEmpty = 0 /\ pcTake = "wait" /\ semFull = 0)

\* What the two semaphores and the two indices keep together, whichever calls
\* are interrupted: the indices stay inside the queue, no place is lost or
\* doubled, and the threads do not wait for each other.
Safe == TypeOK /\ PlacesConserved /\ NoMutualWait

\* What the queue holds: the entries added and not yet taken, which are the
\* places from takeIndex on.
Size ==
  semFull + (IF pcTake = "copy" THEN 1 ELSE 0)
          + (IF pcAdd = "post" THEN 1 ELSE 0)
SlotAt(k) ==
  IF takeIndex + k < NEntrys THEN takeIndex + k ELSE takeIndex + k - NEntrys
Content == [k \in 1 .. Size |-> elements[SlotAt(k - 1)]]

CallState(pc) ==
  CASE pc = "out" -> "out" [] pc = "wait" -> "called"
    [] pc = "copy" -> "granted" [] pc = "post" -> "done"

Fifo == INSTANCE BoundedFifo WITH
  Capacity <- NEntrys, Items <- Entry, NoItem <- << >>,
  queue <- Content,
  addSt <- CallState(pcAdd), addItem <- inData, addRet <- addRet,
  takeSt <- CallState(pcTake), takeRet <- takeRet,
  takeItem <- IF pcTake = "copy" THEN << >> ELSE outData

\* The queue is a bounded FIFO: a take returns, whole, the oldest entry that
\* has not been taken, an add that fails leaves no entry behind, a take that
\* fails loses none and leaves the caller's buffer alone.
\*
\* A FIXME at the client's call (cliente/main.c:305) says that the take should not
\* fail and yield garbage for a couple of cycles.  As static_queue.c stands it does
\* not: it may have with elements + index, without entry_size, which lines 91
\* and 142 have as comments.  The module has one client on its semaphores; with a
\* second one, whose fifo_init sets them back, the remark would be true.
ImplementsFifo == Fifo!Spec

\* A frame the main thread wants to add is accepted or refused in the end: the
\* writer's takes make room for it.
AddReturns == (pcAdd = "wait") ~> (pcAdd = "out")

\* A take that finds the queue holding an entry gets one and returns.
TakeServed == (pcTake = "wait" /\ Content # << >>) ~> (pcTake = "post")

\* Neither thread waits for ever for what the other one has to give.
CallsServed == AddReturns /\ TakeServed
=============================================================================
