----------------------------- MODULE RingPlayer ------------------------------
(***************************************************************************)
(* child2 of tp_03_01: thread_lecturaSHM copies the frames into the ring   *)
(* buffers, thread_escrituraDSP writes them to /dev/dsp.  The threads have *)
(* nothing but the indices iToFill and iToRead between them: equal, they   *)
(* mean an empty ring, and nobody looks whether it is full.  iToFill is    *)
(* incremented in one step and reduced to the ring in a later one, so the  *)
(* other thread may see it at BUFFER_SIZE.                                 *)
(***************************************************************************)
EXTENDS CaptureRing

CONSTANT BufferSize  \* BUFFER_SIZE
ASSUME BufferSizeAssumption == BufferSize \in Nat \ {0}

VARIABLES
  buffers, iToFill, iToRead,
  filling,           \* where thread_lecturaSHM is between its two semops
  ringPlayed,        \* history: the last frame written to /dev/dsp
  lapped,            \* history: the ring was full, and then looked empty
  glimpsed           \* history: iToFill was seen at BUFFER_SIZE, iToRead at 0

fillVars == <<buffers, iToFill, filling, lapped>>
playVars == <<iToRead, ringPlayed, glimpsed>>
playerVars == <<fillVars, playVars>>

Slot == 0 .. BufferSize - 1

PlayerInit ==
  /\ buffers = [i \in Slot |-> None]
  /\ iToFill = 0 /\ iToRead = 0
  /\ filling = "none"
  /\ ringPlayed = None
  /\ lapped = FALSE /\ glimpsed = FALSE

-----------------------------------------------------------------------------
(* Faulty variants.  No specification uses them. *)

\* every other frame is played
NextReadSkips == (iToRead + 2) % BufferSize

\* the last frame is kept back
HasTwoFrames == iToFill \notin {iToRead, (iToRead + 1) % BufferSize}

-----------------------------------------------------------------------------
(* thread_lecturaSHM *)

FillSlot ==
  /\ reader = "copy" /\ place[iRead].ok
  /\ ReaderTakes
  /\ buffers' = [buffers EXCEPT ![iToFill] = place[iRead].frame]
  /\ filling' = "copied"
  /\ UNCHANGED <<iToFill, lapped, playVars>>

\* memcpy of readed_blocks bytes, which are -1
FillBadFrame ==
  /\ reader = "copy" /\ ~place[iRead].ok
  /\ Child2Dies
  /\ UNCHANGED playerVars

Increment ==
  /\ reader = "post" /\ filling = "copied"
  /\ iToFill' = iToFill + 1
  /\ filling' = "incremented"
  /\ UNCHANGED <<ringVars, buffers, lapped, playVars>>

Wrap ==
  /\ reader = "post" /\ filling = "incremented"
  /\ iToFill' = iToFill % BufferSize
  /\ lapped' = (lapped \/ (iToFill' = iToRead /\ taken # ringPlayed))
  /\ filling' = "none"
  /\ UNCHANGED <<ringVars, buffers, playVars>>

FillPosts == filling = "none" /\ ReaderPosts /\ UNCHANGED playerVars

-----------------------------------------------------------------------------
(* thread_escrituraDSP *)

HasFrame == iToRead # iToFill

SeesFrame ==
  /\ player = "look"
  /\ HasFrame
  /\ player' = "write"
  /\ glimpsed' = (glimpsed \/ (iToFill = BufferSize /\ iToRead = 0))
  /\ UNCHANGED <<main, captureVars, readerVars, semVars, stops, fillVars, iToRead,
                 ringPlayed>>

NextRead == (iToRead + 1) % BufferSize

WriteFrame ==
  /\ player = "write"
  /\ ringPlayed' = buffers[iToRead]
  /\ iToRead' = NextRead
  /\ player' = "look"
  /\ UNCHANGED <<main, captureVars, readerVars, semVars, stops, fillVars, glimpsed>>

-----------------------------------------------------------------------------

RingFill ==
  \/ FillSlot \/ FillBadFrame \/ Increment \/ Wrap \/ FillPosts
  \/ (ReaderStarts \/ ReaderWaits) /\ UNCHANGED playerVars
RingPlay ==
  \/ OpenForPlayback /\ UNCHANGED playerVars
  \/ SeesFrame \/ WriteFrame
RingPlayerNext ==
  \/ (RingNext \/ ReaderInterrupted) /\ UNCHANGED playerVars
  \/ RingFill \/ RingPlay

RingPlayerInit == RingInit /\ PlayerInit

-----------------------------------------------------------------------------
(* Properties *)

Sound31 == ~lapped /\ ~glimpsed /\ ~failed

RingPlayerTypeOK ==
  /\ player \in {"none", "open", "look", "write", "dead"}
  /\ buffers \in [Slot -> Frame]
  /\ iToFill \in 0 .. BufferSize /\ iToRead \in Slot
  /\ filling \in {"none", "copied", "incremented"}
  /\ ringPlayed \in Frame
  /\ lapped \in BOOLEAN /\ glimpsed \in BOOLEAN

\* The frames are played in the order of their captures, each once, until the
\* reader laps the player or the player sees iToFill between its two stores:
\* these are the only ways in which the ring without a lock goes wrong.
PlayedInOrder ==
  [][ringPlayed' # ringPlayed /\ Sound31 => ringPlayed' = ringPlayed + 1]_ringPlayed

\* A frame that child2 has put into the ring is played in the end, unless the ring went
\* wrong in one of these ways or child2 ends.
FramesPlayed ==
  \A k \in 0 .. MaxFrame - 1 :
    (filling = "copied" /\ taken = k)
      ~> (ringPlayed >= k \/ ~Sound31 \/ player = "dead")
=============================================================================
