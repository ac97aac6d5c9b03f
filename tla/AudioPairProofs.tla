--------------------------- MODULE AudioPairProofs ---------------------------
(***************************************************************************)
(* Proofs about tp_03_01 and tp_03_02, for every number of places, of      *)
(* frames, of semaphore operations and for every size of ring and queue:   *)
(*   Accounted  no place of the shared memory is lost or invented;         *)
(*   Apart      child1 never writes the place that child2 is copying;      *)
(*   Ordered    every frame is taken once and in order;                    *)
(*   Safety     the types, and what the end of child2 leaves for child1;   *)
(*   Played     the ring of tp_03_01 plays each frame once and in order;   *)
(*   Entire     the queue of tp_03_02 plays a frame whole if it was alone. *)
(* The first four are about the common half, CaptureRing: of what the two  *)
(* versions of child2 add, RingSteps keeps only what matters to it.        *)
(***************************************************************************)
EXTENDS AudioPair, TLAPS

\* A step of the rest of child2.
PlayerOnly ==
  /\ UNCHANGED <<main, capture, reader, free, full, waits, posts, iCapture, iRead,
                 place, frameN, taken, failed, stops>>
  /\ player \in {"none", "dead"} => player' = player

\* A sleeping process is stopped and continued: its semop fails.
Fails ==
  /\ failed'
  /\ stops > 0 /\ stops' = stops - 1
  /\ capture' \in {capture, "read"} /\ reader' \in {reader, "copy"}
  /\ UNCHANGED <<main, free, full, waits, posts, iCapture, iRead, place, frameN, taken>>
  /\ capture = "none" => capture' = "none"
  /\ reader \in {"none", "dead"} => reader' = reader
  /\ player \in {"none", "dead"} => player' = player

\* The end of child2, once it has been started.
Dies ==
  /\ reader = "copy" \/ player = "open"
  /\ Child2Dies

\* The steps of the two programs, as far as the shared memory goes.
LEMMA RingSteps ==
  ASSUME Next
  PROVE  /\ ~failed
         /\ \/ SetFree \/ SetFull \/ CreateChild1 \/ CreateChild2 \/ Exit
            \/ OpenForCapture \/ CannotCapture \/ Reset
            \/ CaptureWaits \/ CaptureReads \/ Captured \/ CapturePosts
            \/ ReaderStarts \/ ReaderWaits \/ ReaderTakes \/ ReaderPosts
            \/ PlayerOnly \/ Fails \/ Dies
<1> DEFINE Goal == \/ SetFree \/ SetFull \/ CreateChild1 \/ CreateChild2 \/ Exit
                   \/ OpenForCapture \/ CannotCapture \/ Reset
                   \/ CaptureWaits \/ CaptureReads \/ Captured \/ CapturePosts
                   \/ ReaderStarts \/ ReaderWaits \/ ReaderTakes \/ ReaderPosts
                   \/ PlayerOnly \/ Fails \/ Dies
<1>1. RingNext => Goal
  <2>1. CaptureInterrupted => Fails
    BY DEF CaptureInterrupted, WaitInterrupted, Fails, readerVars
  <2>2. CannotPlay => Dies
    BY DEF CannotPlay, Dies
  <2> QED BY <2>1, <2>2 DEF RingNext, MainStarts, Child1
<1>2. ReaderInterrupted => Goal
  BY DEF ReaderInterrupted, WaitInterrupted, Fails, captureVars
<1>3. OpenForPlayback => Goal
  BY DEF OpenForPlayback, PlayerOnly, captureVars, readerVars, semVars
<1>4. RingPlayerNext => Goal
  <2>1. FillSlot => ReaderTakes
    BY DEF FillSlot
  <2>2. FillBadFrame => Dies
    BY DEF FillBadFrame, Dies
  <2>3. Increment \/ Wrap => PlayerOnly
    BY DEF Increment, Wrap, PlayerOnly, ringVars, captureVars, readerVars, semVars
  <2>4. FillPosts => ReaderPosts
    BY DEF FillPosts
  <2>5. SeesFrame \/ WriteFrame => PlayerOnly
    BY DEF SeesFrame, WriteFrame, PlayerOnly, captureVars, readerVars, semVars
  <2> QED
    BY <1>1, <1>2, <1>3, <2>1, <2>2, <2>3, <2>4, <2>5
    DEF RingPlayerNext, RingFill, RingPlay
<1>5. QueuePlayerNext => Goal
  <2>1. StartAdd \/ AddWaits \/ AddCopies \/ AddPosts => PlayerOnly
    BY DEF StartAdd, AddWaits, AddCopies, AddPosts, PlayerOnly, ringVars,
           captureVars, readerVars, semVars
  <2>2. Added => ReaderTakes
    BY DEF Added
  <2>3. StartTake \/ TakeWaits \/ TakeCopies \/ TakePosts \/ WriteSample => PlayerOnly
    BY DEF StartTake, TakeWaits, TakeCopies, TakePosts, WriteSample, PlayerOnly,
           ringVars, captureVars, readerVars, semVars
  <2>4. QueueInterrupted => Fails
    BY DEF QueueInterrupted, Fails, ReaderSleeps, TakeSleeps, captureVars
  <2>5. ReaderResets => ReaderStarts
    BY DEF ReaderResets
  <2> QED
    BY <1>1, <1>3, <2>1, <2>2, <2>3, <2>4, <2>5
    DEF QueuePlayerNext, QueueFill, QueuePlay
<1> QED BY <1>4, <1>5 DEF Next, InRing, InQueue, In

-----------------------------------------------------------------------------

Starting == {"sem0", "sem1", "child1", "child2"}

\* child2 is not there before main has created it, and its threads end together.
ReaderCreated ==
  /\ main \in MainPlace
  /\ reader = "dead" => player = "dead"
  /\ main \in Starting => reader = "none" /\ player = "none"

\* The frames from iRead to iCapture: announced, about to be announced, and the
\* one that is being copied.
Ahead == full + (IF capture = "post" THEN 1 ELSE 0) + (IF reader = "copy" THEN 1 ELSE 0)

BeforeCapture == capture \in {"none", "open", "reset", "dead"}

\* Nothing moves before child1 has set the two indices; from then on they are as
\* far apart as there are frames between them.
RingCore ==
  /\ free \in Nat /\ full \in Nat
  /\ iCapture \in Place /\ iRead \in Place
  /\ main \in {"sem0", "sem1", "child1"} => capture = "none"
  /\ main = "sem1" => free = N
  /\ SemaphoresSet => free + full + CaptureHolds + ReaderHolds = N
  /\ SemaphoresSet /\ BeforeCapture => full = 0 /\ ReaderHolds = 0
  /\ ~BeforeCapture => iCapture = iRead + Ahead \/ iCapture = iRead + Ahead - N

\* the k-th place from iRead on
At(k) == IF iRead + k < N THEN iRead + k ELSE iRead + k - N

\* These frames are the ones that follow the last one taken.
Contents ==
  /\ place \in [Place -> [frame : Int, ok : BOOLEAN]]
  /\ taken \in Int /\ frameN \in Int
  /\ BeforeCapture => taken = None
  /\ ~BeforeCapture =>
       /\ frameN = taken + 1 + Ahead
       /\ \A k \in 0 .. N - 1 : k < Ahead => place[At(k)].frame = taken + 1 + k

\* The inductive invariant
IInv ==
  /\ ReaderCreated
  /\ ~failed /\ reader # "dead" => RingCore /\ Contents

LEMMA PlaceAfter ==
  ASSUME NEW i \in Place
  PROVE  /\ NextPlace(i) = IF i + 1 = N THEN 0 ELSE i + 1
         /\ NextPlace(i) \in Place
  BY RingAssumption, SMT DEF Place, NextPlace

LEMMA NoFrameType == None \in Int /\ NoFrame \in [frame : Int, ok : BOOLEAN]
  BY DEF None, NoFrame

LEMMA InitIInv == Init => IInv
<1> SUFFICES ASSUME Init PROVE IInv
  OBVIOUS
<1>1. ReaderCreated /\ RingCore
  BY RingAssumption
  DEF Init, RingInit, ReaderCreated, RingCore, MainPlace, SemaphoresSet,
      BeforeCapture, ReaderHolds, CaptureHolds, Starting
<1>2. place \in [Place -> [frame : Int, ok : BOOLEAN]]
  BY NoFrameType DEF Init, RingInit
<1>3. taken = None /\ taken \in Int /\ frameN \in Int /\ BeforeCapture
  BY NoFrameType DEF Init, RingInit, BeforeCapture
<1> QED BY <1>1, <1>2, <1>3 DEF IInv, Contents

LEMMA NextReaderCreated == ReaderCreated /\ [Next]_vars => ReaderCreated'
<1> SUFFICES ASSUME ReaderCreated, [Next]_vars PROVE ReaderCreated'
  OBVIOUS
<1> USE DEF ReaderCreated, MainPlace, Starting
<1>1. CASE Next
  <2>1. CASE SetFree \/ SetFull BY <2>1 DEF SetFree, SetFull, readerVars
  <2>2. CASE CreateChild1 BY <2>2 DEF CreateChild1, readerVars
  <2>3. CASE CreateChild2 BY <2>3 DEF CreateChild2
  <2>4. CASE Exit BY <2>4 DEF Exit, readerVars
  <2>5. CASE OpenForCapture \/ CannotCapture \/ Reset
    BY <2>5 DEF OpenForCapture, CannotCapture, Reset, readerVars
  <2>6. CASE CaptureWaits \/ CaptureReads \/ Captured \/ CapturePosts
    BY <2>6 DEF CaptureWaits, CaptureReads, Captured, CapturePosts, readerVars
  <2>7. CASE ReaderStarts \/ ReaderWaits \/ ReaderTakes \/ ReaderPosts
    BY <2>7 DEF ReaderStarts, ReaderWaits, ReaderTakes, ReaderPosts
  <2>8. CASE PlayerOnly BY <2>8 DEF PlayerOnly
  <2>9. CASE Fails BY <2>9 DEF Fails
  <2>10. CASE Dies BY <2>10 DEF Dies, Child2Dies
  <2> QED
    BY <1>1, <2>1, <2>2, <2>3, <2>4, <2>5, <2>6, <2>7, <2>8, <2>9, <2>10, RingSteps
<1>2. CASE UNCHANGED vars
  BY <1>2 DEF vars, ringVars, readerVars
<1> QED BY <1>1, <1>2

LEMMA NextRingCore ==
  IInv /\ [Next]_vars => (~failed' /\ reader' # "dead" => RingCore')
<1> SUFFICES ASSUME IInv, [Next]_vars, ~failed', reader' # "dead"
             PROVE  RingCore'
  OBVIOUS
<1> USE RingAssumption
<1> USE DEF RingCore, SemaphoresSet, BeforeCapture, CaptureHolds, ReaderHolds, Ahead
<1>1. CASE Next
  <2>0. ~failed BY <1>1, RingSteps
  <2>1. CASE SetFree
    BY <2>0, <2>1 DEF SetFree, IInv, ReaderCreated, Starting, captureVars, readerVars
  <2>2. CASE SetFull
    BY <2>0, <2>2 DEF SetFull, IInv, ReaderCreated, Starting, captureVars, readerVars
  <2>3. CASE CreateChild1
    BY <2>0, <2>3 DEF CreateChild1, IInv, ReaderCreated, Starting, readerVars, semVars
  <2>4. CASE CreateChild2
    BY <2>0, <2>4 DEF CreateChild2, IInv, ReaderCreated, Starting, captureVars, semVars
  <2>5. CASE Exit
    BY <2>0, <2>5 DEF Exit, IInv, captureVars, readerVars, semVars
  <2>6. CASE OpenForCapture \/ CannotCapture
    BY <2>0, <2>6 DEF OpenForCapture, CannotCapture, IInv, readerVars, semVars
  <2>7. CASE Reset
    BY <2>0, <2>7 DEF Reset, IInv, ReadIndexReset, Place, semVars
  <2>8. CASE CaptureWaits
    BY <2>0, <2>8 DEF CaptureWaits, WaitOn, Less, IInv, readerVars
  <2>9. CASE CaptureReads
    BY <2>0, <2>9 DEF CaptureReads, IInv, readerVars, semVars
  <2>10. CASE Captured
    <3>1. RingCore /\ capture = "reading" BY <2>0, <2>10 DEF Captured, IInv, readerVars
    <3>2. /\ iCapture' = IF iCapture + 1 = N THEN 0 ELSE iCapture + 1
          /\ iCapture' \in Place
      BY <2>10, <3>1, PlaceAfter DEF Captured
    <3> QED BY <2>10, <3>1, <3>2 DEF Captured, readerVars, semVars, Place
  <2>11. CASE CapturePosts
    BY <2>0, <2>11 DEF CapturePosts, Post, More, IInv, readerVars
  <2>12. CASE ReaderStarts
    BY <2>0, <2>12 DEF ReaderStarts, IInv, captureVars, semVars
  <2>13. CASE ReaderWaits
    BY <2>0, <2>13 DEF ReaderWaits, WaitOn, Less, IInv, captureVars
  <2>14. CASE ReaderTakes
    <3>1. RingCore /\ reader = "copy" BY <2>0, <2>14 DEF ReaderTakes, IInv
    <3>2. /\ iRead' = IF iRead + 1 = N THEN 0 ELSE iRead + 1
          /\ iRead' \in Place
      BY <2>14, <3>1, PlaceAfter DEF ReaderTakes
    <3> QED BY <2>14, <3>1, <3>2 DEF ReaderTakes, captureVars, semVars, Place
  <2>15. CASE ReaderPosts
    <3>1. RingCore /\ reader = "post" BY <2>0, <2>15 DEF ReaderPosts, IInv
    <3>2. /\ reader' = "wait" /\ free' = free + 1
          /\ UNCHANGED <<main, capture, full, iCapture, iRead>>
      BY <2>15 DEF ReaderPosts, Post, More, captureVars
    <3>3. main \notin Starting
      BY <3>1 DEF IInv, ReaderCreated
    <3> QED BY <3>1, <3>2, <3>3 DEF Starting
  <2>16. CASE PlayerOnly
    BY <2>0, <2>16 DEF PlayerOnly, IInv
  <2>17. CASE Fails BY <2>17 DEF Fails
  <2>18. CASE Dies BY <2>18 DEF Dies, Child2Dies
  <2> QED
    BY <1>1, <2>1, <2>2, <2>3, <2>4, <2>5, <2>6, <2>7, <2>8, <2>9, <2>10, <2>11,
       <2>12, <2>13, <2>14, <2>15, <2>16, <2>17, <2>18, RingSteps
<1>2. CASE UNCHANGED vars
  BY <1>2 DEF IInv, vars, ringVars, captureVars, readerVars, semVars
<1> QED BY <1>1, <1>2

\* How far apart the indices are before a frame is captured or copied.
LEMMA AheadBounds ==
  ASSUME IInv, ~failed, reader # "dead", ~BeforeCapture
  PROVE  /\ Ahead \in 0 .. N
         /\ capture \in {"read", "reading"} => Ahead < N
         /\ reader = "copy" => Ahead > 0
         /\ iCapture = At(Ahead)
<1>1. RingCore BY DEF IInv
<1>2. SemaphoresSet BY <1>1 DEF RingCore, SemaphoresSet, BeforeCapture
<1>3. free + full + CaptureHolds + ReaderHolds = N /\ free \in Nat /\ full \in Nat
  BY <1>1, <1>2 DEF RingCore
<1>4. /\ Ahead \in 0 .. N
      /\ capture \in {"read", "reading"} => Ahead < N
      /\ reader = "copy" => Ahead > 0
  BY <1>3, RingAssumption DEF CaptureHolds, ReaderHolds, Ahead
<1>5. /\ iCapture \in Place /\ iRead \in Place
      /\ iCapture = iRead + Ahead \/ iCapture = iRead + Ahead - N
  BY <1>1 DEF RingCore
<1> QED BY <1>4, <1>5, RingAssumption DEF At, Place

\* The places from iRead on are distinct until they come round to iRead again.
LEMMA PlacesDistinct ==
  ASSUME iRead \in Place
  PROVE  /\ \A k \in 0 .. N - 1 : At(k) \in Place
         /\ \A j, k \in 0 .. N - 1 : At(j) = At(k) => j = k
         /\ At(0) = iRead
  BY RingAssumption DEF Place, At

LEMMA NextContents ==
  IInv /\ [Next]_vars => (~failed' /\ reader' # "dead" => Contents')
<1> SUFFICES ASSUME IInv, [Next]_vars, ~failed', reader' # "dead"
             PROVE  Contents'
  OBVIOUS
<1> USE RingAssumption
<1>1. CASE Next
  <2>0. ~failed BY <1>1, RingSteps
  <2>1. CASE SetFree \/ SetFull \/ Exit
    BY <2>0, <2>1
    DEF SetFree, SetFull, Exit, IInv, Contents, BeforeCapture, Ahead, At, ReaderCreated, Starting,
        RingCore, captureVars, readerVars, semVars
  <2>2. CASE CreateChild1
    BY <2>0, <2>2
    DEF CreateChild1, IInv, Contents, RingCore, BeforeCapture, readerVars
  <2>3. CASE CreateChild2
    BY <2>0, <2>3
    DEF CreateChild2, IInv, Contents, ReaderCreated, Starting, BeforeCapture, Ahead, At,
        captureVars, semVars
  <2>4. CASE OpenForCapture \/ CannotCapture
    BY <2>0, <2>4
    DEF OpenForCapture, CannotCapture, IInv, Contents, BeforeCapture, readerVars, semVars
  <2>5. CASE Reset
    <3>1. RingCore /\ Contents /\ BeforeCapture /\ main \notin {"sem0", "sem1"}
      BY <2>0, <2>5 DEF Reset, IInv, RingCore, BeforeCapture, readerVars
    <3>2. full = 0 /\ reader \notin {"copy", "post"}
      BY <3>1 DEF RingCore, SemaphoresSet, ReaderHolds
    <3>3. Ahead' = 0
      BY <2>5, <3>2 DEF Reset, Ahead, semVars
    <3> QED BY <2>5, <3>1, <3>3 DEF Reset, Contents, BeforeCapture, None
  <2>6. CASE CaptureWaits
    BY <2>0, <2>6
    DEF CaptureWaits, WaitOn, Less, IInv, Contents, BeforeCapture, Ahead, At, readerVars
  <2>7. CASE CaptureReads
    <3>1. Contents /\ ~BeforeCapture /\ capture = "read" /\ reader # "dead"
      BY <2>0, <2>7 DEF CaptureReads, IInv, BeforeCapture, readerVars
    <3>2. iCapture = At(Ahead) /\ Ahead \in 0 .. N - 1 /\ iRead \in Place
      BY <2>0, <3>1, AheadBounds DEF IInv, RingCore
    <3>3. \A k \in 0 .. N - 1 : k < Ahead => At(k) # iCapture /\ At(k) \in Place
      BY <3>2, PlacesDistinct
    <3>4. /\ Ahead' = Ahead /\ ~BeforeCapture'
          /\ \A k \in 0 .. N - 1 : At(k)' = At(k)
          /\ UNCHANGED <<taken, frameN>>
      BY <2>7, <3>1 DEF CaptureReads, Ahead, BeforeCapture, At, readerVars, semVars
    <3>5. place' = [place EXCEPT ![iCapture] = NoFrame]
      BY <2>7 DEF CaptureReads
    <3>6. place' \in [Place -> [frame : Int, ok : BOOLEAN]]
      BY <3>1, <3>5, NoFrameType DEF Contents
    <3> QED BY <3>1, <3>3, <3>4, <3>5, <3>6 DEF Contents
  <2>8. CASE Captured
    <3>1. Contents /\ ~BeforeCapture /\ capture = "reading" /\ reader # "dead"
      BY <2>0, <2>8 DEF Captured, IInv, BeforeCapture, readerVars
    <3>2. iCapture = At(Ahead) /\ Ahead \in 0 .. N - 1 /\ iRead \in Place
      BY <2>0, <3>1, AheadBounds DEF IInv, RingCore
    <3>3. \A k \in 0 .. N - 1 : k < Ahead => At(k) # iCapture /\ At(k) \in Place
      BY <3>2, PlacesDistinct
    <3>4. /\ Ahead' = Ahead + 1 /\ ~BeforeCapture'
          /\ \A k \in 0 .. N - 1 : At(k)' = At(k)
          /\ taken' = taken /\ frameN' = frameN + 1
      <4>1. full \in Nat BY <2>0, <3>1 DEF IInv, RingCore
      <4> QED BY <2>8, <3>1, <4>1 DEF Captured, Ahead, BeforeCapture, At, readerVars, semVars
    <3>5. PICK ok \in BOOLEAN : place' = [place EXCEPT ![iCapture] = [frame |-> frameN, ok |-> ok]]
      BY <2>8 DEF Captured
    <3>6. place' \in [Place -> [frame : Int, ok : BOOLEAN]]
      BY <3>1, <3>5 DEF Contents
    <3>7. iCapture \in Place /\ frameN = taken + 1 + Ahead /\ taken \in Int
      BY <3>1, <3>2, PlacesDistinct DEF Contents
    <3>8. \A k \in 0 .. N - 1 : k < Ahead + 1 => place'[At(k)].frame = taken + 1 + k
      <4> SUFFICES ASSUME NEW k \in 0 .. N - 1, k < Ahead + 1
                   PROVE  place'[At(k)].frame = taken + 1 + k
        OBVIOUS
      <4>1. CASE k = Ahead
        BY <3>1, <3>2, <3>5, <3>7, <4>1 DEF Contents
      <4>2. CASE k < Ahead
        BY <3>1, <3>3, <3>5, <4>2 DEF Contents
      <4> QED BY <3>2, <4>1, <4>2
    <3> QED BY <3>1, <3>4, <3>6, <3>7, <3>8, <3>2 DEF Contents
  <2>9. CASE CapturePosts
    <3>1. Contents /\ RingCore /\ capture = "post"
      BY <2>0, <2>9 DEF CapturePosts, IInv, readerVars
    <3>2. Ahead' = Ahead
      BY <2>9, <3>1 DEF CapturePosts, Post, More, Ahead, RingCore, readerVars
    <3> QED
      BY <2>9, <3>1, <3>2 DEF CapturePosts, Contents, BeforeCapture, At, readerVars
  <2>10. CASE ReaderStarts
    BY <2>0, <2>10
    DEF ReaderStarts, IInv, Contents, BeforeCapture, Ahead, At, captureVars, semVars
  <2>11. CASE ReaderWaits
    <3>1. Contents /\ RingCore /\ reader = "wait"
      BY <2>0, <2>11 DEF ReaderWaits, IInv
    <3>2. full' = full - 1 /\ reader' = "copy"
      BY <2>0, <2>11 DEF ReaderWaits, WaitOn, Less
    <3>3. Ahead' = Ahead
      BY <2>11, <3>1, <3>2 DEF ReaderWaits, Ahead, RingCore, captureVars
    <3> QED
      BY <2>11, <3>1, <3>3 DEF ReaderWaits, Contents, BeforeCapture, At, captureVars
  <2>12. CASE ReaderTakes
    <3>1. Contents /\ RingCore /\ reader = "copy"
      BY <2>0, <2>12 DEF ReaderTakes, IInv
    <3>2. ~BeforeCapture
      <4>1. main \notin {"sem0", "sem1"}
        BY <3>1 DEF IInv, ReaderCreated, Starting
      <4> QED BY <3>1, <4>1 DEF RingCore, SemaphoresSet, ReaderHolds
    <3>3. Ahead \in 1 .. N /\ iRead \in Place
      BY <2>0, <3>1, <3>2, AheadBounds DEF IInv, RingCore
    <3>4. place[iRead].frame = taken + 1
      BY <3>1, <3>2, <3>3, PlacesDistinct DEF Contents
    <3>5. taken' = taken + 1 /\ UNCHANGED <<place, frameN>>
      BY <2>12, <3>4 DEF ReaderTakes, captureVars
    <3>6. Ahead' = Ahead - 1 /\ ~BeforeCapture'
      BY <2>12, <3>1, <3>2 DEF ReaderTakes, Ahead, BeforeCapture, RingCore, captureVars, semVars
    <3>7. iRead' = IF iRead + 1 = N THEN 0 ELSE iRead + 1
      BY <2>12, <3>3, PlaceAfter DEF ReaderTakes
    <3>8. \A k \in 0 .. N - 1 : k < Ahead - 1 => k + 1 \in 0 .. N - 1 /\ At(k)' = At(k + 1)
      BY <3>3, <3>7 DEF At, Place
    <3> QED BY <3>1, <3>2, <3>3, <3>5, <3>6, <3>8 DEF Contents
  <2>13. CASE ReaderPosts
    BY <2>0, <2>13
    DEF ReaderPosts, Post, More, IInv, Contents, BeforeCapture, Ahead, At, captureVars
  <2>14. CASE PlayerOnly
    BY <2>0, <2>14 DEF PlayerOnly, IInv, Contents, BeforeCapture, Ahead, At
  <2>15. CASE Fails BY <2>15 DEF Fails
  <2>16. CASE Dies BY <2>16 DEF Dies, Child2Dies
  <2> QED
    BY <1>1, <2>1, <2>2, <2>3, <2>4, <2>5, <2>6, <2>7, <2>8, <2>9, <2>10, <2>11,
       <2>12, <2>13, <2>14, <2>15, <2>16, RingSteps
<1>2. CASE UNCHANGED vars
  BY <1>2
  DEF IInv, Contents, BeforeCapture, Ahead, At, vars, ringVars, captureVars,
      readerVars, semVars
<1> QED BY <1>1, <1>2

LEMMA Invariance == Spec => []IInv
<1>1. IInv /\ [Next]_vars => IInv'
  BY NextReaderCreated, NextRingCore, NextContents DEF IInv
<1> QED BY InitIInv, <1>1, PTL DEF Spec

-----------------------------------------------------------------------------

\* The places of the shared memory are all free, announced or in the hands of
\* one process, for every N: CaptureRing's counting semaphores do what main
\* wants of them whatever semaphores an earlier run left.
THEOREM Accounted == Spec => []PlacesAccounted
<1>1. IInv => PlacesAccounted
  BY DEF IInv, RingCore, PlacesAccounted
<1> QED BY Invariance, <1>1, PTL

\* child1 and thread_lecturaSHM are never at the same place, for every N, though
\* neither looks at the other's index.
THEOREM Apart == Spec => []NoSharedPlace
<1>1. IInv => NoSharedPlace
  <2> SUFFICES ASSUME IInv, capture \in {"read", "reading"}, reader = "copy", ~failed
               PROVE  iCapture # iRead
    BY DEF NoSharedPlace
  <2>1. RingCore BY DEF IInv
  <2>2. SemaphoresSet BY <2>1 DEF RingCore, SemaphoresSet
  <2>3. full + 2 <= N
    BY <2>1, <2>2, RingAssumption DEF RingCore, CaptureHolds, ReaderHolds
  <2> QED
    BY <2>1, <2>3, RingAssumption DEF RingCore, BeforeCapture, Ahead, Place
<1> QED BY Invariance, <1>1, PTL

\* A frame is taken once, and after the one that was captured before it, for every
\* N: no frame is lost between the processes, and none comes twice.
THEOREM Ordered == Spec => TakenInOrder
<1>1. IInv /\ [Next]_vars =>
        [taken' # taken /\ ~failed => taken' = taken + 1]_ringVars
  <2> SUFFICES ASSUME IInv, Next, taken' # taken, ~failed
               PROVE  taken' = taken + 1
    BY DEF vars, ringVars, readerVars
  <2>1. ReaderTakes
    BY RingSteps
    DEF SetFree, SetFull, CreateChild1, CreateChild2, Exit, OpenForCapture,
        CannotCapture, Reset, CaptureWaits, CaptureReads, Captured, CapturePosts,
        ReaderStarts, ReaderWaits, ReaderPosts, PlayerOnly, Fails, Dies, Child2Dies,
        readerVars
  <2>2. RingCore /\ Contents /\ reader = "copy"
    BY <2>1 DEF IInv, ReaderTakes
  <2>3. ~BeforeCapture
    <3>1. main \notin {"sem0", "sem1"}
      BY <2>2 DEF IInv, ReaderCreated, Starting
    <3> QED BY <2>2, <3>1 DEF RingCore, SemaphoresSet, ReaderHolds
  <2>4. Ahead \in 1 .. N /\ iRead \in Place
    BY <2>2, <2>3, AheadBounds DEF RingCore
  <2>5. place[iRead].frame = taken + 1
    BY <2>2, <2>3, <2>4, PlacesDistinct, RingAssumption DEF Contents
  <2> QED BY <2>1, <2>5 DEF ReaderTakes
<1> QED BY Invariance, <1>1, PTL DEF Spec, TakenInOrder

-----------------------------------------------------------------------------
(* The sums that the kernel keeps, and what the end of child2 leaves *)

\* What each process waited for and has not posted is in its hands.
Sums ==
  /\ free \in Nat /\ full \in Nat
  /\ waits \in [Process -> 0 .. UndoMax] /\ posts \in [Process -> 0 .. UndoMax]
  /\ \A p \in Process : posts[p] <= waits[p]
  /\ ~failed => posts["child1"] + CaptureHolds = waits["child1"]
  /\ ~failed /\ reader # "dead" => posts["child2"] + ReaderHolds = waits["child2"]

\* What child1 has not used of the first N places and what child2 has given back
\* is free; after the end of child2 no more than the former.
FreeExact ==
  /\ main \in {"sem0", "sem1", "child1"} => capture = "none" /\ waits["child1"] = 0
  /\ main \in Starting => posts["child2"] = 0
  /\ main # "sem0" /\ ~failed =>
       free = IF reader = "dead"
              THEN IF waits["child1"] < N THEN N - waits["child1"] ELSE 0
              ELSE N - waits["child1"] + posts["child2"]

SumsInv == ReaderCreated /\ Sums /\ FreeExact

LEMMA InitSums == Init => SumsInv
<1> SUFFICES ASSUME Init PROVE SumsInv
  OBVIOUS
<1>1. ReaderCreated BY InitIInv DEF IInv
<1>2. Sums /\ FreeExact
  BY RingAssumption
  DEF Init, RingInit, Sums, FreeExact, Process, CaptureHolds, ReaderHolds
<1> QED BY <1>1, <1>2 DEF SumsInv

LEMMA NextSums == SumsInv /\ [Next]_vars => Sums'
<1> SUFFICES ASSUME SumsInv, [Next]_vars PROVE Sums'
  OBVIOUS
<1> USE RingAssumption DEF Sums, CaptureHolds, ReaderHolds, Process
<1>0. Sums BY DEF SumsInv
<1>1. CASE Next
  <2>0. ~failed BY <1>1, RingSteps
  <2>1. CASE SetFree \/ SetFull
    BY <1>0, <2>1 DEF SetFree, SetFull, captureVars, readerVars
  <2>2. CASE CreateChild1
    BY <1>0, <2>2 DEF CreateChild1, SumsInv, FreeExact, readerVars, semVars
  <2>3. CASE CreateChild2
    BY <1>0, <2>3
    DEF CreateChild2, SumsInv, ReaderCreated, Starting, captureVars, semVars
  <2>4. CASE Exit
    BY <1>0, <2>4 DEF Exit, captureVars, readerVars, semVars
  <2>5. CASE OpenForCapture \/ CannotCapture \/ Reset
    BY <1>0, <2>5 DEF OpenForCapture, CannotCapture, Reset, readerVars, semVars
  <2>6. CASE CaptureWaits
    BY <1>0, <2>0, <2>6 DEF CaptureWaits, WaitOn, CanWait, Less, readerVars
  <2>7. CASE CaptureReads \/ Captured
    BY <1>0, <2>7 DEF CaptureReads, Captured, readerVars, semVars
  <2>8. CASE CapturePosts
    BY <1>0, <2>0, <2>8 DEF CapturePosts, Post, More, readerVars
  <2>9. CASE ReaderStarts
    BY <1>0, <2>9 DEF ReaderStarts, captureVars, semVars
  <2>10. CASE ReaderWaits
    BY <1>0, <2>0, <2>10 DEF ReaderWaits, WaitOn, CanWait, Less, captureVars
  <2>11. CASE ReaderTakes
    BY <1>0, <2>11 DEF ReaderTakes, captureVars, semVars
  <2>12. CASE ReaderPosts
    BY <1>0, <2>0, <2>12 DEF ReaderPosts, Post, More, captureVars
  <2>13. CASE PlayerOnly
    BY <1>0, <2>13 DEF PlayerOnly
  <2>14. CASE Fails
    BY <1>0, <2>14 DEF Fails
  <2>15. CASE Dies
    BY <1>0, <2>15 DEF Dies, Child2Dies, FreeUndone, captureVars
  <2> QED
    BY <1>1, <2>1, <2>2, <2>3, <2>4, <2>5, <2>6, <2>7, <2>8, <2>9, <2>10, <2>11,
       <2>12, <2>13, <2>14, <2>15, RingSteps
<1>2. CASE UNCHANGED vars
  BY <1>0, <1>2 DEF vars, ringVars, captureVars, readerVars, semVars
<1> QED BY <1>1, <1>2

LEMMA NextFreeExact == SumsInv /\ [Next]_vars => FreeExact'
<1> SUFFICES ASSUME SumsInv, [Next]_vars PROVE FreeExact'
  OBVIOUS
<1> USE RingAssumption DEF FreeExact, Starting
<1>0. FreeExact /\ ReaderCreated BY DEF SumsInv
<1>1. /\ waits \in [Process -> 0 .. UndoMax] /\ posts \in [Process -> 0 .. UndoMax]
      /\ "child1" \in Process /\ "child2" \in Process
      /\ free \in Nat
  BY DEF SumsInv, Sums, Process
<1>2. CASE Next
  <2>0. ~failed BY <1>2, RingSteps
  <2>1. CASE SetFree \/ SetFull
    BY <1>0, <1>1, <2>1 DEF SetFree, SetFull, captureVars, readerVars, ReaderCreated
  <2>2. CASE CreateChild1
    BY <1>0, <2>2 DEF CreateChild1, readerVars, semVars
  <2>3. CASE CreateChild2
    BY <1>0, <2>3 DEF CreateChild2, ReaderCreated, captureVars, semVars
  <2>4. CASE Exit
    BY <1>0, <2>4 DEF Exit, captureVars, readerVars, semVars
  <2>5. CASE OpenForCapture \/ CannotCapture \/ Reset
    BY <1>0, <2>5 DEF OpenForCapture, CannotCapture, Reset, readerVars, semVars
  <2>6. CASE CaptureWaits
    BY <1>0, <1>1, <2>0, <2>6 DEF CaptureWaits, WaitOn, Less, readerVars
  <2>7. CASE CaptureReads \/ Captured
    BY <1>0, <2>7 DEF CaptureReads, Captured, readerVars, semVars
  <2>8. CASE CapturePosts
    BY <1>0, <1>1, <2>8 DEF CapturePosts, Post, readerVars
  <2>9. CASE ReaderStarts
    BY <1>0, <2>9 DEF ReaderStarts, captureVars, semVars
  <2>10. CASE ReaderWaits
    BY <1>0, <1>1, <2>0, <2>10 DEF ReaderWaits, WaitOn, captureVars
  <2>11. CASE ReaderTakes
    BY <1>0, <2>11 DEF ReaderTakes, captureVars, semVars
  <2>12. CASE ReaderPosts
    <3>1. main \notin Starting /\ reader # "dead"
      BY <1>0, <2>12 DEF ReaderPosts, ReaderCreated
    <3> QED
      BY <1>0, <1>1, <2>0, <2>12, <3>1 DEF ReaderPosts, Post, More, captureVars
  <2>13. CASE PlayerOnly
    BY <1>0, <2>13 DEF PlayerOnly
  <2>14. CASE Fails
    BY <1>0, <2>14 DEF Fails, ReaderCreated
  <2>15. CASE Dies
    BY <1>0, <1>1, <2>0, <2>15
    DEF Dies, Child2Dies, FreeUndone, captureVars, ReaderCreated
  <2> QED
    BY <1>2, <2>1, <2>2, <2>3, <2>4, <2>5, <2>6, <2>7, <2>8, <2>9, <2>10, <2>11,
       <2>12, <2>13, <2>14, <2>15, RingSteps
<1>3. CASE UNCHANGED vars
  BY <1>0, <1>3 DEF vars, ringVars, captureVars, readerVars, semVars
<1> QED BY <1>2, <1>3

LEMMA SumsInvariance == Spec => []SumsInv
<1>1. SumsInv /\ [Next]_vars => SumsInv'
  BY NextReaderCreated, NextSums, NextFreeExact DEF SumsInv
<1> QED BY InitSums, <1>1, PTL DEF Spec

-----------------------------------------------------------------------------
(* The types *)

\* A frame has a number when its capture begins.
Numbered == capture = "reading" => frameN < MaxFrame

\* iToFill is past the ring only between its two stores.
FillsSlot == filling # "incremented" => iToFill \in Slot

TypeInv ==
  /\ RingTypeOK /\ Numbered
  /\ program = "tp_03_01" => RingPlayerTypeOK /\ FillsSlot
  /\ program # "tp_03_01" => QueuePlayerTypeOK

LEMMA FrameTypes ==
  /\ None \in Frame /\ NoFrame \in Content
  /\ \A i \in Nat : i < MaxFrame => i \in Frame
  BY RingBoundsAssumption DEF None, Frame, NoFrame, Content

LEMMA InitTypeInv == Init => TypeInv
<1> SUFFICES ASSUME Init PROVE TypeInv
  OBVIOUS
<1>1. RingTypeOK /\ Numbered
  <2>1. place \in [Place -> Content] /\ taken \in Frame
    BY FrameTypes DEF Init, RingInit
  <2>2. waits \in [Process -> 0 .. UndoMax] /\ posts \in [Process -> 0 .. UndoMax]
    BY RingAssumption DEF Init, RingInit
  <2>3. main \in MainPlace /\ capture \in CapturePlace /\ reader \in ReaderPlace
    BY DEF Init, RingInit, MainPlace, CapturePlace, ReaderPlace
  <2>4. failed \in BOOLEAN
    BY Zenon DEF Init, RingInit
  <2> QED
    BY <2>1, <2>2, <2>3, <2>4, RingAssumption, RingBoundsAssumption
    DEF Init, RingInit, RingTypeOK, Numbered
<1>2. RingPlayerTypeOK /\ FillsSlot
  <2>1. buffers \in [Slot -> Frame] /\ ringPlayed \in Frame
    BY FrameTypes DEF Init, PlayerInit
  <2>2. lapped \in BOOLEAN /\ glimpsed \in BOOLEAN
    BY Zenon DEF Init, PlayerInit
  <2> QED
    BY <2>1, <2>2, BufferSizeAssumption
    DEF Init, RingInit, PlayerInit, RingPlayerTypeOK, FillsSlot, Slot
<1>3. QueuePlayerTypeOK
  <2>1. Nothing \in Datum
    BY QueueAssumption, FrameTypes DEF Nothing, Datum, Part
  <2>2. cells \in [Cell -> Datum] /\ sample \in [Part -> Datum]
    BY <2>1 DEF Init, QueueInit
  <2>3. disturbed \in BOOLEAN /\ took \in Frame
    BY Zenon, FrameTypes DEF Init, QueueInit
  <2> QED
    BY <2>2, <2>3, QueueAssumption DEF Init, RingInit, QueueInit, QueuePlayerTypeOK
<1> QED BY <1>1, <1>2, <1>3 DEF TypeInv

LEMMA NextRingTypes == TypeInv /\ SumsInv' /\ [Next]_vars => RingTypeOK' /\ Numbered'
<1> SUFFICES ASSUME TypeInv, SumsInv', [Next]_vars PROVE RingTypeOK' /\ Numbered'
  OBVIOUS
<1>0. RingTypeOK /\ Numbered BY DEF TypeInv
<1>1. /\ free' \in Nat /\ full' \in Nat
      /\ waits' \in [Process -> 0 .. UndoMax] /\ posts' \in [Process -> 0 .. UndoMax]
  BY DEF SumsInv, Sums
<1> USE RingAssumption, RingBoundsAssumption
    DEF RingTypeOK, Numbered, MainPlace, CapturePlace, ReaderPlace
<1>2. CASE Next
  <2>0. ~failed BY <1>2, RingSteps
  <2>1. CASE SetFree \/ SetFull
    BY <1>0, <1>1, <2>1 DEF SetFree, SetFull, captureVars, readerVars
  <2>2. CASE CreateChild1
    BY <1>0, <1>1, <2>2 DEF CreateChild1, readerVars, semVars
  <2>3. CASE CreateChild2
    BY <1>0, <1>1, <2>3 DEF CreateChild2, captureVars, semVars
  <2>4. CASE Exit
    BY <1>0, <1>1, <2>4 DEF Exit, captureVars, readerVars, semVars
  <2>5. CASE OpenForCapture \/ CannotCapture
    BY <1>0, <1>1, <2>5 DEF OpenForCapture, CannotCapture, readerVars, semVars
  <2>6. CASE Reset
    BY <1>0, <1>1, <2>6 DEF Reset, ReadIndexReset, semVars, Place
  <2>7. CASE CaptureWaits
    BY <1>0, <1>1, <2>7 DEF CaptureWaits, WaitOn, readerVars
  <2>8. CASE CaptureReads
    <3>1. place' \in [Place -> Content]
      BY <1>0, <2>8, FrameTypes DEF CaptureReads
    <3> QED BY <1>0, <1>1, <2>8, <3>1 DEF CaptureReads, readerVars, semVars
  <2>9. CASE Captured
    <3>1. frameN \in Frame /\ frameN' \in 0 .. MaxFrame
      BY <1>0, <2>9, FrameTypes DEF Captured
    <3>2. place' \in [Place -> Content]
      BY <1>0, <2>9, <3>1 DEF Captured, Content
    <3>3. iCapture' \in Place
      BY <1>0, <2>9, PlaceAfter DEF Captured
    <3> QED BY <1>0, <1>1, <2>9, <3>1, <3>2, <3>3 DEF Captured, readerVars, semVars
  <2>10. CASE CapturePosts
    BY <1>0, <1>1, <2>10 DEF CapturePosts, Post, readerVars
  <2>11. CASE ReaderStarts
    BY <1>0, <1>1, <2>11 DEF ReaderStarts, captureVars, semVars
  <2>12. CASE ReaderWaits
    BY <1>0, <1>1, <2>12 DEF ReaderWaits, WaitOn, captureVars
  <2>13. CASE ReaderTakes
    <3>1. taken' \in Frame /\ iRead' \in Place
      BY <1>0, <2>13, PlaceAfter DEF ReaderTakes, Content
    <3> QED BY <1>0, <1>1, <2>13, <3>1 DEF ReaderTakes, captureVars, semVars
  <2>14. CASE ReaderPosts
    BY <1>0, <1>1, <2>14 DEF ReaderPosts, Post, captureVars
  <2>15. CASE PlayerOnly
    BY <1>0, <1>1, <2>15 DEF PlayerOnly
  <2>16. CASE Fails
    BY <1>0, <1>1, <2>16 DEF Fails
  <2>17. CASE Dies
    BY <1>0, <1>1, <2>17 DEF Dies, Child2Dies, captureVars
  <2> QED
    BY <1>2, <2>1, <2>2, <2>3, <2>4, <2>5, <2>6, <2>7, <2>8, <2>9, <2>10, <2>11,
       <2>12, <2>13, <2>14, <2>15, <2>16, <2>17, RingSteps
<1>3. CASE UNCHANGED vars
  BY <1>0, <1>3 DEF vars, ringVars, captureVars, readerVars, semVars
<1> QED BY <1>2, <1>3

\* What the common half does to the player.
LEMMA RingPlayerKept ==
  ASSUME RingNext \/ ReaderInterrupted \/ ReaderStarts \/ ReaderWaits \/ ReaderPosts
         \/ OpenForPlayback
  PROVE  /\ player' \in {player, "open", "look", "dead"}
         /\ player' = "look" => player \in {"look", "open"}
  BY DEF RingNext, MainStarts, SetFree, SetFull, CreateChild1, CreateChild2, Exit, Child1,
         OpenForCapture, CannotCapture, Reset, CaptureWaits, CaptureInterrupted,
         CaptureReads, Captured, CapturePosts, CannotPlay, Child2Dies, ReaderInterrupted,
         ReaderStarts, ReaderWaits, ReaderPosts, OpenForPlayback

LEMMA NextRingPlayerTypes ==
  ASSUME TypeInv, program = "tp_03_01", [Next]_vars
  PROVE  RingPlayerTypeOK' /\ FillsSlot'
<1>0. RingTypeOK /\ RingPlayerTypeOK /\ FillsSlot BY DEF TypeInv
<1> USE BufferSizeAssumption DEF RingPlayerTypeOK, FillsSlot, Slot
<1>1. CASE UNCHANGED vars
  BY <1>0, <1>1 DEF vars, ringVars, playerVars, fillVars, playVars
<1>2. CASE RingPlayerNext
  <2>1. ASSUME RingNext \/ ReaderInterrupted \/ ReaderStarts \/ ReaderWaits
                 \/ OpenForPlayback,
               UNCHANGED playerVars
        PROVE  RingPlayerTypeOK' /\ FillsSlot'
    BY <1>0, <2>1, RingPlayerKept DEF playerVars, fillVars, playVars
  <2>2. CASE FillSlot
    <3>1. place[iRead].frame \in Frame /\ UNCHANGED player
      BY <1>0, <2>2 DEF FillSlot, ReaderTakes, RingTypeOK, Content
    <3>2. buffers' \in [Slot -> Frame]
      BY <1>0, <2>2, <3>1 DEF FillSlot
    <3> QED BY <1>0, <2>2, <3>1, <3>2 DEF FillSlot, playVars
  <2>3. CASE FillBadFrame
    BY <1>0, <2>3 DEF FillBadFrame, Child2Dies, playerVars, fillVars, playVars
  <2>4. CASE Increment
    BY <1>0, <2>4 DEF Increment, ringVars, playVars
  <2>5. CASE Wrap
    BY <1>0, <2>5 DEF Wrap, ringVars, playVars
  <2>6. CASE FillPosts
    BY <1>0, <2>6, RingPlayerKept DEF FillPosts, playerVars, fillVars, playVars
  <2>7. CASE SeesFrame
    BY <1>0, <2>7 DEF SeesFrame, fillVars
  <2>8. CASE WriteFrame
    BY <1>0, <2>8 DEF WriteFrame, NextRead, fillVars
  <2> QED
    BY <1>2, <2>1, <2>2, <2>3, <2>4, <2>5, <2>6, <2>7, <2>8
    DEF RingPlayerNext, RingFill, RingPlay
<1> QED BY <1>1, <1>2 DEF Next, InRing, InQueue, In

\* The part p of a place lies in the memory of the queue.
LEMMA CellOfPlace ==
  ASSUME NEW i \in 0 .. QueueSize - 1, NEW p \in Part
  PROVE  CellOf(i, p) \in Cell
  BY QueueAssumption DEF CellOf, Cell, Part

LEMMA IndexAfter ==
  ASSUME NEW i \in 0 .. QueueSize - 1
  PROVE  /\ NextIndex(i) \in 0 .. QueueSize - 1
         /\ NextIndex(i) = IF i + 1 = QueueSize THEN 0 ELSE i + 1
  BY QueueAssumption, SMT DEF NextIndex

\* The queue's variables without the count of frames, which only the threshold is
\* compared with.
queueButCount == <<cells, semEmpty, semFull, fillIndex, adding, added, takeIndex, copied,
                   sample, took, disturbed>>
LEMMA CountApart ==
  /\ UNCHANGED queueVars => UNCHANGED queueButCount
  /\ ReaderResets => ReaderStarts /\ UNCHANGED queueButCount
  BY DEF queueVars, addVars, takeVars, queueButCount, ReaderResets

LEMMA NextQueuePlayerTypes ==
  ASSUME TypeInv, program # "tp_03_01", [Next]_vars
  PROVE  QueuePlayerTypeOK'
<1>0. RingTypeOK /\ QueuePlayerTypeOK BY DEF TypeInv
<1> USE QueueAssumption DEF QueuePlayerTypeOK
<1>1. CASE UNCHANGED vars
  BY <1>0, <1>1 DEF vars, ringVars, queueVars, addVars, takeVars
<1>2. CASE QueuePlayerNext
  <2>1. ASSUME RingNext \/ ReaderStarts \/ ReaderWaits \/ ReaderPosts \/ OpenForPlayback,
               UNCHANGED queueButCount
        PROVE  QueuePlayerTypeOK'
    BY <1>0, <2>1, RingPlayerKept DEF queueButCount
  <2>2. CASE StartAdd
    BY <1>0, <2>2 DEF StartAdd, ringVars, takeVars
  <2>3. CASE AddWaits
    BY <1>0, <2>3 DEF AddWaits, ringVars, takeVars
  <2>4. CASE AddCopies
    <3>1. [frame |-> place[iRead].frame, part |-> added'] \in Datum
      BY <1>0, <2>4 DEF AddCopies, RingTypeOK, Content, Datum, Part
    <3>2. cells' \in [Cell -> Datum]
      BY <1>0, <2>4, <3>1 DEF AddCopies
    <3> QED BY <1>0, <2>4, <3>2 DEF AddCopies, ringVars, takeVars
  <2>5. CASE AddPosts
    BY <1>0, <2>5, IndexAfter DEF AddPosts, ringVars, takeVars
  <2>6. CASE Added
    BY <1>0, <2>6 DEF Added, ReaderTakes, takeVars
  <2>7. CASE StartTake
    BY <1>0, <2>7 DEF StartTake, queueVars, addVars, takeVars
  <2>8. CASE TakeWaits
    <3>1. took' \in Frame
      BY <1>0, <2>8, RingBoundsAssumption DEF TakeWaits, Frame, None
    <3>2. disturbed' \in BOOLEAN
      BY Zenon, <2>8 DEF TakeWaits
    <3> QED BY <1>0, <2>8, <3>1, <3>2 DEF TakeWaits, addVars
  <2>9. CASE TakeCopies
    <3>1. copied' \in Part /\ CellOf(takeIndex, copied') \in Cell
      BY <1>0, <2>9, CellOfPlace DEF TakeCopies, Part
    <3>2. sample' \in [Part -> Datum]
      BY <1>0, <2>9, <3>1 DEF TakeCopies
    <3> QED BY <1>0, <2>9, <3>2 DEF TakeCopies, ringVars, addVars
  <2>10. CASE TakePosts
    BY <1>0, <2>10, IndexAfter DEF TakePosts, addVars
  <2>11. CASE WriteSample
    BY <1>0, <2>11 DEF WriteSample, queueVars, addVars, takeVars
  <2>12. CASE QueueInterrupted
    BY <1>0, <2>12 DEF QueueInterrupted
  <2> QED
    BY <1>2, <2>1, <2>2, <2>3, <2>4, <2>5, <2>6, <2>7, <2>8, <2>9, <2>10, <2>11, <2>12,
       CountApart
    DEF QueuePlayerNext, QueueFill, QueuePlay
<1> QED BY <1>1, <1>2 DEF Next, InRing, InQueue, In

LEMMA TypeInvariance == Spec => []TypeInv
<1>1. [Next]_vars => program' = program
  BY DEF Next, InRing, InQueue, In, vars
<1>2. TypeInv /\ SumsInv' /\ [Next]_vars => TypeInv'
  BY <1>1, NextRingTypes, NextRingPlayerTypes, NextQueuePlayerTypes DEF TypeInv
<1> QED BY InitTypeInv, SumsInvariance, <1>2, PTL DEF Spec

\* For every number of places and frames, and any semaphores and indices that an
\* earlier run left: the types, and of the places that child2 held or had given
\* back nothing is left for child1 when child2 has ended.
THEOREM Safety == Spec => []Safe
<1>1. TypeInv => TypeOK
  BY DEF TypeInv, TypeOK
<1>2. SumsInv => UndoneToFirstRound
  <2> SUFFICES ASSUME SumsInv, reader = "dead", ~failed, waits["child1"] >= N
               PROVE  free = 0
    BY DEF UndoneToFirstRound
  <2>1. main # "sem0"
    BY DEF SumsInv, ReaderCreated, Starting
  <2>2. waits["child1"] \in Nat
    BY RingAssumption DEF SumsInv, Sums, Process
  <2> QED BY <2>1, <2>2, RingAssumption DEF SumsInv, FreeExact
<1> QED BY TypeInvariance, SumsInvariance, <1>1, <1>2, PTL DEF Safe

\* thread_lecturaSHM is about to take the frame whose turn it is.
LEMMA TurnTaken ==
  ASSUME IInv, ~failed, reader = "copy"
  PROVE  place[iRead].frame = taken + 1
<1>1. RingCore /\ Contents
  BY DEF IInv
<1>2. ~BeforeCapture
  <2>1. main \notin {"sem0", "sem1"}
    BY DEF IInv, ReaderCreated, Starting
  <2> QED BY <1>1, <2>1 DEF RingCore, SemaphoresSet, ReaderHolds
<1>3. Ahead \in 1 .. N /\ iRead \in Place
  BY <1>1, <1>2, AheadBounds DEF RingCore
<1> QED BY <1>1, <1>2, <1>3, PlacesDistinct, RingAssumption DEF Contents

\* What the common half does to the threads of child2 once they are started.
LEMMA RingThreadsKept ==
  ASSUME ReaderCreated,
         RingNext \/ ReaderInterrupted \/ ReaderStarts \/ ReaderWaits \/ ReaderPosts
         \/ OpenForPlayback
  PROVE  /\ taken' = taken
         /\ failed => failed'
         /\ reader \in {"copy", "dead"} => reader' \in {"copy", "dead"}
         /\ reader = "dead" => reader' = "dead"
         /\ player \in {"wait", "copy", "write"} => player' = player \/ reader' = "dead"
         /\ player' \in {"copy", "write"} => player' = player
<1> USE DEF ReaderCreated, Starting
<1>1. CASE MainStarts \/ Exit
  BY <1>1 DEF MainStarts, SetFree, SetFull, CreateChild1, CreateChild2, Exit, readerVars, semVars
<1>2. CASE Child1 \/ CaptureReads \/ CannotCapture
  BY <1>2
  DEF Child1, OpenForCapture, CannotCapture, Reset, CaptureWaits, CaptureReads, Captured,
      CapturePosts, WaitOn, Post, readerVars, semVars
<1>3. CASE CaptureInterrupted
  BY <1>3 DEF CaptureInterrupted, WaitInterrupted, readerVars
<1>4. CASE CannotPlay
  BY <1>4 DEF CannotPlay, Child2Dies
<1>5. CASE ReaderInterrupted \/ ReaderStarts \/ ReaderWaits
  BY <1>5 DEF ReaderInterrupted, ReaderStarts, ReaderWaits, WaitInterrupted, WaitOn, semVars
<1>6. CASE ReaderPosts
  BY <1>6 DEF ReaderPosts, Post
<1>7. CASE OpenForPlayback
  BY <1>7 DEF OpenForPlayback, readerVars, semVars
<1> QED BY Zenon, <1>1, <1>2, <1>3, <1>4, <1>5, <1>6, <1>7 DEF RingNext

\* A reader that is to post stays so until it does, or child2 ends.
LEMMA RingPostKept ==
  ASSUME ReaderCreated, reader \in {"post", "dead"},
         RingNext \/ ReaderInterrupted \/ ReaderStarts \/ ReaderWaits \/ OpenForPlayback
  PROVE  reader' \in {"post", "dead"}
  BY DEF RingNext, MainStarts, SetFree, SetFull, CreateChild1, CreateChild2, Exit, Child1,
         OpenForCapture, CannotCapture, Reset, CaptureWaits, CaptureInterrupted,
         CaptureReads, Captured, CapturePosts, CannotPlay, Child2Dies, ReaderInterrupted,
         ReaderStarts, ReaderWaits, OpenForPlayback, ReaderCreated, Starting, readerVars

-----------------------------------------------------------------------------
(* The ring of tp_03_01 *)

\* the k-th place of the ring from iToRead on
RingAt(k) == IF iToRead + k < BufferSize THEN iToRead + k ELSE iToRead + k - BufferSize

\* The frames in the ring that iToFill tells of, and the one it does not yet.
Ready == IF filling = "copied" THEN taken - 1 - ringPlayed ELSE taken - ringPlayed
Stored == taken - ringPlayed

\* The indices are as far apart as there are frames between them, or one turn
\* less; one turn more at the glimpse of iToFill past the end of an empty ring.
RingDistance ==
  /\ Ready \in 0 .. BufferSize
  /\ filling # "incremented" => Ready < BufferSize
  /\ \/ iToFill = iToRead + Ready
     \/ iToFill = iToRead + Ready - BufferSize
     \/ iToFill = iToRead + Ready + BufferSize

\* From iToRead on the ring holds the frames that follow the last one played, and
\* a player that saw a frame has one.
RingHolds ==
  /\ \A k \in 0 .. BufferSize - 1 : k < Stored => buffers[RingAt(k)] = ringPlayed + 1 + k
  /\ player = "write" => Ready > 0

RingOrder ==
  program = "tp_03_01" =>
    /\ filling # "none" => reader \in {"post", "dead"}
    /\ Sound31 => RingDistance /\ RingHolds

LEMMA InitRingOrder == Init => RingOrder
<1> SUFFICES ASSUME Init PROVE RingOrder
  OBVIOUS
<1>1. /\ filling = "none" /\ player = "none"
      /\ taken = -1 /\ ringPlayed = -1 /\ iToFill = 0 /\ iToRead = 0
  BY DEF Init, RingInit, PlayerInit, None
<1>2. Ready = 0 /\ Stored = 0
  BY <1>1 DEF Ready, Stored
<1> QED
  BY <1>1, <1>2, BufferSizeAssumption DEF RingOrder, RingDistance, RingHolds

\* The places of the ring from iToRead on are distinct.
LEMMA RingDistinct ==
  ASSUME iToRead \in Slot
  PROVE  /\ \A k \in 0 .. BufferSize - 1 : RingAt(k) \in Slot
         /\ \A j, k \in 0 .. BufferSize - 1 : RingAt(j) = RingAt(k) => j = k
         /\ RingAt(0) = iToRead
  BY BufferSizeAssumption DEF Slot, RingAt

LEMMA NextRingOrder ==
  ASSUME IInv, TypeInv, RingOrder, [Next]_vars, program = "tp_03_01"
  PROVE  RingOrder'
<1>0. /\ RingTypeOK /\ RingPlayerTypeOK /\ FillsSlot /\ ReaderCreated
      /\ filling # "none" => reader \in {"post", "dead"}
      /\ Sound31 => RingDistance /\ RingHolds
  BY DEF TypeInv, IInv, RingOrder
<1>a. /\ taken \in Int /\ ringPlayed \in Int
      /\ iToFill \in 0 .. BufferSize /\ iToRead \in Slot
      /\ buffers \in [Slot -> Frame]
  BY <1>0, RingBoundsAssumption DEF RingTypeOK, RingPlayerTypeOK, Frame, None
<1> USE BufferSizeAssumption
<1>1. CASE UNCHANGED vars
  BY <1>0, <1>1
  DEF vars, ringVars, readerVars, semVars, playerVars, fillVars, playVars, RingOrder, Sound31,
      RingDistance, RingHolds, Ready, Stored, RingAt
<1>2. ASSUME RingPlayerNext, ~failed PROVE RingOrder'
  <2>1. ASSUME \/ RingNext \/ ReaderInterrupted \/ ReaderStarts \/ ReaderWaits
               \/ ReaderPosts /\ filling = "none"
               \/ OpenForPlayback,
               UNCHANGED playerVars
        PROVE  RingOrder'
    <3>1. /\ taken' = taken /\ (failed => failed')
          /\ player' = "write" => player = "write"
          /\ filling # "none" => reader' \in {"post", "dead"}
      BY Zenon, <1>0, <2>1, RingThreadsKept, RingPostKept
    <3> QED
      BY <1>0, <2>1, <3>1
      DEF playerVars, fillVars, playVars, RingOrder, Sound31, RingDistance, RingHolds,
          Ready, Stored, RingAt
  <2>2. CASE FillSlot
    <3>1. ~failed BY <1>2
    <3>2. /\ filling = "none" /\ filling' = "copied" /\ reader' = "post"
          /\ taken' = taken + 1
          /\ buffers' = [buffers EXCEPT ![iToFill] = taken + 1]
          /\ UNCHANGED <<iToFill, iToRead, ringPlayed, lapped, glimpsed, failed, player>>
      BY <1>0, <2>2, <3>1, TurnTaken DEF FillSlot, ReaderTakes, playVars, semVars
    <3>3. ASSUME Sound31 PROVE RingDistance' /\ RingHolds'
      <4>1. /\ Ready = Stored /\ Ready' = Ready /\ Stored' = Stored + 1
            /\ Ready \in 0 .. BufferSize - 1
            /\ iToFill = RingAt(Ready)
        BY <1>0, <1>a, <3>2, <3>3 DEF Ready, Stored, RingDistance, RingAt, Slot, FillsSlot
      <4>2. \A k \in 0 .. BufferSize - 1 : RingAt(k)' = RingAt(k)
        BY <3>2 DEF RingAt
      <4>3. \A k \in 0 .. BufferSize - 1 :
              k < Stored + 1 => buffers'[RingAt(k)] = ringPlayed + 1 + k
        <5> SUFFICES ASSUME NEW k \in 0 .. BufferSize - 1, k < Stored + 1
                     PROVE  buffers'[RingAt(k)] = ringPlayed + 1 + k
          OBVIOUS
        <5>1. CASE k = Stored
          BY <1>a, <3>2, <4>1, <5>1, RingDistinct DEF Stored
        <5>2. CASE k < Stored
          BY <1>0, <1>a, <3>2, <3>3, <4>1, <5>2, RingDistinct DEF RingHolds
        <5> QED BY <1>a, <5>1, <5>2 DEF Stored
      <4> QED
        BY <1>0, <1>a, <3>2, <3>3, <4>1, <4>2, <4>3 DEF RingDistance, RingHolds
    <3> QED BY <3>2, <3>3 DEF RingOrder, Sound31
  <2>3. CASE FillBadFrame
    BY <1>0, <2>3
    DEF FillBadFrame, Child2Dies, playerVars, fillVars, playVars, RingOrder, Sound31,
        RingDistance, RingHolds, Ready, Stored, RingAt
  <2>4. CASE Increment
    <3>1. /\ filling = "copied" /\ filling' = "incremented"
          /\ iToFill' = iToFill + 1 /\ iToFill \in Slot
          /\ UNCHANGED <<buffers, iToRead, ringPlayed, taken, lapped, glimpsed, failed,
                         player, reader>>
      BY <1>0, <2>4 DEF Increment, FillsSlot, ringVars, readerVars, semVars, playVars
    <3>2. ASSUME Sound31 PROVE RingDistance' /\ RingHolds'
      <4>1. Ready' = Ready + 1 /\ Stored' = Stored /\ Stored = Ready + 1
        BY <1>a, <3>1 DEF Ready, Stored
      <4> QED
        BY <1>0, <1>a, <3>1, <3>2, <4>1 DEF RingDistance, RingHolds, RingAt, Slot
    <3> QED BY <1>0, <3>1, <3>2 DEF RingOrder, Sound31
  <2>5. CASE Wrap
    <3>1. /\ filling = "incremented" /\ filling' = "none"
          /\ iToFill' = IF iToFill = BufferSize THEN 0 ELSE iToFill
          /\ ~lapped' => iToFill' # iToRead \/ taken = ringPlayed
          /\ ~lapped' => ~lapped
          /\ UNCHANGED <<buffers, iToRead, ringPlayed, taken, glimpsed, failed, player,
                         reader>>
      <4>1. iToFill % BufferSize = IF iToFill = BufferSize THEN 0 ELSE iToFill
        BY <1>a, SMT
      <4> QED
        BY <2>5, <4>1 DEF Wrap, ringVars, readerVars, semVars, playVars
    <3>2. ASSUME Sound31, ~lapped' PROVE RingDistance' /\ RingHolds'
      <4>1. Ready' = Ready /\ Stored' = Stored /\ Stored = Ready
        BY <1>a, <3>1 DEF Ready, Stored
      <4>2. iToFill' # iToRead \/ Ready = 0
        BY <1>a, <3>1, <3>2 DEF Ready
      <4>3. RingDistance'
        BY <1>0, <1>a, <3>1, <3>2, <4>1, <4>2 DEF RingDistance, Slot
      <4> QED
        BY <1>0, <1>a, <3>1, <3>2, <4>1, <4>3 DEF RingHolds, RingAt
    <3> QED BY Zenon, <3>1, <3>2 DEF RingOrder, Sound31
  <2>6. CASE SeesFrame
    <3>1. /\ iToRead # iToFill /\ player' = "write"
          /\ ~glimpsed' => ~glimpsed /\ ~(iToFill = BufferSize /\ iToRead = 0)
          /\ UNCHANGED <<buffers, iToFill, iToRead, ringPlayed, taken, filling, lapped,
                         failed, reader>>
      BY <2>6 DEF SeesFrame, HasFrame, readerVars, semVars, fillVars
    <3>2. ASSUME Sound31, ~glimpsed' PROVE RingDistance' /\ RingHolds'
      <4>1. Ready' = Ready /\ Stored' = Stored
        BY <3>1 DEF Ready, Stored
      <4>2. Ready > 0
        BY <1>0, <1>a, <3>1, <3>2 DEF RingDistance, Slot
      <4> QED
        BY <1>0, <3>1, <3>2, <4>1, <4>2 DEF RingDistance, RingHolds, RingAt
    <3> QED BY <1>0, <3>1, <3>2 DEF RingOrder, Sound31
  <2>7. CASE WriteFrame
    <3>1. /\ player = "write" /\ player' = "look"
          /\ ringPlayed' = buffers[iToRead]
          /\ iToRead' = IF iToRead + 1 = BufferSize THEN 0 ELSE iToRead + 1
          /\ UNCHANGED <<buffers, iToFill, filling, taken, lapped, glimpsed, failed, reader>>
      <4>1. (iToRead + 1) % BufferSize = IF iToRead + 1 = BufferSize THEN 0 ELSE iToRead + 1
        BY <1>a, SMT DEF Slot
      <4> QED
        BY <2>7, <4>1 DEF WriteFrame, NextRead, readerVars, semVars, fillVars
    <3>2. ASSUME Sound31 PROVE RingDistance' /\ RingHolds'
      <4>1. Ready > 0 /\ Stored >= Ready /\ Ready \in 0 .. BufferSize
        BY <1>0, <1>a, <3>1, <3>2 DEF RingDistance, RingHolds, Ready, Stored
      <4>2. ringPlayed' = ringPlayed + 1
        <5>1. 0 \in 0 .. BufferSize - 1 /\ 0 < Stored
          BY <1>a, <4>1 DEF Stored, Ready
        <5>2. buffers[RingAt(0)] = ringPlayed + 1 + 0
          BY <1>0, <3>2, <5>1 DEF RingHolds
        <5>3. RingAt(0) = iToRead
          BY <1>a, RingDistinct
        <5> QED BY <1>a, <3>1, <5>2, <5>3
      <4>3. Ready' = Ready - 1 /\ Stored' = Stored - 1
        BY <1>a, <3>1, <4>2 DEF Ready, Stored
      <4>4. \A k \in 0 .. BufferSize - 1 :
              k < Stored - 1 => k + 1 \in 0 .. BufferSize - 1 /\ RingAt(k)' = RingAt(k + 1)
        <5>1. Stored <= BufferSize
          BY <1>0, <1>a, <3>2 DEF RingDistance, Ready, Stored
        <5> QED BY <1>a, <3>1, <4>1, <5>1 DEF RingAt, Slot, Stored
      <4>5. RingDistance'
        BY <1>0, <1>a, <3>1, <3>2, <4>1, <4>3 DEF RingDistance, Slot
      <4> QED
        BY <1>0, <1>a, <3>1, <3>2, <4>2, <4>3, <4>4, <4>5 DEF RingHolds, Stored
    <3> QED BY <1>0, <3>1, <3>2 DEF RingOrder, Sound31
  <2>8. CASE FillPosts
    BY <2>1, <2>8 DEF FillPosts
  <2> QED
    BY <1>2, <2>1, <2>2, <2>3, <2>4, <2>5, <2>6, <2>7, <2>8
    DEF RingPlayerNext, RingFill, RingPlay
<1> QED BY <1>1, <1>2 DEF Next, InRing, InQueue, In

LEMMA ProgramKept == [Next]_vars => program' = program
  BY DEF Next, InRing, InQueue, In, vars

LEMMA RingInvariance == Spec => []RingOrder
<1>1. IInv /\ TypeInv /\ RingOrder /\ [Next]_vars => RingOrder'
  BY NextRingOrder, ProgramKept DEF RingOrder
<1> QED BY InitRingOrder, Invariance, TypeInvariance, <1>1, PTL DEF Spec

\* For every number of places, of frames and of places in the ring: tp_03_01 plays
\* the frames in the order of their captures, each once, but for a lap and for the
\* glimpse of iToFill between its two stores.
THEOREM Played == Spec => PlayedInOrder
<1>1. TypeInv /\ RingOrder /\ [Next]_vars =>
        [ringPlayed' # ringPlayed /\ Sound31 => ringPlayed' = ringPlayed + 1]_ringPlayed
  <2> SUFFICES ASSUME TypeInv, RingOrder, Next, ringPlayed' # ringPlayed, Sound31
               PROVE  ringPlayed' = ringPlayed + 1
    BY DEF vars, playerVars, playVars
  <2>1. program = "tp_03_01" /\ RingPlayerNext
    BY DEF Next, InRing, InQueue, In, playerVars, playVars
  <2>2. WriteFrame
    BY <2>1
    DEF RingPlayerNext, RingFill, RingPlay, FillSlot, FillBadFrame, Increment, Wrap,
        FillPosts, SeesFrame, playerVars, playVars
  <2>3. RingDistance /\ RingHolds /\ player = "write" /\ ringPlayed' = buffers[iToRead]
    BY <2>1, <2>2 DEF RingOrder, WriteFrame
  <2>4. /\ iToRead \in Slot /\ taken \in Int /\ ringPlayed \in Int
    BY <2>1, RingBoundsAssumption
    DEF TypeInv, RingTypeOK, RingPlayerTypeOK, Frame, None
  <2>5. Stored > 0
    BY <2>3, <2>4 DEF RingHolds, Ready, Stored
  <2>6. buffers[RingAt(0)] = ringPlayed + 1
    BY <2>3, <2>4, <2>5, BufferSizeAssumption DEF RingHolds
  <2> QED BY <2>3, <2>4, <2>6, RingDistinct
<1> QED BY RingInvariance, TypeInvariance, <1>1, PTL DEF Spec, PlayedInOrder

-----------------------------------------------------------------------------
(* The queue of tp_03_02 *)

Added1 == IF adding = "done" THEN 1 ELSE 0
Adds == IF adding = "copy" THEN 1 ELSE 0
Takes == IF player = "copy" THEN 1 ELSE 0

\* the frame that was added last
LastAdded == taken + Added1

\* the index before i
Before(i) == IF i = 0 THEN QueueSize - 1 ELSE i - 1

\* The places are empty, full or in the hands of one thread; the indices are as far
\* apart as there are frames that are full or being taken; and so many there are
\* between the frame that was added last and the one whose turn it is.
QueueDistance ==
  /\ semEmpty + semFull + Adds + Takes = QueueSize
  /\ \/ fillIndex = takeIndex + semFull + Takes
     \/ fillIndex = takeIndex + semFull + Takes - QueueSize
  /\ semFull = LastAdded - took

\* The cells of the frame that was added last are its own until those of the next
\* one come into them, and the cells of the next one are its own so far.
QueueHolds ==
  /\ LastAdded >= 0 /\ (adding = "copy" => added = 0) =>
       \A p \in Part : cells[CellOf(Before(fillIndex), p)] = [frame |-> LastAdded, part |-> p]
  /\ adding = "copy" =>
       \A p \in Part : p <= added =>
         cells[CellOf(fillIndex, p)] = [frame |-> taken + 1, part |-> p]

\* What an undisturbed player has before it, and what it has copied.
Undisturbed ==
  ~disturbed =>
    /\ player = "copy" =>
         /\ took >= 0
         /\ \A p \in Part : cells[CellOf(takeIndex, p)] = [frame |-> took, part |-> p]
         /\ \A p \in Part : p <= copied => sample[p] = [frame |-> took, part |-> p]
    /\ player = "write" => sample = Whole(took)

QueueOrder ==
  program # "tp_03_01" =>
    /\ adding # "none" => reader \in {"copy", "dead"}
    /\ ~failed /\ reader # "dead" => QueueDistance /\ QueueHolds /\ Undisturbed

\* The other program has no queue.
NothingTook == program = "tp_03_01" => took = None

LEMMA InitQueueOrder == Init => QueueOrder
<1> SUFFICES ASSUME Init PROVE QueueOrder
  OBVIOUS
<1>1. /\ adding = "none" /\ player = "none" /\ taken = -1 /\ took = -1
      /\ fillIndex = 0 /\ takeIndex = 0 /\ semEmpty = QueueSize /\ semFull = 0
  BY DEF Init, RingInit, QueueInit, None
<1>2. Added1 = 0 /\ Adds = 0 /\ Takes = 0 /\ LastAdded = -1
  BY <1>1 DEF Added1, Adds, Takes, LastAdded
<1> QED
  BY <1>1, <1>2, QueueAssumption
  DEF QueueOrder, QueueDistance, QueueHolds, Undisturbed

LEMMA NextQueueOrder ==
  ASSUME IInv, TypeInv, QueueOrder, Next, program # "tp_03_01"
  PROVE  QueueOrder'
<1>0. /\ RingTypeOK /\ QueuePlayerTypeOK /\ ReaderCreated
      /\ adding # "none" => reader \in {"copy", "dead"}
      /\ reader # "dead" => QueueDistance /\ QueueHolds /\ Undisturbed
      /\ ~failed /\ QueuePlayerNext /\ program' = program
  BY DEF TypeInv, IInv, QueueOrder, Next, InRing, InQueue, In
<1>a. /\ taken \in Frame /\ took \in Frame /\ -1 \in Int
      /\ \A f \in Frame : f \in Int /\ f >= -1 /\ f < MaxFrame
      /\ fillIndex \in 0 .. QueueSize - 1 /\ takeIndex \in 0 .. QueueSize - 1
      /\ semEmpty \in Nat /\ semFull \in Nat
      /\ added \in 0 .. EntryLen /\ copied \in 0 .. EntryLen
      /\ cells \in [Cell -> Datum] /\ sample \in [Part -> Datum]
  BY <1>0, RingBoundsAssumption DEF RingTypeOK, QueuePlayerTypeOK, Frame, None
<1>b. reader = "copy" => place[iRead].frame = taken + 1 /\ taken + 1 \in Frame
  BY <1>0, TurnTaken DEF RingTypeOK, Content
<1>c. \A p, q \in Part : CellOf(fillIndex, p) = CellOf(fillIndex, q) => p = q
  BY <1>a DEF CellOf, Part
<1> USE QueueAssumption DEF Added1, Adds, Takes, LastAdded
\* what is to be shown of each step
<1> DEFINE Kept == QueueDistance' /\ QueueHolds' /\ Undisturbed'
<1>1. ASSUME \/ RingNext \/ ReaderStarts \/ ReaderWaits \/ ReaderPosts
             \/ OpenForPlayback,
             UNCHANGED queueButCount
      PROVE  QueueOrder'
  <2>1. /\ taken' = taken
        /\ adding # "none" => reader' \in {"copy", "dead"}
        /\ reader' # "dead" =>
             /\ reader # "dead"
             /\ (player' = "copy") = (player = "copy")
             /\ player' = "write" => player = "write"
    BY Zenon, <1>0, <1>1, RingThreadsKept
  <2>2. UNCHANGED <<cells, semEmpty, semFull, fillIndex, adding, added, takeIndex, copied,
                    sample, took, disturbed>>
    BY <1>1 DEF queueButCount
  <2>3. ASSUME reader' # "dead" PROVE Kept
    <3>1. Added1' = Added1 /\ Adds' = Adds /\ Takes' = Takes /\ LastAdded' = LastAdded
      BY <2>1, <2>2, <2>3
    <3> QED
      BY <1>0, <2>1, <2>2, <2>3, <3>1 DEF QueueDistance, QueueHolds, Undisturbed, Before
  <2> QED BY <1>0, <2>1, <2>2, <2>3 DEF QueueOrder
<1>2. CASE StartAdd
  <2>1. /\ adding = "none" /\ adding' = "wait" /\ reader = "copy"
        /\ UNCHANGED <<reader, player, taken, cells, semEmpty, semFull, fillIndex, added,
                       takeIndex, copied, sample, took, disturbed>>
    BY <1>2 DEF StartAdd, ringVars, readerVars, takeVars
  <2>2. QueueDistance'
    BY <1>0, <2>1 DEF QueueDistance
  <2>3. QueueHolds' /\ Undisturbed'
    BY <1>0, <1>a, <2>1 DEF QueueHolds, Undisturbed, Before
  <2> QED BY <2>1, <2>2, <2>3 DEF QueueOrder
<1>3. CASE AddWaits
  <2>1. /\ adding = "wait" /\ adding' = "copy" /\ reader = "copy" /\ added' = 0
        /\ semEmpty' = semEmpty - 1
        /\ UNCHANGED <<reader, player, taken, cells, semFull, fillIndex,
                       takeIndex, copied, sample, took, disturbed>>
    BY <1>3 DEF AddWaits, ringVars, readerVars, takeVars
  <2>2. QueueDistance'
    BY <1>0, <1>a, <2>1 DEF QueueDistance
  <2>3. QueueHolds' /\ Undisturbed'
    BY <1>0, <1>a, <2>1 DEF QueueHolds, Undisturbed, Before, Part
  <2> QED BY <2>1, <2>2, <2>3 DEF QueueOrder
<1>4. CASE AddCopies
  <2>1. /\ adding = "copy" /\ reader = "copy" /\ added < EntryLen /\ added' = added + 1
        /\ cells' = [cells EXCEPT ![CellOf(fillIndex, added + 1)] =
                       [frame |-> taken + 1, part |-> added + 1]]
        /\ ~disturbed' => ~disturbed /\ player # "copy"
        /\ UNCHANGED <<adding, reader, player, taken, semEmpty, semFull, fillIndex,
                       takeIndex, copied, sample, took>>
    BY <1>4, <1>b DEF AddCopies, ringVars, readerVars, takeVars
  <2>2. QueueDistance'
    BY <1>0, <2>1 DEF QueueDistance
  <2>3. QueueHolds'
    <3>1. added + 1 \in Part
      BY <1>a, <2>1 DEF Part
    <3>2. ASSUME NEW p \in Part, p <= added + 1
          PROVE  cells'[CellOf(fillIndex, p)] = [frame |-> taken + 1, part |-> p]
      <4>1. CellOf(fillIndex, p) \in Cell /\ CellOf(fillIndex, added + 1) \in Cell
        BY <1>a, <3>1, CellOfPlace
      <4>2. CASE p = added + 1
        BY <1>a, <2>1, <4>1, <4>2
      <4>3. CASE p # added + 1
        <5>1. p <= added
          BY <1>a, <3>2, <4>3 DEF Part
        <5>2. CellOf(fillIndex, p) # CellOf(fillIndex, added + 1)
          BY <1>c, <3>1, <4>3
        <5>3. cells[CellOf(fillIndex, p)] = [frame |-> taken + 1, part |-> p]
          BY <1>0, <2>1, <5>1 DEF QueueHolds
        <5> QED BY <1>a, <2>1, <4>1, <5>2, <5>3
      <4> QED BY <4>2, <4>3
    <3> QED BY <1>a, <2>1, <3>2 DEF QueueHolds
  <2>4. Undisturbed'
    BY <1>0, <2>1 DEF Undisturbed
  <2> QED BY <2>1, <2>2, <2>3, <2>4 DEF QueueOrder
<1>5. CASE AddPosts
  <2>1. /\ adding = "copy" /\ adding' = "done" /\ reader = "copy" /\ added = EntryLen
        /\ semFull' = semFull + 1 /\ fillIndex' = NextIndex(fillIndex)
        /\ UNCHANGED <<reader, player, taken, cells, semEmpty, added,
                       takeIndex, copied, sample, took, disturbed>>
    BY <1>5 DEF AddPosts, ringVars, readerVars, takeVars
  <2>2. fillIndex' = IF fillIndex + 1 = QueueSize THEN 0 ELSE fillIndex + 1
    BY <1>a, <2>1, IndexAfter
  <2>3. QueueDistance'
    BY <1>0, <1>a, <2>1, <2>2 DEF QueueDistance
  <2>4. Before(fillIndex)' = fillIndex
    BY <1>a, <2>2 DEF Before
  <2>5. \A p \in Part : cells[CellOf(fillIndex, p)] = [frame |-> taken + 1, part |-> p]
    BY <1>0, <2>1 DEF QueueHolds, Part
  <2>6. QueueHolds'
    BY <2>1, <2>4, <2>5 DEF QueueHolds
  <2>7. Undisturbed'
    BY <1>0, <2>1 DEF Undisturbed
  <2> QED BY <2>1, <2>3, <2>6, <2>7 DEF QueueOrder
<1>6. CASE Added
  <2>1. /\ adding = "done" /\ adding' = "none" /\ reader = "copy" /\ reader' = "post"
        /\ taken' = taken + 1
        /\ UNCHANGED <<player, cells, semEmpty, semFull, fillIndex, added,
                       takeIndex, copied, sample, took, disturbed>>
    BY <1>6, <1>b DEF Added, ReaderTakes, takeVars
  <2>2. QueueDistance'
    BY <1>0, <1>a, <2>1 DEF QueueDistance
  <2>3. QueueHolds' /\ Undisturbed'
    BY <1>0, <1>a, <2>1 DEF QueueHolds, Undisturbed, Before
  <2> QED BY <2>1, <2>2, <2>3 DEF QueueOrder
<1>7. CASE StartTake \/ WriteSample
  <2>1. /\ player # "copy" /\ player' \notin {"copy", "write"}
        /\ UNCHANGED <<reader, taken, cells, semEmpty, semFull, fillIndex, adding, added,
                       takeIndex, copied, sample, took, disturbed>>
    BY <1>7 DEF StartTake, WriteSample, readerVars, queueVars, addVars, takeVars
  <2>2. reader # "dead" => QueueDistance'
    BY <1>0, <2>1 DEF QueueDistance
  <2>3. reader # "dead" => QueueHolds' /\ Undisturbed'
    BY <1>0, <2>1 DEF QueueHolds, Undisturbed, Before
  <2> QED BY <1>0, <2>1, <2>2, <2>3 DEF QueueOrder
<1>8. CASE TakeWaits
  <2>1. /\ player = "wait" /\ player' = "copy" /\ copied' = 0
        /\ semFull > 0 /\ semFull' = semFull - 1
        /\ took' = IF took < MaxFrame - 1 THEN took + 1 ELSE took
        /\ ~disturbed' => ~(semFull > 1) /\ (adding = "copy" => ~(added > 0))
        /\ UNCHANGED <<reader, taken, cells, semEmpty, fillIndex, adding, added, takeIndex,
                       sample>>
    BY <1>8 DEF TakeWaits, readerVars, addVars
  <2>2. ASSUME reader # "dead" PROVE Kept
    <3>1. LastAdded \in Frame
      BY <1>0, <1>a, <1>b, <2>2
    <3>2. took' = took + 1
      BY <1>0, <1>a, <2>1, <2>2, <3>1, RingBoundsAssumption DEF QueueDistance
    <3>3. QueueDistance'
      BY <1>0, <1>a, <2>1, <2>2, <3>2 DEF QueueDistance
    <3>4. QueueHolds'
      BY <1>0, <1>a, <2>1, <2>2 DEF QueueHolds, Before
    <3>5. ASSUME ~disturbed' PROVE Undisturbed'
      <4>1. semFull = 1 /\ LastAdded = took + 1 /\ took + 1 >= 0
        BY <1>0, <1>a, <2>1, <2>2, <3>5 DEF QueueDistance
      <4>2. Before(fillIndex) = takeIndex
        BY <1>0, <1>a, <2>1, <2>2, <4>1 DEF QueueDistance, Before
      <4>3. adding = "copy" => added = 0
        BY <1>a, <2>1, <3>5
      <4>4. \A p \in Part : cells[CellOf(takeIndex, p)] = [frame |-> took + 1, part |-> p]
        BY <1>0, <1>a, <2>2, <4>1, <4>2, <4>3 DEF QueueHolds
      <4> QED BY <1>a, <2>1, <3>2, <4>1, <4>4 DEF Undisturbed, Part
    <3> QED BY <3>3, <3>4, <3>5 DEF Undisturbed
  <2> QED BY <1>0, <2>1, <2>2 DEF QueueOrder
<1>9. CASE TakeCopies
  <2>1. /\ player = "copy" /\ copied < EntryLen /\ copied' = copied + 1
        /\ sample' = [sample EXCEPT ![copied + 1] = cells[CellOf(takeIndex, copied + 1)]]
        /\ UNCHANGED <<reader, player, taken, cells, semEmpty, semFull, fillIndex, adding,
                       added, takeIndex, took, disturbed>>
    BY <1>9 DEF TakeCopies, ringVars, readerVars, addVars
  <2>2. ASSUME reader # "dead" PROVE Kept
    <3>1. QueueDistance'
      BY <1>0, <2>1, <2>2 DEF QueueDistance
    <3>2. QueueHolds'
      BY <1>0, <1>a, <2>1, <2>2 DEF QueueHolds, Before
    <3>3. copied + 1 \in Part
      BY <1>a, <2>1 DEF Part
    <3>4. ASSUME ~disturbed, NEW p \in Part, p <= copied + 1
          PROVE  sample'[p] = [frame |-> took, part |-> p]
      <4>1. cells[CellOf(takeIndex, p)] = [frame |-> took, part |-> p]
        BY <1>0, <2>1, <2>2, <3>4 DEF Undisturbed
      <4>2. p # copied + 1 => sample[p] = [frame |-> took, part |-> p]
        BY <1>0, <1>a, <2>1, <2>2, <3>4 DEF Undisturbed, Part
      <4> QED BY <1>a, <2>1, <3>3, <4>1, <4>2
    <3>5. Undisturbed'
      BY <1>0, <1>a, <2>1, <2>2, <3>4 DEF Undisturbed
    <3> QED BY <3>1, <3>2, <3>5
  <2> QED BY <1>0, <2>1, <2>2 DEF QueueOrder
<1>10. CASE TakePosts
  <2>1. /\ player = "copy" /\ player' = "write" /\ copied = EntryLen
        /\ semEmpty' = semEmpty + 1 /\ takeIndex' = NextIndex(takeIndex)
        /\ UNCHANGED <<reader, taken, cells, semFull, fillIndex, adding, added,
                       copied, sample, took, disturbed>>
    BY <1>10 DEF TakePosts, readerVars, addVars
  <2>2. takeIndex' = IF takeIndex + 1 = QueueSize THEN 0 ELSE takeIndex + 1
    BY <1>a, <2>1, IndexAfter
  <2>3. ASSUME reader # "dead" PROVE Kept
    <3>1. QueueDistance'
      BY <1>0, <1>a, <2>1, <2>2, <2>3 DEF QueueDistance
    <3>2. QueueHolds'
      BY <1>0, <1>a, <2>1, <2>3 DEF QueueHolds, Before
    <3>3. ~disturbed => sample = Whole(took)
      <4>1. ASSUME ~disturbed, NEW p \in Part
            PROVE  sample[p] = [frame |-> took, part |-> p]
        BY <1>0, <2>1, <2>3, <4>1 DEF Undisturbed, Part
      <4> QED BY <1>a, <4>1 DEF Whole
    <3>4. Undisturbed'
      BY <2>1, <3>3 DEF Undisturbed, Whole
    <3> QED BY <3>1, <3>2, <3>4
  <2> QED BY <1>0, <2>1, <2>3 DEF QueueOrder
<1>11. CASE QueueInterrupted
  BY <1>0, <1>11 DEF QueueInterrupted, AddSleeps, ReaderSleeps, QueueOrder
<1> QED
  BY <1>0, <1>1, <1>2, <1>3, <1>4, <1>5, <1>6, <1>7, <1>8, <1>9, <1>10, <1>11,
     CountApart
  DEF QueuePlayerNext, QueueFill, QueuePlay

LEMMA QueueInvariance == Spec => [](QueueOrder /\ NothingTook)
<1>1. QueueOrder /\ UNCHANGED vars => QueueOrder'
  BY DEF vars, ringVars, readerVars, semVars, queueVars, addVars, takeVars, QueueOrder,
         QueueDistance, QueueHolds, Undisturbed, Added1, Adds, Takes, LastAdded, Before
<1>2. IInv /\ TypeInv /\ QueueOrder /\ [Next]_vars => QueueOrder'
  BY <1>1, NextQueueOrder, ProgramKept DEF QueueOrder
<1>3. Init => NothingTook
  BY DEF Init, QueueInit, NothingTook
<1>4. NothingTook /\ [Next]_vars => NothingTook'
  BY DEF NothingTook, Next, InRing, InQueue, In, vars, queueVars, takeVars
<1> QED
  BY InitQueueOrder, Invariance, TypeInvariance, <1>2, <1>3, <1>4, PTL DEF Spec

\* For every size of the queue, length of an entry, number of places and of frames:
\* tp_03_02 plays a frame whole if no other came into the queue before it had been
\* copied out, although the entries lie upon one another.
THEOREM Entire == Spec => []AloneIsWhole
<1>1. IInv /\ QueueOrder /\ NothingTook => AloneIsWhole
  BY DEF AloneIsWhole, IInv, ReaderCreated, QueueOrder, NothingTook, Undisturbed
<1> QED BY QueueInvariance, Invariance, <1>1, PTL
=============================================================================
