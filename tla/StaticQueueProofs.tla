-------------------------- MODULE StaticQueueProofs --------------------------
(***************************************************************************)
(* Proofs about StaticQueue, for every number of places, every length of   *)
(* an entry and every set of words:                                        *)
(*   Safety, Apart   the invariants that the run checks;                   *)
(*   Implementation  Spec => Fifo!Spec, the queue is a bounded FIFO.       *)
(***************************************************************************)
EXTENDS StaticQueue, SequenceTheorems, TLAPS

\* The places between takeIndex and fillIndex are those that hold an entry.
IndicesAgree == fillIndex = SlotAt(Size)

\* What a thread has copied so far is what it is copying.
AddPrefix ==
  pcAdd = "copy" =>
    \A w \in 1 .. addCopied : elements[fillIndex][w] = inData[w]
TakePrefix ==
  pcTake = "copy" =>
    \A w \in 1 .. takeCopied : outData[w] = elements[takeIndex][w]

\* The inductive invariant.
IInv == TypeOK /\ PlacesConserved /\ IndicesAgree /\ AddPrefix /\ TakePrefix

-----------------------------------------------------------------------------

\* The update of an index in the code, without the remainder.
LEMMA Advance ==
  ASSUME NEW i \in Slot
  PROVE  /\ NextIndex(i) = IF i + 1 = NEntrys THEN 0 ELSE i + 1
         /\ NextIndex(i) \in Slot
  BY NEntrysAssumption, SMT DEF Slot, NextIndex

\* Conservation bounds the size of the queue: a thread that copies an entry in
\* finds a place that is free, one that copies an entry out finds it full.
LEMMA SizeBounds ==
  ASSUME TypeOK, PlacesConserved
  PROVE  /\ Size \in 0 .. NEntrys
         /\ pcAdd = "copy" => Size < NEntrys
         /\ pcTake = "post" => Size < NEntrys
         /\ pcTake = "copy" => Size > 0
  BY NEntrysAssumption
  DEF TypeOK, PlacesConserved, Size, AddHolds, TakeHolds

\* The places from takeIndex on are distinct for as long as they do not wrap
\* around to takeIndex again.
LEMMA SlotsDistinct ==
  ASSUME takeIndex \in Slot
  PROVE  /\ \A k \in 0 .. NEntrys : SlotAt(k) \in Slot
         /\ \A j, k \in 0 .. NEntrys - 1 : SlotAt(j) = SlotAt(k) => j = k
         /\ SlotAt(0) = takeIndex
  BY NEntrysAssumption DEF Slot, SlotAt

-----------------------------------------------------------------------------

LEMMA InitIInv == Init => IInv
  BY NEntrysAssumption, EntryLenAssumption
  DEF Init, IInv, TypeOK, PlacesConserved, IndicesAgree, AddPrefix, TakePrefix,
      Size, SlotAt, AddHolds, TakeHolds, Slot, Entry, Place

LEMMA NextTypeOK == IInv /\ [Next]_vars => TypeOK'
<1> SUFFICES ASSUME TypeOK, [Next]_vars PROVE TypeOK'
  BY DEF IInv
<1> USE NEntrysAssumption, EntryLenAssumption DEF TypeOK, Place
<1>1. CASE AddCall BY <1>1 DEF AddCall, takeVars
<1>2. CASE AddWait BY <1>2 DEF AddWait, takeVars
<1>3. CASE AddInterrupted BY <1>3 DEF AddInterrupted, takeVars
<1>4. CASE AddCopy
  <2>1. addCopied + 1 \in 1 .. EntryLen
    BY <1>4 DEF AddCopy
  <2>2. elements' \in [Slot -> Entry]
    BY <1>4, <2>1 DEF AddCopy, Entry
  <2> QED BY <1>4, <2>1, <2>2 DEF AddCopy, takeVars
<1>5. CASE AddAdvance BY <1>5, Advance DEF AddAdvance, takeVars
<1>6. CASE AddPost BY <1>6 DEF AddPost, takeVars
<1>7. CASE TakeCall BY <1>7 DEF TakeCall, addVars
<1>8. CASE TakeWait BY <1>8 DEF TakeWait, addVars
<1>9. CASE TakeInterrupted BY <1>9 DEF TakeInterrupted, addVars
<1>10. CASE TakeCopy
  <2>1. takeCopied + 1 \in 1 .. EntryLen
    BY <1>10 DEF TakeCopy
  <2>2. outData' \in Entry
    BY <1>10, <2>1 DEF TakeCopy, Entry
  <2> QED BY <1>10, <2>1, <2>2 DEF TakeCopy, addVars
<1>11. CASE TakeAdvance BY <1>11, Advance DEF TakeAdvance, addVars
<1>12. CASE TakePost BY <1>12 DEF TakePost, addVars
<1>13. CASE UNCHANGED vars BY <1>13 DEF vars, addVars, takeVars
<1> QED
  BY <1>1, <1>2, <1>3, <1>4, <1>5, <1>6, <1>7, <1>8, <1>9, <1>10, <1>11,
     <1>12, <1>13 DEF Next

LEMMA NextPlacesConserved == IInv /\ [Next]_vars => PlacesConserved'
<1> SUFFICES ASSUME TypeOK, PlacesConserved, [Next]_vars PROVE PlacesConserved'
  BY DEF IInv
<1> USE NEntrysAssumption DEF TypeOK, PlacesConserved, AddHolds, TakeHolds
<1>1. CASE AddCall BY <1>1 DEF AddCall, takeVars
<1>2. CASE AddWait BY <1>2 DEF AddWait, takeVars
<1>3. CASE AddInterrupted BY <1>3 DEF AddInterrupted, takeVars
<1>4. CASE AddCopy BY <1>4 DEF AddCopy, takeVars
<1>5. CASE AddAdvance BY <1>5 DEF AddAdvance, takeVars
<1>6. CASE AddPost BY <1>6 DEF AddPost, takeVars
<1>7. CASE TakeCall BY <1>7 DEF TakeCall, addVars
<1>8. CASE TakeWait BY <1>8 DEF TakeWait, addVars
<1>9. CASE TakeInterrupted BY <1>9 DEF TakeInterrupted, addVars
<1>10. CASE TakeCopy BY <1>10 DEF TakeCopy, addVars
<1>11. CASE TakeAdvance BY <1>11 DEF TakeAdvance, addVars
<1>12. CASE TakePost BY <1>12 DEF TakePost, addVars
<1>13. CASE UNCHANGED vars BY <1>13 DEF vars, addVars, takeVars
<1> QED
  BY <1>1, <1>2, <1>3, <1>4, <1>5, <1>6, <1>7, <1>8,
     <1>9, <1>10, <1>11, <1>12, <1>13 DEF Next

LEMMA NextIndicesAgree == IInv /\ [Next]_vars => IndicesAgree'
<1> SUFFICES ASSUME TypeOK, PlacesConserved, IndicesAgree, [Next]_vars
             PROVE  IndicesAgree'
  BY DEF IInv
<1> USE NEntrysAssumption DEF TypeOK, IndicesAgree, SlotAt, Size, Slot
<1>1. CASE AddCall BY <1>1 DEF AddCall, takeVars
<1>2. CASE AddWait BY <1>2 DEF AddWait, takeVars
<1>3. CASE AddInterrupted BY <1>3 DEF AddInterrupted, takeVars
<1>4. CASE AddCopy BY <1>4 DEF AddCopy, takeVars
<1>5. CASE AddAdvance
  <2>1. fillIndex' = IF fillIndex + 1 = NEntrys THEN 0 ELSE fillIndex + 1
    BY <1>5, Advance DEF AddAdvance
  <2> QED BY <1>5, <2>1, SizeBounds DEF AddAdvance, takeVars
<1>6. CASE AddPost BY <1>6 DEF AddPost, takeVars
<1>7. CASE TakeCall BY <1>7 DEF TakeCall, addVars
<1>8. CASE TakeWait BY <1>8 DEF TakeWait, addVars
<1>9. CASE TakeInterrupted BY <1>9 DEF TakeInterrupted, addVars
<1>10. CASE TakeCopy BY <1>10 DEF TakeCopy, addVars
<1>11. CASE TakeAdvance
  <2>1. takeIndex' = IF takeIndex + 1 = NEntrys THEN 0 ELSE takeIndex + 1
    BY <1>11, Advance DEF TakeAdvance
  <2> QED BY <1>11, <2>1, SizeBounds DEF TakeAdvance, addVars
<1>12. CASE TakePost BY <1>12 DEF TakePost, addVars
<1>13. CASE UNCHANGED vars BY <1>13 DEF vars, addVars, takeVars
<1> QED
  BY <1>1, <1>2, <1>3, <1>4, <1>5, <1>6, <1>7, <1>8,
     <1>9, <1>10, <1>11, <1>12, <1>13 DEF Next

LEMMA NextPrefixes == IInv /\ [Next]_vars => AddPrefix' /\ TakePrefix'
<1> SUFFICES ASSUME IInv, [Next]_vars PROVE AddPrefix' /\ TakePrefix'
  OBVIOUS
<1>a. (pcAdd = "copy" /\ pcTake = "copy") => fillIndex # takeIndex
  BY SizeBounds, NEntrysAssumption
  DEF IInv, TypeOK, IndicesAgree, SlotAt, Slot
<1> USE NEntrysAssumption, EntryLenAssumption
    DEF IInv, TypeOK, AddPrefix, TakePrefix
<1>1. CASE AddCall BY <1>1 DEF AddCall, takeVars
<1>2. CASE AddWait BY <1>2 DEF AddWait, takeVars
<1>3. CASE AddInterrupted BY <1>3 DEF AddInterrupted, takeVars
<1>4. CASE AddCopy
  <2>1. elements' = [elements EXCEPT ![fillIndex] =
                       [elements[fillIndex] EXCEPT ![addCopied + 1] =
                                                     inData[addCopied + 1]]]
    BY <1>4 DEF AddCopy
  <2>2. AddPrefix'
    BY <1>4, <2>1 DEF AddCopy, Entry
  <2>3. TakePrefix'
    BY <1>4, <1>a, <2>1 DEF AddCopy, takeVars
  <2> QED BY <2>2, <2>3
<1>5. CASE AddAdvance BY <1>5 DEF AddAdvance, takeVars
<1>6. CASE AddPost BY <1>6 DEF AddPost, takeVars
<1>7. CASE TakeCall BY <1>7 DEF TakeCall, addVars
<1>8. CASE TakeWait BY <1>8 DEF TakeWait, addVars
<1>9. CASE TakeInterrupted BY <1>9 DEF TakeInterrupted, addVars
<1>10. CASE TakeCopy
  <2>1. AddPrefix'
    BY <1>10 DEF TakeCopy, addVars
  <2>2. TakePrefix'
    BY <1>10 DEF TakeCopy, Entry
  <2> QED BY <2>1, <2>2
<1>11. CASE TakeAdvance BY <1>11 DEF TakeAdvance, addVars
<1>12. CASE TakePost BY <1>12 DEF TakePost, addVars
<1>13. CASE UNCHANGED vars BY <1>13 DEF vars, addVars, takeVars
<1> QED
  BY <1>1, <1>2, <1>3, <1>4, <1>5, <1>6, <1>7, <1>8,
     <1>9, <1>10, <1>11, <1>12, <1>13 DEF Next

LEMMA IInvInductive == IInv /\ [Next]_vars => IInv'
  BY NextTypeOK, NextPlacesConserved, NextIndicesAgree, NextPrefixes DEF IInv

LEMMA IInvImplies == IInv => NoSharedPlace /\ NoMutualWait
<1> SUFFICES ASSUME IInv PROVE NoSharedPlace /\ NoMutualWait
  OBVIOUS
<1>1. NoSharedPlace
  BY SizeBounds, NEntrysAssumption
  DEF NoSharedPlace, IInv, TypeOK, IndicesAgree, SlotAt, Slot
<1>2. NoMutualWait
  BY NEntrysAssumption
  DEF NoMutualWait, IInv, TypeOK, PlacesConserved, AddHolds, TakeHolds
<1> QED BY <1>1, <1>2

\* The inductive invariant holds in every state the two functions reach.
THEOREM Invariance == Spec => []IInv
  BY InitIInv, IInvInductive, PTL DEF Spec

\* For every size of the queue: the indices stay inside it, no place is lost or
\* doubled whatever semop a signal ends, and the two threads of the client never
\* both sleep in it.
THEOREM Safety == Spec => []Safe
<1>1. IInv => Safe
  BY IInvImplies DEF Safe, IInv
<1> QED BY <1>1, Invariance, PTL

\* fifo_addto_smph never fills the place that fifo_take_smph copies out, for every
\* size of the queue.
THEOREM Apart == Spec => []NoSharedPlace
  BY IInvImplies, Invariance, PTL

-----------------------------------------------------------------------------
(* StaticQueue implements BoundedFifo *)

\* Two entries with the same words are the same.
LEMMA EntryEqual ==
  ASSUME NEW e \in Entry, NEW f \in Entry,
         \A w \in 1 .. EntryLen : e[w] = f[w]
  PROVE  e = f
<1>1. /\ e = [w \in 1 .. EntryLen |-> e[w]]
      /\ f = [w \in 1 .. EntryLen |-> f[w]]
  BY DEF Entry
<1>2. [w \in 1 .. EntryLen |-> e[w]] = [w \in 1 .. EntryLen |-> f[w]]
  OBVIOUS
<1> QED BY <1>1, <1>2

LEMMA ContentIsQueue ==
  ASSUME TypeOK, PlacesConserved
  PROVE  /\ Content \in Seq(Entry)
         /\ Len(Content) = Size
         /\ \A k \in 1 .. Size : Content[k] = elements[SlotAt(k - 1)]
<1>1. Size \in 0 .. NEntrys
  BY SizeBounds
<1>2. \A k \in 1 .. Size : elements[SlotAt(k - 1)] \in Entry
  BY <1>1, SlotsDistinct, NEntrysAssumption DEF TypeOK
<1> QED
  BY <1>1, <1>2 DEF Content

\* The queue does not change when its places and their entries do not.
LEMMA ContentUnchanged ==
  ASSUME IInv, Size' = Size, takeIndex' = takeIndex,
         \A k \in 0 .. Size - 1 : elements'[SlotAt(k)] = elements[SlotAt(k)]
  PROVE  Content' = Content
<1>1. Size \in Nat
  BY SizeBounds, NEntrysAssumption DEF IInv
<1>2. \A k : SlotAt(k)' = SlotAt(k)
  BY DEF SlotAt
<1>3. \A k \in 1 .. Size : elements'[SlotAt(k - 1)'] = elements[SlotAt(k - 1)]
  BY <1>1, <1>2
<1> QED
  BY <1>1, <1>3 DEF Content

\* One more word in the place being filled is invisible.
LEMMA CopyInvisible == IInv /\ AddCopy => Content' = Content
<1> SUFFICES ASSUME IInv, AddCopy PROVE Content' = Content
  OBVIOUS
<1>1. Size \in 0 .. NEntrys - 1 /\ fillIndex = SlotAt(Size)
  BY SizeBounds, NEntrysAssumption DEF IInv, IndicesAgree, AddCopy
<1>2. \A k \in 0 .. Size - 1 : SlotAt(k) # fillIndex /\ SlotAt(k) \in Slot
  BY <1>1, SlotsDistinct, NEntrysAssumption DEF IInv, TypeOK
<1>3. \A k \in 0 .. Size - 1 : elements'[SlotAt(k)] = elements[SlotAt(k)]
  BY <1>2 DEF AddCopy, IInv, TypeOK
<1>4. Size' = Size /\ takeIndex' = takeIndex
  BY DEF AddCopy, takeVars, Size
<1> QED BY <1>3, <1>4, ContentUnchanged

\* The whole entry joins the queue when fillIndex passes it.
LEMMA AdvanceAppends == IInv /\ AddAdvance => Content' = Append(Content, inData)
<1> SUFFICES ASSUME IInv, AddAdvance PROVE Content' = Append(Content, inData)
  OBVIOUS
<1>1. Size \in 0 .. NEntrys - 1 /\ fillIndex = SlotAt(Size)
  BY SizeBounds, NEntrysAssumption DEF IInv, IndicesAgree, AddAdvance
<1>2. elements[fillIndex] = inData
  <2>1. \A w \in 1 .. EntryLen : elements[fillIndex][w] = inData[w]
    BY DEF IInv, AddPrefix, AddAdvance
  <2>2. elements[fillIndex] \in Entry /\ inData \in Entry
    BY DEF IInv, TypeOK
  <2> QED BY <2>1, <2>2, EntryEqual
<1>3. Size' = Size + 1 /\ \A k : SlotAt(k)' = SlotAt(k)
  BY DEF AddAdvance, takeVars, Size, SlotAt, IInv, TypeOK
<1>4. elements' = elements
  BY DEF AddAdvance
<1>5. Content \in Seq(Entry) /\ Len(Content) = Size
      /\ \A k \in 1 .. Size : Content[k] = elements[SlotAt(k - 1)]
  BY ContentIsQueue DEF IInv
<1>6. Content' = [k \in 1 .. Size + 1 |-> elements[SlotAt(k - 1)]]
  BY <1>3, <1>4 DEF Content
<1>7. \A k \in 1 .. Size + 1 : elements[SlotAt(k - 1)] \in Entry
  BY <1>1, SlotsDistinct, NEntrysAssumption DEF IInv, TypeOK
<1>8. Content' \in Seq(Entry) /\ Len(Content') = Size + 1
  BY <1>1, <1>6, <1>7
<1>9. inData \in Entry
  BY DEF IInv, TypeOK
<1>10. /\ Append(Content, inData) \in Seq(Entry)
       /\ Len(Append(Content, inData)) = Size + 1
       /\ \A k \in 1 .. Size : Append(Content, inData)[k] = Content[k]
       /\ Append(Content, inData)[Size + 1] = inData
  BY <1>5, <1>9, AppendProperties
<1>11. \A k \in 1 .. Size + 1 : Content'[k] = Append(Content, inData)[k]
  BY <1>1, <1>2, <1>5, <1>6, <1>10
<1> QED BY <1>8, <1>10, <1>11, SeqEqual

\* The oldest entry leaves the queue, whole, when takeIndex passes it.
LEMMA AdvanceTakesHead ==
  IInv /\ TakeAdvance => /\ Content # << >>
                         /\ outData = Head(Content)
                         /\ Content' = Tail(Content)
<1> SUFFICES ASSUME IInv, TakeAdvance
             PROVE  /\ Content # << >>
                    /\ outData = Head(Content)
                    /\ Content' = Tail(Content)
  OBVIOUS
<1>1. Size \in 1 .. NEntrys
  BY SizeBounds, NEntrysAssumption DEF IInv, TakeAdvance
<1>2. Content \in Seq(Entry) /\ Len(Content) = Size
      /\ \A k \in 1 .. Size : Content[k] = elements[SlotAt(k - 1)]
  BY ContentIsQueue DEF IInv
<1>3. outData = elements[takeIndex]
  <2>1. \A w \in 1 .. EntryLen : outData[w] = elements[takeIndex][w]
    BY DEF IInv, TakePrefix, TakeAdvance
  <2>2. elements[takeIndex] \in Entry /\ outData \in Entry
    BY DEF IInv, TypeOK
  <2> QED BY <2>1, <2>2, EntryEqual
<1>4. Content # << >> /\ outData = Head(Content)
  BY <1>1, <1>2, <1>3, SlotsDistinct DEF IInv, TypeOK
<1>5. Size' = Size - 1 /\ elements' = elements
  BY DEF TakeAdvance, addVars, Size, IInv, TypeOK
<1>6. \A k \in 0 .. Size - 2 : SlotAt(k)' = SlotAt(k + 1)
  <2>1. takeIndex' = IF takeIndex + 1 = NEntrys THEN 0 ELSE takeIndex + 1
    BY Advance DEF TakeAdvance, IInv, TypeOK
  <2> QED BY <1>1, <2>1, NEntrysAssumption DEF SlotAt, IInv, TypeOK, Slot
<1>7. Content' = [k \in 1 .. Size - 1 |-> elements[SlotAt(k)]]
  <2>1. \A k \in 1 .. Size - 1 : SlotAt(k - 1)' = SlotAt(k)
    BY <1>1, <1>6
  <2> QED BY <1>5, <2>1 DEF Content
<1>8. \A k \in 1 .. Size - 1 : elements[SlotAt(k)] \in Entry
  BY <1>1, SlotsDistinct, NEntrysAssumption DEF IInv, TypeOK
<1>9. Content' \in Seq(Entry) /\ Len(Content') = Size - 1
  BY <1>1, <1>7, <1>8
<1>10. /\ Tail(Content) \in Seq(Entry)
       /\ Len(Tail(Content)) = Size - 1
       /\ \A k \in 1 .. Size - 1 : Tail(Content)[k] = Content[k + 1]
  BY <1>1, <1>2, <1>4, HeadTailProperties
<1>11. \A k \in 1 .. Size - 1 : Content'[k] = Tail(Content)[k]
  BY <1>1, <1>2, <1>7, <1>10
<1>12. Content' = Tail(Content)
  BY <1>9, <1>10, <1>11, SeqEqual
<1> QED BY <1>4, <1>12
-----------------------------------------------------------------------------

LEMMA InitImplements == Init => Fifo!Init
<1> SUFFICES ASSUME Init PROVE Fifo!Init
  OBVIOUS
<1>1. Size = 0
  BY DEF Init, Size
<1>2. Content = << >>
  BY <1>1 DEF Content
<1> QED BY <1>2 DEF Init, Fifo!Init, CallState

\* Every step of the code is a step of the abstract queue, or invisible.
LEMMA NextImplements == IInv /\ [Next]_vars => [Fifo!Next]_(Fifo!vars)
<1> SUFFICES ASSUME IInv, [Next]_vars PROVE [Fifo!Next]_(Fifo!vars)
  OBVIOUS
<1> DEFINE Kept == Size' = Size /\ UNCHANGED <<elements, takeIndex>>
<1>a. Kept => Content' = Content
  BY ContentUnchanged
<1>b. Len(Content) = Size
  BY ContentIsQueue DEF IInv
<1> HIDE DEF Kept
<1> USE DEF CallState
<1>1. CASE AddCall
  <2>1. Content' = Content
    BY <1>1, <1>a DEF AddCall, takeVars, Kept, Size, IInv, TypeOK
  <2>2. Fifo!CallAdd
    BY <1>1, <2>1 DEF AddCall, takeVars, Fifo!CallAdd, Fifo!takeVars, IInv, TypeOK
  <2> QED BY <2>2 DEF Fifo!Next
<1>2. CASE AddWait
  <2>1. Content' = Content
    BY <1>2, <1>a DEF AddWait, takeVars, Kept, Size, IInv, TypeOK
  <2>2. Fifo!GrantAdd
    BY <1>2, <2>1, <1>b, SizeBounds, NEntrysAssumption DEF AddWait, takeVars, Fifo!GrantAdd, Fifo!takeVars, IInv, TypeOK, PlacesConserved, Size, AddHolds, TakeHolds
  <2> QED BY <2>2 DEF Fifo!Next
<1>3. CASE AddInterrupted
  <2>1. Content' = Content
    BY <1>3, <1>a DEF AddInterrupted, takeVars, Kept, Size, IInv, TypeOK
  <2>2. Fifo!FailAdd
    BY <1>3, <2>1 DEF AddInterrupted, takeVars, Fifo!FailAdd, Fifo!takeVars
  <2> QED BY <2>2 DEF Fifo!Next
<1>4. CASE AddCopy
  <2>1. Content' = Content
    BY <1>4, CopyInvisible
  <2> QED
    BY <1>4, <2>1 DEF AddCopy, takeVars, Fifo!vars, Fifo!addVars, Fifo!takeVars
<1>5. CASE AddAdvance
  <2>1. Fifo!DoAdd
    BY <1>5, AdvanceAppends, <1>b, SizeBounds, NEntrysAssumption
    DEF AddAdvance, takeVars, Fifo!DoAdd, Fifo!takeVars, IInv
  <2> QED BY <2>1 DEF Fifo!Next
<1>6. CASE AddPost
  <2>1. Content' = Content
    BY <1>6, <1>a DEF AddPost, takeVars, Kept, Size, IInv, TypeOK
  <2>2. Fifo!ReturnAdd
    BY <1>6, <2>1 DEF AddPost, takeVars, Fifo!ReturnAdd, Fifo!takeVars
  <2> QED BY <2>2 DEF Fifo!Next
<1>7. CASE TakeCall
  <2>1. Content' = Content
    BY <1>7, <1>a DEF TakeCall, addVars, Kept, Size, IInv, TypeOK
  <2>2. Fifo!CallTake
    BY <1>7, <2>1 DEF TakeCall, addVars, Fifo!CallTake, Fifo!addVars
  <2> QED BY <2>2 DEF Fifo!Next
<1>8. CASE TakeWait
  <2>1. Content' = Content
    BY <1>8, <1>a DEF TakeWait, addVars, Kept, Size, IInv, TypeOK
  <2>2. Fifo!GrantTake
    BY <1>8, <2>1, <1>b DEF TakeWait, addVars, Fifo!GrantTake, Fifo!addVars, IInv, TypeOK, Size
  <2> QED BY <2>2 DEF Fifo!Next
<1>9. CASE TakeInterrupted
  <2>1. Content' = Content
    BY <1>9, <1>a DEF TakeInterrupted, addVars, Kept, Size, IInv, TypeOK
  <2>2. Fifo!FailTake
    BY <1>9, <2>1 DEF TakeInterrupted, addVars, Fifo!FailTake, Fifo!addVars
  <2> QED BY <2>2 DEF Fifo!Next
<1>10. CASE TakeCopy
  <2>1. Content' = Content
    BY <1>10, <1>a DEF TakeCopy, addVars, Kept, Size
  <2> QED
    BY <1>10, <2>1 DEF TakeCopy, addVars, Fifo!vars, Fifo!addVars, Fifo!takeVars
<1>11. CASE TakeAdvance
  <2>1. Fifo!DoTake
    BY <1>11, AdvanceTakesHead
    DEF TakeAdvance, addVars, Fifo!DoTake, Fifo!addVars
  <2> QED BY <2>1 DEF Fifo!Next
<1>12. CASE TakePost
  <2>1. Content' = Content
    BY <1>12, <1>a DEF TakePost, addVars, Kept, Size, IInv, TypeOK
  <2>2. Fifo!ReturnTake
    BY <1>12, <2>1 DEF TakePost, addVars, Fifo!ReturnTake, Fifo!addVars
  <2> QED BY <2>2 DEF Fifo!Next
<1>13. CASE UNCHANGED vars
  <2>1. Content' = Content
    BY <1>13, <1>a DEF vars, addVars, takeVars, Kept, Size
  <2> QED
    BY <1>13, <2>1
    DEF vars, addVars, takeVars, Fifo!vars, Fifo!addVars, Fifo!takeVars
<1> QED
  BY <1>1, <1>2, <1>3, <1>4, <1>5, <1>6, <1>7, <1>8,
     <1>9, <1>10, <1>11, <1>12, <1>13 DEF Next

\* static_queue.c is a bounded FIFO for every number of places.
THEOREM Implementation == Spec => ImplementsFifo
  BY InitImplements, NextImplements, Invariance, PTL
  DEF Spec, ImplementsFifo, Fifo!Spec
=============================================================================
