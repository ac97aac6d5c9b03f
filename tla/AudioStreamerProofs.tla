------------------------- MODULE AudioStreamerProofs -------------------------
(***************************************************************************)
(* Proofs about AudioStreamer, for any clients and any number of captures: *)
(* with a fast filter no slot is filtered while it is captured into, and,  *)
(* fast or not, no frame is sent twice to a client, none after a newer     *)
(* one, and none that an earlier run left.                                 *)
(***************************************************************************)
EXTENDS AudioStreamer, TLAPS

\* Gate 1 is open only between a capture and the next one, and a fast filter is
\* done before that one ends.
GateInv ==
  /\ sem[1] = 0 => listener \in {"gate0", "gate1"}
  /\ fast /\ FilterBusy => listener \in {"gate0", "gate1", "read", "capture"}
  /\ fast /\ filter \in {"header", "read", "join"} => iRead = Other(iCapture)

Fresh(i) == slot[i].stamp # Old

\* The filter has passed gate 1 or may do so, and has not looked into its slot.
Passing == sem[1] = 0 \/ filter \in {"shut2", "shut3", "index", "header"}

\* The slot before iCapture has the newest frame, but for the instant before
\* Advance; when gate 1 lets the filter through, that slot is of this run.
SlotInv ==
  /\ \A i \in {0, 1} : Fresh(i) => slot[i].stamp <= frameN
  /\ listener = "advance" =>
       /\ Fresh(iCapture)
       /\ \A i \in {0, 1} : Fresh(i) => slot[i].stamp <= slot[iCapture].stamp
  /\ listener # "advance" /\ Fresh(Other(iCapture)) =>
       \A i \in {0, 1} : Fresh(i) => slot[i].stamp <= slot[Other(iCapture)].stamp
  /\ listener \in {"shut0", "open1"} \/ Passing => Fresh(Other(iCapture))
  /\ filter = "header" => Fresh(iRead)

\* SBE_P is never newer than the slot that the filter will take, and is of this
\* run when gate 3 is open.
OutInv ==
  /\ filter \in {"read", "join", "joined", "open3"} \/ sem[3] = 0 => out.stamp # Old
  /\ out.stamp # Old =>
       /\ listener = "advance" => out.stamp <= slot[iCapture].stamp
       /\ listener # "advance" =>
            Fresh(Other(iCapture)) /\ out.stamp <= slot[Other(iCapture)].stamp
       /\ filter \in {"shut2", "shut3", "index"} =>
            out.stamp <= slot[Other(iCapture)].stamp
       /\ filter = "header" => out.stamp <= slot[iRead].stamp

\* What a child has sent is not newer than its last_ts, which is older than
\* SBE_P while it sends.
ChildInv(c) ==
  /\ child[c] \in {"check", "copy", "copied", "mark"} => out.stamp # Old
  /\ child[c] \in {"copy", "copied"} => last_ts[c] < out.stamp
  /\ sent[c].stamp <= IF child[c] = "mark" THEN out.stamp ELSE last_ts[c]
  /\ last_ts[c] # Old

IInv ==
  /\ TypeOK
  /\ GateInv
  /\ SlotInv
  /\ OutInv
  /\ \A c \in Client : ChildInv(c)

-----------------------------------------------------------------------------

\* Each step of audio_listener keeps the invariant.
LEMMA ListenerOK ==
  ASSUME IInv, Listener
  PROVE  IInv'
<1> USE StampAssumption
    DEF Shut, Open, Opens, FilterPasses, ChildrenPass, Other, NextIndex,
           listenerVars, filterVars, childVars,
           Frame, Mixed, Old, Gate, ListenerPlace, FilterPlace, ChildPlace
<1>1. CASE ListenerOpens0
  <2>1. TypeOK'
    BY <1>1 DEF ListenerOpens0, IInv, TypeOK
  <2> QED BY <1>1, <2>1 DEF ListenerOpens0, TypeOK,
    IInv, GateInv, SlotInv, OutInv, ChildInv, Passing, Fresh, FilterBusy
<1>2. CASE ListenerShuts1
  <2>1. TypeOK'
    BY <1>2 DEF ListenerShuts1, IInv, TypeOK
  <2> QED BY <1>2, <2>1 DEF ListenerShuts1, TypeOK,
    IInv, GateInv, SlotInv, OutInv, ChildInv, Passing, Fresh, FilterBusy
<1>3. CASE OpenDsp
  <2>1. TypeOK'
    BY <1>3 DEF OpenDsp, IInv, TypeOK
  <2> QED BY <1>3, <2>1 DEF OpenDsp, TypeOK,
    IInv, GateInv, SlotInv, OutInv, ChildInv, Passing, Fresh, FilterBusy
<1>4. CASE ListenerEnds
  <2>1. TypeOK'
    BY <1>4 DEF ListenerEnds, IInv, TypeOK
  <2> QED BY <1>4, <2>1 DEF ListenerEnds, TypeOK,
    IInv, GateInv, SlotInv, OutInv, ChildInv, Passing, Fresh, FilterBusy
<1>5. CASE Capture
  <2>1. TypeOK'
    BY <1>5 DEF Capture, IInv, TypeOK
  <2> QED BY <1>5, <2>1 DEF Capture, TypeOK,
    IInv, GateInv, SlotInv, OutInv, ChildInv, Passing, Fresh, FilterBusy
<1>6. CASE CaptureFails
  <2>1. TypeOK'
    BY <1>6 DEF CaptureFails, IInv, TypeOK
  <2> QED BY <1>6, <2>1 DEF CaptureFails, TypeOK,
    IInv, GateInv, SlotInv, OutInv, ChildInv, Passing, Fresh, FilterBusy
<1>7. CASE Captured
  <2>1. TypeOK'
    BY <1>7 DEF Captured, IInv, TypeOK
  <2> QED BY <1>7, <2>1 DEF Captured, TypeOK,
    IInv, GateInv, SlotInv, OutInv, ChildInv, Passing, Fresh, FilterBusy
<1>8. CASE Stamp
  <2>1. TypeOK'
    BY <1>8 DEF Stamp, IInv, TypeOK
  <2> QED BY <1>8, <2>1 DEF Stamp, TypeOK,
    IInv, GateInv, SlotInv, OutInv, ChildInv, Passing, Fresh, FilterBusy
<1>9. CASE Advance
  <2>1. TypeOK'
    BY <1>9 DEF Advance, IInv, TypeOK
  <2>2. iCapture \in {0, 1} /\ iCapture' = Other(iCapture)
    BY <1>9 DEF Advance, IInv, TypeOK
  <2>3. Other(iCapture) \in {0, 1} /\ Other(iCapture') = iCapture
    BY <2>2
  <2>4. /\ listener = "advance" /\ listener' = "shut0"
        /\ sem' = sem /\ slot' = slot /\ frameN' = frameN /\ filter' = filter
        /\ out' = out /\ iRead' = iRead /\ fast' = fast
        /\ child' = child /\ last_ts' = last_ts /\ sent' = sent
    BY <1>9 DEF Advance
  <2> HIDE DEF Other
  <2>5. GateInv'
    BY <2>2, <2>3, <2>4 DEF IInv, GateInv, FilterBusy
  <2>6. SlotInv'
    <3>1. Fresh(iCapture)
          /\ \A i \in {0, 1} : Fresh(i) => slot[i].stamp <= slot[iCapture].stamp
      BY <2>2, <2>3, <2>4 DEF IInv, SlotInv
    <3>2. filter = "header" => Fresh(iRead)
      BY DEF IInv, SlotInv
    <3> QED BY <2>2, <2>3, <2>4, <3>1, <3>2 DEF IInv, SlotInv, Fresh
  <2>7. OutInv'
    <3>1. /\ Fresh(iCapture)
          /\ out.stamp # Old => out.stamp <= slot[iCapture].stamp
      BY <2>2, <2>3, <2>4 DEF IInv, SlotInv, OutInv
    <3> QED BY <2>2, <2>3, <2>4, <3>1 DEF IInv, OutInv, Fresh
  <2>8. \A c \in Client : ChildInv(c)'
    BY <2>2, <2>3, <2>4 DEF IInv, ChildInv
  <2> QED BY <2>1, <2>5, <2>6, <2>7, <2>8 DEF IInv
<1>10. CASE ListenerShuts0
  <2>1. TypeOK'
    BY <1>10 DEF ListenerShuts0, IInv, TypeOK
  <2> QED BY <1>10, <2>1 DEF ListenerShuts0, TypeOK,
    IInv, GateInv, SlotInv, OutInv, ChildInv, Passing, Fresh, FilterBusy
<1>11. CASE ListenerOpens1
  <2>1. TypeOK'
    BY <1>11 DEF ListenerOpens1, IInv, TypeOK
  <2> QED BY <1>11, <2>1 DEF ListenerOpens1, TypeOK,
    IInv, GateInv, SlotInv, OutInv, ChildInv, Passing, Fresh, FilterBusy
<1> QED BY <1>1, <1>2, <1>3, <1>4, <1>5, <1>6, <1>7, <1>8, <1>9, <1>10, <1>11 DEF
       Listener

\* Each step of thread_FiltradoDSP keeps it.
LEMMA FilterOK ==
  ASSUME IInv, Filter
  PROVE  IInv'
<1> USE StampAssumption
    DEF Shut, Open, Opens, FilterPasses, ChildrenPass, Other, NextIndex,
           listenerVars, filterVars, childVars,
           Frame, Mixed, Old, Gate, ListenerPlace, FilterPlace, ChildPlace
<1>1. CASE FilterWaits(1, "wait1", "asleep1", "shut2")
  <2>1. TypeOK'
    BY <1>1 DEF FilterWaits, IInv, TypeOK
  <2> QED BY <1>1, <2>1 DEF FilterWaits, TypeOK,
    IInv, GateInv, SlotInv, OutInv, ChildInv, Passing, Fresh, FilterBusy
<1>2. CASE FilterOpens2
  <2>1. TypeOK'
    BY <1>2 DEF FilterOpens2, IInv, TypeOK
  <2> QED BY <1>2, <2>1 DEF FilterOpens2, TypeOK,
    IInv, GateInv, SlotInv, OutInv, ChildInv, Passing, Fresh, FilterBusy
<1>3. CASE FilterShuts3
  <2>1. TypeOK'
    BY <1>3 DEF FilterShuts3, IInv, TypeOK
  <2> QED BY <1>3, <2>1 DEF FilterShuts3, TypeOK,
    IInv, GateInv, SlotInv, OutInv, ChildInv, Passing, Fresh, FilterBusy
<1>4. CASE ReadIndex
  <2>1. TypeOK'
    BY <1>4 DEF ReadIndex, IInv, TypeOK
  <2> QED BY <1>4, <2>1 DEF ReadIndex, TypeOK,
    IInv, GateInv, SlotInv, OutInv, ChildInv, Passing, Fresh, FilterBusy
<1>5. CASE CopyHeader
  <2>1. TypeOK'
    BY <1>5 DEF CopyHeader, IInv, TypeOK
  <2>2. /\ out'.stamp = slot[iRead].stamp
        /\ iRead \in {0, 1} /\ iCapture \in {0, 1} /\ Other(iCapture) \in {0, 1}
        /\ filter = "header" /\ filter' = "read"
        /\ sem' = sem /\ slot' = slot /\ iCapture' = iCapture /\ frameN' = frameN
        /\ listener' = listener /\ iRead' = iRead /\ fast' = fast
        /\ child' = child /\ last_ts' = last_ts /\ sent' = sent
    BY <1>5 DEF CopyHeader, IInv, TypeOK
  <2>3. Fresh(iRead) /\ (out.stamp # Old => out.stamp <= slot[iRead].stamp)
    BY <2>2 DEF IInv, SlotInv, OutInv
  <2> HIDE DEF Other
  <2>4. GateInv' /\ SlotInv'
    BY <2>2 DEF IInv, GateInv, SlotInv, FilterBusy, Fresh, Passing
  <2>5. OutInv'
    <3>1. listener = "advance" => slot[iRead].stamp <= slot[iCapture].stamp
      BY <2>2, <2>3 DEF IInv, SlotInv
    <3>2. listener # "advance" =>
            Fresh(Other(iCapture)) /\ slot[iRead].stamp <= slot[Other(iCapture)].stamp
      BY <2>2, <2>3 DEF IInv, SlotInv, Passing
    <3>3. out'.stamp # Old
      BY <2>2, <2>3 DEF Fresh
    <3>4. listener' = "advance" => out'.stamp <= slot'[iCapture'].stamp
      BY <2>2, <3>1
    <3>5. listener' # "advance" =>
            Fresh(Other(iCapture))' /\ out'.stamp <= slot'[Other(iCapture')].stamp
      BY <2>2, <3>2 DEF Fresh
    <3>6. filter' \notin {"shut2", "shut3", "index", "header"}
      BY <2>2
    <3> QED BY <3>3, <3>4, <3>5, <3>6 DEF OutInv
  <2>6. ASSUME NEW c \in Client PROVE ChildInv(c)'
    BY <2>1, <2>2, <2>3 DEF IInv, TypeOK, ChildInv, Fresh
  <2> QED BY <2>1, <2>4, <2>5, <2>6 DEF IInv
<1>6. CASE ReadSamples
  <2>1. TypeOK'
    BY <1>6 DEF ReadSamples, IInv, TypeOK
  <2> QED BY <1>6, <2>1 DEF ReadSamples, TypeOK,
    IInv, GateInv, SlotInv, OutInv, ChildInv, Passing, Fresh, FilterBusy
<1>7. CASE WriteSamples
  <2>1. TypeOK'
    BY <1>7 DEF WriteSamples, IInv, TypeOK
  <2> QED BY <1>7, <2>1 DEF WriteSamples, TypeOK,
    IInv, GateInv, SlotInv, OutInv, ChildInv, Passing, Fresh, FilterBusy
<1>8. CASE SamplesWritten
  <2>1. TypeOK'
    BY <1>8 DEF SamplesWritten, IInv, TypeOK
  <2> QED BY <1>8, <2>1 DEF SamplesWritten, TypeOK,
    IInv, GateInv, SlotInv, OutInv, ChildInv, Passing, Fresh, FilterBusy
<1>9. CASE FilterOpens3
  <2>1. TypeOK'
    BY <1>9 DEF FilterOpens3, IInv, TypeOK
  <2> QED BY <1>9, <2>1 DEF FilterOpens3, TypeOK,
    IInv, GateInv, SlotInv, OutInv, ChildInv, Passing, Fresh, FilterBusy
<1>10. CASE FilterShuts2
  <2>1. TypeOK'
    BY <1>10 DEF FilterShuts2, IInv, TypeOK
  <2> QED BY <1>10, <2>1 DEF FilterShuts2, TypeOK,
    IInv, GateInv, SlotInv, OutInv, ChildInv, Passing, Fresh, FilterBusy
<1>11. CASE FilterWaits(0, "wait0", "asleep0", "wait1")
  <2>1. TypeOK'
    BY <1>11 DEF FilterWaits, IInv, TypeOK
  <2> QED BY <1>11, <2>1 DEF FilterWaits, TypeOK,
    IInv, GateInv, SlotInv, OutInv, ChildInv, Passing, Fresh, FilterBusy
<1> QED BY <1>1, <1>2, <1>3, <1>4, <1>5, <1>6, <1>7, <1>8, <1>9, <1>10, <1>11 DEF
       Filter

\* Each step of a child and of its client keeps it.
LEMMA ChildOK ==
  ASSUME IInv, NEW c \in Client, Hello(c) \/ Stream(c) \/ ClientEnds(c)
  PROVE  IInv'
<1> USE StampAssumption
    DEF Shut, Open, Opens, FilterPasses, ChildrenPass, Other, NextIndex,
           listenerVars, filterVars, childVars,
           Frame, Mixed, Old, Gate, ListenerPlace, FilterPlace, ChildPlace
<1>1. CASE Hello(c)
  <2>1. TypeOK'
    BY <1>1 DEF Hello, IInv, TypeOK
  <2> QED BY <1>1, <2>1 DEF Hello, TypeOK,
    IInv, GateInv, SlotInv, OutInv, ChildInv, Passing, Fresh, FilterBusy
<1>2. CASE ChildWaits(c, 3, "wait3", "asleep3", "check")
  <2>1. TypeOK'
    BY <1>2 DEF ChildWaits, IInv, TypeOK
  <2> QED BY <1>2, <2>1 DEF ChildWaits, TypeOK,
    IInv, GateInv, SlotInv, OutInv, ChildInv, Passing, Fresh, FilterBusy
<1>3. CASE Check(c)
  <2>1. TypeOK'
    BY <1>3 DEF Check, IsNew, IInv, TypeOK
  <2> QED BY <1>3, <2>1 DEF Check, IsNew, TypeOK,
    IInv, GateInv, SlotInv, OutInv, ChildInv, Passing, Fresh, FilterBusy
<1>4. CASE CopySamples(c)
  <2>1. TypeOK'
    BY <1>4 DEF CopySamples, IInv, TypeOK
  <2> QED BY <1>4, <2>1 DEF CopySamples, TypeOK,
    IInv, GateInv, SlotInv, OutInv, ChildInv, Passing, Fresh, FilterBusy
<1>5. CASE Send(c)
  <2>1. TypeOK'
    BY <1>5 DEF Send, IInv, TypeOK
  <2> QED BY <1>5, <2>1 DEF Send, TypeOK,
    IInv, GateInv, SlotInv, OutInv, ChildInv, Passing, Fresh, FilterBusy
<1>6. CASE Mark(c)
  <2>1. TypeOK'
    BY <1>6 DEF Mark, Marked, IInv, TypeOK
  <2> QED BY <1>6, <2>1 DEF Mark, Marked, TypeOK,
    IInv, GateInv, SlotInv, OutInv, ChildInv, Passing, Fresh, FilterBusy
<1>7. CASE ChildWaits(c, 2, "wait2", "asleep2", "select")
  <2>1. TypeOK'
    BY <1>7 DEF ChildWaits, IInv, TypeOK
  <2> QED BY <1>7, <2>1 DEF ChildWaits, TypeOK,
    IInv, GateInv, SlotInv, OutInv, ChildInv, Passing, Fresh, FilterBusy
<1>8. CASE ReadTcp(c)
  <2>1. TypeOK'
    BY <1>8 DEF ReadTcp, IInv, TypeOK
  <2> QED BY <1>8, <2>1 DEF ReadTcp, TypeOK,
    IInv, GateInv, SlotInv, OutInv, ChildInv, Passing, Fresh, FilterBusy
<1>9. CASE ClientEnds(c)
  <2>1. TypeOK'
    BY <1>9 DEF ClientEnds, IInv, TypeOK
  <2> QED BY <1>9, <2>1 DEF ClientEnds, TypeOK,
    IInv, GateInv, SlotInv, OutInv, ChildInv, Passing, Fresh, FilterBusy
<1> QED BY <1>1, <1>2, <1>3, <1>4, <1>5, <1>6, <1>7, <1>8, <1>9 DEF Stream

\* It holds at the start, whatever the shared memory held.
LEMMA InitOK == Init => IInv
  BY StampAssumption
  DEF Init, GatesAtFirst, Whole, Other, IInv, TypeOK, GateInv, SlotInv, OutInv,
      ChildInv, Passing, Fresh, FilterBusy,
      Frame, Mixed, Old, Gate, ListenerPlace, FilterPlace, ChildPlace

\* The inductive invariant, for any clients and any number of captures.
THEOREM Invariance == Spec => []IInv
<1>1. IInv /\ [Next]_vars => IInv'
  <2> SUFFICES ASSUME IInv, [Next]_vars PROVE IInv'
    OBVIOUS
  <2>1. CASE UNCHANGED vars
    BY <2>1
    DEF vars, listenerVars, filterVars, childVars, IInv, TypeOK, GateInv, SlotInv,
        OutInv, ChildInv, Passing, Fresh, FilterBusy
  <2> QED BY <2>1, ListenerOK, FilterOK, ChildOK DEF Next
<1> QED BY <1>1, InitOK, PTL DEF Spec

\* For any clients and any number of captures: no frame is filtered from the slot
\* that is being captured into, if filtering takes less time than a capture.
THEOREM Safety == Spec => []Safe
<1>1. IInv => Safe
  BY DEF IInv, TypeOK, Safe, FilteredApart, FilterBusy, GateInv, Other
<1> QED BY <1>1, Invariance, PTL

\* For any clients and any number of captures, fast filter or slow: every frame
\* that is sent is newer than those that were sent before.
THEOREM Once == Spec => []SentOnce
<1>1. IInv => SentOnce
  <2> SUFFICES ASSUME IInv, NEW c \in Client, child[c] \in {"copy", "copied"}
               PROVE  sent[c].stamp < out.stamp
    BY DEF SentOnce
  <2> QED BY StampAssumption DEF IInv, TypeOK, Frame, Old, ChildInv
<1> QED BY <1>1, Invariance, PTL

\* For any clients and any number of captures, nothing that the shared memory held
\* before is sent.
THEOREM OfThisRun == Spec => []NothingStale
<1>1. IInv => NothingStale
  <2> SUFFICES ASSUME IInv, NEW c \in Client PROVE sent[c].stamp # Old
    BY DEF NothingStale
  <2>1. /\ out.stamp \in 0 .. Old /\ last_ts[c] \in 0 .. Old
        /\ sent[c].stamp \in 0 .. Old /\ Old \in Nat
    BY StampAssumption DEF IInv, TypeOK, Frame, Old
  <2>2. CASE child[c] = "mark"
    BY <2>1, <2>2 DEF IInv, ChildInv
  <2>3. CASE child[c] # "mark"
    BY <2>1, <2>3 DEF IInv, ChildInv
  <2> QED BY <2>2, <2>3
<1> QED BY <1>1, Invariance, PTL

=============================================================================
