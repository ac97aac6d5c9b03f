---------------------------- MODULE AudioStreamer ----------------------------
(***************************************************************************)
(* How a frame goes through the server of tp_04_03: the process            *)
(* audio_listener captures it into one of two slots of a shared memory,    *)
(* thread_FiltradoDSP filters it from there into SBE_P, and the process    *)
(* childFunc of each client sends SBE_P by UDP.                            *)
(*                                                                         *)
(* The processes are kept apart by four semaphores used as gates: semctl   *)
(* with SETVAL closes a gate (1) or opens it (0), and semop with operation *)
(* 0 waits until it is open.  Opening a gate lets through, at once, every  *)
(* process that sleeps at it.  Signals and the shutdown are left out.      *)
(*                                                                         *)
(* A frame is the number of its capture, for its samples and for its time  *)
(* stamp alike; samples that come from more than one frame are Mixed.      *)
(***************************************************************************)
EXTENDS Integers

CONSTANTS
  Client,   \* the clients; each has its childFunc
  MaxStamp  \* bound: captures are numbered no further

ASSUME StampAssumption == MaxStamp \in Nat \ {0}

VARIABLES
  sem,                    \* the four gates
  slot, iCapture, frameN, \* SHP->SBE, SHP->iCapture, and the listener's count
  out,                    \* SHP->SBE_P
  listener,               \* where audio_listener is
  filter, iRead, work,    \* where the filtering thread is, and its data
  child, last_ts,         \* where each childFunc is, and its last_ts
  copied, sent,           \* the samples sendto has copied, the last frame sent
  closed,                 \* the clients that have ended
  fast                    \* whether filtering always ends before a capture

listenerVars == <<slot, iCapture, frameN, listener>>
filterVars == <<out, iRead, work>>
childVars == <<last_ts, copied, sent>>
vars == <<sem, listenerVars, filter, filterVars, child, childVars, closed, fast>>

Gate == 0 .. 3
Mixed == -1
Old == MaxStamp + 1     \* left in the shared memory by an earlier run
Frame == [samples : {Mixed} \cup 0 .. Old, stamp : 0 .. Old]
Whole(n) == [samples |-> n, stamp |-> n]

ListenerPlace == {"first0", "first1", "open", "gate0", "gate1", "read", "capture",
                  "stamp", "advance", "shut0", "open1", "end"}
FilterPlace == {"init2", "init3", "wait1", "asleep1", "shut2", "shut3", "index",
                "header", "read", "join", "joined", "open3", "open2", "wait0",
                "asleep0"}
ChildPlace == {"hello", "wait3", "asleep3", "check", "copy", "copied", "mark",
               "wait2", "asleep2", "select", "end"}

-----------------------------------------------------------------------------
(* Faulty variants, one for each property that must be able to fail.  No
   specification uses them. *)

\* the filter takes the slot that is being captured
OtherSame(i) == i

\* main leaves the gates open
GatesOpen == [g \in Gate |-> 0]

\* last_ts is not updated
MarkLost(c) == last_ts[c]

\* the filter does not open gate 3
OpensNot(g) == g # 3

\* a frame is new if it is older
IsNewSwapped(c) == last_ts[c] > out.stamp

-----------------------------------------------------------------------------

\* iCapture++, iCapture %= AUDIO_CAPTURE_PACKET_N
NextIndex(i) == (i + 1) % 2

\* main creates all gates closed, then the listener and the filtering thread.
\* Nobody removes the shared memory of an earlier run.
GatesAtFirst == [g \in Gate |-> 1]

Init ==
  /\ sem = GatesAtFirst
  /\ \E n \in {0, Old} : slot = [i \in {0, 1} |-> Whole(n)] /\ out = Whole(n)
  /\ iCapture = 0 /\ frameN = 0
  /\ listener = "first0"
  /\ filter = "init2" /\ iRead = 0 /\ work = 0
  /\ child = [c \in Client |-> "hello"]
  /\ last_ts = [c \in Client |-> 0]
  /\ copied = [c \in Client |-> 0]
  /\ sent = [c \in Client |-> Whole(0)]
  /\ closed = {}
  /\ fast \in BOOLEAN

\* semctl(semid, g, SETVAL, 1)
Shut(g) == sem' = [sem EXCEPT ![g] = 1]

\* The gates that an opening really opens.
Opens(g) == g \in Gate

\* semctl(semid, g, SETVAL, 0), seen by the gate and by those that sleep there
Open(g) == sem' = IF Opens(g) THEN [sem EXCEPT ![g] = 0] ELSE sem
FilterPasses(g, from, to, place) ==
  IF Opens(g) /\ place = from THEN to ELSE place
ChildrenPass(g, from, to) ==
  child' = [c \in Client |->
              IF Opens(g) /\ child[c] = from THEN to ELSE child[c]]

-----------------------------------------------------------------------------
(* audio_listener *)

\* gate 0 is opened and gate 1 shut, before the device is opened and at the top
\* of the loop
ListenerOpens0 ==
  /\ listener \in {"first0", "gate0"}
  /\ Open(0)
  /\ filter' = FilterPasses(0, "asleep0", "wait1", filter)
  /\ listener' = IF listener = "first0" THEN "first1" ELSE "gate1"
  /\ UNCHANGED <<slot, iCapture, frameN, filterVars, child, childVars, closed,
                 fast>>

ListenerShuts1 ==
  /\ listener \in {"first1", "gate1"}
  /\ Shut(1)
  /\ listener' = IF listener = "first1" THEN "open" ELSE "read"
  /\ UNCHANGED <<slot, iCapture, frameN, filter, filterVars, child, childVars,
                 closed, fast>>

\* open of /dev/dsp and what follows it
OpenDsp ==
  /\ listener = "open"
  /\ listener' = "gate0"
  /\ UNCHANGED <<sem, slot, iCapture, frameN, filter, filterVars, child,
                 childVars, closed, fast>>

\* open fails: exit(1)
ListenerEnds ==
  /\ listener = "open"
  /\ listener' = "end"
  /\ UNCHANGED <<sem, slot, iCapture, frameN, filter, filterVars, child,
                 childVars, closed, fast>>

\* read starts to fill the slot
Capture ==
  /\ listener = "read"
  /\ slot' = [slot EXCEPT ![iCapture].samples = Mixed]
  /\ listener' = "capture"
  /\ UNCHANGED <<sem, iCapture, frameN, filter, filterVars, child, childVars,
                 closed, fast>>

\* read returns -1: the loop starts again
CaptureFails ==
  /\ listener = "read"
  /\ listener' = "gate0"
  /\ UNCHANGED <<sem, slot, iCapture, frameN, filter, filterVars, child,
                 childVars, closed, fast>>

FilterBusy ==
  filter \in {"shut2", "shut3", "index", "header", "read", "join", "joined",
              "open3", "open2"}

\* read has filled the slot
Captured ==
  /\ listener = "capture"
  /\ fast => ~ FilterBusy
  /\ slot' = [slot EXCEPT ![iCapture].samples = frameN]
  /\ listener' = "stamp"
  /\ UNCHANGED <<sem, iCapture, frameN, filter, filterVars, child, childVars,
                 closed, fast>>

Stamp ==
  /\ listener = "stamp"
  /\ slot' = [slot EXCEPT ![iCapture].stamp = frameN]
  /\ frameN' = IF frameN = MaxStamp THEN MaxStamp ELSE frameN + 1
  /\ listener' = "advance"
  /\ UNCHANGED <<sem, iCapture, filter, filterVars, child, childVars, closed,
                 fast>>

Advance ==
  /\ listener = "advance"
  /\ iCapture' = NextIndex(iCapture)
  /\ listener' = "shut0"
  /\ UNCHANGED <<sem, slot, frameN, filter, filterVars, child, childVars,
                 closed, fast>>

ListenerShuts0 ==
  /\ listener = "shut0"
  /\ Shut(0)
  /\ listener' = "open1"
  /\ UNCHANGED <<slot, iCapture, frameN, filter, filterVars, child, childVars,
                 closed, fast>>

ListenerOpens1 ==
  /\ listener = "open1"
  /\ Open(1)
  /\ filter' = FilterPasses(1, "asleep1", "shut2", filter)
  /\ listener' = "gate0"
  /\ UNCHANGED <<slot, iCapture, frameN, filterVars, child, childVars, closed,
                 fast>>

-----------------------------------------------------------------------------
(* thread_FiltradoDSP *)

\* gate 2 is opened and gate 3 shut, before the loop and at its top
FilterOpens2 ==
  /\ filter \in {"init2", "shut2"}
  /\ Open(2)
  /\ ChildrenPass(2, "asleep2", "select")
  /\ filter' = IF filter = "init2" THEN "init3" ELSE "shut3"
  /\ UNCHANGED <<listenerVars, filterVars, childVars, closed, fast>>

FilterShuts3 ==
  /\ filter \in {"init3", "shut3"}
  /\ Shut(3)
  /\ filter' = IF filter = "init3" THEN "wait1" ELSE "index"
  /\ UNCHANGED <<listenerVars, filterVars, child, childVars, closed, fast>>

\* semop at gate g, by the filtering thread
FilterWaits(g, at, asleep, beyond) ==
  /\ filter = at
  /\ filter' = IF sem[g] = 0 THEN beyond ELSE asleep
  /\ UNCHANGED <<sem, listenerVars, filterVars, child, childVars, closed, fast>>

\* the slot after the one that iCapture points to
Other(i) == (i + 1) % 2

ReadIndex ==
  /\ filter = "index"
  /\ iRead' = Other(iCapture)
  /\ filter' = "header"
  /\ UNCHANGED <<sem, listenerVars, out, work, child, childVars, closed, fast>>

CopyHeader ==
  /\ filter = "header"
  /\ out' = [out EXCEPT !.stamp = slot[iRead].stamp]
  /\ filter' = "read"
  /\ UNCHANGED <<sem, listenerVars, iRead, work, child, childVars, closed, fast>>

\* AudioDSP: separateChannels reads the slot
ReadSamples ==
  /\ filter = "read"
  /\ work' = slot[iRead].samples
  /\ filter' = "join"
  /\ UNCHANGED <<sem, listenerVars, out, iRead, child, childVars, closed, fast>>

\* ... it has read it, and joinChannels starts to write SBE_P
WriteSamples ==
  /\ filter = "join"
  /\ work' = IF slot[iRead].samples = work THEN work ELSE Mixed
  /\ out' = [out EXCEPT !.samples = IF @ = work' THEN @ ELSE Mixed]
  /\ filter' = "joined"
  /\ UNCHANGED <<sem, listenerVars, iRead, child, childVars, closed, fast>>

SamplesWritten ==
  /\ filter = "joined"
  /\ out' = [out EXCEPT !.samples = work]
  /\ work' = 0
  /\ filter' = "open3"
  /\ UNCHANGED <<sem, listenerVars, iRead, child, childVars, closed, fast>>

FilterOpens3 ==
  /\ filter = "open3"
  /\ Open(3)
  /\ ChildrenPass(3, "asleep3", "check")
  /\ filter' = "open2"
  /\ UNCHANGED <<listenerVars, filterVars, childVars, closed, fast>>

FilterShuts2 ==
  /\ filter = "open2"
  /\ Shut(2)
  /\ filter' = "wait0"
  /\ UNCHANGED <<listenerVars, filterVars, child, childVars, closed, fast>>

-----------------------------------------------------------------------------
(* childFunc, for client c *)

\* socket, bind, the welcome by TCP and the client's datagram
Hello(c) ==
  /\ child[c] = "hello"
  /\ child' = [child EXCEPT ![c] = "wait3"]
  /\ UNCHANGED <<sem, listenerVars, filter, filterVars, childVars, closed, fast>>

ChildWaits(c, g, at, asleep, beyond) ==
  /\ child[c] = at
  /\ child' = [child EXCEPT ![c] = IF sem[g] = 0 THEN beyond ELSE asleep]
  /\ UNCHANGED <<sem, listenerVars, filter, filterVars, childVars, closed, fast>>

IsNew(c) == last_ts[c] < out.stamp

Check(c) ==
  /\ child[c] = "check"
  /\ child' = [child EXCEPT ![c] = IF IsNew(c) THEN "copy" ELSE "wait2"]
  /\ UNCHANGED <<sem, listenerVars, filter, filterVars, childVars, closed, fast>>

\* sendto copies SBE_P from its beginning, where the samples are, ...
CopySamples(c) ==
  /\ child[c] = "copy"
  /\ copied' = [copied EXCEPT ![c] = out.samples]
  /\ child' = [child EXCEPT ![c] = "copied"]
  /\ UNCHANGED <<sem, listenerVars, filter, filterVars, last_ts, sent, closed,
                 fast>>

\* ... to its end, where the time stamp is
Send(c) ==
  /\ child[c] = "copied"
  /\ sent' = [sent EXCEPT ![c] =
                [samples |-> IF copied[c] = out.samples THEN copied[c]
                                                        ELSE Mixed,
                 stamp |-> out.stamp]]
  /\ copied' = [copied EXCEPT ![c] = 0]
  /\ child' = [child EXCEPT ![c] = "mark"]
  /\ UNCHANGED <<sem, listenerVars, filter, filterVars, last_ts, closed, fast>>

\* The time stamp is read from SBE_P again.
Marked(c) == out.stamp

Mark(c) ==
  /\ child[c] = "mark"
  /\ last_ts' = [last_ts EXCEPT ![c] = Marked(c)]
  /\ child' = [child EXCEPT ![c] = "wait2"]
  /\ UNCHANGED <<sem, listenerVars, filter, filterVars, copied, sent, closed,
                 fast>>

\* recv returns 0 when the client has ended
ReadTcp(c) ==
  /\ child[c] = "select"
  /\ child' = [child EXCEPT ![c] = IF c \in closed THEN "end" ELSE "wait3"]
  /\ UNCHANGED <<sem, listenerVars, filter, filterVars, childVars, closed, fast>>

\* the client's process ends
ClientEnds(c) ==
  /\ c \notin closed
  /\ closed' = closed \cup {c}
  /\ UNCHANGED <<sem, listenerVars, filter, filterVars, child, childVars, fast>>

-----------------------------------------------------------------------------

Listener ==
  \/ ListenerOpens0 \/ ListenerShuts1 \/ OpenDsp \/ ListenerEnds
  \/ Capture \/ CaptureFails
  \/ Captured \/ Stamp \/ Advance \/ ListenerShuts0 \/ ListenerOpens1
Filter ==
  \/ FilterWaits(1, "wait1", "asleep1", "shut2")
  \/ FilterOpens2 \/ FilterShuts3 \/ ReadIndex \/ CopyHeader \/ ReadSamples
  \/ WriteSamples \/ SamplesWritten \/ FilterOpens3 \/ FilterShuts2
  \/ FilterWaits(0, "wait0", "asleep0", "wait1")
Stream(c) ==
  \/ ChildWaits(c, 3, "wait3", "asleep3", "check")
  \/ Check(c) \/ CopySamples(c) \/ Send(c) \/ Mark(c)
  \/ ChildWaits(c, 2, "wait2", "asleep2", "select")
  \/ ReadTcp(c)

Next ==
  \/ Listener \/ Filter
  \/ \E c \in Client : Hello(c) \/ Stream(c) \/ ClientEnds(c)

Spec == Init /\ [][Next]_vars

\* All processes are scheduled, open of /dev/dsp returns, and the device goes on delivering samples; a
\* datagram may be lost, so that Hello need not happen.
FairSpec ==
  /\ Spec
  /\ WF_vars(Listener) /\ WF_vars(Filter)
  /\ SF_vars(Capture)
  /\ \A c \in Client : WF_vars(Stream(c))

-----------------------------------------------------------------------------
(* Properties *)

TypeOK ==
  /\ sem \in [Gate -> {0, 1}]
  /\ slot \in [{0, 1} -> Frame] /\ iCapture \in {0, 1} /\ frameN \in 0 .. MaxStamp
  /\ out \in Frame
  /\ listener \in ListenerPlace
  /\ filter \in FilterPlace /\ iRead \in {0, 1} /\ work \in {Mixed} \cup 0 .. Old
  /\ child \in [Client -> ChildPlace] /\ last_ts \in [Client -> 0 .. Old]
  /\ copied \in [Client -> {Mixed} \cup 0 .. Old] /\ sent \in [Client -> Frame]
  /\ closed \subseteq Client /\ fast \in BOOLEAN

\* If filtering a frame takes less time than capturing one, no frame is filtered
\* from a slot that is being captured into.
FilteredApart ==
  (fast /\ filter \in {"header", "read", "join"} /\ listener \in {"capture", "stamp"})
    => iRead # iCapture

\* The two slots, the gates and the stamps are used as they are meant to be, by
\* all processes together: indices inside the slots, gates of one pass, and a
\* slot for the capture that the filter is not reading.
Safe == TypeOK /\ FilteredApart

\* No frame is sent twice to a client, and none after a newer one: while a child
\* is sending, SBE_P is newer than all it has sent, however the filter changes
\* it meanwhile.
SentOnce ==
  \A c \in Client :
    child[c] \in {"copy", "copied"} => sent[c].stamp < out.stamp

\* Nothing that an earlier run of the server left in the shared memory is sent.
NothingStale == \A c \in Client : sent[c].stamp # Old

\* The frames that are sent are those that were captured: samples and time stamp
\* belong to one frame, at least if filtering is fast.
SentWhole == fast => \A c \in Client : sent[c] = Whole(sent[c].stamp)

\* When a client that was being served ends, so does its child, as long as
\* there is a listener to work the gates.
ChildEnds ==
  \A c \in Client :
    (c \in closed /\ child[c] # "hello")
      ~> (child[c] = "end" \/ listener = "end")

\* A child that serves a client comes up with the newest frame there is: the
\* gates do not keep it out for ever.
NotLeftBehind ==
  \A c \in Client :
    (child[c] # "hello")
      ~> (last_ts[c] = MaxStamp \/ c \in closed \/ listener = "end")
=============================================================================
