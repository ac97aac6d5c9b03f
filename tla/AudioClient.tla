----------------------------- MODULE AudioClient -----------------------------
(***************************************************************************)
(* tp_04_03/src/cliente/main.c: the main thread of the audio client, which *)
(* receives frames and queues them, the thread thread_escrituraDSP, which  *)
(* plays them, the signals that end the client, and its shutdown.          *)
(*                                                                         *)
(* The queue between the threads is an instance of BoundedFifo, which      *)
(* StaticQueue implements.  A signal handler that runs while its thread is *)
(* not asleep only sets signals_stat; one that interrupts a system call    *)
(* makes it return EINTR.  Linux delivers a signal sent to the process to  *)
(* its main thread.                                                        *)
(***************************************************************************)
EXTENDS Integers, Sequences

CONSTANTS
  BUFFER_SIZE,  \* the places of the queue
  Frame,        \* the frames, which this module does not tell apart
  NoFrame,      \* the content of a buffer that is being filled
  MaxFrames,    \* bound: how many frames the server sends
  MaxSignals    \* bound: how many times the user signals the client

\* With fewer places the threshold of thread_escrituraDSP would be out of reach.
ASSUME BufferAssumption == BUFFER_SIZE \in Nat /\ BUFFER_SIZE >= 8
ASSUME BoundsAssumption == MaxFrames \in Nat /\ MaxSignals \in Nat

VARIABLES
  main,          \* where the main thread is
  writer,        \* where thread_escrituraDSP is
  asleep,        \* the threads that sleep in a semop
  signalled,     \* signals_stat is SIGINT or SIGTERM
  readed_frames,
  ready,         \* the descriptors that select reported
  udp, tcp,      \* datagrams and bytes that wait in the sockets
  typed,         \* there is input on STDIN
  closed,        \* the server has closed the TCP connection
  net, keys,     \* frames still to be sent and signals still to come
  queue, addSt, addItem, addRet, takeSt, takeItem, takeRet \* BoundedFifo

Fifo == INSTANCE BoundedFifo WITH
  Capacity <- BUFFER_SIZE, Items <- Frame, NoItem <- NoFrame

queueVars == <<queue, addSt, addItem, addRet, takeSt, takeItem, takeRet>>
envVars == <<udp, tcp, typed, closed, net, keys>>
vars == <<main, writer, asleep, signalled, readed_frames, ready, envVars,
          queueVars>>

Thread == {"main", "writer"}

\* "loop" is the top of the while, "select" asleep in select, then one state
\* for each part of the body, and the shutdown; "exit" is the end of a process
\* that never got to its loop.
MainPlace == {"setup", "loop", "select", "udp", "add", "tcp", "stdin", "kill",
              "join", "done", "exit"}
WriterPlace == {"open", "wait", "take", "write", "ended", "exit"}

\* The server sends one byte more than the welcome that the client reads.
Init ==
  /\ main = "setup" /\ writer = "open"
  /\ asleep = {} /\ signalled = FALSE
  /\ readed_frames = 0 /\ ready = {}
  /\ udp = 0 /\ tcp = 1 /\ typed = FALSE /\ closed = FALSE
  /\ net = MaxFrames /\ keys = MaxSignals
  /\ Fifo!Init

-----------------------------------------------------------------------------
(* Faulty variants, one for each property that must be able to fail.  No
   specification uses them. *)

\* a threshold that the queue cannot reach
ThresholdAbove == BUFFER_SIZE \div 2 + 5

\* the thread is not waited for
JoinedAlways == TRUE

\* a connection closed by the server is not told from one with data
ServerGoneIgnored == FALSE

\* the thread does not look at signals_stat after a frame
WriterStopsNever == FALSE

-----------------------------------------------------------------------------
(* The main thread *)

\* The thread plays nothing before this many frames were queued.
Threshold == BUFFER_SIZE \div 2 + 4

\* main returns before its loop, or thread_escrituraDSP cannot open /dev/dsp
\* and calls exit.
ProcessExits ==
  /\ main = "setup" \/ (main \notin {"done", "exit"} /\ writer = "open")
  /\ main' = "exit" /\ writer' = "exit"
  /\ asleep' = {}
  /\ UNCHANGED <<signalled, readed_frames, ready, envVars, queueVars>>

Connected ==
  /\ main = "setup"
  /\ main' = "loop"
  /\ UNCHANGED <<writer, asleep, signalled, readed_frames, ready, envVars,
                 queueVars>>

Readable ==
  {d \in {"udp", "tcp", "stdin"} :
     \/ d = "udp" /\ udp > 0
     \/ d = "tcp" /\ (tcp > 0 \/ closed)
     \/ d = "stdin" /\ typed}

SelectReturns ==
  /\ main \in {"loop", "select"}
  /\ Readable # {}
  /\ ready' = Readable
  /\ main' = "udp"
  /\ UNCHANGED <<writer, asleep, signalled, readed_frames, envVars, queueVars>>

SelectSleeps ==
  /\ main = "loop"
  /\ Readable = {}
  /\ main' = "select"
  /\ UNCHANGED <<writer, asleep, signalled, readed_frames, ready, envVars,
                 queueVars>>

\* recvfrom, and the call of fifo_addto_smph
Receive ==
  /\ main = "udp"
  /\ "udp" \in ready
  /\ udp' = udp - 1
  /\ main' = "add"
  /\ Fifo!CallAdd
  /\ UNCHANGED <<writer, asleep, signalled, readed_frames, ready, tcp, typed,
                 closed, net, keys>>

NoDatagram ==
  /\ main = "udp"
  /\ "udp" \notin ready
  /\ main' = "tcp"
  /\ UNCHANGED <<writer, asleep, signalled, readed_frames, ready, envVars,
                 queueVars>>

AddSleeps ==
  /\ main = "add" /\ addSt = "called" /\ Len(queue) = BUFFER_SIZE
  /\ asleep' = asleep \cup {"main"}
  /\ UNCHANGED <<main, writer, signalled, readed_frames, ready, envVars,
                 queueVars>>

Adds ==
  /\ main = "add"
  /\ Fifo!GrantAdd \/ Fifo!DoAdd
  /\ asleep' = asleep \ {"main"}
  /\ UNCHANGED <<main, writer, signalled, readed_frames, ready, envVars>>

Added ==
  /\ main = "add"
  /\ Fifo!ReturnAdd
  /\ readed_frames' = readed_frames + 1
  /\ main' = "tcp"
  /\ UNCHANGED <<writer, asleep, signalled, ready, envVars>>

\* recv returns 0 when the server has closed the connection and nothing is
\* left to read.
ServerGone == tcp = 0 /\ closed

ReadTcp ==
  /\ main = "tcp"
  /\ \/ /\ "tcp" \in ready /\ ServerGone
        /\ main' = "kill"
        /\ UNCHANGED tcp
     \/ /\ "tcp" \in ready /\ ~ ServerGone
        /\ main' = "stdin"
        /\ tcp' = 0
     \/ /\ "tcp" \notin ready
        /\ main' = "stdin"
        /\ UNCHANGED tcp
  /\ UNCHANGED <<writer, asleep, signalled, readed_frames, ready, udp, typed,
                 closed, net, keys, queueVars>>

\* recv fails on a descriptor that is no socket: the input stays where it is
\* and strcmp looks at bytes that may be anything.
ReadStdin ==
  /\ main = "stdin"
  /\ \/ "stdin" \in ready /\ main' = "kill"
     \/ main' = "loop"
  /\ UNCHANGED <<writer, asleep, signalled, readed_frames, ready, envVars,
                 queueVars>>

\* pthread_kill(tr1, SIGINT): the handler runs in thread_escrituraDSP, and
\* interrupts it if it sleeps.
KillWriter ==
  /\ main = "kill"
  /\ main' = "join"
  /\ signalled' = (signalled \/ writer # "ended")
  /\ IF "writer" \in asleep /\ queue = << >>
     THEN /\ writer' = "ended"
          /\ asleep' = asleep \ {"writer"}
          /\ Fifo!FailTake
     ELSE UNCHANGED <<writer, asleep, queueVars>>
  /\ UNCHANGED <<readed_frames, ready, envVars>>

Joined == writer = "ended"

\* pthread_join returns; close, IPC_RMID, fifo_dispose
Dispose ==
  /\ main = "join"
  /\ Joined
  /\ main' = "done"
  /\ UNCHANGED <<writer, asleep, signalled, readed_frames, ready, envVars,
                 queueVars>>

-----------------------------------------------------------------------------
(* thread_escrituraDSP *)

OpenDsp ==
  /\ writer = "open"
  /\ writer' = "wait"
  /\ UNCHANGED <<main, asleep, signalled, readed_frames, ready, envVars,
                 queueVars>>

\* Below the threshold the loop only tests it again.
StartTake ==
  /\ writer = "wait"
  /\ readed_frames >= Threshold
  /\ writer' = "take"
  /\ Fifo!CallTake
  /\ UNCHANGED <<main, asleep, signalled, readed_frames, ready, envVars>>

TakeSleeps ==
  /\ writer = "take" /\ takeSt = "called" /\ queue = << >>
  /\ asleep' = asleep \cup {"writer"}
  /\ UNCHANGED <<main, writer, signalled, readed_frames, ready, envVars,
                 queueVars>>

Takes ==
  /\ writer = "take"
  /\ Fifo!GrantTake \/ Fifo!DoTake
  /\ asleep' = asleep \ {"writer"}
  /\ UNCHANGED <<main, writer, signalled, readed_frames, ready, envVars>>

Taken ==
  /\ writer = "take"
  /\ Fifo!ReturnTake
  /\ writer' = "write"
  /\ UNCHANGED <<main, asleep, signalled, readed_frames, ready, envVars>>

WriterStops == signalled

\* write to /dev/dsp, then the test of signals_stat
WriteDsp ==
  /\ writer = "write"
  /\ writer' = IF WriterStops THEN "ended" ELSE "wait"
  /\ UNCHANGED <<main, asleep, signalled, readed_frames, ready, envVars,
                 queueVars>>

-----------------------------------------------------------------------------
(* The server, the keyboard and the user *)

Running == main \notin {"done", "exit"}

FrameArrives ==
  /\ Running /\ ~ closed
  /\ net > 0
  /\ net' = net - 1
  /\ udp' = udp + 1
  /\ UNCHANGED <<main, writer, asleep, signalled, readed_frames, ready, tcp,
                 typed, closed, keys, queueVars>>

ServerCloses ==
  /\ Running /\ ~ closed
  /\ closed' = TRUE
  /\ UNCHANGED <<main, writer, asleep, signalled, readed_frames, ready, udp,
                 tcp, typed, net, keys, queueVars>>

Type ==
  /\ Running /\ ~ typed
  /\ typed' = TRUE
  /\ UNCHANGED <<main, writer, asleep, signalled, readed_frames, ready, udp,
                 tcp, closed, net, keys, queueVars>>

\* sINT_Handler or sTERM_Handler in the main thread
Signal ==
  /\ Running
  /\ keys > 0
  /\ keys' = keys - 1
  /\ signalled' = TRUE
  /\ \/ /\ main = "select"
        /\ main' = "kill"
        /\ UNCHANGED <<asleep, queueVars>>
     \/ /\ "main" \in asleep /\ Len(queue) = BUFFER_SIZE
        /\ main' = "kill"
        /\ asleep' = asleep \ {"main"}
        /\ Fifo!FailAdd
     \/ /\ main # "select"
        /\ ~ ("main" \in asleep /\ Len(queue) = BUFFER_SIZE)
        /\ UNCHANGED <<main, asleep, queueVars>>
  /\ UNCHANGED <<writer, readed_frames, ready, udp, tcp, typed, closed, net>>

-----------------------------------------------------------------------------

MainStep ==
  \/ Connected \/ SelectReturns \/ SelectSleeps \/ Receive \/ NoDatagram
  \/ AddSleeps \/ Adds \/ Added \/ ReadTcp \/ ReadStdin \/ KillWriter
  \/ Dispose
WriterStep ==
  \/ OpenDsp \/ StartTake \/ TakeSleeps \/ Takes \/ Taken \/ WriteDsp
Environment == FrameArrives \/ ServerCloses \/ Type \/ Signal

Next == MainStep \/ WriterStep \/ ProcessExits \/ Environment

Spec == Init /\ [][Next]_vars

\* Both threads are scheduled; nothing has to arrive.
FairSpec == Spec /\ WF_vars(MainStep) /\ WF_vars(WriterStep)

-----------------------------------------------------------------------------
(* Properties *)

TypeOK ==
  /\ main \in MainPlace /\ writer \in WriterPlace
  /\ asleep \subseteq Thread
  /\ signalled \in BOOLEAN
  /\ readed_frames \in 0 .. MaxFrames
  /\ ready \subseteq {"udp", "tcp", "stdin"}
  /\ udp \in 0 .. MaxFrames /\ tcp \in {0, 1}
  /\ typed \in BOOLEAN /\ closed \in BOOLEAN
  /\ net \in 0 .. MaxFrames /\ keys \in 0 .. MaxSignals
  /\ queue \in Seq(Frame) /\ Len(queue) <= BUFFER_SIZE

\* The queue and its semaphores are not freed while a call of either thread is
\* using them.
NoUseAfterDispose == main = "done" => addSt = "out" /\ takeSt = "out"

\* The main thread only ever sleeps on a full queue when the other thread is
\* past its threshold: the two do not wait for each other.
ThresholdReached ==
  "main" \in asleep => (readed_frames >= Threshold)

\* The queue never holds more than its places and no datagram is counted twice
\* or received where there is none; the two threads do not wait for each other.
Safe == TypeOK /\ ThresholdReached

\* A frame that was received gets into the queue, or a signal ends the wait, or
\* there is nobody to take frames any more.
FrameAccepted ==
  (addSt = "called") ~> (addSt # "called" \/ writer \in {"ended", "exit"})

Ended == main \in {"done", "exit"}
OutOfLoop == main \in {"kill", "join"} \/ Ended

\* When the server closes the connection the main thread leaves its loop,
\* unless a signal that it has not seen has ended the other thread.
ServerGoneNoticed == closed ~> (OutOfLoop \/ signalled)

\* The shutdown comes to its end if there is a frame left to play: the thread
\* takes it and then looks at signals_stat.
ShutdownWithFrames ==
  (main = "join" /\ readed_frames >= Threshold /\ queue # << >>) ~> Ended

\* The shutdown always comes to its end: pthread_join returns.
ShutdownEnds == (main = "join") ~> Ended
=============================================================================
