# Verification of the TDIII practical works (tp_01_01 … tp_04_03)

The repository holds the practical works of the course *Técnicas Digitales III* (UTN-FRBA, 2014):
fifteen stages of a 64-bit microkernel in assembly (`src/tp_01_*`), five POSIX programs about
processes, signals, pipes, threads and `poll` (`src/tp_02_*`), two versions of an audio
capture/playback pair over System V IPC (`src/tp_03_*`) and three stages of an audio streaming
client and server (`src/tp_04_*`). The exercises are stated in `src/guia_tp_2014.pdf` ("the guide").

This directory holds TLA+ models of the parts where concurrency decides whether the program is right,
the TLC configurations that check them on small instances, and proofs, checked by TLAPS, that hold for
every value of the constants. The source is the reference; the guide and the comments are only quoted
where the code disagrees with them.

1. [The system](#1-the-system) — inventory
2. [Modules](#2-modules) — what models what
3. [Runs](#3-runs) — what is checked, bounds, what it shows
4. [Fairness](#4-fairness)
5. [Proofs](#5-proofs)
6. [Where the code does something else](#6-where-the-code-does-something-else)
7. [Not modelled, and only model-checked](#7-not-modelled-and-only-model-checked)
8. [Plan](#8-plan)

## 1. The system

### 1.1 The kernel, `tp_01_15` (and its earlier stages)

Each `tp_01_NN` contains all of the previous one and something more: protected mode (01), GDT (02), paging
(03), PAE (04), 64 bits (05), exceptions (06), hardware interrupts (07), debugging and page faults (08, 09),
privilege levels (10), task switching (11), paging per task (12), the list scheduler and its keys (13), system
calls (14), SIMD tasks (15). `tp_01_15` is the one the models follow.

| component | state | operations | interacts with | what is hard | what makes it right |
|---|---|---|---|---|---|
| scheduler (`isr_int0_scheduler.asm`) | `Current_disp_Task`; per task `estado`, `currentTicks`, `prioridad_maxTicks`, `prioridad_orgTicks`, `sleepMS` | timer tick, choice of the next task | `mSleep` and the keys write the same fields | order of ticks, sleeps and keys | a sleeping task is not run; slices are respected; every runnable task gets the processor, soon |
| `mSleep` (`isr_svc.asm`, `utils_64.asm`) | `sleepMS`, `estado` | put the current task to sleep | calls the scheduler | a key or a removal in between | the sleep ends |
| task keys (`isr_keyboardHandler.asm`) | `variable_ctl_pressed`, `estado`, `prioridad_maxTicks` of A | add or remove a task, change A's priority | the scheduler | a key while the task it is about runs or sleeps | a removed task stays removed |
| SIMD context (`SwitchTo`, `ex7_NMHandler`) | `CR0.TS`, the registers, the save areas | save on switch, restore on first use | every task switch | a switch between the exception and the instruction | each task has registers of its own |
| general registers (`SwitchTo`) | registers, `task_struct`, kernel stacks, `TSS.RSP0`, `CR3` | save and restore, enter a task for the first time | interrupts, exceptions, `mSleep` | what each handler does not save; two ways into the switch that leave different stacks | a task finds its registers as it left them, and its kernel stack empty |
| page fault handler | next free frame, count of pages, tables | refuse or map one page | all accesses | nothing in `tp_01_15` reaches the mapping | the fault halts the machine |
| paging set-up, boot, tables, A20 | tables, control registers | run once | — | order of the steps | — |
| exceptions, debug display, text, clock, conversions | screen | print, halt | — | — | — |

All gates of the IDT are interrupt gates, so every handler runs with interrupts disabled: handlers are
atomic with respect to each other and interleave only with the instructions of tasks.

### 1.2 The streaming server and client, `tp_04_03`

A server process captures audio, filters it and sends it to any number of clients. It consists of

- the **parent** (`servidor/main.c`), which starts the listener, runs the filtering thread, accepts TCP
  connections and forks a child for each; it keeps the list of children (`childs.c`, `array.c`);
- **`audio_listener`**, a process that reads `/dev/dsp` into one of two slots of a shared memory;
- **`thread_FiltradoDSP`**, which filters the other slot into the entry `SBE_P` (`audio_filter.c`);
- one **child** per client (`childFunc`), which sends `SBE_P` by UDP and watches the TCP connection.

The last three are kept apart by four semaphores used as gates (0 open, 1 shut) with `SETVAL` and a wait
for zero. The **client** (`cliente/main.c`) has a main thread that waits in `select` for frames, the
connection and the keyboard, a thread that plays the frames, and the bounded queue between them
(`static_queue.c`) with two counting semaphores. Both programs stop on SIGINT and SIGTERM.

| component | state | operations | interacts with | what is hard | what makes it right |
|---|---|---|---|---|---|
| queue `static_queue` | places, two indices, two semaphores | add, take | both threads of the client, signals | copies without a lock, interrupted `semop` | it is a bounded FIFO of whole entries |
| client | `readed_frames`, `signals_stat`, threads, queue | select, receive, play, shut down | server (UDP, TCP), user, signals | a signal at any instant, the threshold before playing, `pthread_join` | no use after free, no mutual waiting, the end is reached |
| streaming | slots, `iCapture`, `SBE_P`, four gates, `last_ts` | capture, filter, send | three kinds of process | the order of opening and shutting gates | whole frames, each once, in order, nobody left behind |
| server processes | list of children, `signals_stat`, `chld_pid` | accept, fork, reap, kill | children, SIGCHLD, SIGINT | handlers in main and in the filter thread at once, merged or overwritten signals, aliases in the list, failed `fork` | the list is never searched when it is empty, no handler blocks, all are told to end |
| audio filter | coefficients, two channels | FIR, saturating addition | — | the end of the buffer, the width of the accumulator | the convolution |

### 1.3 The other programs

| program | what it does | what is hard | what makes it right |
|---|---|---|---|
| `tp_02_01` | keeps *n* children alive | `alive_childs` is changed by the loop and by the SIGCHLD handler; merged signals | never more than *n*; a `wait` that finds a child; a count that goes wrong in no other way |
| `tp_02_02` | creates and destroys children on SIGUSR1/SIGUSR2 | the first element is freed under the list's head; a flag is cleared after the work | the list is the children that run; a request is served |
| `tp_02_03` | a writer and a reader on a pipe | word boundaries in a byte stream; the word END; interrupted calls | words shown whole and in order while the reader keeps up; END ends both |
| `tp_02_04` | two threads search an array from both ends | cancelling a thread that may not exist yet; bounds | what is said is so; somebody says it |
| `tp_02_05` | `poll` on a FIFO and the keyboard | the end of the buffer | — |
| `tp_03_01` | capture and playback processes, places in shared memory, a ring between two threads | indices that one side resets for the other, a ring without a lock, `SEM_UNDO` | no place lost or shared; frames in order; all arrive |
| `tp_03_02` | the same with a queue between the threads | places of the queue that overlap | a frame alone in the queue is whole |
| `tp_04_01`, `tp_04_02` | a TCP server that serves one after the other; one that forks | children are never reaped, one descriptor leaks per connection | one server for each connection; each client gets the message, as far as there are descriptors |

The hazards, each with its line and the property about it, are in `PROJECT.json`.

## 2. Modules

```
PrivateRegisters <-- refined by -- LazyFpu <-- extended by -- TaskContext   (MCTaskContext; TaskContextProofs)
TaskScheduler    <-- extended by - FairShare          (MCTaskScheduler, MCFairShare; TaskSchedulerProofs)
BoundedFifo      <-- refined by -- StaticQueue        (MCStaticQueue; StaticQueueProofs)
BoundedFifo      <-- composed in - AudioClient        (MCAudioClient; AudioClientProofs)
AudioStreamer                                         (MCAudioStreamer; AudioStreamerProofs)
AudioServer                                           (MCAudioServer; AudioServerProofs)
CaptureRing <-- extended by -- RingPlayer, QueuePlayer <-- both in -- AudioPair   (MCAudioPair; AudioPairProofs)
ChildKeeper, ChildList, PipeWords, TwoSearches, TcpServers, AudioFilter <-- instances in -- Exercises   (MCExercises; ExercisesProofs)
```

Each component module begins its definitions with a section *Faulty variants*: definitions with a plausible
mistake in them, which show that each property can fail. No specification uses them; `PROJECT.json`
("mutants") says which variant of which definition breaks which property. The map from definitions to lines
is also there. A component's `Safe` is its type invariant with the invariants that the others rest on:

| module | `Safe` is `TypeOK` and |
|---|---|
| StaticQueue | PlacesConserved (no place lost or invented), NoMutualWait (the threads never both sleep) |
| TaskScheduler | SleepersAsleep (no sleeping task runs, no sleep counts below zero) |
| LazyFpu | NoNullSave (never saved to the null area of a task without one) |
| AudioClient | ThresholdReached (below its threshold, the player never leaves main asleep on a full queue) |
| AudioStreamer | FilteredApart (a fast filter does not read the slot that is captured into) |
| AudioServer | NeverEmptyDelete (the list is not searched when it is empty) |
| AudioPair | UndoneToFirstRound (when child2 ends, child1 gets no more places than the first round had) |

**BoundedFifo** is what `static_queue.h` promises: a bounded FIFO with blocking calls that move one item and
return 0, or move nothing and return −1. A call is *called*, *granted*, *done* and *out*, so that it also says
what the other thread may see meanwhile.

**StaticQueue** models `fifo_addto_smph` and `fifo_take_smph` one `semop`, one word of `memcpy` and one index
update at a time. `elements`, `takeIndex`, `fillIndex` are the fields of `static_fifo_queue`; `semEmpty`,
`semFull` the semaphores. `AddInterrupted`/`TakeInterrupted` are the `semop` that a signal ends with EINTR.
The refinement of BoundedFifo maps the queue to the places from `takeIndex` on.

**AudioClient** composes the two threads of the client with an instance of BoundedFifo (`Fifo`), which
StaticQueue implements: that the abstract queue may stand for the code of `static_queue.c` is the theorem
`Implementation` of StaticQueueProofs. `main` and `writer` are the places of the main thread and of
`thread_escrituraDSP`; `signalled` is `signals_stat`, `asleep` the threads in a `semop` that waits.
The network (frames that arrive, the connection), the user and the signals are the environment.

**TaskScheduler** has one action per handler: `Tick` (`int0_TimerHandler` with `Sch_DormantTsk_Update`,
`Sch_main`, `Sch_switchTask`), `mSleep` (`Int80Han`), and one per key of `int9_keyboardHandler`. `removed` is a
history variable. **FairShare** adds the history `waited`, the ticks a runnable task has been waiting.

**PrivateRegisters** is what a task that uses SIMD may assume: registers of its own. **LazyFpu** is what the
kernel does: `SwitchTo` saves them if `CR0.TS` is clear, `ex7_NMHandler` restores them at the first
instruction. The refinement maps a task's registers to the processor's or to its area (`Seen`).

**TaskContext** extends LazyFpu by the general registers: `regs` is the processor's, `struct` the `task_struct` of
each task, `stack` the words on its kernel stack, `rsp0` is `TSS.RSP0`. Its actions are the timer within a slice
and at the end of one, `mSleep`, exception 7, and the instructions of tasks. `SwitchContext` is what the two
ways into `Sch_switchTask` share; `TimerWords` and `SleepWords` are what they leave on the stack. Which task is
chosen is open: any choice of TaskScheduler is among them. One register stands for those that are treated alike.

**AudioStreamer** has every `semctl`, `semop`, index update, and the beginning and the end of every copy of a
frame, for the listener, the filter and the children. A frame is the number of its capture, once for its
samples and once for its time stamp; samples of more than one capture are `Mixed`. A copy or a write of the
samples is two steps, so that any change meanwhile shows as `Mixed`. `fast` chooses, once for a behaviour,
whether filtering a frame always ends before the capture of the next one; `Old` is what an earlier run of the
server left in the shared memory.

**AudioServer** has the parent's loop, the two tests of `signals_stat` as separate steps, the handlers, the
children and the shutdown. `thread_FiltradoDSP` masks no signal, so that each handler runs in main or in that
thread, and `chldHandler` in both at once: `handler` says for each thread how far it is (entered, about to wait,
about to store the pid), and only a handler in main keeps main waiting and interrupts its `accept`. All entries of the list point to the variable `newChild` of `main`, so the list is
its length and one pid. `restart` is whether the uninitialised `sa_flags` has `SA_RESTART`.

**CaptureRing** is the half that `tp_03_01` and `tp_03_02` share: `main` creates the shared memory, the semaphores
(one `semctl` after the other, over whatever an earlier run left) and the processes; `child1` captures into the
places; `thread_lecturaSHM` takes from them. `waits` and `posts` are the sums that the kernel keeps for
`SEM_UNDO`: a `semop` fails with ERANGE when one of them is full, with EINTR when the sleeping process is stopped
and continued, and is not looked at. **RingPlayer** is the other half in `tp_03_01`, with `iToFill++` and its
reduction as two steps; **QueuePlayer** that in `tp_03_02`, with the memory of the queue cell by cell, since its
places overlap, and with `readed_frames` as the stack left it until the reader sets it to 0. **AudioPair** runs one of the two, up to the first `semop` that fails.

**ChildKeeper** (`tp_02_01`) has the load and the store of `alive_childs++` as two steps with the handler in between.
**ChildList** (`tp_02_02`) has both flags, the list, and whether its head was freed; from the use of the freed
element on the behaviour is undefined and not followed. `running` is the children that main has not killed: one that
somebody else kills is to main a signal like any other, which may interrupt its `scanf`. **PipeWords** (`tp_02_03`)
has the pipe and `cad` as bytes; letters are model values; `shown` is what Task2 shows after a read that returned
something, without the repetitions of `cad` after an interrupted read or at the end of the pipe. **TwoSearches** (`tp_02_04`) has deferred cancellation and `thd2` before it is set.
**TcpServers** is both servers of `tp_04_01` and `tp_04_02`, with descriptors and processes that run out.
**AudioFilter** is the arithmetic of `audio_filter.c` and of `SIMD_AudioFilter.asm`, with the widths of both, against
the exact sum. They are independent and small, so that **Exercises** puts them into one specification, one program in
each behaviour, for one run (MCExercises); its `KeeperSafe`, `ListSafe`, … are the modules' own `Safe`.

## 3. Runs

| run | module | checks | instance | states |
|---|---|---|---|---|
| `queue` | MCStaticQueue | Safe, NoSharedPlace, ImplementsFifo, CallsServed | 2 places, 2 words, 2 values | 39 680 |
| `sched` | MCFairShare | Safe, SlicesRespected, WaitBounded, EveryTaskRuns, RemovedStaysOut | 3 user tasks, all keys, sleeps of 1 and 5 | 44 240 |
| `sched_slice_overrun` | MCTaskScheduler | SliceWithinRange | key q | violated |
| `context` | MCTaskContext | Safe, ContextSafe, RegistersPrivate, RegistersKept | Idle, one that sleeps, two with SIMD | 75 501 |
| `client` | MCAudioClient | Safe, NoUseAfterDispose, FrameAccepted, ServerGoneNoticed, ShutdownWithFrames | queue of 8, 10 frames, 2 signals | 119 656 |
| `client_join` | MCAudioClient | ShutdownEnds | the same | violated |
| `streamer` | MCAudioStreamer | Safe, SentOnce, NothingStale, ChildEnds, NotLeftBehind | 1 client, 3 captures | 437 013 |
| `streamer_torn` | MCAudioStreamer | SentWhole | the same | violated |
| `server` | MCAudioServer | Safe, WaitNeverBlocks, ShutdownEnds | listener and 2 clients, 2 requests to stop | 210 538 |
| `server_close` | MCAudioServer | AllChildrenTold | the same | violated |
| `pair` | MCAudioPair | Safe, PlacesAccounted, NoSharedPlace, AloneIsWhole, TakenInOrder, PlayedInOrder, FramesArrive | 2 places, ring and queue of 3, 6 frames, sums up to 5 | 67 856 |
| `exercises` | MCExercises | KeeperSafe, ListSafe, WordsSafe, SearchesSafe, ServersSafe, FilterSafe, ProgramsProgress | see below | 39 881 |

What they show, and why the bounds are enough:

- **queue.** Two places make the indices wrap and let both threads be in different places at once, and the
  queue be empty, full and in between; two words with two values make a torn entry visible. Interrupted calls
  are always possible. Nothing is lost, duplicated, reordered or torn, and a call is served. The proofs remove
  the bounds. In particular a take hands out no garbage, which a comment in the client says it does: section 6.
- **sched.** Three user tasks: A (priority keys), one without keys, one that sleeps and has a key. Sleep times 1
  (wakes at the next tick) and 5 (longer than a slice); slices up to 3; the slice counter, a word in the code,
  wraps at 6 so that an overrun is reached. Each task waits less than a slice of each other task, runs in the
  end, and stays out when it was removed and does not sleep.
- **context.** Idle with its stack, a task that sleeps and uses general registers, one with both kinds of registers,
  one with SIMD registers only. Any task may be chosen at any time. Values are two: what the registers had at
  first and an address of the kernel, so that a register overwritten by a handler is seen.
- **client.** 10 frames are more than the queue (8) and the threshold (8), so it fills and drains. Two signals: one
  that starts the shutdown and one at any other instant. Main and player end in every way the code has.
- **streamer.** Children do not affect each other (they only read `SBE_P` and the gates), so one is enough. Three
  captures use both slots and one of them twice. `NotLeftBehind` relies on the last stamp being repeated:
  captures go on, only their numbers stop.
- **server.** With the listener and two clients the handler runs in both threads at once while the SIGCHLD of a third
  child is pending, or two ends are merged; a child ends while main is anywhere in its loop, and the list has
  entries of several children. Two requests to stop: the first may be overwritten by SIGCHLD. ShutdownEnds promises
  that a request which interrupts `accept` ends the server unless it is overwritten before main has tested it, and
  that a shutdown which has begun ends. (With three clients, 2 390 000 states, all of it holds as well.)
- **pair.** Six frames go three times round the two places, twice round the ring, and past the threshold of the queue;
  the sums of `SEM_UNDO`, 32767 in the kernel, are full before the last frame. Semaphores and indices start with
  anything an earlier run may have left. The ring is shown to go wrong in two ways only: a lap, and the
  glimpse of `iToFill` between its two stores; the queue by overlapping places only.
- **exercises.** `tp_02_01`: two children wanted, four there can be. `tp_02_02`: three children, so that the first, the
  middle and the last of the list are removed. `tp_02_03`: blocks of three bytes and words of one and two
  letters, one of which ends with END: every split of words over blocks, four words. `tp_02_04`: all arrays of
  three elements and of what lies behind them. Servers: three clients, two descriptors, four processes: both run
  out. Filter: samples of four bits with the extremes, frames of two samples per channel, two taps, all the
  frames over five values.

Deadlock is checked in `queue`, `sched` and `context`. The other systems really stop: clients, servers and exercises
end; in the streamer everybody waits for ever when the listener could not open the device; the bounds on frames,
words and children end the rest.

## 4. Fairness

- **StaticQueue**: the steps inside a call, and `TakeCall`, because `thread_escrituraDSP` calls again whatever
  the last call returned. `AddCall` is not fair (frames need not arrive), nor is any interruption.
- **FairShare**: the timer interrupts for ever. No key and no `mSleep` is fair.
- **AudioClient**: both threads are scheduled. Arrivals, the user and signals are not fair.
- **AudioStreamer**: all processes are scheduled (weak fairness of each one), the device goes on delivering
  samples (strong fairness of `Capture`: `read` does not fail for ever), `Hello` is not fair, since it waits for
  a datagram that may be lost. The properties about a child hold *or the listener has ended*; it can only end
  by failing to open the device.
- **AudioServer**: main and the filter thread are scheduled, and pending signals are delivered and their handlers
  finished (weak fairness of main, and of the handler in each thread). Connections, requests to stop and children
  that end are not fair.
- **AudioPair**: `main` until it waits for `exit`, `child1` with its device, and each of the two threads of `child2`
  are scheduled (weak fairness of each one). The stop of a process, its being refused a device and `exit` are
  not fair.
- **Exercises**: the processes, threads and handlers of each program are scheduled, and the user of `tp_02_02`
  answers once a question was asked. No child has to end, no signal has to come, no word has to be typed and no
  client to connect.

TaskContext has no liveness property; what is chosen and when is TaskScheduler's.

## 5. Proofs

No proof has an unproved leaf. Assumptions are those that the modules name (`NEntrysAssumption`,
`TasksAssumption`, `ValueAssumption`, `ContextAssumption`, `RingAssumption`, …): what `fifo_init` accepts, that
there is a task, that Idle neither sleeps nor computes, that priorities are positive and fit the counter, that
bounds are natural numbers.

**StaticQueueProofs.** `Invariance`, `Safety`, `Apart`, `Implementation`, for every number of places and every entry
length. The invariant needs, besides conservation of places, the distance between the two indices: the fill
index is the take index plus what is stored or being stored, modulo the number of places. That is what keeps
the two copies apart when they run at once. For `Implementation` each step is mapped to a step of BoundedFifo or
to a stutter; the finished part of a copy is part of the invariant (what has been copied equals the source).

**TaskSchedulerProofs.** `Safety` and `Slices` for any number of tasks, priorities, sleep times and keys. The point is
that the search for the next task always ends, since Idle is always runnable, and that it ends at the nearest
runnable one. `Bounded` (WaitBounded): while a task t waits the processor goes round from t to the current task
c; the invariant is that t has waited at most `Share(t, c)`, the slices of the tasks between them, and what c has
used of its own. A switch goes to a task nearer to c than t is, so that it adds at least the slice of c to the
share (`ShareMoves`); the whole share is never more than the slices of all others (`ShareLimited`). Ticks during
which A overruns do not count, as in the property. `StaysOut` (RemovedStaysOut): a removed task that has not
slept since is READY, which neither ticks nor other tasks change.

**TaskContextProofs.** First LazyFpu by itself, for any tasks and values (`Safety`, `Implementation`). The invariant: if
`CR0.TS` is clear the current task uses SIMD. With it each `SwitchTo` leaves what each task sees unchanged. Then each
step of TaskContext is one of LazyFpu or leaves its variables alone, from which `SimdSafety` and `SimdPrivate` follow.
`Stacks` and `Kept` need to know how each task without the processor left it: it is fresh, or its stack has the eight
words of the timer, or the seven of `mSleep`; its stack pointer is below the top by as many; and `TSS.RSP0` is at the
top of the stack of the current task or, after `mSleep`, one word above it, from where the alignment of the
processor's frame brings it back.

**AudioClientProofs.** `DisposedLast` and `Safety` for a queue of any size from 8 places on, any number of frames and
signals. `Safety` counts datagrams: what was counted is in the queue, in the player's hands or played. Below
the threshold the player has taken nothing, so that the queue holds every frame that was counted; the threshold
fits into the queue; hence main is not asleep on a full queue below it.

**AudioStreamerProofs.** `Safety`, `Once`, `OfThisRun` for any clients and any number of captures. The invariant says
which stamps the slots may have: gate 1 is open only between a capture and the next; the slot before `iCapture`
has the newest frame but for the instant between the stamp and `iCapture++`; `SBE_P` is never newer than the slot
that the filter will look into, from the moment it passes gate 1, however many captures pass it meanwhile; and it
is of this run whenever gate 3 lets a child through. Hence stamps in `SBE_P` never go back, and a child's `last_ts`
is at least what it sent, although it is read after sending.

**AudioServerProofs.** `Safety` and `NeverBlocks` for any number of children. That the list is not empty when it is
searched follows from counting. Each call of `DeleteChildEntry` in the loop needs a SIGCHLD that some thread wrote to
`signals_stat` before the test, and each SIGCHLD a child that ended: while the server is serving, the entries and a
child not entered yet are at least the children that run, the SIGCHLD that is pending, the handlers that have not
written `signals_stat` yet, and the call of `DeleteChildEntry` that main owes (`Dues`). `NeverBlocks` is
inductive once the threads are counted apart: a SIGCHLD that comes is for a child that has just become a zombie, one
that is taken moves its wait from the pending signal to a thread, and a wait takes one zombie and one wait away. So
the waits to come are never more than the zombies, whichever thread gets which child.

**AudioPairProofs.** For any number of places and frames, any size of the ring and of the queue, both programs, and any
values the semaphores and indices had.

- `Accounted`, `Apart`, `Ordered`: `iCapture` is `iRead` plus the places that are announced or held, modulo N, from the
  reset by `child1` on; the places from `iRead` on hold the frames from the next one to be taken on, in order; and
  before the reset nothing has been announced.
- `Safety` (UndoneToFirstRound): what a process has waited for and not posted is in its hands; `free` is N less the
  waits of `child1` plus the posts of `child2` or, once `child2` has ended and the kernel has undone its posts, what
  `child1` has not used of the first N places.
- `Played` (PlayedInOrder): while nothing was lapped or glimpsed, the slots from `iToRead` on hold the frames that follow
  the last one played, and the two indices are as far apart as there are frames between them, or one turn less.
- `Entire` (AloneIsWhole): the cells of the frame that was added last are its own until those of the next one come into
  them; the number of frames from the one whose turn it is to the one added last is what the semaphore says; and as
  long as nothing disturbs it, the player's place holds the frame it takes and `sample` as much of it as was copied.

**ExercisesProofs.** One theorem for each of the six programs, each from an invariant of its own; a step of one leaves
the variables of the others alone.

- `Kept` (`tp_02_01`): `alive_childs`, and one while a child was forked and is not counted, is at least the children
  that run and one for a SIGCHLD that is pending, and exactly that until a decrement is lost or two ends merge; and
  there are as many zombies as signals pending and the one that the handler is about to wait for, or more.
- `Listed` (`tp_02_02`): until the first element is freed the list is increasing and its pids are the children that run
  and were not dismissed; while main kills, those that run are the dismissed and the ones it has still to kill; the
  element that a step removes is the one it looked up.
- `Shown` (`tp_02_03`): while Task2 keeps up, what it has shown is a prefix of what was written; if it has shown all, the
  pipe is empty, and if all but one, the pipe holds that word; the last word shown is what `cad` holds; and Task2
  ends only with END, after which nothing is written.
- `Searched` (`tp_02_04`): what a thread has passed is not its number, so that one that has passed all says the truth;
  and a thread is cancelled only by one that has found its number.
- `ServedOnce` (`tp_04_01`, `tp_04_02`): a connection waits at most once and, once accepted, no more; two children do not
  hold the same one; and what the server holds is no child's until it has forked.
- `Unchanged` (the filter): AudioDSP returns its frame whatever follows the channels in memory; the C version has the
  exact sum after each tap as long as all of them are samples (`ExactWhereItFits`), and the sum cut off on its side
  as long as the products have one sign (`CutOff`), since a sum that has reached the limit cannot come back. It needs
  the coefficient 1 to be a sample, which FilterAssumption says.

What a recursive function returns for every input is proved without an induction theorem of the library: `Upward` in
ExercisesProofs gets induction up to n from the least element of a set of numbers (`WFMin`), `Recursion` that a
recursive definition has a value from `Upward`.

## 6. Where the code does something else

| run | what happens | against |
|---|---|---|
| `sched_slice_overrun` | key q lowers A's slice to what it has already used; the test for equality is missed and A runs until its 16-bit counter wraps | the guide, p. 16, 1.13 e) |
| `client_join` | below the threshold the player never looks at `signals_stat`: `pthread_join` waits for ever; so it does if the signal comes just before the player sleeps on an empty queue | the comment at `cliente/main.c:242` |
| `streamer_torn` | gate 2 is opened before gate 3 is shut: a child passes both and sends a frame that is being rewritten | the guide, p. 21, 3.1, and the comment at `audio_listener/main.c:109` |
| `server_close` | all entries of the list are one record: only the child created last is told to end | the message at `servidor/main.c:179`, the guide, p. 22 |

One comment says more than the code does. At `cliente/main.c:305`, at the take in the player, there is *"FIXME no deberia
fallar el desencolado y levantar datos basura por un par de ciclos"* (the dequeue should not fail and pick up garbage
for a couple of cycles). `ImplementsFifo`, checked in `queue` and proved, says that it does not: a take that returns 0
has a whole entry that was added, one that returns −1 leaves `sample` alone, and the player does not write it. The
comment has no date, but the line it would fit is still there: `static_queue.c` once computed a place as `elements +
takeIndex` and `elements + fillIndex`, without `entry_size`, in bytes; the two lines are comments now (91 and 142),
and in `tp_03_02` (`static_queue.c:92` and `:133`) they are the code, where the places overlap and frames do come out
mixed (AloneIsWhole says what is left). Two things the player can still see are not the queue's: a frame whose
`readed_blocks` is not full because the server captured or sent it so (a short `read` of the device, or the torn
frame of `streamer_torn`), which the test at line 306 rejects; and two clients in one directory, which share a pair
of semaphores (section 7).

Things that the models contain and that a property states as its exception:

- a task removed while it runs that calls `mSleep` before its slice ends is put back when it wakes (RemovedStaysOut);
  that its key ends a sleep early is in the model too, and no property is about the length of a sleep;
- a SIGCHLD that comes between the EINTR of `accept` and main's test, in main or in the filter, overwrites the
  request to stop in `signals_stat`, and the server goes on (ShutdownEnds);
- each tick changes `rcx` of the interrupted task, exception 7 its `rbx`, `mSleep` its `rax` and `rbx`
  (RegistersKept); `SwitchCompleted` takes the stack of `mSleep` for one word longer than it is (ContextSafe);
- the ring of `tp_03_01` loses a lap of frames when it is full, and its reader may see an index past the end (PlayedInOrder);
  places of the queue of `tp_03_02` overlap, and a frame is played whole only if it was alone (AloneIsWhole);
  after 32767 frames `SEM_UNDO` lets every `semop` fail, and from then on nothing is kept apart (all of `pair`);
- `tp_02_01` loses a decrement and merges signals, after which fewer children run (CountExact, Replenishes);
  `tp_02_02` uses the first element after it is freed, forgets a signal that comes while it serves one, and cannot
  destroy a single child, which ignores SIGINT (ListExact, RequestServed, OnlyDismissedSurvive); `tp_02_03` loses
  words, END among them, when the reader lags (ShownInOrder, EndsWithEnd); in `tp_02_04` the second thread looks
  one past the end and never at the first element (AbsentIsAbsent) and `pthread_cancel` may get a thread that does
  not exist (Terminates); the server of `tp_04_02` ends when it has used its descriptors and processes up
  (Served, LeakEnds);
- the C filter wraps products and saturates sums, the assembly wraps the result (VersionsAgree).

Things seen while modelling that no property is about: a signal that reaches the client while main is not asleep
ends only the player; with SA_RESTART in the uninitialised `sa_flags` the server does not stop; a failed `fork` turns
the parent into a child; frame 0 is never sent; key w at its limit clears the default priority; service 0 of `int 80` falls
through into `mSleep` (`isr_svc.asm:78`).

## 7. Not modelled, and only model-checked

Every safety invariant, every action property and both refinements that the passing runs check are proved. Only
model-checked is what needs fairness or `~>`, which are not in the prover's reach: CallsServed (queue), EveryTaskRuns
(sched), FrameAccepted, ServerGoneNoticed and ShutdownWithFrames (client), ChildEnds and NotLeftBehind (streamer),
ShutdownEnds (server), FramesArrive (pair) and ProgramsProgress (exercises).

Left out of modelled components: the contents of frames (the client, the streamer and the pair tell only whether
they are whole and in order); failures of calls during set-up, which end the process before anything interacts; the
errors that only print (`write` to the device, `sendto`); the signals of the streamer's processes (their shutdown is
AudioServer's and AudioClient's); `totalTicks`, which only `jiffies` reads, `CR3` and the segment registers, constants
of each task; in AudioServer the capture and the sending, the end of the filter thread (the behaviours in which it
runs no handler are among the modelled ones), the bits of `sa_flags` other than SA_RESTART and `sa_mask`, which
are taken as clear though the stack sets them, and children that are stopped or continued: that sends SIGCHLD
too, and `wait`, which finds no child to reap, then does block until one ends, here and in `tp_02_01` and `tp_02_02`;
in StaticQueue and AudioClient a second client in the same directory, which gets the same semaphores
(`cliente/main.c:55-59`: `ftok(".",112)`, `semget` without IPC_EXCL), sets them back in `fifo_init` and removes them
at its end; in AudioPair what follows the first `semop` that fails; in
`tp_02_02` what follows the use of freed memory, and text where a number is asked for; in `tp_02_03` words longer than
`cad` and a full pipe; in the TCP servers the errors of `socket`, `bind` and `listen` and clients that go away.
`static_queue.c` of `tp_03_01` is compiled and not called; so are the filter and the second queue of `tp_03_02`. The
programs of `tp_02` are taken to be built as their makefiles say (`tp_02_01` has none), without optimisation: flags that are not
`volatile` are read again.

Not modelled:

- *boot, descriptor tables, paging set-up*: straight-line code that runs once, before interrupts are enabled; what it
  leaves is the initial state of TaskScheduler and TaskContext;
- *the page fault handler*: nothing reaches its mapping: faults of tasks halt, ctl+3 reads an address beyond the
  gigabyte it handles and halts, and the code that would use it is commented out (`main.asm:650`);
- *system calls other than `mSleep`*: they return a value or print, which is an instruction of TaskContext;
- *text, clock, conversion, debug display*: output;
- *the kernels 01 to 14*: 15 contains them; the schedulers of 12 and 13 are that of 15 without `mSleep`, 14 is 15
  without SIMD registers, 11 turns three tasks in a fixed order;
- *`tp_02_05`*: one process with no state from one round of its loop to the next.

## 8. Plan

Done: all modules of section 2, their runs, and the theorems of section 5. What is left, in this order:

1. **Composition**: that AudioClient with StaticQueue in the place of BoundedFifo is AudioClient; that TaskScheduler's
   choice of the next task is one of TaskContext's, with the two checked together.
2. AudioStreamer with the signals of its processes, composed with AudioServer: what a child does that is told to end
   while it sleeps at a gate.
3. Larger instances of `pair`: three places, and `child1` and `child2` started by hand in any order.
