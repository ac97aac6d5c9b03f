----------------------------- MODULE AudioServer -----------------------------
(***************************************************************************)
(* The processes of the server of tp_04_03: the parent (main of            *)
(* servidor/main.c), which starts audio_listener and forks a child for     *)
(* each connection, its list of children (childs.c, array.c), the signals  *)
(* SIGCHLD and SIGINT or SIGTERM, and the shutdown.                        *)
(*                                                                         *)
(* createChild enters the address of the variable newChild of main in the  *)
(* list, every time the same one: all entries have the pid of the child    *)
(* that was created last, and the list is the number of its entries.       *)
(*                                                                         *)
(* main does not initialise the struct sigaction it passes to sigaction:   *)
(* whether a system call that a signal interrupts is restarted (SA_RESTART)*)
(* depends on what the stack held.                                         *)
(*                                                                         *)
(* thread_FiltradoDSP, which main creates before its loop, masks no signal:*)
(* a handler runs in main or in that thread, chldHandler in both at once.  *)
(* In the filter it neither stops main nor interrupts its accept.  The     *)
(* thread may end at a request to stop; then every signal is main's, as it *)
(* is here in the behaviours that never choose the filter.                 *)
(***************************************************************************)
EXTENDS Integers, FiniteSets

CONSTANTS
  MaxPid,  \* bound: the children are 1 .. MaxPid, in the order of creation
  MaxStop  \* bound: how many times the user asks the server to stop

ASSUME BoundsAssumption == MaxPid \in Nat \ {0} /\ MaxStop \in Nat

VARIABLES
  parent,        \* where main is
  handler,       \* where chldHandler is in each thread
  got,           \* what wait returned in each thread, until it is stored
  signals_stat, chld_pid,
  entries,       \* the length of childList
  newPid,        \* newChild.pid
  proc,          \* the state of each child
  sigchld,       \* SIGCHLD is pending for the parent
  told,          \* the children that have been sent SIGINT
  stops,         \* how many times the user may still ask
  restart        \* sa_flags has SA_RESTART

listVars == <<entries, newPid>>
vars == <<parent, handler, got, signals_stat, chld_pid, listVars, proc, sigchld,
          told, stops, restart>>

Pid == 1 .. MaxPid
Thread == {"main", "filter"}
Phase == {"out", "entered", "wait", "store"}

\* Outside of its loop main is closing down, has ended, or is lost: fork failed
\* and it goes on as if it were the child.
Place == {"loop", "accept", "forked", "isChld", "delete", "isInt", "close",
          "killed", "done", "lost"}

\* The listener has been created and entered.
Init ==
  /\ parent = "loop"
  /\ handler = [t \in Thread |-> "out"] /\ got = [t \in Thread |-> 0]
  /\ signals_stat = "none" /\ chld_pid = 0
  /\ entries = 1 /\ newPid = 1
  /\ proc = [p \in Pid |-> IF p = 1 THEN "runs" ELSE "none"]
  /\ sigchld = FALSE /\ told = {}
  /\ stops = MaxStop
  /\ restart \in BOOLEAN

-----------------------------------------------------------------------------
(* Faulty variants, one for each property that must be able to fail.  No
   specification uses them. *)

\* removing the first entry loses the rest of the list
RestLost(pid) == IF pid = newPid THEN 0 ELSE entries

\* the entry is found and not removed
EntriesKept(pid) == entries

\* the handler waits for every child that has ended
ReapedAll(p) == [q \in Pid |-> IF proc[q] = "zombie" THEN "gone" ELSE proc[q]]

-----------------------------------------------------------------------------
(* The list *)

\* array_AddAtEnd, array_Create
AddChild_entry == entries' = entries + 1

\* The pid is found in the first entry or in none.
Found(pid) == pid = newPid

EntriesLeft(pid) == IF Found(pid) THEN entries - 1 ELSE entries

\* DeleteChildEntry, array_RemoveAndDestroy at the index of the entry
DeleteChildEntry(pid) == entries' = EntriesLeft(pid)

-----------------------------------------------------------------------------
(* main.  A handler runs in between its steps. *)

Accept ==
  /\ parent = "loop"
  /\ parent' = "accept"
  /\ UNCHANGED <<handler, got, signals_stat, chld_pid, listVars, proc, sigchld,
                 told, stops, restart>>

\* A connection: fork, and newChild->pid = _pid
Connection ==
  /\ parent = "accept"
  /\ newPid < MaxPid
  /\ newPid' = newPid + 1
  /\ proc' = [proc EXCEPT ![newPid'] = "runs"]
  /\ parent' = "forked"
  /\ UNCHANGED <<handler, got, signals_stat, chld_pid, entries, sigchld, told,
                 stops, restart>>

\* fork returns -1, which createChild takes for the child's 0: the parent runs
\* childFunc and exits.
ForkFails ==
  /\ parent = "accept"
  /\ parent' = "lost"
  /\ UNCHANGED <<handler, got, signals_stat, chld_pid, listVars, proc, sigchld,
                 told, stops, restart>>

AddEntry ==
  /\ parent = "forked"
  /\ AddChild_entry
  /\ parent' = "loop"
  /\ UNCHANGED <<handler, got, signals_stat, chld_pid, newPid, proc, sigchld, told,
                 stops, restart>>

\* accept has returned EINTR: signals_stat is tested twice
IsSigchld ==
  /\ parent = "isChld"
  /\ parent' = IF signals_stat = "chld" THEN "delete" ELSE "isInt"
  /\ UNCHANGED <<handler, got, signals_stat, chld_pid, listVars, proc, sigchld,
                 told, stops, restart>>

Delete ==
  /\ parent = "delete"
  /\ DeleteChildEntry(chld_pid)
  /\ parent' = "isInt"
  /\ UNCHANGED <<handler, got, signals_stat, chld_pid, newPid, proc, sigchld, told,
                 stops, restart>>

IsSigint ==
  /\ parent = "isInt"
  /\ parent' = IF signals_stat = "int" THEN "close" ELSE "loop"
  /\ UNCHANGED <<handler, got, signals_stat, chld_pid, listVars, proc, sigchld,
                 told, stops, restart>>

\* The loop of the shutdown: kill the first child of the list, delete it; when
\* the list is empty, IPC_RMID, shmdt, close.
KillFirst ==
  /\ parent = "close"
  /\ entries > 0
  /\ told' = IF proc[newPid] = "runs" THEN told \cup {newPid} ELSE told
  /\ parent' = "killed"
  /\ UNCHANGED <<handler, got, signals_stat, chld_pid, listVars, proc, sigchld,
                 stops, restart>>

DeleteFirst ==
  /\ parent = "killed"
  /\ DeleteChildEntry(newPid)
  /\ parent' = "close"
  /\ UNCHANGED <<handler, got, signals_stat, chld_pid, newPid, proc, sigchld, told,
                 stops, restart>>

Finish ==
  /\ parent = "close"
  /\ entries = 0
  /\ parent' = "done"
  /\ UNCHANGED <<handler, got, signals_stat, chld_pid, listVars, proc, sigchld,
                 told, stops, restart>>

-----------------------------------------------------------------------------
(* Signals *)

\* Where main is after a handler, if the handler interrupts what it was doing.
Interrupted(p) == IF p = "accept" /\ ~ restart THEN "isChld" ELSE p

\* A thread takes SIGCHLD and enters chldHandler; until the handler returns the
\* signal is blocked in that thread, not in the other one.
HandlerStarts(t) ==
  /\ sigchld /\ handler[t] = "out" /\ parent # "done"
  /\ sigchld' = FALSE
  /\ handler' = [handler EXCEPT ![t] = "entered"]
  /\ UNCHANGED <<parent, got, signals_stat, chld_pid, listVars, proc, told, stops,
                 restart>>

\* signals_stat = SIGCHLD
HandlerNotes(t) ==
  /\ handler[t] = "entered" /\ parent # "done"
  /\ signals_stat' = "chld"
  /\ handler' = [handler EXCEPT ![t] = "wait"]
  /\ UNCHANGED <<parent, got, chld_pid, listVars, proc, sigchld, told, stops,
                 restart>>

\* wait reaps one child
Reaped(p) == [proc EXCEPT ![p] = "gone"]

\* wait finds any child that has ended; as long as there is none it blocks.
HandlerWaits(t, p) ==
  /\ handler[t] = "wait" /\ parent # "done"
  /\ proc[p] = "zombie"
  /\ proc' = Reaped(p)
  /\ got' = [got EXCEPT ![t] = p]
  /\ handler' = [handler EXCEPT ![t] = "store"]
  /\ UNCHANGED <<parent, signals_stat, chld_pid, listVars, sigchld, told, stops,
                 restart>>

\* chld_pid gets the pid, and the handler returns.
HandlerReturns(t) ==
  /\ handler[t] = "store" /\ parent # "done"
  /\ chld_pid' = got[t]
  /\ got' = [got EXCEPT ![t] = 0]
  /\ handler' = [handler EXCEPT ![t] = "out"]
  /\ parent' = IF t = "main" THEN Interrupted(parent) ELSE parent
  /\ UNCHANGED <<signals_stat, listVars, proc, sigchld, told, stops, restart>>

\* sINT_Handler or sTERM_Handler in either thread, in main possibly on top of
\* chldHandler.  Control-C reaches the children as well.
Stop(t) ==
  /\ stops > 0 /\ parent # "done"
  /\ stops' = stops - 1
  /\ signals_stat' = "int"
  /\ parent' = IF t = "main" /\ handler[t] = "out" THEN Interrupted(parent) ELSE parent
  /\ \/ UNCHANGED told
     \/ told' = told \cup {p \in Pid : proc[p] = "runs"}
  /\ UNCHANGED <<handler, got, chld_pid, listVars, proc, sigchld, restart>>

\* A child ends: its client has gone, it got SIGINT, or it failed.
ChildExits(p) ==
  /\ proc[p] = "runs"
  /\ proc' = [proc EXCEPT ![p] = "zombie"]
  /\ sigchld' = TRUE
  /\ UNCHANGED <<parent, handler, got, signals_stat, chld_pid, listVars, told,
                 stops, restart>>

-----------------------------------------------------------------------------

\* main does not go on while the handler runs in its own thread
Main ==
  /\ handler["main"] = "out"
  /\ \/ Accept \/ AddEntry \/ IsSigchld \/ Delete \/ IsSigint
     \/ KillFirst \/ DeleteFirst \/ Finish

Arrival == handler["main"] = "out" /\ (Connection \/ ForkFails)

Handler(t) ==
  \/ HandlerStarts(t) \/ HandlerNotes(t) \/ HandlerReturns(t)
  \/ \E p \in Pid : HandlerWaits(t, p)

Next ==
  \/ Main \/ Arrival
  \/ \E t \in Thread : Handler(t) \/ Stop(t)
  \/ \E p \in Pid : ChildExits(p)

Spec == Init /\ [][Next]_vars

\* Both threads are scheduled and pending signals are delivered; nobody has to
\* connect, to stop the server, or to end.
FairSpec == Spec /\ WF_vars(Main) /\ \A t \in Thread : WF_vars(Handler(t))

-----------------------------------------------------------------------------
(* Properties *)

TypeOK ==
  /\ parent \in Place
  /\ handler \in [Thread -> Phase] /\ got \in [Thread -> 0 .. MaxPid]
  /\ signals_stat \in {"none", "int", "chld"} /\ chld_pid \in 0 .. MaxPid
  /\ entries \in 0 .. MaxPid /\ newPid \in Pid
  /\ proc \in [Pid -> {"none", "runs", "zombie", "gone"}]
  /\ sigchld \in BOOLEAN /\ told \subseteq Pid
  /\ stops \in 0 .. MaxStop /\ restart \in BOOLEAN

\* DeleteChildEntry dereferences the first entry: it is never called with an
\* empty list, though the pid it is given may not be that of any entry.
NeverEmptyDelete == parent = "delete" => entries > 0

\* The list of children and what the parent knows of them stay together: there is
\* no deletion without an entry, and never more entries than children.
Safe == TypeOK /\ NeverEmptyDelete

Zombies == {p \in Pid : proc[p] = "zombie"}

\* The calls of wait to come for the signals that have come: that of each thread
\* in chldHandler, and one if SIGCHLD is pending.
Waiting(t) == IF handler[t] \in {"entered", "wait"} THEN 1 ELSE 0
Pending == IF sigchld THEN 1 ELSE 0
WaitsToCome == Waiting("main") + Waiting("filter") + Pending

\* The wait in chldHandler never blocks, though the handler may run in main and in
\* the filter at once and the two compete for the children: there is always one
\* to reap for each call, even if several ended and their signals were merged.
WaitNeverBlocks == WaitsToCome <= Cardinality(Zombies)

\* A request to stop that interrupts accept ends the server, unless a SIGCHLD
\* overwrites it in signals_stat, from whatever thread, before main has seen it;
\* and a shutdown that has begun ends, whatever signals come.
ShutdownEnds ==
  /\ parent \in {"isChld", "isInt"} /\ signals_stat = "int"
       ~> parent = "done" \/ signals_stat = "chld"
  /\ parent = "close" ~> parent = "done"

\* When the server has closed down, every child that still runs was told to end.
AllChildrenTold ==
  parent = "done" => \A p \in Pid : proc[p] = "runs" => p \in told
=============================================================================
