-------------------------- MODULE AudioServerProofs --------------------------
(***************************************************************************)
(* Proofs about AudioServer, for any number of children and of requests to *)
(* stop.                                                                   *)
(***************************************************************************)
EXTENDS AudioServer, FiniteSetTheorems, TLAPS

\* The children that run, and the places of main where it has not begun to close
\* down.
Running == {p \in Pid : proc[p] = "runs"}
Serving == parent \in {"loop", "accept", "forked", "isChld", "delete", "isInt"}

\* A child that was created and is not entered yet; the handlers that have still to
\* write signals_stat; and a call of DeleteChildEntry that main is bound to make, or
\* would make if it looked at signals_stat now.
Unentered == IF parent = "forked" THEN 1 ELSE 0
Entered(t) == IF handler[t] = "entered" THEN 1 ELSE 0
Owed ==
  IF \/ parent = "delete"
     \/ parent = "isChld" /\ signals_stat = "chld"
     \/ parent = "accept" /\ handler["main"] \in {"wait", "store"} /\ signals_stat = "chld"
  THEN 1 ELSE 0

\* Why the list is never searched when it is empty: a call of DeleteChildEntry takes
\* a SIGCHLD that was written to signals_stat, in whatever thread, and a SIGCHLD takes
\* a child that ended.  The list has an entry for each child that runs, each SIGCHLD
\* that is pending or not yet written, and the call to come.
Dues == Cardinality(Running) + Pending + Entered("main") + Entered("filter") + Owed
EnoughEntries == Serving => entries + Unentered >= Dues

\* No more entries than children.
EntriesBounded == entries + Unentered <= newPid

\* Children are created in the order of their pids.
InOrder == \A p \in Pid : proc[p] # "none" => p <= newPid

\* The shutdown deletes the entry it has read.
FirstThere == parent = "killed" => entries > 0

IInv ==
  /\ TypeOK /\ EnoughEntries /\ EntriesBounded /\ WaitNeverBlocks /\ InOrder
  /\ FirstThere

LEMMA PidFinite == IsFiniteSet(Pid)
  BY FS_Interval, BoundsAssumption DEF Pid

\* The numbers that are compared are natural numbers.
LEMMA Counts ==
  ASSUME IInv
  PROVE  /\ IsFiniteSet(Running) /\ Cardinality(Running) \in Nat
         /\ IsFiniteSet(Zombies) /\ Cardinality(Zombies) \in Nat
         /\ Pending \in {0, 1} /\ Unentered \in {0, 1} /\ Owed \in {0, 1}
         /\ \A t \in Thread : Entered(t) \in {0, 1} /\ Waiting(t) \in {0, 1}
         /\ entries \in Nat /\ newPid \in Nat
<1>1. Running \in SUBSET Pid /\ Zombies \in SUBSET Pid
  BY DEF Running, Zombies
<1>2. /\ IsFiniteSet(Running) /\ Cardinality(Running) \in Nat
      /\ IsFiniteSet(Zombies) /\ Cardinality(Zombies) \in Nat
  BY <1>1, PidFinite, FS_Subset, FS_CardinalityType
<1>3. Pending \in {0, 1} /\ Unentered \in {0, 1} /\ Owed \in {0, 1}
  BY DEF Pending, Unentered, Owed
<1>4. \A t \in Thread : Entered(t) \in {0, 1} /\ Waiting(t) \in {0, 1}
  BY DEF Entered, Waiting
<1>5. entries \in Nat /\ newPid \in Nat
  BY BoundsAssumption DEF IInv, TypeOK, Pid
<1> QED
  BY <1>2, <1>3, <1>4, <1>5

LEMMA Initially == Init => IInv
<1> SUFFICES ASSUME Init PROVE IInv
  OBVIOUS
<1>1. 1 \in Pid
  BY BoundsAssumption DEF Pid
<1>2. TypeOK
  <2>1. proc \in [Pid -> {"none", "runs", "zombie", "gone"}]
    BY DEF Init
  <2>2. sigchld \in BOOLEAN /\ restart \in BOOLEAN
    BY Zenon DEF Init
  <2>3. entries \in 0 .. MaxPid /\ chld_pid \in 0 .. MaxPid /\ stops \in 0 .. MaxStop
    BY BoundsAssumption DEF Init
  <2>4. handler \in [Thread -> Phase] /\ got \in [Thread -> 0 .. MaxPid]
    BY BoundsAssumption DEF Init, Phase
  <2> QED
    BY <1>1, <2>1, <2>2, <2>3, <2>4 DEF Init, TypeOK, Place
<1>3. Running = {1} /\ Zombies = {}
  BY <1>1 DEF Init, Running, Zombies
<1>4. Cardinality(Running) = 1 /\ Cardinality(Zombies) = 0
  BY <1>3, FS_Singleton, FS_EmptySet
<1>5. /\ Pending = 0 /\ Unentered = 0 /\ Owed = 0
      /\ Entered("main") = 0 /\ Entered("filter") = 0
      /\ Waiting("main") = 0 /\ Waiting("filter") = 0
  BY DEF Init, Pending, Unentered, Owed, Entered, Waiting, Thread
<1>6. EnoughEntries /\ EntriesBounded /\ WaitNeverBlocks
  BY <1>4, <1>5 DEF Init, EnoughEntries, Dues, EntriesBounded, WaitNeverBlocks,
                    WaitsToCome
<1> QED
  BY <1>2, <1>6 DEF Init, IInv, InOrder, FirstThere

\* A step that changes neither the children nor the list keeps the invariant if it
\* moves no more to the dues than it takes from them.
LEMMA DuesMove ==
  ASSUME IInv, TypeOK', UNCHANGED <<proc, entries, newPid>>,
         Unentered' = Unentered \/ ~ Serving', Serving' => Serving,
         Unentered' <= Unentered,
         Serving' => (Pending + Entered("main") + Entered("filter") + Owed)'
                       <= Pending + Entered("main") + Entered("filter") + Owed,
         WaitsToCome' <= WaitsToCome,
         parent' = "killed" => entries > 0
  PROVE  IInv'
<1>1. Running' = Running /\ Zombies' = Zombies
  BY DEF Running, Zombies
<1>2. /\ Cardinality(Running)' = Cardinality(Running)
      /\ Cardinality(Zombies)' = Cardinality(Zombies)
  BY <1>1
<1>3. /\ Pending \in {0, 1} /\ Pending' \in {0, 1} /\ Owed \in {0, 1} /\ Owed' \in {0, 1}
      /\ Unentered \in {0, 1} /\ Unentered' \in {0, 1}
      /\ Entered("main") \in {0, 1} /\ Entered("main")' \in {0, 1}
      /\ Entered("filter") \in {0, 1} /\ Entered("filter")' \in {0, 1}
      /\ Waiting("main") \in {0, 1} /\ Waiting("main")' \in {0, 1}
      /\ Waiting("filter") \in {0, 1} /\ Waiting("filter")' \in {0, 1}
  BY DEF Pending, Owed, Unentered, Entered, Waiting
<1>4. EnoughEntries'
  BY <1>2, <1>3, Counts DEF IInv, EnoughEntries, Dues
<1>5. WaitNeverBlocks'
  BY <1>2, <1>3, Counts DEF IInv, WaitNeverBlocks, WaitsToCome
<1>6. EntriesBounded'
  BY <1>3, Counts DEF IInv, EntriesBounded
<1>7. InOrder' /\ FirstThere'
  BY DEF IInv, InOrder, FirstThere
<1> QED
  BY <1>4, <1>5, <1>6, <1>7 DEF IInv

\* The steps of main that leave the list and the children alone.
LEMMA QuietSteps ==
  ASSUME IInv,
         \/ /\ handler["main"] = "out"
            /\ \/ Accept \/ ForkFails \/ IsSigchld \/ IsSigint \/ KillFirst \/ Finish
         \/ UNCHANGED vars
  PROVE  IInv'
<1>1. UNCHANGED <<proc, handler, got, sigchld, signals_stat, entries, newPid>>
  BY DEF Accept, ForkFails, IsSigchld, IsSigint, KillFirst, Finish, vars, listVars
<1>2. TypeOK'
  BY <1>1 DEF IInv, TypeOK, Place, Accept, ForkFails, IsSigchld, IsSigint,
              KillFirst, Finish, vars, Pid, listVars
<1>3. /\ Pending' = Pending /\ WaitsToCome' = WaitsToCome
      /\ Entered("main")' = Entered("main") /\ Entered("filter")' = Entered("filter")
  BY <1>1 DEF Pending, WaitsToCome, Waiting, Entered
<1>4. /\ Serving' => Serving
      /\ Unentered' = Unentered \/ (~ Serving' /\ Unentered' = 0)
      /\ Serving' => Owed' <= Owed
      /\ parent' = "killed" => entries > 0
  BY <1>1 DEF IInv, TypeOK, FirstThere, Serving, Unentered, Owed, Accept, ForkFails,
              IsSigchld, IsSigint, KillFirst, Finish, vars, listVars
<1>5. /\ Serving' => (Pending + Entered("main") + Entered("filter") + Owed)'
                       <= Pending + Entered("main") + Entered("filter") + Owed
      /\ Unentered' <= Unentered /\ WaitsToCome' <= WaitsToCome
  <2>1. /\ Pending \in {0, 1} /\ Owed \in {0, 1} /\ Owed' \in {0, 1}
        /\ Entered("main") \in {0, 1} /\ Entered("filter") \in {0, 1}
        /\ Unentered \in {0, 1} /\ WaitsToCome \in Nat
    BY DEF Pending, Owed, Unentered, Entered, WaitsToCome, Waiting
  <2> QED
    BY <1>3, <1>4, <2>1
<1> QED
  BY <1>1, <1>2, <1>4, <1>5, DuesMove

\* A connection makes a child, and an entry that is still to come.
LEMMA ConnectionStep ==
  ASSUME IInv, Connection, handler["main"] = "out"
  PROVE  IInv'
<1> DEFINE new == newPid + 1
<1>1. new \in Pid /\ newPid \in Pid /\ newPid' = new
  BY BoundsAssumption DEF IInv, TypeOK, Connection, Pid
<1>2. TypeOK'
  BY <1>1 DEF IInv, TypeOK, Connection, Place
<1>3. Running' = Running \cup {new}
  BY <1>1 DEF IInv, TypeOK, Running, Connection
<1>4. Cardinality(Running)' <= Cardinality(Running) + 1 /\ Cardinality(Running)' \in Nat
  BY <1>3, Counts, FS_AddElement, FS_CardinalityType
<1>5. Zombies' = Zombies
  <2>1. proc[new] = "none"
    BY <1>1 DEF IInv, TypeOK, InOrder, Pid
  <2> QED
    BY <1>1, <2>1 DEF IInv, TypeOK, Zombies, Connection
<1>6. Cardinality(Zombies)' = Cardinality(Zombies)
  BY <1>5
<1>7. /\ Pending' = Pending /\ WaitsToCome' = WaitsToCome
      /\ Entered("main")' = Entered("main") /\ Entered("filter")' = Entered("filter")
      /\ entries' = entries /\ Serving /\ Unentered = 0 /\ Unentered' = 1
      /\ Owed = 0 /\ Owed' = 0 /\ parent' # "killed"
  BY DEF Connection, Pending, WaitsToCome, Waiting, Entered, Serving, Unentered, Owed
<1>8. EnoughEntries'
  <2>1. "main" \in Thread /\ "filter" \in Thread
    BY DEF Thread
  <2> HIDE DEF new
  <2> QED
    BY <1>4, <1>7, <2>1, Counts DEF IInv, EnoughEntries, Dues
<1>9. EntriesBounded'
  BY <1>1, <1>7, Counts DEF IInv, EntriesBounded
<1>10. InOrder' /\ FirstThere'
  BY <1>1, <1>7 DEF IInv, TypeOK, InOrder, FirstThere, Connection, Pid
<1> QED
  BY <1>2, <1>6, <1>7, <1>8, <1>9, <1>10 DEF IInv, WaitNeverBlocks

\* The steps of main that change the list.
LEMMA ListSteps ==
  ASSUME IInv, handler["main"] = "out", AddEntry \/ Delete \/ DeleteFirst
  PROVE  IInv'
<1>1. UNCHANGED <<proc, handler, got, sigchld, signals_stat, newPid>>
  BY DEF AddEntry, Delete, DeleteFirst
<1>2. /\ Pending' = Pending /\ WaitsToCome' = WaitsToCome
      /\ Entered("main")' = Entered("main") /\ Entered("filter")' = Entered("filter")
      /\ Cardinality(Running)' = Cardinality(Running)
      /\ Cardinality(Zombies)' = Cardinality(Zombies)
  BY <1>1 DEF Pending, WaitsToCome, Waiting, Entered, Running, Zombies
<1>3. "main" \in Thread /\ "filter" \in Thread
  BY DEF Thread
<1>4. CASE AddEntry
  <2>1. /\ entries' = entries + 1 /\ Unentered = 1 /\ Unentered' = 0
        /\ Serving /\ Owed = 0 /\ Owed' = 0 /\ parent' # "killed"
    BY <1>4 DEF AddEntry, AddChild_entry, Unentered, Serving, Owed
  <2>2. EntriesBounded' /\ EnoughEntries'
    BY <1>1, <1>2, <1>3, <2>1, Counts DEF IInv, EntriesBounded, EnoughEntries, Dues
  <2>3. entries' \in 0 .. MaxPid
    BY <2>1, BoundsAssumption DEF IInv, TypeOK, EntriesBounded, Pid
  <2>4. TypeOK'
    BY <1>1, <1>4, <2>3 DEF IInv, TypeOK, Place, AddEntry, Pid
  <2> QED
    BY <1>1, <1>2, <2>1, <2>2, <2>4 DEF IInv, WaitNeverBlocks, InOrder, FirstThere
<1>5. CASE Delete
  <2>1. /\ entries' = entries \/ entries' = entries - 1
        /\ Unentered = 0 /\ Unentered' = 0 /\ Serving /\ Owed = 1 /\ Owed' = 0
        /\ parent' # "killed"
    BY <1>5 DEF Delete, DeleteChildEntry, EntriesLeft, Unentered, Serving, Owed
  <2>2. entries >= Cardinality(Running) + Pending + Entered("main") + Entered("filter") + 1
    BY <1>3, <2>1, Counts DEF IInv, EnoughEntries, Dues
  <2>3. EntriesBounded' /\ EnoughEntries'
    BY <1>1, <1>2, <1>3, <2>1, <2>2, Counts DEF IInv, EntriesBounded, EnoughEntries, Dues
  <2>4. entries > 0
    BY <1>3, <2>2, Counts
  <2>5. entries' \in 0 .. MaxPid
    BY <2>1, <2>4, BoundsAssumption DEF IInv, TypeOK
  <2>6. TypeOK'
    BY <1>1, <1>5, <2>5 DEF IInv, TypeOK, Place, Delete, Pid
  <2> QED
    BY <1>1, <1>2, <2>1, <2>3, <2>6 DEF IInv, WaitNeverBlocks, InOrder, FirstThere
<1>6. CASE DeleteFirst
  <2>1. /\ entries > 0 /\ entries' = entries - 1
        /\ Unentered = 0 /\ Unentered' = 0 /\ ~ Serving' /\ parent' # "killed"
    BY <1>6 DEF DeleteFirst, DeleteChildEntry, EntriesLeft, Found, Unentered, Serving,
                IInv, FirstThere
  <2>2. EntriesBounded' /\ EnoughEntries'
    BY <1>1, <2>1, Counts DEF IInv, EntriesBounded, EnoughEntries
  <2>3. entries' \in 0 .. MaxPid
    BY <2>1, BoundsAssumption DEF IInv, TypeOK
  <2>4. TypeOK'
    BY <1>1, <1>6, <2>3 DEF IInv, TypeOK, Place, DeleteFirst, Pid
  <2> QED
    BY <1>1, <1>2, <2>1, <2>2, <2>4 DEF IInv, WaitNeverBlocks, InOrder, FirstThere
<1> QED
  BY <1>4, <1>5, <1>6

\* What a step of a handler does to the counts of the two threads: the other thread
\* stays where it is.
LEMMA OtherThread ==
  ASSUME IInv, NEW t \in Thread, NEW ph \in Phase, handler' = [handler EXCEPT ![t] = ph]
  PROVE  /\ handler' \in [Thread -> Phase] /\ handler'[t] = ph
         /\ \A u \in Thread \ {t} : handler'[u] = handler[u]
  BY DEF IInv, TypeOK

\* The handler starts, in either thread: the signal is no longer pending.
LEMMA HandlerStartsStep ==
  ASSUME IInv, NEW t \in Thread, HandlerStarts(t)
  PROVE  IInv'
<1>1. /\ UNCHANGED <<proc, parent, entries, newPid, signals_stat>>
      /\ sigchld /\ ~ sigchld' /\ handler[t] = "out"
      /\ handler' = [handler EXCEPT ![t] = "entered"]
  BY DEF HandlerStarts, listVars
<1>2. /\ handler' \in [Thread -> Phase] /\ handler'[t] = "entered"
      /\ \A u \in Thread \ {t} : handler'[u] = handler[u]
  BY <1>1, OtherThread DEF Phase
<1>3. TypeOK'
  <2>1. sigchld' \in BOOLEAN
    BY Zenon DEF HandlerStarts
  <2> QED
    BY <1>2, <2>1 DEF HandlerStarts, listVars, IInv, TypeOK
<1>4. /\ Entered("main") + Entered("filter") = Entered("main")' + Entered("filter")' - 1
      /\ Waiting("main") + Waiting("filter") = Waiting("main")' + Waiting("filter")' - 1
      /\ Pending = 1 /\ Pending' = 0
  BY <1>1, <1>2 DEF Thread, Entered, Waiting, Pending
<1>5. Serving' = Serving /\ Unentered' = Unentered /\ Owed' = Owed
  BY <1>1, <1>2 DEF Serving, Unentered, Owed, Thread
<1>6. /\ (Pending + Entered("main") + Entered("filter") + Owed)'
            <= Pending + Entered("main") + Entered("filter") + Owed
      /\ WaitsToCome' <= WaitsToCome /\ Unentered' <= Unentered
  <2>1. /\ Owed \in {0, 1} /\ Unentered \in {0, 1}
        /\ Entered("main") \in {0, 1} /\ Entered("filter") \in {0, 1}
        /\ Entered("main")' \in {0, 1} /\ Entered("filter")' \in {0, 1}
        /\ Waiting("main") \in {0, 1} /\ Waiting("filter") \in {0, 1}
        /\ Waiting("main")' \in {0, 1} /\ Waiting("filter")' \in {0, 1}
    BY DEF Owed, Unentered, Entered, Waiting
  <2> QED
    BY <1>4, <1>5, <2>1 DEF WaitsToCome
<1> QED
  BY <1>1, <1>3, <1>5, <1>6, DuesMove DEF IInv, FirstThere

\* The handler writes signals_stat: main may owe the list one call for it.
LEMMA HandlerNotesStep ==
  ASSUME IInv, NEW t \in Thread, HandlerNotes(t)
  PROVE  IInv'
<1>1. /\ UNCHANGED <<proc, parent, entries, newPid, sigchld>>
      /\ handler[t] = "entered" /\ signals_stat' = "chld"
      /\ handler' = [handler EXCEPT ![t] = "wait"]
  BY DEF HandlerNotes, listVars
<1>2. /\ handler' \in [Thread -> Phase] /\ handler'[t] = "wait"
      /\ \A u \in Thread \ {t} : handler'[u] = handler[u]
  BY <1>1, OtherThread DEF Phase
<1>3. TypeOK'
  BY <1>2 DEF HandlerNotes, listVars, IInv, TypeOK
<1>4. /\ Entered("main") + Entered("filter") = Entered("main")' + Entered("filter")' + 1
      /\ Waiting("main")' = Waiting("main") /\ Waiting("filter")' = Waiting("filter")
      /\ Pending' = Pending
  BY <1>1, <1>2 DEF Thread, Entered, Waiting, Pending
<1>5. Serving' = Serving /\ Unentered' = Unentered
  BY <1>1 DEF Serving, Unentered
<1>6. /\ (Pending + Entered("main") + Entered("filter") + Owed)'
            <= Pending + Entered("main") + Entered("filter") + Owed
      /\ WaitsToCome' <= WaitsToCome /\ Unentered' <= Unentered
  <2>1. /\ Owed \in {0, 1} /\ Owed' \in {0, 1} /\ Unentered \in {0, 1} /\ Pending \in {0, 1}
        /\ Entered("main") \in {0, 1} /\ Entered("filter") \in {0, 1}
        /\ Entered("main")' \in {0, 1} /\ Entered("filter")' \in {0, 1}
        /\ Waiting("main") \in {0, 1} /\ Waiting("filter") \in {0, 1}
    BY DEF Owed, Unentered, Entered, Waiting, Pending
  <2> QED
    BY <1>4, <1>5, <2>1 DEF WaitsToCome
<1> QED
  BY <1>1, <1>3, <1>5, <1>6, DuesMove DEF IInv, FirstThere

\* wait takes one child and one of the calls to come.
LEMMA HandlerWaitsStep ==
  ASSUME IInv, NEW t \in Thread, NEW p \in Pid, HandlerWaits(t, p)
  PROVE  IInv'
<1>1. /\ UNCHANGED <<parent, entries, newPid, signals_stat, sigchld>>
      /\ handler[t] = "wait" /\ proc[p] = "zombie"
      /\ proc' = [proc EXCEPT ![p] = "gone"]
      /\ handler' = [handler EXCEPT ![t] = "store"]
  BY DEF HandlerWaits, Reaped, listVars
<1>2. /\ handler' \in [Thread -> Phase] /\ handler'[t] = "store"
      /\ \A u \in Thread \ {t} : handler'[u] = handler[u]
  BY <1>1, OtherThread DEF Phase
<1>3. TypeOK'
  <2>1. proc' \in [Pid -> {"none", "runs", "zombie", "gone"}]
    BY <1>1 DEF IInv, TypeOK
  <2>2. p \in 0 .. MaxPid
    BY BoundsAssumption DEF Pid
  <2>3. got' \in [Thread -> 0 .. MaxPid]
    BY <2>2 DEF HandlerWaits, IInv, TypeOK
  <2> QED
    BY <1>1, <1>2, <2>1, <2>3 DEF HandlerWaits, IInv, TypeOK, listVars
<1>4. Zombies' = Zombies \ {p} /\ p \in Zombies /\ Running' = Running
  BY <1>1 DEF IInv, TypeOK, Zombies, Running
<1>5. /\ Cardinality(Zombies)' = Cardinality(Zombies) - 1
      /\ Cardinality(Running)' = Cardinality(Running)
  BY <1>4, Counts, FS_RemoveElement
<1>6. /\ Entered("main")' = Entered("main") /\ Entered("filter")' = Entered("filter")
      /\ Waiting("main") + Waiting("filter") = Waiting("main")' + Waiting("filter")' + 1
      /\ Pending' = Pending
  BY <1>1, <1>2 DEF Thread, Entered, Waiting, Pending
<1>7. Serving' = Serving /\ Unentered' = Unentered /\ Owed' = Owed
  BY <1>1, <1>2 DEF Serving, Unentered, Owed, Thread
<1>8. EnoughEntries' /\ EntriesBounded' /\ FirstThere'
  BY <1>1, <1>5, <1>6, <1>7 DEF IInv, EnoughEntries, Dues, EntriesBounded, FirstThere
<1>9. WaitNeverBlocks'
  <2>1. /\ Waiting("main") \in {0, 1} /\ Waiting("filter") \in {0, 1} /\ Pending \in {0, 1}
        /\ Waiting("main")' \in {0, 1} /\ Waiting("filter")' \in {0, 1}
    BY DEF Waiting, Pending
  <2> QED
    BY <1>5, <1>6, <2>1, Counts DEF IInv, WaitNeverBlocks, WaitsToCome
<1>10. InOrder'
  BY <1>1 DEF IInv, TypeOK, InOrder
<1> QED
  BY <1>3, <1>8, <1>9, <1>10 DEF IInv

\* The handler returns; in main it may interrupt accept, and what was owed since it
\* wrote signals_stat is owed still.
LEMMA HandlerReturnsStep ==
  ASSUME IInv, NEW t \in Thread, HandlerReturns(t)
  PROVE  IInv'
<1>1. /\ UNCHANGED <<proc, entries, newPid, signals_stat, sigchld>>
      /\ handler[t] = "store"
      /\ handler' = [handler EXCEPT ![t] = "out"]
      /\ \/ parent' = parent
         \/ t = "main" /\ parent = "accept" /\ parent' = "isChld"
  BY DEF HandlerReturns, Interrupted, listVars
<1>2. /\ handler' \in [Thread -> Phase] /\ handler'[t] = "out"
      /\ \A u \in Thread \ {t} : handler'[u] = handler[u]
  BY <1>1, OtherThread DEF Phase
<1>3. TypeOK'
  <2>1. got[t] \in 0 .. MaxPid /\ 0 \in 0 .. MaxPid
    BY BoundsAssumption DEF IInv, TypeOK
  <2>2. got' \in [Thread -> 0 .. MaxPid] /\ chld_pid' \in 0 .. MaxPid
    BY <2>1 DEF HandlerReturns, IInv, TypeOK
  <2>3. parent' \in Place
    BY <1>1 DEF IInv, TypeOK, Place
  <2> QED
    BY <1>1, <1>2, <2>2, <2>3 DEF HandlerReturns, IInv, TypeOK, listVars
<1>4. /\ Entered("main")' = Entered("main") /\ Entered("filter")' = Entered("filter")
      /\ Waiting("main")' = Waiting("main") /\ Waiting("filter")' = Waiting("filter")
      /\ Pending' = Pending
  BY <1>1, <1>2 DEF Thread, Entered, Waiting, Pending
<1>5. /\ Serving' = Serving /\ Unentered' = Unentered /\ Owed' \in {0, Owed}
      /\ parent' = "killed" => parent = "killed"
  BY <1>1, <1>2 DEF Serving, Unentered, Owed, Thread
<1>6. /\ (Pending + Entered("main") + Entered("filter") + Owed)'
            <= Pending + Entered("main") + Entered("filter") + Owed
      /\ WaitsToCome' <= WaitsToCome /\ Unentered' <= Unentered
  <2>1. /\ Owed \in {0, 1} /\ Unentered \in {0, 1} /\ Pending \in {0, 1}
        /\ Entered("main") \in {0, 1} /\ Entered("filter") \in {0, 1}
        /\ Waiting("main") \in {0, 1} /\ Waiting("filter") \in {0, 1}
    BY DEF Owed, Unentered, Entered, Waiting, Pending
  <2> QED
    BY <1>4, <1>5, <2>1 DEF WaitsToCome
<1> QED
  BY <1>1, <1>3, <1>5, <1>6, DuesMove DEF IInv, FirstThere

\* A request to stop, in either thread: signals_stat is no longer SIGCHLD, and no more
\* is owed than before.
LEMMA StopStep ==
  ASSUME IInv, NEW t \in Thread, Stop(t)
  PROVE  IInv'
<1>1. /\ UNCHANGED <<proc, entries, newPid, handler, got, sigchld>>
      /\ signals_stat' = "int"
      /\ parent' = parent \/ (parent = "accept" /\ parent' = "isChld")
  BY DEF Stop, Interrupted, listVars
<1>2. TypeOK'
  <2>1. told' \subseteq Pid
    BY DEF Stop, IInv, TypeOK
  <2>2. stops' \in 0 .. MaxStop
    BY BoundsAssumption DEF Stop, IInv, TypeOK
  <2>3. parent' \in Place
    BY <1>1 DEF IInv, TypeOK, Place
  <2> QED
    BY <1>1, <2>1, <2>2, <2>3 DEF Stop, IInv, TypeOK, Pid
<1>3. /\ Entered("main")' = Entered("main") /\ Entered("filter")' = Entered("filter")
      /\ WaitsToCome' = WaitsToCome /\ Pending' = Pending
  BY <1>1 DEF Entered, WaitsToCome, Waiting, Pending
<1>4. /\ Serving' = Serving /\ Unentered' = Unentered /\ Owed' \in {0, Owed}
      /\ parent' = "killed" => parent = "killed"
  BY <1>1 DEF Serving, Unentered, Owed
<1>5. /\ (Pending + Entered("main") + Entered("filter") + Owed)'
            <= Pending + Entered("main") + Entered("filter") + Owed
      /\ WaitsToCome' <= WaitsToCome /\ Unentered' <= Unentered
  <2>1. /\ Owed \in {0, 1} /\ Unentered \in {0, 1} /\ Pending \in {0, 1}
        /\ Entered("main") \in {0, 1} /\ Entered("filter") \in {0, 1} /\ WaitsToCome \in Nat
    BY DEF Owed, Unentered, Entered, Pending, WaitsToCome, Waiting
  <2> QED
    BY <1>3, <1>4, <2>1
<1> QED
  BY <1>1, <1>2, <1>4, <1>5, DuesMove DEF IInv, FirstThere

\* A child ends: one that runs less, a zombie more, and SIGCHLD, which may have been
\* pending before.
LEMMA ChildExitsStep ==
  ASSUME IInv, NEW p \in Pid, ChildExits(p)
  PROVE  IInv'
<1>1. /\ UNCHANGED <<entries, newPid, handler, got, parent, signals_stat>>
      /\ sigchld' /\ proc[p] = "runs"
      /\ proc' = [proc EXCEPT ![p] = "zombie"]
  BY DEF ChildExits, listVars
<1>2. TypeOK'
  <2>1. proc' \in [Pid -> {"none", "runs", "zombie", "gone"}]
    BY <1>1 DEF IInv, TypeOK
  <2> QED
    BY <1>1, <2>1 DEF ChildExits, IInv, TypeOK, listVars
<1>3. /\ Running' = Running \ {p} /\ p \in Running
      /\ Zombies' = Zombies \cup {p} /\ p \notin Zombies
  BY <1>1 DEF IInv, TypeOK, Running, Zombies
<1>4. /\ Cardinality(Running)' = Cardinality(Running) - 1
      /\ Cardinality(Zombies)' = Cardinality(Zombies) + 1
  BY <1>3, Counts, FS_RemoveElement, FS_AddElement
<1>5. /\ Entered("main")' = Entered("main") /\ Entered("filter")' = Entered("filter")
      /\ Waiting("main")' = Waiting("main") /\ Waiting("filter")' = Waiting("filter")
      /\ Pending' = 1 /\ Serving' = Serving /\ Unentered' = Unentered /\ Owed' = Owed
  BY <1>1 DEF Entered, Waiting, Pending, Serving, Unentered, Owed
<1>6. "main" \in Thread /\ "filter" \in Thread
  BY DEF Thread
<1>7. EnoughEntries'
  BY <1>1, <1>4, <1>5, <1>6, Counts DEF IInv, EnoughEntries, Dues
<1>8. WaitNeverBlocks'
  BY <1>4, <1>5, <1>6, Counts DEF IInv, WaitNeverBlocks, WaitsToCome
<1>9. EntriesBounded' /\ FirstThere' /\ InOrder'
  BY <1>1, <1>5 DEF IInv, TypeOK, EntriesBounded, FirstThere, InOrder
<1> QED
  BY <1>2, <1>7, <1>8, <1>9 DEF IInv

LEMMA Inductive == IInv /\ [Next]_vars => IInv'
<1> SUFFICES ASSUME IInv, [Next]_vars PROVE IInv'
  OBVIOUS
<1>1. CASE Main
  BY <1>1, QuietSteps, ListSteps DEF Main
<1>2. CASE Arrival
  BY <1>2, QuietSteps, ConnectionStep DEF Arrival
<1>3. CASE \E t \in Thread : Handler(t)
  BY <1>3, HandlerStartsStep, HandlerNotesStep, HandlerWaitsStep, HandlerReturnsStep
  DEF Handler
<1>4. CASE \E t \in Thread : Stop(t)
  BY <1>4, StopStep
<1>5. CASE \E p \in Pid : ChildExits(p)
  BY <1>5, ChildExitsStep
<1>6. CASE UNCHANGED vars
  BY <1>6, QuietSteps
<1> QED
  BY <1>1, <1>2, <1>3, <1>4, <1>5, <1>6 DEF Next

\* main.c and childs.c keep the invariant above whatever happens.
THEOREM Invariance == Spec => []IInv
  BY Initially, Inductive, PTL DEF Spec

\* For any number of children, the parent's variables stay in their types and
\* DeleteChildEntry (childs.c) is never called with an empty list, in whatever thread
\* the handlers run.
THEOREM Safety == Spec => []Safe
<1>1. ASSUME IInv, parent = "delete" PROVE entries > 0
  <2>1. Serving /\ Owed = 1 /\ Unentered = 0
    BY <1>1 DEF Serving, Owed, Unentered
  <2>2. "main" \in Thread /\ "filter" \in Thread
    BY DEF Thread
  <2> QED
    BY <1>1, <2>1, <2>2, Counts DEF IInv, EnoughEntries, Dues
<1>2. IInv => Safe
  BY <1>1 DEF NeverEmptyDelete, Safe, IInv
<1> QED BY <1>2, Invariance, PTL

\* There is a child to reap for each wait of chldHandler (servidor/main.c), though it
\* may run in main and in thread_FiltradoDSP at once.
THEOREM NeverBlocks == Spec => []WaitNeverBlocks
<1>1. IInv => WaitNeverBlocks
  BY DEF IInv
<1> QED BY <1>1, Invariance, PTL
=============================================================================
