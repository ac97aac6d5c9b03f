------------------------------ MODULE Exercises ------------------------------
(***************************************************************************)
(* The programs of tp_02 and the servers and the filter of tp_04 that are  *)
(* small enough to be checked together.  They have nothing to do with each *)
(* other: a behaviour is a run of one of them, and program says which.     *)
(* The state of the others does not matter and stays as it is.             *)
(***************************************************************************)
EXTENDS Integers, Sequences, FiniteSets

CONSTANTS
  Child, n_childs,                            \* of ChildKeeper
  MaxPid,                                     \* of ChildList
  Letter, Word, END, Zero, Unset, Block, MaxWords,  \* of PipeWords
  ARRAY_SIZE,                                 \* of TwoSearches
  Client, Nobody, FdMax, ProcMax, Backlog,    \* of TcpServers
  Half, SAMPLE_N, FILTER_SIZE,                \* of AudioFilter
  InputSample, InputTap, InputBeyond  \* the samples, taps and memory to begin with

ASSUME KeeperAssumption == IsFiniteSet(Child) /\ n_childs \in Nat
ASSUME ListAssumption == MaxPid \in Nat
\* %s reads no zero, and a word with its zero fits cad
ASSUME WordsAssumption ==
  /\ Word \subseteq Seq(Letter) /\ END \in Seq(Letter) /\ Unset \in Letter
  /\ Zero \notin Letter
  /\ Block \in Nat \ {0, 1} /\ MaxWords \in Nat
  /\ \A w \in Word \cup {END} : Len(w) < Block
ASSUME SearchesAssumption == ARRAY_SIZE \in Nat \ {0}
ASSUME ServersAssumption ==
  /\ Nobody \notin Client
  /\ FdMax \in Nat \ {0} /\ ProcMax \in Nat /\ Backlog \in Nat
\* The filter reads FILTER_SIZE - 1 samples past the channel; the coefficient 1 is a
\* sample.
ASSUME FilterAssumption ==
  /\ Half \in Nat \ {0, 1} /\ SAMPLE_N \in Nat \ {0} /\ FILTER_SIZE \in Nat \ {0}
  /\ InputSample \subseteq -Half .. Half - 1 /\ InputTap \subseteq -Half .. Half - 1
  /\ InputBeyond \subseteq [1 .. FILTER_SIZE - 1 -> -Half .. Half - 1]

VARIABLES
  program,
  alive_childs, parent, register, handler, proc, pending, uncounted,
  createChildsFlag, destroyChildsFlag, listParent, todo, childList, headFreed,
  arEl, running, born, dismissed,
  task1, cad1, pipe, task2, cad2, written, shown, behind,
  numeros, at, thread, cancelled, told, main,
  forks, client, backlog, server, conn, fds, child,
  input, taps, beyond, output

keeper   == <<alive_childs, parent, register, handler, proc, pending, uncounted>>
list     == <<createChildsFlag, destroyChildsFlag, listParent, todo, childList,
              headFreed, arEl, running, born, dismissed>>
words    == <<task1, cad1, pipe, task2, cad2, written, shown, behind>>
searches == <<numeros, at, thread, cancelled, told, main>>
servers  == <<forks, client, backlog, server, conn, fds, child>>
filter   == <<input, taps, beyond, output>>
vars     == <<program, keeper, list, words, searches, servers, filter>>

\* the coefficients of the source
Identity == [i \in 1 .. FILTER_SIZE |-> IF i = 1 THEN 1 ELSE 0]

Keeper == INSTANCE ChildKeeper
List == INSTANCE ChildList WITH parent <- listParent
Words == INSTANCE PipeWords
Searches == INSTANCE TwoSearches
Servers == INSTANCE TcpServers
DSP == INSTANCE AudioFilter WITH Coefs <- [i \in 1 .. 3 |-> Identity]

\* the frame, the taps and the memory after them are any
DSPInit ==
  /\ input \in [1 .. 2 * SAMPLE_N -> InputSample]
  /\ taps \in [1 .. FILTER_SIZE -> InputTap]
  /\ beyond \in InputBeyond
  /\ output = << >>

Init ==
  /\ program \in {"keeper", "list", "words", "searches", "servers", "filter"}
  /\ Keeper!Init
  /\ List!Init
  /\ Words!Init /\ (program = "words" \/ (cad1 = END /\ cad2 = Words!Left(END)))
  /\ Searches!Init /\ (program = "searches" \/ \A i \in 0 .. ARRAY_SIZE : numeros[i] = 0)
  /\ Servers!Init /\ (program = "servers" \/ ~forks)
  /\ IF program = "filter" THEN DSPInit
     ELSE /\ input = [k \in 1 .. 2 * SAMPLE_N |-> 0] /\ taps = Identity
          /\ beyond = [k \in 1 .. FILTER_SIZE - 1 |-> 0] /\ output = << >>

KeeperNext == Keeper!Next /\ UNCHANGED <<list, words, searches, servers, filter>>
ListNext == List!Next /\ UNCHANGED <<keeper, words, searches, servers, filter>>
WordsNext == Words!Next /\ UNCHANGED <<keeper, list, searches, servers, filter>>
SearchesNext == Searches!Next /\ UNCHANGED <<keeper, list, words, servers, filter>>
ServersNext == Servers!Next /\ UNCHANGED <<keeper, list, words, searches, filter>>
FilterNext == DSP!Filter /\ UNCHANGED <<keeper, list, words, searches, servers>>

Next ==
  /\ \/ program = "keeper" /\ KeeperNext
     \/ program = "list" /\ ListNext
     \/ program = "words" /\ WordsNext
     \/ program = "searches" /\ SearchesNext
     \/ program = "servers" /\ ServersNext
     \/ program = "filter" /\ FilterNext
  /\ UNCHANGED program

\* The processes and threads are scheduled, and the user of tp_02_02 answers.
\* No child has to end, nobody has to type or to send a signal.
Fairness ==
  /\ WF_keeper(program = "keeper" /\ Keeper!Main)
  /\ WF_keeper(program = "keeper" /\ (Keeper!HandlerStarts \/ Keeper!HandlerWaits))
  /\ WF_list(program = "list" /\ List!Main)
  /\ WF_words(program = "words" /\ Words!ReadBlock)
  /\ WF_searches(program = "searches" /\ Searches!Main)
  /\ \A t \in {1, 2} : WF_searches(program = "searches" /\ Searches!Works(t))
  /\ WF_servers(program = "servers" /\ Servers!Server)
  /\ \A i \in 1 .. ProcMax : WF_servers(program = "servers" /\ Servers!ChildFunc(i))

Spec == Init /\ [][Next]_vars /\ Fairness

-----------------------------------------------------------------------------
(* The properties of the modules, under the names they have there *)

\* tp_02_01: no more than n_childs children run, the wait in the handler never
\* blocks, and the count is exact unless a decrement was lost or two ends merged.
KeeperSafe == Keeper!Safe

\* tp_02_02: the list is the children created and not destroyed, in order, until
\* its first element is freed, and at exit only those survive that were sent the
\* SIGINT they ignore.
ListSafe == List!Safe

\* tp_02_03: while Task2 does not lag it shows the words in order and whole, and
\* SIGPIPE does not end Task1.
WordsSafe == Words!Safe

\* tp_02_04: a number said to be absent is not in the second to the last element,
\* and the threads do not silence each other.
SearchesSafe == Searches!Safe

\* tp_04_01 and tp_04_02: no connection is served by two processes.
ServersSafe == Servers!Safe

\* tp_04_03: the filter with the coefficients of the source changes no sample; its
\* two versions agree where nothing wraps or saturates; products of one sign
\* saturate to the limit of their side.
FilterSafe == DSP!Safe

\* tp_02: n_childs children run again and again as long as the count is right; a
\* request that comes while none is served is served; END ends Task2, too, unless
\* it lagged; and the search ends.  tp_04_01 and tp_04_02: who is connected gets
\* the message; of the forking server all but those that wait when its descriptors
\* are used up or it has ended, and then it forks until it ends itself.
ProgramsProgress ==
  /\ program = "keeper" => Keeper!Replenishes
  /\ List!RequestServed
  /\ Words!EndsWithEnd
  /\ program = "searches" => Searches!Terminates
  /\ Servers!Served
  /\ Servers!LeakEnds
=============================================================================
