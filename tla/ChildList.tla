------------------------------ MODULE ChildList ------------------------------
(***************************************************************************)
(* tp_02_02: a process that creates children when it gets SIGUSR1 and      *)
(* destroys them when it gets SIGUSR2, and keeps a list of them (utils.c,  *)
(* array.c).  The handlers only set a flag; main looks at the flags in a   *)
(* loop, and clears a flag after the work, whatever came meanwhile.        *)
(*                                                                         *)
(* array_removeAt gets the address of the first element by value: removing *)
(* the first element frees it and childList still points to it.  From the  *)
(* next use of the list on, what the program does is undefined.            *)
(*                                                                         *)
(* A child inherits the handler that ignores SIGINT, with which a single   *)
(* child is to be destroyed: it goes on running.                           *)
(***************************************************************************)
EXTENDS Integers, Sequences, SequencesExt, FiniteSets

CONSTANT MaxPid  \* bound: the children are 1 .. MaxPid, in order of creation

VARIABLES
  createChildsFlag, destroyChildsFlag,
  parent,     \* where main is
  todo,       \* children still to be created, n_childs - ac
  childList,  \* the pids of the list
  headFreed,  \* childList points to freed memory
  arEl,       \* the rest of the list that the loop of destroyChilds walks
  running,    \* the children that main has not killed
  born,       \* the children created so far
  dismissed   \* history: those destroyed by their pid

flags == <<createChildsFlag, destroyChildsFlag>>
listVars == <<childList, headFreed, arEl>>
childVars == <<running, born, dismissed>>
vars == <<flags, parent, todo, listVars, childVars>>

Pid == 1 .. MaxPid
Other == MaxPid + 1    \* a pid that is not of a child
Ended == parent \in {"exited", "crashed", "undefined", "lost"}

Init ==
  /\ createChildsFlag = FALSE /\ destroyChildsFlag = FALSE
  /\ parent = "isCreate" /\ todo = 0
  /\ childList = << >> /\ headFreed = FALSE /\ arEl = << >>
  /\ running = {} /\ born = 0 /\ dismissed = {}

-----------------------------------------------------------------------------
(* Faulty variants.  No specification uses them. *)

\* the entry after the one that was found is removed
EntryAfter(pid) == RemoveFirst(childList, pid + 1)

\* destroyChilds clears the other flag
ClearBoth ==
  /\ parent = "clearDestroy"
  /\ destroyChildsFlag' = FALSE /\ createChildsFlag' = FALSE
  /\ parent' = "isCreate"
  /\ UNCHANGED <<todo, listVars, childVars>>

-----------------------------------------------------------------------------
(* main and the handlers *)

Usr1 ==
  /\ ~Ended
  /\ createChildsFlag' = TRUE
  /\ UNCHANGED <<destroyChildsFlag, parent, todo, listVars, childVars>>
Usr2 ==
  /\ ~Ended
  /\ destroyChildsFlag' = TRUE
  /\ UNCHANGED <<createChildsFlag, parent, todo, listVars, childVars>>

\* What a signal that interrupts scanf does to the flags: SIGUSR1, SIGUSR2, and
\* SIGINT, SIGTERM or the SIGCHLD of a child that somebody else has killed, which
\* main does not notice otherwise
HandlerFlags ==
  \/ createChildsFlag' = TRUE /\ UNCHANGED destroyChildsFlag
  \/ destroyChildsFlag' = TRUE /\ UNCHANGED createChildsFlag
  \/ UNCHANGED flags

\* destroyChilds begins by printing the list
IsCreate ==
  /\ parent = "isCreate"
  /\ parent' = IF createChildsFlag THEN "askNumber" ELSE "isDestroy"
  /\ UNCHANGED <<flags, todo, listVars, childVars>>
IsDestroy ==
  /\ parent = "isDestroy"
  /\ parent' = IF ~destroyChildsFlag THEN "isCreate"
               ELSE IF headFreed THEN "undefined" ELSE "askPid"
  /\ UNCHANGED <<flags, todo, listVars, childVars>>
ClearCreate ==
  /\ parent = "create" /\ todo = 0
  /\ createChildsFlag' = FALSE
  /\ parent' = "isDestroy"
  /\ UNCHANGED <<destroyChildsFlag, todo, listVars, childVars>>
ClearDestroy ==
  /\ parent = "clearDestroy"
  /\ destroyChildsFlag' = FALSE
  /\ parent' = "isCreate"
  /\ UNCHANGED <<createChildsFlag, todo, listVars, childVars>>

-----------------------------------------------------------------------------
(* createChilds *)

\* scanf; no more than the children there are (bound)
AskNumber ==
  /\ parent = "askNumber"
  /\ todo' \in 0 .. MaxPid - born
  /\ parent' = "create"
  /\ UNCHANGED <<flags, listVars, childVars>>

\* a signal interrupts scanf: n_childs stays 0
NumberInterrupted ==
  /\ parent = "askNumber"
  /\ HandlerFlags
  /\ parent' = "create" /\ todo' = 0
  /\ UNCHANGED <<listVars, childVars>>

\* addChild_entry
ListWith(pid) == Append(childList, pid)

Create ==
  /\ parent = "create" /\ todo > 0
  /\ born' = born + 1
  /\ running' = running \cup {born'}
  /\ todo' = todo - 1
  /\ IF headFreed
     THEN parent' = "undefined" /\ UNCHANGED childList
     ELSE childList' = ListWith(born') /\ UNCHANGED parent
  /\ UNCHANGED <<flags, headFreed, arEl, dismissed>>

\* fork returns -1: main takes the child's branch and sleeps for ever
ForkFails ==
  /\ parent = "create" /\ todo > 0
  /\ parent' = "lost"
  /\ UNCHANGED <<flags, todo, listVars, childVars>>

-----------------------------------------------------------------------------
(* destroyChilds *)

\* DeleteChildEntry, for a list that is not empty and whose first element has
\* not been freed: the first element with the pid goes.
ListWithout(pid) == RemoveFirst(childList, pid)

DeleteChildEntry(pid) ==
  /\ childList' = ListWithout(pid)
  /\ headFreed' = (Head(childList) = pid)

\* kill with SIGINT, which the child ignores.  The list must not be empty:
\* child->pid and DeleteChildEntry go through null pointers.
Dismiss(pid) ==
  IF childList = << >>
  THEN parent' = "crashed" /\ UNCHANGED <<childList, headFreed, dismissed>>
  ELSE /\ DeleteChildEntry(pid)
       /\ dismissed' = dismissed \cup (ToSet(childList) \cap {pid})
       /\ parent' = "clearDestroy"

DestroyOne ==
  /\ parent = "askPid"
  /\ \E pid \in Pid \cup {Other} : Dismiss(pid)
  /\ UNCHANGED <<flags, todo, arEl, running, born>>

\* 0, or less
DestroyAll ==
  /\ parent = "askPid"
  /\ arEl' = childList
  /\ parent' = "killing"
  /\ UNCHANGED <<flags, todo, childList, headFreed, childVars>>

\* A signal interrupts scanf: pid is what the stack held.
PidInterrupted ==
  /\ parent = "askPid"
  /\ HandlerFlags
  /\ \/ \E pid \in Pid \cup {Other} : Dismiss(pid) /\ UNCHANGED arEl
     \/ /\ arEl' = childList /\ parent' = "killing"
        /\ UNCHANGED <<childList, headFreed, dismissed>>
  /\ UNCHANGED <<todo, running, born>>

\* arEl = arEl->next, taken before the element is freed
NextEl == Tail(arEl)

\* The first element is found and freed; from the second on DeleteChildEntry
\* starts from freed memory: it ends the program, or finds what had been there.
KillNext ==
  /\ parent = "killing" /\ arEl # << >>
  /\ running' = running \ {Head(arEl)}
  /\ arEl' = NextEl
  /\ headFreed' = TRUE
  /\ \/ UNCHANGED parent
     \/ headFreed /\ parent' = "crashed"
  /\ UNCHANGED <<flags, todo, childList, born, dismissed>>

\* exit(0)
KilledAll ==
  /\ parent = "killing" /\ arEl = << >>
  /\ parent' = "exited"
  /\ UNCHANGED <<flags, todo, listVars, childVars>>

-----------------------------------------------------------------------------

Main ==
  \/ IsCreate \/ IsDestroy \/ ClearCreate \/ ClearDestroy
  \/ AskNumber \/ Create \/ DestroyOne \/ DestroyAll \/ KillNext \/ KilledAll
Next ==
  \/ Main \/ ForkFails
  \/ Usr1 \/ Usr2 \/ NumberInterrupted \/ PidInterrupted

Spec == Init /\ [][Next]_vars

-----------------------------------------------------------------------------
(* Properties *)

TypeOK ==
  /\ createChildsFlag \in BOOLEAN /\ destroyChildsFlag \in BOOLEAN
  /\ parent \in {"isCreate", "isDestroy", "askNumber", "create", "askPid",
                 "clearDestroy", "killing", "exited", "crashed", "undefined",
                 "lost"}
  /\ todo \in 0 .. MaxPid - born /\ born \in 0 .. MaxPid
  /\ childList \in Seq(Pid) /\ arEl \in Seq(Pid)
  /\ headFreed \in BOOLEAN
  /\ running \subseteq 1 .. born /\ dismissed \subseteq 1 .. born

\* The list is the children that were created and not destroyed, in the order of
\* their creation, and main has killed none of them: until its first element is
\* freed.
ListExact ==
  ~headFreed /\ parent \notin {"undefined", "lost"} =>
    /\ ToSet(childList) = running \ dismissed
    /\ \A i, j \in DOMAIN childList : i < j => childList[i] < childList[j]

\* When main has killed all and exits, only children that were "destroyed" by
\* their pid are left over: these survive, since they ignore SIGINT, unless
\* somebody else kills them, and no later request finds them.
OnlyDismissedSurvive ==
  parent = "exited" => running = dismissed

\* A request to create children that comes while main is not creating any is
\* served in the end; one that comes meanwhile is forgotten with the first.
RequestServed ==
  (createChildsFlag /\ parent \notin {"askNumber", "create"})
    ~> (parent = "askNumber" \/ Ended)

\* The list and the children agree, as far as the list may still be used.
Safe == TypeOK /\ ListExact /\ OnlyDismissedSurvive
=============================================================================
