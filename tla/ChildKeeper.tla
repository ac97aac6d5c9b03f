----------------------------- MODULE ChildKeeper -----------------------------
(***************************************************************************)
(* tp_02_01/main.c: a process that keeps n_childs children running.  Its   *)
(* loop forks whenever alive_childs is below n_childs; the handler of      *)
(* SIGCHLD decrements alive_childs and waits for a child.                  *)
(*                                                                         *)
(* alive_childs++ is a load and a store, and the handler may run between   *)
(* them: its decrement is lost.  SIGCHLD is not queued: the ends of two    *)
(* children may reach the handler as one.                                  *)
(***************************************************************************)
EXTENDS Integers, FiniteSets

CONSTANTS
  Child,     \* bound: the children it may create, one after the other
  n_childs   \* argv[1], or DEFAULT_CHILDS

VARIABLES
  alive_childs,
  parent, register,  \* where main is, and what it has loaded
  handler,           \* where chldHandler is
  proc,              \* the state of each child
  pending,           \* SIGCHLD is pending
  uncounted          \* history: a decrement was lost or two ends merged

vars == <<alive_childs, parent, register, handler, proc, pending, uncounted>>

In(state) == {c \in Child : proc[c] = state}

Init ==
  /\ alive_childs = 0
  /\ parent = "loop" /\ register = 0
  /\ handler = "out"
  /\ proc = [c \in Child |-> "none"]
  /\ pending = FALSE
  /\ uncounted = FALSE

-----------------------------------------------------------------------------
(* Faulty variants.  No specification uses them. *)

\* the handler waits and does not count
CountKept == alive_childs

-----------------------------------------------------------------------------
(* main *)

Wants == alive_childs < n_childs

Fork ==
  /\ parent = "loop" /\ handler = "out"
  /\ Wants
  /\ \E c \in In("none") : proc' = [proc EXCEPT ![c] = "runs"]
  /\ parent' = "load"
  /\ UNCHANGED <<alive_childs, register, handler, pending, uncounted>>

\* fork returns -1: main takes the child's branch, sleeps, and returns.  Its
\* children go on.
ForkFails ==
  /\ parent = "loop" /\ handler = "out"
  /\ Wants
  /\ parent' = "ended"
  /\ UNCHANGED <<alive_childs, register, handler, proc, pending, uncounted>>

Load ==
  /\ parent = "load" /\ handler = "out"
  /\ register' = alive_childs
  /\ parent' = "store"
  /\ UNCHANGED <<alive_childs, handler, proc, pending, uncounted>>

Store ==
  /\ parent = "store" /\ handler = "out"
  /\ alive_childs' = register + 1
  /\ parent' = "loop"
  /\ UNCHANGED <<register, handler, proc, pending, uncounted>>

-----------------------------------------------------------------------------
(* chldHandler and the children *)

Ends(c) ==
  /\ proc[c] = "runs"
  /\ proc' = [proc EXCEPT ![c] = "zombie"]
  /\ pending' = (parent # "ended")
  /\ uncounted' = (uncounted \/ pending)
  /\ UNCHANGED <<alive_childs, parent, register, handler>>

CountDown == alive_childs - 1

HandlerStarts ==
  /\ parent # "ended" /\ handler = "out"
  /\ pending
  /\ pending' = FALSE
  /\ alive_childs' = CountDown
  /\ uncounted' = (uncounted \/ parent = "store")
  /\ handler' = "wait"
  /\ UNCHANGED <<parent, register, proc>>

Reap(c) == [proc EXCEPT ![c] = "gone"]

HandlerWaits ==
  /\ handler = "wait"
  /\ \E c \in In("zombie") : proc' = Reap(c)
  /\ handler' = "out"
  /\ UNCHANGED <<alive_childs, parent, register, pending, uncounted>>

-----------------------------------------------------------------------------

Main == Fork \/ ForkFails \/ Load \/ Store
Next ==
  Main \/ HandlerStarts \/ HandlerWaits \/ \E c \in Child : Ends(c)

Spec == Init /\ [][Next]_vars

-----------------------------------------------------------------------------
(* Properties *)

TypeOK ==
  /\ alive_childs \in -Cardinality(Child) .. n_childs
  /\ register \in -Cardinality(Child) .. n_childs /\ uncounted \in BOOLEAN
  /\ parent \in {"loop", "load", "store", "ended"} /\ handler \in {"out", "wait"}
  /\ proc \in [Child -> {"none", "runs", "zombie", "gone"}]
  /\ pending \in BOOLEAN

\* However the handler and the loop fall together, no more than n_childs
\* children run: a lost decrement and a merged SIGCHLD leave the count too high,
\* never too low.
NeverTooMany == Cardinality(In("runs")) <= n_childs

\* The handler's wait finds a child that has ended: it does not block main.
WaitFindsChild == handler = "wait" => In("zombie") # {}

\* alive_childs is exact, up to what is about to be counted, as long as no
\* handler runs between a load and its store and no two ends merge: these are
\* the only ways in which the count goes wrong.
CountExact ==
  ~uncounted /\ parent # "ended" =>
    alive_childs + (IF parent \in {"load", "store"} THEN 1 ELSE 0) =
      Cardinality(In("runs")) + (IF pending THEN 1 ELSE 0)

\* n_childs run again and again, however many end, as long as the count is right.
Replenishes ==
  []<>(\/ Cardinality(In("runs")) = n_childs
       \/ uncounted \/ parent = "ended" \/ In("none") = {})

\* The count and the children: never too many, never a wait that blocks, and a
\* count that only a lost decrement or a merged signal makes wrong.
Safe == TypeOK /\ NeverTooMany /\ WaitFindsChild /\ CountExact
=============================================================================
