----------------------------- MODULE BoundedFifo -----------------------------
(***************************************************************************)
(* What static_queue.h promises to its two threads: a first-in first-out   *)
(* queue of at most Capacity items, with blocking calls that either move   *)
(* one item and return 0 or move nothing and return -1.                    *)
(*                                                                         *)
(* A call passes through the states                                        *)
(*   "out" -> "called" -> "granted" -> "done" -> "out"                     *)
(* and a call that is still only "called" may give up.  The buffer of the  *)
(* caller of a take is in an unspecified state (NoItem) between the grant  *)
(* and the moment the item is taken.                                       *)
(***************************************************************************)
EXTENDS Integers, Sequences

CONSTANTS
  Capacity,  \* the number of items the queue holds
  Items,     \* what can be queued
  NoItem     \* the content of a buffer that is being filled

VARIABLES
  queue,                    \* the items, oldest first
  addSt, addItem, addRet,   \* the adding thread: its call, argument, result
  takeSt, takeItem, takeRet \* the taking thread: its call, buffer, result

addVars == <<addSt, addItem, addRet>>
takeVars == <<takeSt, takeItem, takeRet>>
vars == <<queue, addVars, takeVars>>

Init ==
  /\ queue = << >>
  /\ addSt = "out" /\ addItem \in Items /\ addRet = 0
  /\ takeSt = "out" /\ takeItem \in Items /\ takeRet = 0

-----------------------------------------------------------------------------

CallAdd ==
  /\ addSt = "out"
  /\ addSt' = "called"
  /\ addItem' \in Items
  /\ UNCHANGED <<queue, addRet, takeVars>>

GrantAdd ==
  /\ addSt = "called"
  /\ Len(queue) < Capacity
  /\ addSt' = "granted"
  /\ UNCHANGED <<queue, addItem, addRet, takeVars>>

DoAdd ==
  /\ addSt = "granted"
  /\ Len(queue) < Capacity
  /\ addSt' = "done"
  /\ queue' = Append(queue, addItem)
  /\ UNCHANGED <<addItem, addRet, takeVars>>

ReturnAdd ==
  /\ addSt = "done"
  /\ addSt' = "out"
  /\ addRet' = 0
  /\ UNCHANGED <<queue, addItem, takeVars>>

FailAdd ==
  /\ addSt = "called"
  /\ addSt' = "out"
  /\ addRet' = -1
  /\ UNCHANGED <<queue, addItem, takeVars>>

CallTake ==
  /\ takeSt = "out"
  /\ takeSt' = "called"
  /\ UNCHANGED <<queue, takeItem, takeRet, addVars>>

GrantTake ==
  /\ takeSt = "called"
  /\ queue # << >>
  /\ takeSt' = "granted"
  /\ takeItem' = NoItem
  /\ UNCHANGED <<queue, takeRet, addVars>>

DoTake ==
  /\ takeSt = "granted"
  /\ queue # << >>
  /\ takeSt' = "done"
  /\ takeItem' = Head(queue)
  /\ queue' = Tail(queue)
  /\ UNCHANGED <<takeRet, addVars>>

ReturnTake ==
  /\ takeSt = "done"
  /\ takeSt' = "out"
  /\ takeRet' = 0
  /\ UNCHANGED <<queue, takeItem, addVars>>

FailTake ==
  /\ takeSt = "called"
  /\ takeSt' = "out"
  /\ takeRet' = -1
  /\ UNCHANGED <<queue, takeItem, addVars>>

Next ==
  \/ CallAdd \/ GrantAdd \/ DoAdd \/ ReturnAdd \/ FailAdd
  \/ CallTake \/ GrantTake \/ DoTake \/ ReturnTake \/ FailTake

Spec == Init /\ [][Next]_vars
=============================================================================
