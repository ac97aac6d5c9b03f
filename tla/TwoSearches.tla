----------------------------- MODULE TwoSearches -----------------------------
(***************************************************************************)
(* tp_02_04/main.c: Thread1 looks for a number from the first element of   *)
(* numeros on, Thread2 for another from the end back; the one that finds   *)
(* its number cancels the other one.                                       *)
(*                                                                         *)
(* Thread1 may be done before main has created thread 2 and set thd2.      *)
(* Thread2 begins one past the end and does not look at the first element. *)
(* Cancellation is deferred: a thread notices it when it prints, if it     *)
(* prints at once.                                                         *)
(***************************************************************************)
EXTENDS Integers

CONSTANT ARRAY_SIZE

Thread == {1, 2}
Other(t) == 3 - t

\* 1 and 2 stand for SEARCH_N_1 and SEARCH_N_2
Desired(t) == t

VARIABLES
  numeros,    \* the numbers, and at ARRAY_SIZE what the stack holds there
  at,         \* the index of each thread
  thread,     \* where each thread is
  cancelled,  \* whether it has been cancelled
  told,       \* history: what it printed last
  main        \* where main is

vars == <<numeros, at, thread, cancelled, told, main>>

Init ==
  /\ numeros \in [0 .. ARRAY_SIZE -> {0, 1, 2}]
  /\ at = [t \in Thread |-> IF t = 1 THEN 0 ELSE ARRAY_SIZE]
  /\ thread = [t \in Thread |-> "none"]
  /\ cancelled = [t \in Thread |-> FALSE]
  /\ told = [t \in Thread |-> "nothing"]
  /\ main = "create1"

-----------------------------------------------------------------------------
(* Faulty variants.  No specification uses them. *)

\* a thread that found nothing cancels the other one, too
AbsentCancels(t) ==
  /\ thread[t] = "absent"
  /\ thread' = [thread EXCEPT ![t] = "cancel"]
  /\ told' = [told EXCEPT ![t] = "absent"]
  /\ UNCHANGED <<numeros, at, cancelled, main>>

-----------------------------------------------------------------------------
(* main *)

Create(t, from, to) ==
  /\ main = from
  /\ thread' = [thread EXCEPT ![t] = "start"]
  /\ main' = to
  /\ UNCHANGED <<numeros, at, cancelled, told>>
Create1 == Create(1, "create1", "create2")
Create2 == Create(2, "create2", "join1")

Join(t, from, to) ==
  /\ main = from /\ thread[t] = "ended"
  /\ main' = to
  /\ UNCHANGED <<numeros, at, thread, cancelled, told>>
Join1 == Join(1, "join1", "join2")
Join2 == Join(2, "join2", "done")

-----------------------------------------------------------------------------
(* Thread1 and Thread2 *)

Starts(t) ==
  /\ thread[t] = "start"
  /\ thread' = [thread EXCEPT ![t] = "search"]
  /\ UNCHANGED <<numeros, at, cancelled, told, main>>

Looking(t) == IF t = 1 THEN at[t] < ARRAY_SIZE ELSE at[t] > 0

\* where it goes when it finds its number
Found == "found"

NextAt(t) == IF t = 1 THEN at[t] + 1 ELSE at[t] - 1

Look(t) ==
  /\ thread[t] = "search"
  /\ IF ~Looking(t)
     THEN thread' = [thread EXCEPT ![t] = "absent"] /\ UNCHANGED at
     ELSE IF numeros[at[t]] = Desired(t)
     THEN thread' = [thread EXCEPT ![t] = Found] /\ UNCHANGED at
     ELSE /\ at' = [at EXCEPT ![t] = NextAt(t)]
          /\ UNCHANGED thread
  /\ UNCHANGED <<numeros, cancelled, told, main>>

\* printf, at which a cancelled thread may end without a word
SayFound(t) ==
  /\ thread[t] = "found"
  /\ thread' = [thread EXCEPT ![t] = "cancel"]
  /\ told' = [told EXCEPT ![t] = "found"]
  /\ UNCHANGED <<numeros, at, cancelled, main>>
SayAbsent(t) ==
  /\ thread[t] = "absent"
  /\ thread' = [thread EXCEPT ![t] = "ended"]
  /\ told' = [told EXCEPT ![t] = "absent"]
  /\ UNCHANGED <<numeros, at, cancelled, main>>
Silenced(t) ==
  /\ thread[t] \in {"start", "found", "absent"}
  /\ cancelled[t]
  /\ thread' = [thread EXCEPT ![t] = "ended"]
  /\ UNCHANGED <<numeros, at, cancelled, told, main>>

\* pthread_cancel and pthread_exit.  thd2 is still zero: the process crashes.
\* thd1 has been joined and is not a thread any more: nothing, or a crash.
CancelOther(t) ==
  /\ thread[t] = "cancel"
  /\ \/ /\ ~(t = 1 /\ thread[2] = "none")
        /\ thread' = [thread EXCEPT ![t] = "ended"]
        /\ cancelled' = [cancelled EXCEPT ![Other(t)] = TRUE]
        /\ UNCHANGED main
     \/ /\ (t = 1 /\ thread[2] = "none") \/ (t = 2 /\ main = "join2")
        /\ main' = "crashed"
        /\ UNCHANGED <<thread, cancelled>>
  /\ UNCHANGED <<numeros, at, told>>

-----------------------------------------------------------------------------

Main == Create1 \/ Create2 \/ Join1 \/ Join2
Works(t) ==
  /\ main # "crashed"
  /\ Starts(t) \/ Look(t) \/ SayFound(t) \/ SayAbsent(t) \/ Silenced(t) \/ CancelOther(t)
Next == Main \/ \E t \in Thread : Works(t)

Spec == Init /\ [][Next]_vars

-----------------------------------------------------------------------------
(* Properties *)

TypeOK ==
  /\ numeros \in [0 .. ARRAY_SIZE -> {0, 1, 2}]
  /\ at \in [Thread -> 0 .. ARRAY_SIZE]
  /\ thread \in [Thread -> {"none", "start", "search", "found", "absent", "cancel", "ended"}]
  /\ cancelled \in [Thread -> BOOLEAN]
  /\ told \in [Thread -> {"nothing", "found", "absent"}]
  /\ main \in {"create1", "create2", "join1", "join2", "done", "crashed"}

\* A thread says that its number is not there only if it is not in the elements
\* from the second to the last; the first is left out by Thread2.
AbsentIsAbsent ==
  \A t \in Thread : told[t] = "absent" =>
    \A i \in 1 .. ARRAY_SIZE - 1 : numeros[i] # Desired(t)

\* The two threads do not silence each other: however they are cancelled, one of
\* them has said what it found, or both what they did not find.
OneSpeaks ==
  main = "done" => \/ \E t \in Thread : told[t] = "found"
                   \/ \A t \in Thread : told[t] = "absent"

\* Both threads end and main joins them, or the process crashes.
Terminates == <>(main \in {"done", "crashed"})

\* What the threads say is so, and one of them says it.
Safe == TypeOK /\ AbsentIsAbsent /\ OneSpeaks
=============================================================================
