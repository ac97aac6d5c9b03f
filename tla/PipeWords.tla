------------------------------ MODULE PipeWords ------------------------------
(***************************************************************************)
(* tp_02_03/main.c: Task1, the parent, reads words with scanf and writes   *)
(* each with its final zero to a pipe; Task2, its child, reads the pipe by *)
(* blocks and shows what stands in the block up to the first zero.  Both   *)
(* end with the word END.                                                  *)
(*                                                                         *)
(* A read takes what there is: when Task2 lags, the block holds more than  *)
(* one word, of which only the first is shown, and the next read may begin *)
(* in the middle of a word.  Every handler interrupts scanf and read, and  *)
(* both tasks go on as if they had read something.                         *)
(***************************************************************************)
EXTENDS Integers, Sequences, SequencesExt

CONSTANTS
  Word,      \* the words the user types, sequences of letters
  END,       \* the word that ends both tasks
  Zero,      \* the byte that ends a word
  Unset,     \* a letter that cad may hold before the first word
  Block,     \* 20: the bytes of cad and of a read; a word is shorter
  MaxWords   \* bound: the words written

VARIABLES
  task1, cad1,   \* Task1: where it is, and the word in its cad
  pipe,          \* the bytes in the pipe
  task2, cad2,   \* Task2: where it is, and the bytes of its cad
  written,       \* history: the words written
  shown,         \* history: what Task2 showed after a read
  behind         \* history: a read found more than one word in the pipe, or
                 \* none had succeeded when the first was interrupted

task1Vars == <<task1, cad1>>
task2Vars == <<task2, cad2, shown, behind>>
vars == <<task1Vars, pipe, task2Vars, written>>

\* what %s and strcmp make of cad
Text(bytes) == SubSeq(bytes, 1, SelectInSeq(bytes, LAMBDA b : b = Zero) - 1)

\* cad as some earlier call may have left it
Left(word) == [i \in 1 .. Block |-> IF i <= Len(word) THEN word[i] ELSE Zero]

Init ==
  /\ task1 = "main" /\ cad1 \in {<<Unset>>, END}
  /\ pipe = << >>
  /\ task2 = "none" /\ cad2 \in {Left(<<Unset>>), Left(END)}
  /\ written = << >> /\ shown = << >> /\ behind = FALSE

-----------------------------------------------------------------------------
(* Faulty variants.  No specification uses them. *)

\* strlen(cad) without the zero
BytesOnly(word) == word

-----------------------------------------------------------------------------
(* createChild: Task2 runs in the child.  When fork returns -1 the parent     *)
(* runs Task2 and closes the only end of the pipe that is written to.         *)

Fork ==
  /\ task1 = "main"
  /\ task1' = "scan" /\ task2' = "read"
  /\ UNCHANGED <<cad1, pipe, cad2, shown, behind, written>>
ForkFails ==
  /\ task1 = "main"
  /\ task1' = "none" /\ task2' = "read"
  /\ UNCHANGED <<cad1, pipe, cad2, shown, behind, written>>

-----------------------------------------------------------------------------
(* Task1 *)

ScanWord ==
  /\ task1 = "scan" /\ Len(written) < MaxWords
  /\ cad1' \in Word
  /\ task1' = "write"
  /\ UNCHANGED <<pipe, task2Vars, written>>

\* A handler runs: cad keeps the word before.
ScanInterrupted ==
  /\ task1 = "scan" /\ Len(written) < MaxWords
  /\ task1' = "write"
  /\ UNCHANGED <<cad1, pipe, task2Vars, written>>

Bytes(word) == word \o <<Zero>>

AfterWrite(word) == IF word = END THEN "done" ELSE "scan"

\* Nobody is left to read: SIGPIPE ends the process.
WriteWord ==
  /\ task1 = "write"
  /\ IF task2 = "done"
     THEN task1' = "killed" /\ UNCHANGED <<pipe, written>>
     ELSE /\ pipe' = pipe \o Bytes(cad1)
          /\ written' = Append(written, cad1)
          /\ task1' = AfterWrite(cad1)
  /\ UNCHANGED <<cad1, task2Vars>>

-----------------------------------------------------------------------------
(* Task2 *)

Shows(bytes) == task2' = IF Text(bytes) = END THEN "done" ELSE "read"

Taken == IF Len(pipe) < Block THEN pipe ELSE SubSeq(pipe, 1, Block)
Rest == SubSeq(pipe, Len(Taken) + 1, Len(pipe))

\* what is read over what cad held
Over(bytes) == bytes \o SubSeq(cad2, Len(bytes) + 1, Len(cad2))

ReadBlock ==
  /\ task2 = "read" /\ pipe # << >>
  /\ cad2' = Over(Taken)
  /\ pipe' = Rest
  /\ behind' = (behind \/ Len(written) - Len(shown) > 1)
  /\ shown' = Append(shown, Text(cad2'))
  /\ Shows(cad2')
  /\ UNCHANGED <<task1Vars, written>>

\* read returns 0: all ends that write are closed.  cad is shown again, for ever
\* unless it holds END.
ReadEnd ==
  /\ task2 = "read" /\ pipe = << >> /\ task1 \in {"done", "killed", "none"}
  /\ Shows(cad2)
  /\ UNCHANGED <<task1Vars, pipe, cad2, shown, behind, written>>

\* A handler runs: cad is shown as it is.
ReadInterrupted ==
  /\ task2 = "read"
  /\ Shows(cad2)
  /\ behind' = (behind \/ shown = << >>)
  /\ UNCHANGED <<task1Vars, pipe, cad2, shown, written>>

-----------------------------------------------------------------------------

Next ==
  \/ Fork \/ ForkFails \/ ScanWord \/ ScanInterrupted \/ WriteWord
  \/ ReadBlock \/ ReadEnd \/ ReadInterrupted

Spec == Init /\ [][Next]_vars

-----------------------------------------------------------------------------
(* Properties *)

TypeOK ==
  /\ task1 \in {"main", "scan", "write", "done", "killed", "none"}
  /\ task2 \in {"none", "read", "done"} /\ behind \in BOOLEAN
  /\ cad1 \in Word \cup {<<Unset>>, END}
  /\ Len(cad2) = Block
  /\ ToSet(written) \subseteq Word \cup {<<Unset>>, END}
  /\ Len(shown) <= Block * MaxWords /\ Len(pipe) <= Block * MaxWords

\* While Task2 finds one word at a time it shows the words that were written, in
\* their order, whatever interrupts either task and however long the words are
\* that cad held before; nothing but its lag can lose or cut one.
ShownInOrder == ~behind => IsPrefix(shown, written)

\* Task1 is killed by a write to a pipe that nobody reads only if Task2 lagged,
\* and took the end of a word for END, or was interrupted before it had read
\* anything.
KilledOnlyBehind == task1 = "killed" => behind

\* When Task1 has written END, Task2 ends: unless it lagged, and END was in the
\* block of another word; then it shows its cad for ever.
EndsWithEnd == (task1 = "done" /\ ~behind) ~> (task2 = "done" \/ behind)

\* The two tasks agree on the words as long as Task2 does not lag.
Safe == TypeOK /\ ShownInOrder /\ KilledOnlyBehind
=============================================================================
