----------------------------- MODULE MCExercises -----------------------------
(***************************************************************************)
(* Exercises with few children, words, numbers and clients.                *)
(***************************************************************************)
EXTENDS Exercises

MCEND == <<"e">>
\* one of the words ends with END
MCWord == {<<"a">>, MCEND, <<"a", "e">>}

MCInputSample == {-8, -1, 0, 3, 7}
MCInputTap == {-2, 1, 3}
MCInputBeyond == {<< -8 >>, << 5 >>}
=============================================================================
