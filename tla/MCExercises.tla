---------------------------- MODULE MCExercises -----------------------------
(* Instances of Exercises for TLC.                                          *)
EXTENDS Exercises

(* Records 10 and 11 have the same first byte.                              *)
ThreeRecords == {10, 11, 20}
FirstByte(r) == r \div 10

LinesOfCommands ==
  {<<"echo">>, <<"echo", "cat", "cat">>, <<"yes", "cat", "head">>, <<"yes", "head", "cat">>,
   <<"yes", "missing">>, <<"missing", "cat">>, <<"yes", "echo", "cat">>, <<"echo", "echo">>}

(* Slaves are told apart by their pids.                                     *)
ThreeSlaves == 1 .. 3
=============================================================================
