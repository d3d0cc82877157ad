----------------------------- MODULE MCExercises ----------------------------
(* A small instance of every program of Exercises.                         *)
EXTENDS Exercises
CONSTANTS x, one, two, f, g, nl
AllPrograms == ChainPrograms \cup GatherPrograms \cup BarrierPrograms \cup ThreadPrograms
                 \cup JobPrograms \cup EnvPrograms \cup ReversePrograms \cup AcceptPrograms
TwoFiles == <<f, g, f>>
Letters == <<"a", "b", nl, "c", nl, "d", "e">>
SomeFiles == {SubSeq(Letters, 1, n) : n \in 0 .. Len(Letters)}
=============================================================================
