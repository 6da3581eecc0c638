--------------------------- MODULE MCEvalHarness ----------------------------
(* A small instance of EvalHarness for TLC: two harnesses that may follow   *)
(* each other or run at once, and two seconds for all of their rows.        *)
EXTENDS EvalHarness, TLC

Symmetry == Permutations(Harnesses)
=============================================================================
