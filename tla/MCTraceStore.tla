---------------------------- MODULE MCTraceStore -----------------------------
(* Small instances of TraceStore for TLC. *)
EXTENDS TraceStore, TLC

Symmetry == Permutations(Stores)
=============================================================================
