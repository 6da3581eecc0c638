----------------------------- MODULE MCRunNext ------------------------------
(* Small instances of RunNext for TLC. *)
EXTENDS RunNext, TLC

MCProviders == {"stub_codex", "stub_claude"}
MCCodex == {"stub_codex"}
MCClaude == {"stub_claude"}

(* One process: two calls in a run, one of them to codex.  One heavy        *)
(* invocation is within its own wall-clock cap, two are past the run's.     *)
SequentialCeilings == [calls |-> [total |-> 2, codex |-> 1, claude |-> 2],
               wallPerCall |-> 2, wallTotal |-> 3,
               shellPerTask |-> 1, failedPerTask |-> 1, repeatedPerTask |-> 1,
               wastePerTask |-> 1, wastePerRun |-> 1,
               inputTotal |-> 1, outputTotal |-> 1]

(* Two processes: one call in a run, so that a second row is an overshoot.  *)
ConcurrentCeilings ==
    [SequentialCeilings EXCEPT !.calls = [total |-> 1, codex |-> 1, claude |-> 1]]

Heavy == [ZeroUsage EXCEPT !.wall = 2]
TooLong == [ZeroUsage EXCEPT !.wall = 4]

SequentialUsages == {Heavy, TooLong}
ConcurrentUsages == {Heavy}

Symmetry == Permutations(Procs)
=============================================================================
