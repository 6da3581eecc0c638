--------------------------- MODULE MCResearchLoop ----------------------------
(* Small instances of ResearchLoop for TLC. *)
EXTENDS ResearchLoop, TLC

Symmetry == Permutations(Procs)

(* An ordinary call, and one that exceeds the cap per task.                 *)
Cheap == [ZeroUsage EXCEPT !.wall = 1]
Slow == [ZeroUsage EXCEPT !.wall = 3]
BothUsages == {Cheap, Slow}
CheapOnly == {Cheap}

Caps(total, codex, claude) ==
    [calls |-> [total |-> total, codex |-> codex, claude |-> claude],
     wallPerCall |-> 2, wallTotal |-> 20, shellPerTask |-> 9,
     failedPerTask |-> 9, repeatedPerTask |-> 9, wastePerTask |-> 9,
     wastePerRun |-> 9, inputTotal |-> 9, outputTotal |-> 9]

(* A chain and a review, and no more; ceilings out of reach; and low ones.   *)
FiveCalls == Caps(5, 1, 4)
ManyCalls == Caps(9, 9, 9)
TwoCalls == Caps(2, 2, 2)
=============================================================================
