---------------------------- MODULE MCWatchdog ------------------------------
(* A small instance of Watchdog for TLC: two invocations of two providers,  *)
(* and caps that a fourth failure, a second repetition and a second heavy   *)
(* invocation exceed.                                                       *)
EXTENDS Watchdog

MCProviders == {"stub_codex", "stub_claude"}
MCCodex == {"stub_codex"}
MCClaude == {"stub_claude"}

MCCeilings == [calls |-> [total |-> 3, codex |-> 2, claude |-> 2],
               wallPerCall |-> 2, wallTotal |-> 3,
               shellPerTask |-> 1, failedPerTask |-> 3, repeatedPerTask |-> 1,
               wastePerTask |-> 1, wastePerRun |-> 1,
               inputTotal |-> 1, outputTotal |-> 1]

Heavy == [ZeroUsage EXCEPT !.wall = 2]
TooLong == [ZeroUsage EXCEPT !.wall = 3]
Wasteful == [ZeroUsage EXCEPT !.waste = 1]

MCUsages == {Heavy, TooLong, Wasteful}

(* A fresh run, one with a call of much wall clock, which leaves room for    *)
(* two calls but not for two heavy ones, and one with room for one call.    *)
MCSeeds == {ZeroAccumulators,
            [ZeroAccumulators EXCEPT !.calls = [total |-> 1, codex |-> 1,
                                                claude |-> 0],
                                     !.wall = 2],
            [ZeroAccumulators EXCEPT !.calls = [total |-> 2, codex |-> 1,
                                                claude |-> 1]]}
=============================================================================
