-------------------------- MODULE MCSelfImprovement --------------------------
(* A small instance of SelfImprovement for TLC. *)
EXTENDS SelfImprovement

Inserted(calibration, blocked, waste, wall, task) ==
    [calibration |-> calibration, blocked |-> blocked, invalid |-> FALSE,
     score |-> NoScore, waste |-> waste, wall |-> wall, task |-> task]

(* A calibration and a research-proxy row that go well, and one that is     *)
(* blocked, with more waste than the threshold; all three are in one trace.  *)
ThreeRows == <<Inserted(TRUE, FALSE, 0, 2, 1), Inserted(FALSE, FALSE, 0, 3, 1),
               Inserted(FALSE, TRUE, 6, 0, 1)>>
=============================================================================
