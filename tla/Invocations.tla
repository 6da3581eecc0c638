---------------------------- MODULE Invocations -----------------------------
(***************************************************************************)
(* What the trace of one command promises about its provider invocations,  *)
(* with adapters, sandboxes, counters and callbacks left out: they follow  *)
(* each other, each is opened once and closed at most once, and the first  *)
(* that is not finished is the last.                                       *)
(***************************************************************************)
EXTENDS Naturals

VARIABLES
    open,       \* an invocation is under way
    opened,     \* number of invocations opened by provider_invoked
    finished,   \* number of invocations closed by task_finished
    broken,     \* number of invocations closed by breaker_triggered
    over        \* the command invokes no further provider

invocations == <<open, opened, finished, broken, over>>

Init == ~open /\ opened = 0 /\ finished = 0 /\ broken = 0 /\ ~over

Open == /\ ~open /\ ~over
        /\ open' = TRUE
        /\ opened' = opened + 1
        /\ UNCHANGED <<finished, broken, over>>

Finish == /\ open
          /\ open' = FALSE
          /\ finished' = finished + 1
          /\ UNCHANGED <<opened, broken, over>>

Break == /\ open
         /\ open' = FALSE
         /\ broken' = broken + 1
         /\ over' = TRUE
         /\ UNCHANGED <<opened, finished>>

(* The adapter raised something that no breaker stands for. *)
Abort == /\ open
         /\ open' = FALSE
         /\ over' = TRUE
         /\ UNCHANGED <<opened, finished, broken>>

(* check_can_invoke refused, or the command has nothing left to invoke. *)
Stop == /\ ~open /\ ~over
        /\ over' = TRUE
        /\ UNCHANGED <<open, opened, finished, broken>>

Next == Open \/ Finish \/ Break \/ Abort \/ Stop

Spec == Init /\ [][Next]_invocations
=============================================================================
