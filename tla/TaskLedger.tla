----------------------------- MODULE TaskLedger -----------------------------
(***************************************************************************)
(* What the calibration path promises about a task, with every file and    *)
(* program counter left out: a task that was offered is pending until it   *)
(* is claimed, and a claim is under way until one row records it.  Tasks   *)
(* have numbers, so that one which is claimed twice can be told from two.  *)
(*                                                                         *)
(* Racy says whether claimants and offers may overtake each other: then a  *)
(* claim may use up a newer task than the one it runs, and an offer may    *)
(* replace one that is pending.  Lossy says whether a claim may vanish.    *)
(***************************************************************************)
EXTENDS Naturals

CONSTANTS Claimants, Ids, Racy, Lossy   \* the last two are Booleans

VARIABLES offered, pending, running, recorded

ledger == <<offered, pending, running, recorded>>

Init == /\ offered = 0
        /\ pending = {}
        /\ running = [c \in Claimants |-> 0]
        /\ recorded = {}

Offer == /\ offered' = offered + 1
         /\ pending' = pending \cup {offered'}
         /\ UNCHANGED <<running, recorded>>

Replace == /\ Racy
           /\ pending # {}
           /\ offered' = offered + 1
           /\ UNCHANGED <<pending, running, recorded>>

(* Claimant c uses up task t and runs task s. *)
Take(c, t, s) == /\ running[c] = 0
                 /\ pending' = pending \ {t}
                 /\ running' = [running EXCEPT ![c] = s]
                 /\ UNCHANGED <<offered, recorded>>

Claim == \E c \in Claimants, t \in pending : Take(c, t, t)

ClaimOlder ==
    /\ Racy
    /\ \E c \in Claimants, t \in pending :
         \E s \in (1 .. t - 1) \ pending : Take(c, t, s)

Done(c) == /\ running[c] # 0
           /\ running' = [running EXCEPT ![c] = 0]
           /\ UNCHANGED <<offered, pending>>

Record == \E c \in Claimants, e \in Ids \ recorded :
             Done(c) /\ recorded' = recorded \cup {e}

Lose == Lossy /\ \E c \in Claimants : Done(c) /\ UNCHANGED recorded

Next == Offer \/ Replace \/ Claim \/ ClaimOlder \/ Record \/ Lose

Spec == Init /\ [][Next]_ledger
=============================================================================
