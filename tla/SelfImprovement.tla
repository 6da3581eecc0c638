--------------------------- MODULE SelfImprovement ---------------------------
(***************************************************************************)
(* The command `self-improve scan` (arena/cli.py, arena/self_improvement): *)
(* it looks through the rows of the scoreboard and their traces, files a   *)
(* proposal for every finding that has none yet, and freezes by writing a  *)
(* sentinel.                                                               *)
(*                                                                         *)
(* One scan runs at a time, while other commands add rows, score them and  *)
(* write traces, and a human deletes the sentinel.  A scan may die between *)
(* any two accesses to a file.  A text file is truncated before it is      *)
(* written; in between it is Torn.  The event that a scan emits at its end *)
(* is left out.                                                            *)
(***************************************************************************)
EXTENDS Integers, Sequences, FiniteSets, SequencesExt, FiniteSetsExt, Functions

CONSTANTS
    Tasks,          \* numbers for the task directories of the traces
    Inserts,        \* the rows that other commands insert, in turn
    Scores,         \* the scores of a submission, in tenths
    NoScore, NoFile, Torn,
    MaxScans        \* bounds the model

Row == [calibration : BOOLEAN, blocked : BOOLEAN, invalid : BOOLEAN,
        score : Scores \cup {NoScore}, waste : Nat, wall : Nat, task : Tasks]

(* A finding: its kind, the row or task it is about (0 for the slug) and    *)
(* the figures in the text of its problem.                                  *)
Kinds == {"blocked_row", "invalid_submission", "score_regression",
          "waste_events_threshold", "wall_clock_regression",
          "provider_calls_regression", "missing_trace", "corrupt_trace"}

Finding == [kind : Kinds, about : Nat, figures : Seq(Int)]

ASSUME ScanAssumption ==
    /\ Tasks \subseteq Nat \ {0} /\ IsFiniteSet(Tasks)
    /\ Scores \subseteq Nat /\ NoScore \notin Nat
    /\ Inserts \in Seq(Row)
    /\ \A i \in 1 .. Len(Inserts) : Inserts[i].score = NoScore
    /\ MaxScans \in Nat

ASSUME FileAssumption ==
    Torn \notin Finding /\ Torn \notin Seq(Finding) /\ NoFile \notin Seq(Finding) \cup {Torn}

VARIABLES
    rows,       \* the experiments table, in the order of experiment ids
    traces,     \* of every task: its events.jsonl
    proposals,  \* self_improvement/proposals, by the number of the sip id
    tmp,        \* SELF_IMPROVEMENT_FROZEN.md.tmp
    sentinel,   \* SELF_IMPROVEMENT_FROZEN.md: the findings that triggered it
    scans,      \* how many scans were started (bounds the model)
    died,       \* whether the last of them died
    scan        \* the program counter and local variables of the scan

vars == <<rows, traces, proposals, tmp, sentinel, scans, died, scan>>

-----------------------------------------------------------------------------
(* What scan_runs finds in the rows. *)

(* max(score), with a default.                                              *)
Best(scores, default) == IF scores = {} THEN default ELSE Max(scores)

(* _CALIBRATION_BASELINE_SCORE and _WASTE_EVENTS_THRESHOLD.                 *)
Baseline == 5
WasteThreshold == 5

(* Champion and challenger: the calibration rows, and all others.           *)
Of(seen, calibration) == {i \in 1 .. Len(seen) : seen[i].calibration = calibration}
Scored(seen, is) == {seen[i].score : i \in is} \ {NoScore}
Wall(seen, is) == SumFunction([i \in is |-> seen[i].wall])
Waste(seen) == SumFunction([i \in 1 .. Len(seen) |-> seen[i].waste])

When(condition, finding) == IF condition THEN <<finding>> ELSE <<>>

(* One finding for each of the rows is, in the order of ids.                *)
PerRow(seen, kind, is) ==
    FlattenSeq([i \in 1 .. Len(seen) |->
        When(i \in is, [kind |-> kind, about |-> i, figures |-> <<>>])])

(* compare_metrics: a cost that grew by more than a fifth, unless the score *)
(* improved.  A champion that was not measured is not compared.             *)
CostRegressed(champion, challenger, improved) ==
    champion > 0 /\ 5 * challenger > 6 * champion /\ ~improved

ScoreFindings(seen) ==
    LET champion == Best(Scored(seen, Of(seen, TRUE)), Baseline)
        others == Of(seen, FALSE)
        scores == Scored(seen, others)
        worst == CHOOSE i \in others :
                    /\ seen[i].score = Min(scores)
                    /\ \A j \in others : seen[j].score = Min(scores) => i <= j
    IN  IF scores # {} /\ Max(scores) < champion
        THEN <<[kind |-> "score_regression", about |-> worst,
                figures |-> <<Max(scores), champion>>]>>
        ELSE <<>>

WasteFindings(seen) ==
    LET total == Waste(seen)
    IN  When(total > WasteThreshold,
             [kind |-> "waste_events_threshold", about |-> 0, figures |-> <<total>>])

CostFindings(seen) ==
    LET cal == Of(seen, TRUE)
        others == Of(seen, FALSE)
        champion == Best(Scored(seen, cal), Baseline)
        improved == Best(Scored(seen, others), champion) > champion
        wall == Wall(seen, others) - Wall(seen, cal)
        calls == Cardinality(others) - Cardinality(cal)
    IN  IF cal = {} \/ others = {} THEN <<>> ELSE
        When(CostRegressed(Wall(seen, cal), Wall(seen, others), improved),
             [kind |-> "wall_clock_regression", about |-> 0, figures |-> <<wall>>])
        \o
        When(CostRegressed(Cardinality(cal), Cardinality(others), improved),
             [kind |-> "provider_calls_regression", about |-> 0,
              figures |-> <<calls>>])

RowFindings(seen) ==
    PerRow(seen, "blocked_row", {i \in 1 .. Len(seen) : seen[i].blocked})
    \o PerRow(seen, "invalid_submission", {i \in 1 .. Len(seen) : seen[i].invalid})
    \o ScoreFindings(seen) \o WasteFindings(seen) \o CostFindings(seen)

(* What a row's trace adds: one that is missing is a matter of the row, one *)
(* that does not parse (or decode) a matter of the file, which several rows *)
(* may share.                                                               *)
TraceFindings(i, task) ==
    When(traces[task] = NoFile,
         [kind |-> "missing_trace", about |-> i, figures |-> <<>>])
    \o When(traces[task] = Torn,
            [kind |-> "corrupt_trace", about |-> task, figures |-> <<>>])

-----------------------------------------------------------------------------
Idle == "idle"

IdleScan == [pc |-> Idle, seen |-> <<>>, findings |-> <<>>, next |-> 1,
             known |-> {}, sip |-> 0]

Init ==
    /\ rows = <<>>
    /\ traces = [t \in Tasks |-> NoFile]
    /\ proposals = <<>>
    /\ tmp = NoFile
    /\ sentinel = NoFile
    /\ scans = 0
    /\ died = FALSE
    /\ scan = IdleScan

At(label) == scan.pc = label
Filed == {i \in 1 .. Len(proposals) : proposals[i] # Torn}

(* Other commands: a row is inserted.                                       *)
InsertRow ==
    /\ Len(rows) < Len(Inserts)
    /\ rows' = Append(rows, Inserts[Len(rows) + 1])
    /\ UNCHANGED <<traces, proposals, tmp, sentinel, scans, died, scan>>

(* A submission is scored.  No command stores valid_submission = False.     *)
ScoreRow ==
    /\ \E i \in 1 .. Len(rows), score \in Scores :
         /\ ~rows[i].blocked /\ rows[i].score = NoScore
         /\ rows' = [rows EXCEPT ![i].score = score]
    /\ UNCHANGED <<traces, proposals, tmp, sentinel, scans, died, scan>>

(* The trace of a task is begun, or an append to it is cut short.           *)
WriteTrace ==
    /\ \E t \in Tasks, state \in {"whole", Torn} :
         /\ traces[t] # Torn /\ traces[t] # state
         /\ traces' = [traces EXCEPT ![t] = state]
    /\ UNCHANGED <<rows, proposals, tmp, sentinel, scans, died, scan>>

(* The human that unfreezes deletes the sentinel.                           *)
Unfreeze ==
    /\ sentinel # NoFile
    /\ sentinel' = NoFile
    /\ UNCHANGED <<rows, traces, proposals, tmp, scans, died, scan>>

(* One query reads the rows.                                                *)
StartScan ==
    /\ At(Idle)
    /\ scans < MaxScans
    /\ scans' = scans + 1
    /\ died' = FALSE
    /\ scan' = [IdleScan EXCEPT !.pc = "traces", !.seen = rows,
                                !.findings = RowFindings(rows)]
    /\ UNCHANGED <<rows, traces, proposals, tmp, sentinel>>

ReadTrace ==
    /\ At("traces") /\ scan.next <= Len(scan.seen)
    /\ scan' = [scan EXCEPT !.next = @ + 1,
                  !.findings = @ \o TraceFindings(scan.next,
                                                  scan.seen[scan.next].task)]
    /\ UNCHANGED <<rows, traces, proposals, tmp, sentinel, scans, died>>

(* mutant: findings are told apart by their kind.                           *)
KindOnly(finding) == finding.kind

(* _finding_content_hash of the problem and the evidence.                   *)
ContentHash(finding) == finding

(* mutant: the loop starts where the loop before it ended.                  *)
ListProposalsKeepsNext ==
    /\ At("traces") /\ scan.next > Len(scan.seen)
    /\ scan' = [scan EXCEPT !.pc = "propose",
                  !.known = {ContentHash(proposals[i]) : i \in Filed}]
    /\ UNCHANGED <<rows, traces, proposals, tmp, sentinel, scans, died>>

(* mutant: a finding that has a proposal is no longer a finding.            *)
ListProposalsFilters ==
    /\ At("traces") /\ scan.next > Len(scan.seen)
    /\ LET known == {ContentHash(proposals[i]) : i \in Filed}
       IN  scan' = [scan EXCEPT !.pc = "propose", !.next = 1, !.known = known,
                      !.findings = SelectSeq(@, LAMBDA f : ContentHash(f) \notin known)]
    /\ UNCHANGED <<rows, traces, proposals, tmp, sentinel, scans, died>>

(* The proposals that exist and parse.                                      *)
ListProposals ==
    /\ At("traces") /\ scan.next > Len(scan.seen)
    /\ scan' = [scan EXCEPT !.pc = "propose", !.next = 1,
                  !.known = {ContentHash(proposals[i]) : i \in Filed}]
    /\ UNCHANGED <<rows, traces, proposals, tmp, sentinel, scans, died>>

(* The findings from n on that have no proposal, and the first of them.     *)
Unfiled(n) == {m \in n .. Len(scan.findings) :
                  ContentHash(scan.findings[m]) \notin scan.known}
Current == Min(Unfiled(scan.next))

(* mutant: proposals are numbered as the findings of the scan.              *)
NextSipIdOfScan == Current

(* get_next_sip_id: files that do not parse count.  None is deleted.        *)
NextSipId == Len(proposals) + 1

Put(s, i, x) == [j \in 1 .. Max({i, Len(s)}) |-> IF j = i THEN x ELSE s[j]]

OpenProposal ==
    /\ At("propose") /\ Unfiled(scan.next) # {}
    /\ proposals' = Put(proposals, NextSipId, Torn)
    /\ scan' = [scan EXCEPT !.pc = "fill", !.sip = NextSipId, !.next = Current]
    /\ UNCHANGED <<rows, traces, tmp, sentinel, scans, died>>

(* mutant: existing_hashes is not extended.                                 *)
FillForgets ==
    /\ At("fill")
    /\ proposals' = Put(proposals, scan.sip, scan.findings[scan.next])
    /\ scan' = [scan EXCEPT !.pc = "propose", !.next = @ + 1]
    /\ UNCHANGED <<rows, traces, tmp, sentinel, scans, died>>

FillProposal ==
    /\ At("fill")
    /\ proposals' = Put(proposals, scan.sip, scan.findings[scan.next])
    /\ scan' = [scan EXCEPT !.pc = "propose", !.next = @ + 1,
                  !.known = @ \cup {ContentHash(scan.findings[scan.next])}]
    /\ UNCHANGED <<rows, traces, tmp, sentinel, scans, died>>

(* evaluate_freeze and apply_freeze: without a finding there is no freeze   *)
(* and a sentinel stays; with one the temporary file is opened.             *)
Evaluate ==
    /\ At("propose") /\ Unfiled(scan.next) = {}
    /\ IF scan.findings = <<>>
       THEN scan' = IdleScan /\ UNCHANGED tmp
       ELSE scan' = [scan EXCEPT !.pc = "freeze"] /\ tmp' = Torn
    /\ UNCHANGED <<rows, traces, proposals, sentinel, scans, died>>

(* mutant: the sentinel is written in place.                                *)
FillInPlace ==
    /\ At("freeze")
    /\ sentinel' = Torn
    /\ tmp' = scan.findings
    /\ scan' = [scan EXCEPT !.pc = "replace"]
    /\ UNCHANGED <<rows, traces, proposals, scans, died>>

FillSentinel ==
    /\ At("freeze")
    /\ tmp' = scan.findings
    /\ scan' = [scan EXCEPT !.pc = "replace"]
    /\ UNCHANGED <<rows, traces, proposals, sentinel, scans, died>>

ReplaceSentinel ==
    /\ At("replace")
    /\ sentinel' = tmp
    /\ tmp' = NoFile
    /\ scan' = IdleScan
    /\ UNCHANGED <<rows, traces, proposals, scans, died>>

(* The scan dies.                                                           *)
Crash ==
    /\ ~At(Idle)
    /\ died' = TRUE
    /\ scan' = IdleScan
    /\ UNCHANGED <<rows, traces, proposals, tmp, sentinel, scans>>

ScanStep ==
    \/ ReadTrace \/ ListProposals \/ OpenProposal \/ FillProposal
    \/ Evaluate \/ FillSentinel \/ ReplaceSentinel

Next ==
    \/ InsertRow \/ ScoreRow \/ WriteTrace \/ Unfreeze
    \/ StartScan \/ ScanStep \/ Crash

(* A scan that has started is not suspended forever.                        *)
FairSpec == Init /\ [][Next]_vars /\ WF_vars(ScanStep)

-----------------------------------------------------------------------------
(* Properties. *)

(* Files and local variables hold what the code puts there; the index of    *)
(* each loop is within the list it walks through.                           *)
TypeOK ==
    /\ rows \in Seq(Row) /\ Len(rows) <= Len(Inserts)
    /\ traces \in [Tasks -> {NoFile, "whole", Torn}]
    /\ proposals \in Seq(Finding \cup {Torn})
    /\ tmp \in {NoFile, Torn} \cup Seq(Finding)
    /\ scans \in 0 .. MaxScans /\ died \in BOOLEAN
    /\ scan \in [pc : {Idle, "traces", "propose", "fill", "freeze", "replace"},
                 seen : Seq(Row), findings : Seq(Finding), next : Nat \ {0},
                 known : SUBSET Finding, sip : Nat]
    /\ scan.next <= 1 + (IF At("traces") THEN Len(scan.seen) ELSE Len(scan.findings))

(* Rescanning is idempotent: no two proposals have the same content, also   *)
(* when a scan has died half-way, when rows share a trace, and when         *)
(* findings come and go.                                                    *)
NoDuplicates ==
    \A i, j \in Filed : proposals[i] = proposals[j] => i = j

(* Whoever reads the sentinel finds it whole, and a proposal for each of    *)
(* its triggers, also those filed by earlier scans.                         *)
TriggersFiled ==
    sentinel # NoFile =>
        /\ sentinel # Torn
        /\ \A n \in 1 .. Len(sentinel) : \E i \in Filed : proposals[i] = sentinel[n]

(* A proposal that is filed is never changed, whatever later scans find and *)
(* whatever a dead scan has left.                                           *)
FilesKept ==
    [][\A i \in 1 .. Len(proposals) :
         \/ proposals'[i] = proposals[i]
         \/ At("fill") /\ i = scan.sip /\ proposals[i] = Torn]_vars

(* A scan with findings freezes unless it dies, though an earlier scan may  *)
(* have filed them all, and though the sentinel was deleted meanwhile.      *)
FindingsFreeze ==
    (At("traces") /\ scan.findings # <<>>) ~> (sentinel # NoFile \/ died)
=============================================================================
