----------------------------- MODULE EvalHarness -----------------------------
(***************************************************************************)
(* `arena eval-harness` (arena/cli.py): the commands of Phase 0, called    *)
(* one after the other in one process, each step's outcome collected.      *)
(* Several harnesses may run at once over one scoreboard and one runs/     *)
(* directory.                                                              *)
(*                                                                         *)
(* One action is one call of a command or one lookup.  What a command does *)
(* inside is the matter of RunNext and ResearchLoop: here it is what it    *)
(* leaves, and how it comes back to the harness.  The three rows that      *)
(* research-proxy writes before the implementation are one.                *)
(***************************************************************************)
EXTENDS Naturals, FiniteSets, FiniteSetsExt

CONSTANTS
    Harnesses,  \* the processes that run eval-harness
    NoRow,      \* an id that has no row, or no file
    MaxRuns, MaxExp, MaxSecond, MaxMem  \* bounds of the model

ASSUME HarnessAssumption ==
    MaxRuns \in Nat /\ MaxExp \in Nat /\ MaxSecond \in Nat /\ MaxMem \in Nat

VARIABLES
    latest,     \* runs/run_*: the newest is number latest
    queue,      \* per run, the experiment id of its calibration packet, or 0
    rows,       \* the experiments table, by experiment id
    proposals,  \* memory/proposals/, by the number of mem_*.json
    harness     \* per harness, its program counter and local variables

vars == <<latest, queue, rows, proposals, harness>>

RunIds == 1 .. MaxRuns
ExpIds == 1 .. MaxExp
Seconds == 1 .. MaxSecond
MemIds == 1 .. MaxMem

(* A row: its run, its step, whether its artifact is there and is valid (a  *)
(* submission.csv, a research_review.json), the second it was created in,   *)
(* the row a review is about, and the harness that wrote it.                *)
Row == [run : RunIds, step : {"calibration", "advice", "implementation", "review"},
        artifact : {"none", "invalid", "valid"}, at : Seconds,
        subject : 0 .. MaxExp, by : Harnesses, scored : BOOLEAN]

(* A memory proposal: whose, the run that harness adopted, and the review.  *)
Proposal == [by : Harnesses, run : 0 .. MaxRuns, review : 0 .. MaxExp]

ASSUME HarnessSentinel == NoRow \notin Row \cup Proposal

-----------------------------------------------------------------------------
(* The scoreboard. *)
Recorded == {e \in ExpIds : rows[e] # NoRow}

(* get_next_experiment_id *)
NextExpId == Max({0} \cup Recorded) + 1

(* created_at has whole seconds, so that several rows share one.            *)
Now == LET last == Max({1} \cup {rows[e].at : e \in Recorded})
       IN  {last, last + 1} \cap Seconds

(* mutant: within a second the smallest id comes first.                     *)
IsLatestOldestId(e) ==
    /\ e \in Recorded
    /\ \A d \in Recorded :
         rows[d].at < rows[e].at \/ (rows[d].at = rows[e].at /\ e <= d)

(* get_latest_experiment: whatever its run.  Ids are text there, and in the *)
(* order of their numbers as long as these have four digits.                *)
IsLatest(e) ==
    /\ e \in Recorded
    /\ \A d \in Recorded :
         rows[d].at < rows[e].at \/ (rows[d].at = rows[e].at /\ d <= e)

(* mutant: the lookup of a step's row does not filter by run.               *)
StepRowsAnyRun(r, step) == {e \in Recorded : rows[e].step = step}

(* The rows that _lookup_latest_impl_row and _lookup_latest_review_row      *)
(* choose from; they take the greatest id.                                  *)
StepRows(r, step) == {e \in Recorded : rows[e].run = r /\ rows[e].step = step}

Greatest(S, e) == e \in S /\ \A d \in S : d <= e

(* get_next_proposal_id: one more than the greatest id in the directory.    *)
Filed == {i \in MemIds : proposals[i] # NoRow}
NextMemId == Max({0} \cup Filed) + 1

Draft(h, r, step, artifact, subject, second) ==
    [run |-> r, step |-> step, artifact |-> artifact, at |-> second,
     subject |-> subject, by |-> h,
     scored |-> step = "implementation" /\ artifact = "valid"]

-----------------------------------------------------------------------------
NotStarted ==
    [pc |-> "init-fixture", run |-> 0, impl |-> 0, review |-> 0, evaluated |-> 0,
     mem |-> 0, seen |-> {}, failed |-> FALSE]

Init ==
    /\ latest = 0
    /\ queue = [r \in RunIds |-> 0]
    /\ rows = [e \in ExpIds |-> NoRow]
    /\ proposals = [i \in MemIds |-> NoRow]
    /\ harness = [h \in Harnesses |-> NotStarted]

At(h, label) == harness[h].pc = label

(* A step is put in the table as ok or skipped, or as failed.  Of the table *)
(* the model keeps what the exit code depends on.                           *)
Ok(h, next) == harness' = [harness EXCEPT ![h].pc = next]

Failed(h, next) == harness' = [harness EXCEPT ![h].failed = TRUE, ![h].pc = next]

(* A new run directory, or BadParameter: the fixture is not there, and      *)
(* nothing that needs a fresh run is called.  The row that insert_run adds  *)
(* to the table runs is read by no command and left out.                    *)
InitFixture(h) ==
    /\ At(h, "init-fixture")
    /\ \/ /\ latest < MaxRuns
          /\ latest' = latest + 1
          /\ Ok(h, "adopt")
       \/ Failed(h, "scan") /\ UNCHANGED latest
    /\ UNCHANGED <<queue, rows, proposals>>

(* harness_run_id = _latest_run_id(), once init-fixture has returned.       *)
Adopt(h) ==
    /\ At(h, "adopt")
    /\ harness' = [harness EXCEPT ![h].run = latest, ![h].pc = "plan"]
    /\ UNCHANGED <<latest, queue, rows, proposals>>

(* plan, run-next and research-proxy look for the newest run themselves.    *)
Plan(h) ==
    /\ At(h, "plan")
    /\ IF queue[latest] # 0
       THEN Failed(h, "run-next") /\ UNCHANGED queue
       ELSE /\ NextExpId \in ExpIds
            /\ queue' = [queue EXCEPT ![latest] = NextExpId]
            /\ Ok(h, "run-next")
    /\ UNCHANGED <<latest, rows, proposals>>

(* The packet leaves the queue and its row is written: completed, with a    *)
(* valid submission or without (run-next does not look at it, and a         *)
(* provider that failed is no failure of the step), or blocked.             *)
RunNext(h) ==
    LET e == queue[latest]
    IN  /\ At(h, "run-next")
        /\ e # 0 /\ rows[e] = NoRow
        /\ \E artifact \in {"invalid", "valid"}, second \in Now :
             /\ rows' = [rows EXCEPT ![e] = Draft(h, latest, "calibration", artifact, 0, second)]
             /\ \/ Ok(h, "research-proxy")
                \/ artifact = "invalid" /\ Failed(h, "research-proxy")
        /\ queue' = [queue EXCEPT ![latest] = 0]
        /\ UNCHANGED <<latest, proposals>>

(* There is no packet, or the kill switch or a cap refuses it and it stays, *)
(* or the provider is not there and the packet is lost.                     *)
RunNextFails(h) ==
    /\ At(h, "run-next")
    /\ \/ UNCHANGED queue
       \/ queue' = [queue EXCEPT ![latest] = 0]
    /\ Failed(h, "research-proxy")
    /\ UNCHANGED <<latest, rows, proposals>>

(* The chain is complete, or its implementation is not valid or not there:  *)
(* that row is blocked and the step has failed.                             *)
Research(h) ==
    LET e == NextExpId
    IN  /\ At(h, "research-proxy")
        /\ e + 1 \in ExpIds
        /\ \E artifact \in {"none", "invalid", "valid"}, t \in Now, u \in Now :
             /\ t <= u
             /\ rows' = [rows EXCEPT
                  ![e] = Draft(h, latest, "advice", "valid", 0, t),
                  ![e + 1] = Draft(h, latest, "implementation", artifact, 0, u)]
             /\ IF artifact = "valid" THEN Ok(h, "impl row") ELSE Failed(h, "impl row")
        /\ UNCHANGED <<latest, queue, proposals>>

(* It ends before the implementation has a row, or without any row.         *)
ResearchFails(h) ==
    /\ At(h, "research-proxy")
    /\ \/ UNCHANGED rows
       \/ /\ NextExpId \in ExpIds
          /\ \E second \in Now :
               rows' = [rows EXCEPT ![NextExpId] =
                          Draft(h, latest, "advice", "none", 0, second)]
    /\ Failed(h, "impl row")
    /\ UNCHANGED <<latest, queue, proposals>>

(* _lookup_latest_impl_row: any implementation row of the run will do, also *)
(* one that is blocked.                                                     *)
LookupImpl(h) ==
    /\ At(h, "impl row")
    /\ LET found == StepRows(harness[h].run, "implementation")
       IN  \/ \E e \in found :
                /\ Greatest(found, e)
                /\ harness' = [harness EXCEPT ![h].impl = e, ![h].pc = "evaluate"]
           \/ found = {} /\ Ok(h, "scan")
    /\ UNCHANGED <<latest, queue, rows, proposals>>

(* evaluate --latest: the newest row of all has a submission, and it is     *)
(* scored if it is valid.                                                   *)
Evaluate(h) ==
    /\ At(h, "evaluate")
    /\ \E e \in ExpIds :
         /\ IsLatest(e)
         /\ IF rows[e].step \in {"calibration", "implementation"}
               /\ rows[e].artifact = "valid"
            THEN /\ rows' = [rows EXCEPT ![e].scored = TRUE]
                 /\ harness' = [harness EXCEPT ![h].evaluated = e, ![h].pc = "review"]
            ELSE Failed(h, "review") /\ UNCHANGED rows
    /\ UNCHANGED <<latest, queue, proposals>>

(* mutant: a review that failed leaves no line in the table.                *)
ReviewUnreported(h) ==
    LET e == harness[h].impl
    IN  /\ At(h, "review")
        /\ \/ /\ rows[e].artifact # "none"
              /\ NextExpId \in ExpIds
              /\ \E artifact \in {"none", "valid"}, second \in Now :
                   /\ rows' = [rows EXCEPT ![NextExpId] =
                        Draft(h, rows[e].run, "review", artifact, e, second)]
                   /\ IF artifact = "valid"
                      THEN Ok(h, "review row")
                      ELSE Ok(h, "scan")
           \/ UNCHANGED rows /\ Ok(h, "scan")
        /\ UNCHANGED <<latest, queue, proposals>>

(* review --experiment: its row goes to the run of its subject.  It may be  *)
(* blocked, or there may be none; a subject without submission is refused.  *)
(* After a review that failed, memory propose is not put in the table.      *)
Review(h) ==
    LET e == harness[h].impl
    IN  /\ At(h, "review")
        /\ \/ /\ rows[e].artifact # "none"
              /\ NextExpId \in ExpIds
              /\ \E artifact \in {"none", "valid"}, second \in Now :
                   /\ rows' = [rows EXCEPT ![NextExpId] =
                        Draft(h, rows[e].run, "review", artifact, e, second)]
                   /\ IF artifact = "valid"
                      THEN Ok(h, "review row")
                      ELSE Failed(h, "scan")
           \/ UNCHANGED rows /\ Failed(h, "scan")
        /\ UNCHANGED <<latest, queue, proposals>>

(* _lookup_latest_review_row: perhaps the review of another harness that    *)
(* adopted the same run.                                                    *)
LookupReview(h) ==
    /\ At(h, "review row")
    /\ LET found == StepRows(harness[h].run, "review")
       IN  IF found = {}
           THEN Ok(h, "scan")
           ELSE \E e \in found :
                  /\ Greatest(found, e)
                  /\ harness' = [harness EXCEPT ![h].review = e, ![h].pc = "memory propose"]
    /\ UNCHANGED <<latest, queue, rows, proposals>>

(* memory propose --review: a review row without its file is refused.  An   *)
(* id is taken from the directory and nothing put there to keep it; seen is *)
(* whose proposals were there.                                              *)
MintProposal(h) ==
    /\ At(h, "memory propose")
    /\ IF rows[harness[h].review].artifact = "valid"
       THEN /\ NextMemId \in MemIds
            /\ harness' = [harness EXCEPT ![h].mem = NextMemId,
                              ![h].seen = {proposals[i].by : i \in Filed},
                              ![h].pc = "write proposal"]
       ELSE Failed(h, "scan")
    /\ UNCHANGED <<latest, queue, rows, proposals>>

(* write_text, over whatever has come to be there.                          *)
WriteProposal(h) ==
    /\ At(h, "write proposal")
    /\ proposals' = [proposals EXCEPT ![harness[h].mem] =
           [by |-> h, run |-> harness[h].run, review |-> harness[h].review]]
    /\ Ok(h, "scan")
    /\ UNCHANGED <<latest, queue, rows>>

(* self-improve scan and report need a run, and change nothing here; then   *)
(* the table is shown, and its failures give the exit code.                 *)
ScanAndReport(h) ==
    /\ At(h, "scan")
    /\ IF latest = 0 \/ harness[h].failed THEN Failed(h, "exit 1") ELSE Ok(h, "exit 0")
    /\ UNCHANGED <<latest, queue, rows, proposals>>

(* A command raises what the harness does not catch (IntegrityError, a file *)
(* that is not JSON), or the process dies: the remaining steps are not run. *)
(* The id it took and what it saw are kept, for what is said of its file.   *)
Abort(h) ==
    /\ harness[h].pc \notin {"exit 0", "exit 1", "aborted"}
    /\ harness' = [harness EXCEPT ![h] =
           [NotStarted EXCEPT !.pc = "aborted", !.mem = harness[h].mem, !.seen = harness[h].seen]]
    /\ UNCHANGED <<latest, queue, rows, proposals>>

Next ==
    \E h \in Harnesses :
        \/ InitFixture(h) \/ Adopt(h) \/ Plan(h) \/ RunNext(h) \/ RunNextFails(h)
        \/ Research(h) \/ ResearchFails(h) \/ LookupImpl(h) \/ Evaluate(h)
        \/ Review(h) \/ LookupReview(h) \/ MintProposal(h) \/ WriteProposal(h)
        \/ ScanAndReport(h) \/ Abort(h)

Spec == Init /\ [][Next]_vars

-----------------------------------------------------------------------------
(* Properties. *)

(* Every memory proposal of a harness comes from a review in the run that   *)
(* it adopted, of an implementation in that run, whatever newer runs and    *)
(* rows another harness adds meanwhile (cli.py: "avoids cross-run row       *)
(* pickup").                                                                *)
OwnRunOnly ==
    \A i \in Filed :
        LET m == proposals[i]
            review == rows[m.review]
        IN  /\ review.step = "review" /\ review.run = m.run
            /\ rows[review.subject].step = "implementation"
            /\ rows[review.subject].run = m.run

(* evaluate takes the newest row of all and review the implementation row   *)
(* of the run.  For a harness that wrote that implementation itself, the    *)
(* two differ only by a row of another harness, never by an earlier row of  *)
(* its own, also when all its rows are of one second.                       *)
ScoresWhatItReviews ==
    \A h \in Harnesses :
        LET scored == harness[h].evaluated
            impl == harness[h].impl
        IN  scored \notin {0, impl} /\ rows[impl].by = h => rows[scored].by # h

(* Exit code 0 ("iff every step is ok or skipped-by-design") means that the *)
(* research of the harness ended with an implementation row of its own.     *)
(* Where it then found none in the run it adopted and skipped the rest, its *)
(* own is in a newer run.  Else a row was scored and its memory proposal    *)
(* filed: the file is still its own, or of another harness that had taken   *)
(* the same id before the file was there.                                   *)
ExitMeansDone ==
    \A h \in Harnesses :
        LET impl == harness[h].impl
            file == proposals[harness[h].mem]
        IN  harness[h].pc = "exit 0" =>
              /\ \E e \in Recorded :
                   /\ rows[e].by = h /\ rows[e].step = "implementation"
                   /\ rows[e].artifact = "valid"
                   /\ impl = 0 => rows[e].run > harness[h].run
              /\ impl # 0 =>
                   /\ harness[h].evaluated # 0 /\ rows[harness[h].evaluated].scored
                   /\ harness[h].mem \in Filed
                   /\ file.by = h \/ h \notin harness[file.by].seen
=============================================================================
