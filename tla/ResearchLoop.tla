---------------------------- MODULE ResearchLoop -----------------------------
(***************************************************************************)
(* The commands `research-proxy` and `review` (arena/cli.py) over what     *)
(* they share: the scoreboard, the worktrees of the experiments and the    *)
(* trace.  research-proxy invokes providers in up to four steps under one  *)
(* governor and writes one row per step; review takes one of its           *)
(* implementation rows and writes one row of its own.                      *)
(*                                                                         *)
(* As in RunNext each command is a process, one action is one access to    *)
(* what is shared with the local code that follows it, and a process may   *)
(* die anywhere.  The reproducibility checks are RunNext's: here they pass *)
(* or end the command.                                                     *)
(***************************************************************************)
EXTENDS BudgetGovernor, FiniteSets, FiniteSetsExt

CONSTANTS
    Procs,          \* CLI processes (terminals) that may run at once
    Advisors,       \* the providers of every step but the implementation
    Implementer,    \* the provider of the implementation
    FusionIds,      \* the fusion_id a proposal may carry
    Usages,         \* the usages an invocation may report
    Outcomes,       \* what an invocation may come to, and "crash"
    NoRow, NoFile, NoToken, \* what is not there
    MaxRuns, MaxExp, MaxCommands    \* bounds of the model

ASSUME ResearchAssumption ==
    /\ IsFiniteSet(Procs) /\ Procs # {}
    /\ Advisors \subseteq Providers /\ Implementer \in Providers
    /\ Usages \subseteq Usage
    /\ Outcomes \subseteq {"artifact", "unusable", "stopped", "raises", "crash"}
    /\ NoToken \notin FusionIds
    /\ MaxRuns \in Nat /\ MaxExp \in Nat /\ MaxCommands \in Nat

VARIABLES
    latest,     \* runs/run_*: the newest is number latest
    rows,       \* the experiments table, by experiment id
    files,      \* the artifacts in worktrees/<slug>/<experiment id>
    invoked,    \* per run and provider, its provider_invoked events
    commands,   \* how many commands were started (bounds the model)
    proc        \* per process, its program counter and local variables

vars == <<latest, rows, files, invoked, commands, proc>>

-----------------------------------------------------------------------------
RunIds == 1 .. MaxRuns
ExpIds == 1 .. MaxExp

Chain == <<"question", "digest", "fusion", "implementation">>
Steps == {"question", "digest", "fusion", "implementation", "review"}

(* An artifact: the command that had it written, the fusion_id it carries,  *)
(* and whether it is good: a proposal that passes the gate, a submission    *)
(* that is valid.                                                           *)
Artifact == [by : 1 .. MaxCommands, fusion : FusionIds \cup {NoToken},
             good : BOOLEAN]

(* A row of the experiments table.  Of artifact_paths: the step, the fusion *)
(* token, and whether the path of the step's artifact is there (the path    *)
(* itself follows from the id).  Not in the row, but in the packet that led *)
(* to it: the command, and what a review looked at.                         *)
Row == [run : RunIds, step : Steps, prov : Providers,
        status : {"completed", "blocked"}, usage : Usage,
        token : FusionIds \cup {NoToken}, file : BOOLEAN, scored : BOOLEAN,
        by : 1 .. MaxCommands, subject : 0 .. MaxExp, proposal : 0 .. MaxExp]

ASSUME ResearchSentinels == NoRow \notin Row /\ NoFile \notin Artifact

(* The local variables of a command: the row it is about to write, the      *)
(* accumulators of its governor, in_flight["invocation_started"], and its   *)
(* payload, the artifact it read last.                                      *)
Idle == "idle"

IdleProc == [pc |-> Idle, exp |-> 0, row |-> NoRow, acc |-> ZeroAccumulators,
             started |-> FALSE, payload |-> NoFile]

-----------------------------------------------------------------------------
(* The scoreboard. *)
Recorded == {e \in ExpIds : rows[e] # NoRow}
RowsOf(r) == {e \in Recorded : rows[e].run = r}

(* get_run_usage_totals *)
Accumulators(r) ==
    LET Total(f(_)) == MapThenSumSet(LAMBDA e : f(rows[e].usage), RowsOf(r))
    IN  [calls  |-> [s \in Scopes |-> Cardinality(
                       {e \in RowsOf(r) : rows[e].prov \in Members[s]})],
         wall   |-> Total(LAMBDA u : u.wall),
         waste  |-> Total(LAMBDA u : u.waste),
         input  |-> Total(LAMBDA u : u.input),
         output |-> Total(LAMBDA u : u.output)]

(* get_next_experiment_id *)
NextExpId == Max({0} \cup Recorded) + 1

-----------------------------------------------------------------------------
Init ==
    /\ latest = 0
    /\ rows = [e \in ExpIds |-> NoRow]
    /\ files = [e \in ExpIds |-> [s \in Steps |-> NoFile]]
    /\ invoked = [r \in RunIds |-> [v \in Providers |-> 0]]
    /\ commands = 0
    /\ proc = [p \in Procs |-> IdleProc]

At(p, label) == proc[p].pc = label
Become(p, r) == proc' = [proc EXCEPT ![p] = r]
Exit(p) == Become(p, IdleProc)

(* init-fixture: a new run directory is the newest.                         *)
InitFixture ==
    /\ latest < MaxRuns
    /\ latest' = latest + 1
    /\ UNCHANGED <<rows, files, invoked, commands, proc>>

-----------------------------------------------------------------------------
(* The row a command would write next.  Each step sets all of it anew.      *)
Draft(run, step, prov, subject, proposal) ==
    [run |-> run, step |-> step, prov |-> prov, status |-> "completed",
     usage |-> ZeroUsage, token |-> NoToken, file |-> FALSE, scored |-> FALSE,
     by |-> commands + 1, subject |-> subject, proposal |-> proposal]

StartCommand(p, draft) ==
    /\ At(p, Idle)
    /\ commands < MaxCommands
    /\ commands' = commands + 1
    /\ Become(p, [IdleProc EXCEPT !.pc = "precheck", !.row = draft])
    /\ UNCHANGED <<latest, rows, files, invoked>>

(* research-proxy works on the newest run.                                  *)
StartResearch(p) ==
    /\ latest > 0
    /\ \E v \in Advisors : StartCommand(p, Draft(latest, "question", v, 0, 0))

(* The fusion rows that carry the token of row e, in its run: fetchone      *)
(* returns the first that was inserted.                                     *)
ProposalsOf(e) ==
    {d \in RowsOf(rows[e].run) :
        rows[d].step = "fusion" /\ rows[d].file /\ rows[d].token = rows[e].token}

(* mutant: proposals are looked up in all runs.                             *)
ProposalsAnyRun(e) ==
    {d \in Recorded :
        rows[d].step = "fusion" /\ rows[d].file /\ rows[d].token = rows[e].token}

(* The rows review accepts: a fusion token and a submission.csv.            *)
Reviewable(e) ==
    /\ rows[e].token # NoToken
    /\ rows[e].step = "implementation" /\ rows[e].file
    /\ ProposalsOf(e) # {}

(* mutant: the proposal is looked up in all runs.                           *)
StartReviewAnyRun(p) ==
    \E e \in Recorded, v \in Advisors :
        /\ Reviewable(e)
        /\ StartCommand(p, Draft(rows[e].run, "review", v, e,
                                 Min(ProposalsAnyRun(e))))

(* review works on the run of the row it is given.  (Other rows are refused *)
(* with nothing changed.)                                                   *)
StartReview(p) ==
    \E e \in Recorded, v \in Advisors :
        /\ Reviewable(e)
        /\ StartCommand(p, Draft(rows[e].run, "review", v, e,
                                 Min(ProposalsOf(e))))

(* mutant: the first step keeps the empty ids of in_flight.                 *)
PrecheckMintsNothing(p) ==
    /\ At(p, "precheck")
    /\ \/ Exit(p)
       \/ Become(p, [proc[p] EXCEPT !.pc = "check",
                                    !.acc = Accumulators(proc[p].row.run)])
    /\ UNCHANGED <<latest, rows, files, invoked, commands>>

(* The reproducibility checks end the command, or its governor is seeded    *)
(* from the rows of the run.                                                *)
Precheck(p) ==
    /\ At(p, "precheck")
    /\ \/ Exit(p)
       \/ Become(p, [proc[p] EXCEPT !.pc = "mint",
                                    !.acc = Accumulators(proc[p].row.run)])
    /\ UNCHANGED <<latest, rows, files, invoked, commands>>

-----------------------------------------------------------------------------
(* One step. *)

(* mutant: in_flight["invocation_started"] is not reset.                    *)
MintKeepsStarted(p) ==
    /\ At(p, "mint")
    /\ \E e \in ExpIds :
         /\ e = NextExpId
         /\ Become(p, [proc[p] EXCEPT !.pc = "check", !.exp = e])
    /\ UNCHANGED <<latest, rows, files, invoked, commands>>

(* _step_ids, and in_flight is set up for the step.                         *)
Mint(p) ==
    /\ At(p, "mint")
    /\ \E e \in ExpIds :
         /\ e = NextExpId
         /\ Become(p, [proc[p] EXCEPT !.pc = "check", !.exp = e,
                                      !.started = FALSE])
    /\ UNCHANGED <<latest, rows, files, invoked, commands>>

(* _persist_inflight_blocked: a blocked row, with what usage is known, if   *)
(* the invocation has started.                                              *)
PersistBlocked(p, usage) ==
    IF proc[p].started
    THEN Become(p, [proc[p] EXCEPT !.pc = "persist", !.row.status = "blocked",
                                   !.row.usage = usage])
    ELSE Exit(p)

(* check_can_invoke passes: provider_invoked is emitted, the adapter runs.  *)
Invoke(p) ==
    LET row == proc[p].row
    IN  /\ At(p, "check")
        /\ PreInvokeOk(proc[p].acc.calls, row.prov)
        /\ invoked' = [invoked EXCEPT ![row.run][row.prov] = @ + 1]
        /\ Become(p, [proc[p] EXCEPT !.pc = "invoking", !.started = TRUE])
        /\ UNCHANGED <<latest, rows, files, commands>>

(* It raises: BudgetExceeded has the handler of the breakers, the kill      *)
(* switch one that only exits.                                              *)
Refuse(p) ==
    /\ At(p, "check")
    /\ \/ /\ ~PreInvokeOk(proc[p].acc.calls, proc[p].row.prov)
          /\ PersistBlocked(p, ZeroUsage)
       \/ Exit(p)
    /\ UNCHANGED <<latest, rows, files, invoked, commands>>

(* The artifact a provider may write at step s.  An implementation carries  *)
(* the fusion_id that stub_codex reads in the proposal of its packet.       *)
MayWrite(p) ==
    LET s == proc[p].row.step
    IN  [by : {proc[p].row.by},
         fusion : CASE s = "fusion" -> FusionIds
                    [] s = "implementation"
                         -> {files[proc[p].row.proposal]["fusion"].fusion}
                    [] OTHER -> {NoToken},
         good : IF s \in {"fusion", "implementation"} THEN BOOLEAN ELSE {TRUE}]

(* mutant: the governor forgets the invocation.                             *)
RecordForgets(p, usage) ==
    [acc |-> proc[p].acc,
     breaker |-> RecordPostInvoke(proc[p].acc, proc[p].row.prov, usage).breaker]

Record(p, usage) == RecordPostInvoke(proc[p].acc, proc[p].row.prov, usage)

(* The adapter returned: the usage is recorded, and a breach persists it.   *)
Returned(p, usage, Otherwise) ==
    IF Record(p, usage).breaker # NoBreaker
    THEN PersistBlocked(p, usage)
    ELSE Otherwise

(* The command has the path of the artifact.                                *)
Accept(p, usage) ==
    Become(p, [proc[p] EXCEPT !.pc = "collect", !.row.usage = usage,
                              !.acc = Record(p, usage).acc])

(* The adapter writes the artifact of the step and returns its path.        *)
InvokeReturns(p) ==
    /\ At(p, "invoking")
    /\ "artifact" \in Outcomes
    /\ \E usage \in Usages, artifact \in MayWrite(p) :
         /\ files' = [files EXCEPT ![proc[p].exp][proc[p].row.step] = artifact]
         /\ Returned(p, usage, Accept(p, usage))
    /\ UNCHANGED <<latest, rows, invoked, commands>>

(* mutant: the artifact is looked for in the worktree, where an earlier     *)
(* command may have left one.                                               *)
UnusableTakesFile(p) ==
    /\ At(p, "invoking")
    /\ "unusable" \in Outcomes
    /\ \E usage \in Usages :
         Returned(p, usage, IF files[proc[p].exp][proc[p].row.step] = NoFile
                            THEN Exit(p) ELSE Accept(p, usage))
    /\ UNCHANGED <<latest, rows, files, invoked, commands>>

(* The adapter returns without the artifact, as it does after a failure or  *)
(* a timeout: _require_artifact raises BadParameter, which nothing catches. *)
(* So does an artifact that is not JSON, or not of its schema.              *)
InvokeUnusable(p) ==
    /\ At(p, "invoking")
    /\ "unusable" \in Outcomes
    /\ \E usage \in Usages : Returned(p, usage, Exit(p))
    /\ UNCHANGED <<latest, rows, files, invoked, commands>>

(* A live waste cap or the sandbox stops the adapter: no usage is known.    *)
InvokeStopped(p) ==
    /\ At(p, "invoking")
    /\ "stopped" \in Outcomes
    /\ PersistBlocked(p, ZeroUsage)
    /\ UNCHANGED <<latest, rows, files, invoked, commands>>

(* The adapter raises something else, ProviderUnavailable for one.          *)
InvokeRaises(p) ==
    /\ At(p, "invoking")
    /\ "raises" \in Outcomes
    /\ Exit(p)
    /\ UNCHANGED <<latest, rows, files, invoked, commands>>

(* The artifact is read back.  Its fusion_id becomes the token of the row;  *)
(* a submission is evaluated, and an invalid one blocks.                    *)
Collect(p) ==
    LET artifact == files[proc[p].exp][proc[p].row.step]
        invalid == proc[p].row.step = "implementation" /\ ~artifact.good
    IN  /\ At(p, "collect")
        /\ Become(p, [proc[p] EXCEPT !.pc = "persist", !.payload = artifact,
                        !.row.token = artifact.fusion, !.row.file = TRUE,
                        !.row.status = IF invalid THEN "blocked" ELSE @])
        /\ UNCHANGED <<latest, rows, files, invoked, commands>>

(* mutant: the gate lets every proposal through.                            *)
GateOpen(p) == TRUE

(* score_fusion_proposal and is_eligible of the payload in memory.          *)
Gate(p) == proc[p].payload.good

(* The next step of research-proxy: its packet and in_flight.               *)
Continue(p, step, prov, proposal) ==
    Become(p, [proc[p] EXCEPT !.pc = "mint", !.payload = NoFile,
                 !.row = [@ EXCEPT !.step = step, !.prov = prov,
                            !.usage = ZeroUsage, !.status = "completed",
                            !.token = NoToken, !.file = FALSE,
                            !.proposal = proposal]])

(* mutant: a blocked step does not end research-proxy.                      *)
AfterRowGoesOn(p) ==
    LET row == proc[p].row
    IN  CASE row.step = "question" -> Continue(p, "digest", row.prov, 0)
          [] row.step = "digest" -> Continue(p, "fusion", row.prov, 0)
          [] row.step = "fusion" /\ row.file /\ Gate(p)
               -> Continue(p, "implementation", Implementer, proc[p].exp)
          [] row.step = "implementation" /\ row.status = "completed"
               -> Become(p, [proc[p] EXCEPT !.pc = "score"])
          [] OTHER -> Exit(p)

(* What follows the insert: a blocked row is the command's last.            *)
AfterRow(p) ==
    LET row == proc[p].row
    IN  IF row.status = "blocked" THEN Exit(p)
        ELSE CASE row.step = "question"
                    -> Continue(p, "digest", row.prov, 0)
               [] row.step = "digest"
                    -> Continue(p, "fusion", row.prov, 0)
               [] row.step = "fusion" /\ Gate(p)
                    -> Continue(p, "implementation", Implementer, proc[p].exp)
               [] row.step = "implementation"
                    -> Become(p, [proc[p] EXCEPT !.pc = "score"])
               [] OTHER -> Exit(p)

(* mutant: INSERT OR REPLACE.                                               *)
PersistReplaces(p) ==
    /\ At(p, "persist")
    /\ rows' = [rows EXCEPT ![proc[p].exp] = proc[p].row]
    /\ AfterRow(p)
    /\ UNCHANGED <<latest, files, invoked, commands>>

(* insert_experiment: another command may have taken the id, then           *)
(* IntegrityError leaves the command.                                       *)
Persist(p) ==
    /\ At(p, "persist")
    /\ IF rows[proc[p].exp] # NoRow
       THEN Exit(p) /\ UNCHANGED rows
       ELSE /\ rows' = [rows EXCEPT ![proc[p].exp] = proc[p].row]
            /\ AfterRow(p)
    /\ UNCHANGED <<latest, files, invoked, commands>>

(* update_experiment_score is a commit of its own.                          *)
Score(p) ==
    /\ At(p, "score")
    /\ rows' = [rows EXCEPT ![proc[p].exp].scored = TRUE]
    /\ Exit(p)
    /\ UNCHANGED <<latest, files, invoked, commands>>

(* The process dies.                                                        *)
Crash(p) ==
    /\ "crash" \in Outcomes
    /\ ~At(p, Idle)
    /\ Exit(p)
    /\ UNCHANGED <<latest, rows, files, invoked, commands>>

Next ==
    \/ InitFixture
    \/ \E p \in Procs :
         \/ StartResearch(p) \/ StartReview(p) \/ Precheck(p)
         \/ Mint(p) \/ Invoke(p) \/ Refuse(p)
         \/ InvokeReturns(p) \/ InvokeUnusable(p) \/ InvokeStopped(p)
         \/ InvokeRaises(p) \/ Collect(p) \/ Persist(p) \/ Score(p) \/ Crash(p)

Spec == Init /\ [][Next]_vars

-----------------------------------------------------------------------------
(* Properties. *)

(* The tables, files and local variables hold what the code puts there, and *)
(* a row is written only under an id that was minted.                       *)
TypeOK ==
    /\ latest \in 0 .. MaxRuns
    /\ rows \in [ExpIds -> Row \cup {NoRow}]
    /\ files \in [ExpIds -> [Steps -> Artifact \cup {NoFile}]]
    /\ invoked \in [RunIds -> [Providers -> Nat]]
    /\ commands \in 0 .. MaxCommands
    /\ \A p \in Procs :
         /\ proc[p].pc \in {Idle, "precheck", "mint", "check", "invoking",
                            "collect", "persist", "score"}
         /\ proc[p].pc \in {"check", "invoking", "collect", "persist", "score"}
              => proc[p].exp \in ExpIds
         /\ proc[p].row \in Row \cup {NoRow}
         /\ proc[p].pc = Idle <=> proc[p].row = NoRow
         /\ proc[p].payload \in Artifact \cup {NoFile}

(* A call that the budget or the kill switch refused leaves no row, in      *)
(* whichever step and after whatever steps: the rows of a run never claim   *)
(* more invocations than its trace shows.                                   *)
NoPhantomCalls ==
    \A r \in RunIds, v \in Providers :
        Cardinality({e \in RowsOf(r) : rows[e].prov = v}) <= invoked[r][v]

(* The rows of one research-proxy are its steps in order, from the first    *)
(* on, in one run, and none follows a blocked one; also when several        *)
(* commands write in turn.                                                  *)
ChainOrder ==
    \A e \in Recorded :
        LET before == {d \in Recorded : rows[d].by = rows[e].by /\ d < e}
        IN  /\ \A d \in before : /\ rows[d].status = "completed"
                                 /\ rows[d].run = rows[e].run
            /\ rows[e].step = "review" => before = {}
            /\ rows[e].step # "review" =>
                 LET n == Cardinality(before) + 1
                 IN  /\ n <= 4 /\ rows[e].step = Chain[n]

(* The artifact a row points to was written by the invocation that the row  *)
(* is about, although a command that left no row may have left a file under *)
(* the same id.                                                             *)
OwnArtifacts ==
    \A e \in Recorded :
        rows[e].file => files[e][rows[e].step].by = rows[e].by

(* What was implemented, evaluated and linked by its token is the proposal  *)
(* of the same command, and that passed the gate.                           *)
ImplementsGated ==
    \A e \in Recorded : rows[e].step = "implementation" =>
        LET proposal == files[rows[e].proposal]["fusion"]
        IN  /\ rows[rows[e].proposal].by = rows[e].by
            /\ proposal.good
            /\ rows[e].file => rows[e].token = proposal.fusion

(* The rows of a run exceed a call ceiling by at most a chain for every     *)
(* process but one, though four invocations of a command share one seed;    *)
(* one command at a time, they never do.                                    *)
RowBudget ==
    \A r \in RunIds, s \in Scopes :
        Cardinality({e \in RowsOf(r) : rows[e].prov \in Members[s]})
            <= Ceilings.calls[s] + Len(Chain) * (Cardinality(Procs) - 1)

(* A review, its subject and the proposal it reads are of one run, whatever *)
(* run is the newest and although fusion ids repeat from run to run.        *)
ReviewInRun ==
    \A e \in Recorded : rows[e].step = "review" =>
        /\ rows[rows[e].subject].run = rows[e].run
        /\ rows[rows[e].proposal].run = rows[e].run

(* No command changes a row of another one, also when both have its id.     *)
RowsKept ==
    [][\A e \in Recorded :
         rows'[e] \in {rows[e], [rows[e] EXCEPT !.scored = TRUE]}]_vars

-----------------------------------------------------------------------------
(* The docstring of review: it locates the originating fusion_proposal.json *)
(* of the implementation row.                                               *)
ReviewsOriginating ==
    \A e \in Recorded : rows[e].step = "review" =>
        rows[rows[e].proposal].by = rows[rows[e].subject].by

(* The docstring of research-proxy: one row per provider invocation, so the *)
(* caps see all calls.                                                      *)
CapsSeeAllCalls ==
    \A r \in RunIds, s \in Scopes :
        MapThenSumSet(LAMBDA v : invoked[r][v], Members[s]) <= Ceilings.calls[s]
=============================================================================
