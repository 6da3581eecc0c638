------------------------------ MODULE RunNext ------------------------------
(***************************************************************************)
(* The calibration task path of the arena CLI: `init-fixture`, `plan`,     *)
(* `run-next`, `kill` and `unkill` (arena/cli.py), over the durable state  *)
(* they share: the file-backed TaskQueue, the scoreboard, the trace files, *)
(* the reproducibility baselines and the kill-switch file.                 *)
(*                                                                         *)
(* Every command is an operating-system process of its own, nothing locks  *)
(* the store, and the code between two reads or writes of a shared file is *)
(* local.  So each process has a program counter that names the next       *)
(* shared access, and one action is one such access with the local code    *)
(* that follows it.  A process that dies forgets everything but the files. *)
(***************************************************************************)
EXTENDS BudgetGovernor, FiniteSets, FiniteSetsExt

CONSTANTS
    Procs,          \* CLI processes (terminals) that may run at once
    RealProviders,  \* providers that are subprocesses and can be unavailable
    Usages,         \* the usages an invocation may report
    ResultStatuses, \* the statuses a ProviderResult may carry
    Digests,        \* fixture-set digests
    Faults,         \* which faults the environment may inject
    NoFile,         \* a baseline or packet file that does not exist
    Torn,           \* a file whose content json.loads rejects
    Foreign,        \* a file that someone else has changed into what its reader
                    \* does not expect: bytes that are not UTF-8, JSON that is
                    \* not an object, a manifest without its list of files
    NoRow,          \* an experiment id without a row
    MaxRuns, MaxExp, MaxPlans   \* bounds of the model

Missing == "missing"    \* the digest of a fixture without its manifest

FaultKinds == {"crash", "corrupt", "edit", "foreign", "midrun", "unavailable"}

ASSUME RunNextAssumption ==
    /\ IsFiniteSet(Procs) /\ Procs # {}
    /\ RealProviders \subseteq Providers
    /\ Usages \subseteq Usage
    /\ Missing \notin Digests
    /\ Faults \subseteq FaultKinds
    /\ MaxRuns \in Nat /\ MaxExp \in Nat /\ MaxPlans \in Nat

VARIABLES
    latest,     \* runs/run_*: the number of runs; the newest is number latest
    queue,      \* runs/<run>/queue/task_0001.json, per run
    inode,      \* which file has that name, or had it last: files are numbered
                \* as they are created, 0 for none
    rows,       \* the experiments table, by experiment id
    trace,      \* per run, how many events of the watchdog's three types
    killFile,   \* .arena/KILL_SWITCH exists
    fixture,    \* digest of the fixture directory as it is now
    fixtureBase,    \* runs/.baselines/<slug>/fixture_hash.json
    versionBase,    \* runs/.baselines/<slug>/provider_versions.json
    planned,    \* number of packets written so far (bounds the model)
    proc        \* per process, its program counter and local variables

store == <<latest, queue, inode, rows, trace>>
baselines == <<fixtureBase, versionBase>>
vars == <<latest, queue, inode, rows, trace, killFile, fixture, fixtureBase,
          versionBase, planned, proc>>

-----------------------------------------------------------------------------
RunIds == 1 .. MaxRuns
ExpIds == 1 .. MaxExp

(* create_calibration_task_packet: what tells two packets apart. *)
Packet == [exp : ExpIds, prov : Providers]

Reasons == {NoBreaker, "BLOCKED_REPRODUCIBILITY", "Sandbox"} \cup Breakers

(* What a process is about to write into its row. *)
Outcome == [status : ResultStatuses \cup {"blocked"},
            reason : Reasons, usage : Usage \cup {ZeroUsage}]

(* A row; digest is the sha256 of the run_started event of the same         *)
(* command, kept here to say which fixture the row was produced on.         *)
Row == [run : RunIds, prov : Providers, out : Outcome,
        digest : Digests \cup {Missing}]

ASSUME SentinelAssumption ==
    /\ NoFile # Torn /\ Foreign \notin {NoFile, Torn}
    /\ \A none \in {NoFile, Torn, Foreign} :
         /\ none \notin Packet
         /\ none \notin Digests \cup {Missing}
         /\ \A S \in SUBSET Providers : none # S
    /\ NoRow \notin Row /\ NoRow \notin Outcome

Idle == "idle"

IdleProc == [pc |-> Idle, run |-> 0, prov |-> "none", seeded |-> {},
             packet |-> NoFile, file |-> 0, digest |-> Missing, seen |-> {},
             out |-> NoRow]

-----------------------------------------------------------------------------
(* Reads of the scoreboard. *)
Recorded == {e \in ExpIds : rows[e] # NoRow}
RowsOf(r) == {e \in Recorded : rows[e].run = r}

(* mutant: blocked rows do not count as provider calls. *)
CallsWithoutBlocked(E) ==
    [s \in Scopes |-> Cardinality({e \in E : /\ rows[e].prov \in Members[s]
                                             /\ rows[e].out.status # "blocked"})]

CallsIn(E) == [s \in Scopes |->
                 Cardinality({e \in E : rows[e].prov \in Members[s]})]

(* get_run_usage_totals over the rows E. *)
Accumulators(E) ==
    LET Total(f(_)) == MapThenSumSet(LAMBDA e : f(rows[e].out.usage), E)
    IN  [calls  |-> CallsIn(E),
         wall   |-> Total(LAMBDA u : u.wall),
         waste  |-> Total(LAMBDA u : u.waste),
         input  |-> Total(LAMBDA u : u.input),
         output |-> Total(LAMBDA u : u.output)]

(* get_next_experiment_id: one more than the highest id in a row. *)
NextExpId == Max({0} \cup Recorded) + 1

-----------------------------------------------------------------------------
Init ==
    /\ latest = 0
    /\ queue = [r \in RunIds |-> NoFile]
    /\ inode = [r \in RunIds |-> 0]
    /\ rows = [e \in ExpIds |-> NoRow]
    /\ trace = [r \in RunIds |-> [invoked |-> 0, finished |-> 0, broken |-> 0]]
    /\ killFile = FALSE
    /\ fixture \in Digests
    /\ fixtureBase = NoFile
    /\ versionBase = NoFile
    /\ planned = 0
    /\ proc = [p \in Procs |-> IdleProc]

At(p, label) == proc[p].pc = label
Become(p, r) == proc' = [proc EXCEPT ![p] = r]
Goto(p, label) == Become(p, [proc[p] EXCEPT !.pc = label])
Exit(p) == Become(p, IdleProc)

-----------------------------------------------------------------------------
(* init-fixture: the manifest is validated, then the run directory exists   *)
(* and is the newest.  The row it inserts into the table runs is read by    *)
(* no command and left out.                                                 *)
InitFixture ==
    /\ latest < MaxRuns
    /\ fixture \in Digests
    /\ latest' = latest + 1
    /\ UNCHANGED <<queue, inode, rows, trace, killFile, fixture, baselines, planned,
                   proc>>

-----------------------------------------------------------------------------
(* plan: refuse a non-empty queue, mint an experiment id, write the packet. *)
PlanStart(p) ==
    /\ At(p, Idle)
    /\ latest > 0
    /\ queue[latest] = NoFile
    /\ \E v \in Providers :
         Become(p, [IdleProc EXCEPT !.pc = "plan_mint", !.run = latest,
                                    !.prov = v])
    /\ UNCHANGED <<store, killFile, fixture, baselines, planned>>

(* The id is read from the recorded rows and reserved nowhere.              *)
PlanMint(p) ==
    /\ At(p, "plan_mint")
    /\ \E e \in ExpIds :
         /\ e = NextExpId
         /\ Become(p, [proc[p] EXCEPT !.pc = "plan_open",
                         !.packet = [exp |-> e, prov |-> proc[p].prov]])
    /\ UNCHANGED <<store, killFile, fixture, baselines, planned>>

(* The file that opening the packet's name for writing yields: the one that *)
(* has the name, or a new one.                                              *)
Opened(r) == IF queue[r] = NoFile THEN planned + 1 ELSE inode[r]

(* write_text truncates the file when it opens it ...                       *)
PlanOpen(p) ==
    /\ At(p, "plan_open")
    /\ planned < MaxPlans
    /\ queue' = [queue EXCEPT ![proc[p].run] = Torn]
    /\ inode' = [inode EXCEPT ![proc[p].run] = Opened(proc[p].run)]
    /\ planned' = planned + 1
    /\ Become(p, [proc[p] EXCEPT !.pc = "plan_fill",
                                 !.file = Opened(proc[p].run)])
    /\ UNCHANGED <<latest, rows, trace, killFile, fixture, baselines>>

(* ... and the text lands when it closes it, in the inode it opened: if the *)
(* file was unlinked in between the packet is gone.                         *)
PlanFill(p) ==
    /\ At(p, "plan_fill")
    /\ queue' = [queue EXCEPT ![proc[p].run] =
                   IF @ # NoFile /\ inode[proc[p].run] = proc[p].file
                   THEN proc[p].packet ELSE @]
    /\ Exit(p)
    /\ UNCHANGED <<latest, inode, rows, trace, killFile, fixture, baselines, planned>>

-----------------------------------------------------------------------------
(* run-next, up to the dequeue.  A provider that does not resolve exits     *)
(* here with nothing changed.                                               *)
Start(p) ==
    /\ At(p, Idle)
    /\ latest > 0
    /\ \E v \in Providers :
         Become(p, [IdleProc EXCEPT !.pc = "check", !.run = latest,
                                    !.prov = v, !.seeded = RowsOf(latest)])
    /\ UNCHANGED <<store, killFile, fixture, baselines, planned>>

(* Watchdog.check_can_invoke: the kill switch, then the call counts of the  *)
(* accumulators seeded at the start.                                        *)
CanInvoke(p) ==
    /\ ~killFile
    /\ PreInvokeOk(CallsIn(proc[p].seeded), proc[p].prov)

CheckCanInvoke(p) ==
    /\ At(p, "check")
    /\ IF CanInvoke(p) THEN Goto(p, "peek") ELSE Exit(p)
    /\ UNCHANGED <<store, killFile, fixture, baselines, planned>>

(* TaskQueue.peek, and the packet's provider against the command line's.    *)
Peek(p) ==
    /\ At(p, "peek")
    /\ IF /\ queue[proc[p].run] \in Packet
          /\ queue[proc[p].run].prov = proc[p].prov
       THEN Goto(p, "read")
       ELSE Exit(p)
    /\ UNCHANGED <<store, killFile, fixture, baselines, planned>>

(* mutant: the packet read by dequeue is not kept.                          *)
DequeueReadDropsPacket(p) ==
    /\ At(p, "read")
    /\ IF queue[proc[p].run] \in Packet THEN Goto(p, "unlink") ELSE Exit(p)
    /\ UNCHANGED <<store, killFile, fixture, baselines, planned>>

(* TaskQueue.dequeue reads the file again ...                               *)
DequeueRead(p) ==
    /\ At(p, "read")
    /\ IF queue[proc[p].run] \in Packet
       THEN Become(p, [proc[p] EXCEPT !.pc = "unlink",
                                      !.packet = queue[proc[p].run],
                                      !.file = inode[proc[p].run]])
       ELSE Exit(p)
    /\ UNCHANGED <<store, killFile, fixture, baselines, planned>>

(* mutant: path.unlink(missing_ok=True).                                    *)
DequeueUnlinkMissingOk(p) ==
    /\ At(p, "unlink")
    /\ queue' = [queue EXCEPT ![proc[p].run] = NoFile]
    /\ Goto(p, "digest")
    /\ UNCHANGED <<latest, inode, rows, trace, killFile, fixture, baselines,
                   planned>>

(* ... and unlinks whatever file has the name by then, also one it has not  *)
(* read; unlink raises when there is none.                                  *)
DequeueUnlink(p) ==
    /\ At(p, "unlink")
    /\ IF queue[proc[p].run] = NoFile
       THEN Exit(p) /\ UNCHANGED queue
       ELSE /\ queue' = [queue EXCEPT ![proc[p].run] = NoFile]
            /\ Goto(p, "digest")
    /\ UNCHANGED <<latest, inode, rows, trace, killFile, fixture, baselines,
                   planned>>

-----------------------------------------------------------------------------
(* run-next, the reproducibility checks.  Each failure goes on to persist a *)
(* blocked row with no usage.                                               *)
BlockedOutcome(why, u) == [status |-> "blocked", reason |-> why, usage |-> u]

Persist(p, out) == Become(p, [proc[p] EXCEPT !.pc = "persist", !.out = out])

BlockReproducibility(p) ==
    Persist(p, BlockedOutcome("BLOCKED_REPRODUCIBILITY", ZeroUsage))

(* mutants: FileNotFoundError leaves run-next; the drifted digest becomes   *)
(* the new baseline; JSONDecodeError leaves run-next.                       *)
NoManifestRaises(p) == Exit(p)
FixtureDriftAccepted(p) == Goto(p, "fixture_open")
VersionsUnreadableRaises(p) == Exit(p)

(* What run-next does on a fixture without a manifest, on drift, and on a   *)
(* baseline file that json.loads rejects.  Nothing else is caught: what a   *)
(* Foreign manifest or baseline raises leaves run-next, and the task it has *)
(* dequeued is lost.                                                        *)
NoManifest(p) == BlockReproducibility(p)
FixtureDrift(p) == BlockReproducibility(p)
FixtureUnreadable(p) == BlockReproducibility(p)
VersionsUnreadable(p) == BlockReproducibility(p)

(* compute_fixture_set_digest; FileNotFoundError without a manifest, and    *)
(* YAMLError, KeyError or TypeError on one that is not a manifest.          *)
FixtureDigest(p) ==
    /\ At(p, "digest")
    /\ CASE fixture = Missing -> NoManifest(p)
         [] fixture = Foreign -> Exit(p)
         [] OTHER -> Become(p, [proc[p] EXCEPT !.pc = "fixture_read",
                                               !.digest = fixture])
    /\ UNCHANGED <<store, killFile, fixture, baselines, planned>>

(* record_fixture_hash: the first digest becomes the baseline, a different  *)
(* one is drift, a baseline that is no JSON is a violation too; one that is *)
(* no object raises AttributeError, one that is no text UnicodeDecodeError. *)
FixtureRead(p) ==
    /\ At(p, "fixture_read")
    /\ CASE fixtureBase = NoFile          -> Goto(p, "fixture_open")
         [] fixtureBase = proc[p].digest  -> Goto(p, "version_read")
         [] fixtureBase = Torn            -> FixtureUnreadable(p)
         [] fixtureBase = Foreign         -> Exit(p)
         [] OTHER                         -> FixtureDrift(p)
    /\ UNCHANGED <<store, killFile, fixture, baselines, planned>>

FixtureOpen(p) ==
    /\ At(p, "fixture_open")
    /\ fixtureBase' = Torn
    /\ Goto(p, "fixture_fill")
    /\ UNCHANGED <<store, killFile, fixture, versionBase, planned>>

FixtureFill(p) ==
    /\ At(p, "fixture_fill")
    /\ fixtureBase' = proc[p].digest
    /\ Goto(p, "version_read")
    /\ UNCHANGED <<store, killFile, fixture, versionBase, planned>>

(* record_provider_version: a JSON object per slug, here the set of the     *)
(* providers that have an entry.  Version drift only tags the row.          *)
VersionRead(p) ==
    /\ At(p, "version_read")
    /\ CASE versionBase = Torn -> VersionsUnreadable(p)
         [] versionBase = Foreign -> Exit(p)
         [] /\ versionBase \notin {NoFile, Torn, Foreign}
            /\ proc[p].prov \in versionBase
              -> Goto(p, "resolve")
         [] OTHER
              -> Become(p, [proc[p] EXCEPT !.pc = "version_open",
                   !.seen = IF versionBase = NoFile THEN {} ELSE versionBase])
    /\ UNCHANGED <<store, killFile, fixture, baselines, planned>>

VersionOpen(p) ==
    /\ At(p, "version_open")
    /\ versionBase' = Torn
    /\ Goto(p, "version_fill")
    /\ UNCHANGED <<store, killFile, fixture, fixtureBase, planned>>

VersionFill(p) ==
    /\ At(p, "version_fill")
    /\ versionBase' = proc[p].seen \cup {proc[p].prov}
    /\ Goto(p, "resolve")
    /\ UNCHANGED <<store, killFile, fixture, fixtureBase, planned>>

-----------------------------------------------------------------------------
(* run-next, the invocation.  The adapter is resolved a second time, after  *)
(* the dequeue; ProviderUnavailable is not caught there.                    *)
Resolve(p) ==
    /\ At(p, "resolve")
    /\ \/ Goto(p, "invoke")
       \/ /\ proc[p].prov \in RealProviders
          /\ "unavailable" \in Faults
          /\ Exit(p)
    /\ UNCHANGED <<store, killFile, fixture, baselines, planned>>

Emit(p, kind) == trace' = [trace EXCEPT ![proc[p].run][kind] = @ + 1]

(* Watchdog.wrap_invoke emits provider_invoked and calls the adapter.  The  *)
(* kill switch and the call counts are not looked at again.                 *)
Invoke(p) ==
    /\ At(p, "invoke")
    /\ Emit(p, "invoked")
    /\ Goto(p, "invoking")
    /\ UNCHANGED <<latest, queue, inode, rows, killFile, fixture, baselines, planned>>

(* The adapter returns and record_post_invoke accepts its usage, or a       *)
(* per-task or per-run cap is exceeded and its usage goes to a blocked row. *)
InvokeReturns(p, u, status) ==
    LET post == RecordPostInvoke(Accumulators(proc[p].seeded), proc[p].prov, u)
    IN  /\ At(p, "invoking")
        /\ IF post.breaker = NoBreaker
           THEN /\ Emit(p, "finished")
                /\ Persist(p, [status |-> status, reason |-> NoBreaker,
                               usage |-> u])
           ELSE /\ Emit(p, "broken")
                /\ Persist(p, BlockedOutcome(post.breaker, u))
        /\ UNCHANGED <<latest, queue, inode, rows, killFile, fixture, baselines,
                       planned>>

(* mutant: the exception passes wrap_invoke without breaker_triggered.      *)
InvokeStoppedSilently(p) ==
    /\ At(p, "invoking")
    /\ \E why \in {"RepeatedFailureBreaker", "Sandbox"} :
         Persist(p, BlockedOutcome(why, ZeroUsage))
    /\ UNCHANGED <<store, killFile, fixture, baselines, planned>>

(* The live waste observer or the sandbox stops the adapter: the blocked    *)
(* row has no usage to carry.                                               *)
InvokeStopped(p) ==
    /\ At(p, "invoking")
    /\ Emit(p, "broken")
    /\ \E why \in {"RepeatedFailureBreaker", "Sandbox"} :
         Persist(p, BlockedOutcome(why, ZeroUsage))
    /\ UNCHANGED <<latest, queue, inode, rows, killFile, fixture, baselines, planned>>

(* Any other exception leaves wrap_invoke and run-next: a subprocess that   *)
(* cannot be spawned, a test.csv that vanished under the stub or that it    *)
(* cannot make sense of, whatever its digest.                               *)
InvokeRaises(p) ==
    /\ At(p, "invoking")
    /\ \/ proc[p].prov \in RealProviders /\ "unavailable" \in Faults
       \/ /\ proc[p].prov \notin RealProviders
          /\ fixture = Missing \/ "foreign" \in Faults
    /\ Exit(p)
    /\ UNCHANGED <<store, killFile, fixture, baselines, planned>>

(* mutant: INSERT OR REPLACE.                                               *)
InsertOrReplace(e, row) == [rows EXCEPT ![e] = row]

(* insert_experiment: experiment_id is the primary key of the table, so a   *)
(* taken id raises IntegrityError and the row is not written.               *)
Insert(e, row) == IF rows[e] = NoRow THEN [rows EXCEPT ![e] = row] ELSE rows

InsertRow(p) ==
    /\ At(p, "persist")
    /\ rows' = Insert(proc[p].packet.exp,
                      [run |-> proc[p].run, prov |-> proc[p].prov,
                       out |-> proc[p].out, digest |-> proc[p].digest])
    /\ Exit(p)
    /\ UNCHANGED <<latest, queue, inode, trace, killFile, fixture, baselines,
                   planned>>

-----------------------------------------------------------------------------
(* kill, unkill --human-confirm, and the environment's faults.              *)
Kill == /\ ~killFile
        /\ killFile' = TRUE
        /\ UNCHANGED <<store, fixture, baselines, planned, proc>>

Unkill == /\ killFile
          /\ killFile' = FALSE
          /\ UNCHANGED <<store, fixture, baselines, planned, proc>>

(* The process dies: killed, or the machine reboots. *)
Crash(p) ==
    /\ "crash" \in Faults
    /\ ~At(p, Idle)
    /\ Exit(p)
    /\ UNCHANGED <<store, killFile, fixture, baselines, planned>>

FixtureStates == Digests \cup {Missing, Foreign}

EditFixture ==
    /\ ("midrun" \in Faults) \/ \A p \in Procs : At(p, Idle)
    /\ \E d \in FixtureStates \ {fixture} :
         /\ (IF d = Foreign THEN "foreign" ELSE "edit") \in Faults
         /\ fixture' = d
    /\ UNCHANGED <<store, killFile, baselines, planned, proc>>

(* What becomes of a baseline file that is not written by the arena.        *)
Spoilt == {bad \in {Torn, Foreign} :
             (IF bad = Foreign THEN "foreign" ELSE "corrupt") \in Faults}

CorruptBaseline ==
    /\ \/ fixtureBase \notin {NoFile, Torn, Foreign} /\ fixtureBase' \in Spoilt
          /\ UNCHANGED versionBase
       \/ versionBase \notin {NoFile, Torn, Foreign} /\ versionBase' \in Spoilt
          /\ UNCHANGED fixtureBase
    /\ UNCHANGED <<store, killFile, fixture, planned, proc>>

-----------------------------------------------------------------------------
PlanStep(p) == PlanMint(p) \/ PlanOpen(p) \/ PlanFill(p)

ClaimStep(p) == CheckCanInvoke(p) \/ Peek(p) \/ DequeueRead(p)
                  \/ DequeueUnlink(p)

BaselineStep(p) == FixtureDigest(p) \/ FixtureRead(p) \/ FixtureOpen(p)
                     \/ FixtureFill(p) \/ VersionRead(p) \/ VersionOpen(p)
                     \/ VersionFill(p)

InvokeStep(p) == \/ Resolve(p) \/ Invoke(p) \/ InvokeStopped(p)
                 \/ InvokeRaises(p) \/ InsertRow(p)
                 \/ \E u \in Usages, s \in ResultStatuses :
                      InvokeReturns(p, u, s)

(* What a process does once its command has started. *)
Step(p) == PlanStep(p) \/ ClaimStep(p) \/ BaselineStep(p) \/ InvokeStep(p)

Environment == InitFixture \/ Kill \/ Unkill \/ EditFixture \/ CorruptBaseline

Next == \/ Environment
        \/ \E p \in Procs : PlanStart(p) \/ Start(p) \/ Step(p) \/ Crash(p)

Spec == Init /\ [][Next]_vars

(* A command that has started keeps being scheduled, and the adapter it     *)
(* waits for returns or is timed out by the adapter itself.                 *)
FairSpec == Spec /\ \A p \in Procs : WF_vars(Step(p))

-----------------------------------------------------------------------------
(* Properties. *)
Labels == {Idle, "plan_mint", "plan_open", "plan_fill",
           "check", "peek", "read", "unlink",
           "digest", "fixture_read", "fixture_open", "fixture_fill",
           "version_read", "version_open", "version_fill",
           "resolve", "invoke", "invoking", "persist"}

BeforeClaim == {"check", "peek", "read", "unlink"}
AfterClaim == {"digest", "fixture_read", "fixture_open", "fixture_fill",
               "version_read", "version_open", "version_fill",
               "resolve", "invoke", "invoking", "persist"}

Proc == [pc : Labels, run : RunIds \cup {0}, prov : Providers \cup {"none"},
         seeded : SUBSET ExpIds, packet : Packet \cup {NoFile},
         file : 0 .. MaxPlans,
         digest : Digests \cup {Missing}, seen : SUBSET Providers,
         out : Outcome \cup {NoRow}]

Counts == [invoked : Nat, finished : Nat, broken : Nat]

Digesting == {"fixture_read", "fixture_open", "fixture_fill"}

(* A process that runs has a run and a provider, a packet once it has minted *)
(* or read one, the file it read it from, the digest of an existing fixture  *)
(* while it compares or writes the baseline, and an outcome when it is about *)
(* to write its row.                                                         *)
ProcOK(r) ==
    /\ r.pc # Idle => r.run \in RunIds /\ r.prov \in Providers
    /\ r.pc \in {"plan_open", "plan_fill", "unlink"} \cup AfterClaim
         => r.packet \in Packet
    /\ r.pc \in {"unlink"} \cup AfterClaim => r.file # 0
    /\ r.pc \in Digesting => r.digest \in Digests
    /\ r.pc = "persist" => r.out \in Outcome

(* The files and the locals of every process hold what the code writes into *)
(* them.                                                                    *)
TypeOK ==
    /\ latest \in 0 .. MaxRuns
    /\ queue \in [RunIds -> Packet \cup {NoFile, Torn}]
    /\ inode \in [RunIds -> 0 .. MaxPlans]
    /\ \A r \in RunIds : queue[r] # NoFile => inode[r] # 0
    /\ rows \in [ExpIds -> Row \cup {NoRow}]
    /\ trace \in [RunIds -> Counts]
    /\ killFile \in BOOLEAN
    /\ fixture \in FixtureStates
    /\ fixtureBase \in Digests \cup {NoFile, Torn, Foreign}
    /\ versionBase \in {NoFile, Torn, Foreign} \cup SUBSET Providers
    /\ planned \in 0 .. MaxPlans
    /\ proc \in [Procs -> Proc]
    /\ \A p \in Procs : ProcOK(proc[p])

Claimed(p) == proc[p].pc \in AfterClaim

(* The processes that run-next has let through to run r, in scope s.        *)
Admitted(r, s) ==
    {p \in Procs : /\ proc[p].pc \in (BeforeClaim \ {"check"}) \cup AfterClaim
                   /\ proc[p].run = r
                   /\ proc[p].prov \in Members[s]}

RowsIn(r, s) == {e \in RowsOf(r) : rows[e].prov \in Members[s]}

(* The call ceilings of Phase0HardCeilings bound what a run records, in     *)
(* total and per provider family, although check_can_invoke reads the       *)
(* scoreboard once and a row is written only at the end: with one process   *)
(* the ceiling is exact, and n processes overshoot it by at most n - 1.     *)
CallBudget ==
    \A r \in RunIds, s \in Scopes :
        Cardinality(RowsIn(r, s)) + Cardinality(Admitted(r, s))
            <= Ceilings.calls[s] + Cardinality(Procs) - 1

(* Two terminals can be between the reads and writes of one packet file.    *)
Racy == Cardinality(Procs) > 1

(* The tasks the code can lose: those of a process that died, that raced    *)
(* with another one, whose provider or fixture went away in flight, or that *)
(* met a manifest, a baseline or a test.csv of a kind nobody handles.       *)
Lossy == Racy \/ Faults \cap {"crash", "unavailable", "midrun", "foreign"} # {}

Pending == {inode[r] : r \in {q \in RunIds : queue[q] # NoFile}}
Running == [p \in Procs |-> IF Claimed(p) THEN proc[p].file ELSE 0]

Ledger == INSTANCE TaskLedger WITH
            Claimants <- Procs, Ids <- ExpIds,
            offered <- planned, pending <- Pending, running <- Running,
            recorded <- Recorded

(* With one terminal at a time, each packet file is claimed by at most one  *)
(* run-next, which runs what it says; and it ends in exactly one row when   *)
(* nothing is Lossy, whatever breaker, drift, missing manifest or torn      *)
(* baseline it meets.  With several, the claims are no more than the files: *)
(* a run-next that takes away a file it has not read, and so runs an older  *)
(* packet again, does so at the expense of the newer one; and a claim ends  *)
(* in one row at most.                                                      *)
LedgerSpec == Ledger!Spec

(* What arena replay counts against what the budget counts.                 *)
Reported(out) == out.reason # "BLOCKED_REPRODUCIBILITY"
InvokedRows(r) == {e \in RowsOf(r) : Reported(rows[e].out)}
Reporting(r) == {p \in Procs : At(p, "persist") /\ proc[p].run = r
                                 /\ Reported(proc[p].out)}
Invoking(r) == {p \in Procs : At(p, "invoking") /\ proc[p].run = r}

(* The trace never shows fewer invocations than the scoreboard has rows for *)
(* them: every such row follows one task_finished or breaker_triggered, and *)
(* every one of those follows one provider_invoked, of the same run.  When  *)
(* nothing is Lossy the two agree exactly.                                  *)
TraceCoversRows ==
    \A r \in RunIds :
        LET ended    == trace[r].finished + trace[r].broken
            recorded == Cardinality(InvokedRows(r)) + Cardinality(Reporting(r))
        IN  /\ recorded <= ended
            /\ ended + Cardinality(Invoking(r)) <= trace[r].invoked
            /\ ~Lossy => /\ recorded = ended
                         /\ ended + Cardinality(Invoking(r)) = trace[r].invoked

(* The sticky fixture baseline: all rows of the scoreboard that a provider  *)
(* produced were produced on fixtures with one digest, in whatever runs and *)
(* however the fixture was edited in between.                               *)
OneDigest ==
    \A e, f \in Recorded :
        Reported(rows[e].out) /\ Reported(rows[f].out)
            => rows[e].digest = rows[f].digest

(* A row, once written, is never replaced by another command's row, also    *)
(* when two commands hold the same experiment id.                           *)
RowsAppendOnly ==
    [][\A e \in ExpIds : rows[e] # NoRow => rows'[e] = rows[e]]_vars

(* A claimed task ends in a row under its experiment id.                    *)
ClaimedIsRecorded ==
    \A p \in Procs, e \in ExpIds :
        (Claimed(p) /\ proc[p].packet.exp = e) ~> (rows[e] # NoRow)
=============================================================================
