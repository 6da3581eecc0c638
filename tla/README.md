# A verification project for the arena

The arena runs coding agents (codex, claude, or stubs of them) on a competition
fixture under a budget, one command line at a time: `arena init-fixture`,
`arena plan`, `arena run-next`, `arena research-proxy`, `arena review` and so
on. Every command is an operating-system process of its own. What they share is
on disk: run directories, a queue of task packets, a SQLite scoreboard, JSONL
traces, baselines and a kill-switch file. Nothing locks any of it. That makes
the system a concurrent one with crashes, although no file of it mentions a
thread, and it is where its correctness is hard to see and to test.

This directory holds TLA+ modules translated from that code, TLC configurations
that check them on small instances, and proofs, checked by TLAPS, that some of
the results hold for every instance. `PROJECT.json` maps every definition to the
lines it stands for.

## 1. Inventory

| Component (under `arena/`) | State it keeps | Operations | What is hard, and what makes it correct |
|---|---|---|---|
| Calibration task path: `cli.py` (`init_fixture`, `plan`, `run_next`), `controller/task_queue.py`, `controller/planner.py` | `runs/<run>/queue/task_0001.json`, the newest run directory | plan writes a packet unless one is pending; run-next checks the budget, peeks, dequeues (read, then unlink), checks baselines, invokes, writes one row | Two terminals between the read and the unlink; a crash after the dequeue; ids that are minted and not reserved. With one terminal a task is run at most once and recorded at most once, and exactly once without a fault that nobody handles. With two, a packet may run again at the expense of a newer one whose file it took away; packets are not claimed more often than their files are written. |
| Scoreboard: `scoreboard/store.py` | tables `runs`, `experiments` (append-only, primary key `experiment_id`), `schema_versions` | connect and migrate, insert, totals per run, next id, newest row | Totals seed the budget, so a missing or replaced row is a wrong budget. Every command migrates on its way in, so that two may do so at once, over what a third left when it died: a recorded migration has been applied. |
| Budget: `budget/governor.py`, `policy.py`, `waste.py` | accumulators and per-task counters, in memory | check before an invocation, record after it, count failed commands | Boundaries (the call that reaches a cap is the last), order of the checks, what is added when a cap is exceeded. |
| Watchdog: `controller/watchdog.py`, contract `providers/base.py` | the callback registered in the trace store | `check_can_invoke`, `wrap_invoke` | An exception of a callback unwinds the adapter; five ways out of one invocation; several invocations of one command. |
| Kill switch: `budget/kill_switch.py` | `.arena/KILL_SWITCH`, or an environment variable | kill, unkill, is_active | When it is looked at. |
| Baselines: `observability/version_baseline.py`, `fixture/manifest.py` | `runs/.baselines/<slug>/*.json` | record the first value, report drift from it | Sticky across runs; a torn file must block, not lose, a task; content of other wrong kinds does lose it. |
| Trace store, replay: `observability/trace_store.py`, `replay.py`, `report.py` | `experiments/traces/<run>/*.jsonl`, next event id in memory | emit (validate, append, call the observer), replay | Two writers hand out one id; torn lines; what a validation error undoes; one damaged line makes replay raise, so it must never hide that something is missing otherwise. |
| Research proxy: `cli.py` (`research_proxy`), `research_proxy/*` | artifacts of a run, one row per stage | question, digests, fusion, implementation: four invocations | Artifacts and rows of two passes; which failure leaves a row. |
| Review: `cli.py` (`review`), `review/packet.py` | a review row and its artifact | review a given implementation row | Which run and which proposal the row leads to, when fusion ids repeat. |
| Memory proposals: `memory/*`, `memory_propose` | proposal files | accept or refuse a proposal | Eligibility rules; an id that is minted from the directory and not reserved; a proposal must be of the review, and the run, it is filed for. |
| Self-improvement: `self_improvement/*` | proposals, a freeze sentinel | scan, freeze | De-duplication after a crash between files and sentinel. |
| Controller phases: `controller/state.py` | none, derived from the rows | derive, transition | Which phases are reachable. |
| Sandbox: `sandbox/*` | none | allow or deny a path, a command | Precedence of the rules. |
| Providers: `providers/*`, the streams of `trace_store.py` | the program on PATH, four stream files per task, the answer of claude in the workspace | probe (twice before one invocation of `run-next`), spawn, write the streams, map the exit to a status, write the answer | Files that an invocation which died has left under the ids of the next one; a program that goes away between the probe and the spawn. |
| Evaluation harness: `eval_harness` in `cli.py` | the run it adopted, the table of its steps | calls the other commands in order and looks up the rows they wrote | It looks for "the newest" again and again while another harness adds runs and rows; a failed step must not stop the rest, yet must fail the whole. |

How they interact: a command builds a governor from the totals of the
scoreboard, a watchdog over the governor, and a trace store for the newest run.
The watchdog calls the adapter; the adapter emits events through the trace
store; the trace store calls the watchdog's observer, whose exception stops the
adapter. What survives is the row, the trace, the baselines and the files of
the run, and the next command starts from them.

Hazards, each at its line and with the properties that cover it, are listed in
`PROJECT.json`.

## 2. Modules

| Module | Models | State and actions |
|---|---|---|
| `BudgetGovernor` | `governor.py`, `policy.py`, `waste.py` | Operators only. The governor keeps nothing but what its caller gave it. `Ceilings` is one record; `PreInvokeOk`, `RecordPostInvoke`, `ObserveFailedCommand`, `LiveCapBreaker` are the four calls. |
| `TaskLedger` | what the task path promises | Numbered tasks: how many were offered, which are pending, which one each claimant runs, which ids are recorded. `Offer`, `Replace`, `Claim`, `ClaimOlder`, `Record`, `Lose`. |
| `RunNext` | `init-fixture`, `plan`, `run-next`, `kill`, `unkill` over the files | A record of local variables and a program counter per process; one action per access to a shared file, with the local code after it. |
| `Invocations` | what the trace of one command promises | A protocol: open, then finish, break or abort; the first that is not finished is the last. |
| `Watchdog` | `watchdog.py` inside one command | One action per thing an adapter may do: succeed or fail at a shell command, be denied, raise, return. |
| `TraceStore` | `trace_store.py`, and the order in which `replay.py` reads | The lines of each file, the store of each command; open, scan a file, take an id, reject, append, close, die while writing. |
| `ResearchLoop` | `research-proxy`, `review` over the scoreboard, the worktrees and the trace | A process per command with the row it is about to write; start, precheck, mint, invoke or refuse, four ways out of an invocation, collect, persist, score, crash. |
| `SelfImprovement` | `self-improve scan` and `self_improvement/*` | Operators for the triggers; one action per file the scan reads or writes; the rows, scores, traces and the human around it; crash. |
| `Migrations` | `ScoreboardStore.connect` and `migrations/*.sql` | The committed database, the one open transaction and its owner, a program counter per command; one action per statement. |
| `EvalHarness` | `eval-harness`, with `evaluate`, `memory propose` and the lookups between the calls | A record of local variables per harness; one action per command it calls and per lookup, two for `memory propose` (mint, write). |
| `ProviderCli` | `health.check`, the codex and claude adapters, `write_provider_streams` | The program on PATH, one command at a time, the stream files and the answer it leaves; one action per probe and for the subprocess, two per file (open, write). |
| `MC*` | | One module per model that needs one, with values for TLC. |
| `RunNextProofs`, `TraceStoreProofs`, `WatchdogProofs`, `ResearchLoopProofs`, `SelfImprovementProofs`, `MigrationsProofs`, `EvalHarnessProofs` | | Theorems about the module of that name; those about `ProviderCli` are in `TraceStoreProofs`. |
| `NumberLemmas` | | Lemmas about sets of natural numbers: induction over one, its least and greatest, and the id that `get_next_experiment_id` mints. |

`RunNext`, `Watchdog` and `ResearchLoop` extend `BudgetGovernor`. `RunNext` abstracts
`wrap_invoke` to four actions (`Invoke`, `InvokeReturns`, `InvokeStopped`,
`InvokeRaises`), which `Watchdog` looks into; neither keeps the other's detail.

### RunNext and the code

A process goes through the labels below; each names the shared access it is
about to make.

| Label | Access | Code |
|---|---|---|
| `plan_mint`, `plan_open`, `plan_fill` | the rows; the packet file truncated; its text | `plan`, `TaskQueue.enqueue` |
| `check` | the kill-switch file (the totals were read at the start) | `check_can_invoke` |
| `peek`, `read`, `unlink` | the packet file | `TaskQueue.peek`, `dequeue` |
| `digest` | the fixture | `compute_fixture_set_digest` |
| `fixture_read`, `fixture_open`, `fixture_fill` | the fixture baseline | `record_fixture_hash` |
| `version_read`, `version_open`, `version_fill` | the version baseline | `record_provider_version` |
| `resolve` | the installed provider | the second `_get_provider` |
| `invoke`, `invoking` | the trace, the adapter | `wrap_invoke` |
| `persist` | the scoreboard | `insert_experiment`, `_persist_blocked_experiment` |

A text file is written in two steps because `write_text` truncates it first; in
between it holds text that `json.loads` rejects, the model value `Torn`. SQLite
inserts are atomic, so a row is one step. A process that dies (`Crash`) forgets
its record; the files stay as they are.

A packet file has a name that comes back with every packet (`task_0001.json`)
and an identity (`inode`, a number per file created), for what a process reads,
what `unlink` takes away and what a late `write_text` lands in need not be the
same file. A manifest or a baseline whose content raises an exception that
`run_next` does not name is the model value `Foreign`: bytes that are not UTF-8,
JSON that is not an object, a manifest that is not YAML or has no list of files.
On each of them the claimed task is lost, as it is when the stub cannot make sense
of `test.csv` (`InvokeRaises`).

What is abstracted: one competition slug; texts, times and sizes; a packet is
its experiment id and its provider; a row keeps the run, the provider, the
outcome and the digest that the `run_started` event of the same command carries.
A usage is a record of six naturals, wall clock in whole seconds. Version drift
(a tag on the row) and the worktree directory decide nothing and are left out.

### ResearchLoop and the code

| Label | Access | Code |
|---|---|---|
| `precheck` | the baselines, then the totals of the run | up to `Watchdog(governor=...)` |
| `mint` | the highest recorded id | `_step_ids`, `in_flight.update` |
| `check`, `invoking` | the trace, the adapter, which writes the artifact | `_guarded_invoke`, its handlers, `_require_artifact` |
| `collect` | the artifact | `read_text`, `validate_*`, `evaluate_fixture_submission` |
| `persist` | the scoreboard | `_persist_row`, `_persist_inflight_blocked`; the gate follows it |
| `score` | the scoreboard again | `update_experiment_score` |

`files` is what lies in a worktree, whoever wrote it: a command that leaves no
row leaves its files, and the next one mints the same id. An artifact is the
command that wrote it, the `fusion_id` in it, and whether it is good (passes the
gate, is a valid submission); both are known to the code only by reading the
file. A row also keeps what led to it (`by`, `subject`, `proposal`), which in the
code is in the packet and the local variables and not in the table: the
properties need it, no action reads it after the row is written. The stub writes
`fusion_0001` into every proposal; the runs take that one id, the worst case for
a lookup by it. The baseline checks are `RunNext`'s; here they pass or end the
command. The kill switch may be found active at any check.

### SelfImprovement and the code

| Label | Access | Code |
|---|---|---|
| `idle` | the rows, in one query | `scan_runs` up to the seventh trigger |
| `traces` | one trace per row, then the directory of proposals | the loop over `rows`, the loop that fills `existing_hashes` |
| `propose`, `fill` | a proposal file truncated; its text | the loop over `findings` |
| `freeze`, `replace` | the temporary file; the sentinel | `apply_freeze` |

A finding is its kind, what it is about and the figures in its text, which is
what `_finding_content_hash` tells apart; scores are in tenths. The sentinel
is the list of the findings that triggered it. `Put` writes a
file of a given number, so that a wrong number overwrites. The trigger
`invalid_submission` is in `RowFindings`, yet no command of this version stores
`valid_submission = False` (`research-proxy` stores nothing for a submission it
rejects, `evaluate` exits), so it never fires in the run.

`InvokeStopped` (in both modules) and `SandboxDenies` model what `wrap_invoke` and `run_next` do
when a live waste cap or the sandbox stops an adapter. In this version of the
code the adapters that the command line builds emit no failing
`shell_command_observed` event and consult no sandbox, so the two happen in the
tests' adapters only; the handlers are there, and are what is modelled.

### Migrations and the code

Python's `sqlite3` opens a transaction before an INSERT and not before a CREATE
or ALTER. So the statements of the first file that is not recorded are committed
one by one, the INSERT that records it opens a transaction, and what follows is
part of it until the one commit at the end. `lock` is the command that has the
transaction, `pending` what it would commit; a command sees its own and no
other (`Seen`). `Execute` is one statement with the two ways in which it may find
its work done (`IF NOT EXISTS`, and the tolerated "duplicate column name").
`Refused` is what is not tolerated: a column without its table, and a lock held
by another command for longer than the busy timeout. `Init` is any database
that an earlier version can have left, up to the middle of a file.

### EvalHarness and the code

The label of a harness names the step it takes next, as in the table it prints.
The commands it calls are one action each, with what they leave and the ways
they come back; their insides are the matter of `RunNext` and `ResearchLoop`. What
matters here is what the harness looks for after each of them: the newest run
(`Adopt`, and again inside `plan`, `run-next` and `research-proxy`), the newest row
of all (`Evaluate`), the greatest id of a step in its run (`LookupImpl`,
`LookupReview`). Rows carry whole seconds, as `created_at` does. `by` and the
subject of a review are kept for the properties. `memory propose` takes the id of
its file from the directory (`MintProposal`) and writes the file later
(`WriteProposal`), over whatever is there by then; `seen` is whose files it found,
for the property that says who may have overwritten whom. `Abort` is an exception that the
handlers of the harness do not name, or the death of the process.

### ProviderCli and the code

One command at a time calls one of the two adapters. `Exits` are the classes of
exit codes that the status mapping tells apart, `Outputs` whether stdout holds
what the adapter looks for. Stream files and the answer are the number of the
invocation that wrote them: what they say is not modelled. A stream is truncated
when it is opened (`OpenStream`), and `torn` until it is written. A command may end
between any two steps (`End`); only `RecordRow` moves on to another id and so to
another workspace.

## 3. Runs

| Run | Question | Result |
|---|---|---|
| `run_next_sequential` | One terminal at a time; the fixture is edited between commands, baselines are corrupted, the kill switch toggles | `TraceCoversRows` as an equality; `OneDigest`; `LedgerSpec` without loss; `ClaimedIsRecorded` |
| `run_next_concurrent` | Two terminals interleaved at every access, with crashes, a provider that goes away and files of the wrong kind | Claims are no more than packet files, a claim is recorded at most once, no row replaced, at most one row too many |
| `watchdog` | Up to two invocations of one command, every way out of each | live caps hold in the trace, no counter leaks, ceilings hold, the trace follows the protocol |
| `trace_store` | Two commands with a store each over one run, lines cut short | `CausalReplay`, `NoGaps`, `NoSilentLoss` |
| `research_sequential` | Three commands after one another over two runs, with every way out of an invocation, crashes and files left behind | chains of rows are prefixes of the steps, on their own artifacts, of a proposal that passed the gate; ceilings hold; reviews stay in their run |
| `research_concurrent` | Two commands interleaved, minting the same ids | chains stay in order, no row is changed by the other command |
| `self_improvement` | Two scans that may die anywhere, over rows, scores and traces that change and a sentinel a human deletes | nothing is filed twice or overwritten, a sentinel is whole and backed by proposals, findings freeze |
| `migrations` | Two commands that connect at once, may die and may find the database locked, over one left anywhere between two statements | a recorded file is applied, a connected command has the whole schema, the schema is complete at last |
| `eval_harness` | Two harnesses after one another or interleaved, with rows of one second and every way a step ends | no proposal crosses runs, what is scored and what is reviewed differ only by another harness's row, exit code 0 means done, up to a proposal that shares its id |
| `provider_cli` | Three commands under one task and one workspace, every outcome of probe and process, a death between any two steps and inside a write | raw streams first, a listed answer is whole and of this invocation |
| `research_review`, `research_calls` | Two sentences of the documentation | each is violated; see section 6 |

What the properties say:

- `LedgerSpec`: `RunNext` implements `TaskLedger`. A task is a packet file by its
  identity, pending while it has the name, running while a process past its
  dequeue holds what it read from it, recorded by a row. With one process
  (`Racy` is false) a claim runs the file it takes away, so that no packet runs
  twice. With several this is false of the code: a process that has read
  packet A can unlink packet B, which was planned under the same name after
  another one had taken A. Then A runs again and B never (`ClaimOlder`), and two
  plans can replace each other's packet (`Replace`). What remains is that a claim
  uses up one file, that the task it runs is never a newer one than that, and
  that it is recorded in one row at most. Whether a claim may also vanish is the
  constant `Lossy`: false with one process, no crash, no provider that goes away,
  no fixture edited during a command and no `Foreign` file. So every breaker, every
  drift, a missing manifest and a torn baseline end in a row.
- `CallBudget`: rows of a run and tasks under way stay within the call ceiling
  of each scope, plus one for each further process.
- `TraceCoversRows`: the trace never shows fewer invocations than there are rows
  for them. The two are written by different code, and a reader of the trace
  relies on it.
- `OneDigest`: all rows that a provider produced were produced on one digest of
  the fixture.
- `RowsAppendOnly`: no row is ever replaced, also when ids collide.
- `ClaimedIsRecorded`: under fairness a dequeued task gets its row, under the
  same conditions.
- `LiveCaps`, `OwnFailures`: the failures of a task in the trace respect the
  caps, and the counters see its own failures, all of them and no others.
- `CallCeiling`, `RunCapsStop`: over several invocations of one command the
  ceilings hold, and no second or later one is launched once the run is past a cap
  in memory. The first one of a command is, whatever the seed: see section 6.
- `ProtocolSpec`: `Watchdog` implements `Invocations`.
- `CausalReplay`: replay sorts by an id that each store counts on its own.
  Still, an event that the writer of another could know to be earlier (its own,
  or in the trace when its store was opened) is replayed earlier. Commands that
  do not overlap are therefore replayed in the order of emission, which is all
  that `replay.py` claims of them. On a damaged trace replay raises; of that
  one the property says that the ids of its readable lines are in order.
- `NoGaps`: rejected events leave no gap in the ids of an undamaged trace.
- `NoSilentLoss`: replay raises on a single damaged line, in whatever file of the
  run, and shows nothing (`Replayable`). It does so only if a write was cut short;
  and if it does not, each event whose `emit` has returned is shown, so that what
  it shows is never less than what happened. Where it raises, a reader that passes
  over damaged lines, as the store's own loader does, misses no more such events
  than writes were cut short, although a torn line swallows the next event too.
- `NoPhantomCalls`: the rows of a run never claim more provider calls than its
  trace shows; a refusal in a later step must not look like a call.
- `ChainOrder`: the rows of one `research-proxy` are its steps from the first
  on, and none follows a blocked one, whoever writes in between.
- `OwnArtifacts`: the file a row points to was written by its own invocation,
  although a worktree may hold the file of a command that left no row.
- `ImplementsGated`: what is implemented and linked by its token is the
  proposal of the same command, and it passed the gate.
- `RowBudget`: four invocations under one seed respect the ceilings of the rows;
  commands that overlap, each with a seed of its own, exceed them by a chain of
  four rows for each process but one at most. The bound is attained: two commands
  at once can leave nine rows under a ceiling of five calls.
- `ReviewInRun`: a review, its subject and the proposal are of one run.
- `RowsKept`: no command changes a row of another.
- `NoDuplicates`: no two proposals have the same content, after any scans.
- `TriggersFiled`: a sentinel is never a torn file, and each finding that
  triggered it has its proposal.
- `FilesKept`: a filed proposal is never changed.
- `FindingsFreeze`: a scan with findings ends with a sentinel unless it dies,
  although an earlier scan may have filed them all.
- `RecordedIsApplied`: a file in `schema_versions` has all it creates, although a
  file that was interrupted half-way is run again by the next command, or by two.
- `ConnectedIsComplete`: a command that `connect` has returned to has the whole
  schema, also what it found recorded and did not look at.
- `Migrates`: if commands keep connecting, the schema is complete at last: they
  cannot keep each other from it by dying and by locking.
- `OwnRunOnly`: every memory proposal of a harness is of a review in the run it
  adopted, of an implementation in that run.
- `ScoresWhatItReviews`: `evaluate` takes the newest row of all and the review the
  implementation of the run. If the harness wrote that implementation, the two
  differ by a row of another harness only.
- `ExitMeansDone`: a harness that exits with 0 has a valid implementation row of
  its own, of a newer run if it found none in the run it adopted and skipped the
  rest. If it found one, it has scored a row, and the file of its memory proposal
  is its own, or that of a harness which had taken the same id before the file was
  there. The last case is real: two `memory propose` at once leave one file, and
  both report it.
- `RawFirst`: no scrubbed stream is of a later invocation than a raw one, and next
  to a raw stream of the same invocation it stands only if that one is whole,
  wherever commands died.
- `OwnAdvice`: the answer that a result of claude lists is whole and its own,
  whatever a command that died has left in the workspace.

Bounds. `MaxRuns`, `MaxExp` and `MaxPlans` bound the run directories, rows and
packets; two runs and two ids let ids carry over between runs, and two packets
for two processes let a packet be planned anew while a slow process still holds
the old one (the file name is always `task_0001.json`), so that the old one runs
twice. Ceilings of one or two
calls are reached and passed within these bounds: the mutants that shift a
comparison by one are found. In `Watchdog`, two invocations of at most five
commands each exceed the caps of three failures and one repetition.
In `TraceStore`, three events in two files are an unended line, the event it
swallows and one after that, and two stores that hand out one id before a third
counts on from it; `CausalReplay` is proved for any number.
In `ResearchLoop`, `MaxCommands` is the number of commands: three are two passes
and a review, or a failed pass, a full one and a review. The ceiling of five
calls is a pass and a review and then refuses, in the middle of a chain too;
`MaxExp` leaves room for all rows the ceilings allow. The concurrent run keeps
one run directory and one usage and leaves out the two outcomes that only end
the command, which a crash does too.
In `SelfImprovement`, two scans are one that dies or finds something and the one
after it. Three rows (a calibration, a research-proxy row, a blocked one) that
share a trace fire every trigger that can fire: the second and third cost more
calls than the first by more than a fifth, the second more time, and the two
scores put either of them ahead.
In `Migrations`, the two files of the repository and one that a later version
would add are a file whose statements are committed one by one, one that is part
of the transaction, and one whose failure would lose both; two commands and two
deaths are a command that dies, one that finds what it left, and a third.
In `EvalHarness`, eight ids are the rows of two harnesses that go through, two
seconds let rows share one or not, two runs let a harness adopt its own or the
other's, and two proposal ids are one for each harness, so that the two can also
take the same one.
In `ProviderCli`, three invocations are one that dies, the one that overwrites
part of what it left, and one that reads what both left; the properties are
proved for any number.
The concurrent runs of `RunNext` and `ResearchLoop`, `trace_store` and `eval_harness` treat their
processes as symmetric; they check no liveness.

Fairness. `ClaimedIsRecorded`, `FindingsFreeze` and `Migrates` need it. For the first,
`FairSpec` of `RunNext` assumes weak fairness of
`Step(p)`, that is, a command that has started is not suspended forever, and its
adapter returns (the real adapters pass a timeout to the subprocess, the stubs
compute). The second assumes it of
the steps of a scan that has started (`ScanStep`), and neither that it is
started nor that it does not die. The third assumes that a command which
connects goes on and closes at the end (`Apply`, `Close`), where going on may be
the error after the busy timeout: that commands keep connecting is its premise,
and deaths are bounded by `MaxCrashes`. Nothing is assumed of the user: no command is ever started for
fairness' sake, and the sequential run has no crash.

Deadlock is checked in `RunNext` (a user can always toggle the kill switch),
`TraceStore`, `Migrations` and `ProviderCli`. `Watchdog` is one command, which ends, and
`ResearchLoop`, `SelfImprovement` and `EvalHarness` a bounded number of commands,
after which the user starts no more: their configurations switch the check off.

## 4. Proofs

`RunNextProofs` proves, for any number of processes, providers, runs, ids, any
ceilings and any faults:

- `TypeCorrect`: `Spec => []TypeOK`. `TypeOK` is inductive as it stands because
  `ProcOK` says what a process knows at each label (a packet once it holds one,
  a digest while it compares, an outcome when it persists).
- `CallBudgetHolds`: `Spec => []CallBudget`.
- `RowsNeverReplaced`: `Spec => RowsAppendOnly`.
- `OneDigestHolds`: `Spec => []OneDigest`, unless the fixture is edited under a
  running command (`"midrun" \notin Faults`).
- `LedgerImplemented`: `Spec => LedgerSpec`, the refinement of `TaskLedger`.
- `TraceCovers`: `Spec => []TraceCoversRows`.
- `CommandsDoEnd`: `Spec => CommandsEnd`; `NoClaimIsLost`: `Spec => ClaimsKept`.

The argument for the budget. `CallBudget` is not inductive: a process past the
check would be allowed to write a row because of a count it read long ago, which
the property does not mention. `BudgetInv` adds it. Call a process *below* a
ceiling of a run if the count it read at its start is less than the ceiling.
The invariant (`Room`) is: the rows of the run plus the processes that are below
are at most the ceiling plus n - 1. When a process starts and is below, the rows
it counted are all the rows there are, one less than the ceiling at most, and no
more than n processes are below, itself included. When a process writes its row
it is one of those below (`Checked`: a process past the check is), and it leaves
them: the sum stays. Rows that others write do not change a count already read,
since rows are never replaced. `CallBudget` follows, for the admitted processes
are all below.

The argument for the digest. `DigestInv` follows a digest from the fixture to
the row. While a command is under way the fixture is not edited, so all digests
in flight are the fixture's (`InFlight`). The baseline, once anything has been let
through, is never absent again (`Sealed`): it may be torn, by a command that is
writing it or died, but then it lets nobody through. So whoever finds no
baseline meets no reported row either, and whoever finds a readable one finds
the digest of all of them (`RowsBound`, `AcceptedBound`). Two commands that both
find no baseline and write it one after the other write the same.

The argument for the ledger. A task is the identity of a packet file, and
`FileInv` says how identities lie: files are numbered as they are created, no two
runs hold the same, and what a process has read is not newer than what has the
name in its run. So whatever it unlinks, the task it then runs is that one or an
older one that is pending no more; and a single process finds the very file it
has read. That a task is recorded, and not dropped, needs more when a single process is
undisturbed (`SoloInv`, and `PureInv`: no file becomes `Foreign` by what the
commands write): the id it minted is free until its row is written, since
nobody else writes rows and no packet of an older run is ever taken. The budget
and the reproducibility checks end in a row, not in an exception, since the
digest in flight is the fixture's.

The argument for the trace. An invocation is in one of three sets, under way, on
its way to a row, or in one, and whatever puts it into the first emits an event
(`Covers`).

The last two are what is safety in `ClaimedIsRecorded`. `CommandsEnd` orders the
labels (`Rank`): each step of a command lowers it, so that a command ends after
fifteen steps of its own at most, whatever others do to its files. `ClaimsKept`
says that an undisturbed claim is given up in one way only, by the row of this
very process under its id, which is free until then (`SoloInv`, `NoRaise`). What
TLC adds is that weak fairness of `Step` makes the steps happen.

`TraceStoreProofs` proves, for any number of commands, task files and events,
with and without lines cut short:

- `TypeCorrect`: `Spec => []TypeOK`.
- `ReplayIsCausal`: `Spec => []CausalReplay`; `IdsWithoutGaps`: `Spec => []NoGaps`.
- `LossIsNotSilent`: `Spec => []NoSilentLoss`.

The argument for the order. `CausalReplay` says nothing of what a store knows, so
`OrderInv` adds it: what a store has scanned has no id above its counter, as far
as it is the command's own or was in the trace when the store was opened
(`AllAhead`; while an event has its id but is not written, below the counter).
A write then adds an event whose id is above all of its past, and which is in the
past of no store that is open, since it is later than all of them (`Dated`). What
a write does to damaged lines does not matter: it shows no event but its own and
those shown before (`WrittenShows`). That a command's own events count although
a name may be used by a later command is `Renewed`.

The argument for the ids: while the trace is undamaged, every id up to that of an
event, and up to what an open store has counted, is shown (`Filled`). A write that
leaves it undamaged was an append, of the next id of its store (`GapWrite`). The
argument for the loss: an event is lost when its line is damaged or when it ends
a line of someone who died. `LossInv` therefore counts, with the events lost, the
files whose last line is unfinished, since each of them may still take one event
with it. A write that is cut short adds one to them and is not counted as
returned; an event that falls victim to one ends its line. Nothing but such a
write damages a line, and a damaged line stays one whatever is appended to it
(`DamageStays`): as long as there is none, replay does not raise and nothing that
was returned from is missing. An event without newline, which the next write destroys too, had not been returned from
(`CutIsNotReturned`).

`WatchdogProofs` proves, for any number of invocations and commands of an adapter,
any usages and any ceilings:

- `TypeCorrect`: `Spec => []TypeOK`.
- `CallCeilingHolds`: `Spec => []CallCeiling`; `RunCapsStopTheRun`:
  `Spec => []RunCapsStop`.
- `CountersAreOwn`: `Spec => []OwnFailures`; `LiveCapsHold`: `Spec => []LiveCaps`.
- `ProtocolImplemented`: `Spec => ProtocolSpec`, the refinement of `Invocations`.

The argument: the accumulators of the governor are the seed plus the calls of
this command but for the one under way (`CallInv`), unless a breaker has ended the
command, for then the call was made and not added. A command that goes on has
passed `RunCapBreaker` after its last invocation. For the live caps the counters
have to agree with the trace: the failures in total with `OwnFailures`, and the
failures in a row with `RunsTo`, which says that whatever ends the trace as a
streak of one command is a streak of the command counted last, and no longer than
what was counted. For the refinement, the status
of each invocation is read off its last event, and each action is shown to append
one event that moves one status, or to stutter.

`MigrationsProofs` proves, for any files with any statements, any number of
commands and deaths:

- `NeverFalselyRecorded`: `Spec => []RecordedIsApplied`.
- `SchemaIsComplete`: `Spec => []ConnectedIsComplete`.
- `RefusedByLockOnly`: `Spec => []OnlyLocked`; `NothingTakenBack`:
  `Spec => SchemaGrows`.

The argument: a database is `Whole` if it has what it records. The committed one
and the one in the open transaction are both whole, and the second extends the
first since nobody else commits meanwhile (`LockInv`). A command sees what the
statements of its file that have run created (`StmtInv`), whether it created it or
tolerated it, and sees as recorded whatever it has not to do (`TodoInv`); both
stay true when another commits, as nothing is ever removed. Therefore the table
of a column is there when the column is added (`BaseIsThere`, from the order of
the scripts): "no such table" never ends a command, only the lock of another one
does. `Migrates` rests on this and on `SchemaGrows`: whoever holds the
transaction goes on, and what a command that died had committed is not done again.

`EvalHarnessProofs` proves, for any number of harnesses, runs and rows:

- `NoCrossRunPickup`: `Spec => []OwnRunOnly`.
- `ExitCodeIsTrue`: `Spec => []ExitMeansDone`.
- `ScoresReviewed`: `Spec => []ScoresWhatItReviews`.

The argument for the first: what a harness has looked up is a row of the run it adopted
(`FoundInv`), a review is of an implementation in its own run (`SubjectInv`), and
both stay true since the id of a new row is fresh. That it is fresh, although it
is a maximum of a set that TLA+ chooses, is a lemma of `NumberLemmas`, which
`RunNextProofs` and `ResearchLoopProofs` use too. For the exit
code, `DoneInv` follows what has been scored and filed by the program counter of
a harness that has not failed; it rests on there being
a review row of the run whenever a review came back, and on the implementation
row that its own research left, in the run it adopted or a newer one, for
`latest` never falls behind an adopted run (`OwnResearch`, `AdoptedInv`). Whose file has
the id of its proposal is `MemInv`: a file has the id that its writer took, and the
harnesses whose files one has seen took lesser ids than it did; so whoever
overwrote the file, having taken the same id, had not seen it. For what is scored, `PairInv`
says that a harness has no implementation row of its own until research-proxy has
run, and that this row is then later than all else it wrote (`OwnLast`), by its
second or, within a second, by its id: no row is later than now (`NowIsLast`), and
ids only grow. `evaluate` takes the latest of all.

`ResearchLoopProofs` proves, for any number of commands, runs, ids and providers,
any ceilings and any ways an invocation can end:

- `TypeCorrect`: `Spec => []TypeOK`; `RowsAreKept`: `Spec => RowsKept`.
- `NoPhantoms`: `Spec => []NoPhantomCalls`.
- `ReviewsStayInRun`: `Spec => []ReviewInRun`.
- `ChainInOrder`: `Spec => []ChainOrder`.
- `RowsWithinBudget`: `Spec => []RowBudget`.

and where there is one process, so that commands follow each other:

- `ArtifactsAreOwn`: `Spec => []OwnArtifacts`; `ImplementsWhatPassed`:
  `Spec => []ImplementsGated`.

The argument. `TypeInv` adds to the types what each label promises: the row is
empty until `Collect`, what `Collect` reads was written, a refused call has not
started. With that, lemmas say once what each action leaves of its process
(`Blocks`, `Accepts`, `Collects`, `Continues`), and `StepKinds` sorts all steps into
those that end a command, start one, work on a row or insert one.
`CallsTraced` counts rows together with the invocations that may become one.
`ChainInv` says that the number of a command is its own and that an id, once
minted, is beyond all rows of its command; others may take it, but then the
insert is refused. With one process the id also stays free (`OwnWork`), so no
file of a row that is there is ever written again: what the gate saw in memory is
what the implementation reads on disk.

The argument for the budget: a governor counts from the rows that were there when
its command started, and knows nothing of what others add. Each may therefore
still let through what its accumulators leave of the ceiling, and never more than
the rest of its chain; these are the slots that a process has (`Room`, `Reserved`),
the invocation under way included. `BudgetInv` says that the rows of a run and
all slots together are at most the ceiling and four for each process but one. A
command that starts knows all rows that are there, so that its own slots fit
under the ceiling, and the others have four each; an invocation uses up a slot,
and a row takes its place.

`SelfImprovementProofs` proves, for any rows, scores, tasks and number of scans:

- `TypeCorrect`: `FairSpec => []TypeOK`; `Idempotent`: `FairSpec => []NoDuplicates`.
- `SentinelIsBacked`: `FairSpec => []TriggersFiled`; `FiledForGood`:
  `FairSpec => FilesKept`.
- `ScansEnd`: `FairSpec => ScanEnds /\ [](StepsLeft \in Nat)`.

The argument: what a scan knows are exactly the contents of the files that are
whole (`Proposing`). There is one scan at a time, so nobody else files any; the
file it has truncated is the last one and is torn (`Filling`), its content
is new, and the id of the next is beyond all files, whole or torn. When the
loop is through, each finding has its file, whichever scan wrote it, and this
stays so while the temporary file is written (`Freezing`, `Writing`), for files are
never removed: what is renamed is the whole list of findings, all of them filed.
The types rest on what scan_runs computes: that the sums and the concatenations
of the community modules are numbers and lists of findings is proved once, by
induction over a set of numbers (`SetInduction`).

`ScansEnd` is what is safety in `FindingsFreeze`. A trace may add a finding while
the scan goes on, and a finding costs two steps; `StepsLeft` counts a trace
that is still to be read as three, and falls with each step. A scan that has
findings keeps some until it freezes or dies (`Onward`).

`TraceStoreProofs` also proves, about `ProviderCli` and for any number of
invocations:

- `RawStreamsFirst`: `CliSpec => []RawFirst`; `AdviceIsOwn`:
  `CliSpec => []OwnAdvice`.

The argument: `StreamInv` says which files the invocation under way has written,
by its program counter, and that a raw file is whole once a scrubbed one is
opened; all others are of earlier ones, in the order that was true before.

Assumptions: `CeilingsAssumption` and `RunNextAssumption` (finite set of
processes, families are subsets of the providers, ceilings are naturals),
`WatchdogAssumption` (what `get_run_usage_totals` returned are totals),
`SentinelAssumption`, `HarnessSentinel`, `CliAssumption`,
`ResearchAssumption` and `ResearchSentinels` (model values differ
from data), `ScriptAssumption` (files are sequences of statements),
`ScriptInOrder` (a table before its columns, as in the files of the repository),
`ScanAssumption` (a finite set of tasks, rows are inserted unscored),
`FileAssumption` (a missing or torn file differs from one with content) and
`TraceStoreAssumption` and `HarnessAssumption` (the bounds are naturals). TLC
evaluates them.

Only model-checked: liveness (`ClaimedIsRecorded`, `FindingsFreeze`, `Migrates`),
which is out of the prover's reach, but for what is safety in it
(`CommandsDoEnd`, `NoClaimIsLost`, `ScansEnd`, `RefusedByLockOnly`,
`NothingTakenBack`).

## 5. Done and left

Done, in this order: `BudgetGovernor`, `RunNext`, `TaskLedger`, `Watchdog`,
`Invocations`, `TraceStore`, `ResearchLoop`, `SelfImprovement`, `Migrations`,
`EvalHarness`, `ProviderCli`, and the proofs of section 4. Left, each a module of
its own with an `MC` module and a run:

1. `Replay`: the summaries that replay builds, composed with the commands that
   emit and with the rows they write. All calibration tasks of a run carry the
   task id `task_0001`, which the summaries cannot tell apart.
2. A composition of `RunNext` and `ResearchLoop` over one scoreboard: the id of
   a queued packet can be taken by a `research-proxy`. Both leave the recorded
   row alone (`RowsAppendOnly`, `RowsKept`), so what is left to say is which of the
   two commands ends without a row.
3. `PhaseMachine`, `FusionScorer` and sandbox precedence, as operators against
   reference definitions.

## 6. Where the documentation and the code disagree

Two sentences have a run that shows it:

- A review may read another pass's proposal (`ReviewsOriginating`): two passes of
  one run share the token by which it is looked up. It takes a claude ceiling
  above the default of six, which two passes use up.
- An invocation without its artifact is in no row (`CapsSeeAllCalls`), so the
  ceilings, which are seeded from rows, do not see it.

The others are visible in the models and have no run of their own.

- An exception after the dequeue can lose a task. The comment at cli.py:385-387
  says "the task is already dequeued — without this guard the exception would
  propagate as an unhandled traceback, leaving the task permanently lost", and
  names the two exceptions that the guard catches. A manifest that is not YAML or
  has no list of files, and a baseline that is not UTF-8 or not an object, raise
  others, which do propagate (`FixtureDigest`, `FixtureRead`, `VersionRead` on
  `Foreign`).
- Two terminals can run one packet twice and another never (`DequeueUnlink` on a
  file that the process has not read): nothing in task_queue.py promises more, but
  a second row under the same id is refused only after its provider has run.
- One damaged line makes `replay` raise (replay.py:42-47) although the trace
  store's own loader passes over it (trace_store.py:84-93), so that a command
  that died in a write hides the whole trace of its run (`Replayable`).
- Two `memory propose` at once can take one id (memory/proposal.py:79-91) and the
  later write replaces the earlier proposal; both report it, and both harnesses
  may exit with 0 (`MintProposal`, `WriteProposal`).
- A reboot can lose a task: it is dequeued before anything durable says that it
  runs (`DequeueUnlink`, then `Crash`). docs/phase0/runbooks/reboot.md:38 says
  "nothing is lost during reboot".
- A kill does not halt a task in flight: the switch is read once, before the
  dequeue (`CheckCanInvoke`). The docstring of `kill` (cli.py:651) and the design
  document of 2026-04-30, line 144, say that in-flight tasks halt at the next
  poll.
- An invocation can be left without a terminal event: an exception that is not a
  breaker passes through `wrap_invoke` (`AdapterRaises`). watchdog.py:97 says that
  the trace always shows a complete chain.
- Only call counts are compared before an invocation (`PreInvokeOk`), so a run
  whose rows are past its wall-clock cap still launches one provider per command,
  where SECURITY_COST_REPRODUCIBILITY_SPEC.md 4.3 says that none is launched.
- The sentinel is written by `scan` and read by nothing (`is_frozen` has no
  caller).
- The docstring of `review` speaks of a previously completed row; the code
  accepts a row blocked by an invalid submission too, and so does `Reviewable`.
- store.py:23 says that a file is run "in a single transaction"; the statements
  of the first file are committed one by one (`Execute`). The promise that follows
  from it in that docstring holds all the same (`RecordedIsApplied`).
- "A failed step does NOT abort the run" (cli.py:2067): an exception that the
  harness does not name does (`Abort`). A review that fails leaves no "memory
  propose" line in the table. That the harness finds no review row cannot happen
  after a review that came back, for then there is one (`LookupReview`).
- The harness adopts the newest run when `init-fixture` has returned (`Adopt`),
  not the run that its own call made; `OwnRunOnly` is about the adopted one.
- ADR-0004:47 says that a termination by a signal is "killed"; the adapters say so
  for their own timeout only, and a negative return code is a failure (`Status`).
- ADR-0004:48 and base.py:125 promise no trace event when a process cannot be
  started. By then `wrap_invoke` has emitted `provider_invoked` (`CannotStart`).
- ADR-0004:82 says that all of stdout is captured; of an invocation that timed
  out the output is bytes, which the wrapper takes for none (`WriteStream`).
- The docstring of `_classify_nonzero` (health.py:232) names exit code 1 for the
  regex fallback; the code applies it to any other code as well.
- `ORDER BY experiment_id` (store.py:180, cli.py:2007) compares text: after
  `exp_9999` the greatest id is no longer the newest. Ids are numbers in the
  models.

## 7. Not modelled

Regular expressions of the scrubber, JSON-schema validation, the numeric
evaluator, worktree directories, rendering of reports: no state, or nothing but
input and output. Of the memory proposals, their text and validator. The table
`runs`, into which `init-fixture` inserts a row (cli.py:241), is read by no command
and left out. Controller phases are derived from the rows and keep nothing. The
fusion score and the sandbox's path rules are functions of one input, left to
section 5. The environment variable that also activates the kill switch is fixed
for the life of a process and is left out; so are environment values of the
ceilings that are not natural numbers.
