----------------------------- MODULE ProviderCli -----------------------------
(***************************************************************************)
(* The real providers, codex and claude: health.check as _get_provider     *)
(* calls it, RealCodexProvider.invoke, RealClaudeProvider.invoke and       *)
(* TraceStore.write_provider_streams.                                      *)
(*                                                                         *)
(* Commands of one run call a provider one after the other, each under the *)
(* task id and the experiment id of the one before as long as that one     *)
(* left no row: they share traces/<run>/<task_id>/ and the workspace.      *)
(* (Calibration packets share the former in any case, they are all         *)
(* task_0001.)  A command may die between any two steps.                   *)
(***************************************************************************)
EXTENDS Naturals

CONSTANTS
    MaxInv, \* bound on the commands
    Partial    \* a file that has been opened for writing and not closed

ASSUME CliAssumption == MaxInv \in Nat /\ Partial \notin Nat

VARIABLES
    installed,  \* the program on PATH: "absent", "unusable" or it "runs"
    inv,        \* the commands so far; the one under way is number inv
    cmd,        \* its program counter and local variables
    stream,     \* the four stream files: whose output they hold, or 0
    torn,       \* the stream files that have been opened and not written
    advice      \* <schema>.json in the workspace: whose payload, 0 or Partial

cliVars == <<installed, inv, cmd, stream, torn, advice>>

Raw == {"stdout.raw", "stderr.raw"}
Scrubbed == {"stdout.scrubbed", "stderr.scrubbed"}

(* What a provider process leaves.  A session error is an exit code >= 64,  *)
(* or 1 with a phrase of AUTH_EXPIRY_PATTERNS in stderr.                    *)
Exits == {"timeout", "0", "1", "1 auth phrase", "2", ">= 64", "other"}

(* Its stdout: codex, a terminal event with artifacts or usage; claude, JSON *)
(* of the schema for the packet's role and phase; or neither.               *)
Outputs == {"usable", "unusable"}

-----------------------------------------------------------------------------
Idle == [pc |-> "idle", provider |-> "none", checks |-> 0, exit |-> "none",
         output |-> "none", status |-> "none", listed |-> FALSE,
         open |-> FALSE]

CliInit ==
    /\ installed \in {"absent", "unusable", "runs"}
    /\ inv = 0
    /\ cmd = Idle
    /\ stream = [f \in Raw \cup Scrubbed |-> 0]
    /\ torn = {}
    /\ advice = 0

Goto(label) == cmd' = [cmd EXCEPT !.pc = label]

(* run-next calls _get_provider twice, before and after it takes its task,  *)
(* research-proxy and review once.                                          *)
Start(provider, checks) ==
    /\ cmd.pc = "idle"
    /\ inv < MaxInv
    /\ inv' = inv + 1
    /\ cmd' = [Idle EXCEPT !.pc = "--version", !.provider = provider, !.checks = checks]
    /\ UNCHANGED <<installed, stream, torn, advice>>

Unavailable ==
    /\ Goto("unavailable")
    /\ UNCHANGED <<installed, inv, stream, torn, advice>>

(* A probe cannot be started, times out, exits with another code than 0 or  *)
(* (--version) prints no version: whichever HealthCode it is, _get_provider *)
(* raises ProviderUnavailable.                                              *)
ProbeFails == cmd.pc \in {"--version", "--help"} /\ Unavailable

ProbeVersion ==
    /\ cmd.pc = "--version" /\ installed = "runs"
    /\ Goto("--help")
    /\ UNCHANGED <<installed, inv, stream, torn, advice>>

ProbeHelp ==
    /\ cmd.pc = "--help" /\ installed = "runs"
    /\ cmd' = [cmd EXCEPT !.checks = @ - 1,
                          !.pc = IF cmd.checks > 1 THEN "--version" ELSE "invoke"]
    /\ UNCHANGED <<installed, inv, stream, torn, advice>>

(* The workspace and the prompt file are made; resolve_provider_executable  *)
(* finds the program, or not.                                               *)
Invoke ==
    /\ cmd.pc = "invoke"
    /\ IF installed = "absent"
       THEN Unavailable
       ELSE Goto("spawn") /\ UNCHANGED <<installed, inv, stream, torn, advice>>

(* subprocess.run raises OSError.                                           *)
CannotStart == cmd.pc = "spawn" /\ installed # "runs" /\ Unavailable

(* The process runs and ends, or is killed when it times out.               *)
Run(exit, output) ==
    /\ cmd.pc = "spawn" /\ installed = "runs"
    /\ cmd' = [cmd EXCEPT !.pc = "stdout.raw", !.exit = exit, !.output = output]
    /\ UNCHANGED <<installed, inv, stream, torn, advice>>

(* mutant: the scrubbed streams first.                                      *)
AfterScrubbedFirst(file) ==
    CASE file = "stdout.raw"      -> "stdout.scrubbed"
      [] file = "stdout.scrubbed" -> "stderr.raw"
      [] file = "stderr.raw"      -> "stderr.scrubbed"
      [] OTHER                    -> "status"

(* The order of the writes in write_provider_streams.                       *)
After(file) ==
    CASE file = "stdout.raw"      -> "stderr.raw"
      [] file = "stderr.raw"      -> "stdout.scrubbed"
      [] file = "stdout.scrubbed" -> "stderr.scrubbed"
      [] OTHER                    -> "status"

(* write_provider_streams replaces one file: write_text empties it.  What   *)
(* it then holds is invocation inv's, even if nothing: subprocess.run       *)
(* returns bytes when it times out, and the wrapper takes them for no       *)
(* output at all.                                                           *)
OpenStream ==
    /\ cmd.pc \in Raw \cup Scrubbed /\ ~cmd.open
    /\ stream' = [stream EXCEPT ![cmd.pc] = inv]
    /\ torn' = torn \cup {cmd.pc}
    /\ cmd' = [cmd EXCEPT !.open = TRUE]
    /\ UNCHANGED <<installed, inv, advice>>

(* ... and writes it.                                                       *)
WriteStream ==
    /\ cmd.pc \in Raw \cup Scrubbed /\ cmd.open
    /\ torn' = torn \ {cmd.pc}
    /\ cmd' = [cmd EXCEPT !.open = FALSE, !.pc = After(cmd.pc)]
    /\ UNCHANGED <<installed, inv, stream, advice>>

(* The status mapping, the same in both wrappers.                           *)
Status ==
    CASE cmd.exit = "timeout"                                -> "killed"
      [] cmd.exit = "0" /\ cmd.output = "usable"             -> "success"
      [] cmd.exit \in {">= 64", "2", "1 auth phrase"}        -> "blocked"
      [] OTHER                                               -> "failure"

ReturnStatus ==
    /\ cmd' = [cmd EXCEPT !.pc = "returned", !.status = Status]
    /\ UNCHANGED advice

(* mutant: advice that is there already is not written again.               *)
MapStatusKeepsAdvice ==
    /\ cmd.pc = "status"
    /\ IF cmd.provider = "claude" /\ Status = "success"
       THEN IF advice = 0
            THEN advice' = Partial /\ Goto("advice")
            ELSE /\ cmd' = [cmd EXCEPT !.pc = "returned", !.status = Status, !.listed = TRUE]
                 /\ UNCHANGED advice
       ELSE ReturnStatus
    /\ UNCHANGED <<installed, inv, stream, torn>>

(* claude gives content and no file: on success the wrapper opens           *)
(* <schema>.json in the workspace.  The artifacts that codex lists are its  *)
(* own business.                                                            *)
MapStatus ==
    /\ cmd.pc = "status"
    /\ IF cmd.provider = "claude" /\ Status = "success"
       THEN advice' = Partial /\ Goto("advice")
       ELSE ReturnStatus
    /\ UNCHANGED <<installed, inv, stream, torn>>

(* ... writes it, lists its path and returns.                               *)
WriteAdvice ==
    /\ cmd.pc = "advice"
    /\ advice' = inv
    /\ cmd' = [cmd EXCEPT !.pc = "returned", !.status = Status, !.listed = TRUE]
    /\ UNCHANGED <<installed, inv, stream, torn>>

(* The command has its result and records a row: the next experiment has an *)
(* id, and a workspace, of its own.                                         *)
RecordRow ==
    /\ cmd.pc = "returned"
    /\ cmd' = Idle
    /\ advice' = 0
    /\ UNCHANGED <<installed, inv, stream, torn>>

(* ProviderUnavailable ends the command, as does a crash, or an exception   *)
(* of the parser (a last line that is no object): no row.                   *)
End ==
    /\ cmd.pc # "idle"
    /\ cmd' = Idle
    /\ UNCHANGED <<installed, inv, stream, torn, advice>>

(* The human installs, upgrades or removes the program.                     *)
Reinstall ==
    /\ installed' \in {"absent", "unusable", "runs"}
    /\ UNCHANGED <<inv, cmd, stream, torn, advice>>

CliNext ==
    \/ \E provider \in {"codex", "claude"}, checks \in 1 .. 2 : Start(provider, checks)
    \/ ProbeFails \/ ProbeVersion \/ ProbeHelp \/ Invoke \/ CannotStart
    \/ \E exit \in Exits, output \in Outputs : Run(exit, output)
    \/ OpenStream \/ WriteStream \/ MapStatus \/ WriteAdvice \/ RecordRow \/ End \/ Reinstall

CliSpec == CliInit /\ [][CliNext]_cliVars

-----------------------------------------------------------------------------
(* Properties. *)

(* Whenever a scrubbed stream of an invocation is on disk, be it cut short, *)
(* both of its raw streams are there whole, unless a later invocation has   *)
(* begun to replace them: wherever commands died, between two writes or in  *)
(* the middle of one (write_provider_streams: "Raw paths are written        *)
(* FIRST").                                                                 *)
RawFirst ==
    \A s \in Scrubbed, r \in Raw :
        stream[s] < stream[r] \/ (stream[s] = stream[r] /\ r \notin torn)

(* An artifact that claude's result lists is there, complete, and holds the *)
(* answer of this very invocation, also when one that died has left a file  *)
(* in the same workspace; an invocation that did not succeed lists none.    *)
OwnAdvice ==
    cmd.pc = "returned" /\ cmd.provider = "claude" =>
        /\ cmd.listed <=> cmd.status = "success"
        /\ cmd.listed => advice = inv
=============================================================================
