--------------------------- MODULE BudgetGovernor ---------------------------
(***************************************************************************)
(* The budget arithmetic of one CLI process: arena/budget/governor.py      *)
(* (BudgetGovernor), arena/budget/policy.py (Phase0HardCeilings) and       *)
(* arena/budget/waste.py (WasteDetector).                                  *)
(*                                                                         *)
(* The governor has no state of its own: its accumulators are a value that *)
(* the caller seeds from the scoreboard and threads through the calls, so  *)
(* this module is a library of operators that RunNext and Watchdog share.  *)
(* Quantities are natural numbers; a wall clock is in seconds.             *)
(***************************************************************************)
EXTENDS Integers, Sequences

CONSTANTS
    Providers,      \* provider names ("stub_codex", "claude", ...)
    CodexNames,     \* the names _is_codex accepts
    ClaudeNames,    \* the names _is_claude accepts
    Ceilings        \* Phase0HardCeilings: one record of caps

(* The three scopes in which provider calls are counted. *)
Scopes == {"total", "codex", "claude"}

Members == [total |-> Providers, codex |-> CodexNames, claude |-> ClaudeNames]

(* Ceilings come from environment variables and may be zero. *)
ASSUME CeilingsAssumption ==
    /\ CodexNames \subseteq Providers
    /\ ClaudeNames \subseteq Providers
    /\ Ceilings \in [calls : [Scopes -> Nat],
                     wallPerCall : Nat, wallTotal : Nat,
                     shellPerTask : Nat, failedPerTask : Nat,
                     repeatedPerTask : Nat,
                     wastePerTask : Nat, wastePerRun : Nat,
                     inputTotal : Nat, outputTotal : Nat]

(* UsageProxy: what one provider invocation consumed. *)
Usage == [wall : Nat, shell : Nat, failed : Nat, waste : Nat,
          input : Nat, output : Nat]

(* The usage a blocked row carries when the breaker had none to report. *)
ZeroUsage == [wall |-> 0, shell |-> 0, failed |-> 0, waste |-> 0,
              input |-> 0, output |-> 0]

ZeroAccumulators == [calls |-> [s \in Scopes |-> 0],
                     wall |-> 0, waste |-> 0, input |-> 0, output |-> 0]

NoBreaker == "none"

Breakers == {"ProviderCallBreaker", "WallClockBreaker", "ShellCommandBreaker",
             "RepeatedFailureBreaker", "WasteEventBreaker"}

-----------------------------------------------------------------------------
(* check_pre_invoke: only call counts are looked at, in every scope that    *)
(* the provider belongs to.                                                 *)
PreInvokeOk(calls, prov) ==
    \A s \in Scopes :
        prov \in Members[s] => calls[s] + 1 <= Ceilings.calls[s]

(* An ordered list of checks; the first that is exceeded names the breaker. *)
Check(used, cap, breaker) == [over |-> used > cap, breaker |-> breaker]

FirstBreaker(checks) ==
    IF \E i \in DOMAIN checks : checks[i].over
    THEN checks[CHOOSE i \in DOMAIN checks :
                  /\ checks[i].over
                  /\ \A j \in 1 .. i - 1 : ~checks[j].over].breaker
    ELSE NoBreaker

TaskCapBreaker(u) == FirstBreaker(<<
    Check(u.wall, Ceilings.wallPerCall, "WallClockBreaker"),
    Check(u.shell, Ceilings.shellPerTask, "ShellCommandBreaker"),
    Check(u.failed, Ceilings.failedPerTask, "RepeatedFailureBreaker"),
    Check(u.waste, Ceilings.wastePerTask, "WasteEventBreaker")>>)

RunCapBreaker(acc) == FirstBreaker(<<
    Check(acc.wall, Ceilings.wallTotal, "WallClockBreaker"),
    Check(acc.waste, Ceilings.wastePerRun, "WasteEventBreaker"),
    Check(acc.input, Ceilings.inputTotal, "ProviderCallBreaker"),
    Check(acc.output, Ceilings.outputTotal, "ProviderCallBreaker")>>)

(* mutant: only the provider family is counted, not the total.              *)
AddUsageFamilyOnly(acc, prov, u) ==
    [acc EXCEPT !.calls = [s \in Scopes |->
                             IF s # "total" /\ prov \in Members[s]
                             THEN @[s] + 1 ELSE @[s]],
                !.wall = @ + u.wall, !.waste = @ + u.waste,
                !.input = @ + u.input, !.output = @ + u.output]

AddUsage(acc, prov, u) ==
    [calls  |-> [s \in Scopes |->
                   IF prov \in Members[s] THEN acc.calls[s] + 1
                                          ELSE acc.calls[s]],
     wall   |-> acc.wall + u.wall,
     waste  |-> acc.waste + u.waste,
     input  |-> acc.input + u.input,
     output |-> acc.output + u.output]

(* record_post_invoke: a per-task breach raises before the accumulators     *)
(* change; a per-run breach raises after.                                   *)
RecordPostInvoke(acc, prov, u) ==
    IF TaskCapBreaker(u) # NoBreaker
    THEN [acc |-> acc, breaker |-> TaskCapBreaker(u)]
    ELSE LET new == AddUsage(acc, prov, u)
         IN  [acc |-> new, breaker |-> RunCapBreaker(new)]

-----------------------------------------------------------------------------
(* WasteDetector: per-task counters driven by failed shell commands.        *)
NoCommand == "no command"

ZeroWaste == [failed |-> 0, repeated |-> 0, waste |-> 0, last |-> NoCommand]

ObserveFailedCommand(w, cmd) ==
    [w EXCEPT !.failed = @ + 1,
              !.repeated = IF w.last = cmd THEN @ + 1 ELSE 0,
              !.last = cmd]

LiveCapBreaker(w) == FirstBreaker(<<
    Check(w.repeated, Ceilings.repeatedPerTask, "RepeatedFailureBreaker"),
    Check(w.failed, Ceilings.failedPerTask, "RepeatedFailureBreaker"),
    Check(w.waste, Ceilings.wastePerTask, "WasteEventBreaker")>>)
=============================================================================
