------------------------------ MODULE Watchdog ------------------------------
(***************************************************************************)
(* Watchdog.check_can_invoke and Watchdog.wrap_invoke                      *)
(* (arena/controller/watchdog.py) as one command uses them for the         *)
(* providers it invokes one after the other: run-next and review once,     *)
(* research-proxy up to four times, with one governor and one TraceStore.  *)
(*                                                                         *)
(* The provider adapter is the environment: while wrap_invoke is inside    *)
(* adapter.invoke it may emit shell_command_observed events, return a      *)
(* ProviderResult or raise.  The events go through TraceStore.emit, which  *)
(* calls the observer that wrap_invoke registered.  RunNext abstracts all  *)
(* of this to four actions.                                                *)
(***************************************************************************)
EXTENDS BudgetGovernor, FiniteSets, FiniteSetsExt

CONSTANTS
    Commands,       \* shell command lines an adapter may run
    Usages,         \* usages an invocation may report
    Seeds,          \* accumulators a run may have from its recorded rows
    MaxInvocations, \* provider invocations of one command (four at most)
    MaxCommands     \* bound on the shell commands of one invocation

(* RunAccumulators, as get_run_usage_totals or an earlier task leaves them. *)
Totals == [calls : [Scopes -> Nat], wall : Nat, waste : Nat,
           input : Nat, output : Nat]

ASSUME WatchdogAssumption ==
    /\ NoCommand \notin Commands
    /\ Usages \subseteq Usage
    /\ Seeds \subseteq Totals
    /\ MaxInvocations \in Nat /\ MaxCommands \in Nat

VARIABLES
    pc,         \* "between" invocations, in the "adapter", or "over"
    killActive, \* KillSwitch.is_active()
    seed,       \* get_run_usage_totals when the command started
    acc,        \* the governor's accumulators
    waste,      \* the TaskWasteCounters of the invocation under way
    observer,   \* the invocation whose _on_event callback is registered, or 0
    events,     \* the events of the trace, each with its invocation
    launched    \* the providers invoked, in order

vars == <<pc, killActive, seed, acc, waste, observer, events, launched>>

Current == Len(launched)

-----------------------------------------------------------------------------
Init ==
    /\ pc = "between"
    /\ killActive \in BOOLEAN
    /\ seed \in Seeds
    /\ acc = seed
    /\ waste = ZeroWaste
    /\ observer = 0
    /\ events = <<>>
    /\ launched = <<>>

Event(kind, cmd) == [kind |-> kind, inv |-> Current, cmd |-> cmd]

CanInvoke(prov) == ~killActive /\ PreInvokeOk(acc.calls, prov)

(* check_can_invoke raises and the command exits.                           *)
Refuse(prov) ==
    /\ pc = "between"
    /\ ~CanInvoke(prov)
    /\ pc' = "over"
    /\ UNCHANGED <<killActive, seed, acc, waste, observer, events, launched>>

(* mutant: the waste counters are bound to the command, not to the task.    *)
LaunchKeepsCounters(prov) ==
    /\ pc = "between"
    /\ Current < MaxInvocations
    /\ CanInvoke(prov)
    /\ launched' = Append(launched, prov)
    /\ events' = Append(events, [kind |-> "provider_invoked",
                                 inv |-> Current + 1, cmd |-> NoCommand])
    /\ observer' = Current + 1
    /\ pc' = "adapter"
    /\ UNCHANGED <<killActive, seed, acc, waste>>

(* mutant: the observer of the previous invocation stays registered.        *)
LaunchStaleObserver(prov) ==
    /\ pc = "between"
    /\ Current < MaxInvocations
    /\ CanInvoke(prov)
    /\ launched' = Append(launched, prov)
    /\ events' = Append(events, [kind |-> "provider_invoked",
                                 inv |-> Current + 1, cmd |-> NoCommand])
    /\ waste' = ZeroWaste
    /\ observer' = Current
    /\ pc' = "adapter"
    /\ UNCHANGED <<killActive, seed, acc>>

(* check_can_invoke passes; wrap_invoke emits provider_invoked, binds fresh *)
(* counters, registers the observer and calls the adapter.                  *)
Launch(prov) ==
    /\ pc = "between"
    /\ Current < MaxInvocations
    /\ CanInvoke(prov)
    /\ launched' = Append(launched, prov)
    /\ events' = Append(events, [kind |-> "provider_invoked",
                                 inv |-> Current + 1, cmd |-> NoCommand])
    /\ waste' = ZeroWaste
    /\ observer' = Current + 1
    /\ pc' = "adapter"
    /\ UNCHANGED <<killActive, seed, acc>>

(* wrap_invoke raises: the finally block clears the observer, and the       *)
(* command that catches the exception invokes nothing further.              *)
Leave == observer' = 0 /\ pc' = "over"

(* Bound of the model: provider_invoked and MaxCommands further events.     *)
HasCommands ==
    Cardinality({i \in DOMAIN events : events[i].inv = Current}) <= MaxCommands

(* The adapter emits shell_command_observed.  The line is in the trace when *)
(* the observer sees it; an exit code of zero is none of its business.      *)
CommandSucceeds ==
    /\ pc = "adapter"
    /\ HasCommands
    /\ events' = Append(events, Event("command_ok", NoCommand))
    /\ UNCHANGED <<pc, killActive, seed, acc, waste, observer, launched>>

(* mutant: only the repeated-failure cap is checked live.                   *)
LiveBreakerRepeatedOnly(w) ==
    FirstBreaker(<<
        Check(w.repeated, Ceilings.repeatedPerTask, "RepeatedFailureBreaker")>>)

(* _on_event: count the failure, then check the caps of the task.           *)
LiveBreaker(w) == LiveCapBreaker(w)

(* A failed command: the observer counts it, and when a cap is exceeded its *)
(* BudgetExceeded unwinds emit and the adapter, wrap_invoke emits           *)
(* breaker_triggered with the observer still registered (it ignores that    *)
(* event), clears it and raises.                                            *)
CommandFails(cmd) ==
    LET w == ObserveFailedCommand(waste, cmd)
        observed == Append(events, Event("command_failed", cmd))
    IN  /\ pc = "adapter"
        /\ HasCommands
        /\ waste' = w
        /\ IF LiveBreaker(w) = NoBreaker
           THEN events' = observed /\ UNCHANGED <<pc, observer>>
           ELSE /\ events' = Append(observed,
                                    Event("breaker_triggered", NoCommand))
                /\ Leave
        /\ UNCHANGED <<killActive, seed, acc, launched>>

(* The sandbox denies an attempt of the adapter.                            *)
SandboxDenies ==
    /\ pc = "adapter"
    /\ events' = Append(events, Event("breaker_triggered", NoCommand))
    /\ Leave
    /\ UNCHANGED <<killActive, seed, acc, waste, launched>>

(* The adapter raises anything else, ProviderUnavailable for one: nothing   *)
(* is emitted.                                                              *)
AdapterRaises ==
    /\ pc = "adapter"
    /\ Leave
    /\ UNCHANGED <<killActive, seed, acc, waste, events, launched>>

(* mutant: per-run caps are compared before the usage is added.             *)
RecordChecksFirst(a, prov, u) ==
    IF TaskCapBreaker(u) # NoBreaker
    THEN [acc |-> a, breaker |-> TaskCapBreaker(u)]
    ELSE [acc |-> AddUsage(a, prov, u), breaker |-> RunCapBreaker(a)]

Record(a, prov, u) == RecordPostInvoke(a, prov, u)

(* mutant: task_finished is emitted whatever record_post_invoke said.       *)
CloseBoth(breaker) ==
    IF breaker = NoBreaker
    THEN <<Event("task_finished", NoCommand)>>
    ELSE <<Event("breaker_triggered", NoCommand),
           Event("task_finished", NoCommand)>>

(* How wrap_invoke closes the trace of an invocation that returned.         *)
Close(breaker) ==
    IF breaker = NoBreaker
    THEN <<Event("task_finished", NoCommand)>>
    ELSE <<Event("breaker_triggered", NoCommand)>>

(* The adapter returns: the observer is cleared, the usage is recorded and  *)
(* the trace closed; a breach raises.                                       *)
AdapterReturns(u) ==
    LET post == Record(acc, launched[Current], u)
    IN  /\ pc = "adapter"
        /\ acc' = post.acc
        /\ events' = events \o Close(post.breaker)
        /\ observer' = 0
        /\ pc' = IF post.breaker = NoBreaker THEN "between" ELSE "over"
        /\ UNCHANGED <<killActive, seed, waste, launched>>

(* The command has invoked what it had to, or rejects what it got.          *)
Finish ==
    /\ pc = "between"
    /\ pc' = "over"
    /\ UNCHANGED <<killActive, seed, acc, waste, observer, events, launched>>

(* arena kill and arena unkill, from another terminal.                      *)
ToggleKill ==
    /\ pc # "over"
    /\ killActive' = ~killActive
    /\ UNCHANGED <<pc, seed, acc, waste, observer, events, launched>>

Next ==
    \/ \E prov \in Providers : Refuse(prov) \/ Launch(prov)
    \/ CommandSucceeds
    \/ \E cmd \in Commands : CommandFails(cmd)
    \/ \E u \in Usages : AdapterReturns(u)
    \/ SandboxDenies \/ AdapterRaises \/ Finish \/ ToggleKill

Spec == Init /\ [][Next]_vars

-----------------------------------------------------------------------------
(* Properties. *)
Kinds == {"provider_invoked", "command_ok", "command_failed", "task_finished",
          "breaker_triggered"}

(* The watchdog's and the governor's variables hold what the code assigns.  *)
TypeOK ==
    /\ pc \in {"between", "adapter", "over"}
    /\ killActive \in BOOLEAN
    /\ seed \in Totals /\ acc \in Totals
    /\ waste \in [failed : Nat, repeated : Nat, waste : Nat,
                  last : Commands \cup {NoCommand}]
    /\ launched \in Seq(Providers) /\ Len(launched) <= MaxInvocations
    /\ observer \in {0, Current}
    /\ events \in Seq([kind : Kinds, inv : 1 .. Current,
                       cmd : Commands \cup {NoCommand}])

Count(kind) == Cardinality({i \in DOMAIN events : events[i].kind = kind})

(* Where in the trace a command of invocation i has failed.                 *)
FailedAt(i) == {n \in DOMAIN events :
                  events[n].kind = "command_failed" /\ events[n].inv = i}

(* More than n failures of invocation i in a row are of the same command.   *)
Streak(i, n) ==
    \E a \in FailedAt(i), b \in DOMAIN events :
        /\ Cardinality(FailedAt(i) \cap (a .. b)) > n
        /\ \A k \in FailedAt(i) \cap (a .. b) : events[k].cmd = events[a].cmd

(* The live caps hold in the trace itself: while the adapter runs, no more  *)
(* commands of its task have failed, in total or in a row, than the caps    *)
(* allow; and the breaker lets exactly the one that exceeds a cap through.  *)
LiveCaps ==
    \A i \in 1 .. Current :
        LET over == IF pc = "adapter" /\ i = Current THEN 0 ELSE 1
        IN  /\ Cardinality(FailedAt(i)) <= Ceilings.failedPerTask + over
            /\ ~Streak(i, Ceilings.repeatedPerTask + 1 + over)

(* The counters that stop a task count its own failures only: no failure of *)
(* an earlier invocation of the same command and none before the observer   *)
(* was registered, and none of its own is missed.                           *)
OwnFailures ==
    pc = "adapter" =>
        /\ observer = Current
        /\ waste.failed = Cardinality(FailedAt(Current))

Called(s) == Cardinality({i \in DOMAIN launched : launched[i] \in Members[s]})

(* However many providers one command invokes, and whatever becomes of each *)
(* (a task cut short by a breaker is not counted by the governor), the run  *)
(* stays within its call ceilings.                                          *)
CallCeiling ==
    \A s \in Scopes :
        Called(s) > 0 => seed.calls[s] + Called(s) <= Ceilings.calls[s]

(* A command that has already invoked a provider invokes the next one only  *)
(* while the usage of the run, its own included, is within the run's caps.  *)
RunCapsStop ==
    pc = "adapter" /\ Current > 1 => RunCapBreaker(acc) = NoBreaker

Protocol == INSTANCE Invocations WITH
              open <- pc = "adapter", over <- pc = "over",
              opened <- Count("provider_invoked"),
              finished <- Count("task_finished"),
              broken <- Count("breaker_triggered")

(* Every provider_invoked of the trace is followed by at most one of        *)
(* task_finished and breaker_triggered before the next one, and only        *)
(* task_finished is followed by another invocation.                         *)
ProtocolSpec == Protocol!Spec
=============================================================================
