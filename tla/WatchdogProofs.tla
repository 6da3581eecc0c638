---------------------------- MODULE WatchdogProofs ----------------------------
(***************************************************************************)
(* Proofs about Watchdog, for any ceilings, providers and usages and any   *)
(* number of invocations of one command and of shell commands of each.     *)
(***************************************************************************)
EXTENDS Watchdog, FiniteSetTheorems, TLAPS

-----------------------------------------------------------------------------
(* The records of a sequence that has grown by one. *)

LEMMA AddNext ==
  ASSUME NEW n \in Nat, NEW A \in SUBSET (1 .. n)
  PROVE  /\ IsFiniteSet(A) /\ Cardinality(A) \in Nat
         /\ Cardinality(A \cup {n + 1}) = Cardinality(A) + 1
<1>1. IsFiniteSet(A)
  <2>1. IsFiniteSet(1 .. n)
    BY FS_Interval
  <2> QED BY <2>1, FS_Subset
<1>2. n + 1 \notin A
  OBVIOUS
<1> QED BY <1>1, <1>2, FS_AddElement, FS_CardinalityType

OfKind(s, kind) == {i \in DOMAIN s : s[i].kind = kind}

LEMMA KindAppend ==
  ASSUME NEW S, NEW s \in Seq(S), NEW e, NEW kind
  PROVE  /\ Cardinality(OfKind(s, kind)) \in Nat
         /\ Cardinality(OfKind(Append(s, e), kind))
              = Cardinality(OfKind(s, kind)) + (IF e.kind = kind THEN 1 ELSE 0)
<1>1. OfKind(s, kind) \in SUBSET (1 .. Len(s)) /\ Len(s) \in Nat
  BY DEF OfKind
<1>2. OfKind(Append(s, e), kind)
        = IF e.kind = kind THEN OfKind(s, kind) \cup {Len(s) + 1} ELSE OfKind(s, kind)
  <2>1. DOMAIN Append(s, e) = 1 .. Len(s) + 1 /\ DOMAIN s = 1 .. Len(s)
        /\ \A i \in 1 .. Len(s) + 1 :
             Append(s, e)[i] = IF i = Len(s) + 1 THEN e ELSE s[i]
    OBVIOUS
  <2>2. CASE e.kind = kind
    BY <2>1, <2>2 DEF OfKind
  <2>3. CASE ~(e.kind = kind)
    BY <2>1, <2>3 DEF OfKind
  <2> QED BY <2>2, <2>3
<1>3. /\ Cardinality(OfKind(s, kind)) \in Nat
      /\ Cardinality(OfKind(s, kind) \cup {Len(s) + 1}) = Cardinality(OfKind(s, kind)) + 1
  BY <1>1, AddNext
<1>4. CASE e.kind = kind
  <2>1. OfKind(Append(s, e), kind) = OfKind(s, kind) \cup {Len(s) + 1}
    BY <1>2, <1>4
  <2> QED BY <1>3, <1>4, <2>1
<1>5. CASE ~(e.kind = kind)
  <2>1. OfKind(Append(s, e), kind) = OfKind(s, kind)
    BY <1>2, <1>5
  <2> QED BY <1>3, <1>5, <2>1
<1> QED BY <1>4, <1>5

FailuresOf(s, n) == {i \in DOMAIN s : s[i].kind = "command_failed" /\ s[i].inv = n}

LEMMA FailureAppend ==
  ASSUME NEW S, NEW s \in Seq(S), NEW e, NEW n
  PROVE  /\ Cardinality(FailuresOf(s, n)) \in Nat
         /\ Cardinality(FailuresOf(Append(s, e), n))
              = Cardinality(FailuresOf(s, n))
                  + (IF e.kind = "command_failed" /\ e.inv = n THEN 1 ELSE 0)
<1>1. FailuresOf(s, n) \in SUBSET (1 .. Len(s)) /\ Len(s) \in Nat
  BY DEF FailuresOf
<1>2. FailuresOf(Append(s, e), n)
        = IF e.kind = "command_failed" /\ e.inv = n
          THEN FailuresOf(s, n) \cup {Len(s) + 1} ELSE FailuresOf(s, n)
  <2>1. DOMAIN Append(s, e) = 1 .. Len(s) + 1 /\ DOMAIN s = 1 .. Len(s)
        /\ \A i \in 1 .. Len(s) + 1 :
             Append(s, e)[i] = IF i = Len(s) + 1 THEN e ELSE s[i]
    OBVIOUS
  <2>2. CASE e.kind = "command_failed" /\ e.inv = n
    BY <2>1, <2>2 DEF FailuresOf
  <2>3. CASE ~(e.kind = "command_failed" /\ e.inv = n)
    BY <2>1, <2>3 DEF FailuresOf
  <2> QED BY <2>2, <2>3
<1>3. /\ Cardinality(FailuresOf(s, n)) \in Nat
      /\ Cardinality(FailuresOf(s, n) \cup {Len(s) + 1}) = Cardinality(FailuresOf(s, n)) + 1
  BY <1>1, AddNext
<1>4. CASE e.kind = "command_failed" /\ e.inv = n
  <2>1. FailuresOf(Append(s, e), n) = FailuresOf(s, n) \cup {Len(s) + 1}
    BY <1>2, <1>4
  <2> QED BY <1>3, <1>4, <2>1
<1>5. CASE ~(e.kind = "command_failed" /\ e.inv = n)
  <2>1. FailuresOf(Append(s, e), n) = FailuresOf(s, n)
    BY <1>2, <1>5
  <2> QED BY <1>3, <1>5, <2>1
<1> QED BY <1>4, <1>5

CalledIn(l, s) == {i \in DOMAIN l : l[i] \in Members[s]}

LEMMA CalledAppend ==
  ASSUME NEW l \in Seq(Providers), NEW prov, NEW s
  PROVE  /\ Cardinality(CalledIn(l, s)) \in Nat
         /\ Cardinality(CalledIn(Append(l, prov), s))
              = Cardinality(CalledIn(l, s)) + (IF prov \in Members[s] THEN 1 ELSE 0)
<1>1. CalledIn(l, s) \in SUBSET (1 .. Len(l)) /\ Len(l) \in Nat
  BY DEF CalledIn
<1>2. CalledIn(Append(l, prov), s)
        = IF prov \in Members[s] THEN CalledIn(l, s) \cup {Len(l) + 1} ELSE CalledIn(l, s)
  <2>1. DOMAIN Append(l, prov) = 1 .. Len(l) + 1 /\ DOMAIN l = 1 .. Len(l)
        /\ \A i \in 1 .. Len(l) + 1 :
             Append(l, prov)[i] = IF i = Len(l) + 1 THEN prov ELSE l[i]
    OBVIOUS
  <2>2. CASE prov \in Members[s]
    BY <2>1, <2>2 DEF CalledIn
  <2>3. CASE ~(prov \in Members[s])
    BY <2>1, <2>3 DEF CalledIn
  <2> QED BY <2>2, <2>3
<1>3. /\ Cardinality(CalledIn(l, s)) \in Nat
      /\ Cardinality(CalledIn(l, s) \cup {Len(l) + 1}) = Cardinality(CalledIn(l, s)) + 1
  BY <1>1, AddNext
<1>4. CASE prov \in Members[s]
  <2>1. CalledIn(Append(l, prov), s) = CalledIn(l, s) \cup {Len(l) + 1}
    BY <1>2, <1>4
  <2> QED BY <1>3, <1>4, <2>1
<1>5. CASE ~(prov \in Members[s])
  <2>1. CalledIn(Append(l, prov), s) = CalledIn(l, s)
    BY <1>2, <1>5
  <2> QED BY <1>3, <1>5, <2>1
<1> QED BY <1>4, <1>5

-----------------------------------------------------------------------------
(* Types. *)

Events(n) == [kind : Kinds, inv : 1 .. n, cmd : Commands \cup {NoCommand}]

LEMMA EventType ==
  ASSUME TypeOK, pc = "adapter", Current # 0,
         NEW kind \in Kinds, NEW cmd \in Commands \cup {NoCommand}
  PROVE  Event(kind, cmd) \in Events(Current)
<1>1. Current \in Nat /\ Current \in 1 .. Current
  BY DEF TypeOK, Current
<1> QED BY <1>1 DEF Event, Events

LEMMA AddUsageType ==
  ASSUME NEW a \in Totals, NEW prov, NEW u \in Usage
  PROVE  AddUsage(a, prov, u) \in Totals
BY DEF Totals, Usage, AddUsage

LEMMA RecordType ==
  ASSUME NEW a \in Totals, NEW prov, NEW u \in Usage
  PROVE  Record(a, prov, u).acc \in Totals
BY AddUsageType DEF Record, RecordPostInvoke

LEMMA CapType == ASSUME NEW s \in Scopes PROVE Ceilings.calls[s] \in Nat
BY CeilingsAssumption DEF Scopes

(* While the adapter runs there is an invocation.                           *)
Running == pc = "adapter" => Current # 0

TypeInv == TypeOK /\ Running

LEMMA TypeInit == Init => TypeInv
<1> SUFFICES ASSUME Init PROVE TypeInv
  OBVIOUS
<1>1. seed \in Totals /\ acc \in Totals
  BY WatchdogAssumption DEF Init
<1> QED
  BY <1>1, WatchdogAssumption
     DEF Init, TypeInv, TypeOK, Running, ZeroWaste, Current

LEMMA TypeNext == TypeInv /\ [Next]_vars => TypeInv'
<1> SUFFICES ASSUME TypeInv, [Next]_vars PROVE TypeInv'
  OBVIOUS
<1> USE DEF TypeInv
<1>0. Current \in Nat /\ events \in Seq(Events(Current))
  BY DEF TypeOK, Events, Current
<1>a. ASSUME UNCHANGED <<launched, seed>>, pc' \in {"between", "adapter", "over"},
             pc' = "adapter" => pc = "adapter", killActive' \in BOOLEAN,
             acc' \in Totals, waste' \in [failed : Nat, repeated : Nat, waste : Nat,
                                          last : Commands \cup {NoCommand}],
             observer' \in {0, observer}, events' \in Seq(Events(Current))
      PROVE  TypeInv'
  <2>1. Current' = Current
    BY <1>a DEF Current
  <2> QED BY <1>a, <2>1 DEF TypeOK, Running, Events
<1>1. ASSUME NEW prov \in Providers, Refuse(prov) PROVE TypeInv'
  BY <1>0, <1>1, <1>a DEF Refuse, TypeOK
<1>2. ASSUME NEW prov \in Providers, Launch(prov) PROVE TypeInv'
  <2>1. Current' = Current + 1 /\ launched' \in Seq(Providers)
    BY <1>2 DEF Launch, Current, TypeOK
  <2>2. events' \in Seq(Events(Current + 1))
    <3>1. Events(Current) \subseteq Events(Current + 1)
      BY <1>0 DEF Events
    <3>2. [kind |-> "provider_invoked", inv |-> Current + 1, cmd |-> NoCommand]
            \in Events(Current + 1)
      BY <1>0 DEF Events, Kinds
    <3>3. events \in Seq(Events(Current + 1))
      BY <1>0, <3>1
    <3> QED BY <1>2, <3>2, <3>3 DEF Launch
  <2>3. Current' <= MaxInvocations
    BY <1>0, <1>2, <2>1, WatchdogAssumption DEF Launch
  <2>4. waste' \in [failed : Nat, repeated : Nat, waste : Nat,
                    last : Commands \cup {NoCommand}]
    BY <1>2 DEF Launch, ZeroWaste
  <2>5. Current' # 0
    BY <1>0, <2>1
  <2> QED
    BY <1>2, <2>1, <2>2, <2>3, <2>4, <2>5 DEF Launch, TypeOK, Running, Events, Current
<1>3. CASE CommandSucceeds
  <2>1. Event("command_ok", NoCommand) \in Events(Current)
    BY <1>3, EventType DEF CommandSucceeds, Running, Kinds
  <2> QED BY <1>0, <1>3, <1>a, <2>1 DEF CommandSucceeds, TypeOK
<1>4. ASSUME NEW cmd \in Commands, CommandFails(cmd) PROVE TypeInv'
  <2>1. Event("command_failed", cmd) \in Events(Current)
        /\ Event("breaker_triggered", NoCommand) \in Events(Current)
    BY <1>4, EventType DEF CommandFails, Running, Kinds
  <2>2. waste' \in [failed : Nat, repeated : Nat, waste : Nat,
                    last : Commands \cup {NoCommand}]
    <3>1. PICK r \in Nat, n \in Nat :
            waste' = [waste EXCEPT !.failed = n, !.repeated = r, !.last = cmd]
      <4>1. waste' = [waste EXCEPT !.failed = waste.failed + 1,
                        !.repeated = IF waste.last = cmd THEN waste.repeated + 1 ELSE 0,
                        !.last = cmd]
        BY <1>4 DEF CommandFails, ObserveFailedCommand
      <4>2. waste.failed + 1 \in Nat
            /\ (IF waste.last = cmd THEN waste.repeated + 1 ELSE 0) \in Nat
        BY DEF TypeOK
      <4> QED BY <4>1, <4>2
    <3> QED BY <3>1 DEF TypeOK
  <2>3. events' \in Seq(Events(Current)) /\ observer' \in {0, observer}
        /\ pc' \in {pc, "over"}
    <3>1. PICK e \in Events(Current), b \in Events(Current) :
            /\ e = Event("command_failed", cmd)
            /\ b = Event("breaker_triggered", NoCommand)
      BY <2>1
    <3>2. events' = Append(events, e) \/ events' = Append(Append(events, e), b)
      BY <1>4, <3>1 DEF CommandFails
    <3>3. events' \in Seq(Events(Current))
      BY <1>0, <3>1, <3>2
    <3>4. observer' \in {0, observer} /\ pc' \in {pc, "over"}
      BY <1>4 DEF CommandFails, Leave
    <3> QED BY <3>3, <3>4
  <2> QED BY <1>4, <1>a, <2>2, <2>3 DEF CommandFails, TypeOK
<1>5. CASE SandboxDenies
  <2>1. Event("breaker_triggered", NoCommand) \in Events(Current)
    BY <1>5, EventType DEF SandboxDenies, Running, Kinds
  <2> QED BY <1>0, <1>5, <1>a, <2>1 DEF SandboxDenies, Leave, TypeOK
<1>6. CASE AdapterRaises
  BY <1>0, <1>6, <1>a DEF AdapterRaises, Leave, TypeOK
<1>7. ASSUME NEW u \in Usages, AdapterReturns(u) PROVE TypeInv'
  <2>1. acc' \in Totals
    BY <1>7, RecordType, WatchdogAssumption DEF AdapterReturns, TypeOK
  <2>2. Event("task_finished", NoCommand) \in Events(Current)
        /\ Event("breaker_triggered", NoCommand) \in Events(Current)
    BY <1>7, EventType DEF AdapterReturns, Running, Kinds
  <2>3. \A b : Close(b) \in Seq(Events(Current))
    BY <2>2 DEF Close
  <2>4. events' \in Seq(Events(Current))
    BY <1>0, <1>7, <2>3 DEF AdapterReturns
  <2>5. pc' \in {"between", "over"}
    BY <1>7 DEF AdapterReturns
  <2> QED BY <1>7, <1>a, <2>1, <2>4, <2>5 DEF AdapterReturns, TypeOK
<1>8. CASE Finish
  BY <1>0, <1>8, <1>a DEF Finish, TypeOK
<1>9. CASE ToggleKill
  BY <1>0, <1>9, <1>a DEF ToggleKill, TypeOK
<1>10. CASE UNCHANGED vars
  BY <1>0, <1>10, <1>a DEF vars, TypeOK
<1> QED
  BY <1>1, <1>2, <1>3, <1>4, <1>5, <1>6, <1>7, <1>8, <1>9, <1>10 DEF Next

(* The watchdog's and the governor's variables hold what the code assigns.  *)
THEOREM TypeCorrect == Spec => []TypeOK
<1>1. Spec => []TypeInv
  BY TypeInit, TypeNext, PTL DEF Spec
<1> QED BY <1>1, PTL DEF TypeInv

-----------------------------------------------------------------------------
(* Budgets. *)

UnderWay(s) == IF pc = "adapter" /\ launched[Current] \in Members[s] THEN 1 ELSE 0

(* The accumulators are the seed and the calls of this command, but for the *)
(* one under way; a command that may go on is within the caps of the run.   *)
CallInv ==
    /\ pc # "over" => \A s \in Scopes :
         acc.calls[s] + UnderWay(s) = seed.calls[s] + Called(s)
    /\ pc = "between" /\ Current > 0 => RunCapBreaker(acc) = NoBreaker

BudgetInv == CallInv /\ CallCeiling /\ RunCapsStop

LEMMA BudgetInit == Init => BudgetInv
<1> SUFFICES ASSUME Init PROVE BudgetInv
  OBVIOUS
<1>1. launched = <<>> /\ pc = "between" /\ acc = seed /\ seed \in Totals
  BY WatchdogAssumption DEF Init
<1>2. \A s \in Scopes : Called(s) = 0
  <2>1. \A s \in Scopes : {i \in DOMAIN launched : launched[i] \in Members[s]} = {}
    BY <1>1
  <2> QED BY <2>1, FS_EmptySet DEF Called
<1> QED
  BY <1>1, <1>2 DEF BudgetInv, CallInv, CallCeiling, RunCapsStop, Current, UnderWay, Totals

(* What a step does that starts no invocation and ends none that returned.  *)
LEMMA BudgetQuiet ==
  ASSUME BudgetInv, UNCHANGED <<launched, seed, acc>>, pc' \in {pc, "over"}
  PROVE  BudgetInv'
<1>1. Current' = Current /\ \A s \in Scopes : Called(s)' = Called(s)
  BY DEF Current, Called
<1>2. pc' # "over" => pc' = pc
  OBVIOUS
<1>3. pc' # "over" => \A s \in Scopes : UnderWay(s)' = UnderWay(s)
  BY <1>1, <1>2 DEF UnderWay
<1>4. CallInv'
  BY <1>1, <1>2, <1>3 DEF BudgetInv, CallInv
<1>5. CallCeiling'
  BY <1>1 DEF BudgetInv, CallCeiling
<1>6. RunCapsStop'
  BY <1>1, <1>2 DEF BudgetInv, RunCapsStop
<1> QED BY <1>4, <1>5, <1>6 DEF BudgetInv

LEMMA BudgetLaunch ==
  ASSUME TypeInv, BudgetInv, NEW prov \in Providers, Launch(prov)
  PROVE  BudgetInv'
<1>1. /\ pc = "between" /\ pc' = "adapter" /\ launched \in Seq(Providers)
      /\ launched' = Append(launched, prov) /\ UNCHANGED <<seed, acc>>
      /\ PreInvokeOk(acc.calls, prov)
  BY DEF Launch, CanInvoke, TypeInv, TypeOK
<1>2. Current' = Current + 1 /\ launched'[Current'] = prov /\ Current \in Nat
  BY <1>1 DEF Current
<1>3. ASSUME NEW s \in Scopes
      PROVE  /\ Called(s) \in Nat /\ seed.calls[s] \in Nat /\ acc.calls[s] \in Nat
             /\ Called(s)' = Called(s) + (IF prov \in Members[s] THEN 1 ELSE 0)
             /\ acc.calls[s] = seed.calls[s] + Called(s)
  <2>1. Called(s) = Cardinality(CalledIn(launched, s))
        /\ Called(s)' = Cardinality(CalledIn(Append(launched, prov), s))
    BY <1>1 DEF Called, CalledIn
  <2>2. seed.calls[s] \in Nat /\ acc.calls[s] \in Nat
    BY DEF TypeInv, TypeOK, Totals
  <2>3. UnderWay(s) = 0
    BY <1>1 DEF UnderWay
  <2>4. acc.calls[s] + UnderWay(s) = seed.calls[s] + Called(s)
    BY <1>1 DEF BudgetInv, CallInv
  <2>5. Called(s) \in Nat
        /\ Called(s)' = Called(s) + (IF prov \in Members[s] THEN 1 ELSE 0)
    BY <1>1, <2>1, CalledAppend
  <2> QED BY <2>2, <2>3, <2>4, <2>5
<1>4. CallInv'
  <2>1. ASSUME NEW s \in Scopes
        PROVE  acc'.calls[s] + UnderWay(s)' = seed'.calls[s] + Called(s)'
    <3>1. UnderWay(s)' = IF prov \in Members[s] THEN 1 ELSE 0
      BY <1>1, <1>2 DEF UnderWay
    <3>2. acc'.calls[s] = acc.calls[s] /\ seed'.calls[s] = seed.calls[s]
      BY <1>1
    <3>3. CASE prov \in Members[s]
      BY <1>3, <3>1, <3>2, <3>3
    <3>4. CASE prov \notin Members[s]
      BY <1>3, <3>1, <3>2, <3>4
    <3> QED BY <3>3, <3>4
  <2> QED BY <1>1, <2>1 DEF CallInv
<1>5. CallCeiling'
  <2> SUFFICES ASSUME NEW s \in Scopes, Called(s)' > 0
               PROVE  seed'.calls[s] + Called(s)' <= Ceilings.calls[s]
    BY DEF CallCeiling
  <2>1. CASE prov \in Members[s]
    <3>1. acc.calls[s] + 1 <= Ceilings.calls[s]
      BY <1>1, <2>1 DEF PreInvokeOk
    <3> QED BY <1>1, <1>3, <2>1, <3>1, CapType
  <2>2. CASE prov \notin Members[s]
    <3>1. Called(s)' = Called(s)
      BY <1>3, <2>2
    <3> QED BY <1>1, <3>1 DEF BudgetInv, CallCeiling
  <2> QED BY <2>1, <2>2
<1>6. RunCapsStop'
  <2>1. Current' > 1 => Current > 0
    BY <1>2
  <2> QED BY <1>1, <2>1 DEF BudgetInv, CallInv, RunCapsStop
<1> QED BY <1>4, <1>5, <1>6 DEF BudgetInv

LEMMA BudgetReturn ==
  ASSUME TypeInv, BudgetInv, NEW u \in Usages, AdapterReturns(u)
  PROVE  BudgetInv'
<1> DEFINE prov == launched[Current]
           post == Record(acc, prov, u)
<1>1. /\ pc = "adapter" /\ acc' = post.acc /\ UNCHANGED <<launched, seed>>
      /\ pc' = IF post.breaker = NoBreaker THEN "between" ELSE "over"
  BY DEF AdapterReturns
<1>2. Current' = Current /\ \A s \in Scopes : Called(s)' = Called(s)
  BY <1>1 DEF Current, Called
<1>3. CallCeiling' /\ RunCapsStop'
  BY <1>1, <1>2 DEF BudgetInv, CallCeiling, RunCapsStop
<1>4. CASE pc' = "over"
  BY <1>3, <1>4 DEF BudgetInv, CallInv
<1>5. CASE pc' # "over"
  <2>1. post.breaker = NoBreaker /\ pc' = "between"
    BY <1>1, <1>5
  <2>2. post.acc = AddUsage(acc, prov, u)
        /\ RunCapBreaker(AddUsage(acc, prov, u)) = NoBreaker
    BY <2>1 DEF Record, RecordPostInvoke
  <2>3. ASSUME NEW s \in Scopes
        PROVE  acc'.calls[s] + UnderWay(s)' = seed'.calls[s] + Called(s)'
    <3>1. UnderWay(s)' = 0 /\ UnderWay(s) = IF prov \in Members[s] THEN 1 ELSE 0
      BY <1>1, <2>1 DEF UnderWay
    <3>2. acc'.calls[s] = IF prov \in Members[s] THEN acc.calls[s] + 1 ELSE acc.calls[s]
      BY <1>1, <2>2 DEF AddUsage
    <3>3. acc.calls[s] + UnderWay(s) = seed.calls[s] + Called(s)
      BY <1>1 DEF BudgetInv, CallInv
    <3>4. acc.calls[s] \in Nat
      BY DEF TypeInv, TypeOK, Totals
    <3>5. acc'.calls[s] + UnderWay(s)' = acc.calls[s] + UnderWay(s)
      <4>1. CASE prov \in Members[s]
        BY <3>1, <3>2, <3>4, <4>1
      <4>2. CASE prov \notin Members[s]
        BY <3>1, <3>2, <3>4, <4>2
      <4> QED BY <4>1, <4>2
    <3> QED BY <1>1, <1>2, <3>3, <3>5
  <2> QED BY <1>1, <1>3, <2>1, <2>2, <2>3 DEF BudgetInv, CallInv
<1> QED BY <1>4, <1>5

LEMMA BudgetNext == TypeInv /\ BudgetInv /\ [Next]_vars => BudgetInv'
<1> SUFFICES ASSUME TypeInv, BudgetInv, [Next]_vars PROVE BudgetInv'
  OBVIOUS
<1>1. ASSUME NEW prov \in Providers, Refuse(prov) PROVE BudgetInv'
  BY <1>1, BudgetQuiet DEF Refuse
<1>2. ASSUME NEW prov \in Providers, Launch(prov) PROVE BudgetInv'
  BY <1>2, BudgetLaunch
<1>3. CASE CommandSucceeds
  BY <1>3, BudgetQuiet DEF CommandSucceeds
<1>4. ASSUME NEW cmd \in Commands, CommandFails(cmd) PROVE BudgetInv'
  BY <1>4, BudgetQuiet DEF CommandFails, Leave
<1>5. CASE SandboxDenies
  BY <1>5, BudgetQuiet DEF SandboxDenies, Leave
<1>6. CASE AdapterRaises
  BY <1>6, BudgetQuiet DEF AdapterRaises, Leave
<1>7. ASSUME NEW u \in Usages, AdapterReturns(u) PROVE BudgetInv'
  BY <1>7, BudgetReturn
<1>8. CASE Finish
  BY <1>8, BudgetQuiet DEF Finish
<1>9. CASE ToggleKill
  BY <1>9, BudgetQuiet DEF ToggleKill
<1>10. CASE UNCHANGED vars
  BY <1>10, BudgetQuiet DEF vars
<1> QED
  BY <1>1, <1>2, <1>3, <1>4, <1>5, <1>6, <1>7, <1>8, <1>9, <1>10 DEF Next

LEMMA AlwaysTyped == Spec => []TypeInv
BY TypeInit, TypeNext, PTL DEF Spec

LEMMA AlwaysInBudget == Spec => []BudgetInv
BY AlwaysTyped, BudgetInit, BudgetNext, PTL DEF Spec

(* The run stays within its call ceilings, however many providers the       *)
(* command invokes and however each of them ends.                           *)
THEOREM CallCeilingHolds == Spec => []CallCeiling
BY AlwaysInBudget, PTL DEF BudgetInv

(* No further provider is invoked in a run that is past one of its caps.    *)
THEOREM RunCapsStopTheRun == Spec => []RunCapsStop
BY AlwaysInBudget, PTL DEF BudgetInv

-----------------------------------------------------------------------------
(* The counters of the waste detector. *)

LEMMA OwnNext == TypeInv /\ OwnFailures /\ [Next]_vars => OwnFailures'
<1> SUFFICES ASSUME TypeInv, OwnFailures, [Next]_vars, pc' = "adapter"
             PROVE  observer' = Current' /\ waste'.failed = Cardinality(FailedAt(Current)')
  BY DEF OwnFailures
<1>0. /\ Current \in Nat /\ events \in Seq(Events(Current))
      /\ \A n : FailedAt(n) = FailuresOf(events, n)
  BY DEF TypeInv, TypeOK, Current, Events, FailedAt, FailuresOf
<1>a. ASSUME UNCHANGED <<launched, observer, waste, events>>, pc = "adapter"
      PROVE  observer' = Current' /\ waste'.failed = Cardinality(FailedAt(Current)')
  BY <1>a DEF OwnFailures, Current, FailedAt
<1>1. ASSUME NEW prov \in Providers, Launch(prov)
      PROVE  observer' = Current' /\ waste'.failed = Cardinality(FailedAt(Current)')
  <2> DEFINE e == [kind |-> "provider_invoked", inv |-> Current + 1, cmd |-> NoCommand]
  <2>1. /\ Current' = Current + 1 /\ observer' = Current + 1 /\ waste'.failed = 0
        /\ events' = Append(events, e)
    BY <1>1 DEF Launch, Current, TypeInv, TypeOK, ZeroWaste
  <2>2. FailuresOf(events, Current + 1) = {}
    <3>1. \A i \in DOMAIN events : events[i] \in Events(Current)
      BY <1>0
    <3>2. \A i \in DOMAIN events : events[i].inv # Current + 1
      BY <1>0, <3>1 DEF Events
    <3> QED BY <3>2 DEF FailuresOf
  <2>3. Cardinality(FailuresOf(Append(events, e), Current + 1)) = 0
    <3>1. Cardinality(FailuresOf(events, Current + 1)) = 0
      BY <2>2, FS_EmptySet
    <3>2. ~(e.kind = "command_failed" /\ e.inv = Current + 1)
      OBVIOUS
    <3> HIDE DEF e
    <3>3. Cardinality(FailuresOf(Append(events, e), Current + 1))
            = Cardinality(FailuresOf(events, Current + 1)) + 0
      BY <1>0, <3>2, FailureAppend
    <3> QED BY <3>1, <3>3
  <2>4. FailedAt(Current)' = FailuresOf(events', Current')
    BY DEF FailedAt, FailuresOf
  <2> QED BY <2>1, <2>3, <2>4
<1>2. CASE CommandSucceeds
  <2> DEFINE e == Event("command_ok", NoCommand)
  <2>1. /\ pc = "adapter" /\ events' = Append(events, e)
        /\ UNCHANGED <<launched, observer, waste>> /\ Current' = Current
    BY <1>2 DEF CommandSucceeds, Current
  <2>2. e.kind # "command_failed"
    BY DEF Event
  <2>3. Cardinality(FailuresOf(events', Current)) = Cardinality(FailuresOf(events, Current))
    <3> HIDE DEF e
    <3> QED BY <1>0, <2>1, <2>2, FailureAppend
  <2>4. FailedAt(Current)' = FailuresOf(events', Current')
    BY DEF FailedAt, FailuresOf
  <2> QED BY <1>0, <2>1, <2>3, <2>4 DEF OwnFailures
<1>3. ASSUME NEW cmd \in Commands, CommandFails(cmd)
      PROVE  observer' = Current' /\ waste'.failed = Cardinality(FailedAt(Current)')
  <2> DEFINE e == Event("command_failed", cmd)
  <2>1. /\ pc = "adapter" /\ events' = Append(events, e)
        /\ UNCHANGED <<launched, observer>> /\ Current' = Current
        /\ waste'.failed = waste.failed + 1
    BY <1>3 DEF CommandFails, Leave, Current, ObserveFailedCommand, TypeInv, TypeOK
  <2>2. e.kind = "command_failed" /\ e.inv = Current
    BY DEF Event
  <2>3. Cardinality(FailuresOf(events', Current))
          = Cardinality(FailuresOf(events, Current)) + 1
    <3> HIDE DEF e
    <3> QED BY <1>0, <2>1, <2>2, FailureAppend
  <2>4. FailedAt(Current)' = FailuresOf(events', Current')
    BY DEF FailedAt, FailuresOf
  <2> QED BY <1>0, <2>1, <2>3, <2>4 DEF OwnFailures
<1>4. CASE ToggleKill
  BY <1>4, <1>a DEF ToggleKill
<1>5. CASE UNCHANGED vars
  BY <1>5, <1>a DEF vars
<1>6. ASSUME NEW u \in Usages, AdapterReturns(u) PROVE FALSE
  BY <1>6 DEF AdapterReturns
<1>7. ASSUME NEW prov \in Providers, Refuse(prov) PROVE FALSE
  BY <1>7 DEF Refuse
<1> QED
  BY <1>1, <1>2, <1>3, <1>4, <1>5, <1>6, <1>7
     DEF Next, SandboxDenies, AdapterRaises, Leave, Finish

(* The counters that stop a task count its own failures, all and only them. *)
THEOREM CountersAreOwn == Spec => []OwnFailures
<1>1. Init => OwnFailures
  BY DEF Init, OwnFailures
<1> QED BY <1>1, OwnNext, AlwaysTyped, PTL DEF Spec

-----------------------------------------------------------------------------
(* The live caps.  What has failed last, and how often in a row, is what    *)
(* the trace says of the invocation under way (RunsTo).                     *)
Between(s, i, a, b) == FailuresOf(s, i) \cap (a .. b)

Streaks(s, i, n) ==
    \E a \in FailuresOf(s, i), b \in DOMAIN s :
        /\ Cardinality(Between(s, i, a, b)) > n
        /\ \A k \in Between(s, i, a, b) : s[k].cmd = s[a].cmd

RunsTo(s, i, cmd, repeated) ==
    \A a \in FailuresOf(s, i) :
        (\A k \in Between(s, i, a, Len(s)) : s[k].cmd = s[a].cmd) =>
            /\ s[a].cmd = cmd
            /\ Cardinality(Between(s, i, a, Len(s))) <= repeated + 1

LEMMA BetweenSize ==
    ASSUME NEW S, NEW s \in Seq(S), NEW i, NEW a, NEW b
    PROVE  /\ Between(s, i, a, b) \in SUBSET (1 .. Len(s))
           /\ Cardinality(Between(s, i, a, b)) \in Nat
           /\ Cardinality(Between(s, i, a, b) \cup {Len(s) + 1})
                = Cardinality(Between(s, i, a, b)) + 1
<1>1. Between(s, i, a, b) \in SUBSET (1 .. Len(s)) /\ Len(s) \in Nat
  BY DEF Between, FailuresOf
<1>2. QED
  BY <1>1, AddNext

(* An event that is no failure of invocation i.                             *)
LEMMA QuietAppend ==
    ASSUME NEW S, NEW s \in Seq(S), NEW e, NEW i,
           ~(e.kind = "command_failed" /\ e.inv = i)
    PROVE  LET t == Append(s, e) IN
           /\ FailuresOf(t, i) = FailuresOf(s, i)
           /\ \A n : Streaks(t, i, n) => Streaks(s, i, n)
           /\ \A cmd, r : RunsTo(s, i, cmd, r) => RunsTo(t, i, cmd, r)
<1> DEFINE t == Append(s, e)
<1>1. /\ Len(s) \in Nat /\ DOMAIN s = 1 .. Len(s) /\ DOMAIN t = 1 .. Len(s) + 1
      /\ Len(t) = Len(s) + 1 /\ t[Len(s) + 1] = e
      /\ \A k \in 1 .. Len(s) : t[k] = s[k]
  OBVIOUS
<1> HIDE DEF t
<1>2. FailuresOf(t, i) = FailuresOf(s, i)
  BY <1>1 DEF FailuresOf
<1>3. FailuresOf(s, i) \subseteq 1 .. Len(s)
  BY <1>1 DEF FailuresOf
<1>4. ASSUME NEW a, NEW b PROVE Between(t, i, a, b) = Between(s, i, a, b)
  BY <1>2 DEF Between
<1>5. ASSUME NEW a \in FailuresOf(s, i)
      PROVE  Between(s, i, a, Len(s) + 1) = Between(s, i, a, Len(s))
  BY <1>1, <1>3 DEF Between
<1>6. ASSUME NEW n, Streaks(t, i, n) PROVE Streaks(s, i, n)
  <2>1. PICK a \in FailuresOf(s, i), b \in DOMAIN t :
          /\ Cardinality(Between(s, i, a, b)) > n
          /\ \A k \in Between(s, i, a, b) : t[k].cmd = t[a].cmd
    BY <1>2, <1>4, <1>6 DEF Streaks
  <2>2. PICK c \in DOMAIN s : Between(s, i, a, c) = Between(s, i, a, b)
    <3>1. CASE b \in DOMAIN s
      BY <3>1
    <3>2. CASE b = Len(s) + 1
      <4>1. Len(s) \in DOMAIN s
        BY <1>1, <1>3
      <4>2. QED
        BY <1>5, <3>2, <4>1
    <3>3. QED
      BY <1>1, <3>1, <3>2
  <2>3. \A k \in Between(s, i, a, c) : s[k].cmd = s[a].cmd
    BY <1>1, <1>3, <2>1, <2>2 DEF Between
  <2>4. QED
    BY <2>1, <2>2, <2>3 DEF Streaks
<1>7. ASSUME NEW cmd, NEW r, RunsTo(s, i, cmd, r) PROVE RunsTo(t, i, cmd, r)
  <2> SUFFICES ASSUME NEW a \in FailuresOf(s, i),
                      \A k \in Between(s, i, a, Len(s)) : t[k].cmd = t[a].cmd
               PROVE  /\ t[a].cmd = cmd
                      /\ Cardinality(Between(s, i, a, Len(s))) <= r + 1
    BY <1>1, <1>2, <1>4, <1>5 DEF RunsTo
  <2>1. \A k \in Between(s, i, a, Len(s)) : s[k].cmd = s[a].cmd
    BY <1>1, <1>3 DEF Between
  <2>2. t[a] = s[a]
    BY <1>1, <1>3
  <2>3. QED
    BY <1>7, <2>1, <2>2 DEF RunsTo
<1>8. QED
  BY <1>2, <1>6, <1>7 DEF t

(* One more failure of invocation i.                                        *)
LEMMA FailAppend ==
    ASSUME NEW S, NEW s \in Seq(S), NEW e, NEW i,
           e.kind = "command_failed", e.inv = i,
           NEW last, NEW repeated \in Nat, RunsTo(s, i, last, repeated)
    PROVE  LET t == Append(s, e)
               again == IF last = e.cmd THEN repeated + 1 ELSE 0
           IN  /\ RunsTo(t, i, e.cmd, again)
               /\ \A n \in Nat : ~Streaks(s, i, n) =>
                    /\ ~Streaks(t, i, n + 1)
                    /\ again + 1 <= n => ~Streaks(t, i, n)
<1> DEFINE t == Append(s, e)
           again == IF last = e.cmd THEN repeated + 1 ELSE 0
<1>1. PICK N : N = Len(s) + 1
  OBVIOUS
<1>2. /\ Len(s) \in Nat /\ N \in Nat /\ DOMAIN s = 1 .. Len(s) /\ DOMAIN t = 1 .. N
      /\ Len(t) = N /\ t[N] = e /\ \A k \in 1 .. Len(s) : t[k] = s[k]
  BY <1>1
<1> HIDE DEF t
<1>3. FailuresOf(t, i) = FailuresOf(s, i) \cup {N} /\ FailuresOf(s, i) \subseteq 1 .. Len(s)
  BY <1>1, <1>2 DEF FailuresOf
<1>4. ASSUME NEW a \in FailuresOf(t, i), NEW b \in DOMAIN s
      PROVE  /\ Between(t, i, a, b) = Between(s, i, a, b)
             /\ a = N => Between(s, i, a, b) = {}
  BY <1>1, <1>2, <1>3 DEF Between
<1>5. ASSUME NEW a \in FailuresOf(s, i)
      PROVE  Between(t, i, a, N) = Between(s, i, a, Len(s)) \cup {N}
  BY <1>1, <1>2, <1>3 DEF Between
<1>6. Between(t, i, N, N) = {N}
  BY <1>2, <1>3 DEF Between
<1>7. Cardinality(Between(t, i, N, N)) = 1 /\ Cardinality({}) = 0
  <2>1. Cardinality({N}) = 1
    BY FS_Singleton
  <2>2. QED
    BY <1>6, <2>1, FS_EmptySet
<1>8. again \in Nat
  OBVIOUS
<1>9. ASSUME NEW a \in FailuresOf(s, i)
      PROVE  /\ Cardinality(Between(t, i, a, N)) = Cardinality(Between(s, i, a, Len(s))) + 1
             /\ Cardinality(Between(s, i, a, Len(s))) \in Nat
  BY <1>1, <1>5, BetweenSize
<1>10. ASSUME NEW a \in FailuresOf(s, i),
              \A k \in Between(t, i, a, N) : t[k].cmd = t[a].cmd
       PROVE  \A k \in Between(s, i, a, Len(s)) : s[k].cmd = s[a].cmd
  BY <1>2, <1>3, <1>5, <1>10 DEF Between
<1>11. RunsTo(t, i, e.cmd, again)
  <2> SUFFICES ASSUME NEW a \in FailuresOf(t, i),
                      \A k \in Between(t, i, a, N) : t[k].cmd = t[a].cmd
               PROVE  /\ t[a].cmd = e.cmd
                      /\ Cardinality(Between(t, i, a, N)) <= again + 1
    BY <1>2 DEF RunsTo
  <2>1. CASE a = N
    <3>1. Cardinality(Between(t, i, a, N)) = 1 /\ t[a] = e
      BY <1>2, <1>7, <2>1
    <3> HIDE DEF again
    <3>2. QED
      BY <1>8, <3>1
  <2>2. CASE a \in FailuresOf(s, i)
    <3>1. N \in Between(t, i, a, N)
      BY <1>5, <2>2
    <3>2. t[a].cmd = e.cmd /\ t[a] = s[a]
      BY <1>2, <1>3, <2>2, <3>1
    <3>3. s[a].cmd = last /\ Cardinality(Between(s, i, a, Len(s))) <= repeated + 1
      BY <1>10, <2>2 DEF RunsTo
    <3>4. again = repeated + 1
      BY <3>2, <3>3
    <3>5. QED
      BY <1>9, <2>2, <3>2, <3>3, <3>4
  <2>3. QED
    BY <1>3, <2>1, <2>2
<1>12. ASSUME NEW n \in Nat, NEW m \in Nat, m >= n, ~Streaks(s, i, n), Streaks(t, i, m)
       PROVE  \E a \in FailuresOf(t, i) :
                /\ Cardinality(Between(t, i, a, N)) > m
                /\ \A k \in Between(t, i, a, N) : t[k].cmd = t[a].cmd
  <2>1. PICK a \in FailuresOf(t, i), b \in DOMAIN t :
          /\ Cardinality(Between(t, i, a, b)) > m
          /\ \A k \in Between(t, i, a, b) : t[k].cmd = t[a].cmd
    BY <1>12 DEF Streaks
  <2>2. CASE b = N
    BY <2>1, <2>2
  <2>3. CASE b \in DOMAIN s
    <3>1. Cardinality(Between(s, i, a, b)) > m
      BY <1>4, <2>1, <2>3
    <3>2. a # N
      <4> SUFFICES ASSUME a = N PROVE FALSE
        OBVIOUS
      <4>1. Between(s, i, a, b) = {}
        BY <1>4, <2>3
      <4>2. Cardinality(Between(s, i, a, b)) = 0
        BY <1>7, <4>1
      <4>3. QED
        BY <3>1, <4>2
    <3>3. a \in FailuresOf(s, i)
      BY <1>3, <3>2
    <3>4. \A k \in Between(s, i, a, b) : s[k].cmd = s[a].cmd
      BY <1>2, <1>3, <1>4, <2>1, <2>3, <3>3 DEF Between
    <3>5. Cardinality(Between(s, i, a, b)) > n
      <4>1. Cardinality(Between(s, i, a, b)) \in Nat
        BY BetweenSize
      <4>2. QED
        BY <1>12, <3>1, <4>1
    <3>6. QED
      BY <1>12, <2>3, <3>3, <3>4, <3>5 DEF Streaks
  <2>4. QED
    BY <1>1, <1>2, <2>2, <2>3
<1>13. ASSUME NEW n \in Nat, ~Streaks(s, i, n), Streaks(t, i, n + 1) PROVE FALSE
  <2>1. PICK a \in FailuresOf(t, i) :
          /\ Cardinality(Between(t, i, a, N)) > n + 1
          /\ \A k \in Between(t, i, a, N) : t[k].cmd = t[a].cmd
    BY <1>12, <1>13
  <2>2. a # N
    <3> SUFFICES ASSUME a = N PROVE FALSE
      OBVIOUS
    <3>1. Cardinality(Between(t, i, a, N)) = 1
      BY <1>7
    <3>2. QED
      BY <2>1, <3>1
  <2>3. a \in FailuresOf(s, i)
    BY <1>3, <2>2
  <2>4. Cardinality(Between(s, i, a, Len(s))) > n
    BY <1>9, <2>1, <2>3
  <2>5. Len(s) \in DOMAIN s
    BY <1>2, <1>3, <2>3
  <2>6. QED
    BY <1>10, <1>13, <2>1, <2>3, <2>4, <2>5 DEF Streaks
<1>14. ASSUME NEW n \in Nat, ~Streaks(s, i, n), again + 1 <= n, Streaks(t, i, n) PROVE FALSE
  <2>1. PICK a \in FailuresOf(t, i) :
          /\ Cardinality(Between(t, i, a, N)) > n
          /\ \A k \in Between(t, i, a, N) : t[k].cmd = t[a].cmd
    BY <1>12, <1>14
  <2>2. Cardinality(Between(t, i, a, N)) <= again + 1
    BY <1>2, <1>11, <2>1 DEF RunsTo
  <2>3. Cardinality(Between(t, i, a, N)) \in Nat
    <3>1. CASE a = N
      <4>1. Cardinality(Between(t, i, a, N)) = 1
        BY <1>7, <3>1
      <4>2. QED
        BY <4>1
    <3>2. CASE a \in FailuresOf(s, i)
      BY <1>9, <3>2
    <3>3. QED
      BY <1>3, <3>1, <3>2
  <2>4. QED
    BY <1>8, <1>14, <2>1, <2>2, <2>3
<1>15. QED
  BY <1>11, <1>13, <1>14 DEF t

(* A breaker that does not fire has found no cap exceeded.                  *)
LEMMA NothingExceeded ==
    ASSUME NEW w, LiveBreaker(w) = NoBreaker
    PROVE  ~(w.failed > Ceilings.failedPerTask) /\ ~(w.repeated > Ceilings.repeatedPerTask)
<1> DEFINE checks == << Check(w.repeated, Ceilings.repeatedPerTask, "RepeatedFailureBreaker"),
                        Check(w.failed, Ceilings.failedPerTask, "RepeatedFailureBreaker"),
                        Check(w.waste, Ceilings.wastePerTask, "WasteEventBreaker") >>
           First(i) == checks[i].over /\ \A j \in 1 .. i - 1 : ~checks[j].over
<1>1. /\ DOMAIN checks = 1 .. 3
      /\ \A i \in 1 .. 3 : checks[i].breaker # NoBreaker
      /\ checks[1].over = (w.repeated > Ceilings.repeatedPerTask)
      /\ checks[2].over = (w.failed > Ceilings.failedPerTask)
  BY DEF Check, NoBreaker
<1>2. FirstBreaker(checks) = NoBreaker
  BY DEF LiveBreaker, LiveCapBreaker
<1> HIDE DEF checks
<1>0. 1 \in 1 .. 3 /\ 2 \in 1 .. 3
  OBVIOUS
<1>3. SUFFICES ASSUME \E i \in 1 .. 3 : checks[i].over PROVE FALSE
  BY <1>0, <1>1, Zenon
<1>4. \E i \in 1 .. 3 : First(i)
  <2>1. CASE checks[1].over
    <3>1. First(1)
      BY <2>1
    <3>2. QED
      BY <3>1
  <2>2. CASE ~checks[1].over /\ checks[2].over
    <3>1. First(2)
      BY <2>2
    <3>2. QED
      BY <3>1
  <2>3. CASE ~checks[1].over /\ ~checks[2].over /\ checks[3].over
    <3>1. First(3)
      BY <2>3
    <3>2. QED
      BY <3>1
  <2>4. QED
    BY <1>3, <2>1, <2>2, <2>3
<1>5. PICK i : i = CHOOSE n \in 1 .. 3 : First(n)
  OBVIOUS
<1>6. i \in 1 .. 3
  <2> HIDE DEF First
  <2>1. QED
    BY <1>4, <1>5
<1>7. FirstBreaker(checks) = checks[i].breaker
  BY <1>1, <1>3, <1>5 DEF FirstBreaker
<1>8. QED
  BY <1>1, <1>2, <1>6, <1>7

(* What LiveCaps says of one invocation.                                    *)
Within(s, i, over) ==
    /\ Cardinality(FailuresOf(s, i)) <= Ceilings.failedPerTask + over
    /\ ~Streaks(s, i, Ceilings.repeatedPerTask + 1 + over)

Over(i) == IF pc = "adapter" /\ i = Current THEN 0 ELSE 1

LiveInv ==
    /\ \A i \in 1 .. Current : Within(events, i, Over(i))
    /\ pc = "adapter" => RunsTo(events, Current, waste.last, waste.repeated)

LEMMA CapTypes ==
    Ceilings.failedPerTask \in Nat /\ Ceilings.repeatedPerTask \in Nat
  BY CeilingsAssumption DEF Scopes

LEMMA LiveImplies == LiveInv => LiveCaps
<1> SUFFICES ASSUME LiveInv, NEW i \in 1 .. Current
             PROVE  /\ Cardinality(FailedAt(i)) <= Ceilings.failedPerTask + Over(i)
                    /\ ~Streak(i, Ceilings.repeatedPerTask + 1 + Over(i))
  BY DEF LiveCaps, Over
<1>1. FailedAt(i) = FailuresOf(events, i)
  BY DEF FailedAt, FailuresOf
<1>2. \A n : Streak(i, n) <=> Streaks(events, i, n)
  BY <1>1 DEF Streak, Streaks, Between
<1>3. QED
  BY <1>1, <1>2 DEF LiveInv, Within

(* What holds while the adapter runs holds with one more allowed.           *)
LEMMA WithinMore ==
    ASSUME NEW S, NEW s \in Seq(S), NEW i, Within(s, i, 0)
    PROVE  Within(s, i, 1)
<1>1. \A n \in Nat : Streaks(s, i, n + 1) => Streaks(s, i, n)
  <2> SUFFICES ASSUME NEW n \in Nat, Streaks(s, i, n + 1) PROVE Streaks(s, i, n)
    OBVIOUS
  <2>1. PICK a \in FailuresOf(s, i), b \in DOMAIN s :
          /\ Cardinality(Between(s, i, a, b)) > n + 1
          /\ \A k \in Between(s, i, a, b) : s[k].cmd = s[a].cmd
    BY DEF Streaks
  <2>2. Cardinality(Between(s, i, a, b)) \in Nat
    BY BetweenSize
  <2>3. Cardinality(Between(s, i, a, b)) > n
    BY <2>1, <2>2
  <2>4. QED
    BY <2>1, <2>3 DEF Streaks
<1>2. PICK r \in Nat, f \in Nat, c \in Nat :
        /\ r = Ceilings.repeatedPerTask /\ f = Ceilings.failedPerTask
        /\ c = Cardinality(FailuresOf(s, i))
  <2>1. Cardinality(FailuresOf(s, i)) \in Nat
    BY FailureAppend
  <2>2. QED
    BY <2>1, CapTypes
<1>3. c <= f /\ ~Streaks(s, i, r + 1)
  <2>1. c <= f + 0 /\ ~Streaks(s, i, r + 1 + 0)
    BY <1>2 DEF Within
  <2>2. f + 0 = f /\ r + 1 + 0 = r + 1
    OBVIOUS
  <2>3. QED
    BY <2>1, <2>2
<1>4. c <= f + 1 /\ ~Streaks(s, i, r + 1 + 1)
  <2>1. r + 1 \in Nat
    OBVIOUS
  <2>2. QED
    BY <1>1, <1>3, <2>1
<1>5. QED
  BY <1>2, <1>4 DEF Within

LEMMA WithinQuiet ==
    ASSUME NEW S, NEW s \in Seq(S), NEW e, NEW i, NEW over,
           ~(e.kind = "command_failed" /\ e.inv = i), Within(s, i, over)
    PROVE  Within(Append(s, e), i, over)
  BY QuietAppend DEF Within

LEMMA LiveNext ==
    TypeInv /\ OwnFailures /\ LiveInv /\ [Next]_vars /\ OwnFailures' => LiveInv'
<1> SUFFICES ASSUME TypeInv, OwnFailures, LiveInv, [Next]_vars, OwnFailures'
             PROVE  LiveInv'
  OBVIOUS
<1>1. /\ Current \in Nat /\ events \in Seq(Events(Current))
      /\ waste.repeated \in Nat
  BY DEF TypeInv, TypeOK, Current, Events
<1>2. \A i \in 1 .. Current : Within(events, i, 1)
  <2> SUFFICES ASSUME NEW i \in 1 .. Current PROVE Within(events, i, 1)
    OBVIOUS
  <2>1. Within(events, i, 0) \/ Within(events, i, 1)
    BY DEF LiveInv, Over
  <2>2. QED
    BY <1>1, <2>1, WithinMore
<1>3. ASSUME UNCHANGED <<launched, pc, waste, events>> PROVE LiveInv'
  <2>1. Current' = Current /\ \A i : Over(i)' = Over(i)
    BY <1>3 DEF Current, Over
  <2>2. QED
    BY <1>3, <2>1 DEF LiveInv
<1>4. ASSUME UNCHANGED launched, pc' # "adapter",
             events' = events \/ \E e : /\ e.kind # "command_failed"
                                        /\ events' = Append(events, e)
      PROVE  LiveInv'
  <2>1. Current' = Current /\ \A i : Over(i)' = 1
    BY <1>4 DEF Current, Over
  <2>2. \A i \in 1 .. Current : Within(events', i, 1)
    BY <1>1, <1>2, <1>4, WithinQuiet
  <2>3. QED
    BY <1>4, <2>1, <2>2 DEF LiveInv
<1>5. ASSUME NEW prov \in Providers, Launch(prov) PROVE LiveInv'
  <2> DEFINE e == [kind |-> "provider_invoked", inv |-> Current + 1, cmd |-> NoCommand]
  <2>1. /\ Current' = Current + 1 /\ pc' = "adapter" /\ events' = Append(events, e)
        /\ pc = "between"
    BY <1>5 DEF Launch, Current, TypeInv, TypeOK
  <2>2. e.kind # "command_failed"
    OBVIOUS
  <2> HIDE DEF e
  <2>3. FailuresOf(events, Current + 1) = {}
    <3>0. \A i \in DOMAIN events : events[i] \in Events(Current)
      BY <1>1
    <3>1. \A i \in DOMAIN events : events[i].inv # Current + 1
      BY <1>1, <3>0 DEF Events
    <3>2. QED
      BY <3>1 DEF FailuresOf
  <2>4. FailuresOf(events', Current + 1) = {}
    BY <1>1, <2>1, <2>2, <2>3, QuietAppend
  <2>5. Within(events', Current + 1, 0)
    <3>1. Cardinality({}) = 0
      BY FS_EmptySet
    <3>2. QED
      BY <2>4, <3>1, CapTypes DEF Within, Streaks
  <2>6. \A i \in 1 .. Current : Within(events', i, 1)
    BY <1>1, <1>2, <2>1, <2>2, WithinQuiet
  <2>7. RunsTo(events', Current + 1, waste'.last, waste'.repeated)
    BY <2>4 DEF RunsTo
  <2>8. \A i \in 1 .. Current + 1 : Within(events', i, Over(i)')
    <3> SUFFICES ASSUME NEW i \in 1 .. Current + 1 PROVE Within(events', i, Over(i)')
      OBVIOUS
    <3>1. CASE i = Current + 1
      BY <2>1, <2>5, <3>1 DEF Over
    <3>2. CASE i \in 1 .. Current
      <4>1. i # Current'
        BY <1>1, <2>1, <3>2
      <4>2. QED
        BY <2>6, <3>2, <4>1 DEF Over
    <3>3. QED
      BY <1>1, <3>1, <3>2
  <2>9. QED
    BY <2>1, <2>7, <2>8 DEF LiveInv
<1>6. CASE CommandSucceeds
  <2>1. PICK e : e = Event("command_ok", NoCommand)
    OBVIOUS
  <2>2. /\ pc = "adapter" /\ pc' = pc /\ events' = Append(events, e)
        /\ waste' = waste /\ Current' = Current
        /\ e.kind # "command_failed"
    BY <1>6, <2>1 DEF CommandSucceeds, Current, Event
  <2>3. \A i \in 1 .. Current : Within(events', i, Over(i)')
    BY <1>1, <2>2, WithinQuiet DEF LiveInv, Over
  <2>4. RunsTo(events', Current, waste.last, waste.repeated)
    BY <1>1, <2>2, QuietAppend DEF LiveInv
  <2>5. QED
    BY <2>2, <2>3, <2>4 DEF LiveInv
<1>7. ASSUME NEW cmd \in Commands, CommandFails(cmd) PROVE LiveInv'
  <2>1. PICK e, b : /\ e = Event("command_failed", cmd)
                    /\ b = Event("breaker_triggered", NoCommand)
    OBVIOUS
  <2>2. PICK w : w = ObserveFailedCommand(waste, cmd)
    OBVIOUS
  <2>3. /\ e.kind = "command_failed" /\ e.inv = Current /\ e.cmd = cmd
        /\ b.kind # "command_failed" /\ e \in Events(Current)
        /\ pc = "adapter" /\ Current' = Current /\ waste' = w /\ Current \in 1 .. Current
    <3>1. pc = "adapter" /\ Current # 0
      BY <1>7 DEF CommandFails, TypeInv, Running
    <3>2. e \in Events(Current)
      BY <2>1, <3>1, EventType DEF TypeInv, Kinds
    <3>3. QED
      BY <1>1, <1>7, <2>1, <2>2, <3>1, <3>2 DEF Event, CommandFails, Current
  <2>4. /\ w.last = cmd
        /\ w.repeated = IF waste.last = cmd THEN waste.repeated + 1 ELSE 0
        /\ w.repeated \in Nat
    BY <1>1, <2>2 DEF ObserveFailedCommand, TypeInv, TypeOK
  <2>5. PICK t : t = Append(events, e)
    OBVIOUS
  <2>6. t \in Seq(Events(Current))
    BY <1>1, <2>3, <2>5
  <2>7. PICK r \in Nat, f \in Nat : r = Ceilings.repeatedPerTask /\ f = Ceilings.failedPerTask
    BY CapTypes
  <2>8. /\ RunsTo(t, Current, w.last, w.repeated)
        /\ ~Streaks(t, Current, r + 1 + 1)
        /\ w.repeated + 1 <= r + 1 => ~Streaks(t, Current, r + 1)
    <3>1. RunsTo(events, Current, waste.last, waste.repeated)
      BY <2>3 DEF LiveInv
    <3>2. ~Streaks(events, Current, r + 1)
      <4>1. Within(events, Current, 0)
        BY <2>3 DEF LiveInv, Over
      <4>2. r + 1 + 0 = r + 1
        OBVIOUS
      <4>3. QED
        BY <2>7, <4>1, <4>2 DEF Within
    <3>3. r + 1 \in Nat
      OBVIOUS
    <3>4. PICK repeated \in Nat, last \in {waste.last} : repeated = waste.repeated
      BY <1>1
    <3>5. PICK again : again = IF last = e.cmd THEN repeated + 1 ELSE 0
      OBVIOUS
    <3>6. /\ RunsTo(t, Current, e.cmd, again)
          /\ \A n \in Nat : ~Streaks(events, Current, n) =>
               /\ ~Streaks(t, Current, n + 1)
               /\ again + 1 <= n => ~Streaks(t, Current, n)
      BY <1>1, <2>3, <2>5, <3>1, <3>4, <3>5, FailAppend
    <3>7. again = w.repeated /\ e.cmd = w.last
      BY <2>3, <2>4, <3>4, <3>5
    <3>8. QED
      BY <3>2, <3>3, <3>6, <3>7
  <2>9. /\ Cardinality(FailuresOf(t, Current)) = Cardinality(FailuresOf(events, Current)) + 1
        /\ Cardinality(FailuresOf(events, Current)) \in Nat
        /\ Cardinality(FailuresOf(events, Current)) <= f
    <3>1. Within(events, Current, 0)
      BY <2>3 DEF LiveInv, Over
    <3>2. Cardinality(FailuresOf(events, Current)) <= f + 0
      BY <2>7, <3>1 DEF Within
    <3>3. QED
      BY <1>1, <2>3, <2>5, <3>2, FailureAppend
  <2>10. Within(t, Current, 1)
    <3>1. Cardinality(FailuresOf(t, Current)) <= f + 1
      BY <2>9
    <3>2. QED
      BY <2>7, <2>8, <3>1 DEF Within
  <2>11. \A i \in 1 .. Current : Within(t, i, 1)
    <3> SUFFICES ASSUME NEW i \in 1 .. Current, i # Current PROVE Within(t, i, 1)
      BY <2>10
    <3>1. QED
      BY <1>1, <1>2, <2>3, <2>5, WithinQuiet
  <2>12. CASE LiveBreaker(w) = NoBreaker
    <3>1. pc' = "adapter" /\ events' = t
      BY <1>7, <2>1, <2>2, <2>3, <2>5, <2>12 DEF CommandFails
    <3>2. w.failed = Cardinality(FailuresOf(t, Current))
      BY <2>3, <3>1 DEF OwnFailures, FailedAt, FailuresOf
    <3>3. ~(w.failed > f) /\ ~(w.repeated > r)
      BY <2>7, <2>12, NothingExceeded
    <3>4. Within(t, Current, 0)
      <4>1. Cardinality(FailuresOf(t, Current)) <= f + 0
        BY <2>9, <3>2, <3>3
      <4>2. w.repeated + 1 <= r + 1 /\ r + 1 + 0 = r + 1
        BY <2>4, <3>3
      <4>3. QED
        BY <2>7, <2>8, <4>1, <4>2 DEF Within
    <3>5. \A i \in 1 .. Current : Within(t, i, Over(i)')
      BY <2>3, <2>11, <3>1, <3>4 DEF Over
    <3>6. QED
      BY <2>3, <2>8, <3>1, <3>5 DEF LiveInv
  <2>13. CASE LiveBreaker(w) # NoBreaker
    <3>1. pc' = "over" /\ events' = Append(t, b)
      BY <1>7, <2>1, <2>2, <2>5, <2>13 DEF CommandFails, Leave
    <3>2. \A i \in 1 .. Current : Within(events', i, 1)
      BY <2>3, <2>6, <2>11, <3>1, WithinQuiet
    <3>3. QED
      BY <2>3, <3>1, <3>2 DEF LiveInv, Over
  <2>14. QED
    BY <2>12, <2>13
<1>8. CASE SandboxDenies
  <2>1. Event("breaker_triggered", NoCommand).kind # "command_failed"
    BY DEF Event
  <2>2. QED
    BY <1>4, <1>8, <2>1 DEF SandboxDenies, Leave
<1>9. ASSUME NEW u \in Usages, AdapterReturns(u) PROVE LiveInv'
  <2>1. PICK breaker : breaker = Record(acc, launched[Current], u).breaker
    OBVIOUS
  <2>2. PICK e : /\ Close(breaker) = <<e>> /\ e.kind # "command_failed"
    <3>0. /\ Event("task_finished", NoCommand).kind # "command_failed"
          /\ Event("breaker_triggered", NoCommand).kind # "command_failed"
      BY DEF Event
    <3>1. CASE breaker = NoBreaker
      BY <3>0, <3>1 DEF Close
    <3>2. CASE breaker # NoBreaker
      BY <3>0, <3>2 DEF Close
    <3>3. QED
      BY <3>1, <3>2
  <2>3. events' = Append(events, e)
    BY <1>1, <1>9, <2>1, <2>2 DEF AdapterReturns
  <2>4. QED
    BY <1>4, <1>9, <2>2, <2>3 DEF AdapterReturns
<1>10. QED
  BY <1>3, <1>4, <1>5, <1>6, <1>7, <1>8, <1>9
     DEF Next, vars, Refuse, AdapterRaises, Leave, Finish, ToggleKill

(* While the adapter runs, no more of its commands have failed, in total or *)
(* of the same in a row, than the caps allow, and the command that exceeds  *)
(* a cap is the last one (wrap_invoke and _on_event in                      *)
(* arena/controller/watchdog.py).                                           *)
THEOREM LiveCapsHold == Spec => []LiveCaps
<1>1. Init => LiveInv
  BY DEF Init, LiveInv, Current
<1>2. LiveInv => LiveCaps
  BY LiveImplies
<1>3. QED
  BY <1>1, <1>2, LiveNext, AlwaysTyped, CountersAreOwn, PTL DEF Spec

-----------------------------------------------------------------------------
(* Refinement: every step is a step of Invocations, or none.                *)

LEMMA CountAppend ==
  ASSUME TypeInv, NEW e, events' = Append(events, e), NEW kind
  PROVE  Count(kind) \in Nat
         /\ Count(kind)' = Count(kind) + (IF e.kind = kind THEN 1 ELSE 0)
<1>1. events \in Seq(Events(Current))
  BY DEF TypeInv, TypeOK, Events
<1>2. Count(kind) = Cardinality(OfKind(events, kind))
      /\ Count(kind)' = Cardinality(OfKind(Append(events, e), kind))
  BY DEF Count, OfKind
<1> QED BY <1>1, <1>2, KindAppend

LEMMA CountSame == ASSUME UNCHANGED events, NEW kind PROVE Count(kind)' = Count(kind)
BY DEF Count

LEMMA ProtocolInit == Init => Protocol!Init
<1> SUFFICES ASSUME Init PROVE Protocol!Init
  OBVIOUS
<1>1. \A kind : Count(kind) = 0
  <2>1. \A kind : {i \in DOMAIN events : events[i].kind = kind} = {}
    BY DEF Init
  <2> QED BY <2>1, FS_EmptySet DEF Count
<1> QED BY <1>1 DEF Init, Protocol!Init

(* How an invocation is closed without an event of the adapter before.      *)
LEMMA ProtocolClose ==
  ASSUME TypeInv, pc = "adapter",
         \/ pc' = "between" /\ events' = Append(events, Event("task_finished", NoCommand))
         \/ pc' = "over" /\ events' = Append(events, Event("breaker_triggered", NoCommand))
  PROVE  Protocol!Next
<1>1. CASE pc' = "between" /\ events' = Append(events, Event("task_finished", NoCommand))
  <2> DEFINE e == Event("task_finished", NoCommand)
  <2>1. e.kind = "task_finished"
    BY DEF Event
  <2> HIDE DEF e
  <2>2. /\ Count("task_finished")' = Count("task_finished") + 1
        /\ Count("provider_invoked")' = Count("provider_invoked") + 0
        /\ Count("breaker_triggered")' = Count("breaker_triggered") + 0
        /\ Count("provider_invoked") \in Nat /\ Count("breaker_triggered") \in Nat
    BY <1>1, <2>1, CountAppend DEF e
  <2> QED BY <1>1, <2>2 DEF Protocol!Next, Protocol!Finish
<1>2. CASE pc' = "over" /\ events' = Append(events, Event("breaker_triggered", NoCommand))
  <2> DEFINE e == Event("breaker_triggered", NoCommand)
  <2>1. e.kind = "breaker_triggered"
    BY DEF Event
  <2> HIDE DEF e
  <2>2. /\ Count("breaker_triggered")' = Count("breaker_triggered") + 1
        /\ Count("provider_invoked")' = Count("provider_invoked") + 0
        /\ Count("task_finished")' = Count("task_finished") + 0
        /\ Count("provider_invoked") \in Nat /\ Count("task_finished") \in Nat
    BY <1>2, <2>1, CountAppend DEF e
  <2> QED BY <1>2, <2>2 DEF Protocol!Next, Protocol!Break
<1> QED BY <1>1, <1>2

LEMMA ProtocolNext == TypeInv /\ [Next]_vars => [Protocol!Next]_(Protocol!invocations)
<1> SUFFICES ASSUME TypeInv, [Next]_vars
             PROVE  Protocol!Next \/ UNCHANGED Protocol!invocations
  OBVIOUS
<1>1. ASSUME UNCHANGED events, pc = "between", pc' = "over" PROVE Protocol!Next
  BY <1>1, CountSame DEF Protocol!Next, Protocol!Stop
<1>2. ASSUME UNCHANGED <<events, pc>> PROVE UNCHANGED Protocol!invocations
  BY <1>2, CountSame DEF Protocol!invocations
<1>3. ASSUME NEW prov \in Providers, Launch(prov) PROVE Protocol!Next
  <2> DEFINE e == [kind |-> "provider_invoked", inv |-> Current + 1, cmd |-> NoCommand]
  <2>1. pc = "between" /\ pc' = "adapter" /\ events' = Append(events, e)
    BY <1>3 DEF Launch
  <2>2. e.kind = "provider_invoked"
    OBVIOUS
  <2> HIDE DEF e
  <2>3. /\ Count("provider_invoked")' = Count("provider_invoked") + 1
        /\ Count("task_finished")' = Count("task_finished") + 0
        /\ Count("breaker_triggered")' = Count("breaker_triggered") + 0
        /\ Count("task_finished") \in Nat /\ Count("breaker_triggered") \in Nat
    BY <2>1, <2>2, CountAppend
  <2> QED BY <2>1, <2>3 DEF Protocol!Next, Protocol!Open
<1>4. CASE CommandSucceeds
  <2> DEFINE e == Event("command_ok", NoCommand)
  <2>1. UNCHANGED pc /\ events' = Append(events, e)
    BY <1>4 DEF CommandSucceeds
  <2>2. e.kind = "command_ok"
    BY DEF Event
  <2> HIDE DEF e
  <2>3. \A kind \in {"provider_invoked", "task_finished", "breaker_triggered"} :
          Count(kind)' = Count(kind)
    <3> SUFFICES ASSUME NEW kind \in {"provider_invoked", "task_finished", "breaker_triggered"}
                 PROVE  Count(kind)' = Count(kind)
      OBVIOUS
    <3>1. e.kind # kind
      BY <2>2
    <3> QED BY <2>1, <3>1, CountAppend
  <2> QED BY <2>1, <2>3 DEF Protocol!invocations
<1>5. ASSUME NEW cmd \in Commands, CommandFails(cmd)
      PROVE  Protocol!Next \/ UNCHANGED Protocol!invocations
  <2> DEFINE e == Event("command_failed", cmd)
             b == Event("breaker_triggered", NoCommand)
  <2>1. e.kind = "command_failed" /\ b.kind = "breaker_triggered"
    BY DEF Event
  <2>2. pc = "adapter" /\ events \in Seq(Events(Current))
        /\ e \in Events(Current)
    BY <1>5, EventType DEF CommandFails, TypeInv, Running, TypeOK, Events, Kinds
  <2>3. CASE LiveBreaker(ObserveFailedCommand(waste, cmd)) = NoBreaker
    <3>1. UNCHANGED pc /\ events' = Append(events, e)
      BY <1>5, <2>3 DEF CommandFails
    <3> HIDE DEF e, b
    <3>2. \A kind \in {"provider_invoked", "task_finished", "breaker_triggered"} :
            Count(kind)' = Count(kind)
      <4> SUFFICES ASSUME NEW kind \in {"provider_invoked", "task_finished", "breaker_triggered"}
                   PROVE  Count(kind)' = Count(kind)
        OBVIOUS
      <4>1. e.kind # kind
        BY <2>1
      <4> QED BY <3>1, <4>1, CountAppend
    <3> QED BY <3>1, <3>2 DEF Protocol!invocations
  <2>4. CASE LiveBreaker(ObserveFailedCommand(waste, cmd)) # NoBreaker
    <3>1. pc' = "over" /\ events' = Append(Append(events, e), b)
      BY <1>5, <2>4 DEF CommandFails, Leave
    <3> HIDE DEF e, b
    <3>2. Append(events, e) \in Seq(Events(Current))
      BY <2>2
    <3>3. \A kind \in {"provider_invoked", "task_finished", "breaker_triggered"} :
            /\ Count(kind) \in Nat
            /\ Count(kind)' = Count(kind) + (IF b.kind = kind THEN 1 ELSE 0)
      <4> SUFFICES ASSUME NEW kind \in {"provider_invoked", "task_finished", "breaker_triggered"}
                   PROVE  /\ Count(kind) \in Nat
                          /\ Count(kind)' = Count(kind) + (IF b.kind = kind THEN 1 ELSE 0)
        OBVIOUS
      <4>1. e.kind # kind
        BY <2>1
      <4>2. Count(kind) = Cardinality(OfKind(events, kind))
            /\ Count(kind)' = Cardinality(OfKind(Append(Append(events, e), b), kind))
        BY <3>1 DEF Count, OfKind
      <4>3. Cardinality(OfKind(Append(events, e), kind)) = Count(kind) /\ Count(kind) \in Nat
        BY <2>2, <4>1, <4>2, KindAppend
      <4>4. Cardinality(OfKind(Append(Append(events, e), b), kind))
              = Cardinality(OfKind(Append(events, e), kind)) + (IF b.kind = kind THEN 1 ELSE 0)
        BY <3>2, KindAppend
      <4> QED BY <4>2, <4>3, <4>4
    <3>4. /\ Count("breaker_triggered")' = Count("breaker_triggered") + 1
          /\ Count("provider_invoked")' = Count("provider_invoked")
          /\ Count("task_finished")' = Count("task_finished")
      BY <2>1, <3>3
    <3> QED BY <2>2, <3>1, <3>4 DEF Protocol!Next, Protocol!Break
  <2> QED BY <2>3, <2>4
<1>6. CASE SandboxDenies
  BY <1>6, ProtocolClose DEF SandboxDenies, Leave
<1>7. CASE AdapterRaises
  BY <1>7, CountSame DEF AdapterRaises, Leave, Protocol!Next, Protocol!Abort
<1>8. ASSUME NEW u \in Usages, AdapterReturns(u) PROVE Protocol!Next
  <2> DEFINE post == Record(acc, launched[Current], u)
  <2>1. pc = "adapter" /\ events \in Seq(Events(Current))
        /\ events' = events \o Close(post.breaker)
        /\ pc' = IF post.breaker = NoBreaker THEN "between" ELSE "over"
    BY <1>8 DEF AdapterReturns, TypeInv, TypeOK, Events
  <2> HIDE DEF post
  <2>2. CASE post.breaker = NoBreaker
    <3>1. events' = Append(events, Event("task_finished", NoCommand))
      BY <2>1, <2>2 DEF Close
    <3> QED BY <2>1, <2>2, <3>1, ProtocolClose
  <2>3. CASE post.breaker # NoBreaker
    <3>1. events' = Append(events, Event("breaker_triggered", NoCommand))
      BY <2>1, <2>3 DEF Close
    <3> QED BY <2>1, <2>3, <3>1, ProtocolClose
  <2> QED BY <2>2, <2>3
<1> QED
  BY <1>1, <1>2, <1>3, <1>4, <1>5, <1>6, <1>7, <1>8
     DEF Next, Refuse, Finish, ToggleKill, vars

(* The watchdog implements the protocol of Invocations.                     *)
THEOREM ProtocolImplemented == Spec => ProtocolSpec
BY AlwaysTyped, ProtocolInit, ProtocolNext, PTL DEF Spec, ProtocolSpec, Protocol!Spec
=============================================================================
