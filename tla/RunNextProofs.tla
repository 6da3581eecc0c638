--------------------------- MODULE RunNextProofs ----------------------------
(***************************************************************************)
(* Proofs about RunNext, for any number of processes, runs and ids, any    *)
(* ceilings and any faults.                                                *)
(***************************************************************************)
EXTENDS RunNext, NumberLemmas, FiniteSetTheorems, TLAPS

-----------------------------------------------------------------------------
(* The breaker that four ordered checks raise is one of theirs, or none.    *)
LEMMA FirstBreakerType ==
    ASSUME NEW B, NoBreaker \in B,
           NEW cs, DOMAIN cs = 1 .. 4, \A i \in 1 .. 4 : cs[i].breaker \in B
    PROVE  FirstBreaker(cs) \in B
<1> DEFINE First(i) == cs[i].over /\ \A j \in 1 .. i - 1 : ~cs[j].over
<1>1. CASE \E i \in DOMAIN cs : cs[i].over
  <2>1. \E i \in DOMAIN cs : First(i)
    <3>1. CASE cs[1].over
      BY <3>1
    <3>2. CASE ~cs[1].over /\ cs[2].over
      BY <3>2
    <3>3. CASE ~cs[1].over /\ ~cs[2].over /\ cs[3].over
      BY <3>3
    <3>4. CASE ~cs[1].over /\ ~cs[2].over /\ ~cs[3].over /\ cs[4].over
      BY <3>4
    <3>5. QED
      BY <1>1, <3>1, <3>2, <3>3, <3>4
  <2>2. (CHOOSE i \in DOMAIN cs : First(i)) \in DOMAIN cs
    BY <2>1
  <2>3. QED
    BY <1>1, <2>2 DEF FirstBreaker
<1>2. CASE ~ \E i \in DOMAIN cs : cs[i].over
  BY <1>2 DEF FirstBreaker
<1>3. QED
  BY <1>1, <1>2

(* record_post_invoke raises one of the breakers, or none.                  *)
LEMMA PostInvokeBreakerType ==
    ASSUME NEW acc, NEW prov, NEW u
    PROVE  RecordPostInvoke(acc, prov, u).breaker \in Breakers \cup {NoBreaker}
<1> DEFINE B == Breakers \cup {NoBreaker}
<1>1. /\ NoBreaker \in B /\ "WallClockBreaker" \in B
      /\ "ShellCommandBreaker" \in B /\ "RepeatedFailureBreaker" \in B
      /\ "WasteEventBreaker" \in B /\ "ProviderCallBreaker" \in B
  BY DEF Breakers
<1> HIDE DEF B
<1>2. TaskCapBreaker(u) \in B
  <2> DEFINE cs == <<Check(u.wall, Ceilings.wallPerCall, "WallClockBreaker"),
                     Check(u.shell, Ceilings.shellPerTask, "ShellCommandBreaker"),
                     Check(u.failed, Ceilings.failedPerTask, "RepeatedFailureBreaker"),
                     Check(u.waste, Ceilings.wastePerTask, "WasteEventBreaker")>>
  <2>1. DOMAIN cs = 1 .. 4 /\ \A i \in 1 .. 4 : cs[i].breaker \in B
    BY <1>1 DEF Check
  <2> HIDE DEF cs
  <2>2. FirstBreaker(cs) \in B
    BY <1>1, <2>1, FirstBreakerType
  <2>3. QED
    BY <2>2 DEF TaskCapBreaker, cs
<1>3. ASSUME NEW a PROVE RunCapBreaker(a) \in B
  <2> DEFINE cs == <<Check(a.wall, Ceilings.wallTotal, "WallClockBreaker"),
                     Check(a.waste, Ceilings.wastePerRun, "WasteEventBreaker"),
                     Check(a.input, Ceilings.inputTotal, "ProviderCallBreaker"),
                     Check(a.output, Ceilings.outputTotal, "ProviderCallBreaker")>>
  <2>1. DOMAIN cs = 1 .. 4 /\ \A i \in 1 .. 4 : cs[i].breaker \in B
    BY <1>1 DEF Check
  <2> HIDE DEF cs
  <2>2. FirstBreaker(cs) \in B
    BY <1>1, <2>1, FirstBreakerType
  <2>3. QED
    BY <2>2 DEF RunCapBreaker, cs
<1>4. QED
  BY <1>2, <1>3 DEF RecordPostInvoke, B

-----------------------------------------------------------------------------
(* Type correctness. *)

LEMMA Bounds == MaxRuns \in Nat /\ MaxExp \in Nat /\ MaxPlans \in Nat
  BY RunNextAssumption DEF RunNextAssumption

(* What an action leaves in the table of processes.                         *)
ProcsOK == proc \in [Procs -> Proc] /\ \A q \in Procs : ProcOK(proc[q])

LEMMA ProcTyped ==
    ASSUME TypeOK, NEW p \in Procs
    PROVE  proc[p] \in Proc /\ ProcOK(proc[p])
  BY DEF TypeOK

LEMMA BecomeOK ==
    ASSUME TypeOK, NEW p \in Procs, NEW r \in Proc, ProcOK(r), Become(p, r)
    PROVE  ProcsOK'
<1>1. \A q \in Procs : proc'[q] = IF q = p THEN r ELSE proc[q]
  BY DEF TypeOK, Become
<1>2. QED
  BY <1>1 DEF TypeOK, Become, ProcsOK

LEMMA QueueValues ==
    NoFile \notin Packet /\ Torn \notin Packet /\ NoFile # Torn
  BY SentinelAssumption DEF SentinelAssumption

LEMMA FixtureTyped ==
    ASSUME TypeOK, fixture # Missing, fixture # Foreign
    PROVE  fixture \in Digests
  BY DEF TypeOK, FixtureStates

LEMMA IdleOK == IdleProc \in Proc /\ ProcOK(IdleProc)
  BY Bounds DEF IdleProc, Proc, Labels, ProcOK, Idle, AfterClaim, Digesting

LEMMA ExitOK ==
    ASSUME TypeOK, NEW p \in Procs, Exit(p)
    PROVE  ProcsOK'
  BY IdleOK, BecomeOK DEF Exit

(* Moving on to a label that needs no more than the process has.            *)
LEMMA GotoOK ==
    ASSUME TypeOK, NEW p \in Procs, NEW label \in Labels, ~At(p, Idle),
           \/ label \in {"plan_mint", "check", "peek", "read"}
           \/ /\ proc[p].packet \in Packet /\ proc[p].file # 0
              /\ label \in Digesting => proc[p].digest \in Digests
              /\ label # "persist",
           Goto(p, label)
    PROVE  ProcsOK'
<1> DEFINE r == [proc[p] EXCEPT !.pc = label]
<1>1. r \in Proc
  BY ProcTyped DEF Proc
<1>2. ProcOK(r)
  BY ProcTyped DEF Proc, ProcOK, At, AfterClaim, Digesting
<1>3. QED
  BY <1>1, <1>2, BecomeOK DEF Goto

LEMMA ClaimedOK ==
    ASSUME TypeOK, NEW p \in Procs, Claimed(p)
    PROVE  /\ ~At(p, Idle)
           /\ proc[p].packet \in Packet /\ proc[p].run \in RunIds
           /\ proc[p].prov \in Providers /\ proc[p].file # 0
  BY DEF TypeOK, ProcOK, Claimed, At, AfterClaim, Idle

LEMMA ClaimedGotoOK ==
    ASSUME TypeOK, NEW p \in Procs, Claimed(p),
           NEW label \in AfterClaim, label # "persist",
           label \in Digesting => proc[p].digest \in Digests,
           Goto(p, label)
    PROVE  ProcsOK'
<1>1. label \in Labels
  BY DEF AfterClaim, Labels
<1>2. QED
  BY <1>1, ClaimedOK, GotoOK

LEMMA PersistOK ==
    ASSUME TypeOK, NEW p \in Procs, Claimed(p), NEW out \in Outcome,
           Persist(p, out)
    PROVE  ProcsOK'
<1> DEFINE r == [proc[p] EXCEPT !.pc = "persist", !.out = out]
<1>1. r \in Proc
  BY ProcTyped DEF Proc, Labels
<1>2. ProcOK(r)
  BY ProcTyped DEF Proc, ProcOK, Claimed, AfterClaim, Digesting, Idle
<1>3. QED
  BY <1>1, <1>2, BecomeOK DEF Persist

LEMMA BlockReproducibilityOK ==
    ASSUME TypeOK, NEW p \in Procs, Claimed(p), BlockReproducibility(p)
    PROVE  ProcsOK'
<1>1. BlockedOutcome("BLOCKED_REPRODUCIBILITY", ZeroUsage) \in Outcome
  BY DEF BlockedOutcome, Outcome, Reasons
<1>2. QED
  BY <1>1, PersistOK DEF BlockReproducibility

LEMMA EmitOK ==
    ASSUME TypeOK, NEW p \in Procs, ~At(p, Idle),
           NEW kind \in {"invoked", "finished", "broken"}, Emit(p, kind)
    PROVE  trace' \in [RunIds -> Counts]
<1>1. proc[p].run \in RunIds
  BY DEF TypeOK, ProcOK, At
<1>2. QED
  BY <1>1 DEF TypeOK, Emit, Counts

LEMMA TypeInit == Init => TypeOK
<1> SUFFICES ASSUME Init PROVE TypeOK
  OBVIOUS
<1>1. proc \in [Procs -> Proc] /\ \A p \in Procs : ProcOK(proc[p])
  BY IdleOK DEF Init
<1>2. trace \in [RunIds -> Counts]
  BY DEF Init, Counts
<1>3. latest \in 0 .. MaxRuns /\ planned \in 0 .. MaxPlans
  BY Bounds DEF Init
<1>4. /\ queue \in [RunIds -> Packet \cup {NoFile, Torn}]
      /\ rows \in [ExpIds -> Row \cup {NoRow}]
      /\ killFile \in BOOLEAN
  BY DEF Init
<1>5. /\ fixture \in FixtureStates
      /\ fixtureBase \in Digests \cup {NoFile, Torn, Foreign}
      /\ versionBase \in {NoFile, Torn, Foreign} \cup SUBSET Providers
  BY DEF Init, FixtureStates
<1>6. inode \in [RunIds -> 0 .. MaxPlans]
  BY Bounds DEF Init
<1>7. \A r \in RunIds : queue[r] # NoFile => inode[r] # 0
  BY DEF Init
<1>8. QED
  BY <1>1, <1>2, <1>3, <1>4, <1>5, <1>6, <1>7 DEF TypeOK

(* The state outside the processes' locals that TypeOK speaks of.           *)
StoreOK ==
    /\ latest \in 0 .. MaxRuns
    /\ queue \in [RunIds -> Packet \cup {NoFile, Torn}]
    /\ inode \in [RunIds -> 0 .. MaxPlans]
    /\ \A r \in RunIds : queue[r] # NoFile => inode[r] # 0
    /\ rows \in [ExpIds -> Row \cup {NoRow}]
    /\ trace \in [RunIds -> Counts]
    /\ killFile \in BOOLEAN
    /\ fixture \in FixtureStates
    /\ fixtureBase \in Digests \cup {NoFile, Torn, Foreign}
    /\ versionBase \in {NoFile, Torn, Foreign} \cup SUBSET Providers
    /\ planned \in 0 .. MaxPlans

LEMMA TypeUnchangedStore ==
    ASSUME TypeOK,
           UNCHANGED <<store, killFile, fixture, baselines, planned>>
    PROVE  StoreOK'
  BY DEF TypeOK, StoreOK, store, baselines

LEMMA TypeEnvironment ==
    ASSUME TypeOK, Environment
    PROVE  TypeOK'
<1>1. CASE InitFixture
  BY <1>1, Bounds DEF InitFixture, TypeOK, ProcOK, baselines
<1>2. CASE Kill
  BY <1>2 DEF Kill, TypeOK, ProcOK, baselines, store
<1>3. CASE Unkill
  BY <1>3 DEF Unkill, TypeOK, ProcOK, baselines, store
<1>4. CASE EditFixture
  BY <1>4 DEF EditFixture, FixtureStates, TypeOK, ProcOK, baselines, store
<1>5. CASE CorruptBaseline
  BY <1>5 DEF CorruptBaseline, Spoilt, TypeOK, ProcOK, baselines, store
<1>6. QED
  BY <1>1, <1>2, <1>3, <1>4, <1>5 DEF Environment

LEMMA TypePlan ==
    ASSUME TypeOK, NEW p \in Procs, PlanStart(p) \/ PlanStep(p)
    PROVE  TypeOK'
<1>1. CASE PlanStart(p)
  <2>1. PICK v \in Providers :
          Become(p, [IdleProc EXCEPT !.pc = "plan_mint", !.run = latest,
                                     !.prov = v])
    BY <1>1 DEF PlanStart
  <2> DEFINE r == [IdleProc EXCEPT !.pc = "plan_mint", !.run = latest, !.prov = v]
  <2>2. latest \in RunIds
    <3>1. latest > 0
      BY <1>1 DEF PlanStart
    <3>2. latest \in 0 .. MaxRuns
      BY DEF TypeOK
    <3>3. QED
      BY <3>1, <3>2, Bounds DEF RunIds
  <2>3. r \in Proc /\ ProcOK(r)
    BY <2>2, IdleOK DEF IdleProc, Proc, ProcOK, Labels, AfterClaim, Digesting
  <2>4. ProcsOK'
    BY <2>1, <2>3, BecomeOK
  <2>5. QED
    BY <1>1, <2>4, TypeUnchangedStore DEF PlanStart, TypeOK, ProcsOK, StoreOK
<1>2. CASE PlanMint(p)
  <2>1. PICK e \in ExpIds :
          Become(p, [proc[p] EXCEPT !.pc = "plan_open",
                       !.packet = [exp |-> e, prov |-> proc[p].prov]])
    BY <1>2 DEF PlanMint
  <2> DEFINE r == [proc[p] EXCEPT !.pc = "plan_open",
                     !.packet = [exp |-> e, prov |-> proc[p].prov]]
  <2>2. [exp |-> e, prov |-> proc[p].prov] \in Packet
    BY <1>2 DEF PlanMint, TypeOK, ProcOK, Packet, At, Idle
  <2>3. r \in Proc
    BY <2>2, ProcTyped DEF Proc, Labels
  <2>4. ProcOK(r)
    BY <1>2, <2>2, ProcTyped DEF PlanMint, At, ProcOK, Proc, Idle, AfterClaim, Digesting
  <2>5. ProcsOK'
    BY <2>1, <2>3, <2>4, BecomeOK
  <2>6. QED
    BY <1>2, <2>5, TypeUnchangedStore DEF PlanMint, TypeOK, ProcsOK, StoreOK
<1>3. CASE PlanOpen(p)
  <2>1. proc[p].packet \in Packet /\ proc[p].run \in RunIds
    BY <1>3 DEF PlanOpen, At, TypeOK, ProcOK, Idle
  <2> DEFINE x == [proc[p] EXCEPT !.pc = "plan_fill",
                                  !.file = Opened(proc[p].run)]
  <2>2. /\ Become(p, x)
        /\ proc[p].pc = "plan_open" /\ planned < MaxPlans /\ planned' = planned + 1
        /\ queue' = [queue EXCEPT ![proc[p].run] = Torn]
        /\ inode' = [inode EXCEPT ![proc[p].run] = Opened(proc[p].run)]
        /\ UNCHANGED <<latest, rows, trace, killFile, fixture, baselines>>
    BY <1>3 DEF PlanOpen, At
  <2>3. Opened(proc[p].run) \in 0 .. MaxPlans /\ Opened(proc[p].run) # 0
    BY <2>1, <2>2, Bounds DEF Opened, TypeOK
  <2>4. /\ x \in Proc /\ x.pc = "plan_fill" /\ x.run = proc[p].run
        /\ x.prov = proc[p].prov /\ x.packet = proc[p].packet
    BY <2>3, ProcTyped DEF Proc, Labels
  <2> HIDE DEF x
  <2>5. ProcOK(x)
    BY <2>1, <2>2, <2>4, ProcTyped DEF ProcOK, Idle, AfterClaim, Digesting
  <2>6. ProcsOK'
    BY <2>2, <2>4, <2>5, BecomeOK
  <2>7. /\ inode' \in [RunIds -> 0 .. MaxPlans]
        /\ \A r \in RunIds : queue'[r] # NoFile => inode'[r] # 0
    BY <2>1, <2>2, <2>3 DEF TypeOK
  <2>8. /\ queue' \in [RunIds -> Packet \cup {NoFile, Torn}]
        /\ planned' \in 0 .. MaxPlans
    BY <2>1, <2>2, Bounds DEF TypeOK
  <2>9. QED
    BY <2>2, <2>6, <2>7, <2>8 DEF TypeOK, ProcsOK, baselines
<1>4. CASE PlanFill(p)
  <2>1. proc[p].packet \in Packet /\ proc[p].run \in RunIds
    BY <1>4 DEF PlanFill, At, TypeOK, ProcOK, Idle
  <2>2. ProcsOK'
    BY <1>4, ExitOK DEF PlanFill
  <2>3. /\ queue' \in [RunIds -> Packet \cup {NoFile, Torn}]
        /\ \A r \in RunIds : queue'[r] # NoFile => inode[r] # 0
    BY <1>4, <2>1 DEF PlanFill, TypeOK
  <2>4. QED
    BY <1>4, <2>2, <2>3 DEF PlanFill, TypeOK, ProcsOK, baselines
<1>5. QED
  BY <1>1, <1>2, <1>3, <1>4 DEF PlanStep

LEMMA TypeClaim ==
    ASSUME TypeOK, NEW p \in Procs, Start(p) \/ ClaimStep(p)
    PROVE  TypeOK'
<1>1. CASE Start(p)
  <2>1. PICK v \in Providers :
          Become(p, [IdleProc EXCEPT !.pc = "check", !.run = latest,
                                     !.prov = v, !.seeded = RowsOf(latest)])
    BY <1>1 DEF Start
  <2> DEFINE r == [IdleProc EXCEPT !.pc = "check", !.run = latest,
                                   !.prov = v, !.seeded = RowsOf(latest)]
  <2>2. latest \in RunIds
    <3>1. latest > 0
      BY <1>1 DEF Start
    <3>2. latest \in 0 .. MaxRuns
      BY DEF TypeOK
    <3>3. QED
      BY <3>1, <3>2, Bounds DEF RunIds
  <2>3. RowsOf(latest) \in SUBSET ExpIds
    BY DEF RowsOf, Recorded
  <2>4. r \in Proc /\ ProcOK(r)
    BY <2>2, <2>3, IdleOK DEF IdleProc, Proc, ProcOK, Labels, AfterClaim, Digesting
  <2>5. ProcsOK'
    BY <2>1, <2>4, BecomeOK
  <2>6. QED
    BY <1>1, <2>5, TypeUnchangedStore DEF Start, TypeOK, ProcsOK, StoreOK
<1>2. CASE CheckCanInvoke(p)
  <2>1. ProcsOK'
    BY <1>2, ExitOK, GotoOK DEF CheckCanInvoke, At, Idle, Labels
  <2>2. QED
    BY <1>2, <2>1, TypeUnchangedStore DEF CheckCanInvoke, TypeOK, ProcsOK, StoreOK
<1>3. CASE Peek(p)
  <2>1. ProcsOK'
    BY <1>3, ExitOK, GotoOK DEF Peek, At, Idle, Labels
  <2>2. QED
    BY <1>3, <2>1, TypeUnchangedStore DEF Peek, TypeOK, ProcsOK, StoreOK
<1>4. CASE DequeueRead(p)
  <2>1. CASE queue[proc[p].run] \in Packet
    <3> DEFINE x == [proc[p] EXCEPT !.pc = "unlink", !.packet = queue[proc[p].run],
                                    !.file = inode[proc[p].run]]
    <3>1. proc[p].pc = "read" /\ proc[p].run \in RunIds
            /\ proc[p].prov \in Providers
      BY <1>4 DEF DequeueRead, At, TypeOK, ProcOK, Idle
    <3>2. inode[proc[p].run] \in 0 .. MaxPlans /\ inode[proc[p].run] # 0
      BY <2>1, <3>1, QueueValues DEF TypeOK
    <3>3. /\ x \in Proc /\ x.pc = "unlink" /\ x.run = proc[p].run
          /\ x.prov = proc[p].prov /\ x.packet \in Packet /\ x.file # 0
      BY <2>1, <3>2, ProcTyped DEF Proc, Labels
    <3>4. Become(p, x)
      BY <1>4, <2>1 DEF DequeueRead
    <3> HIDE DEF x
    <3>5. ProcOK(x)
      BY <3>1, <3>3 DEF ProcOK, Idle, AfterClaim, Digesting
    <3>6. QED
      BY <1>4, <3>3, <3>4, <3>5, BecomeOK, TypeUnchangedStore
      DEF DequeueRead, TypeOK, ProcsOK, StoreOK
  <2>2. CASE queue[proc[p].run] \notin Packet
    BY <1>4, <2>2, ExitOK, TypeUnchangedStore
    DEF DequeueRead, TypeOK, ProcsOK, StoreOK
  <2>3. QED
    BY <2>1, <2>2
<1>5. CASE DequeueUnlink(p)
  <2>1. proc[p].packet \in Packet /\ proc[p].file # 0
    BY <1>5 DEF DequeueUnlink, At, TypeOK, ProcOK
  <2>2. ProcsOK'
    BY <1>5, <2>1, ExitOK, GotoOK DEF DequeueUnlink, At, Idle, Labels, Digesting
  <2>3. /\ queue' \in [RunIds -> Packet \cup {NoFile, Torn}]
        /\ \A r \in RunIds : queue'[r] # NoFile => inode[r] # 0
    BY <1>5 DEF DequeueUnlink, TypeOK
  <2>4. QED
    BY <1>5, <2>2, <2>3 DEF DequeueUnlink, TypeOK, ProcsOK, baselines
<1>6. QED
  BY <1>1, <1>2, <1>3, <1>4, <1>5 DEF ClaimStep

LEMMA TypeBaseline ==
    ASSUME TypeOK, NEW p \in Procs, BaselineStep(p)
    PROVE  TypeOK'
<1>1. Claimed(p)
  BY DEF BaselineStep, FixtureDigest, FixtureRead, FixtureOpen, FixtureFill,
     VersionRead, VersionOpen, VersionFill, Claimed, AfterClaim, At
<1>2. CASE FixtureDigest(p)
  <2>1. ProcsOK'
    <3>1. CASE NoManifest(p) \/ Exit(p)
      BY <1>1, <3>1, BlockReproducibilityOK, ExitOK DEF NoManifest
    <3>2. CASE fixture \notin {Missing, Foreign}
      <4> DEFINE r == [proc[p] EXCEPT !.pc = "fixture_read", !.digest = fixture]
      <4>1. r \in Proc
        BY ProcTyped, <3>2, FixtureTyped DEF Proc, Labels
      <4>2. r.pc # Idle /\ r.pc # "persist" /\ r.run \in RunIds
              /\ r.prov \in Providers /\ r.packet \in Packet
              /\ r.digest \in Digests /\ r.file # 0
        BY <1>1, <3>2, ClaimedOK, ProcTyped, FixtureTyped DEF Proc, Idle
      <4>3. ProcOK(r)
        BY <4>2 DEF ProcOK
      <4>4. QED
        BY <1>2, <3>2, <4>1, <4>3, BecomeOK DEF FixtureDigest
    <3>3. QED
      BY <1>2, <3>1, <3>2 DEF FixtureDigest
  <2>2. QED
    BY <1>2, <2>1, TypeUnchangedStore DEF FixtureDigest, TypeOK, ProcsOK, StoreOK
<1>3. CASE FixtureRead(p)
  <2>1. \/ Goto(p, "fixture_open") \/ Goto(p, "version_read")
        \/ BlockReproducibility(p) \/ Exit(p)
    BY <1>3 DEF FixtureRead, FixtureUnreadable, FixtureDrift
  <2>2. proc[p].digest \in Digests
    BY <1>3 DEF FixtureRead, At, TypeOK, ProcOK, Digesting
  <2>3. ProcsOK'
    BY <1>1, <2>1, <2>2, ClaimedGotoOK, BlockReproducibilityOK, ExitOK
    DEF AfterClaim
  <2>4. QED
    BY <1>3, <2>3, TypeUnchangedStore DEF FixtureRead, TypeOK, ProcsOK, StoreOK
<1>4. CASE FixtureOpen(p)
  <2>1. proc[p].digest \in Digests
    BY <1>4 DEF FixtureOpen, At, TypeOK, ProcOK, Digesting
  <2>2. ProcsOK'
    BY <1>1, <1>4, <2>1, ClaimedGotoOK DEF AfterClaim, FixtureOpen
  <2>3. QED
    BY <1>4, <2>2 DEF FixtureOpen, TypeOK, ProcsOK, store
<1>5. CASE FixtureFill(p)
  <2>1. proc[p].digest \in Digests
    BY <1>5 DEF FixtureFill, At, TypeOK, ProcOK, Digesting
  <2>2. ProcsOK'
    BY <1>1, <1>5, ClaimedGotoOK DEF AfterClaim, FixtureFill, Digesting
  <2>3. QED
    BY <1>5, <2>1, <2>2 DEF FixtureFill, TypeOK, ProcsOK, store
<1>6. CASE VersionRead(p)
  <2> DEFINE seen == IF versionBase = NoFile THEN {} ELSE versionBase
             r == [proc[p] EXCEPT !.pc = "version_open", !.seen = seen]
  <2>1. \/ VersionsUnreadable(p) \/ Goto(p, "resolve") \/ Exit(p)
        \/ Become(p, r) /\ versionBase \notin {Torn, Foreign}
    BY <1>6 DEF VersionRead
  <2>2. ProcsOK'
    <3>1. CASE VersionsUnreadable(p) \/ Exit(p)
      BY <1>1, <3>1, BlockReproducibilityOK, ExitOK DEF VersionsUnreadable
    <3>2. CASE Goto(p, "resolve")
      BY <1>1, <3>2, ClaimedGotoOK DEF AfterClaim, Digesting
    <3>3. CASE Become(p, r) /\ versionBase \notin {Torn, Foreign}
      <4>1. seen \in SUBSET Providers
        BY <3>3 DEF TypeOK
      <4> HIDE DEF seen
      <4>2. r \in Proc
        BY <4>1, ProcTyped DEF Proc, Labels
      <4>3. r.pc # Idle /\ r.pc # "persist" /\ r.run \in RunIds
              /\ r.prov \in Providers /\ r.packet \in Packet
              /\ r.pc \notin Digesting /\ r.file # 0
        BY <1>1, ClaimedOK, ProcTyped DEF Proc, Idle, Digesting
      <4>4. ProcOK(r)
        BY <4>3 DEF ProcOK
      <4>5. QED
        BY <3>3, <4>2, <4>4, BecomeOK
    <3>4. QED
      BY <2>1, <3>1, <3>2, <3>3
  <2>3. QED
    BY <1>6, <2>2, TypeUnchangedStore DEF VersionRead, TypeOK, ProcsOK, StoreOK
<1>7. CASE VersionOpen(p)
  <2>1. ProcsOK'
    BY <1>1, <1>7, ClaimedGotoOK DEF AfterClaim, Digesting, VersionOpen
  <2>2. QED
    BY <1>7, <2>1 DEF VersionOpen, TypeOK, ProcsOK, store
<1>8. CASE VersionFill(p)
  <2>1. ProcsOK'
    BY <1>1, <1>8, ClaimedGotoOK DEF AfterClaim, Digesting, VersionFill
  <2>2. proc[p].seen \cup {proc[p].prov} \in SUBSET Providers
    BY <1>1, ClaimedOK DEF TypeOK, Proc
  <2>3. QED
    BY <1>8, <2>1, <2>2 DEF VersionFill, TypeOK, ProcsOK, store
<1>9. QED
  BY <1>2, <1>3, <1>4, <1>5, <1>6, <1>7, <1>8 DEF BaselineStep

LEMMA TypeInvoke ==
    ASSUME TypeOK, NEW p \in Procs, InvokeStep(p)
    PROVE  TypeOK'
<1>1. Claimed(p)
  BY DEF InvokeStep, Resolve, Invoke, InvokeReturns, InvokeStopped, InvokeRaises,
     InsertRow, Claimed, AfterClaim, At
<1>2. CASE Resolve(p)
  <2>1. ProcsOK'
    BY <1>1, <1>2, ClaimedGotoOK, ExitOK DEF Resolve, AfterClaim, Digesting
  <2>2. QED
    BY <1>2, <2>1, TypeUnchangedStore DEF Resolve, TypeOK, ProcsOK, StoreOK
<1>3. CASE Invoke(p)
  <2>1. ProcsOK'
    BY <1>1, <1>3, ClaimedGotoOK DEF AfterClaim, Digesting, Invoke
  <2>2. trace' \in [RunIds -> Counts]
    BY <1>1, <1>3, ClaimedOK, EmitOK DEF Invoke
  <2>3. QED
    BY <1>3, <2>1, <2>2 DEF Invoke, TypeOK, ProcsOK, baselines
<1>4. ASSUME NEW u \in Usages, NEW s \in ResultStatuses, InvokeReturns(p, u, s)
      PROVE  TypeOK'
  <2> DEFINE b == RecordPostInvoke(Accumulators(proc[p].seeded), proc[p].prov, u).breaker
  <2>1. b \in Reasons /\ NoBreaker \in Reasons
    BY PostInvokeBreakerType DEF Reasons
  <2>2. u \in Usage
    BY RunNextAssumption DEF RunNextAssumption
  <2> HIDE DEF b
  <2>3. /\ [status |-> s, reason |-> NoBreaker, usage |-> u] \in Outcome
        /\ BlockedOutcome(b, u) \in Outcome
    BY <2>1, <2>2 DEF Outcome, BlockedOutcome
  <2>4. \/ /\ Emit(p, "finished")
           /\ Persist(p, [status |-> s, reason |-> NoBreaker, usage |-> u])
        \/ /\ Emit(p, "broken")
           /\ Persist(p, BlockedOutcome(b, u))
    BY <1>4 DEF InvokeReturns, b
  <2>5. ProcsOK'
    BY <1>1, <2>3, <2>4, PersistOK
  <2>6. trace' \in [RunIds -> Counts]
    BY <1>1, <2>4, ClaimedOK, EmitOK
  <2>7. QED
    BY <1>4, <2>5, <2>6 DEF InvokeReturns, TypeOK, ProcsOK, baselines
<1>5. CASE InvokeStopped(p)
  <2>1. \A why \in {"RepeatedFailureBreaker", "Sandbox"} :
          BlockedOutcome(why, ZeroUsage) \in Outcome
    BY DEF BlockedOutcome, Outcome, Reasons, Breakers
  <2>2. ProcsOK'
    BY <1>1, <1>5, <2>1, PersistOK DEF InvokeStopped
  <2>3. trace' \in [RunIds -> Counts]
    BY <1>1, <1>5, ClaimedOK, EmitOK DEF InvokeStopped
  <2>4. QED
    BY <1>5, <2>2, <2>3 DEF InvokeStopped, TypeOK, ProcsOK, baselines
<1>6. CASE InvokeRaises(p)
  BY <1>6, ExitOK, TypeUnchangedStore DEF InvokeRaises, TypeOK, ProcsOK, StoreOK
<1>7. CASE InsertRow(p)
  <2> DEFINE row == [run |-> proc[p].run, prov |-> proc[p].prov,
                     out |-> proc[p].out, digest |-> proc[p].digest]
  <2>1. row \in Row
    <3>1. proc[p].out \in Outcome
      BY <1>7 DEF InsertRow, At, TypeOK, ProcOK
    <3>2. proc[p].digest \in Digests \cup {Missing}
      BY DEF TypeOK, Proc
    <3>3. QED
      BY <1>1, <3>1, <3>2, ClaimedOK DEF Row
  <2> HIDE DEF row
  <2>2. rows' = Insert(proc[p].packet.exp, row)
    BY <1>7 DEF InsertRow, row
  <2>3. rows' \in [ExpIds -> Row \cup {NoRow}]
    BY <2>1, <2>2 DEF Insert, TypeOK
  <2>4. ProcsOK'
    BY <1>7, ExitOK DEF InsertRow
  <2>5. QED
    BY <1>7, <2>3, <2>4 DEF InsertRow, TypeOK, ProcsOK, baselines
<1>8. QED
  BY <1>2, <1>3, <1>4, <1>5, <1>6, <1>7 DEF InvokeStep

LEMMA TypeNext == TypeOK /\ [Next]_vars => TypeOK'
<1> SUFFICES ASSUME TypeOK, [Next]_vars PROVE TypeOK'
  OBVIOUS
<1>1. CASE Environment
  BY <1>1, TypeEnvironment
<1>2. ASSUME NEW p \in Procs, PlanStart(p) \/ Start(p) \/ Step(p) \/ Crash(p)
      PROVE  TypeOK'
  <2>1. CASE PlanStart(p) \/ PlanStep(p)
    BY <2>1, TypePlan
  <2>2. CASE Start(p) \/ ClaimStep(p)
    BY <2>2, TypeClaim
  <2>3. CASE BaselineStep(p)
    BY <2>3, TypeBaseline
  <2>4. CASE InvokeStep(p)
    BY <2>4, TypeInvoke
  <2>5. CASE Crash(p)
    BY <2>5, ExitOK, TypeUnchangedStore DEF Crash, TypeOK, ProcsOK, StoreOK
  <2>6. QED
    BY <1>2, <2>1, <2>2, <2>3, <2>4, <2>5 DEF Step
<1>3. CASE UNCHANGED vars
  BY <1>3 DEF TypeOK, ProcOK, vars, baselines
<1>4. QED
  BY <1>1, <1>2, <1>3 DEF Next

(* Every file and every local of a process always holds a value the code    *)
(* writes there (arena/cli.py, plan and run_next).                          *)
THEOREM TypeCorrect == Spec => []TypeOK
  BY TypeInit, TypeNext, PTL DEF Spec

-----------------------------------------------------------------------------
(* The call budget.  Between a start and the row, a process holds the count *)
(* it read at its start.  If it is below the ceiling then a row was missing *)
(* to the ceiling when it started, so the processes below the ceiling pay   *)
(* for the rows they may still write: all of them together are n, and the   *)
(* last of them to start left room for one.                                 *)

RunNextLabels == BeforeClaim \cup AfterClaim
PastCheck == (BeforeClaim \ {"check"}) \cup AfterClaim

SeededIn(p, s) == {e \in proc[p].seeded : rows[e].prov \in Members[s]}

HasRoom(p, s) == Cardinality(SeededIn(p, s)) < Ceilings.calls[s]

Below(r, s) == {p \in Procs : /\ proc[p].pc \in RunNextLabels
                              /\ proc[p].run = r
                              /\ proc[p].prov \in Members[s]
                              /\ HasRoom(p, s)}

(* What the check of check_can_invoke leaves known about a process.         *)
Checked(p) ==
    /\ proc[p].seeded \subseteq Recorded
    /\ proc[p].pc \in PastCheck
         => \A s \in Scopes : proc[p].prov \in Members[s] => HasRoom(p, s)

Room(r, s) == Cardinality(RowsIn(r, s)) + Cardinality(Below(r, s))
                <= Ceilings.calls[s] + Cardinality(Procs) - 1

BudgetInv == /\ \A p \in Procs : Checked(p)
             /\ \A r \in RunIds, s \in Scopes : Room(r, s)

LEMMA ProcsFinite ==
    /\ IsFiniteSet(Procs) /\ Cardinality(Procs) \in Nat
    /\ Cardinality(Procs) >= 1
<1>1. IsFiniteSet(Procs) /\ Procs # {}
  BY RunNextAssumption DEF RunNextAssumption
<1>2. Cardinality(Procs) \in Nat /\ Cardinality(Procs) # 0
  BY <1>1, FS_CardinalityType, FS_EmptySet
<1>3. QED
  BY <1>1, <1>2

LEMMA CapType == ASSUME NEW s \in Scopes PROVE Ceilings.calls[s] \in Nat
  BY CeilingsAssumption DEF CeilingsAssumption

LEMMA ExpIdsFinite ==
    ASSUME NEW S \in SUBSET ExpIds
    PROVE  IsFiniteSet(S) /\ Cardinality(S) \in Nat
<1>1. IsFiniteSet(ExpIds)
  BY Bounds, FS_Interval DEF ExpIds
<1>2. QED
  BY <1>1, FS_Subset, FS_CardinalityType

LEMMA ProcSubset ==
    ASSUME NEW S \in SUBSET Procs
    PROVE  /\ IsFiniteSet(S) /\ Cardinality(S) \in Nat
           /\ Cardinality(S) <= Cardinality(Procs)
  BY ProcsFinite, FS_Subset, FS_CardinalityType

LEMMA RowsInFinite ==
    ASSUME NEW r, NEW s
    PROVE  IsFiniteSet(RowsIn(r, s)) /\ Cardinality(RowsIn(r, s)) \in Nat
  BY ExpIdsFinite DEF RowsIn, RowsOf, Recorded

LEMMA BudgetInit == Init => BudgetInv
<1> SUFFICES ASSUME Init PROVE BudgetInv
  OBVIOUS
<1>1. ASSUME NEW p \in Procs PROVE Checked(p)
  BY DEF Init, Checked, IdleProc, Idle, PastCheck, BeforeClaim, AfterClaim
<1>2. ASSUME NEW r \in RunIds, NEW s \in Scopes PROVE Room(r, s)
  <2>1. RowsIn(r, s) = {}
    BY DEF Init, RowsIn, RowsOf, Recorded
  <2>2. Below(r, s) = {}
    BY DEF Init, Below, IdleProc, Idle, RunNextLabels, BeforeClaim, AfterClaim
  <2>3. Cardinality(RowsIn(r, s)) = 0 /\ Cardinality(Below(r, s)) = 0
    BY <2>1, <2>2, FS_EmptySet
  <2>4. QED
    BY <2>3, ProcsFinite, CapType DEF Room
<1>3. QED
  BY <1>1, <1>2 DEF BudgetInv

(* A step that writes no row and lets no process in.                        *)
LEMMA BudgetQuiet ==
    ASSUME BudgetInv, rows' = rows,
           NEW p \in Procs,
           \A q \in Procs \ {p} : proc'[q] = proc[q],
           proc'[p].pc \in RunNextLabels
             => /\ proc[p].pc \in RunNextLabels
                /\ proc'[p].run = proc[p].run
                /\ proc'[p].prov = proc[p].prov
                /\ proc'[p].seeded = proc[p].seeded,
           Checked(p)'
    PROVE  BudgetInv'
<1>1. ASSUME NEW q \in Procs PROVE Checked(q)'
  <2>1. CASE q = p
    BY <2>1
  <2>2. CASE q # p
    BY <2>2 DEF BudgetInv, Checked, Recorded, HasRoom, SeededIn
  <2>3. QED
    BY <2>1, <2>2
<1>2. ASSUME NEW r \in RunIds, NEW s \in Scopes PROVE Room(r, s)'
  <2>1. RowsIn(r, s)' = RowsIn(r, s)
    BY DEF RowsIn, RowsOf, Recorded
  <2>2. ASSUME NEW q \in Procs, q \in Below(r, s)' PROVE q \in Below(r, s)
    BY <2>2 DEF Below, HasRoom, SeededIn
  <2>3. Below(r, s)' \subseteq Below(r, s) /\ Below(r, s) \subseteq Procs
    BY <2>2 DEF Below
  <2> DEFINE new == Below(r, s)'
             old == Below(r, s)
  <2>4. Cardinality(new) <= Cardinality(old) /\ Cardinality(new) \in Nat
          /\ Cardinality(old) \in Nat
    <3> HIDE DEF new, old
    <3>1. new \subseteq old /\ old \subseteq Procs
      BY <2>3 DEF new, old
    <3>2. QED
      BY <3>1, ProcSubset, FS_Subset
  <2>5. Room(r, s)
    BY DEF BudgetInv
  <2>6. Cardinality(Below(r, s)') = Cardinality(Below(r, s))'
    OBVIOUS
  <2>7. QED
    BY <2>1, <2>4, <2>5, ProcsFinite, CapType, RowsInFinite DEF Room
<1>3. QED
  BY <1>1, <1>2 DEF BudgetInv

LEMMA BecomeEffect ==
    ASSUME TypeOK, NEW p \in Procs, NEW r, Become(p, r)
    PROVE  proc'[p] = r /\ \A q \in Procs \ {p} : proc'[q] = proc[q]
  BY DEF TypeOK, Become

LEMMA BudgetExit ==
    ASSUME TypeOK, BudgetInv, rows' = rows, NEW p \in Procs, Exit(p)
    PROVE  BudgetInv'
<1>1. proc'[p] = IdleProc /\ \A q \in Procs \ {p} : proc'[q] = proc[q]
  BY BecomeEffect DEF Exit
<1>2. proc'[p].pc \notin RunNextLabels /\ proc'[p].pc \notin PastCheck
  BY <1>1 DEF IdleProc, Idle, RunNextLabels, PastCheck, BeforeClaim, AfterClaim
<1>3. Checked(p)'
  BY <1>1, <1>2 DEF Checked, IdleProc
<1>4. QED
  BY <1>1, <1>2, <1>3, BudgetQuiet

(* Moving on: the snapshot, the run and the provider stay.                  *)
LEMMA BudgetMove ==
    ASSUME TypeOK, BudgetInv, rows' = rows, NEW p \in Procs, NEW r,
           Become(p, r),
           r.run = proc[p].run, r.prov = proc[p].prov,
           r.seeded = proc[p].seeded,
           r.pc \in RunNextLabels => proc[p].pc \in RunNextLabels,
           r.pc \in PastCheck
             => \/ proc[p].pc \in PastCheck
                \/ \A s \in Scopes : proc[p].prov \in Members[s] => HasRoom(p, s)
    PROVE  BudgetInv'
<1>1. proc'[p] = r /\ \A q \in Procs \ {p} : proc'[q] = proc[q]
  BY BecomeEffect
<1>2. \A s \in Scopes : HasRoom(p, s)' = HasRoom(p, s)
  BY <1>1 DEF HasRoom, SeededIn
<1>3. Checked(p)'
  BY <1>1, <1>2 DEF BudgetInv, Checked, Recorded
<1>4. QED
  BY <1>1, <1>3, BudgetQuiet

LEMMA BudgetGoto ==
    ASSUME TypeOK, BudgetInv, rows' = rows, NEW p \in Procs,
           NEW label, Goto(p, label),
           label \in RunNextLabels => proc[p].pc \in RunNextLabels,
           label \in PastCheck => proc[p].pc \in PastCheck
    PROVE  BudgetInv'
<1> DEFINE r == [proc[p] EXCEPT !.pc = label]
<1>1. r.pc = label /\ r.run = proc[p].run /\ r.prov = proc[p].prov
        /\ r.seeded = proc[p].seeded
  BY DEF TypeOK, Proc
<1> HIDE DEF r
<1>2. Become(p, r)
  BY DEF Goto, r
<1>3. QED
  BY <1>1, <1>2, BudgetMove

LEMMA BudgetPersist ==
    ASSUME TypeOK, BudgetInv, rows' = rows, NEW p \in Procs, Claimed(p),
           NEW out, Persist(p, out)
    PROVE  BudgetInv'
<1> DEFINE r == [proc[p] EXCEPT !.pc = "persist", !.out = out]
<1>1. r.run = proc[p].run /\ r.prov = proc[p].prov
        /\ r.seeded = proc[p].seeded
  BY DEF TypeOK, Proc
<1>2. proc[p].pc \in RunNextLabels /\ proc[p].pc \in PastCheck
  BY DEF Claimed, RunNextLabels, PastCheck
<1> HIDE DEF r
<1>3. Become(p, r)
  BY DEF Persist, r
<1>4. QED
  BY <1>1, <1>2, <1>3, BudgetMove

(* What plan keeps when it opens the packet file, and run-next when it has  *)
(* read one.                                                                *)
LEMMA Opens ==
    ASSUME TypeOK, NEW p \in Procs, PlanOpen(p)
    PROVE  \E x : /\ Become(p, x) /\ x.pc = "plan_fill"
                  /\ x.run = proc[p].run /\ x.prov = proc[p].prov
                  /\ x.seeded = proc[p].seeded /\ x.packet = proc[p].packet
                  /\ x.file = Opened(proc[p].run)
<1> DEFINE x == [proc[p] EXCEPT !.pc = "plan_fill",
                                !.file = Opened(proc[p].run)]
<1>1. /\ x.pc = "plan_fill" /\ x.run = proc[p].run /\ x.prov = proc[p].prov
      /\ x.seeded = proc[p].seeded /\ x.packet = proc[p].packet
      /\ x.file = Opened(proc[p].run)
  BY DEF TypeOK, Proc
<1>2. Become(p, x)
  BY DEF PlanOpen
<1>3. QED
  BY <1>1, <1>2

LEMMA Reads ==
    ASSUME TypeOK, NEW p \in Procs, DequeueRead(p)
    PROVE  \/ Exit(p)
           \/ /\ queue[proc[p].run] \in Packet
              /\ \E x : /\ Become(p, x) /\ x.pc = "unlink"
                        /\ x.run = proc[p].run /\ x.prov = proc[p].prov
                        /\ x.seeded = proc[p].seeded
                        /\ x.packet = queue[proc[p].run]
                        /\ x.file = inode[proc[p].run]
<1> DEFINE x == [proc[p] EXCEPT !.pc = "unlink", !.packet = queue[proc[p].run],
                                !.file = inode[proc[p].run]]
<1>1. /\ x.pc = "unlink" /\ x.run = proc[p].run /\ x.prov = proc[p].prov
      /\ x.seeded = proc[p].seeded /\ x.packet = queue[proc[p].run]
      /\ x.file = inode[proc[p].run]
  BY DEF TypeOK, Proc
<1>2. CASE queue[proc[p].run] \in Packet
  <2>1. Become(p, x)
    BY <1>2, Zenon DEF DequeueRead
  <2>2. QED
    BY <1>1, <1>2, <2>1
<1>3. CASE queue[proc[p].run] \notin Packet
  BY <1>3, Zenon DEF DequeueRead
<1>4. QED
  BY <1>2, <1>3

LEMMA BudgetPlan ==
    ASSUME TypeOK, BudgetInv, NEW p \in Procs, PlanStart(p) \/ PlanStep(p)
    PROVE  BudgetInv'
<1>0. \A l \in {"plan_mint", "plan_open", "plan_fill"} :
        l \notin RunNextLabels /\ l \notin PastCheck
  BY DEF RunNextLabels, PastCheck, BeforeClaim, AfterClaim
<1>1. CASE PlanStart(p)
  <2>1. PICK v \in Providers :
          Become(p, [IdleProc EXCEPT !.pc = "plan_mint", !.run = latest,
                                     !.prov = v])
    BY <1>1 DEF PlanStart
  <2> DEFINE r == [IdleProc EXCEPT !.pc = "plan_mint", !.run = latest, !.prov = v]
  <2>2. r.pc = "plan_mint" /\ r.seeded = {}
    BY DEF IdleProc
  <2> HIDE DEF r
  <2>3. proc'[p] = r /\ \A q \in Procs \ {p} : proc'[q] = proc[q]
    BY <2>1, BecomeEffect DEF r
  <2>4. Checked(p)'
    BY <1>0, <2>2, <2>3 DEF Checked
  <2>5. rows' = rows
    BY <1>1 DEF PlanStart, store
  <2>6. QED
    BY <1>0, <2>2, <2>3, <2>4, <2>5, BudgetQuiet
<1>2. CASE PlanMint(p)
  <2>1. PICK e \in ExpIds :
          Become(p, [proc[p] EXCEPT !.pc = "plan_open",
                       !.packet = [exp |-> e, prov |-> proc[p].prov]])
    BY <1>2 DEF PlanMint
  <2> DEFINE r == [proc[p] EXCEPT !.pc = "plan_open",
                     !.packet = [exp |-> e, prov |-> proc[p].prov]]
  <2>2. /\ r.pc = "plan_open" /\ r.run = proc[p].run
        /\ r.prov = proc[p].prov /\ r.seeded = proc[p].seeded
    BY DEF TypeOK, Proc
  <2> HIDE DEF r
  <2>3. Become(p, r)
    BY <2>1 DEF r
  <2>4. rows' = rows
    BY <1>2 DEF PlanMint, store
  <2>5. QED
    BY <1>0, <2>2, <2>3, <2>4, BudgetMove
<1>3. CASE PlanOpen(p)
  <2>1. PICK x : /\ Become(p, x) /\ x.pc = "plan_fill" /\ x.run = proc[p].run
                 /\ x.prov = proc[p].prov /\ x.seeded = proc[p].seeded
    BY <1>3, Opens
  <2>2. rows' = rows
    BY <1>3 DEF PlanOpen
  <2>3. QED
    BY <1>0, <2>1, <2>2, BudgetMove
<1>4. CASE PlanFill(p)
  BY <1>4, BudgetExit DEF PlanFill
<1>5. QED
  BY <1>1, <1>2, <1>3, <1>4 DEF PlanStep

(* The start of run-next: a process below the ceiling saw a row missing.    *)
LEMMA BudgetStart ==
    ASSUME TypeOK, BudgetInv, NEW p \in Procs, Start(p)
    PROVE  BudgetInv'
<1>1. PICK v \in Providers :
        Become(p, [IdleProc EXCEPT !.pc = "check", !.run = latest,
                                   !.prov = v, !.seeded = RowsOf(latest)])
  BY DEF Start
<1> DEFINE r0 == [IdleProc EXCEPT !.pc = "check", !.run = latest,
                                 !.prov = v, !.seeded = RowsOf(latest)]
<1>2. /\ r0.pc = "check" /\ r0.run = latest /\ r0.prov = v
      /\ r0.seeded = RowsOf(latest)
  BY DEF IdleProc
<1> HIDE DEF r0
<1>3. proc'[p] = r0 /\ \A q \in Procs \ {p} : proc'[q] = proc[q]
  BY <1>1, BecomeEffect DEF r0
<1>4. rows' = rows
  BY DEF Start, store
<1>5. ASSUME NEW q \in Procs PROVE Checked(q)'
  <2>1. CASE q = p
    <3>1. "check" \notin PastCheck
      BY DEF PastCheck, AfterClaim
    <3>2. RowsOf(latest) \subseteq Recorded
      BY DEF RowsOf
    <3>3. QED
      BY <2>1, <3>1, <3>2, <1>2, <1>3, <1>4 DEF Checked, Recorded
  <2>2. CASE q # p
    BY <2>2, <1>3, <1>4 DEF BudgetInv, Checked, Recorded, HasRoom, SeededIn
  <2>3. QED
    BY <2>1, <2>2
<1>6. ASSUME NEW r \in RunIds, NEW s \in Scopes PROVE Room(r, s)'
  <2> DEFINE new == Below(r, s)'
             old == Below(r, s)
             n == Cardinality(RowsIn(r, s))
  <2>1. RowsIn(r, s)' = RowsIn(r, s)
    BY <1>4 DEF RowsIn, RowsOf, Recorded
  <2>2. new \subseteq Procs /\ old \subseteq Procs
    BY DEF Below
  <2>3. p \in new => n < Ceilings.calls[s]
    <3>1. SUFFICES ASSUME p \in new PROVE n < Ceilings.calls[s]
      OBVIOUS
    <3>2. r = latest /\ HasRoom(p, s)'
      BY <3>1, <1>2, <1>3 DEF Below
    <3>3. SeededIn(p, s)' = RowsIn(r, s)
      BY <3>2, <1>2, <1>3, <1>4 DEF SeededIn, RowsIn
    <3>4. QED
      BY <3>2, <3>3 DEF HasRoom
  <2>4. p \notin new => new \subseteq old
    BY <1>3, <1>4 DEF Below, HasRoom, SeededIn
  <2>5. Room(r, s)
    BY DEF BudgetInv
  <2>6. n + Cardinality(new) <= Ceilings.calls[s] + Cardinality(Procs) - 1
    <3> HIDE DEF new
    <3>1. CASE p \in new
      BY <2>2, <2>3, <3>1, ProcSubset, ProcsFinite, CapType, RowsInFinite
    <3>2. CASE p \notin new
      <4>1. Cardinality(new) <= Cardinality(old) /\ Cardinality(new) \in Nat
              /\ Cardinality(old) \in Nat
        <5> HIDE DEF old
        <5>1. QED
          BY <2>2, <2>4, <3>2, ProcSubset, FS_Subset
      <4>2. QED
        BY <2>5, <4>1, ProcsFinite, CapType, RowsInFinite DEF Room
    <3>3. QED
      BY <3>1, <3>2
  <2>7. QED
    BY <2>1, <2>6 DEF Room
<1>7. QED
  BY <1>5, <1>6 DEF BudgetInv

LEMMA BudgetClaim ==
    ASSUME TypeOK, BudgetInv, NEW p \in Procs, ClaimStep(p)
    PROVE  BudgetInv'
<1>1. rows' = rows
  BY DEF ClaimStep, CheckCanInvoke, Peek, DequeueRead, DequeueUnlink, store
<1>2. /\ \A l \in {"check", "peek", "read", "unlink", "digest"} : l \in RunNextLabels
      /\ \A l \in {"peek", "read", "unlink", "digest"} : l \in PastCheck
  BY DEF RunNextLabels, PastCheck, BeforeClaim, AfterClaim
<1>3. CASE CheckCanInvoke(p)
  <2>1. CASE CanInvoke(p)
    <3>1. ASSUME NEW s \in Scopes, proc[p].prov \in Members[s]
          PROVE  HasRoom(p, s)
      <4>1. CallsIn(proc[p].seeded)[s] = Cardinality(SeededIn(p, s))
        BY DEF CallsIn, SeededIn
      <4>2. CallsIn(proc[p].seeded)[s] + 1 <= Ceilings.calls[s]
        BY <2>1, <3>1 DEF CanInvoke, PreInvokeOk
      <4>3. Cardinality(SeededIn(p, s)) \in Nat
        BY ExpIdsFinite DEF SeededIn, BudgetInv, Checked, Recorded
      <4>4. QED
        BY <4>1, <4>2, <4>3, CapType DEF HasRoom
    <3> DEFINE r == [proc[p] EXCEPT !.pc = "peek"]
    <3>2. r.pc = "peek" /\ r.run = proc[p].run /\ r.prov = proc[p].prov
            /\ r.seeded = proc[p].seeded
      BY DEF TypeOK, Proc
    <3> HIDE DEF r
    <3>3. Become(p, r) /\ proc[p].pc = "check"
      BY <1>3, <2>1 DEF CheckCanInvoke, Goto, At, r
    <3>4. QED
      BY <1>1, <1>2, <3>1, <3>2, <3>3, BudgetMove
  <2>2. CASE ~CanInvoke(p)
    BY <1>1, <1>3, <2>2, BudgetExit DEF CheckCanInvoke
  <2>3. QED
    BY <2>1, <2>2
<1>4. CASE Peek(p)
  BY <1>1, <1>2, <1>4, BudgetGoto, BudgetExit DEF Peek, At
<1>5. CASE DequeueRead(p)
  <2>1. CASE Exit(p)
    BY <1>1, <2>1, BudgetExit
  <2>2. CASE ~Exit(p)
    <3>1. PICK x : /\ Become(p, x) /\ x.pc = "unlink" /\ x.run = proc[p].run
                   /\ x.prov = proc[p].prov /\ x.seeded = proc[p].seeded
      BY <1>5, <2>2, Reads
    <3>2. proc[p].pc = "read"
      BY <1>5 DEF DequeueRead, At
    <3>3. QED
      BY <1>1, <1>2, <3>1, <3>2, BudgetMove
  <2>3. QED
    BY <2>1, <2>2
<1>6. CASE DequeueUnlink(p)
  BY <1>1, <1>2, <1>6, BudgetGoto, BudgetExit DEF DequeueUnlink, At
<1>7. QED
  BY <1>3, <1>4, <1>5, <1>6 DEF ClaimStep

LEMMA ClaimedGotoBudget ==
    ASSUME TypeOK, BudgetInv, rows' = rows, NEW p \in Procs, Claimed(p),
           NEW label, Goto(p, label)
    PROVE  BudgetInv'
<1>1. proc[p].pc \in RunNextLabels /\ proc[p].pc \in PastCheck
  BY DEF Claimed, RunNextLabels, PastCheck
<1>2. QED
  BY <1>1, BudgetGoto

LEMMA BudgetBaseline ==
    ASSUME TypeOK, BudgetInv, NEW p \in Procs, BaselineStep(p)
    PROVE  BudgetInv'
<1>1. rows' = rows
  BY DEF BaselineStep, FixtureDigest, FixtureRead, FixtureOpen, FixtureFill,
     VersionRead, VersionOpen, VersionFill, store
<1>2. Claimed(p)
  BY DEF BaselineStep, FixtureDigest, FixtureRead, FixtureOpen, FixtureFill,
     VersionRead, VersionOpen, VersionFill, Claimed, AfterClaim, At
<1>3. proc[p].pc \in RunNextLabels /\ proc[p].pc \in PastCheck
  BY <1>2 DEF Claimed, RunNextLabels, PastCheck
<1>4. \/ BlockReproducibility(p) \/ Exit(p)
      \/ \E label \in Labels : Goto(p, label)
      \/ Become(p, [proc[p] EXCEPT !.pc = "fixture_read", !.digest = fixture])
      \/ Become(p, [proc[p] EXCEPT !.pc = "version_open",
                   !.seen = IF versionBase = NoFile THEN {} ELSE versionBase])
  BY DEF BaselineStep, FixtureDigest, FixtureRead, FixtureOpen, FixtureFill,
     VersionRead, VersionOpen, VersionFill, NoManifest, FixtureDrift,
     FixtureUnreadable, VersionsUnreadable, Labels
<1>5. CASE BlockReproducibility(p) \/ Exit(p)
  BY <1>1, <1>2, <1>5, BudgetPersist, BudgetExit DEF BlockReproducibility
<1>6. CASE \E label \in Labels : Goto(p, label)
  BY <1>1, <1>2, <1>6, ClaimedGotoBudget
<1>7. CASE Become(p, [proc[p] EXCEPT !.pc = "fixture_read", !.digest = fixture])
  <2> DEFINE r == [proc[p] EXCEPT !.pc = "fixture_read", !.digest = fixture]
  <2>1. r.run = proc[p].run /\ r.prov = proc[p].prov
          /\ r.seeded = proc[p].seeded
    BY DEF TypeOK, Proc
  <2> HIDE DEF r
  <2>2. Become(p, r)
    BY <1>7 DEF r
  <2>3. QED
    BY <1>1, <1>3, <2>1, <2>2, BudgetMove
<1>8. CASE Become(p, [proc[p] EXCEPT !.pc = "version_open",
                   !.seen = IF versionBase = NoFile THEN {} ELSE versionBase])
  <2> DEFINE r == [proc[p] EXCEPT !.pc = "version_open",
                   !.seen = IF versionBase = NoFile THEN {} ELSE versionBase]
  <2>1. r.run = proc[p].run /\ r.prov = proc[p].prov
          /\ r.seeded = proc[p].seeded
    BY DEF TypeOK, Proc
  <2> HIDE DEF r
  <2>2. Become(p, r)
    BY <1>8 DEF r
  <2>3. QED
    BY <1>1, <1>3, <2>1, <2>2, BudgetMove
<1>9. QED
  BY <1>4, <1>5, <1>6, <1>7, <1>8

(* insert_experiment: the row that appears is paid for by the process that  *)
(* wrote it, which is no longer below the ceiling.                          *)
LEMMA BudgetInsert ==
    ASSUME TypeOK, BudgetInv, NEW p \in Procs, InsertRow(p)
    PROVE  BudgetInv'
<1> DEFINE row == [run |-> proc[p].run, prov |-> proc[p].prov,
                   out |-> proc[p].out, digest |-> proc[p].digest]
           e == proc[p].packet.exp
<1>1. /\ proc'[p] = IdleProc /\ \A q \in Procs \ {p} : proc'[q] = proc[q]
      /\ rows' = Insert(e, row) /\ proc[p].pc = "persist"
  BY BecomeEffect DEF InsertRow, Exit, At
<1>2. Claimed(p)
  BY <1>1 DEF Claimed, AfterClaim
<1>3. e \in ExpIds
  BY <1>2, ClaimedOK DEF Packet
<1>4. row \in Row /\ row # NoRow
  <2>1. proc[p].out \in Outcome
    BY <1>1 DEF TypeOK, ProcOK
  <2>2. proc[p].digest \in Digests \cup {Missing}
    BY DEF TypeOK, Proc
  <2>3. row \in Row
    BY <1>2, <2>1, <2>2, ClaimedOK DEF Row
  <2>4. QED
    BY <2>3, SentinelAssumption DEF SentinelAssumption
<1>5. row.run = proc[p].run /\ row.prov = proc[p].prov
  OBVIOUS
<1> HIDE DEF row, e
<1>6. CASE rows[e] # NoRow
  BY <1>1, <1>6, BudgetExit DEF Insert, InsertRow
<1>7. CASE rows[e] = NoRow
  <2>1. /\ rows'[e] = row /\ \A x \in ExpIds \ {e} : rows'[x] = rows[x]
        /\ e \notin Recorded
    BY <1>1, <1>3, <1>7 DEF Insert, TypeOK, Recorded
  <2>2. ASSUME NEW q \in Procs PROVE Checked(q)'
    <3>1. CASE q = p
      BY <3>1, <1>1 DEF Checked, IdleProc, Idle, PastCheck, BeforeClaim, AfterClaim
    <3>2. CASE q # p
      <4>1. proc[q].seeded \subseteq Recorded /\ proc'[q] = proc[q]
        BY <1>1, <3>2 DEF BudgetInv, Checked
      <4>2. Recorded \subseteq Recorded'
        BY <2>1 DEF Recorded
      <4>3. \A s \in Scopes : SeededIn(q, s)' = SeededIn(q, s)
        BY <2>1, <4>1 DEF SeededIn, Recorded
      <4>4. \A s \in Scopes : HasRoom(q, s)' = HasRoom(q, s)
        BY <4>3 DEF HasRoom
      <4>5. QED
        BY <4>1, <4>2, <4>4 DEF BudgetInv, Checked
    <3>3. QED
      BY <3>1, <3>2
  <2>3. ASSUME NEW r \in RunIds, NEW s \in Scopes PROVE Room(r, s)'
    <3> DEFINE new == Below(r, s)'
               old == Below(r, s)
               n == RowsIn(r, s)
               n1 == RowsIn(r, s)'
    <3>1. new \subseteq old \ {p} /\ old \subseteq Procs
      <4>1. ASSUME NEW q \in Procs, q \in new PROVE q \in old /\ q # p
        <5>1. q # p
          BY <4>1, <1>1 DEF Below, IdleProc, Idle, RunNextLabels, BeforeClaim, AfterClaim
        <5>2. proc'[q] = proc[q] /\ proc[q].seeded \subseteq Recorded
          BY <5>1, <1>1 DEF BudgetInv, Checked
        <5>3. SeededIn(q, s)' = SeededIn(q, s)
          BY <2>1, <5>2 DEF SeededIn, Recorded
        <5>4. QED
          BY <4>1, <5>1, <5>2, <5>3 DEF Below, HasRoom
      <4>2. QED
        BY <4>1 DEF Below
    <3>2. n \subseteq ExpIds /\ n1 \subseteq ExpIds /\ e \notin n
      BY <2>1 DEF RowsIn, RowsOf, Recorded
    <3>3. CASE r = proc[p].run /\ proc[p].prov \in Members[s]
      <4>1. p \in old
        BY <3>3, <1>2 DEF BudgetInv, Checked, Below, Claimed, PastCheck, RunNextLabels
      <4>2. n1 \subseteq n \cup {e}
        BY <2>1 DEF RowsIn, RowsOf, Recorded
      <4>3. Cardinality(n1) <= Cardinality(n) + 1
              /\ Cardinality(n1) \in Nat /\ Cardinality(n) \in Nat
        <5> HIDE DEF n, n1
        <5>1. IsFiniteSet(n) /\ IsFiniteSet(n1) /\ Cardinality(n1) \in Nat
                /\ Cardinality(n) \in Nat
          BY <3>2, ExpIdsFinite
        <5>2. IsFiniteSet(n \cup {e}) /\ Cardinality(n \cup {e}) = Cardinality(n) + 1
          BY <5>1, <3>2, FS_AddElement
        <5>3. QED
          BY <5>1, <5>2, <4>2, FS_Subset
      <4>4. Cardinality(new) <= Cardinality(old) - 1
              /\ Cardinality(new) \in Nat /\ Cardinality(old) \in Nat
        <5> HIDE DEF new, old
        <5>1. IsFiniteSet(old) /\ Cardinality(old) \in Nat
                /\ Cardinality(new) \in Nat
          BY <3>1, ProcSubset
        <5>2. IsFiniteSet(old \ {p}) /\ Cardinality(old \ {p}) = Cardinality(old) - 1
          BY <5>1, <4>1, FS_RemoveElement
        <5>3. QED
          BY <5>1, <5>2, <3>1, FS_Subset
      <4>5. Room(r, s)
        BY DEF BudgetInv
      <4>6. QED
        BY <4>3, <4>4, <4>5, ProcsFinite, CapType DEF Room
    <3>4. CASE ~(r = proc[p].run /\ proc[p].prov \in Members[s])
      <4>1. n1 = n
        BY <3>4, <1>4, <1>5, <2>1 DEF RowsIn, RowsOf, Recorded
      <4>2. Cardinality(new) <= Cardinality(old)
              /\ Cardinality(new) \in Nat /\ Cardinality(old) \in Nat
        <5> HIDE DEF new, old
        <5>1. QED
          BY <3>1, ProcSubset, FS_Subset
      <4>3. Room(r, s)
        BY DEF BudgetInv
      <4>4. QED
        BY <4>1, <4>2, <4>3, ProcsFinite, CapType, RowsInFinite DEF Room
    <3>5. QED
      BY <3>3, <3>4
  <2>4. QED
    BY <2>2, <2>3 DEF BudgetInv
<1>8. QED
  BY <1>6, <1>7

LEMMA BudgetInvoke ==
    ASSUME TypeOK, BudgetInv, NEW p \in Procs, InvokeStep(p)
    PROVE  BudgetInv'
<1>1. Claimed(p)
  BY DEF InvokeStep, Resolve, Invoke, InvokeReturns, InvokeStopped, InvokeRaises,
     InsertRow, Claimed, AfterClaim, At
<1>2. CASE InsertRow(p)
  BY <1>2, BudgetInsert
<1>3. CASE Resolve(p)
  BY <1>1, <1>3, ClaimedGotoBudget, BudgetExit DEF Resolve, store
<1>4. CASE Invoke(p)
  BY <1>1, <1>4, ClaimedGotoBudget DEF Invoke
<1>5. CASE InvokeStopped(p)
  BY <1>1, <1>5, BudgetPersist DEF InvokeStopped
<1>6. CASE InvokeRaises(p)
  BY <1>6, BudgetExit DEF InvokeRaises, store
<1>7. ASSUME NEW u \in Usages, NEW s \in ResultStatuses, InvokeReturns(p, u, s)
      PROVE  BudgetInv'
  <2>1. rows' = rows /\ \E out : Persist(p, out)
    BY <1>7 DEF InvokeReturns
  <2>2. QED
    BY <1>1, <2>1, BudgetPersist
<1>8. QED
  BY <1>2, <1>3, <1>4, <1>5, <1>6, <1>7 DEF InvokeStep

LEMMA BudgetNext == TypeOK /\ BudgetInv /\ [Next]_vars => BudgetInv'
<1> SUFFICES ASSUME TypeOK, BudgetInv, [Next]_vars PROVE BudgetInv'
  OBVIOUS
<1>1. ASSUME rows' = rows, proc' = proc PROVE BudgetInv'
  BY <1>1 DEF BudgetInv, Checked, Room, Below, HasRoom, SeededIn, RowsIn,
     RowsOf, Recorded
<1>2. CASE Environment
  BY <1>1, <1>2 DEF Environment, InitFixture, Kill, Unkill, EditFixture,
     CorruptBaseline, store
<1>3. ASSUME NEW p \in Procs, PlanStart(p) \/ Start(p) \/ Step(p) \/ Crash(p)
      PROVE  BudgetInv'
  <2>1. CASE PlanStart(p) \/ PlanStep(p)
    BY <2>1, BudgetPlan
  <2>2. CASE Start(p)
    BY <2>2, BudgetStart
  <2>3. CASE ClaimStep(p)
    BY <2>3, BudgetClaim
  <2>4. CASE BaselineStep(p)
    BY <2>4, BudgetBaseline
  <2>5. CASE InvokeStep(p)
    BY <2>5, BudgetInvoke
  <2>6. CASE Crash(p)
    BY <2>6, BudgetExit DEF Crash, store
  <2>7. QED
    BY <1>3, <2>1, <2>2, <2>3, <2>4, <2>5, <2>6 DEF Step
<1>4. CASE UNCHANGED vars
  BY <1>1, <1>4 DEF vars
<1>5. QED
  BY <1>2, <1>3, <1>4 DEF Next

LEMMA BudgetInvImpliesBudget == TypeOK /\ BudgetInv => CallBudget
<1> SUFFICES ASSUME TypeOK, BudgetInv, NEW r \in RunIds, NEW s \in Scopes
             PROVE  Cardinality(RowsIn(r, s)) + Cardinality(Admitted(r, s))
                      <= Ceilings.calls[s] + Cardinality(Procs) - 1
  BY DEF CallBudget
<1>1. Admitted(r, s) \subseteq Below(r, s) /\ Below(r, s) \subseteq Procs
  BY DEF Admitted, Below, BudgetInv, Checked, PastCheck, RunNextLabels
<1>2. Cardinality(Admitted(r, s)) <= Cardinality(Below(r, s))
        /\ Cardinality(Admitted(r, s)) \in Nat /\ Cardinality(Below(r, s)) \in Nat
  BY <1>1, ProcSubset, FS_Subset
<1>3. Room(r, s)
  BY DEF BudgetInv
<1>4. QED
  BY <1>2, <1>3, ProcsFinite, CapType, RowsInFinite DEF Room

(* The call ceilings of the budget bound what a run records and has under   *)
(* way, up to one task per further concurrent process: run_next reads the   *)
(* scoreboard once (arena/cli.py) and check_pre_invoke compares with that   *)
(* (arena/budget/governor.py).  With a single process the ceiling is exact. *)
THEOREM CallBudgetHolds == Spec => []CallBudget
<1>1. Init => TypeOK /\ BudgetInv
  BY TypeInit, BudgetInit
<1>2. TypeOK /\ BudgetInv /\ [Next]_vars => (TypeOK /\ BudgetInv)'
  BY TypeNext, BudgetNext
<1>3. TypeOK /\ BudgetInv => CallBudget
  BY BudgetInvImpliesBudget
<1>4. QED
  BY <1>1, <1>2, <1>3, PTL DEF Spec

-----------------------------------------------------------------------------
(* Rows are append-only: insert_experiment never replaces a row, whoever    *)
(* else holds the same experiment id (arena/scoreboard/store.py).           *)
THEOREM RowsNeverReplaced == Spec => RowsAppendOnly
<1>1. ASSUME TypeOK, [Next]_vars, NEW e \in ExpIds, rows[e] # NoRow
      PROVE  rows'[e] = rows[e]
  <2>1. rows' = rows \/ \E p \in Procs : InsertRow(p)
    BY <1>1 DEF Next, vars, Environment, InitFixture, Kill, Unkill, EditFixture,
       CorruptBaseline, PlanStart, Start, Step, Crash, PlanStep, PlanMint,
       PlanOpen, PlanFill, ClaimStep, CheckCanInvoke, Peek, DequeueRead,
       DequeueUnlink, BaselineStep, FixtureDigest, FixtureRead, FixtureOpen,
       FixtureFill, VersionRead, VersionOpen, VersionFill, InvokeStep, Resolve,
       Invoke, InvokeReturns, InvokeStopped, InvokeRaises, store
  <2>2. QED
    BY <1>1, <2>1 DEF InsertRow, Insert, TypeOK
<1>2. TypeOK /\ [Next]_vars
        => [\A e \in ExpIds : rows[e] # NoRow => rows'[e] = rows[e]]_vars
  BY <1>1
<1>3. QED
  BY <1>2, TypeCorrect, PTL DEF Spec, RowsAppendOnly

-----------------------------------------------------------------------------
(* One digest.  A command compares the digest it computed with the sticky   *)
(* baseline, or writes it there, and goes on.  While any command is under   *)
(* way the fixture is not edited, so all digests in flight are the          *)
(* fixture's; what was recorded binds them because the baseline, once       *)
(* written, is never absent again, and is either unreadable or the digest   *)
(* of every recorded row.                                                   *)
PastBaseline == {"version_read", "version_open", "version_fill", "resolve",
                 "invoke", "invoking"}

(* On its way to a row that a provider produced; writing the baseline;      *)
(* holding a digest that still decides something.                           *)
Accepted(r) == r.pc \in PastBaseline \/ (r.pc = "persist" /\ Reported(r.out))
Establishing(r) == r.pc \in {"fixture_open", "fixture_fill"}
HoldsDigest(r) == r.pc \in Digesting \/ Accepted(r)

ReportedRows == {e \in Recorded : Reported(rows[e].out)}

(* The baseline exists once anything was accepted.                          *)
Sealed ==
    \/ fixtureBase # NoFile
    \/ ReportedRows = {} /\ \A p \in Procs : ~Accepted(proc[p])

(* Digests in flight are the fixture's.                                     *)
InFlight == \A p \in Procs : HoldsDigest(proc[p]) => proc[p].digest = fixture

Unreadable == {Torn, Foreign}

(* Recorded digests are those of a readable baseline, of the commands that  *)
(* it let through or that write it.                                         *)
RowsBound ==
    \A e \in ReportedRows :
        /\ fixtureBase \notin Unreadable => rows[e].digest = fixtureBase
        /\ \A p \in Procs : Accepted(proc[p]) \/ Establishing(proc[p])
                              => rows[e].digest = proc[p].digest

AcceptedBound ==
    \A p \in Procs :
        Accepted(proc[p]) /\ fixtureBase \notin Unreadable
            => fixtureBase = proc[p].digest

DigestInv == Sealed /\ InFlight /\ RowsBound /\ AcceptedBound /\ OneDigest

LEMMA DigestInit == Init => DigestInv
<1> SUFFICES ASSUME Init PROVE DigestInv
  OBVIOUS
<1>1. ReportedRows = {} /\ Recorded = {}
  BY DEF Init, ReportedRows, Recorded
<1>2. \A p \in Procs : ~Accepted(proc[p]) /\ ~HoldsDigest(proc[p])
  BY DEF Init, IdleProc, Idle, Accepted, HoldsDigest, PastBaseline, Digesting
<1>3. QED
  BY <1>1, <1>2 DEF DigestInv, Sealed, InFlight, RowsBound, AcceptedBound,
     OneDigest

(* A step that shows the rows nothing new: what the process goes on with it *)
(* held before.                                                             *)
LEMMA DigestMove ==
    ASSUME TypeOK, DigestInv, NEW p \in Procs, NEW r, Become(p, r),
           rows' = rows, fixture' = fixture, fixtureBase' = fixtureBase,
           Accepted(r) => Accepted(proc[p]),
           Establishing(r) => Establishing(proc[p]),
           HoldsDigest(r) => HoldsDigest(proc[p]) /\ r.digest = proc[p].digest
    PROVE  DigestInv'
<1>1. proc'[p] = r /\ \A q \in Procs \ {p} : proc'[q] = proc[q]
  BY BecomeEffect
<1>2. ReportedRows' = ReportedRows /\ OneDigest'
  BY DEF DigestInv, OneDigest, ReportedRows, Recorded
<1>3. \A q \in Procs :
        /\ Accepted(proc'[q]) => Accepted(proc[q])
        /\ Establishing(proc'[q]) => Establishing(proc[q])
        /\ HoldsDigest(proc'[q])
             => HoldsDigest(proc[q]) /\ proc'[q].digest = proc[q].digest
        /\ Accepted(proc'[q]) \/ Establishing(proc'[q]) => HoldsDigest(proc'[q])
  BY <1>1 DEF HoldsDigest, Establishing, Digesting
<1>4. Sealed'
  BY <1>2, <1>3 DEF DigestInv, Sealed
<1>5. InFlight'
  BY <1>3 DEF DigestInv, InFlight
<1>6. RowsBound'
  BY <1>2, <1>3 DEF DigestInv, RowsBound
<1>7. AcceptedBound'
  BY <1>3 DEF DigestInv, AcceptedBound
<1>8. QED
  BY <1>2, <1>4, <1>5, <1>6, <1>7 DEF DigestInv

(* A step that ends the command, or takes it to a label where its digest    *)
(* decides nothing or as much as before.                                    *)
LEMMA DigestExit ==
    ASSUME TypeOK, DigestInv, NEW p \in Procs, Exit(p),
           rows' = rows, fixture' = fixture, fixtureBase' = fixtureBase
    PROVE  DigestInv'
<1>1. ~Accepted(IdleProc) /\ ~Establishing(IdleProc) /\ ~HoldsDigest(IdleProc)
  BY DEF IdleProc, Idle, Accepted, Establishing, HoldsDigest, PastBaseline,
     Digesting
<1>2. QED
  BY <1>1, DigestMove DEF Exit

Quiet == Labels \ (PastBaseline \cup Digesting \cup {"persist"})

LEMMA DigestGoto ==
    ASSUME TypeOK, DigestInv, NEW p \in Procs, NEW label, Goto(p, label),
           \/ label \in Quiet
           \/ label \in PastBaseline /\ proc[p].pc \in PastBaseline,
           rows' = rows, fixture' = fixture, fixtureBase' = fixtureBase
    PROVE  DigestInv'
<1> DEFINE r == [proc[p] EXCEPT !.pc = label]
<1>1. r.pc = label /\ r.digest = proc[p].digest /\ r.out = proc[p].out
  BY DEF TypeOK, Proc
<1> HIDE DEF r
<1>2. /\ Accepted(r) => Accepted(proc[p])
      /\ ~Establishing(r)
      /\ HoldsDigest(r) => HoldsDigest(proc[p])
  BY <1>1 DEF Accepted, Establishing, HoldsDigest, Quiet, PastBaseline,
     Digesting
<1>3. Become(p, r)
  BY DEF Goto, r
<1>4. QED
  BY <1>1, <1>2, <1>3, DigestMove

(* On to the row, from the invocation or blocked by a baseline.             *)
LEMMA DigestPersist ==
    ASSUME TypeOK, DigestInv, NEW p \in Procs, NEW out, Persist(p, out),
           proc[p].pc \in PastBaseline \/ ~Reported(out),
           rows' = rows, fixture' = fixture, fixtureBase' = fixtureBase
    PROVE  DigestInv'
<1> DEFINE r == [proc[p] EXCEPT !.pc = "persist", !.out = out]
<1>1. r.pc = "persist" /\ r.digest = proc[p].digest /\ r.out = out
  BY DEF TypeOK, Proc
<1> HIDE DEF r
<1>2. /\ Accepted(r) => Accepted(proc[p])
      /\ ~Establishing(r)
      /\ HoldsDigest(r) => HoldsDigest(proc[p])
  BY <1>1 DEF Accepted, Establishing, HoldsDigest, PastBaseline, Digesting
<1>3. Become(p, r)
  BY DEF Persist, r
<1>4. QED
  BY <1>1, <1>2, <1>3, DigestMove

LEMMA DigestBlocked ==
    ASSUME TypeOK, DigestInv, NEW p \in Procs, BlockReproducibility(p),
           rows' = rows, fixture' = fixture, fixtureBase' = fixtureBase
    PROVE  DigestInv'
<1>1. ~Reported(BlockedOutcome("BLOCKED_REPRODUCIBILITY", ZeroUsage))
  BY DEF Reported, BlockedOutcome
<1>2. QED
  BY <1>1, DigestPersist DEF BlockReproducibility

(* No file, a torn file and a digest are three different things.            *)
LEMMA DigestValues ==
    /\ NoFile \notin Unreadable /\ Torn \in Unreadable
    /\ \A d \in Digests : d # NoFile /\ d \notin Unreadable
  BY SentinelAssumption DEF SentinelAssumption, Unreadable

LEMMA DigestBaseline ==
    ASSUME TypeOK, DigestInv, NEW p \in Procs, BaselineStep(p)
    PROVE  DigestInv'
<1>1. \A label \in Labels : Goto(p, label)
        => \E r : /\ Become(p, r) /\ r.pc = label
                  /\ r.digest = proc[p].digest /\ r.out = proc[p].out
  <2> SUFFICES ASSUME NEW label \in Labels, Goto(p, label)
               PROVE  \E r : /\ Become(p, r) /\ r.pc = label
                             /\ r.digest = proc[p].digest /\ r.out = proc[p].out
    OBVIOUS
  <2> DEFINE r == [proc[p] EXCEPT !.pc = label]
  <2>1. r.pc = label /\ r.digest = proc[p].digest /\ r.out = proc[p].out
    BY DEF TypeOK, Proc
  <2>2. Become(p, r)
    BY DEF Goto
  <2>3. QED
    BY <2>1, <2>2
<1>2. CASE FixtureDigest(p)
  <2>1. CASE fixture \in {Missing, Foreign}
    BY <1>2, <2>1, DigestBlocked, DigestExit DEF FixtureDigest, NoManifest, store,
       baselines
  <2>2. CASE fixture \notin {Missing, Foreign}
    <3> DEFINE r == [proc[p] EXCEPT !.pc = "fixture_read", !.digest = fixture]
    <3>1. r.pc = "fixture_read" /\ r.digest = fixture
      BY DEF TypeOK, Proc
    <3>2. Become(p, r) /\ rows' = rows /\ fixture' = fixture
            /\ fixtureBase' = fixtureBase
      BY <1>2, <2>2 DEF FixtureDigest, store, baselines
    <3> HIDE DEF r
    <3>3. proc'[p] = r /\ \A q \in Procs \ {p} : proc'[q] = proc[q]
      BY <3>2, BecomeEffect
    <3>4. ~Accepted(r) /\ ~Establishing(r)
      BY <3>1 DEF Accepted, Establishing, PastBaseline
    <3>5. ReportedRows' = ReportedRows /\ OneDigest'
      BY <3>2 DEF DigestInv, OneDigest, ReportedRows, Recorded
    <3>6. Sealed' /\ InFlight' /\ RowsBound' /\ AcceptedBound'
      BY <3>1, <3>2, <3>3, <3>4, <3>5 DEF DigestInv, Sealed, InFlight,
         RowsBound, AcceptedBound
    <3>7. QED
      BY <3>5, <3>6 DEF DigestInv
  <2>3. QED
    BY <2>1, <2>2
<1>3. CASE FixtureRead(p)
  <2>1. rows' = rows /\ fixture' = fixture /\ fixtureBase' = fixtureBase
    BY <1>3 DEF FixtureRead, store, baselines
  <2>2. HoldsDigest(proc[p]) /\ proc[p].digest = fixture
          /\ proc[p].digest \in Digests
    BY <1>3 DEF FixtureRead, At, HoldsDigest, Digesting, DigestInv, InFlight,
       TypeOK, ProcOK
  <2>3. ReportedRows' = ReportedRows /\ OneDigest'
    BY <2>1 DEF DigestInv, OneDigest, ReportedRows, Recorded
  <2>4. CASE fixtureBase = NoFile
    <3>1. Goto(p, "fixture_open")
      BY <1>3, <2>2, <2>4, DigestValues DEF FixtureRead, Unreadable
    <3>2. PICK r : Become(p, r) /\ r.pc = "fixture_open"
                     /\ r.digest = proc[p].digest
      BY <1>1, <3>1 DEF Labels
    <3>3. proc'[p] = r /\ \A q \in Procs \ {p} : proc'[q] = proc[q]
      BY <3>2, BecomeEffect
    <3>4. ~Accepted(r)
      BY <3>2 DEF Accepted, PastBaseline
    <3>5. ReportedRows = {} /\ \A q \in Procs : ~Accepted(proc[q])
      BY <2>4 DEF DigestInv, Sealed
    <3>6. \A q \in Procs : ~Accepted(proc'[q])
      BY <3>3, <3>4, <3>5
    <3>7. InFlight'
      BY <2>1, <2>2, <3>2, <3>3 DEF DigestInv, InFlight
    <3>8. QED
      BY <2>3, <3>5, <3>6, <3>7 DEF DigestInv, Sealed, RowsBound, AcceptedBound
  <2>5. CASE fixtureBase = proc[p].digest
    <3>1. fixtureBase # NoFile /\ fixtureBase \notin Unreadable
      BY <2>2, <2>5, DigestValues
    <3>2. Goto(p, "version_read")
      BY <1>3, <2>5, <3>1 DEF FixtureRead, Unreadable
    <3>3. PICK r : Become(p, r) /\ r.pc = "version_read"
                     /\ r.digest = proc[p].digest
      BY <1>1, <3>2 DEF Labels
    <3>4. proc'[p] = r /\ \A q \in Procs \ {p} : proc'[q] = proc[q]
      BY <3>3, BecomeEffect
    <3>5. InFlight'
      BY <2>1, <2>2, <3>3, <3>4 DEF DigestInv, InFlight
    <3>6. RowsBound'
      BY <2>1, <2>3, <2>5, <3>1, <3>3, <3>4 DEF DigestInv, RowsBound
    <3>7. AcceptedBound'
      BY <2>1, <2>5, <3>3, <3>4 DEF DigestInv, AcceptedBound
    <3>8. QED
      BY <2>1, <2>3, <3>1, <3>5, <3>6, <3>7 DEF DigestInv, Sealed
  <2>6. CASE fixtureBase \notin {NoFile, proc[p].digest}
    BY <1>3, <2>1, <2>6, DigestBlocked, DigestExit DEF FixtureRead,
       FixtureUnreadable, FixtureDrift
  <2>7. QED
    BY <2>4, <2>5, <2>6
<1>4. CASE FixtureOpen(p)
  <2>1. rows' = rows /\ fixture' = fixture /\ fixtureBase' = Torn
    BY <1>4 DEF FixtureOpen, store
  <2>2. PICK r : Become(p, r) /\ r.pc = "fixture_fill"
                   /\ r.digest = proc[p].digest
    BY <1>1, <1>4 DEF FixtureOpen, Labels
  <2>3. proc'[p] = r /\ \A q \in Procs \ {p} : proc'[q] = proc[q]
    BY <2>2, BecomeEffect
  <2>4. ~Accepted(r) /\ Establishing(proc[p]) /\ HoldsDigest(proc[p])
    BY <1>4, <2>2 DEF Accepted, Establishing, HoldsDigest, FixtureOpen, At,
       PastBaseline, Digesting
  <2>5. ReportedRows' = ReportedRows /\ OneDigest'
    BY <2>1 DEF DigestInv, OneDigest, ReportedRows, Recorded
  <2>6. Sealed' /\ AcceptedBound'
    BY <2>1, DigestValues DEF Sealed, AcceptedBound
  <2>7. InFlight' /\ RowsBound'
    BY <2>1, <2>2, <2>3, <2>4, <2>5, DigestValues DEF DigestInv, InFlight,
       RowsBound
  <2>8. QED
    BY <2>5, <2>6, <2>7 DEF DigestInv
<1>5. CASE FixtureFill(p)
  <2>1. rows' = rows /\ fixture' = fixture /\ fixtureBase' = proc[p].digest
    BY <1>5 DEF FixtureFill, store
  <2>2. PICK r : Become(p, r) /\ r.pc = "version_read"
                   /\ r.digest = proc[p].digest
    BY <1>1, <1>5 DEF FixtureFill, Labels
  <2>3. proc'[p] = r /\ \A q \in Procs \ {p} : proc'[q] = proc[q]
    BY <2>2, BecomeEffect
  <2>4. /\ Establishing(proc[p]) /\ HoldsDigest(proc[p])
        /\ proc[p].digest = fixture /\ proc[p].digest \in Digests
    BY <1>5 DEF FixtureFill, At, Establishing, HoldsDigest, Digesting,
       DigestInv, InFlight, TypeOK, ProcOK
  <2>5. ReportedRows' = ReportedRows /\ OneDigest'
    BY <2>1 DEF DigestInv, OneDigest, ReportedRows, Recorded
  <2>6. Sealed'
    BY <2>1, <2>4, DigestValues DEF Sealed
  <2>7. InFlight'
    BY <2>1, <2>2, <2>3, <2>4 DEF DigestInv, InFlight
  <2>8. RowsBound'
    BY <2>1, <2>2, <2>3, <2>4, <2>5 DEF DigestInv, RowsBound
  <2>9. AcceptedBound'
    BY <2>1, <2>4, <2>7 DEF InFlight, AcceptedBound, HoldsDigest
  <2>10. QED
    BY <2>5, <2>6, <2>7, <2>8, <2>9 DEF DigestInv
<1>6. CASE VersionRead(p)
  <2>1. rows' = rows /\ fixture' = fixture /\ fixtureBase' = fixtureBase
          /\ proc[p].pc \in PastBaseline
    BY <1>6 DEF VersionRead, store, baselines, At, PastBaseline
  <2>2. CASE VersionsUnreadable(p) \/ Exit(p)
    BY <2>1, <2>2, DigestBlocked, DigestExit DEF VersionsUnreadable
  <2>3. CASE Goto(p, "resolve")
    BY <2>1, <2>3, DigestGoto DEF PastBaseline
  <2>4. CASE ~VersionsUnreadable(p) /\ ~Exit(p) /\ ~Goto(p, "resolve")
    <3> DEFINE r == [proc[p] EXCEPT !.pc = "version_open",
                       !.seen = IF versionBase = NoFile THEN {} ELSE versionBase]
    <3>1. r.pc = "version_open" /\ r.digest = proc[p].digest
      BY DEF TypeOK, Proc
    <3>2. Become(p, r)
      BY <1>6, <2>4 DEF VersionRead
    <3> HIDE DEF r
    <3>3. Accepted(proc[p]) /\ HoldsDigest(proc[p]) /\ ~Establishing(r)
      BY <2>1, <3>1 DEF Accepted, HoldsDigest, Establishing
    <3>4. QED
      BY <2>1, <3>1, <3>2, <3>3, DigestMove
  <2>5. QED
    BY <2>2, <2>3, <2>4
<1>7. CASE VersionOpen(p) \/ VersionFill(p)
  BY <1>7, DigestGoto DEF VersionOpen, VersionFill, store, At, PastBaseline
<1>8. QED
  BY <1>2, <1>3, <1>4, <1>5, <1>6, <1>7 DEF BaselineStep

LEMMA DigestInsert ==
    ASSUME TypeOK, DigestInv, NEW p \in Procs, InsertRow(p)
    PROVE  DigestInv'
<1> DEFINE row == [run |-> proc[p].run, prov |-> proc[p].prov,
                   out |-> proc[p].out, digest |-> proc[p].digest]
           exp == proc[p].packet.exp
<1>1. /\ fixture' = fixture /\ fixtureBase' = fixtureBase /\ Exit(p)
      /\ rows' = IF rows[exp] = NoRow THEN [rows EXCEPT ![exp] = row] ELSE rows
      /\ proc[p].pc = "persist" /\ exp \in ExpIds
  <2>1. Claimed(p)
    BY DEF InsertRow, At, Claimed, AfterClaim
  <2>2. QED
    BY <2>1, ClaimedOK DEF InsertRow, Insert, At, baselines, Packet
<1>2. CASE rows[exp] # NoRow
  BY <1>1, <1>2, DigestExit
<1>3. CASE rows[exp] = NoRow
  <2>1. row.digest = proc[p].digest /\ row.out = proc[p].out
    OBVIOUS
  <2> HIDE DEF row
  <2>2. /\ rows'[exp] = row
        /\ \A e \in ExpIds \ {exp} : rows'[e] = rows[e]
    BY <1>1, <1>3 DEF TypeOK
  <2> HIDE DEF exp
  <2>3. \A e \in ReportedRows' :
          \/ e \in ReportedRows /\ rows'[e] = rows[e]
          \/ Accepted(proc[p]) /\ rows'[e].digest = proc[p].digest
    BY <1>1, <2>1, <2>2 DEF ReportedRows, Recorded, Accepted
  <2>4. proc'[p] = IdleProc /\ \A q \in Procs \ {p} : proc'[q] = proc[q]
    BY <1>1, BecomeEffect DEF Exit
  <2>5. ~Accepted(IdleProc) /\ ~Establishing(IdleProc) /\ ~HoldsDigest(IdleProc)
    BY DEF IdleProc, Idle, Accepted, Establishing, HoldsDigest, PastBaseline,
       Digesting
  <2>6. \A q \in Procs :
          /\ Accepted(proc'[q]) \/ Establishing(proc'[q]) \/ HoldsDigest(proc'[q])
               => proc'[q] = proc[q]
          /\ Accepted(proc[q]) \/ Establishing(proc[q])
               => proc[q].digest = fixture
    BY <2>4, <2>5 DEF DigestInv, InFlight, HoldsDigest, Establishing, Digesting
  <2>7. Sealed'
    BY <1>1, <2>3, <2>6 DEF DigestInv, Sealed
  <2>8. InFlight' /\ AcceptedBound'
    BY <1>1, <2>6 DEF DigestInv, InFlight, AcceptedBound
  <2>9. RowsBound'
    <3> SUFFICES ASSUME NEW e \in ReportedRows'
                 PROVE  /\ fixtureBase \notin Unreadable => rows'[e].digest = fixtureBase
                        /\ \A q \in Procs :
                             Accepted(proc'[q]) \/ Establishing(proc'[q])
                               => rows'[e].digest = proc'[q].digest
      BY <1>1 DEF RowsBound
    <3>1. CASE e \in ReportedRows /\ rows'[e] = rows[e]
      BY <2>6, <3>1 DEF DigestInv, RowsBound
    <3>2. CASE Accepted(proc[p]) /\ rows'[e].digest = proc[p].digest
      BY <2>6, <3>2 DEF DigestInv, AcceptedBound
    <3>3. QED
      BY <2>3, <3>1, <3>2
  <2>10. \A e, f \in ReportedRows' : rows'[e].digest = rows'[f].digest
    BY <2>3 DEF DigestInv, OneDigest, RowsBound, ReportedRows
  <2>11. OneDigest'
    BY <2>10 DEF OneDigest, ReportedRows
  <2>12. QED
    BY <2>7, <2>8, <2>9, <2>11 DEF DigestInv
<1>4. QED
  BY <1>2, <1>3

LEMMA DigestInvoke ==
    ASSUME TypeOK, DigestInv, NEW p \in Procs, InvokeStep(p)
    PROVE  DigestInv'
<1>1. CASE InsertRow(p)
  BY <1>1, DigestInsert
<1>2. CASE Resolve(p)
  BY <1>2, DigestGoto, DigestExit DEF Resolve, store, baselines, At, PastBaseline
<1>3. CASE Invoke(p)
  BY <1>3, DigestGoto DEF Invoke, baselines, At, PastBaseline
<1>4. CASE InvokeStopped(p)
  BY <1>4, DigestPersist DEF InvokeStopped, baselines, At, PastBaseline
<1>5. CASE InvokeRaises(p)
  BY <1>5, DigestExit DEF InvokeRaises, store, baselines
<1>6. ASSUME NEW u \in Usages, NEW s \in ResultStatuses, InvokeReturns(p, u, s)
      PROVE  DigestInv'
  <2>1. /\ rows' = rows /\ fixture' = fixture /\ fixtureBase' = fixtureBase
        /\ proc[p].pc \in PastBaseline /\ \E out : Persist(p, out)
    BY <1>6 DEF InvokeReturns, baselines, At, PastBaseline
  <2>2. QED
    BY <2>1, DigestPersist
<1>7. QED
  BY <1>1, <1>2, <1>3, <1>4, <1>5, <1>6 DEF InvokeStep

(* Up to the claim nothing is compared.                                     *)
LEMMA DigestClaim ==
    ASSUME TypeOK, DigestInv, NEW p \in Procs,
           PlanStart(p) \/ Start(p) \/ PlanStep(p) \/ ClaimStep(p)
    PROVE  DigestInv'
<1>1. rows' = rows /\ fixture' = fixture /\ fixtureBase' = fixtureBase
  BY DEF PlanStart, Start, PlanStep, PlanMint, PlanOpen, PlanFill, ClaimStep,
     CheckCanInvoke, Peek, DequeueRead, DequeueUnlink, store, baselines
<1>2. \/ Exit(p)
      \/ \E label \in Quiet : Goto(p, label)
      \/ \E r : Become(p, r) /\ r.pc \in Quiet
  <2>1. {"plan_mint", "plan_open", "plan_fill", "check", "peek", "read",
         "unlink", "digest"} \subseteq Quiet
    BY DEF Quiet, Labels, PastBaseline, Digesting
  <2>2. ASSUME NEW k
        PROVE  [proc[p] EXCEPT !.pc = "plan_open", !.packet = k].pc = "plan_open"
    BY DEF TypeOK, Proc
  <2>3. CASE PlanStart(p)
    <3>1. PICK v \in Providers :
            Become(p, [IdleProc EXCEPT !.pc = "plan_mint", !.run = latest,
                                       !.prov = v])
      BY <2>3 DEF PlanStart
    <3>2. [IdleProc EXCEPT !.pc = "plan_mint", !.run = latest,
                           !.prov = v].pc = "plan_mint"
      BY DEF IdleProc
    <3>3. QED
      BY <2>1, <3>1, <3>2
  <2>4. CASE Start(p)
    <3>1. PICK v \in Providers :
            Become(p, [IdleProc EXCEPT !.pc = "check", !.run = latest,
                                       !.prov = v, !.seeded = RowsOf(latest)])
      BY <2>4 DEF Start
    <3>2. [IdleProc EXCEPT !.pc = "check", !.run = latest,
                           !.prov = v, !.seeded = RowsOf(latest)].pc = "check"
      BY DEF IdleProc
    <3>3. QED
      BY <2>1, <3>1, <3>2
  <2>5. CASE PlanMint(p)
    BY <2>1, <2>2, <2>5 DEF PlanMint
  <2>6. CASE DequeueRead(p) \/ PlanOpen(p)
    BY <2>1, <2>6, Reads, Opens
  <2>7. CASE PlanFill(p) \/ CheckCanInvoke(p) \/ Peek(p) \/ DequeueUnlink(p)
    BY <2>1, <2>7 DEF PlanFill, CheckCanInvoke, Peek, DequeueUnlink
  <2>8. QED
    BY <2>3, <2>4, <2>5, <2>6, <2>7 DEF PlanStep, ClaimStep
<1>3. ASSUME NEW r, Become(p, r), r.pc \in Quiet PROVE DigestInv'
  <2>1. ~Accepted(r) /\ ~Establishing(r) /\ ~HoldsDigest(r)
    BY <1>3 DEF Accepted, Establishing, HoldsDigest, Quiet, Digesting
  <2>2. QED
    BY <1>1, <1>3, <2>1, DigestMove
<1>4. QED
  BY <1>1, <1>2, <1>3, DigestExit, DigestGoto

LEMMA DigestEnvironment ==
    ASSUME TypeOK, DigestInv, "midrun" \notin Faults, Environment
    PROVE  DigestInv'
<1>1. rows' = rows /\ proc' = proc
  BY DEF Environment, InitFixture, Kill, Unkill, EditFixture, CorruptBaseline,
     store
<1>2. ReportedRows' = ReportedRows /\ OneDigest'
  BY <1>1 DEF DigestInv, OneDigest, ReportedRows, Recorded
<1>3. ASSUME fixture' = fixture,
             fixtureBase' = fixtureBase \/ fixtureBase' \in Unreadable
      PROVE  DigestInv'
  BY <1>1, <1>2, <1>3, DigestValues DEF DigestInv, Sealed, InFlight, RowsBound,
     AcceptedBound
<1>4. CASE InitFixture \/ Kill \/ Unkill \/ CorruptBaseline
  BY <1>3, <1>4 DEF InitFixture, Kill, Unkill, CorruptBaseline, Spoilt, Unreadable,
     baselines
<1>5. CASE EditFixture
  <2>1. fixtureBase' = fixtureBase /\ \A q \in Procs : At(q, Idle)
    BY <1>5 DEF EditFixture, baselines
  <2>2. \A q \in Procs : ~HoldsDigest(proc[q])
    BY <2>1 DEF At, Idle, HoldsDigest, Accepted, PastBaseline, Digesting
  <2>3. QED
    BY <1>1, <1>2, <2>1, <2>2 DEF DigestInv, Sealed, InFlight, RowsBound,
       AcceptedBound
<1>6. QED
  BY <1>4, <1>5 DEF Environment

LEMMA DigestNext ==
    ASSUME "midrun" \notin Faults
    PROVE  TypeOK /\ DigestInv /\ [Next]_vars => DigestInv'
<1> SUFFICES ASSUME TypeOK, DigestInv, [Next]_vars PROVE DigestInv'
  OBVIOUS
<1>1. CASE Environment
  BY <1>1, DigestEnvironment
<1>2. ASSUME NEW p \in Procs, PlanStart(p) \/ Start(p) \/ Step(p) \/ Crash(p)
      PROVE  DigestInv'
  <2>1. CASE PlanStart(p) \/ Start(p) \/ PlanStep(p) \/ ClaimStep(p)
    BY <2>1, DigestClaim
  <2>2. CASE BaselineStep(p)
    BY <2>2, DigestBaseline
  <2>3. CASE InvokeStep(p)
    BY <2>3, DigestInvoke
  <2>4. CASE Crash(p)
    BY <2>4, DigestExit DEF Crash, store, baselines
  <2>5. QED
    BY <1>2, <2>1, <2>2, <2>3, <2>4 DEF Step
<1>3. CASE UNCHANGED vars
  BY <1>3 DEF vars, baselines, DigestInv, Sealed, InFlight, RowsBound,
     AcceptedBound, OneDigest, ReportedRows, Recorded
<1>4. QED
  BY <1>1, <1>2, <1>3 DEF Next

(* Unless the fixture is edited under a running command, all rows that a    *)
(* provider produced were produced on one digest of it, with any number of  *)
(* commands that race for the baseline file, die while they write it or     *)
(* find it corrupted (record_fixture_hash in                                *)
(* arena/observability/version_baseline.py, run_next in arena/cli.py).      *)
THEOREM OneDigestHolds ==
    ASSUME "midrun" \notin Faults
    PROVE  Spec => []OneDigest
<1>1. Init => TypeOK /\ DigestInv
  BY TypeInit, DigestInit
<1>2. TypeOK /\ DigestInv /\ [Next]_vars => (TypeOK /\ DigestInv)'
  BY TypeNext, DigestNext
<1>3. TypeOK /\ DigestInv => OneDigest
  BY DEF DigestInv
<1>4. QED
  BY <1>1, <1>2, <1>3, PTL DEF Spec

-----------------------------------------------------------------------------
(* One process that nothing disturbs.  An id that plan minted is still free *)
(* when the row is written, although it is reserved nowhere: nobody else    *)
(* writes rows, and a packet that an older run has kept is never taken.     *)
Holding == {"plan_open", "plan_fill", "unlink"} \cup AfterClaim

(* Run l is the newest, q the queues and t the table: the newest run holds  *)
(* no packet with an id that is taken, and there are no queues beyond it.   *)
FilesFresh(l, q, t) ==
    /\ \A r \in RunIds : r > l => q[r] = NoFile
    /\ l \in RunIds /\ q[l] \in Packet => t[q[l].exp] = NoRow

(* The same for the run of process x, with the packet it holds; a run that  *)
(* is newer than it has no packet, as has its own once it claimed it.       *)
OwnFresh(x, l, q, t) ==
    x.pc # Idle =>
        /\ x.run <= l
        /\ \A r \in RunIds : r > x.run => q[r] = NoFile
        /\ x.pc \in AfterClaim => q[x.run] = NoFile
        /\ q[x.run] \in Packet => t[q[x.run].exp] = NoRow
        /\ x.pc \in Holding => t[x.packet.exp] = NoRow
        /\ x.pc \in PastBaseline => x.digest \in Digests

SoloInv == /\ FilesFresh(latest, queue, rows)
           /\ \A p \in Procs : OwnFresh(proc[p], latest, queue, rows)

LEMMA Solo ==
    ASSUME ~Lossy
    PROVE  /\ \A p, q \in Procs : p = q
           /\ Faults \cap {"crash", "unavailable", "midrun", "foreign"} = {}
<1>1. Cardinality(Procs) = 1
  BY ProcsFinite DEF Lossy, Racy
<1>2. PICK x : Procs = {x}
  BY <1>1, ProcsFinite, FS_Singleton
<1>3. QED
  BY <1>2 DEF Lossy

LEMMA SoloInit == Init => SoloInv
  BY SentinelAssumption, Bounds DEF Init, SoloInv, FilesFresh, OwnFresh, IdleProc,
     SentinelAssumption, RunIds

LEMMA SoloBecome ==
    ASSUME TypeOK, ~Lossy, NEW p \in Procs, NEW x, Become(p, x),
           FilesFresh(latest', queue', rows'),
           OwnFresh(x, latest', queue', rows')
    PROVE  SoloInv'
<1>1. proc'[p] = x /\ \A q \in Procs : q = p
  BY BecomeEffect, Solo
<1>2. QED
  BY <1>1 DEF SoloInv

LEMMA SoloExit ==
    ASSUME TypeOK, ~Lossy, NEW p \in Procs, Exit(p),
           FilesFresh(latest', queue', rows')
    PROVE  SoloInv'
  BY SoloBecome DEF Exit, OwnFresh, IdleProc

(* A step that touches no file, to a label that asks for no more.           *)
LEMMA SoloGoto ==
    ASSUME TypeOK, SoloInv, ~Lossy, NEW p \in Procs, ~At(p, Idle),
           NEW label, Goto(p, label), UNCHANGED <<latest, queue, rows>>,
           label \in AfterClaim => Claimed(p),
           label \in Holding => proc[p].pc \in Holding,
           label \in PastBaseline => proc[p].digest \in Digests
    PROVE  SoloInv'
<1> DEFINE x == [proc[p] EXCEPT !.pc = label]
<1>1. x.pc = label /\ x.run = proc[p].run /\ x.packet = proc[p].packet
        /\ x.digest = proc[p].digest
  BY DEF TypeOK, Proc
<1>2. Become(p, x)
  BY DEF Goto
<1> HIDE DEF x
<1>3. OwnFresh(proc[p], latest, queue, rows) /\ FilesFresh(latest, queue, rows)
  BY DEF SoloInv
<1>4. OwnFresh(x, latest, queue, rows)
  BY <1>1, <1>3 DEF OwnFresh, At, Claimed
<1>5. QED
  BY <1>2, <1>3, <1>4, SoloBecome

LEMMA SoloPersist ==
    ASSUME TypeOK, SoloInv, ~Lossy, NEW p \in Procs, Claimed(p),
           NEW out, Persist(p, out), UNCHANGED <<latest, queue, rows>>
    PROVE  SoloInv'
<1> DEFINE x == [proc[p] EXCEPT !.pc = "persist", !.out = out]
<1>1. x.pc = "persist" /\ x.run = proc[p].run /\ x.packet = proc[p].packet
  BY DEF TypeOK, Proc
<1>2. Become(p, x)
  BY DEF Persist
<1> HIDE DEF x
<1>3. OwnFresh(proc[p], latest, queue, rows) /\ FilesFresh(latest, queue, rows)
  BY DEF SoloInv
<1>4. OwnFresh(x, latest, queue, rows)
  BY <1>1, <1>3 DEF OwnFresh, Claimed, AfterClaim, Holding, PastBaseline, Idle
<1>5. QED
  BY <1>2, <1>3, <1>4, SoloBecome

LEMMA SoloPlan ==
    ASSUME TypeOK, SoloInv, ~Lossy, NEW p \in Procs,
           PlanStart(p) \/ Start(p) \/ PlanStep(p)
    PROVE  SoloInv'
<1>1. FilesFresh(latest, queue, rows) /\ OwnFresh(proc[p], latest, queue, rows)
  BY DEF SoloInv
<1>2. CASE PlanStart(p)
  <2>1. PICK v \in Providers :
          Become(p, [IdleProc EXCEPT !.pc = "plan_mint", !.run = latest,
                                     !.prov = v])
    BY <1>2 DEF PlanStart
  <2> DEFINE x == [IdleProc EXCEPT !.pc = "plan_mint", !.run = latest, !.prov = v]
  <2>2. x.pc = "plan_mint" /\ x.run = latest
    BY DEF IdleProc
  <2>3. /\ latest \in RunIds /\ latest \in Nat /\ RunIds \subseteq Nat
        /\ UNCHANGED <<latest, queue, rows>> /\ queue[latest] \notin Packet
    <3>1. latest > 0 /\ queue[latest] = NoFile /\ UNCHANGED store
      BY <1>2 DEF PlanStart
    <3>2. latest \in RunIds /\ latest \in Nat /\ RunIds \subseteq Nat
      BY <3>1, Bounds DEF TypeOK, RunIds
    <3>3. QED
      BY <3>1, <3>2, QueueValues DEF store
  <2> HIDE DEF x
  <2>4. OwnFresh(x, latest, queue, rows)
    BY <1>1, <2>2, <2>3 DEF OwnFresh, FilesFresh, AfterClaim, Holding,
       PastBaseline
  <2>5. QED
    BY <1>1, <2>1, <2>3, <2>4, SoloBecome DEF x
<1>3. CASE Start(p)
  <2>1. PICK v \in Providers :
          Become(p, [IdleProc EXCEPT !.pc = "check", !.run = latest,
                                     !.prov = v, !.seeded = RowsOf(latest)])
    BY <1>3 DEF Start
  <2> DEFINE x == [IdleProc EXCEPT !.pc = "check", !.run = latest,
                                   !.prov = v, !.seeded = RowsOf(latest)]
  <2>2. x.pc = "check" /\ x.run = latest
    BY DEF IdleProc
  <2>3. /\ latest \in RunIds /\ latest \in Nat /\ RunIds \subseteq Nat
        /\ UNCHANGED <<latest, queue, rows>>
    <3>1. latest > 0 /\ UNCHANGED store
      BY <1>3 DEF Start
    <3>2. latest \in RunIds /\ latest \in Nat /\ RunIds \subseteq Nat
      BY <3>1, Bounds DEF TypeOK, RunIds
    <3>3. QED
      BY <3>1, <3>2 DEF store
  <2> HIDE DEF x
  <2>4. OwnFresh(x, latest, queue, rows)
    <3>1. /\ \A r \in RunIds : r > latest => queue[r] = NoFile
          /\ queue[latest] \in Packet => rows[queue[latest].exp] = NoRow
      BY <1>1, <2>3 DEF FilesFresh
    <3>2. x.pc \notin AfterClaim \cup Holding \cup PastBaseline
      BY <2>2 DEF AfterClaim, Holding, PastBaseline
    <3>3. QED
      BY <2>2, <2>3, <3>1, <3>2 DEF OwnFresh
  <2>5. QED
    BY <1>1, <2>1, <2>3, <2>4, SoloBecome DEF x
<1>4. CASE PlanMint(p)
  <2>1. PICK e \in ExpIds :
          /\ e = NextExpId
          /\ Become(p, [proc[p] EXCEPT !.pc = "plan_open",
                          !.packet = [exp |-> e, prov |-> proc[p].prov]])
    BY <1>4 DEF PlanMint
  <2> DEFINE x == [proc[p] EXCEPT !.pc = "plan_open",
                     !.packet = [exp |-> e, prov |-> proc[p].prov]]
  <2>2. x.pc = "plan_open" /\ x.run = proc[p].run /\ x.packet.exp = e
    BY DEF TypeOK, Proc
  <2>3. rows[e] = NoRow
    <3>1. Recorded \subseteq 1 .. MaxExp
      BY DEF Recorded, ExpIds
    <3>2. \A y \in Recorded : y < NextExpId
      BY <3>1, NextIsFresh, Bounds DEF NextExpId
    <3>3. e \notin Recorded
      BY <2>1, <3>2, Bounds DEF ExpIds
    <3>4. QED
      BY <3>3 DEF Recorded
  <2>4. UNCHANGED <<latest, queue, rows>>
    BY <1>4 DEF PlanMint, store
  <2> HIDE DEF x
  <2>5. OwnFresh(x, latest, queue, rows)
    BY <1>1, <1>4, <2>2, <2>3 DEF PlanMint, At, OwnFresh, AfterClaim, PastBaseline,
       Idle
  <2>6. QED
    BY <1>1, <2>1, <2>4, <2>5, SoloBecome DEF x
<1>5. CASE PlanOpen(p)
  <2>1. PICK x : /\ Become(p, x) /\ x.pc = "plan_fill"
                 /\ x.run = proc[p].run /\ x.packet = proc[p].packet
    BY <1>5, Opens
  <2>2. /\ UNCHANGED <<latest, rows>>
        /\ proc[p].pc = "plan_open" /\ proc[p].run \in RunIds
        /\ queue' = [queue EXCEPT ![proc[p].run] = Torn]
    BY <1>5 DEF PlanOpen, At, TypeOK, ProcOK, Idle
  <2>3. /\ queue'[proc[p].run] = Torn
        /\ \A r \in RunIds \ {proc[p].run} : queue'[r] = queue[r]
    BY <2>2 DEF TypeOK
  <2>4. proc[p].run <= latest /\ latest \in Nat /\ RunIds \subseteq Nat
    BY <1>1, <2>2, Bounds DEF OwnFresh, Idle, TypeOK, RunIds
  <2>5. FilesFresh(latest', queue', rows')
    BY <1>1, <2>2, <2>3, <2>4, QueueValues DEF FilesFresh
  <2>6. OwnFresh(x, latest', queue', rows')
    BY <1>1, <2>1, <2>2, <2>3, <2>4, QueueValues DEF OwnFresh, AfterClaim,
       PastBaseline, Idle, Holding
  <2>7. QED
    BY <2>1, <2>5, <2>6, SoloBecome
<1>6. CASE PlanFill(p)
  <2>1. /\ Exit(p) /\ UNCHANGED <<latest, rows>>
        /\ proc[p].pc = "plan_fill" /\ proc[p].run \in RunIds
    BY <1>6 DEF PlanFill, At, TypeOK, ProcOK, Idle
  <2>2. /\ queue'[proc[p].run] \in {queue[proc[p].run], proc[p].packet}
        /\ \A r \in RunIds \ {proc[p].run} : queue'[r] = queue[r]
        /\ queue[proc[p].run] = NoFile => queue' = queue
    BY <1>6, <2>1 DEF PlanFill, TypeOK
  <2>3. /\ proc[p].run <= latest /\ latest \in Nat /\ RunIds \subseteq Nat
        /\ rows[proc[p].packet.exp] = NoRow
    BY <1>1, <2>1, Bounds DEF OwnFresh, Idle, TypeOK, RunIds, Holding
  <2>4. FilesFresh(latest', queue', rows')
    BY <1>1, <2>1, <2>2, <2>3, QueueValues DEF FilesFresh
  <2>5. QED
    BY <2>1, <2>4, SoloExit
<1>7. QED
  BY <1>2, <1>3, <1>4, <1>5, <1>6 DEF PlanStep

LEMMA SoloClaim ==
    ASSUME TypeOK, SoloInv, ~Lossy, NEW p \in Procs, ClaimStep(p)
    PROVE  SoloInv'
<1>1. FilesFresh(latest, queue, rows) /\ OwnFresh(proc[p], latest, queue, rows)
  BY DEF SoloInv
<1>2. ~At(p, Idle)
  BY DEF ClaimStep, CheckCanInvoke, Peek, DequeueRead, DequeueUnlink, At, Idle
<1>3. CASE CheckCanInvoke(p) \/ Peek(p)
  BY <1>1, <1>2, <1>3, SoloGoto, SoloExit DEF CheckCanInvoke, Peek, store,
     AfterClaim, Holding, PastBaseline
<1>4. CASE DequeueRead(p)
  <2>1. UNCHANGED <<latest, queue, rows>> /\ proc[p].pc = "read"
    BY <1>4 DEF DequeueRead, store, At
  <2>2. CASE Exit(p)
    BY <1>1, <2>1, <2>2, SoloExit
  <2>3. CASE ~Exit(p)
    <3>1. PICK x : /\ queue[proc[p].run] \in Packet
                   /\ Become(p, x) /\ x.pc = "unlink" /\ x.run = proc[p].run
                   /\ x.packet = queue[proc[p].run]
      BY <1>4, <2>3, Reads
    <3>2. OwnFresh(x, latest, queue, rows)
      BY <1>1, <2>1, <3>1 DEF OwnFresh, AfterClaim, PastBaseline, Idle
    <3>3. QED
      BY <1>1, <2>1, <3>1, <3>2, SoloBecome
  <2>4. QED
    BY <2>2, <2>3
<1>5. CASE DequeueUnlink(p)
  <2>1. UNCHANGED <<latest, rows>> /\ proc[p].pc = "unlink"
          /\ proc[p].run \in RunIds
    BY <1>5 DEF DequeueUnlink, At, TypeOK, ProcOK, Idle
  <2>2. CASE queue[proc[p].run] = NoFile
    BY <1>1, <1>5, <2>1, <2>2, SoloExit DEF DequeueUnlink
  <2>3. CASE queue[proc[p].run] # NoFile
    <3> DEFINE x == [proc[p] EXCEPT !.pc = "digest"]
    <3>1. x.pc = "digest" /\ x.run = proc[p].run /\ x.packet = proc[p].packet
      BY DEF TypeOK, Proc
    <3>2. Become(p, x) /\ queue' = [queue EXCEPT ![proc[p].run] = NoFile]
      BY <1>5, <2>3 DEF DequeueUnlink, Goto
    <3> HIDE DEF x
    <3>3. /\ queue'[proc[p].run] = NoFile
          /\ \A r \in RunIds \ {proc[p].run} : queue'[r] = queue[r]
      BY <2>1, <3>2 DEF TypeOK
    <3>4. FilesFresh(latest', queue', rows')
      BY <1>1, <2>1, <3>3, QueueValues DEF FilesFresh
    <3>5. OwnFresh(x, latest', queue', rows')
      BY <1>1, <2>1, <3>1, <3>3, QueueValues DEF OwnFresh, PastBaseline, Idle,
         Holding
    <3>6. QED
      BY <3>2, <3>4, <3>5, SoloBecome
  <2>4. QED
    BY <2>2, <2>3
<1>6. QED
  BY <1>3, <1>4, <1>5 DEF ClaimStep

LEMMA SoloBlocked ==
    ASSUME TypeOK, SoloInv, ~Lossy, NEW p \in Procs, Claimed(p),
           BlockReproducibility(p), UNCHANGED <<latest, queue, rows>>
    PROVE  SoloInv'
  BY SoloPersist DEF BlockReproducibility

LEMMA SoloBaseline ==
    ASSUME TypeOK, SoloInv, ~Lossy, NEW p \in Procs, BaselineStep(p)
    PROVE  SoloInv'
<1>1. FilesFresh(latest, queue, rows) /\ OwnFresh(proc[p], latest, queue, rows)
  BY DEF SoloInv
<1>2. /\ Claimed(p) /\ ~At(p, Idle) /\ proc[p].pc \in Holding
      /\ UNCHANGED <<latest, queue, rows>>
      /\ proc[p].pc \in Digesting => proc[p].digest \in Digests
  BY DEF BaselineStep, FixtureDigest, FixtureRead, FixtureOpen, FixtureFill,
     VersionRead, VersionOpen, VersionFill, At, Claimed, AfterClaim, Idle,
     Holding, store, TypeOK, ProcOK
<1>3. CASE FixtureDigest(p)
  <2>1. CASE fixture \in {Missing, Foreign}
    BY <1>1, <1>2, <1>3, <2>1, SoloBlocked, SoloExit DEF FixtureDigest, NoManifest
  <2>2. CASE fixture \notin {Missing, Foreign}
    <3> DEFINE x == [proc[p] EXCEPT !.pc = "fixture_read", !.digest = fixture]
    <3>1. x.pc = "fixture_read" /\ x.run = proc[p].run /\ x.packet = proc[p].packet
      BY DEF TypeOK, Proc
    <3>2. Become(p, x)
      BY <1>3, <2>2 DEF FixtureDigest
    <3> HIDE DEF x
    <3>3. OwnFresh(x, latest, queue, rows)
      BY <1>1, <1>2, <3>1 DEF OwnFresh, PastBaseline, At, Claimed
    <3>4. QED
      BY <1>1, <1>2, <3>2, <3>3, SoloBecome
  <2>3. QED
    BY <2>1, <2>2
<1>4. CASE FixtureRead(p)
  <2>1. \/ BlockReproducibility(p) \/ Exit(p)
        \/ \E label \in {"fixture_open", "version_read"} : Goto(p, label)
    BY <1>4 DEF FixtureRead, FixtureUnreadable, FixtureDrift
  <2>2. proc[p].digest \in Digests
    BY <1>2, <1>4 DEF FixtureRead, At, Digesting
  <2>3. QED
    BY <1>1, <1>2, <2>1, <2>2, SoloBlocked, SoloGoto, SoloExit
<1>5. CASE FixtureOpen(p) \/ FixtureFill(p)
  <2>1. proc[p].digest \in Digests
    BY <1>2, <1>5 DEF FixtureOpen, FixtureFill, At, Digesting
  <2>2. QED
    BY <1>2, <1>5, <2>1, SoloGoto DEF FixtureOpen, FixtureFill
<1>6. CASE VersionRead(p)
  <2>1. proc[p].digest \in Digests
    BY <1>1, <1>2, <1>6 DEF VersionRead, At, PastBaseline, OwnFresh
  <2>2. CASE BlockReproducibility(p) \/ Exit(p) \/ Goto(p, "resolve")
    BY <1>1, <1>2, <2>1, <2>2, SoloBlocked, SoloGoto, SoloExit
  <2>3. CASE ~(BlockReproducibility(p) \/ Exit(p) \/ Goto(p, "resolve"))
    <3> DEFINE x == [proc[p] EXCEPT !.pc = "version_open",
                       !.seen = IF versionBase = NoFile THEN {} ELSE versionBase]
    <3>1. x.pc = "version_open" /\ x.run = proc[p].run /\ x.packet = proc[p].packet
            /\ x.digest = proc[p].digest
      BY DEF TypeOK, Proc
    <3>2. Become(p, x)
      BY <1>6, <2>3 DEF VersionRead, VersionsUnreadable
    <3> HIDE DEF x
    <3>3. OwnFresh(x, latest, queue, rows)
      BY <1>1, <1>2, <2>1, <3>1 DEF OwnFresh, At, Claimed
    <3>4. QED
      BY <1>1, <1>2, <3>2, <3>3, SoloBecome
  <2>4. QED
    BY <2>2, <2>3
<1>7. CASE VersionOpen(p) \/ VersionFill(p)
  <2>1. proc[p].digest \in Digests
    BY <1>1, <1>2, <1>7 DEF VersionOpen, VersionFill, At, PastBaseline, OwnFresh
  <2>2. QED
    BY <1>2, <1>7, <2>1, SoloGoto DEF VersionOpen, VersionFill
<1>8. QED
  BY <1>3, <1>4, <1>5, <1>6, <1>7 DEF BaselineStep

LEMMA SoloInvoke ==
    ASSUME TypeOK, SoloInv, ~Lossy, NEW p \in Procs, InvokeStep(p)
    PROVE  SoloInv'
<1>1. FilesFresh(latest, queue, rows) /\ OwnFresh(proc[p], latest, queue, rows)
  BY DEF SoloInv
<1>2. /\ Claimed(p) /\ ~At(p, Idle) /\ proc[p].pc \in Holding
      /\ UNCHANGED <<latest, queue>>
      /\ proc[p].run \in RunIds
  BY DEF InvokeStep, Resolve, Invoke, InvokeReturns, InvokeStopped, InvokeRaises,
     InsertRow, At, Claimed, AfterClaim, Idle, Holding, store, TypeOK, ProcOK
<1>3. CASE Resolve(p) \/ Invoke(p)
  <2>1. proc[p].digest \in Digests /\ UNCHANGED rows
    BY <1>1, <1>3 DEF Resolve, Invoke, At, PastBaseline, OwnFresh, Idle, store
  <2>2. Exit(p) \/ \E label \in {"invoke", "invoking"} : Goto(p, label)
    BY <1>3 DEF Resolve, Invoke
  <2>3. QED
    BY <1>1, <1>2, <2>1, <2>2, SoloGoto, SoloExit
<1>4. CASE InvokeStopped(p)
  BY <1>2, <1>4, SoloPersist DEF InvokeStopped
<1>5. CASE InvokeRaises(p)
  BY <1>1, <1>2, <1>5, SoloExit DEF InvokeRaises, store
<1>6. ASSUME NEW u \in Usages, NEW s \in ResultStatuses, InvokeReturns(p, u, s)
      PROVE  SoloInv'
  <2>1. rows' = rows /\ \E out : Persist(p, out)
    BY <1>6 DEF InvokeReturns
  <2>2. QED
    BY <1>2, <2>1, SoloPersist
<1>7. CASE InsertRow(p)
  <2>1. /\ \A r \in RunIds : r > proc[p].run => queue[r] = NoFile
        /\ queue[proc[p].run] = NoFile /\ proc[p].run <= latest
        /\ latest \in Nat /\ RunIds \subseteq Nat
    BY <1>1, <1>2, Bounds DEF OwnFresh, Claimed, At, TypeOK, RunIds
  <2>2. latest \in RunIds => queue[latest] = NoFile
    <3>1. proc[p].run \in Nat /\ latest \in Nat /\ proc[p].run <= latest
      BY <1>2, <2>1
    <3>2. latest = proc[p].run \/ latest > proc[p].run
      BY <3>1
    <3>3. QED
      BY <2>1, <3>2
  <2>3. FilesFresh(latest', queue', rows')
    BY <1>1, <1>2, <2>2, QueueValues DEF FilesFresh
  <2>4. QED
    BY <1>7, <2>3, SoloExit DEF InsertRow
<1>8. QED
  BY <1>3, <1>4, <1>5, <1>6, <1>7 DEF InvokeStep

LEMMA SoloNext ==
    ASSUME ~Lossy
    PROVE  TypeOK /\ SoloInv /\ [Next]_vars => SoloInv'
<1> SUFFICES ASSUME TypeOK, SoloInv, [Next]_vars PROVE SoloInv'
  OBVIOUS
<1>1. ASSUME UNCHANGED <<latest, queue, rows, proc>> PROVE SoloInv'
  BY <1>1 DEF SoloInv
<1>2. CASE InitFixture
  <2>1. /\ UNCHANGED <<queue, rows, proc>> /\ latest' = latest + 1
        /\ latest \in Nat /\ RunIds \subseteq Nat
    BY <1>2, Bounds DEF InitFixture, TypeOK, RunIds
  <2>2. FilesFresh(latest', queue', rows')
    <3>1. \A r \in RunIds : r > latest => queue[r] = NoFile
      BY DEF SoloInv, FilesFresh
    <3>2. \A r \in RunIds : r >= latest' => queue[r] = NoFile
      BY <2>1, <3>1
    <3>3. \A r \in RunIds : r > latest' => r >= latest'
      BY <2>1
    <3>4. latest' \in RunIds => latest' >= latest'
      BY <2>1
    <3>5. QED
      BY <2>1, <3>2, <3>3, <3>4, QueueValues DEF FilesFresh
  <2>3. ASSUME NEW p \in Procs
        PROVE  OwnFresh(proc[p], latest', queue', rows')
    <3>1. OwnFresh(proc[p], latest, queue, rows)
      BY DEF SoloInv
    <3>2. proc[p].pc # Idle => proc[p].run \in Nat
      BY <2>1 DEF TypeOK, ProcOK
    <3>3. proc[p].pc # Idle => proc[p].run <= latest'
      BY <2>1, <3>1, <3>2 DEF OwnFresh
    <3>4. QED
      BY <2>1, <3>1, <3>3 DEF OwnFresh
  <2>4. QED
    BY <2>1, <2>2, <2>3 DEF SoloInv
<1>3. CASE Kill \/ Unkill \/ EditFixture \/ CorruptBaseline
  BY <1>1, <1>3 DEF Kill, Unkill, EditFixture, CorruptBaseline, store
<1>4. ASSUME NEW p \in Procs, PlanStart(p) \/ Start(p) \/ Step(p) \/ Crash(p)
      PROVE  SoloInv'
  <2>1. CASE PlanStart(p) \/ Start(p) \/ PlanStep(p)
    BY <2>1, SoloPlan
  <2>2. CASE ClaimStep(p)
    BY <2>2, SoloClaim
  <2>3. CASE BaselineStep(p)
    BY <2>3, SoloBaseline
  <2>4. CASE InvokeStep(p)
    BY <2>4, SoloInvoke
  <2>5. CASE Crash(p)
    BY <2>5, Solo DEF Crash
  <2>6. QED
    BY <1>4, <2>1, <2>2, <2>3, <2>4, <2>5 DEF Step
<1>5. CASE UNCHANGED vars
  BY <1>1, <1>5 DEF vars
<1>6. QED
  BY <1>2, <1>3, <1>4, <1>5 DEF Next, Environment

-----------------------------------------------------------------------------
(* The steps of a command: where it is afterwards, with what packet and     *)
(* file in hand.                                                            *)
LEMMA Arrives ==
    ASSUME TypeOK, NEW p \in Procs
    PROVE  /\ Exit(p) => proc'[p] = IdleProc
           /\ \A label : Goto(p, label) =>
                /\ proc'[p].pc = label /\ proc'[p].packet = proc[p].packet
                /\ proc'[p].file = proc[p].file
           /\ \A out : Persist(p, out) =>
                /\ proc'[p].pc = "persist" /\ proc'[p].packet = proc[p].packet
                /\ proc'[p].file = proc[p].file
           /\ BlockReproducibility(p) =>
                /\ proc'[p].pc = "persist" /\ proc'[p].packet = proc[p].packet
                /\ proc'[p].file = proc[p].file
<1>1. \A x : Become(p, x) => proc'[p] = x
  BY BecomeEffect
<1>2. ASSUME NEW label, Goto(p, label)
      PROVE  /\ proc'[p].pc = label /\ proc'[p].packet = proc[p].packet
             /\ proc'[p].file = proc[p].file
  <2>1. proc'[p] = [proc[p] EXCEPT !.pc = label]
    BY <1>1, <1>2 DEF Goto
  <2>2. QED
    BY <2>1 DEF TypeOK, Proc
<1>3. ASSUME NEW out, Persist(p, out)
      PROVE  /\ proc'[p].pc = "persist" /\ proc'[p].packet = proc[p].packet
             /\ proc'[p].file = proc[p].file
  <2>1. proc'[p] = [proc[p] EXCEPT !.pc = "persist", !.out = out]
    BY <1>1, <1>3 DEF Persist
  <2>2. QED
    BY <2>1 DEF TypeOK, Proc
<1>4. QED
  BY <1>1, <1>2, <1>3 DEF Exit, BlockReproducibility

(* Up to the claim.                                                         *)
LEMMA AfterClaiming ==
    ASSUME TypeOK, NEW p \in Procs, ClaimStep(p)
    PROVE  \/ proc[p].pc = "check" /\ proc'[p].pc \in {Idle, "peek"}
           \/ proc[p].pc = "peek" /\ proc'[p].pc \in {Idle, "read"}
           \/ proc[p].pc = "read" /\ proc'[p].pc \in {Idle, "unlink"}
           \/ /\ DequeueUnlink(p)
              /\ proc[p].pc = "unlink" /\ proc'[p].pc \in {Idle, "digest"}
<1>1. CASE CheckCanInvoke(p)
  BY <1>1, Arrives DEF CheckCanInvoke, At, IdleProc
<1>2. CASE Peek(p)
  BY <1>2, Arrives DEF Peek, At, IdleProc
<1>3. CASE DequeueRead(p)
  <2>1. proc[p].pc = "read"
    BY <1>3 DEF DequeueRead, At
  <2>2. Exit(p) \/ \E x : Become(p, x) /\ x.pc = "unlink"
    BY <1>3, Reads
  <2>3. QED
    BY <2>1, <2>2, Arrives, BecomeEffect DEF IdleProc
<1>4. CASE DequeueUnlink(p)
  BY <1>4, Arrives DEF DequeueUnlink, At, IdleProc
<1>5. QED
  BY <1>1, <1>2, <1>3, <1>4 DEF ClaimStep

(* The reproducibility checks, which a foreign file ends.                   *)
LEMMA AfterBaseline ==
    ASSUME TypeOK, NEW p \in Procs, BaselineStep(p)
    PROVE  \/ /\ Exit(p) /\ Foreign \in {fixture, fixtureBase, versionBase}
              /\ proc[p].pc \in {"digest", "fixture_read", "version_read"}
           \/ /\ proc'[p].packet = proc[p].packet /\ proc'[p].file = proc[p].file
              /\ \/ /\ proc[p].pc = "digest"
                    /\ proc'[p].pc \in {"fixture_read", "persist"}
                 \/ /\ proc[p].pc = "fixture_read"
                    /\ proc'[p].pc \in {"fixture_open", "version_read", "persist"}
                 \/ proc[p].pc = "fixture_open" /\ proc'[p].pc = "fixture_fill"
                 \/ proc[p].pc = "fixture_fill" /\ proc'[p].pc = "version_read"
                 \/ /\ proc[p].pc = "version_read"
                    /\ proc'[p].pc \in {"version_open", "resolve", "persist"}
                 \/ proc[p].pc = "version_open" /\ proc'[p].pc = "version_fill"
                 \/ proc[p].pc = "version_fill" /\ proc'[p].pc = "resolve"
<1>1. CASE FixtureDigest(p)
  <2> DEFINE x == [proc[p] EXCEPT !.pc = "fixture_read", !.digest = fixture]
  <2>1. /\ x.pc = "fixture_read" /\ x.packet = proc[p].packet
        /\ x.file = proc[p].file
    BY DEF TypeOK, Proc
  <2>2. /\ proc[p].pc = "digest"
        /\ \/ BlockReproducibility(p) \/ Become(p, x)
           \/ Exit(p) /\ fixture = Foreign
    BY <1>1 DEF FixtureDigest, NoManifest, At
  <2> HIDE DEF x
  <2>3. QED
    BY <2>1, <2>2, Arrives, BecomeEffect
<1>2. CASE FixtureRead(p)
  <2>1. /\ proc[p].pc = "fixture_read"
        /\ \/ BlockReproducibility(p)
           \/ Exit(p) /\ fixtureBase = Foreign
           \/ Goto(p, "fixture_open") \/ Goto(p, "version_read")
    BY <1>2 DEF FixtureRead, FixtureDrift, FixtureUnreadable, At
  <2>2. QED
    BY <2>1, Arrives
<1>3. CASE FixtureOpen(p)
  BY <1>3, Arrives DEF FixtureOpen, At
<1>4. CASE FixtureFill(p)
  BY <1>4, Arrives DEF FixtureFill, At
<1>5. CASE VersionRead(p)
  <2> DEFINE x == [proc[p] EXCEPT !.pc = "version_open",
                     !.seen = IF versionBase = NoFile THEN {} ELSE versionBase]
  <2>1. /\ x.pc = "version_open" /\ x.packet = proc[p].packet
        /\ x.file = proc[p].file
    BY DEF TypeOK, Proc
  <2>2. proc[p].pc = "version_read"
    BY <1>5 DEF VersionRead, At
  <2> HIDE DEF x
  <2>3. \/ VersionsUnreadable(p) \/ Goto(p, "resolve") \/ Become(p, x)
        \/ Exit(p) /\ versionBase = Foreign
    BY <1>5 DEF VersionRead, x
  <2>4. QED
    BY <2>1, <2>2, <2>3, Arrives, BecomeEffect DEF VersionsUnreadable
<1>6. CASE VersionOpen(p)
  BY <1>6, Arrives DEF VersionOpen, At
<1>7. CASE VersionFill(p)
  BY <1>7, Arrives DEF VersionFill, At
<1>8. QED
  BY <1>1, <1>2, <1>3, <1>4, <1>5, <1>6, <1>7 DEF BaselineStep

(* Around the invocation.                                                   *)
LEMMA AfterInvoke ==
    ASSUME TypeOK, NEW p \in Procs, InvokeStep(p)
    PROVE  \/ /\ proc'[p].packet = proc[p].packet /\ proc'[p].file = proc[p].file
              /\ rows' = rows
              /\ \/ proc[p].pc = "resolve" /\ proc'[p].pc = "invoke"
                 \/ proc[p].pc = "invoke" /\ proc'[p].pc = "invoking"
                 \/ proc[p].pc = "invoking" /\ proc'[p].pc = "persist"
           \/ /\ Exit(p)
              /\ \/ InsertRow(p) /\ proc[p].pc = "persist"
                 \/ InvokeRaises(p) /\ proc[p].pc = "invoking" /\ rows' = rows
                 \/ /\ "unavailable" \in Faults /\ proc[p].pc = "resolve"
                    /\ rows' = rows
<1>1. CASE Resolve(p)
  BY <1>1, Arrives DEF Resolve, At, store
<1>2. CASE Invoke(p)
  BY <1>2, Arrives DEF Invoke, At
<1>3. CASE InvokeStopped(p)
  <2>1. proc[p].pc = "invoking" /\ rows' = rows /\ \E out : Persist(p, out)
    BY <1>3 DEF InvokeStopped, At
  <2>2. QED
    BY <2>1, Arrives
<1>4. CASE InvokeRaises(p)
  BY <1>4 DEF InvokeRaises, At, store
<1>5. ASSUME NEW u \in Usages, NEW s \in ResultStatuses, InvokeReturns(p, u, s)
      PROVE  /\ proc'[p].packet = proc[p].packet /\ proc'[p].file = proc[p].file
             /\ proc[p].pc = "invoking" /\ proc'[p].pc = "persist"
             /\ rows' = rows
  <2>1. proc[p].pc = "invoking" /\ rows' = rows /\ \E out : Persist(p, out)
    BY <1>5 DEF InvokeReturns, At
  <2>2. QED
    BY <2>1, Arrives
<1>6. CASE InsertRow(p)
  BY <1>6 DEF InsertRow, At
<1>7. QED
  BY <1>1, <1>2, <1>3, <1>4, <1>5, <1>6 DEF InvokeStep

(* No step of a command moves another one.                                  *)
LEMMA Others ==
    ASSUME TypeOK, NEW p \in Procs,
           PlanStart(p) \/ Start(p) \/ Step(p) \/ Crash(p)
    PROVE  \A q \in Procs \ {p} : proc'[q] = proc[q]
<1> SUFFICES \E x : Become(p, x)
  BY BecomeEffect
<1>1. CASE PlanStart(p) \/ Start(p) \/ Crash(p)
  BY <1>1 DEF PlanStart, Start, Crash, Exit
<1>2. CASE PlanStep(p)
  BY <1>2 DEF PlanStep, PlanMint, PlanOpen, PlanFill, Exit
<1>3. CASE ClaimStep(p)
  BY <1>3, Reads DEF ClaimStep, CheckCanInvoke, Peek, DequeueUnlink, Goto, Exit
<1>4. CASE BaselineStep(p)
  <2>1. CASE FixtureDigest(p) \/ FixtureRead(p) \/ VersionRead(p)
    BY <2>1 DEF FixtureDigest, FixtureRead, VersionRead, NoManifest, FixtureDrift,
       FixtureUnreadable, VersionsUnreadable, BlockReproducibility, Persist, Goto,
       Exit
  <2>2. CASE FixtureOpen(p) \/ FixtureFill(p) \/ VersionOpen(p) \/ VersionFill(p)
    BY <2>2 DEF FixtureOpen, FixtureFill, VersionOpen, VersionFill, Goto
  <2>3. QED
    BY <1>4, <2>1, <2>2 DEF BaselineStep
<1>5. CASE InvokeStep(p)
  BY <1>5 DEF InvokeStep, Resolve, Invoke, InvokeReturns, InvokeStopped,
     InvokeRaises, InsertRow, Persist, Goto, Exit
<1>6. QED
  BY <1>1, <1>2, <1>3, <1>4, <1>5 DEF Step

-----------------------------------------------------------------------------
(* The files.  They are numbered as they are created, and no two runs have  *)
(* the same; the file a process has read is not newer than the one that has *)
(* the name now, and no other run's.  A single process finds the file there *)
(* that it read, and no file where it is about to write one.                *)
Numbered == \A r \in RunIds : inode[r] <= planned

Distinct == \A r, s \in RunIds : inode[r] = inode[s] /\ inode[r] # 0 => r = s

InHand(x) == x.pc = "unlink" =>
                /\ x.file <= inode[x.run]
                /\ \A r \in RunIds : inode[r] = x.file => r = x.run

Alone(x) == /\ x.pc = "unlink" => x.file = inode[x.run] /\ queue[x.run] # NoFile
            /\ x.pc \in {"plan_mint", "plan_open"} => queue[x.run] = NoFile

FileInv == /\ Numbered
           /\ Distinct
           /\ \A p \in Procs : InHand(proc[p]) /\ (~Racy => Alone(proc[p]))

LEMMA NotRacy == ASSUME ~Racy PROVE \A p, q \in Procs : p = q
<1>1. Cardinality(Procs) = 1
  BY ProcsFinite DEF Racy
<1>2. PICK x : Procs = {x}
  BY <1>1, ProcsFinite, FS_Singleton
<1>3. QED
  BY <1>2

LEMMA FileTypes ==
    ASSUME TypeOK
    PROVE  /\ planned \in Nat
           /\ \A r \in RunIds : inode[r] \in Nat
           /\ \A p \in Procs : proc[p].file \in Nat
  BY Bounds DEF TypeOK, Proc

LEMMA FileInit == Init => FileInv
<1> SUFFICES ASSUME Init PROVE FileInv
  OBVIOUS
<1>1. Numbered /\ Distinct
  BY DEF Init, Numbered, Distinct
<1>2. ASSUME NEW p \in Procs PROVE InHand(proc[p]) /\ Alone(proc[p])
  BY DEF Init, InHand, Alone, IdleProc, Idle
<1>3. QED
  BY <1>1, <1>2 DEF FileInv

(* A step that creates and removes no file.                                 *)
LEMMA FileMove ==
    ASSUME FileInv, NEW p \in Procs,
           \A q \in Procs \ {p} : proc'[q] = proc[q],
           UNCHANGED <<queue, inode, planned>>,
           InHand(proc'[p]), ~Racy => Alone(proc'[p])
    PROVE  FileInv'
<1>1. Numbered' /\ Distinct' /\ Racy' = Racy
  BY DEF FileInv, Numbered, Distinct, Racy
<1>2. ASSUME NEW q \in Procs
      PROVE  InHand(proc[q])' /\ (~Racy => Alone(proc[q])')
  BY DEF FileInv, InHand, Alone
<1>3. QED
  BY <1>1, <1>2 DEF FileInv

LEMMA FilePass ==
    ASSUME FileInv, NEW p \in Procs,
           \A q \in Procs \ {p} : proc'[q] = proc[q],
           UNCHANGED <<queue, inode, planned>>,
           proc'[p].pc \notin {"unlink", "plan_mint", "plan_open"}
    PROVE  FileInv'
  BY FileMove DEF InHand, Alone

LEMMA FilePlan ==
    ASSUME TypeOK, FileInv, NEW p \in Procs,
           PlanStart(p) \/ Start(p) \/ PlanStep(p)
    PROVE  FileInv'
<1>0. \A q \in Procs \ {p} : proc'[q] = proc[q]
  BY Others DEF Step
<1>1. CASE PlanStart(p)
  <2>1. PICK v \in Providers :
          Become(p, [IdleProc EXCEPT !.pc = "plan_mint", !.run = latest,
                                     !.prov = v])
    BY <1>1 DEF PlanStart
  <2>2. proc'[p] = [IdleProc EXCEPT !.pc = "plan_mint", !.run = latest,
                                    !.prov = v]
    BY <2>1, BecomeEffect
  <2>3. proc'[p].pc = "plan_mint" /\ proc'[p].run = latest
    BY <2>2 DEF IdleProc
  <2>4. queue[latest] = NoFile /\ UNCHANGED <<queue, inode, planned>>
    BY <1>1 DEF PlanStart, store
  <2>5. QED
    BY <1>0, <2>3, <2>4, FileMove DEF InHand, Alone
<1>2. CASE Start(p)
  <2>1. PICK v \in Providers :
          Become(p, [IdleProc EXCEPT !.pc = "check", !.run = latest,
                                     !.prov = v, !.seeded = RowsOf(latest)])
    BY <1>2 DEF Start
  <2>2. proc'[p] = [IdleProc EXCEPT !.pc = "check", !.run = latest,
                                    !.prov = v, !.seeded = RowsOf(latest)]
    BY <2>1, BecomeEffect
  <2>3. proc'[p].pc = "check"
    BY <2>2 DEF IdleProc
  <2>4. QED
    BY <1>0, <1>2, <2>3, FilePass DEF Start, store
<1>3. CASE PlanMint(p)
  <2>1. PICK k : Become(p, [proc[p] EXCEPT !.pc = "plan_open", !.packet = k])
    BY <1>3 DEF PlanMint
  <2>2. proc'[p].pc = "plan_open" /\ proc'[p].run = proc[p].run
    <3>1. proc'[p] = [proc[p] EXCEPT !.pc = "plan_open", !.packet = k]
      BY <2>1, BecomeEffect
    <3>2. QED
      BY <3>1 DEF TypeOK, Proc
  <2>3. proc[p].pc = "plan_mint" /\ UNCHANGED <<queue, inode, planned>>
    BY <1>3 DEF PlanMint, At, store
  <2>4. QED
    BY <1>0, <2>2, <2>3, FileMove DEF FileInv, InHand, Alone
<1>4. CASE PlanOpen(p)
  <2> DEFINE r == proc[p].run
             new == Opened(r)
  <2>1. /\ proc[p].pc = "plan_open" /\ r \in RunIds
        /\ queue' = [queue EXCEPT ![r] = Torn]
        /\ inode' = [inode EXCEPT ![r] = new]
        /\ planned' = planned + 1
    BY <1>4 DEF PlanOpen, At, TypeOK, ProcOK, Idle
  <2>2. new = planned + 1 \/ new = inode[r]
    BY DEF Opened
  <2>3. proc'[p].pc = "plan_fill"
    BY <1>4, Opens, BecomeEffect
  <2> HIDE DEF new, r
  <2>4. inode'[r] = new /\ \A s \in RunIds \ {r} : inode'[s] = inode[s]
    BY <2>1 DEF TypeOK
  <2>5. \A s \in RunIds : inode[s] <= planned /\ inode[s] \in Nat
    BY FileTypes DEF FileInv, Numbered
  <2>6. Numbered'
    BY <2>1, <2>2, <2>4, <2>5, FileTypes DEF Numbered
  <2>7. Distinct'
    BY <2>1, <2>2, <2>4, <2>5, FileTypes DEF FileInv, Distinct
  <2>8. ASSUME NEW q \in Procs PROVE InHand(proc[q])'
    <3>1. CASE q = p
      BY <2>3, <3>1 DEF InHand
    <3>2. CASE q # p
      <4> SUFFICES ASSUME proc[q].pc = "unlink"
                   PROVE  /\ proc[q].file <= inode'[proc[q].run]
                          /\ \A s \in RunIds : inode'[s] = proc[q].file
                                                 => s = proc[q].run
        BY <1>0, <3>2 DEF InHand
      <4>1. /\ proc[q].file <= inode[proc[q].run] /\ proc[q].file \in Nat
            /\ \A s \in RunIds : inode[s] = proc[q].file => s = proc[q].run
        BY FileTypes DEF FileInv, InHand
      <4>2. proc[q].run \in RunIds
        BY DEF TypeOK, ProcOK, Idle
      <4>3. QED
        BY <2>1, <2>2, <2>4, <2>5, <4>1, <4>2, FileTypes
    <3>3. QED
      BY <3>1, <3>2
  <2>9. ASSUME ~Racy, NEW q \in Procs PROVE Alone(proc[q])'
    BY <2>3, <2>9, NotRacy DEF Alone
  <2>10. QED
    BY <2>6, <2>7, <2>8, <2>9 DEF FileInv, Racy
<1>5. CASE PlanFill(p)
  <2>1. /\ proc'[p] = IdleProc /\ UNCHANGED <<inode, planned>>
    BY <1>5, Arrives DEF PlanFill
  <2>2. proc'[p].pc = "idle"
    BY <2>1 DEF IdleProc, Idle
  <2>3. Numbered' /\ Distinct'
    BY <2>1 DEF FileInv, Numbered, Distinct
  <2>4. ASSUME NEW q \in Procs
        PROVE  InHand(proc[q])' /\ (~Racy => Alone(proc[q])')
    BY <1>0, <2>1, <2>2, NotRacy DEF FileInv, InHand, Alone
  <2>5. QED
    BY <2>3, <2>4 DEF FileInv, Racy
<1>6. QED
  BY <1>1, <1>2, <1>3, <1>4, <1>5 DEF PlanStep

LEMMA FileClaim ==
    ASSUME TypeOK, FileInv, NEW p \in Procs, ClaimStep(p)
    PROVE  FileInv'
<1>0. \A q \in Procs \ {p} : proc'[q] = proc[q]
  BY Others DEF Step
<1>1. CASE CheckCanInvoke(p) \/ Peek(p)
  <2>1. proc'[p].pc \in {Idle, "peek", "read"}
    BY <1>1, Arrives DEF CheckCanInvoke, Peek, IdleProc
  <2>2. QED
    BY <1>0, <1>1, <2>1, FilePass DEF CheckCanInvoke, Peek, store, Idle
<1>2. CASE DequeueRead(p)
  <2>1. UNCHANGED <<queue, inode, planned>> /\ proc[p].run \in RunIds
    BY <1>2 DEF DequeueRead, store, At, TypeOK, ProcOK, Idle
  <2>2. CASE Exit(p)
    BY <1>0, <2>1, <2>2, Arrives, FilePass DEF IdleProc, Idle
  <2>3. CASE ~Exit(p)
    <3>1. /\ queue[proc[p].run] \in Packet
          /\ proc'[p].pc = "unlink" /\ proc'[p].run = proc[p].run
          /\ proc'[p].file = inode[proc[p].run]
      BY <1>2, <2>3, Reads, BecomeEffect
    <3>2. queue[proc[p].run] # NoFile /\ inode[proc[p].run] # 0
            /\ inode[proc[p].run] \in Nat
      BY <2>1, <3>1, QueueValues, FileTypes DEF TypeOK
    <3>3. InHand(proc'[p]) /\ Alone(proc'[p])
      BY <2>1, <3>1, <3>2 DEF FileInv, Distinct, InHand, Alone
    <3>4. QED
      BY <1>0, <2>1, <3>3, FileMove
  <2>4. QED
    BY <2>2, <2>3
<1>3. CASE DequeueUnlink(p)
  <2>1. proc'[p].pc \in {"idle", "digest"} /\ UNCHANGED <<inode, planned>>
    BY <1>3, Arrives DEF DequeueUnlink, IdleProc, Idle
  <2>2. Numbered' /\ Distinct'
    BY <2>1 DEF FileInv, Numbered, Distinct
  <2>3. ASSUME NEW q \in Procs
        PROVE  InHand(proc[q])' /\ (~Racy => Alone(proc[q])')
    BY <1>0, <2>1, NotRacy DEF FileInv, InHand, Alone
  <2>4. QED
    BY <2>2, <2>3 DEF FileInv, Racy
<1>4. QED
  BY <1>1, <1>2, <1>3 DEF ClaimStep

LEMMA FileNext == TypeOK /\ FileInv /\ [Next]_vars => FileInv'
<1> SUFFICES ASSUME TypeOK, FileInv, [Next]_vars PROVE FileInv'
  OBVIOUS
<1>1. CASE UNCHANGED <<queue, inode, planned, proc>>
  BY <1>1 DEF FileInv, Numbered, Distinct, InHand, Alone, Racy
<1>2. CASE Environment
  BY <1>1, <1>2 DEF Environment, InitFixture, Kill, Unkill, EditFixture,
     CorruptBaseline, store
<1>3. ASSUME NEW p \in Procs, PlanStart(p) \/ Start(p) \/ Step(p) \/ Crash(p)
      PROVE  FileInv'
  <2>0. \A q \in Procs \ {p} : proc'[q] = proc[q]
    BY <1>3, Others
  <2>1. CASE PlanStart(p) \/ Start(p) \/ PlanStep(p)
    BY <2>1, FilePlan
  <2>2. CASE ClaimStep(p)
    BY <2>2, FileClaim
  <2>3. CASE BaselineStep(p)
    <3>1. UNCHANGED <<queue, inode, planned>>
      BY <2>3 DEF BaselineStep, FixtureDigest, FixtureRead, FixtureOpen,
         FixtureFill, VersionRead, VersionOpen, VersionFill, store
    <3>2. proc'[p].pc \notin {"unlink", "plan_mint", "plan_open"}
      BY <2>3, AfterBaseline, Arrives DEF IdleProc, Idle
    <3>3. QED
      BY <2>0, <3>1, <3>2, FilePass
  <2>4. CASE InvokeStep(p)
    <3>1. UNCHANGED <<queue, inode, planned>>
      BY <2>4 DEF InvokeStep, Resolve, Invoke, InvokeReturns, InvokeStopped,
         InvokeRaises, InsertRow, store
    <3>2. proc'[p].pc \notin {"unlink", "plan_mint", "plan_open"}
      BY <2>4, AfterInvoke, Arrives DEF IdleProc, Idle
    <3>3. QED
      BY <2>0, <3>1, <3>2, FilePass
  <2>5. CASE Crash(p)
    BY <2>0, <2>5, Arrives, FilePass DEF Crash, store, IdleProc, Idle
  <2>6. QED
    BY <1>3, <2>1, <2>2, <2>3, <2>4, <2>5 DEF Step
<1>4. QED
  BY <1>1, <1>2, <1>3 DEF Next, vars

(* Nobody but the environment leaves a foreign file.                        *)
PureInv == "foreign" \notin Faults =>
             Foreign \notin {fixture, fixtureBase, versionBase}

LEMMA ForeignValues ==
    /\ Foreign \notin {NoFile, Torn, Missing} /\ Foreign \notin Digests
    /\ Foreign \notin SUBSET Providers
  BY SentinelAssumption DEF SentinelAssumption

LEMMA PureInit == Init => PureInv
  BY ForeignValues DEF Init, PureInv

LEMMA PureNext == TypeOK /\ PureInv /\ [Next]_vars => PureInv'
<1> SUFFICES ASSUME TypeOK, PureInv, [Next]_vars, "foreign" \notin Faults
             PROVE  Foreign \notin {fixture', fixtureBase', versionBase'}
  BY DEF PureInv
<1>1. Foreign \notin {fixture, fixtureBase, versionBase}
  BY DEF PureInv
<1>2. CASE UNCHANGED <<fixture, baselines>>
  BY <1>1, <1>2 DEF baselines
<1>3. CASE InitFixture \/ Kill \/ Unkill
  BY <1>2, <1>3 DEF InitFixture, Kill, Unkill
<1>4. CASE EditFixture
  BY <1>1, <1>4 DEF EditFixture, baselines
<1>5. CASE CorruptBaseline
  BY <1>1, <1>5 DEF CorruptBaseline, Spoilt
<1>6. ASSUME NEW p \in Procs, PlanStart(p) \/ Start(p) \/ Step(p) \/ Crash(p)
      PROVE  Foreign \notin {fixture', fixtureBase', versionBase'}
  <2>1. CASE PlanStart(p) \/ Start(p) \/ Crash(p) \/ PlanStep(p) \/ ClaimStep(p)
    BY <1>2, <2>1 DEF PlanStart, Start, Crash, PlanStep, PlanMint, PlanOpen,
       PlanFill, ClaimStep, CheckCanInvoke, Peek, DequeueRead, DequeueUnlink
  <2>2. CASE InvokeStep(p)
    BY <1>2, <2>2 DEF InvokeStep, Resolve, Invoke, InvokeReturns, InvokeStopped,
       InvokeRaises, InsertRow
  <2>3. CASE FixtureDigest(p) \/ FixtureRead(p) \/ VersionRead(p)
    BY <1>2, <2>3 DEF FixtureDigest, FixtureRead, VersionRead
  <2>4. CASE FixtureOpen(p) \/ VersionOpen(p)
    BY <1>1, <2>4, ForeignValues DEF FixtureOpen, VersionOpen
  <2>5. CASE FixtureFill(p)
    <3>1. proc[p].digest \in Digests
      BY <2>5 DEF FixtureFill, At, TypeOK, ProcOK, Digesting
    <3>2. QED
      BY <1>1, <2>5, <3>1, ForeignValues DEF FixtureFill
  <2>6. CASE VersionFill(p)
    <3>1. proc[p].seen \cup {proc[p].prov} \in SUBSET Providers
      BY <2>6 DEF VersionFill, At, TypeOK, ProcOK, Proc, Idle
    <3>2. QED
      BY <1>1, <2>6, <3>1, ForeignValues DEF VersionFill
  <2>7. QED
    BY <1>6, <2>1, <2>2, <2>3, <2>4, <2>5, <2>6 DEF Step, BaselineStep
<1>7. QED
  BY <1>2, <1>3, <1>4, <1>5, <1>6 DEF Next, Environment, vars, baselines

-----------------------------------------------------------------------------
(* The ledger.                                                              *)
LEMMA LedgerInit == Init => Ledger!Init
<1> SUFFICES ASSUME Init PROVE Ledger!Init
  OBVIOUS
<1>1. Pending = {} /\ Recorded = {} /\ planned = 0
  BY DEF Init, Pending, Recorded
<1>2. Running = [p \in Procs |-> 0]
  BY DEF Init, Running, Claimed, AfterClaim, IdleProc, Idle
<1>3. QED
  BY <1>1, <1>2 DEF Ledger!Init

(* What a step of process p does to the claims that are under way.          *)
LEMMA RunningAfter ==
    ASSUME NEW p \in Procs, \A q \in Procs \ {p} : proc'[q] = proc[q]
    PROVE  /\ Running[p] = IF Claimed(p) THEN proc[p].file ELSE 0
           /\ Running' = [Running EXCEPT ![p] =
                            IF Claimed(p)' THEN proc'[p].file ELSE 0]
<1> DEFINE held == IF Claimed(p)' THEN proc'[p].file ELSE 0
<1>1. Running = [q \in Procs |-> IF Claimed(q) THEN proc[q].file ELSE 0]
  BY DEF Running
<1>2. Running' = [q \in Procs |-> IF q = p THEN held ELSE Running[q]]
  BY <1>1 DEF Running, Claimed
<1> HIDE DEF held
<1>3. Running' = [Running EXCEPT ![p] = held]
  BY <1>1, <1>2
<1>4. QED
  BY <1>1, <1>3 DEF held

LEMMA LedgerKeep ==
    ASSUME NEW p \in Procs, \A q \in Procs \ {p} : proc'[q] = proc[q],
           Claimed(p)' <=> Claimed(p),
           Claimed(p) => proc'[p].file = proc[p].file,
           UNCHANGED <<planned, rows>>, Pending' = Pending
    PROVE  UNCHANGED Ledger!ledger
<1>1. Running' = Running
  BY DEF Running, Claimed
<1>2. Recorded' = Recorded
  BY DEF Recorded
<1>3. QED
  BY <1>1, <1>2 DEF Ledger!ledger

(* A claimed task ends, with or without a row.                              *)
LEMMA Leaves ==
    ASSUME TypeOK, NEW p \in Procs, Exit(p), Claimed(p),
           UNCHANGED <<queue, inode, planned>>
    PROVE  Ledger!Done(p)
<1>1. proc'[p] = IdleProc /\ \A q \in Procs \ {p} : proc'[q] = proc[q]
  BY BecomeEffect DEF Exit
<1>2. ~Claimed(p)'
  BY <1>1 DEF Claimed, IdleProc, Idle, AfterClaim
<1>3. Running[p] # 0
  BY <1>1, RunningAfter DEF Claimed, TypeOK, ProcOK
<1>4. Running' = [Running EXCEPT ![p] = 0]
  BY <1>1, <1>2, RunningAfter
<1>5. Pending' = Pending
  BY DEF Pending
<1>6. QED
  BY <1>3, <1>4, <1>5 DEF Ledger!Done

LEMMA LedgerLose ==
    ASSUME TypeOK, NEW p \in Procs, Exit(p), Claimed(p), Lossy,
           UNCHANGED <<queue, inode, planned, rows>>
    PROVE  Ledger!Next
<1>1. Ledger!Done(p) /\ Recorded' = Recorded
  BY Leaves DEF Recorded
<1>2. QED
  BY <1>1 DEF Ledger!Next, Ledger!Lose

LEMMA LedgerPlan ==
    ASSUME TypeOK, FileInv, NEW p \in Procs, PlanStart(p) \/ Start(p) \/ PlanStep(p)
    PROVE  [Ledger!Next]_(Ledger!ledger)
<1> SUFFICES Ledger!Next \/ UNCHANGED Ledger!ledger
  OBVIOUS
<1>0. \A q \in Procs \ {p} : proc'[q] = proc[q]
  BY Others DEF Step
<1>1. ~Claimed(p) /\ rows' = rows
  BY DEF PlanStart, Start, PlanStep, PlanMint, PlanOpen, PlanFill, At, Idle,
     Claimed, AfterClaim, store
<1>2. ~Claimed(p)'
  <2>1. CASE PlanStart(p)
    <3>1. PICK v \in Providers :
            Become(p, [IdleProc EXCEPT !.pc = "plan_mint", !.run = latest,
                                       !.prov = v])
      BY <2>1 DEF PlanStart
    <3>2. [IdleProc EXCEPT !.pc = "plan_mint", !.run = latest,
                           !.prov = v].pc = "plan_mint"
      BY DEF IdleProc
    <3>3. QED
      BY <3>1, <3>2, BecomeEffect DEF Claimed, AfterClaim
  <2>2. CASE Start(p)
    <3>1. PICK v \in Providers :
            Become(p, [IdleProc EXCEPT !.pc = "check", !.run = latest,
                                       !.prov = v, !.seeded = RowsOf(latest)])
      BY <2>2 DEF Start
    <3>2. [IdleProc EXCEPT !.pc = "check", !.run = latest,
                           !.prov = v, !.seeded = RowsOf(latest)].pc = "check"
      BY DEF IdleProc
    <3>3. QED
      BY <3>1, <3>2, BecomeEffect DEF Claimed, AfterClaim
  <2>3. CASE PlanMint(p)
    <3>1. PICK k : Become(p, [proc[p] EXCEPT !.pc = "plan_open", !.packet = k])
      BY <2>3 DEF PlanMint
    <3>2. [proc[p] EXCEPT !.pc = "plan_open", !.packet = k].pc = "plan_open"
      BY DEF TypeOK, Proc
    <3>3. QED
      BY <3>1, <3>2, BecomeEffect DEF Claimed, AfterClaim
  <2>4. CASE PlanOpen(p)
    BY <2>4, Opens, BecomeEffect DEF Claimed, AfterClaim
  <2>5. CASE PlanFill(p)
    BY <2>5, Arrives DEF PlanFill, IdleProc, Idle, Claimed, AfterClaim
  <2>6. QED
    BY <2>1, <2>2, <2>3, <2>4, <2>5 DEF PlanStep
<1>3. CASE PlanStart(p) \/ Start(p) \/ PlanMint(p)
  <2>1. Pending' = Pending /\ planned' = planned
    BY <1>3 DEF PlanStart, Start, PlanMint, store, Pending
  <2>2. QED
    BY <1>0, <1>1, <1>2, <2>1, LedgerKeep
<1>4. CASE PlanOpen(p)
  <2> DEFINE r == proc[p].run
  <2>1. /\ proc[p].pc = "plan_open" /\ r \in RunIds /\ planned' = planned + 1
        /\ queue' = [queue EXCEPT ![r] = Torn]
        /\ inode' = [inode EXCEPT ![r] = Opened(r)]
    BY <1>4 DEF PlanOpen, At, TypeOK, ProcOK, Idle
  <2>2. Running' = Running /\ Recorded' = Recorded
    BY <1>0, <1>1, <1>2 DEF Running, Claimed, Recorded
  <2>3. /\ queue'[r] # NoFile /\ inode'[r] = Opened(r)
        /\ \A s \in RunIds \ {r} : queue'[s] = queue[s] /\ inode'[s] = inode[s]
    BY <2>1, QueueValues DEF TypeOK
  <2>4. CASE queue[r] = NoFile
    <3>1. Opened(r) = planned + 1
      BY <2>4 DEF Opened
    <3> HIDE DEF r
    <3>2. Pending' = Pending \cup {planned'}
      BY <2>1, <2>3, <2>4, <3>1 DEF Pending
    <3>3. QED
      BY <2>1, <2>2, <3>2 DEF Ledger!Next, Ledger!Offer
  <2>5. CASE queue[r] # NoFile
    <3>1. Racy
      BY <2>1, <2>5 DEF FileInv, Alone
    <3>2. Opened(r) = inode[r]
      BY <2>5 DEF Opened
    <3> HIDE DEF r
    <3>3. Pending' = Pending /\ Pending # {}
      BY <2>1, <2>3, <2>5, <3>2 DEF Pending
    <3>4. QED
      BY <2>1, <2>2, <3>1, <3>3 DEF Ledger!Next, Ledger!Replace
  <2>6. QED
    BY <2>4, <2>5
<1>5. CASE PlanFill(p)
  <2> DEFINE r == proc[p].run
  <2>1. /\ r \in RunIds /\ proc[p].packet # NoFile /\ UNCHANGED <<inode, planned>>
    BY <1>5, QueueValues DEF PlanFill, At, TypeOK, ProcOK, Idle
  <2>2. \A s \in RunIds : queue'[s] # NoFile <=> queue[s] # NoFile
    BY <1>5, <2>1 DEF PlanFill, TypeOK
  <2>3. Pending' = Pending
    BY <2>1, <2>2 DEF Pending
  <2>4. QED
    BY <1>0, <1>1, <1>2, <2>1, <2>3, LedgerKeep
<1>6. QED
  BY <1>3, <1>4, <1>5 DEF PlanStep

LEMMA LedgerClaim ==
    ASSUME TypeOK, FileInv, NEW p \in Procs, ClaimStep(p)
    PROVE  [Ledger!Next]_(Ledger!ledger)
<1> SUFFICES Ledger!Next \/ UNCHANGED Ledger!ledger
  OBVIOUS
<1>0. \A q \in Procs \ {p} : proc'[q] = proc[q]
  BY Others DEF Step
<1>1. ~Claimed(p) /\ UNCHANGED <<rows, inode, planned>>
  BY DEF ClaimStep, CheckCanInvoke, Peek, DequeueRead, DequeueUnlink, At,
     Claimed, AfterClaim, store
<1>2. ASSUME queue' = queue, ~Claimed(p)' PROVE UNCHANGED Ledger!ledger
  <2>1. Pending' = Pending
    BY <1>1, <1>2 DEF Pending
  <2>2. QED
    BY <1>0, <1>1, <1>2, <2>1, LedgerKeep
<1>3. CASE CheckCanInvoke(p) \/ Peek(p) \/ DequeueRead(p)
  <2>1. queue' = queue /\ ~DequeueUnlink(p)
    BY <1>3 DEF CheckCanInvoke, Peek, DequeueRead, DequeueUnlink, At, store
  <2>2. QED
    BY <1>2, <2>1, AfterClaiming DEF Claimed, AfterClaim, Idle
<1>4. CASE DequeueUnlink(p)
  <2> DEFINE r == proc[p].run
             t == inode[r]
             s == proc[p].file
  <2>1. proc[p].pc = "unlink" /\ r \in RunIds
    BY <1>4 DEF DequeueUnlink, At, TypeOK, ProcOK, Idle
  <2>2. CASE queue[r] = NoFile
    BY <1>2, <1>4, <2>2, Arrives DEF DequeueUnlink, IdleProc, Idle, Claimed,
       AfterClaim
  <2>3. CASE queue[r] # NoFile
    <3>1. /\ queue' = [queue EXCEPT ![r] = NoFile]
          /\ proc'[p].pc = "digest" /\ proc'[p].file = s
      BY <1>4, <2>3, Arrives DEF DequeueUnlink
    <3>2. Claimed(p)' /\ s # 0 /\ s \in Nat /\ t \in Nat /\ t # 0
      BY <2>1, <2>3, <3>1, FileTypes DEF Claimed, AfterClaim, TypeOK, ProcOK
    <3>3. \A x \in RunIds : inode[x] = t => x = r
      BY <2>1, <3>2 DEF FileInv, Distinct
    <3>4. s <= t /\ \A x \in RunIds : inode[x] = s => x = r
      BY <2>1 DEF FileInv, InHand
    <3>5. /\ Running[p] = 0 /\ Running' = [Running EXCEPT ![p] = s]
          /\ Recorded' = Recorded
      BY <1>0, <1>1, <3>1, <3>2, RunningAfter DEF Recorded
    <3>6. ~Racy => s = t
      BY <2>1 DEF FileInv, Alone
    <3> HIDE DEF s, t
    <3>7. t \in Pending /\ Pending' = Pending \ {t}
      <4>1. queue'[r] = NoFile /\ \A x \in RunIds \ {r} : queue'[x] = queue[x]
        BY <2>1, <3>1 DEF TypeOK
      <4>2. t = inode[r]
        BY DEF t
      <4> HIDE DEF r
      <4>3. QED
        BY <1>1, <2>1, <2>3, <3>3, <4>1, <4>2 DEF Pending
    <3>8. s # t => s \in (1 .. t - 1) \ Pending
      <4>1. s # t => s \in 1 .. t - 1
        BY <3>2, <3>4
      <4>2. s # t => s \notin Pending
        BY <3>4 DEF Pending, t
      <4>3. QED
        BY <4>1, <4>2
    <3>9. Ledger!Take(p, t, s)
      BY <1>1, <3>5, <3>7 DEF Ledger!Take
    <3>10. CASE s = t
      BY <3>7, <3>9, <3>10 DEF Ledger!Next, Ledger!Claim
    <3>11. CASE s # t
      BY <3>6, <3>7, <3>8, <3>9, <3>11 DEF Ledger!Next, Ledger!ClaimOlder
    <3>12. QED
      BY <3>10, <3>11
  <2>4. QED
    BY <2>2, <2>3
<1>5. QED
  BY <1>3, <1>4 DEF ClaimStep

LEMMA LedgerBaseline ==
    ASSUME TypeOK, PureInv, NEW p \in Procs, BaselineStep(p)
    PROVE  [Ledger!Next]_(Ledger!ledger)
<1> SUFFICES Ledger!Next \/ UNCHANGED Ledger!ledger
  OBVIOUS
<1>1. Claimed(p) /\ UNCHANGED <<queue, inode, planned, rows>>
  BY DEF BaselineStep, FixtureDigest, FixtureRead, FixtureOpen, FixtureFill,
     VersionRead, VersionOpen, VersionFill, At, Claimed, AfterClaim, store
<1>2. CASE Exit(p) /\ Foreign \in {fixture, fixtureBase, versionBase}
  <2>1. Lossy
    BY <1>2 DEF PureInv, Lossy
  <2>2. QED
    BY <1>1, <1>2, <2>1, LedgerLose
<1>3. CASE ~(Exit(p) /\ Foreign \in {fixture, fixtureBase, versionBase})
  <2>1. Claimed(p)' /\ proc'[p].file = proc[p].file
    BY <1>3, AfterBaseline DEF Claimed, AfterClaim
  <2>2. Pending' = Pending
    BY <1>1 DEF Pending
  <2>3. \A q \in Procs \ {p} : proc'[q] = proc[q]
    BY Others DEF Step
  <2>4. QED
    BY <1>1, <2>1, <2>2, <2>3, LedgerKeep
<1>4. QED
  BY <1>2, <1>3

(* Without a fault no adapter raises: its fixture is the one whose digest   *)
(* was computed, which exists.                                              *)
LEMMA NoRaise ==
    ASSUME TypeOK, DigestInv, SoloInv, ~Lossy, NEW p \in Procs
    PROVE  ~InvokeRaises(p)
<1> SUFFICES ASSUME InvokeRaises(p) PROVE FALSE
  OBVIOUS
<1>1. /\ proc[p].pc = "invoking"
      /\ "unavailable" \notin Faults /\ "foreign" \notin Faults
  BY Solo DEF InvokeRaises, At
<1>2. fixture = Missing
  BY <1>1 DEF InvokeRaises
<1>3. proc[p].digest = fixture
  BY <1>1 DEF DigestInv, InFlight, HoldsDigest, Accepted, PastBaseline
<1>4. proc[p].digest \in Digests
  BY <1>1 DEF SoloInv, OwnFresh, PastBaseline, Idle
<1>5. QED
  BY <1>2, <1>3, <1>4, RunNextAssumption DEF RunNextAssumption

LEMMA LedgerInsert ==
    ASSUME TypeOK, ~Lossy => SoloInv, NEW p \in Procs, InsertRow(p)
    PROVE  Ledger!Next
<1> DEFINE row == [run |-> proc[p].run, prov |-> proc[p].prov,
                   out |-> proc[p].out, digest |-> proc[p].digest]
           exp == proc[p].packet.exp
<1>1. Claimed(p) /\ UNCHANGED <<queue, inode, planned>> /\ Exit(p)
  BY DEF InsertRow, Claimed, AfterClaim, At
<1>2. /\ exp \in ExpIds
      /\ rows' = IF rows[exp] = NoRow THEN [rows EXCEPT ![exp] = row] ELSE rows
  BY <1>1, ClaimedOK DEF InsertRow, Insert, Packet
<1>3. CASE rows[exp] # NoRow
  <2>1. ~Lossy => OwnFresh(proc[p], latest, queue, rows)
    BY DEF SoloInv
  <2>2. Lossy
    BY <1>1, <1>3, <2>1 DEF OwnFresh, Claimed, Holding, AfterClaim, Idle
  <2>3. QED
    BY <1>1, <1>2, <1>3, <2>2, LedgerLose
<1>4. CASE rows[exp] = NoRow
  <2>1. row # NoRow
    <3>1. proc[p].out \in Outcome /\ proc[p].digest \in Digests \cup {Missing}
      BY DEF InsertRow, At, TypeOK, ProcOK, Proc
    <3>2. row \in Row
      BY <1>1, <3>1, ClaimedOK DEF Row
    <3>3. QED
      BY <3>2, SentinelAssumption DEF SentinelAssumption
  <2> HIDE DEF row, exp
  <2>2. Recorded' = Recorded \cup {exp} /\ exp \in ExpIds \ Recorded
    BY <1>2, <1>4, <2>1 DEF Recorded, TypeOK
  <2>3. Ledger!Done(p)
    BY <1>1, Leaves
  <2>4. QED
    BY <2>2, <2>3 DEF Ledger!Next, Ledger!Record
<1>5. QED
  BY <1>3, <1>4

LEMMA LedgerInvoke ==
    ASSUME TypeOK, ~Lossy => DigestInv /\ SoloInv,
           NEW p \in Procs, InvokeStep(p)
    PROVE  [Ledger!Next]_(Ledger!ledger)
<1> SUFFICES Ledger!Next \/ UNCHANGED Ledger!ledger
  OBVIOUS
<1>1. Claimed(p) /\ UNCHANGED <<queue, inode, planned>>
  BY DEF InvokeStep, Resolve, Invoke, InvokeReturns, InvokeStopped, InvokeRaises,
     InsertRow, Claimed, AfterClaim, At, store
<1>2. CASE InsertRow(p)
  BY <1>2, LedgerInsert
<1>3. CASE Exit(p) /\ ~InsertRow(p)
  <2>1. rows' = rows /\ (InvokeRaises(p) \/ "unavailable" \in Faults)
    BY <1>3, AfterInvoke, Arrives DEF IdleProc, Idle
  <2>2. Lossy
    BY <2>1, NoRaise DEF Lossy
  <2>3. QED
    BY <1>1, <1>3, <2>1, <2>2, LedgerLose
<1>4. CASE ~Exit(p) /\ ~InsertRow(p)
  <2>1. Claimed(p)' /\ proc'[p].file = proc[p].file /\ rows' = rows
    BY <1>4, AfterInvoke DEF Claimed, AfterClaim
  <2>2. Pending' = Pending
    BY <1>1 DEF Pending
  <2>3. \A q \in Procs \ {p} : proc'[q] = proc[q]
    BY Others DEF Step
  <2>4. QED
    BY <1>1, <2>1, <2>2, <2>3, LedgerKeep
<1>5. QED
  BY <1>2, <1>3, <1>4

(* The invariant of the refinement and of the trace.                        *)
QuietInv == TypeOK /\ FileInv /\ PureInv /\ (~Lossy => DigestInv /\ SoloInv)

LEMMA LedgerNext ==
    ASSUME QuietInv, [Next]_vars
    PROVE  [Ledger!Next]_(Ledger!ledger)
<1>0. TypeOK /\ FileInv /\ PureInv /\ (~Lossy => DigestInv /\ SoloInv)
  BY DEF QuietInv
<1>1. CASE UNCHANGED <<queue, inode, rows, planned, proc>>
  <2>1. Pending' = Pending /\ Running' = Running /\ Recorded' = Recorded
    BY <1>1 DEF Pending, Running, Claimed, Recorded
  <2>2. QED
    BY <1>1, <2>1 DEF Ledger!ledger
<1>2. CASE Environment
  BY <1>1, <1>2 DEF Environment, InitFixture, Kill, Unkill, EditFixture,
     CorruptBaseline, store
<1>3. ASSUME NEW p \in Procs, PlanStart(p) \/ Start(p) \/ Step(p) \/ Crash(p)
      PROVE  [Ledger!Next]_(Ledger!ledger)
  <2>1. CASE PlanStart(p) \/ Start(p) \/ PlanStep(p)
    BY <1>0, <2>1, LedgerPlan
  <2>2. CASE ClaimStep(p)
    BY <1>0, <2>2, LedgerClaim
  <2>3. CASE BaselineStep(p)
    BY <1>0, <2>3, LedgerBaseline
  <2>4. CASE InvokeStep(p)
    BY <1>0, <2>4, LedgerInvoke
  <2>5. CASE Crash(p)
    <3>1. Exit(p) /\ UNCHANGED <<queue, inode, planned, rows>> /\ Lossy
      BY <2>5 DEF Crash, store, Lossy
    <3>2. CASE Claimed(p)
      BY <1>0, <3>1, <3>2, LedgerLose
    <3>3. CASE ~Claimed(p)
      <4>1. ~Claimed(p)' /\ \A q \in Procs \ {p} : proc'[q] = proc[q]
        BY <1>0, <3>1, Arrives, BecomeEffect DEF Exit, IdleProc, Idle, Claimed,
           AfterClaim
      <4>2. Pending' = Pending
        BY <3>1 DEF Pending
      <4>3. QED
        BY <3>1, <3>3, <4>1, <4>2, LedgerKeep
    <3>4. QED
      BY <3>2, <3>3
  <2>6. QED
    BY <1>3, <2>1, <2>2, <2>3, <2>4, <2>5 DEF Step
<1>4. CASE UNCHANGED vars
  BY <1>1, <1>4 DEF vars
<1>5. QED
  BY <1>2, <1>3, <1>4 DEF Next

LEMMA AlwaysQuiet == Spec => []QuietInv
<1>1. Init => QuietInv
  BY TypeInit, FileInit, PureInit, DigestInit, SoloInit DEF QuietInv
<1>2. QuietInv /\ [Next]_vars => QuietInv'
  <2>1. ~Lossy => "midrun" \notin Faults
    BY Solo
  <2>2. QED
    BY <2>1, TypeNext, FileNext, PureNext, DigestNext, SoloNext DEF QuietInv,
       Lossy, Racy
<1>3. QED
  BY <1>1, <1>2, PTL DEF Spec

(* The calibration path implements the ledger.  With a single process each  *)
(* packet file is claimed once, by a run-next that runs what it says, and   *)
(* recorded by exactly one row unless the process dies, its provider or     *)
(* fixture goes away or a manifest or baseline of a kind nobody handles     *)
(* ends it.  With any number of them a claim still uses up a file, so there *)
(* are no more claims than files, and at most one row for each: a run-next  *)
(* that runs an older packet again has taken a newer one away               *)
(* (TaskQueue.dequeue, run_next and insert_experiment).                     *)
THEOREM LedgerImplemented == Spec => LedgerSpec
<1>1. QuietInv /\ [Next]_vars => [Ledger!Next]_(Ledger!ledger)
  BY LedgerNext
<1>2. QED
  BY <1>1, AlwaysQuiet, LedgerInit, PTL DEF Spec, LedgerSpec, Ledger!Spec

-----------------------------------------------------------------------------
(* The trace against the scoreboard.  An invocation is in flight, then its  *)
(* end is in the trace and its row is being written, then the row is there; *)
(* a step moves it on in all three places, or a process dies on the way.    *)
Covers(r) ==
    LET ended    == trace[r].finished + trace[r].broken
        recorded == Cardinality(InvokedRows(r)) + Cardinality(Reporting(r))
    IN  /\ recorded <= ended
        /\ ended + Cardinality(Invoking(r)) <= trace[r].invoked
        /\ ~Lossy => /\ recorded = ended
                     /\ ended + Cardinality(Invoking(r)) = trace[r].invoked

LEMMA CoverSizes ==
    ASSUME NEW r
    PROVE  /\ IsFiniteSet(InvokedRows(r)) /\ Cardinality(InvokedRows(r)) \in Nat
           /\ IsFiniteSet(Reporting(r)) /\ Cardinality(Reporting(r)) \in Nat
           /\ IsFiniteSet(Invoking(r)) /\ Cardinality(Invoking(r)) \in Nat
<1>1. InvokedRows(r) \in SUBSET ExpIds
  BY DEF InvokedRows, RowsOf, Recorded
<1>2. Reporting(r) \in SUBSET Procs /\ Invoking(r) \in SUBSET Procs
  BY DEF Reporting, Invoking
<1>3. QED
  BY <1>1, <1>2, ExpIdsFinite, ProcSubset

LEMMA TraceTyped ==
    ASSUME TypeOK, NEW r \in RunIds
    PROVE  /\ trace[r].invoked \in Nat /\ trace[r].finished \in Nat
           /\ trace[r].broken \in Nat
  BY DEF TypeOK, Counts

LEMMA CoverInit == Init => \A r \in RunIds : Covers(r)
<1> SUFFICES ASSUME Init, NEW r \in RunIds PROVE Covers(r)
  OBVIOUS
<1>1. InvokedRows(r) = {} /\ Reporting(r) = {} /\ Invoking(r) = {}
  BY DEF Init, InvokedRows, RowsOf, Recorded, Reporting, Invoking, At, IdleProc,
     Idle
<1>2. trace[r].invoked = 0 /\ trace[r].finished = 0 /\ trace[r].broken = 0
  BY DEF Init
<1>3. QED
  BY <1>1, <1>2, FS_EmptySet DEF Covers

(* What process p's step does to the invocations of run r.                  *)
LEMMA CoverAfter ==
    ASSUME TypeOK, NEW p \in Procs, NEW x, Become(p, x), NEW r
    PROVE  /\ Reporting(r)' =
                IF x.pc = "persist" /\ x.run = r /\ Reported(x.out)
                THEN Reporting(r) \cup {p} ELSE Reporting(r) \ {p}
           /\ Invoking(r)' = IF x.pc = "invoking" /\ x.run = r
                             THEN Invoking(r) \cup {p} ELSE Invoking(r) \ {p}
<1>1. proc'[p] = x /\ \A q \in Procs \ {p} : proc'[q] = proc[q]
  BY BecomeEffect
<1>2. QED
  BY <1>1 DEF Reporting, Invoking, At

(* Fewer in flight only where an invocation may be lost.                    *)
LEMMA CoverShrinks ==
    ASSUME TypeOK, NEW r \in RunIds, Covers(r),
           trace' = trace, InvokedRows(r)' = InvokedRows(r),
           Reporting(r)' \subseteq Reporting(r),
           Invoking(r)' \subseteq Invoking(r),
           ~Lossy => /\ Reporting(r)' = Reporting(r)
                     /\ Invoking(r)' = Invoking(r)
    PROVE  Covers(r)'
<1>1. /\ Cardinality(Reporting(r)') <= Cardinality(Reporting(r))
      /\ Cardinality(Reporting(r)') \in Nat
      /\ Cardinality(Invoking(r)') <= Cardinality(Invoking(r))
      /\ Cardinality(Invoking(r)') \in Nat
  BY CoverSizes, FS_Subset, FS_CardinalityType
<1>2. Lossy' = Lossy
  BY DEF Lossy
<1>3. QED
  BY <1>1, <1>2, TraceTyped, CoverSizes DEF Covers

(* A process that is at no invocation afterwards, and was at none before or *)
(* may lose it.                                                             *)
LEMMA CoverMove ==
    ASSUME TypeOK, \A r \in RunIds : Covers(r),
           NEW p \in Procs, NEW x, Become(p, x), trace' = trace, rows' = rows,
           x.pc # "invoking", x.pc = "persist" => ~Reported(x.out),
           Lossy \/ proc[p].pc \notin {"invoking", "persist"}
    PROVE  (\A r \in RunIds : Covers(r))'
<1> SUFFICES ASSUME NEW r \in RunIds PROVE Covers(r)'
  BY DEF RunIds
<1>1. Reporting(r)' = Reporting(r) \ {p} /\ Invoking(r)' = Invoking(r) \ {p}
  BY CoverAfter
<1>2. ~Lossy => p \notin Reporting(r) /\ p \notin Invoking(r)
  BY DEF Reporting, Invoking, At
<1>3. InvokedRows(r)' = InvokedRows(r)
  BY DEF InvokedRows, RowsOf, Recorded
<1>4. QED
  BY <1>1, <1>2, <1>3, CoverShrinks

LEMMA CoverGoto ==
    ASSUME TypeOK, \A r \in RunIds : Covers(r),
           NEW p \in Procs, NEW label, Goto(p, label),
           trace' = trace, rows' = rows,
           label \notin {"invoking", "persist"},
           proc[p].pc \notin {"invoking", "persist"}
    PROVE  (\A r \in RunIds : Covers(r))'
<1> DEFINE x == [proc[p] EXCEPT !.pc = label]
<1>1. x.pc = label
  BY DEF TypeOK, Proc
<1>2. Become(p, x)
  BY DEF Goto
<1> HIDE DEF x
<1>3. QED
  BY <1>1, <1>2, CoverMove

LEMMA CoverExit ==
    ASSUME TypeOK, \A r \in RunIds : Covers(r),
           NEW p \in Procs, Exit(p), trace' = trace, rows' = rows,
           Lossy \/ proc[p].pc \notin {"invoking", "persist"}
    PROVE  (\A r \in RunIds : Covers(r))'
<1>1. IdleProc.pc = "idle"
  BY DEF IdleProc, Idle
<1>2. QED
  BY <1>1, CoverMove DEF Exit

(* A baseline that blocks the task before any invocation is not reported.   *)
LEMMA CoverBlocked ==
    ASSUME TypeOK, \A r \in RunIds : Covers(r),
           NEW p \in Procs, BlockReproducibility(p),
           trace' = trace, rows' = rows,
           proc[p].pc \notin {"invoking", "persist"}
    PROVE  (\A r \in RunIds : Covers(r))'
<1> DEFINE out == BlockedOutcome("BLOCKED_REPRODUCIBILITY", ZeroUsage)
           x == [proc[p] EXCEPT !.pc = "persist", !.out = out]
<1>1. x.pc = "persist" /\ x.out = out
  BY DEF TypeOK, Proc
<1>2. ~Reported(out)
  BY DEF Reported, BlockedOutcome
<1>3. Become(p, x)
  BY DEF BlockReproducibility, Persist
<1> HIDE DEF x, out
<1>4. QED
  BY <1>1, <1>2, <1>3, CoverMove

LEMMA CoverPlan ==
    ASSUME TypeOK, \A r \in RunIds : Covers(r),
           NEW p \in Procs, PlanStart(p) \/ Start(p) \/ PlanStep(p)
    PROVE  (\A r \in RunIds : Covers(r))'
<1>1. /\ trace' = trace /\ rows' = rows
      /\ proc[p].pc \notin {"invoking", "persist"}
  BY DEF PlanStart, Start, PlanStep, PlanMint, PlanOpen, PlanFill, At, Idle,
     store
<1>2. CASE PlanStart(p)
  <2>1. PICK v \in Providers :
          Become(p, [IdleProc EXCEPT !.pc = "plan_mint", !.run = latest,
                                     !.prov = v])
    BY <1>2 DEF PlanStart
  <2>2. [IdleProc EXCEPT !.pc = "plan_mint", !.run = latest,
                         !.prov = v].pc = "plan_mint"
    BY DEF IdleProc
  <2>3. QED
    BY <1>1, <2>1, <2>2, CoverMove
<1>3. CASE Start(p)
  <2>1. PICK v \in Providers :
          Become(p, [IdleProc EXCEPT !.pc = "check", !.run = latest,
                                     !.prov = v, !.seeded = RowsOf(latest)])
    BY <1>3 DEF Start
  <2>2. [IdleProc EXCEPT !.pc = "check", !.run = latest,
                         !.prov = v, !.seeded = RowsOf(latest)].pc = "check"
    BY DEF IdleProc
  <2>3. QED
    BY <1>1, <2>1, <2>2, CoverMove
<1>4. CASE PlanMint(p)
  <2>1. PICK e \in ExpIds :
          Become(p, [proc[p] EXCEPT !.pc = "plan_open",
                       !.packet = [exp |-> e, prov |-> proc[p].prov]])
    BY <1>4 DEF PlanMint
  <2>2. [proc[p] EXCEPT !.pc = "plan_open",
           !.packet = [exp |-> e, prov |-> proc[p].prov]].pc = "plan_open"
    BY DEF TypeOK, Proc
  <2>3. QED
    BY <1>1, <2>1, <2>2, CoverMove
<1>5. CASE PlanOpen(p)
  BY <1>1, <1>5, Opens, CoverMove
<1>6. CASE PlanFill(p)
  BY <1>1, <1>6, CoverExit DEF PlanFill
<1>7. QED
  BY <1>2, <1>3, <1>4, <1>5, <1>6 DEF PlanStep

LEMMA CoverClaim ==
    ASSUME TypeOK, \A r \in RunIds : Covers(r), NEW p \in Procs, ClaimStep(p)
    PROVE  (\A r \in RunIds : Covers(r))'
<1>1. /\ trace' = trace /\ rows' = rows
      /\ proc[p].pc \notin {"invoking", "persist"}
  BY DEF ClaimStep, CheckCanInvoke, Peek, DequeueRead, DequeueUnlink, At, store
<1>2. CASE CheckCanInvoke(p) \/ Peek(p) \/ DequeueUnlink(p)
  <2>1. Exit(p) \/ \E label \in {"peek", "read", "digest"} : Goto(p, label)
    BY <1>2 DEF CheckCanInvoke, Peek, DequeueUnlink
  <2>2. QED
    BY <1>1, <2>1, CoverExit, CoverGoto
<1>3. CASE DequeueRead(p)
  BY <1>1, <1>3, Reads, CoverExit, CoverMove
<1>4. QED
  BY <1>2, <1>3 DEF ClaimStep

LEMMA CoverBaseline ==
    ASSUME TypeOK, \A r \in RunIds : Covers(r),
           NEW p \in Procs, BaselineStep(p)
    PROVE  (\A r \in RunIds : Covers(r))'
<1>1. /\ trace' = trace /\ rows' = rows
      /\ proc[p].pc \notin {"invoking", "persist"}
  BY DEF BaselineStep, FixtureDigest, FixtureRead, FixtureOpen, FixtureFill,
     VersionRead, VersionOpen, VersionFill, At, store
<1>2. CASE BlockReproducibility(p) \/ Exit(p)
  BY <1>1, <1>2, CoverBlocked, CoverExit
<1>3. ASSUME NEW label \in {"fixture_open", "fixture_fill", "version_read",
                            "version_fill", "resolve"}, Goto(p, label)
      PROVE  (\A r \in RunIds : Covers(r))'
  BY <1>1, <1>3, CoverGoto
<1>4. CASE FixtureDigest(p)
  <2> DEFINE x == [proc[p] EXCEPT !.pc = "fixture_read", !.digest = fixture]
  <2>1. x.pc = "fixture_read"
    BY DEF TypeOK, Proc
  <2>2. BlockReproducibility(p) \/ Exit(p) \/ Become(p, x)
    BY <1>4 DEF FixtureDigest, NoManifest
  <2> HIDE DEF x
  <2>3. QED
    BY <1>1, <1>2, <2>1, <2>2, CoverMove
<1>5. CASE FixtureRead(p)
  <2>1. \/ BlockReproducibility(p) \/ Exit(p)
        \/ \E label \in {"fixture_open", "version_read"} : Goto(p, label)
    BY <1>5 DEF FixtureRead, FixtureUnreadable, FixtureDrift
  <2>2. QED
    BY <1>2, <1>3, <2>1
<1>6. CASE FixtureOpen(p) \/ FixtureFill(p) \/ VersionOpen(p) \/ VersionFill(p)
  BY <1>3, <1>6 DEF FixtureOpen, FixtureFill, VersionOpen, VersionFill
<1>7. CASE VersionRead(p)
  <2> DEFINE x == [proc[p] EXCEPT !.pc = "version_open",
                     !.seen = IF versionBase = NoFile THEN {} ELSE versionBase]
  <2>1. x.pc = "version_open"
    BY DEF TypeOK, Proc
  <2>2. \/ BlockReproducibility(p) \/ Exit(p) \/ Goto(p, "resolve")
        \/ Become(p, x)
    BY <1>7 DEF VersionRead, VersionsUnreadable
  <2> HIDE DEF x
  <2>3. QED
    BY <1>1, <1>2, <1>3, <2>1, <2>2, CoverMove
<1>8. QED
  BY <1>4, <1>5, <1>6, <1>7 DEF BaselineStep

(* provider_invoked is in the trace when the adapter is called.             *)
LEMMA CoverInvoke ==
    ASSUME TypeOK, \A r \in RunIds : Covers(r), NEW p \in Procs, Invoke(p)
    PROVE  (\A r \in RunIds : Covers(r))'
<1> SUFFICES ASSUME NEW r \in RunIds PROVE Covers(r)'
  BY DEF RunIds
<1> DEFINE x == [proc[p] EXCEPT !.pc = "invoking"]
           own == proc[p].run
<1>1. x.pc = "invoking" /\ x.run = own
  BY DEF TypeOK, Proc
<1>2. /\ Become(p, x) /\ rows' = rows /\ proc[p].pc = "invoke" /\ own \in RunIds
      /\ trace' = [trace EXCEPT ![own].invoked = @ + 1]
  BY DEF Invoke, Goto, Emit, At, TypeOK, ProcOK, Idle
<1> HIDE DEF x
<1>3. p \notin Reporting(r) /\ p \notin Invoking(r)
  BY <1>2 DEF Reporting, Invoking, At
<1>4. /\ Reporting(r)' = Reporting(r)
      /\ Invoking(r)' = IF own = r THEN Invoking(r) \cup {p} ELSE Invoking(r)
  <2>1. Reporting(r)' = Reporting(r) \ {p}
    BY <1>1, <1>2, CoverAfter
  <2>2. Invoking(r)' = IF own = r THEN Invoking(r) \cup {p}
                                  ELSE Invoking(r) \ {p}
    BY <1>1, <1>2, CoverAfter
  <2>3. QED
    BY <1>3, <2>1, <2>2
<1>5. InvokedRows(r)' = InvokedRows(r) /\ Lossy' = Lossy
  BY <1>2 DEF InvokedRows, RowsOf, Recorded, Lossy
<1>6. CASE own # r
  <2>1. trace'[r] = trace[r]
    BY <1>2, <1>6 DEF TypeOK
  <2>2. QED
    BY <1>4, <1>5, <1>6, <2>1 DEF Covers
<1>7. CASE own = r
  <2>1. /\ trace'[r].invoked = trace[r].invoked + 1
        /\ trace'[r].finished = trace[r].finished
        /\ trace'[r].broken = trace[r].broken
    BY <1>2, <1>7 DEF TypeOK, Counts
  <2>2. Cardinality(Invoking(r)') = Cardinality(Invoking(r)) + 1
    BY <1>3, <1>4, <1>7, CoverSizes, FS_AddElement
  <2>3. QED
    BY <1>4, <1>5, <2>1, <2>2, TraceTyped, CoverSizes DEF Covers
<1>8. QED
  BY <1>6, <1>7

(* task_finished or breaker_triggered, and the row will report it.          *)
LEMMA CoverEnd ==
    ASSUME TypeOK, \A r \in RunIds : Covers(r), NEW p \in Procs,
           At(p, "invoking"), NEW out, Persist(p, out), Reported(out),
           Emit(p, "finished") \/ Emit(p, "broken"), rows' = rows
    PROVE  (\A r \in RunIds : Covers(r))'
<1> SUFFICES ASSUME NEW r \in RunIds PROVE Covers(r)'
  BY DEF RunIds
<1> DEFINE x == [proc[p] EXCEPT !.pc = "persist", !.out = out]
           own == proc[p].run
<1>1. x.pc = "persist" /\ x.run = own /\ x.out = out
  BY DEF TypeOK, Proc
<1>2. Become(p, x) /\ own \in RunIds
  BY DEF Persist, At, TypeOK, ProcOK, Idle
<1> HIDE DEF x
<1>3. p \notin Reporting(r) /\ (p \in Invoking(r) <=> own = r)
  BY DEF Reporting, Invoking, At
<1>4. /\ Reporting(r)' = IF own = r THEN Reporting(r) \cup {p} ELSE Reporting(r)
      /\ Invoking(r)' = Invoking(r) \ {p}
  BY <1>1, <1>2, <1>3, CoverAfter
<1>5. InvokedRows(r)' = InvokedRows(r) /\ Lossy' = Lossy
  BY DEF InvokedRows, RowsOf, Recorded, Lossy
<1>6. CASE own # r
  <2>1. trace'[r] = trace[r]
    BY <1>6 DEF TypeOK, Emit
  <2>2. Invoking(r)' = Invoking(r)
    BY <1>3, <1>4, <1>6
  <2>3. QED
    BY <1>4, <1>5, <1>6, <2>1, <2>2 DEF Covers
<1>7. CASE own = r
  <2>1. /\ trace'[r].invoked = trace[r].invoked
        /\ trace'[r].finished + trace'[r].broken
             = trace[r].finished + trace[r].broken + 1
    <3>1. CASE Emit(p, "finished")
      <4>1. /\ trace'[r].invoked = trace[r].invoked
            /\ trace'[r].finished = trace[r].finished + 1
            /\ trace'[r].broken = trace[r].broken
        BY <1>7, <3>1 DEF TypeOK, Counts, Emit
      <4>2. QED
        BY <4>1, TraceTyped
    <3>2. CASE Emit(p, "broken")
      <4>1. /\ trace'[r].invoked = trace[r].invoked
            /\ trace'[r].finished = trace[r].finished
            /\ trace'[r].broken = trace[r].broken + 1
        BY <1>7, <3>2 DEF TypeOK, Counts, Emit
      <4>2. QED
        BY <4>1, TraceTyped
    <3>3. QED
      BY <3>1, <3>2
  <2>2. Cardinality(Reporting(r)') = Cardinality(Reporting(r)) + 1
    BY <1>3, <1>4, <1>7, CoverSizes, FS_AddElement
  <2>3. Cardinality(Invoking(r)') = Cardinality(Invoking(r)) - 1
    BY <1>3, <1>4, <1>7, CoverSizes, FS_RemoveElement
  <2> DEFINE ended == trace[r].finished + trace[r].broken
             reported == Cardinality(InvokedRows(r)) + Cardinality(Reporting(r))
  <2>4. ended \in Nat /\ reported \in Nat /\ Cardinality(Invoking(r)) \in Nat
    BY TraceTyped, CoverSizes
  <2>5. Cardinality(InvokedRows(r)') + Cardinality(Reporting(r)') = reported + 1
    BY <1>5, <2>2, CoverSizes
  <2>6. /\ reported <= ended
        /\ ended + Cardinality(Invoking(r)) <= trace[r].invoked
        /\ ~Lossy => /\ reported = ended
                     /\ ended + Cardinality(Invoking(r)) = trace[r].invoked
    BY DEF Covers
  <2> HIDE DEF ended, reported
  <2>7. trace'[r].finished + trace'[r].broken = ended + 1
    BY <2>1 DEF ended
  <2>8. QED
    BY <1>5, <2>1, <2>3, <2>4, <2>5, <2>6, <2>7, TraceTyped DEF Covers
<1>8. QED
  BY <1>6, <1>7

(* The row takes over what the process was about to report; it is refused   *)
(* only to one that another process has overtaken.                          *)
LEMMA CoverInsert ==
    ASSUME TypeOK, \A r \in RunIds : Covers(r), ~Lossy => SoloInv,
           NEW p \in Procs, InsertRow(p)
    PROVE  (\A r \in RunIds : Covers(r))'
<1> DEFINE row == [run |-> proc[p].run, prov |-> proc[p].prov,
                   out |-> proc[p].out, digest |-> proc[p].digest]
           exp == proc[p].packet.exp
<1>1. Claimed(p) /\ Exit(p) /\ trace' = trace /\ proc[p].pc = "persist"
  BY DEF InsertRow, At, Claimed, AfterClaim
<1>2. /\ exp \in ExpIds
      /\ rows' = IF rows[exp] = NoRow THEN [rows EXCEPT ![exp] = row] ELSE rows
  BY <1>1, ClaimedOK DEF InsertRow, Insert, Packet
<1>3. CASE rows[exp] # NoRow
  <2>1. ~Lossy => OwnFresh(proc[p], latest, queue, rows)
    BY DEF SoloInv
  <2>2. Lossy
    BY <1>1, <1>3, <2>1 DEF OwnFresh, Claimed, Holding, AfterClaim, Idle
  <2>3. QED
    BY <1>1, <1>2, <1>3, <2>2, CoverExit
<1>4. CASE rows[exp] = NoRow
  <2> SUFFICES ASSUME NEW r \in RunIds PROVE Covers(r)'
    BY DEF RunIds
  <2>1. row # NoRow /\ row.run = proc[p].run /\ row.out = proc[p].out
    <3>1. proc[p].out \in Outcome /\ proc[p].digest \in Digests \cup {Missing}
      BY <1>1 DEF TypeOK, ProcOK, Proc
    <3>2. row \in Row
      BY <1>1, <3>1, ClaimedOK DEF Row
    <3>3. QED
      BY <3>2, SentinelAssumption DEF SentinelAssumption
  <2> DEFINE reports == proc[p].run = r /\ Reported(proc[p].out)
  <2> HIDE DEF row, exp
  <2>2. rows' = [rows EXCEPT ![exp] = row] /\ rows \in [ExpIds -> Row \cup {NoRow}]
    BY <1>2, <1>4 DEF TypeOK
  <2>3. /\ InvokedRows(r)' = IF reports THEN InvokedRows(r) \cup {exp}
                                        ELSE InvokedRows(r)
        /\ exp \notin InvokedRows(r)
    BY <1>2, <1>4, <2>1, <2>2 DEF InvokedRows, RowsOf, Recorded
  <2>4. IdleProc.pc = "idle"
    BY DEF IdleProc, Idle
  <2>5. Reporting(r)' = Reporting(r) \ {p} /\ Invoking(r)' = Invoking(r) \ {p}
    BY <1>1, <2>4, CoverAfter DEF Exit
  <2>6. (p \in Reporting(r) <=> reports) /\ p \notin Invoking(r)
    BY <1>1 DEF Reporting, Invoking, At
  <2> HIDE DEF reports
  <2>7. Lossy' = Lossy
    BY DEF Lossy
  <2>8. CASE ~reports
    <3>1. Reporting(r)' = Reporting(r) /\ Invoking(r)' = Invoking(r)
      BY <2>5, <2>6, <2>8
    <3>2. QED
      BY <1>1, <2>3, <2>7, <2>8, <3>1 DEF Covers
  <2>9. CASE reports
    <3>1. Cardinality(InvokedRows(r)') = Cardinality(InvokedRows(r)) + 1
      BY <2>3, <2>9, CoverSizes, FS_AddElement
    <3>2. Cardinality(Reporting(r)') = Cardinality(Reporting(r)) - 1
      BY <2>5, <2>6, <2>9, CoverSizes, FS_RemoveElement
    <3>3. Invoking(r)' = Invoking(r)
      BY <2>5, <2>6
    <3>4. Cardinality(InvokedRows(r)') + Cardinality(Reporting(r)')
            = Cardinality(InvokedRows(r)) + Cardinality(Reporting(r))
      BY <3>1, <3>2, CoverSizes
    <3>5. QED
      BY <1>1, <2>7, <3>3, <3>4 DEF Covers
  <2>10. QED
    BY <2>8, <2>9
<1>5. QED
  BY <1>3, <1>4

LEMMA CoverInvokeStep ==
    ASSUME TypeOK, \A r \in RunIds : Covers(r),
           ~Lossy => DigestInv /\ SoloInv,
           NEW p \in Procs, InvokeStep(p)
    PROVE  (\A r \in RunIds : Covers(r))'
<1>1. CASE Resolve(p)
  <2>1. /\ trace' = trace /\ rows' = rows
        /\ proc[p].pc \notin {"invoking", "persist"}
        /\ Goto(p, "invoke") \/ Exit(p)
    BY <1>1 DEF Resolve, store, At
  <2>2. QED
    BY <2>1, CoverGoto, CoverExit
<1>2. CASE Invoke(p)
  BY <1>2, CoverInvoke
<1>3. CASE InvokeStopped(p)
  <2>1. PICK why \in {"RepeatedFailureBreaker", "Sandbox"} :
          Persist(p, BlockedOutcome(why, ZeroUsage))
    BY <1>3 DEF InvokeStopped
  <2>2. Reported(BlockedOutcome(why, ZeroUsage))
    BY DEF Reported, BlockedOutcome
  <2>3. QED
    BY <1>3, <2>1, <2>2, CoverEnd DEF InvokeStopped
<1>4. CASE InvokeRaises(p)
  <2>1. Lossy
    BY <1>4, NoRaise
  <2>2. QED
    BY <1>4, <2>1, CoverExit DEF InvokeRaises, store
<1>5. ASSUME NEW u \in Usages, NEW s \in ResultStatuses, InvokeReturns(p, u, s)
      PROVE  (\A r \in RunIds : Covers(r))'
  <2> DEFINE b == RecordPostInvoke(Accumulators(proc[p].seeded), proc[p].prov, u).breaker
             fine == [status |-> s, reason |-> NoBreaker, usage |-> u]
  <2>1. b \in Breakers \cup {NoBreaker}
    BY PostInvokeBreakerType
  <2>2. \/ Emit(p, "finished") /\ Persist(p, fine)
        \/ Emit(p, "broken") /\ Persist(p, BlockedOutcome(b, u))
    BY <1>5 DEF InvokeReturns
  <2> HIDE DEF b
  <2>3. Reported(fine) /\ Reported(BlockedOutcome(b, u))
    BY <2>1 DEF Reported, BlockedOutcome, Breakers, NoBreaker
  <2> HIDE DEF fine
  <2>4. At(p, "invoking") /\ rows' = rows
    BY <1>5 DEF InvokeReturns
  <2>5. QED
    BY <2>2, <2>3, <2>4, CoverEnd
<1>6. CASE InsertRow(p)
  BY <1>6, CoverInsert
<1>7. QED
  BY <1>1, <1>2, <1>3, <1>4, <1>5, <1>6 DEF InvokeStep

LEMMA CoverNext ==
    ASSUME QuietInv, \A r \in RunIds : Covers(r), [Next]_vars
    PROVE  (\A r \in RunIds : Covers(r))'
<1>1. TypeOK /\ (~Lossy => DigestInv /\ SoloInv)
  BY DEF QuietInv
<1>2. CASE UNCHANGED <<rows, trace, proc>>
  <2> SUFFICES ASSUME NEW r \in RunIds PROVE Covers(r)'
    BY DEF RunIds
  <2>1. /\ InvokedRows(r)' = InvokedRows(r) /\ Reporting(r)' = Reporting(r)
        /\ Invoking(r)' = Invoking(r)
    BY <1>2 DEF InvokedRows, RowsOf, Recorded, Reporting, Invoking, At
  <2>2. QED
    BY <1>1, <1>2, <2>1, CoverShrinks
<1>3. CASE Environment
  BY <1>2, <1>3 DEF Environment, InitFixture, Kill, Unkill, EditFixture,
     CorruptBaseline, store
<1>4. ASSUME NEW p \in Procs, PlanStart(p) \/ Start(p) \/ Step(p) \/ Crash(p)
      PROVE  (\A r \in RunIds : Covers(r))'
  <2>1. CASE PlanStart(p) \/ Start(p) \/ PlanStep(p)
    BY <1>1, <2>1, CoverPlan
  <2>2. CASE ClaimStep(p)
    BY <1>1, <2>2, CoverClaim
  <2>3. CASE BaselineStep(p)
    BY <1>1, <2>3, CoverBaseline
  <2>4. CASE InvokeStep(p)
    BY <1>1, <2>4, CoverInvokeStep
  <2>5. CASE Crash(p)
    <3>1. Lossy /\ Exit(p) /\ trace' = trace /\ rows' = rows
      BY <2>5 DEF Crash, Lossy, store
    <3>2. QED
      BY <1>1, <3>1, CoverExit
  <2>6. QED
    BY <1>4, <2>1, <2>2, <2>3, <2>4, <2>5 DEF Step
<1>5. CASE UNCHANGED vars
  BY <1>2, <1>5 DEF vars, store
<1>6. QED
  BY <1>3, <1>4, <1>5 DEF Next

(* The trace of a run never shows fewer invocations than the scoreboard has *)
(* rows for them, and shows exactly as many when a single process is not    *)
(* disturbed (wrap_invoke's events against the row of insert_experiment).   *)
THEOREM TraceCovers == Spec => []TraceCoversRows
<1> DEFINE Inv == \A r \in RunIds : Covers(r)
<1>1. Init => Inv
  BY CoverInit
<1>2. QuietInv /\ Inv /\ [Next]_vars => Inv'
  BY CoverNext
<1>3. Inv => TraceCoversRows
  BY DEF Covers, TraceCoversRows
<1>4. QED
  BY <1>1, <1>2, <1>3, AlwaysQuiet, PTL DEF Spec

-----------------------------------------------------------------------------
(* How a command ends. *)

(* The order of the labels: how many steps are left at most.                *)
Rank(label) ==
    CASE label = "plan_mint" -> 3
      [] label = "plan_open" -> 2
      [] label = "plan_fill" -> 1
      [] label = "check" -> 15
      [] label = "peek" -> 14
      [] label = "read" -> 13
      [] label = "unlink" -> 12
      [] label = "digest" -> 11
      [] label = "fixture_read" -> 10
      [] label = "fixture_open" -> 9
      [] label = "fixture_fill" -> 8
      [] label = "version_read" -> 7
      [] label = "version_open" -> 6
      [] label = "version_fill" -> 5
      [] label = "resolve" -> 4
      [] label = "invoke" -> 3
      [] label = "invoking" -> 2
      [] label = "persist" -> 1
      [] OTHER -> 0

(* The row that process p is about to write.                                *)
OwnRow(p) == [run |-> proc[p].run, prov |-> proc[p].prov,
              out |-> proc[p].out, digest |-> proc[p].digest]

(* No command goes round in a circle, whatever the others do to its files.  *)
CommandsEnd ==
    [][\A p \in Procs : Step(p) => Rank(proc'[p].pc) < Rank(proc[p].pc)]_vars

(* Process p keeps the task it holds.                                       *)
Same(p) == /\ proc'[p].packet = proc[p].packet
           /\ proc'[p].file = proc[p].file

(* A task that was claimed stays claimed, the same file under the same id,  *)
(* until its own row is written under that id, which was free.              *)
ClaimsKept ==
    [][~Lossy => \A p \in Procs : Claimed(p) =>
         \/ Claimed(p)' /\ Same(p)
         \/ /\ At(p, "persist") /\ rows[proc[p].packet.exp] = NoRow
            /\ rows' = [rows EXCEPT ![proc[p].packet.exp] = OwnRow(p)]]_vars

LEMMA RankPlan ==
    ASSUME TypeOK, NEW p \in Procs, PlanStep(p)
    PROVE  Rank(proc'[p].pc) < Rank(proc[p].pc)
<1>1. CASE PlanMint(p)
  <2>1. proc[p].pc = "plan_mint" /\ proc'[p].pc = "plan_open"
    BY <1>1 DEF PlanMint, At, Become, TypeOK, Proc
  <2>2. QED
    BY <2>1 DEF Rank
<1>2. CASE PlanOpen(p)
  <2>1. proc[p].pc = "plan_open" /\ proc'[p].pc = "plan_fill"
    BY <1>2, Opens, BecomeEffect DEF PlanOpen, At
  <2>2. QED
    BY <2>1 DEF Rank
<1>3. CASE PlanFill(p)
  <2>1. proc[p].pc = "plan_fill" /\ proc'[p].pc = Idle
    BY <1>3, Arrives DEF PlanFill, At, IdleProc
  <2>2. QED
    BY <2>1 DEF Rank, Idle
<1>4. QED
  BY <1>1, <1>2, <1>3 DEF PlanStep

LEMMA RankStep ==
    ASSUME TypeOK, NEW p \in Procs, Step(p)
    PROVE  Rank(proc'[p].pc) < Rank(proc[p].pc)
<1>1. CASE PlanStep(p)
  BY <1>1, RankPlan
<1>2. CASE ClaimStep(p)
  BY <1>2, AfterClaiming DEF Rank, Idle
<1>3. CASE BaselineStep(p)
  BY <1>3, AfterBaseline, Arrives DEF Rank, IdleProc, Idle
<1>4. CASE InvokeStep(p)
  BY <1>4, AfterInvoke, Arrives DEF Rank, IdleProc, Idle
<1>5. QED
  BY <1>1, <1>2, <1>3, <1>4 DEF Step

(* Every command ends after at most fifteen steps of its own, for any       *)
(* number of others and any faults: no file that they leave makes plan or   *)
(* run-next wait or start again.                                            *)
THEOREM CommandsDoEnd == Spec => CommandsEnd
<1>1. TypeOK => \A p \in Procs : Step(p) => Rank(proc'[p].pc) < Rank(proc[p].pc)
  BY RankStep
<1>2. QED
  BY <1>1, TypeCorrect, PTL DEF Spec, CommandsEnd

LEMMA ClaimStays ==
    ASSUME QuietInv, ~Lossy, [Next]_vars, NEW p \in Procs, Claimed(p)
    PROVE  \/ Claimed(p)' /\ Same(p)
           \/ /\ At(p, "persist") /\ rows[proc[p].packet.exp] = NoRow
              /\ rows' = [rows EXCEPT ![proc[p].packet.exp] = OwnRow(p)]
<1>1. /\ TypeOK /\ DigestInv /\ SoloInv
      /\ Foreign \notin {fixture, fixtureBase, versionBase}
  BY Solo DEF QuietInv, PureInv
<1>2. CASE UNCHANGED proc
  BY <1>2 DEF Claimed, Same
<1>3. CASE BaselineStep(p)
  BY <1>1, <1>3, AfterBaseline DEF Claimed, AfterClaim, Same
<1>4. CASE InvokeStep(p)
  <2>1. CASE InsertRow(p)
    <3>1. /\ At(p, "persist")
          /\ rows' = Insert(proc[p].packet.exp, OwnRow(p))
      BY <2>1 DEF InsertRow, OwnRow
    <3>2. rows[proc[p].packet.exp] = NoRow
      <4>1. OwnFresh(proc[p], latest, queue, rows)
        BY <1>1 DEF SoloInv
      <4>2. QED
        BY <3>1, <4>1 DEF OwnFresh, At, Holding, AfterClaim, Idle
    <3>3. QED
      BY <3>1, <3>2 DEF Insert
  <2>2. CASE ~InsertRow(p)
    <3>1. ~InvokeRaises(p) /\ "unavailable" \notin Faults
      BY <1>1, NoRaise, Solo
    <3>2. QED
      BY <1>1, <1>4, <2>2, <3>1, AfterInvoke DEF Claimed, AfterClaim, Same
  <2>3. QED
    BY <2>1, <2>2
<1>5. CASE PlanStart(p) \/ Start(p) \/ PlanStep(p) \/ ClaimStep(p)
  BY <1>5 DEF PlanStart, Start, PlanStep, PlanMint, PlanOpen, PlanFill, ClaimStep,
              CheckCanInvoke, Peek, DequeueRead, DequeueUnlink, At, Idle, Claimed, AfterClaim
<1>6. CASE Crash(p)
  BY <1>6, Solo DEF Crash
<1>7. \A q \in Procs : q = p
  BY Solo
<1>8. CASE Environment
  BY <1>2, <1>8 DEF Environment, InitFixture, Kill, Unkill, EditFixture, CorruptBaseline
<1>9. QED
  BY <1>2, <1>3, <1>4, <1>5, <1>6, <1>7, <1>8 DEF Next, Step, vars

(* When a single process is not disturbed, whatever breaker, drift, missing *)
(* manifest or torn baseline it meets, its task does not get lost on the    *)
(* way, and the row that records it is its own.  It is disturbed when it is *)
(* killed, when its provider goes away or its fixture changes under it, and *)
(* by what run_next does not catch: a manifest that is not one, a baseline  *)
(* that is no text or no object.  With CommandsDoEnd and the fairness of    *)
(* its steps this is why ClaimedIsRecorded holds.                           *)
THEOREM NoClaimIsLost == Spec => ClaimsKept
<1>1. QuietInv /\ [Next]_vars =>
        [~Lossy => \A p \in Procs : Claimed(p) =>
           \/ Claimed(p)' /\ Same(p)
           \/ /\ At(p, "persist") /\ rows[proc[p].packet.exp] = NoRow
              /\ rows' = [rows EXCEPT ![proc[p].packet.exp] = OwnRow(p)]]_vars
  BY ClaimStays
<1>2. QED
  BY <1>1, AlwaysQuiet, PTL DEF Spec, ClaimsKept
=============================================================================
