------------------------- MODULE EvalHarnessProofs --------------------------
(***************************************************************************)
(* Proofs about EvalHarness, for any number of harnesses at once and any   *)
(* bounds.                                                                 *)
(***************************************************************************)
EXTENDS EvalHarness, NumberLemmas

-----------------------------------------------------------------------------
(* The inductive invariant. *)

Labels == {"init-fixture", "adopt", "plan", "run-next", "research-proxy",
           "impl row", "evaluate", "review", "review row", "memory propose",
           "write proposal", "scan", "exit 0", "exit 1", "aborted"}

MemNumbers == 0 .. MaxMem
HarnessSets == SUBSET Harnesses

Harness == [pc : Labels, run : 0 .. MaxRuns, impl : 0 .. MaxExp,
            review : 0 .. MaxExp, evaluated : 0 .. MaxExp,
            mem : MemNumbers, seen : HarnessSets, failed : BOOLEAN]

TypeInv ==
    /\ latest \in 0 .. MaxRuns
    /\ queue \in [RunIds -> 0 .. MaxExp]
    /\ rows \in [ExpIds -> Row \cup {NoRow}]
    /\ proposals \in [MemIds -> Proposal \cup {NoRow}]
    /\ harness \in [Harnesses -> Harness]

(* Before a command looks for the newest run there is one.                  *)
RunInv ==
    \A h \in Harnesses :
        harness[h].pc \in {"adopt", "plan", "run-next", "research-proxy"} => latest # 0

(* Id e has in table t a row of run r and of the given step.                *)
Has(t, e, step, r) ==
    e \in ExpIds /\ t[e] # NoRow /\ t[e].step = step /\ t[e].run = r

(* What a review is about is in its run.                                    *)
SubjectInv ==
    \A e \in Recorded :
        rows[e].step = "review" => Has(rows, rows[e].subject, "implementation", rows[e].run)

(* What the harness has looked up is in the run it adopted.                 *)
FoundInv ==
    \A h \in Harnesses :
        /\ harness[h].pc \in {"evaluate", "review"}
             => Has(rows, harness[h].impl, "implementation", harness[h].run)
        /\ harness[h].pc \in {"memory propose", "write proposal"}
             => Has(rows, harness[h].review, "review", harness[h].run)

ProposalInv == \A i \in Filed : Has(rows, proposals[i].review, "review", proposals[i].run)

IInv == TypeInv /\ RunInv /\ SubjectInv /\ FoundInv /\ ProposalInv

-----------------------------------------------------------------------------
LEMMA Bounds == MaxRuns \in Nat /\ MaxExp \in Nat /\ MaxSecond \in Nat /\ MaxMem \in Nat
BY HarnessAssumption DEF HarnessAssumption

LEMMA NextExpIdFresh ==
    NextExpId \in Nat \ {0} /\ \A e \in Recorded : e < NextExpId
<1>1. Recorded \subseteq 1 .. MaxExp
  BY DEF Recorded, ExpIds
<1>2. /\ Max({0} \cup Recorded) + 1 \in 1 .. MaxExp + 1
      /\ \A e \in Recorded : e < Max({0} \cup Recorded) + 1
  BY <1>1, Bounds, NextIsFresh
<1>3. NextExpId = Max({0} \cup Recorded) + 1
  BY DEF NextExpId
<1>4. NextExpId \in 1 .. MaxExp + 1
  BY <1>2, <1>3
<1>5. QED
  BY <1>2, <1>3, <1>4, Bounds

LEMMA NowSeconds == Now \subseteq Seconds
BY DEF Now

LEMMA DraftType ==
    ASSUME NEW h \in Harnesses, NEW r \in RunIds,
           NEW step \in {"calibration", "advice", "implementation", "review"},
           NEW artifact \in {"none", "invalid", "valid"},
           NEW subject \in 0 .. MaxExp, NEW second \in Now
    PROVE  /\ Draft(h, r, step, artifact, subject, second) \in Row
           /\ Draft(h, r, step, artifact, subject, second).step = step
           /\ Draft(h, r, step, artifact, subject, second).run = r
           /\ Draft(h, r, step, artifact, subject, second).subject = subject
<1>1. second \in Seconds
  BY NowSeconds
<1>2. QED
  BY <1>1 DEF Draft, Row

(* Rows stay, with their run, their step and their subject; a row that is   *)
(* added is of run r, and if it is a review it is one of that run.          *)
Grows ==
    /\ rows' \in [ExpIds -> Row \cup {NoRow}]
    /\ \A e \in Recorded : /\ rows'[e] \in Row
                           /\ rows'[e].step = rows[e].step
                           /\ rows'[e].run = rows[e].run
                           /\ rows'[e].subject = rows[e].subject
    /\ \A e \in ExpIds \ Recorded :
         rows'[e] # NoRow /\ rows'[e].step = "review"
           => Has(rows, rows'[e].subject, "implementation", rows'[e].run)

(* What is filed stays or is replaced by a proposal of a review in its run. *)
Files ==
    /\ proposals' \in [MemIds -> Proposal \cup {NoRow}]
    /\ \A i \in Filed' :
         \/ i \in Filed /\ proposals'[i] = proposals[i]
         \/ Has(rows, proposals'[i].review, "review", proposals'[i].run)

(* How a harness goes on.                                                   *)
Moves(h, r) == harness' = [harness EXCEPT ![h] = r]

Early == {"adopt", "plan", "run-next", "research-proxy"}

(* Every action of harness h that adds rows and moves it, with what it      *)
(* looked up in order, keeps the invariant.                                 *)
LEMMA StepKeeps ==
    ASSUME IInv, Grows,
           NEW h \in Harnesses, NEW r \in Harness, Moves(h, r),
           latest' \in 0 .. MaxRuns, latest # 0 => latest' # 0,
           queue' \in [RunIds -> 0 .. MaxExp],
           r.pc \in Early => latest' # 0,
           r.pc \in {"evaluate", "review"} => Has(rows, r.impl, "implementation", r.run),
           r.pc \in {"memory propose", "write proposal"}
             => Has(rows, r.review, "review", r.run),
           Files
    PROVE  IInv'
<1>1. harness'[h] = r /\ \A g \in Harnesses : g # h => harness'[g] = harness[g]
  BY DEF Moves, IInv, TypeInv
<1>2. TypeInv'
  BY DEF Moves, IInv, TypeInv, Grows, Files
<1>3. RunInv'
  <2> SUFFICES ASSUME NEW g \in Harnesses, harness'[g].pc \in Early
               PROVE  latest' # 0
    BY DEF RunInv, Early
  <2>1. CASE g = h
    BY <1>1, <2>1
  <2>2. CASE g # h
    <3>1. latest # 0
      BY <1>1, <2>2 DEF IInv, RunInv, Early
    <3>2. QED
      BY <3>1
  <2>3. QED
    BY <2>1, <2>2
<1>4. \A e, step, q : Has(rows, e, step, q) => Has(rows', e, step, q)
  BY HarnessSentinel DEF Has, Grows, Recorded
<1>5. SubjectInv'
  <2> SUFFICES ASSUME NEW e \in ExpIds, rows'[e] # NoRow, rows'[e].step = "review"
               PROVE  Has(rows', rows'[e].subject, "implementation", rows'[e].run)
    BY DEF SubjectInv, Recorded
  <2>1. CASE e \in Recorded
    <3>1. /\ rows'[e].subject = rows[e].subject /\ rows'[e].run = rows[e].run
          /\ rows[e].step = "review"
      BY <2>1 DEF Grows
    <3>2. Has(rows, rows[e].subject, "implementation", rows[e].run)
      BY <2>1, <3>1 DEF IInv, SubjectInv
    <3>3. QED
      BY <1>4, <3>1, <3>2
  <2>2. CASE e \notin Recorded
    <3>1. Has(rows, rows'[e].subject, "implementation", rows'[e].run)
      BY <2>2 DEF Grows
    <3>2. QED
      BY <1>4, <3>1
  <2>3. QED
    BY <2>1, <2>2
<1>6. FoundInv'
  <2> SUFFICES ASSUME NEW g \in Harnesses
               PROVE  /\ harness'[g].pc \in {"evaluate", "review"}
                           => Has(rows', harness'[g].impl, "implementation", harness'[g].run)
                      /\ harness'[g].pc \in {"memory propose", "write proposal"}
                           => Has(rows', harness'[g].review, "review", harness'[g].run)
    BY DEF FoundInv
  <2>1. /\ harness'[g].pc \in {"evaluate", "review"}
             => Has(rows, harness'[g].impl, "implementation", harness'[g].run)
        /\ harness'[g].pc \in {"memory propose", "write proposal"}
             => Has(rows, harness'[g].review, "review", harness'[g].run)
    BY <1>1 DEF IInv, FoundInv
  <2>2. QED
    BY <1>4, <2>1
<1>7. ProposalInv'
  BY <1>4 DEF IInv, ProposalInv, Files
<1>8. QED
  BY <1>2, <1>3, <1>5, <1>6, <1>7 DEF IInv

(* A harness whose step is ok, skipped or failed keeps what it has found.   *)
LEMMA Goes ==
    ASSUME IInv, NEW h \in Harnesses, NEW next \in Labels,
           Ok(h, next) \/ Failed(h, next)
    PROVE  \E r \in Harness : /\ Moves(h, r) /\ r.pc = next
                             /\ r.run = harness[h].run /\ r.impl = harness[h].impl
<1>1. harness \in [Harnesses -> Harness]
  BY DEF IInv, TypeInv
<1>2. CASE Ok(h, next)
  <2> DEFINE r == [harness[h] EXCEPT !.pc = next]
  <2>1. /\ r \in Harness /\ r.pc = next
        /\ r.run = harness[h].run /\ r.impl = harness[h].impl
    BY <1>1 DEF Harness
  <2>2. Moves(h, r)
    BY <1>1, <1>2 DEF Ok, Moves
  <2>3. QED
    BY <2>1, <2>2
<1>3. CASE Failed(h, next)
  <2> DEFINE r == [harness[h] EXCEPT !.failed = TRUE, !.pc = next]
  <2>1. /\ r \in Harness /\ r.pc = next
        /\ r.run = harness[h].run /\ r.impl = harness[h].impl
    BY <1>1 DEF Harness
  <2>2. Moves(h, r)
    BY <1>1, <1>3 DEF Failed, Moves
  <2>3. QED
    BY <2>1, <2>2
<1>4. QED
  BY <1>2, <1>3

(* A step that adds rows at most, after which nothing is looked at that was *)
(* not looked at before.                                                    *)
LEMMA GoesKeeps ==
    ASSUME IInv, Grows, NEW h \in Harnesses, NEW next \in Labels,
           Ok(h, next) \/ Failed(h, next),
           latest' \in 0 .. MaxRuns, latest # 0 => latest' # 0,
           queue' \in [RunIds -> 0 .. MaxExp],
           next \in Early => latest' # 0,
           next = "review" => harness[h].pc = "evaluate",
           next \notin {"evaluate", "memory propose", "write proposal"},
           Files
    PROVE  IInv'
<1>1. PICK r \in Harness : /\ Moves(h, r) /\ r.pc = next
                          /\ r.run = harness[h].run /\ r.impl = harness[h].impl
  BY Goes
<1>2. r.pc \in {"evaluate", "review"} => Has(rows, r.impl, "implementation", r.run)
  BY <1>1 DEF IInv, FoundInv
<1>3. r.pc \notin {"memory propose", "write proposal"}
  BY <1>1
<1>4. r.pc \in Early => latest' # 0
  BY <1>1
<1>5. QED
  BY <1>1, <1>2, <1>3, <1>4, StepKeeps

LEMMA QuietGrows ==
    ASSUME IInv, rows' = rows
    PROVE  Grows
BY DEF IInv, TypeInv, Grows, Recorded

LEMMA QuietFiles ==
    ASSUME IInv, proposals' = proposals
    PROVE  Files
BY DEF IInv, TypeInv, Files, Filed

LEMMA AddGrows ==
    ASSUME IInv, NEW e \in ExpIds \ Recorded, NEW d \in Row,
           rows' = [rows EXCEPT ![e] = d],
           d.step = "review" => Has(rows, d.subject, "implementation", d.run)
    PROVE  Grows
<1>1. \A f \in ExpIds : rows'[f] = IF f = e THEN d ELSE rows[f]
  BY DEF IInv, TypeInv
<1>2. rows' \in [ExpIds -> Row \cup {NoRow}]
  BY DEF IInv, TypeInv
<1>3. \A f \in Recorded : f \in ExpIds /\ f # e /\ rows[f] \in Row
  BY DEF Recorded, IInv, TypeInv
<1>4. \A f \in ExpIds \ Recorded : f # e => rows[f] = NoRow
  BY DEF Recorded
<1>5. QED
  BY <1>1, <1>2, <1>3, <1>4 DEF Grows

LEMMA NewRun == ASSUME IInv, latest # 0 PROVE latest \in RunIds
BY Bounds DEF IInv, TypeInv, RunIds

-----------------------------------------------------------------------------
(* The actions. *)

LEMMA FirstSteps ==
    ASSUME IInv, NEW h \in Harnesses, InitFixture(h) \/ Adopt(h) \/ Plan(h)
    PROVE  IInv'
<1>1. latest \in 0 .. MaxRuns /\ queue \in [RunIds -> 0 .. MaxExp]
  BY DEF IInv, TypeInv
<1>2. CASE InitFixture(h)
  <2>1. /\ queue' = queue /\ rows' = rows /\ proposals' = proposals
        /\ \/ latest < MaxRuns /\ latest' = latest + 1 /\ Ok(h, "adopt")
           \/ Failed(h, "scan") /\ latest' = latest
    BY <1>2 DEF InitFixture
  <2>2. latest' \in 0 .. MaxRuns /\ (latest # 0 => latest' # 0)
    BY <1>1, <2>1, Bounds
  <2>3. Ok(h, "adopt") /\ latest' = latest + 1 => latest' # 0
    BY <1>1, Bounds
  <2>4. Grows /\ Files
    BY <2>1, QuietGrows, QuietFiles
  <2>5. \/ Ok(h, "adopt") /\ latest' # 0
        \/ Failed(h, "scan")
    BY <2>1, <2>3
  <2>6. CASE Ok(h, "adopt") /\ latest' # 0
    BY <1>1, <2>1, <2>2, <2>4, <2>6, GoesKeeps DEF Labels
  <2>7. CASE Failed(h, "scan")
    BY <1>1, <2>1, <2>2, <2>4, <2>7, GoesKeeps DEF Labels, Early
  <2>8. QED
    BY <2>5, <2>6, <2>7
<1>3. CASE Adopt(h)
  <2> DEFINE r == [harness[h] EXCEPT !.run = latest, !.pc = "plan"]
  <2>1. /\ harness' = [harness EXCEPT ![h].run = latest, ![h].pc = "plan"]
        /\ latest' = latest /\ queue' = queue /\ rows' = rows /\ proposals' = proposals
        /\ harness[h].pc = "adopt"
    BY <1>3 DEF Adopt, At
  <2>2. r \in Harness /\ r.pc = "plan"
    BY <1>1 DEF IInv, TypeInv, Harness, Labels
  <2>3. Moves(h, r)
    BY <2>1 DEF Moves, IInv, TypeInv
  <2>4. latest' # 0
    BY <2>1 DEF IInv, RunInv
  <2>5. Grows /\ Files
    BY <2>1, QuietGrows, QuietFiles
  <2> HIDE DEF r
  <2>6. QED
    BY <1>1, <2>1, <2>2, <2>3, <2>4, <2>5, StepKeeps
<1>4. CASE Plan(h)
  <2>1. /\ latest' = latest /\ rows' = rows /\ proposals' = proposals
        /\ harness[h].pc = "plan"
        /\ Ok(h, "run-next") \/ Failed(h, "run-next")
    BY <1>4 DEF Plan, At
  <2>2. queue' \in [RunIds -> 0 .. MaxExp]
    <3>1. CASE queue' = queue
      BY <1>1, <3>1
    <3>2. CASE NextExpId \in ExpIds /\ queue' = [queue EXCEPT ![latest] = NextExpId]
      <4>1. NextExpId \in 0 .. MaxExp
        BY <3>2, Bounds DEF ExpIds
      <4>2. QED
        BY <1>1, <3>2, <4>1
    <3>3. QED
      BY <1>4, <3>1, <3>2 DEF Plan
  <2>3. latest' # 0
    BY <2>1 DEF IInv, RunInv
  <2>4. Grows /\ Files
    BY <2>1, QuietGrows, QuietFiles
  <2>5. QED
    BY <1>1, <2>1, <2>2, <2>3, <2>4, GoesKeeps DEF Labels
<1>5. QED
  BY <1>2, <1>3, <1>4

(* A step of h that adds one row.                                           *)
LEMMA AddKeeps ==
    ASSUME IInv, NEW h \in Harnesses, NEW next \in Labels,
           next \notin Early \cup {"evaluate", "review", "memory propose", "write proposal"},
           Ok(h, next) \/ Failed(h, next),
           NEW e \in ExpIds \ Recorded, NEW d \in Row,
           rows' = [rows EXCEPT ![e] = d],
           d.step = "review" => Has(rows, d.subject, "implementation", d.run),
           UNCHANGED <<latest, queue, proposals>>
    PROVE  IInv'
<1>1. Grows /\ Files
  BY AddGrows, QuietFiles
<1>2. /\ latest' \in 0 .. MaxRuns /\ latest' = latest
      /\ queue' \in [RunIds -> 0 .. MaxExp] /\ proposals' = proposals
  BY DEF IInv, TypeInv
<1>3. QED
  BY <1>1, <1>2, GoesKeeps

LEMMA FreshIds ==
    \A e \in ExpIds : e >= NextExpId => e \in ExpIds \ Recorded
<1> SUFFICES ASSUME NEW e \in ExpIds, e >= NextExpId PROVE e \notin Recorded
  OBVIOUS
<1>1. ~(e < NextExpId)
  BY NextExpIdFresh DEF ExpIds
<1>2. QED
  BY <1>1, NextExpIdFresh

LEMMA RunNextKeeps ==
    ASSUME IInv, NEW h \in Harnesses, RunNext(h) \/ RunNextFails(h)
    PROVE  IInv'
<1>1. /\ harness[h].pc = "run-next" /\ latest' = latest /\ proposals' = proposals
      /\ Ok(h, "research-proxy") \/ Failed(h, "research-proxy")
  BY DEF RunNext, RunNextFails, At
<1>2. latest' \in 0 .. MaxRuns /\ latest' # 0 /\ latest \in RunIds
  BY <1>1, NewRun DEF IInv, TypeInv, RunInv
<1>3. queue' \in [RunIds -> 0 .. MaxExp]
  <2>1. queue \in [RunIds -> 0 .. MaxExp] /\ 0 \in 0 .. MaxExp
    BY Bounds DEF IInv, TypeInv
  <2>2. queue' = queue \/ queue' = [queue EXCEPT ![latest] = 0]
    BY DEF RunNext, RunNextFails
  <2>3. QED
    BY <2>1, <2>2
<1>4. Grows
  <2>1. CASE RunNext(h)
    <3> DEFINE e == queue[latest]
    <3>1. PICK artifact \in {"invalid", "valid"}, second \in Now :
            rows' = [rows EXCEPT ![e] = Draft(h, latest, "calibration", artifact, 0, second)]
      BY <2>1 DEF RunNext
    <3> DEFINE d == Draft(h, latest, "calibration", artifact, 0, second)
    <3>2. d \in Row /\ d.step = "calibration"
      BY <1>2, Bounds, DraftType
    <3>3. e \in ExpIds \ Recorded
      <4>1. e \in 0 .. MaxExp /\ e # 0 /\ rows[e] = NoRow
        BY <1>2, <2>1 DEF RunNext, IInv, TypeInv
      <4>2. QED
        BY <4>1, Bounds DEF ExpIds, Recorded
    <3> HIDE DEF d, e
    <3>4. rows' = [rows EXCEPT ![e] = d]
      BY <3>1 DEF d, e
    <3>5. QED
      BY <3>2, <3>3, <3>4, AddGrows
  <2>2. CASE RunNextFails(h)
    BY <2>2, QuietGrows DEF RunNextFails
  <2>3. QED
    BY <2>1, <2>2
<1>5. Files
  BY <1>1, QuietFiles
<1>6. QED
  BY <1>1, <1>2, <1>3, <1>4, <1>5, GoesKeeps DEF Labels

LEMMA ResearchKeeps ==
    ASSUME IInv, NEW h \in Harnesses, Research(h) \/ ResearchFails(h)
    PROVE  IInv'
<1>1. /\ harness[h].pc = "research-proxy" /\ latest' = latest /\ queue' = queue
      /\ proposals' = proposals /\ (Ok(h, "impl row") \/ Failed(h, "impl row"))
  BY DEF Research, ResearchFails, At
<1>2. latest \in RunIds
  BY <1>1, NewRun DEF IInv, RunInv
<1>3. Grows
  <2>1. CASE Research(h)
    <3> DEFINE e == NextExpId
    <3>1. PICK artifact \in {"none", "invalid", "valid"}, t \in Now, u \in Now :
            rows' = [rows EXCEPT
                       ![e] = Draft(h, latest, "advice", "valid", 0, t),
                       ![e + 1] = Draft(h, latest, "implementation", artifact, 0, u)]
      BY <2>1 DEF Research
    <3> DEFINE a == Draft(h, latest, "advice", "valid", 0, t)
               b == Draft(h, latest, "implementation", artifact, 0, u)
    <3>2. /\ a \in Row /\ a.step = "advice" /\ b \in Row /\ b.step = "implementation"
      BY <1>2, Bounds, DraftType
    <3>3. e \in Nat \ {0} /\ e + 1 \in 1 .. MaxExp
      BY <2>1, NextExpIdFresh DEF Research, ExpIds
    <3>4. e \in ExpIds \ Recorded /\ e + 1 \in ExpIds \ Recorded
      <4>1. e \in ExpIds /\ e + 1 \in ExpIds /\ e >= e /\ e + 1 >= e
        BY <3>3, Bounds DEF ExpIds
      <4>2. QED
        BY <4>1, FreshIds
    <3> HIDE DEF a, b, e
    <3>5. rows' = [rows EXCEPT ![e] = a, ![e + 1] = b]
      BY <3>1 DEF a, b, e
    <3>6. \A f \in ExpIds : rows'[f] = IF f = e + 1 THEN b ELSE IF f = e THEN a ELSE rows[f]
      BY <3>4, <3>5 DEF IInv, TypeInv
    <3>7. rows' \in [ExpIds -> Row \cup {NoRow}]
      BY <3>2, <3>5 DEF IInv, TypeInv
    <3>8. \A f \in Recorded : f \in ExpIds /\ f # e /\ f # e + 1 /\ rows[f] \in Row
      BY <3>4 DEF Recorded, IInv, TypeInv
    <3>9. \A f \in ExpIds \ Recorded : f # e /\ f # e + 1 => rows[f] = NoRow
      BY DEF Recorded
    <3>10. QED
      BY <3>2, <3>6, <3>7, <3>8, <3>9 DEF Grows
  <2>2. CASE ResearchFails(h)
    <3>1. CASE rows' = rows
      BY <3>1, QuietGrows
    <3>2. CASE NextExpId \in ExpIds /\ \E second \in Now :
                 rows' = [rows EXCEPT ![NextExpId] =
                            Draft(h, latest, "advice", "none", 0, second)]
      <4>1. PICK second \in Now :
              rows' = [rows EXCEPT ![NextExpId] =
                            Draft(h, latest, "advice", "none", 0, second)]
        BY <3>2
      <4> DEFINE d == Draft(h, latest, "advice", "none", 0, second)
      <4>2. d \in Row /\ d.step = "advice"
        BY <1>2, Bounds, DraftType
      <4>3. NextExpId \in ExpIds \ Recorded
        BY <3>2, FreshIds, NextExpIdFresh
      <4> HIDE DEF d
      <4>4. rows' = [rows EXCEPT ![NextExpId] = d]
        BY <4>1 DEF d
      <4>5. QED
        BY <4>2, <4>3, <4>4, AddGrows
    <3>3. QED
      BY <2>2, <3>1, <3>2 DEF ResearchFails
  <2>3. QED
    BY <2>1, <2>2
<1>4. latest' \in 0 .. MaxRuns /\ queue' \in [RunIds -> 0 .. MaxExp]
  BY <1>1 DEF IInv, TypeInv
<1>5. /\ "impl row" \in Labels /\ "impl row" \notin Early
      /\ "impl row" \notin {"evaluate", "review", "memory propose", "write proposal"}
  BY DEF Labels, Early
<1>6. /\ latest # 0 => latest' # 0
      /\ Files
  BY <1>1, QuietFiles
<1>7. QED
  BY <1>1, <1>3, <1>4, <1>5, <1>6, GoesKeeps

LEMMA LookupKeeps ==
    ASSUME IInv, NEW h \in Harnesses, LookupImpl(h) \/ LookupReview(h)
    PROVE  IInv'
<1>1. /\ latest' = latest /\ queue' = queue /\ rows' = rows /\ proposals' = proposals
  BY DEF LookupImpl, LookupReview
<1>2. latest' \in 0 .. MaxRuns /\ queue' \in [RunIds -> 0 .. MaxExp]
      /\ harness \in [Harnesses -> Harness]
  BY <1>1 DEF IInv, TypeInv
<1>3. Grows
  BY <1>1, QuietGrows
<1>4. /\ latest # 0 => latest' # 0
      /\ Files
  BY <1>1, QuietFiles
<1>5. "scan" \in Labels /\ "scan" \notin Early
  BY DEF Labels, Early
<1>6. CASE Ok(h, "scan")
  BY <1>2, <1>3, <1>4, <1>5, <1>6, GoesKeeps
<1>7. ASSUME NEW e \in StepRows(harness[h].run, "implementation"),
             harness' = [harness EXCEPT ![h].impl = e, ![h].pc = "evaluate"]
      PROVE  IInv'
  <2> DEFINE r == [harness[h] EXCEPT !.impl = e, !.pc = "evaluate"]
  <2>1. e \in 0 .. MaxExp /\ Has(rows, e, "implementation", harness[h].run)
    <3>1. /\ e \in ExpIds /\ rows[e] # NoRow /\ rows[e].step = "implementation"
          /\ rows[e].run = harness[h].run
      BY DEF StepRows, Recorded
    <3>2. QED
      BY <3>1, Bounds DEF Has, ExpIds
  <2>2. /\ r \in Harness /\ r.pc = "evaluate" /\ r.impl = e /\ r.run = harness[h].run
    BY <1>2, <2>1 DEF Harness, Labels
  <2>3. Moves(h, r)
    BY <1>2, <1>7 DEF Moves
  <2>4. r.pc \notin Early
    BY <2>2 DEF Early
  <2> HIDE DEF r
  <2>5. QED
    BY <1>2, <1>3, <1>4, <2>1, <2>2, <2>3, <2>4, StepKeeps
<1>8. ASSUME NEW e \in StepRows(harness[h].run, "review"),
             harness' = [harness EXCEPT ![h].review = e, ![h].pc = "memory propose"]
      PROVE  IInv'
  <2> DEFINE r == [harness[h] EXCEPT !.review = e, !.pc = "memory propose"]
  <2>1. e \in 0 .. MaxExp /\ Has(rows, e, "review", harness[h].run)
    <3>1. /\ e \in ExpIds /\ rows[e] # NoRow /\ rows[e].step = "review"
          /\ rows[e].run = harness[h].run
      BY DEF StepRows, Recorded
    <3>2. QED
      BY <3>1, Bounds DEF Has, ExpIds
  <2>2. /\ r \in Harness /\ r.pc = "memory propose" /\ r.review = e
        /\ r.run = harness[h].run
    BY <1>2, <2>1 DEF Harness, Labels
  <2>3. Moves(h, r)
    BY <1>2, <1>8 DEF Moves
  <2>4. r.pc \notin Early
    BY <2>2 DEF Early
  <2> HIDE DEF r
  <2>5. QED
    BY <1>2, <1>3, <1>4, <2>1, <2>2, <2>3, <2>4, StepKeeps
<1>9. CASE LookupImpl(h)
  BY <1>6, <1>7, <1>9 DEF LookupImpl, Greatest
<1>10. CASE LookupReview(h)
  BY <1>6, <1>8, <1>10 DEF LookupReview, Greatest
<1>11. QED
  BY <1>9, <1>10

LEMMA EvaluateKeeps ==
    ASSUME IInv, NEW h \in Harnesses, Evaluate(h)
    PROVE  IInv'
<1>1. PICK e \in ExpIds :
        /\ IsLatest(e)
        /\ \/ /\ rows' = [rows EXCEPT ![e].scored = TRUE]
              /\ harness' = [harness EXCEPT ![h].evaluated = e, ![h].pc = "review"]
           \/ Failed(h, "review") /\ rows' = rows
  BY DEF Evaluate
<1>2. /\ latest' = latest /\ queue' = queue /\ proposals' = proposals
      /\ harness[h].pc = "evaluate"
  BY DEF Evaluate, At
<1>3. /\ latest' \in 0 .. MaxRuns /\ queue' \in [RunIds -> 0 .. MaxExp]
      /\ harness \in [Harnesses -> Harness] /\ rows \in [ExpIds -> Row \cup {NoRow}]
  BY <1>2 DEF IInv, TypeInv
<1>4. /\ latest # 0 => latest' # 0
      /\ Files
  BY <1>2, QuietFiles
<1>5. "review" \in Labels /\ "review" \notin Early
  BY DEF Labels, Early
<1>6. CASE Failed(h, "review") /\ rows' = rows
  <2>1. Grows
    BY <1>6, QuietGrows
  <2>2. QED
    BY <1>2, <1>3, <1>4, <1>5, <1>6, <2>1, GoesKeeps
<1>7. CASE /\ rows' = [rows EXCEPT ![e].scored = TRUE]
           /\ harness' = [harness EXCEPT ![h].evaluated = e, ![h].pc = "review"]
  <2> DEFINE r == [harness[h] EXCEPT !.evaluated = e, !.pc = "review"]
             d == [rows[e] EXCEPT !.scored = TRUE]
  <2>1. rows[e] \in Row /\ e \in Recorded
    BY <1>1, <1>3 DEF IsLatest, Recorded
  <2>2. /\ d \in Row /\ d.step = rows[e].step /\ d.run = rows[e].run
        /\ d.subject = rows[e].subject
    BY <2>1 DEF Row
  <2>3. \A f \in ExpIds : rows'[f] = IF f = e THEN d ELSE rows[f]
    BY <1>3, <1>7
  <2>4. rows' \in [ExpIds -> Row \cup {NoRow}]
    BY <1>3, <1>7, <2>2
  <2>5. /\ \A f \in Recorded : f \in ExpIds /\ rows[f] \in Row
        /\ \A f \in ExpIds \ Recorded : rows[f] = NoRow
    BY <1>3 DEF Recorded
  <2> HIDE DEF d
  <2>6. Grows
    BY <2>1, <2>2, <2>3, <2>4, <2>5 DEF Grows
  <2>7. e \in 0 .. MaxExp
    BY Bounds DEF ExpIds
  <2>8. /\ r \in Harness /\ r.pc = "review" /\ r.impl = harness[h].impl
        /\ r.run = harness[h].run
    BY <1>3, <1>5, <2>7 DEF Harness
  <2>9. Moves(h, r)
    BY <1>3, <1>7 DEF Moves
  <2>10. Has(rows, harness[h].impl, "implementation", harness[h].run)
    BY <1>2 DEF IInv, FoundInv
  <2> HIDE DEF r
  <2>11. QED
    BY <1>3, <1>4, <1>5, <2>6, <2>8, <2>9, <2>10, StepKeeps
<1>8. QED
  BY <1>1, <1>6, <1>7

LEMMA ReviewKeeps ==
    ASSUME IInv, NEW h \in Harnesses, Review(h)
    PROVE  IInv'
<1> DEFINE e == harness[h].impl
<1>1. /\ latest' = latest /\ queue' = queue /\ proposals' = proposals
      /\ harness[h].pc = "review"
  BY DEF Review, At
<1>2. /\ latest' \in 0 .. MaxRuns /\ queue' \in [RunIds -> 0 .. MaxExp]
      /\ rows \in [ExpIds -> Row \cup {NoRow}]
  BY <1>1 DEF IInv, TypeInv
<1>3. /\ latest # 0 => latest' # 0
      /\ Files
  BY <1>1, QuietFiles
<1>4. Has(rows, e, "implementation", harness[h].run)
  BY <1>1 DEF IInv, FoundInv
<1>5. /\ "scan" \in Labels /\ "scan" \notin Early
      /\ "review row" \in Labels /\ "review row" \notin Early
  BY DEF Labels, Early
<1>6. CASE rows' = rows /\ Failed(h, "scan")
  <2>1. Grows
    BY <1>6, QuietGrows
  <2>2. QED
    BY <1>2, <1>3, <1>5, <1>6, <2>1, GoesKeeps
<1>7. CASE /\ NextExpId \in ExpIds
           /\ \E artifact \in {"none", "valid"}, second \in Now :
                /\ rows' = [rows EXCEPT ![NextExpId] =
                             Draft(h, rows[e].run, "review", artifact, e, second)]
                /\ (Ok(h, "review row") \/ Failed(h, "scan"))
  <2>1. PICK artifact \in {"none", "valid"}, second \in Now :
                /\ rows' = [rows EXCEPT ![NextExpId] =
                             Draft(h, rows[e].run, "review", artifact, e, second)]
                /\ (Ok(h, "review row") \/ Failed(h, "scan"))
    BY <1>7
  <2> DEFINE d == Draft(h, rows[e].run, "review", artifact, e, second)
  <2>2. rows[e].run \in RunIds /\ e \in 0 .. MaxExp
    BY <1>2, <1>4, Bounds DEF Has, Row, ExpIds
  <2>3. d \in Row /\ d.run = rows[e].run /\ d.subject = e
    BY <2>2, DraftType
  <2>4. Has(rows, d.subject, "implementation", d.run)
    BY <1>4, <2>3 DEF Has
  <2>5. NextExpId \in ExpIds \ Recorded
    <3>1. NextExpId >= NextExpId
      BY NextExpIdFresh
    <3>2. QED
      BY <1>7, <3>1, FreshIds
  <2> HIDE DEF d
  <2>6. Grows
    <3>1. rows' = [rows EXCEPT ![NextExpId] = d]
      BY <2>1 DEF d
    <3>2. QED
      BY <2>3, <2>4, <2>5, <3>1, AddGrows
  <2>7. CASE Ok(h, "review row")
    BY <1>2, <1>3, <1>5, <2>6, <2>7, GoesKeeps
  <2>8. CASE Failed(h, "scan")
    BY <1>2, <1>3, <1>5, <2>6, <2>8, GoesKeeps
  <2>9. QED
    BY <2>1, <2>7, <2>8
<1>8. QED
  BY <1>6, <1>7 DEF Review

LEMMA NextMemIdFresh ==
    \A i \in Filed : i < NextMemId
<1>1. Filed \subseteq 1 .. MaxMem
  BY DEF Filed, MemIds
<1>2. \A i \in Filed : i < Max({0} \cup Filed) + 1
  BY <1>1, Bounds, NextIsFresh
<1>3. QED
  BY <1>2 DEF NextMemId

(* What is seen are the harnesses whose proposals are there.                *)
LEMMA SeenType ==
    ASSUME IInv
    PROVE  {proposals[i].by : i \in Filed} \in SUBSET Harnesses
<1>1. \A i \in Filed : proposals[i] \in Proposal
  BY DEF IInv, TypeInv, Filed
<1>2. QED
  BY <1>1 DEF Proposal

LEMMA MintKeeps ==
    ASSUME IInv, NEW h \in Harnesses, MintProposal(h)
    PROVE  IInv'
<1>1. /\ latest' = latest /\ queue' = queue /\ rows' = rows /\ proposals' = proposals
      /\ harness[h].pc = "memory propose"
  BY DEF MintProposal, At
<1>2. /\ latest' \in 0 .. MaxRuns /\ queue' \in [RunIds -> 0 .. MaxExp]
      /\ (latest # 0 => latest' # 0)
      /\ harness \in [Harnesses -> Harness]
  BY <1>1 DEF IInv, TypeInv
<1>3. Grows /\ Files
  BY <1>1, QuietGrows, QuietFiles
<1>4. CASE Failed(h, "scan")
  <2>1. "scan" \in Labels /\ "scan" \notin Early
    BY DEF Labels, Early
  <2>2. QED
    BY <1>2, <1>3, <1>4, <2>1, GoesKeeps
<1>5. CASE ~Failed(h, "scan")
  <2>1. PICK n, S : n = NextMemId /\ S = {proposals[i].by : i \in Filed}
    OBVIOUS
  <2>2. /\ n \in MemIds
        /\ harness' = [harness EXCEPT ![h].mem = n, ![h].seen = S,
                                      ![h].pc = "write proposal"]
    BY <1>5, <2>1 DEF MintProposal
  <2>3. n \in MemNumbers /\ S \in HarnessSets
    <3>1. \A i \in MemIds : i \in MemNumbers
      BY Bounds DEF MemIds, MemNumbers
    <3>2. QED
      BY <2>1, <2>2, <3>1, SeenType DEF HarnessSets
  <2> DEFINE r == [harness[h] EXCEPT !.mem = n, !.seen = S, !.pc = "write proposal"]
  <2>4. /\ r \in Harness /\ r.pc = "write proposal"
        /\ r.review = harness[h].review /\ r.run = harness[h].run
    BY <1>2, <2>3 DEF Harness, Labels
  <2>5. Moves(h, r)
    BY <1>2, <2>2 DEF Moves
  <2> HIDE DEF r
  <2>6. r.pc \notin Early /\ r.pc \notin {"evaluate", "review"}
    BY <2>4 DEF Early
  <2>7. Has(rows, r.review, "review", r.run)
    BY <1>1, <2>4 DEF IInv, FoundInv
  <2>8. QED
    BY <1>2, <1>3, <2>4, <2>5, <2>6, <2>7, StepKeeps
<1>6. QED
  BY <1>4, <1>5

LEMMA WriteKeeps ==
    ASSUME IInv, NEW h \in Harnesses, WriteProposal(h)
    PROVE  IInv'
<1>1. /\ latest' = latest /\ queue' = queue /\ rows' = rows
      /\ harness[h].pc = "write proposal" /\ Ok(h, "scan")
  BY DEF WriteProposal, At
<1>2. /\ latest' \in 0 .. MaxRuns /\ queue' \in [RunIds -> 0 .. MaxExp]
      /\ (latest # 0 => latest' # 0)
      /\ harness[h] \in Harness
  BY <1>1 DEF IInv, TypeInv
<1>3. Grows
  BY <1>1, QuietGrows
<1>4. Has(rows, harness[h].review, "review", harness[h].run)
  BY <1>1 DEF IInv, FoundInv
<1>5. Files
  <2>1. PICK m : m = [by |-> h, run |-> harness[h].run, review |-> harness[h].review]
    OBVIOUS
  <2>2. m \in Proposal /\ m.run = harness[h].run /\ m.review = harness[h].review
    BY <1>2, <2>1 DEF Harness, Proposal
  <2>3. PICK n : n = harness[h].mem
    OBVIOUS
  <2>4. proposals' = [proposals EXCEPT ![n] = m]
    BY <2>1, <2>3 DEF WriteProposal
  <2>5. proposals \in [MemIds -> Proposal \cup {NoRow}]
    BY DEF IInv, TypeInv
  <2>6. \A i \in MemIds : proposals'[i] = IF i = n THEN m ELSE proposals[i]
    BY <2>4, <2>5
  <2>7. proposals' \in [MemIds -> Proposal \cup {NoRow}]
    BY <2>2, <2>4, <2>5
  <2>8. QED
    BY <1>4, <2>2, <2>6, <2>7 DEF Files, Filed
<1>6. "scan" \in Labels /\ "scan" \notin Early
  BY DEF Labels, Early
<1>7. QED
  BY <1>1, <1>2, <1>3, <1>5, <1>6, GoesKeeps

LEMMA EndKeeps ==
    ASSUME IInv, NEW h \in Harnesses, ScanAndReport(h) \/ Abort(h)
    PROVE  IInv'
<1>1. /\ latest' = latest /\ queue' = queue /\ rows' = rows /\ proposals' = proposals
  BY DEF ScanAndReport, Abort
<1>2. /\ latest' \in 0 .. MaxRuns /\ queue' \in [RunIds -> 0 .. MaxExp]
      /\ harness \in [Harnesses -> Harness]
  BY <1>1 DEF IInv, TypeInv
<1>3. Grows
  BY <1>1, QuietGrows
<1>4. /\ latest # 0 => latest' # 0
      /\ Files
  BY <1>1, QuietFiles
<1>5. /\ "exit 0" \in Labels /\ "exit 0" \notin Early
      /\ "exit 1" \in Labels /\ "exit 1" \notin Early
  BY DEF Labels, Early
<1>6. CASE Failed(h, "exit 1")
  BY <1>2, <1>3, <1>4, <1>5, <1>6, GoesKeeps
<1>7. CASE Ok(h, "exit 0")
  BY <1>2, <1>3, <1>4, <1>5, <1>7, GoesKeeps
<1>8. CASE Abort(h)
  <2> DEFINE r == [NotStarted EXCEPT !.pc = "aborted", !.mem = harness[h].mem,
                                     !.seen = harness[h].seen]
  <2>1. NotStarted \in Harness /\ "aborted" \in Labels
    BY Bounds DEF NotStarted, Harness, Labels, MemNumbers, HarnessSets
  <2>2. r \in Harness /\ r.pc = "aborted"
    BY <1>2, <2>1 DEF Harness
  <2>3. Moves(h, r)
    BY <1>8 DEF Abort, Moves
  <2>4. r.pc \notin Early
    BY <2>2 DEF Early
  <2> HIDE DEF r
  <2>5. QED
    BY <1>2, <1>3, <1>4, <2>2, <2>3, <2>4, StepKeeps
<1>9. QED
  BY <1>6, <1>7, <1>8 DEF ScanAndReport

LEMMA InvInit == Init => IInv
<1> SUFFICES ASSUME Init PROVE IInv
  OBVIOUS
<1>1. NotStarted \in Harness /\ NotStarted.pc = "init-fixture"
  BY Bounds DEF NotStarted, Harness, Labels, MemNumbers, HarnessSets
<1>2. harness \in [Harnesses -> Harness] /\ \A h \in Harnesses : harness[h].pc = "init-fixture"
  BY <1>1 DEF Init
<1>3. Recorded = {} /\ rows \in [ExpIds -> Row \cup {NoRow}]
  BY DEF Init, Recorded
<1>4. TypeInv
  BY <1>2, <1>3, Bounds DEF Init, TypeInv
<1>5. RunInv /\ FoundInv /\ SubjectInv /\ ProposalInv
  BY <1>2, <1>3 DEF Init, RunInv, FoundInv, SubjectInv, ProposalInv, Filed
<1>6. QED
  BY <1>4, <1>5 DEF IInv

LEMMA InvNext == IInv /\ [Next]_vars => IInv'
<1> SUFFICES ASSUME IInv, [Next]_vars PROVE IInv'
  OBVIOUS
<1>1. ASSUME NEW h \in Harnesses, InitFixture(h) \/ Adopt(h) \/ Plan(h) PROVE IInv'
  BY <1>1, FirstSteps
<1>2. ASSUME NEW h \in Harnesses, RunNext(h) \/ RunNextFails(h) PROVE IInv'
  BY <1>2, RunNextKeeps
<1>3. ASSUME NEW h \in Harnesses, Research(h) \/ ResearchFails(h) PROVE IInv'
  BY <1>3, ResearchKeeps
<1>4. ASSUME NEW h \in Harnesses, LookupImpl(h) \/ LookupReview(h) PROVE IInv'
  BY <1>4, LookupKeeps
<1>5. ASSUME NEW h \in Harnesses, Evaluate(h) PROVE IInv'
  BY <1>5, EvaluateKeeps
<1>6. ASSUME NEW h \in Harnesses, Review(h) PROVE IInv'
  BY <1>6, ReviewKeeps
<1>7. ASSUME NEW h \in Harnesses, MintProposal(h) \/ WriteProposal(h) PROVE IInv'
  BY <1>7, MintKeeps, WriteKeeps
<1>8. ASSUME NEW h \in Harnesses, ScanAndReport(h) \/ Abort(h) PROVE IInv'
  BY <1>8, EndKeeps
<1>9. CASE UNCHANGED vars
  BY <1>9 DEF vars, IInv, TypeInv, RunInv, SubjectInv, FoundInv, ProposalInv, Has,
              Recorded, Filed
<1>10. QED
  BY <1>1, <1>2, <1>3, <1>4, <1>5, <1>6, <1>7, <1>8, <1>9 DEF Next

(* Whatever number of harnesses run at once, whatever runs and rows they    *)
(* add to each other's, and wherever they stop: a memory proposal is of a   *)
(* review in the run its harness adopted, of an implementation in that run. *)
THEOREM NoCrossRunPickup == Spec => []OwnRunOnly
<1>1. IInv => OwnRunOnly
  BY DEF IInv, ProposalInv, SubjectInv, Has, Recorded, OwnRunOnly
<1>2. QED
  BY <1>1, InvInit, InvNext, PTL DEF Spec
-----------------------------------------------------------------------------
(* What a step of one harness leaves of rows, proposals and other harnesses. *)
SameRow(a, b) ==
    /\ a.run = b.run /\ a.step = b.step /\ a.artifact = b.artifact
    /\ a.at = b.at /\ a.subject = b.subject /\ a.by = b.by
    /\ b.scored => a.scored

Adds(h, step) ==
    /\ \A e \in Recorded : e \in Recorded' /\ SameRow(rows'[e], rows[e])
    /\ \A e \in Recorded' \ Recorded : rows'[e].by = h /\ rows'[e].step = step
    /\ Filed \subseteq Filed'
    /\ \A g \in Harnesses \ {h} : harness'[g] = harness[g]

LEMMA Alone ==
    ASSUME IInv, NEW h \in Harnesses, NEW r, Moves(h, r)
    PROVE  harness'[h] = r /\ \A g \in Harnesses \ {h} : harness'[g] = harness[g]
  BY DEF IInv, TypeInv, Moves

(* A step that is put in the table changes nothing but that.                *)
Same(h) == /\ harness'[h].run = harness[h].run /\ harness'[h].impl = harness[h].impl
           /\ harness'[h].review = harness[h].review
           /\ harness'[h].evaluated = harness[h].evaluated
           /\ \A g \in Harnesses \ {h} : harness'[g] = harness[g]

LEMMA OkEffect ==
    ASSUME IInv, NEW h \in Harnesses, NEW next, Ok(h, next)
    PROVE  /\ Same(h) /\ harness'[h].pc = next
           /\ harness'[h].failed = harness[h].failed
  BY DEF IInv, TypeInv, Harness, Ok, Same

LEMMA OkMem ==
    ASSUME IInv, NEW h \in Harnesses, NEW next, Ok(h, next)
    PROVE  harness'[h].mem = harness[h].mem
<1>1. harness \in [Harnesses -> Harness]
  BY DEF IInv, TypeInv
<1>2. harness'[h] = [harness[h] EXCEPT !.pc = next]
  BY <1>1 DEF Ok
<1>3. QED
  BY <1>1, <1>2 DEF Harness

LEMMA FailedEffect ==
    ASSUME IInv, NEW h \in Harnesses, NEW next, Failed(h, next)
    PROVE  Same(h) /\ harness'[h].pc = next /\ harness'[h].failed
  BY DEF IInv, TypeInv, Harness, Failed, Same

LEMMA RowsType == IInv => \A e \in Recorded : rows[e] \in Row /\ e \in ExpIds
  BY DEF IInv, TypeInv, Recorded

LEMMA QuietAdds ==
    ASSUME IInv, NEW h \in Harnesses, rows' = rows, Filed \subseteq Filed',
           \A g \in Harnesses \ {h} : harness'[g] = harness[g], NEW step
    PROVE  Adds(h, step) /\ Recorded' = Recorded
<1>1. Recorded' = Recorded
  BY DEF Recorded
<1>2. QED
  BY <1>1 DEF Adds, SameRow

LEMMA OneRow ==
    ASSUME IInv, NEW h \in Harnesses, NEW e \in ExpIds \ Recorded, NEW d \in Row,
           rows' = [rows EXCEPT ![e] = d], d.by = h, NEW step, d.step = step,
           proposals' = proposals,
           \A g \in Harnesses \ {h} : harness'[g] = harness[g]
    PROVE  Adds(h, step) /\ Recorded' = Recorded \cup {e} /\ rows'[e] = d
<1>1. rows'[e] = d /\ \A f \in ExpIds \ {e} : rows'[f] = rows[f]
  BY DEF IInv, TypeInv
<1>2. d # NoRow
  BY HarnessSentinel
<1>3. Recorded' = Recorded \cup {e}
  BY <1>1, <1>2 DEF Recorded
<1>4. Filed' = Filed
  BY DEF Filed
<1>5. QED
  BY <1>1, <1>3, <1>4 DEF Adds, SameRow, Recorded

(* What WriteProposal leaves in the directory.                              *)
LEMMA WriteFiles ==
    ASSUME IInv, NEW h \in Harnesses, WriteProposal(h)
    PROVE  /\ \A i \in MemIds \ {harness[h].mem} : proposals'[i] = proposals[i]
           /\ harness[h].mem \in MemIds => proposals'[harness[h].mem].by = h
           /\ harness[h].mem \in MemIds => harness[h].mem \in Filed'
           /\ Filed \subseteq Filed'
<1>1. PICK m, n : /\ m = [by |-> h, run |-> harness[h].run, review |-> harness[h].review]
                  /\ n = harness[h].mem
  OBVIOUS
<1>2. m \in Proposal /\ m.by = h
  BY <1>1 DEF IInv, TypeInv, Harness, Proposal
<1>3. m # NoRow
  BY <1>2, HarnessSentinel
<1>4. proposals' = [proposals EXCEPT ![n] = m]
  BY <1>1 DEF WriteProposal
<1>5. \A i \in MemIds : proposals'[i] = IF i = n THEN m ELSE proposals[i]
  BY <1>4 DEF IInv, TypeInv
<1>6. QED
  BY <1>1, <1>2, <1>3, <1>5 DEF Filed

LEMMA ZeroIsNoRow == 0 \notin Recorded
<1>1. 0 \notin 1 .. MaxExp
  BY Bounds
<1>2. QED
  BY <1>1 DEF Recorded, ExpIds

LEMMA DraftFields ==
    ASSUME NEW h, NEW r, NEW step, NEW artifact, NEW subject, NEW second
    PROVE  LET d == Draft(h, r, step, artifact, subject, second)
           IN  d.by = h /\ d.step = step /\ d.run = r /\ d.at = second
  BY DEF Draft

(* The newest time there is, and one later: no row is younger than Now.     *)
LEMMA NowIsLast ==
    ASSUME IInv, NEW second \in Now
    PROVE  \A e \in Recorded : rows[e].at <= second
<1> DEFINE T == {1} \cup {rows[e].at : e \in Recorded}
           last == Max(T)
<1>1. \A e \in Recorded : rows[e].at \in 1 .. MaxSecond
  BY RowsType DEF Row, Seconds
<1>2. T \subseteq 0 .. MaxSecond + 1 /\ T # {} /\ MaxSecond + 1 \in Nat
  BY <1>1, Bounds
<1>3. last \in T /\ \A t \in T : last >= t
  <2> HIDE DEF T
  <2>1. QED
    BY <1>2, MaxExists
<1>4. second \in {last, last + 1}
  BY DEF Now
<1>5. last \in Nat
  BY <1>2, <1>3, Bounds
<1> HIDE DEF last
<1>6. QED
  BY <1>1, <1>3, <1>4, <1>5

(* The implementation of research-proxy is later than all rows before it,   *)
(* in its second or by its id.                                              *)
Earlier(d, e) == rows[d].at < rows[e].at \/ (rows[d].at = rows[e].at /\ d < e)

LEMMA ResearchAdds ==
    ASSUME IInv, NEW h \in Harnesses, Research(h)
    PROVE  \E e \in ExpIds :
             /\ \A d \in Recorded : d \in Recorded' /\ SameRow(rows'[d], rows[d])
             /\ \A d \in Recorded' \ Recorded : rows'[d].by = h
             /\ \A d \in Recorded' : rows'[d].step = "implementation" /\ rows'[d].by = h
                                       => d \in Recorded \cup {e}
             /\ \A d \in Recorded' \ {e} : Earlier(d, e)'
<1>1. harness[h].pc = "research-proxy"
  BY DEF Research, At
<1>2. latest \in RunIds
  BY <1>1, NewRun DEF IInv, RunInv
<1>0. PICK e : e = NextExpId
  OBVIOUS
<1>3. PICK artifact \in {"none", "invalid", "valid"}, t \in Now, u \in Now :
        /\ t <= u
        /\ rows' = [rows EXCEPT
                   ![e] = Draft(h, latest, "advice", "valid", 0, t),
                   ![e + 1] = Draft(h, latest, "implementation", artifact, 0, u)]
  BY <1>0 DEF Research
<1> DEFINE a == Draft(h, latest, "advice", "valid", 0, t)
           b == Draft(h, latest, "implementation", artifact, 0, u)
<1>4. /\ a \in Row /\ b \in Row /\ a.step = "advice" /\ b.step = "implementation"
  BY <1>2, Bounds, DraftType
<1>5. a.by = h /\ b.by = h /\ a.at = t /\ b.at = u
  BY DraftFields
<1>6. e \in Nat \ {0} /\ e + 1 \in 1 .. MaxExp /\ \A d \in Recorded : d < e
  BY <1>0, NextExpIdFresh DEF Research, ExpIds
<1>7. e \in ExpIds \ Recorded /\ e + 1 \in ExpIds \ Recorded
  <2>1. e \in ExpIds /\ e + 1 \in ExpIds /\ e >= e /\ e + 1 >= e
    BY <1>6, Bounds DEF ExpIds
  <2>2. QED
    BY <1>0, <2>1, FreshIds
<1>8. a # NoRow /\ b # NoRow
  <2> HIDE DEF a, b
  <2>1. QED
    BY <1>4, HarnessSentinel
<1>9. t \in Nat /\ u \in Nat
  BY NowSeconds, Bounds DEF Seconds
<1>10. \A d \in Recorded : rows[d].at <= u /\ rows[d].at \in Nat /\ d \in Nat
  <2>1. \A d \in Recorded : rows[d].at \in Nat /\ d \in Nat
    BY RowsType, Bounds DEF Row, Seconds, ExpIds
  <2>2. QED
    BY <2>1, NowIsLast
<1> HIDE DEF a, b
<1>11. rows' = [rows EXCEPT ![e] = a, ![e + 1] = b]
  BY <1>3 DEF a, b
<1>12. \A f \in ExpIds : rows'[f] = IF f = e + 1 THEN b ELSE IF f = e THEN a ELSE rows[f]
  BY <1>7, <1>11 DEF IInv, TypeInv
<1>13. Recorded' = Recorded \cup {e, e + 1}
  BY <1>7, <1>8, <1>12 DEF Recorded
<1>14. \A d \in Recorded : rows'[d] = rows[d]
  BY <1>7, <1>12 DEF Recorded
<1>15. e # e + 1 /\ e < e + 1
  BY <1>6
<1>16. rows'[e] = a /\ rows'[e + 1] = b
  BY <1>7, <1>12, <1>15
<1>17. ASSUME NEW d \in Recorded' \ {e + 1} PROVE Earlier(d, e + 1)'
  <2>1. CASE d \in Recorded
    <3>1. d < e + 1 /\ rows'[d].at <= u /\ rows'[d].at \in Nat
      BY <1>6, <1>10, <1>14, <2>1
    <3>2. QED
      BY <1>5, <1>9, <1>16, <3>1 DEF Earlier
  <2>2. CASE d = e
    BY <1>3, <1>5, <1>9, <1>15, <1>16, <2>2 DEF Earlier
  <2>3. QED
    BY <1>13, <2>1, <2>2
<1>18. \A d \in Recorded' : rows'[d].step = "implementation" /\ rows'[d].by = h
                              => d \in Recorded \cup {e + 1}
  BY <1>4, <1>13, <1>16
<1>19. QED
  BY <1>5, <1>7, <1>13, <1>14, <1>16, <1>17, <1>18 DEF SameRow

(* All other steps add one row at most.                                     *)
LEMMA StepAdds ==
    ASSUME IInv, NEW h \in Harnesses,
           \/ InitFixture(h) \/ Adopt(h) \/ Plan(h) \/ RunNext(h) \/ RunNextFails(h)
           \/ ResearchFails(h) \/ LookupImpl(h) \/ Evaluate(h) \/ Review(h)
           \/ LookupReview(h) \/ MintProposal(h) \/ WriteProposal(h) \/ ScanAndReport(h) \/ Abort(h)
    PROVE  /\ \E step \in {"calibration", "advice", "review"} : Adds(h, step)
           /\ Recorded' # Recorded => harness[h].pc \in {"run-next", "research-proxy", "review"}
<1>1. \A g \in Harnesses \ {h} : harness'[g] = harness[g]
  BY DEF IInv, TypeInv, InitFixture, Adopt, Plan, RunNext, RunNextFails,
     ResearchFails, LookupImpl, Evaluate, Review, LookupReview, MintProposal, WriteProposal,
     ScanAndReport, Abort, Ok, Failed
<1>2. Filed \subseteq Filed'
  <2>1. CASE WriteProposal(h)
    BY <2>1, WriteFiles
  <2>2. CASE ~WriteProposal(h)
    BY <2>2 DEF InitFixture, Adopt, Plan, RunNext, RunNextFails, ResearchFails,
       LookupImpl, Evaluate, Review, LookupReview, MintProposal, ScanAndReport,
       Abort, Filed
  <2>3. QED
    BY <2>1, <2>2
<1>3. CASE rows' = rows
  BY <1>1, <1>2, <1>3, QuietAdds
<1>4. CASE RunNext(h)
  <2>1. PICK artifact \in {"invalid", "valid"}, second \in Now :
          rows' = [rows EXCEPT ![queue[latest]] =
                     Draft(h, latest, "calibration", artifact, 0, second)]
    BY <1>4 DEF RunNext
  <2>2. /\ harness[h].pc = "run-next" /\ queue[latest] # 0
        /\ rows[queue[latest]] = NoRow /\ proposals' = proposals
    BY <1>4 DEF RunNext, At
  <2>3. latest \in RunIds
    BY <2>2, NewRun DEF IInv, RunInv
  <2>4. queue[latest] \in ExpIds \ Recorded
    <3>1. queue[latest] \in 0 .. MaxExp
      BY <2>3 DEF IInv, TypeInv
    <3>2. QED
      BY <2>2, <3>1, Bounds DEF ExpIds, Recorded
  <2> DEFINE d == Draft(h, latest, "calibration", artifact, 0, second)
  <2>5. d \in Row /\ d.by = h /\ d.step = "calibration"
    BY <2>3, Bounds, DraftType, DraftFields
  <2> HIDE DEF d
  <2>6. rows' = [rows EXCEPT ![queue[latest]] = d]
    BY <2>1 DEF d
  <2>7. Adds(h, "calibration")
    BY <1>1, <2>2, <2>4, <2>5, <2>6, OneRow
  <2>8. QED
    BY <2>2, <2>7
<1>5. CASE ResearchFails(h) /\ rows' # rows
  <2>1. PICK second \in Now :
          rows' = [rows EXCEPT ![NextExpId] =
                     Draft(h, latest, "advice", "none", 0, second)]
    BY <1>5 DEF ResearchFails
  <2>2. /\ harness[h].pc = "research-proxy" /\ NextExpId \in ExpIds
        /\ proposals' = proposals
    BY <1>5 DEF ResearchFails, At
  <2>3. latest \in RunIds
    BY <2>2, NewRun DEF IInv, RunInv
  <2>4. NextExpId \in ExpIds \ Recorded
    BY <2>2, FreshIds, NextExpIdFresh
  <2> DEFINE d == Draft(h, latest, "advice", "none", 0, second)
  <2>5. d \in Row /\ d.by = h /\ d.step = "advice"
    BY <2>3, Bounds, DraftType, DraftFields
  <2> HIDE DEF d
  <2>6. rows' = [rows EXCEPT ![NextExpId] = d]
    BY <2>1 DEF d
  <2>7. Adds(h, "advice")
    BY <1>1, <2>2, <2>4, <2>5, <2>6, OneRow
  <2>8. QED
    BY <2>2, <2>7
<1>6. CASE Evaluate(h) /\ rows' # rows
  <2>1. PICK e \in ExpIds : IsLatest(e) /\ rows' = [rows EXCEPT ![e].scored = TRUE]
    BY <1>6 DEF Evaluate
  <2>2. e \in Recorded /\ rows[e] \in Row
    BY <2>1, RowsType DEF IsLatest
  <2> DEFINE d == [rows[e] EXCEPT !.scored = TRUE]
  <2>3. d \in Row /\ SameRow(d, rows[e])
    BY <2>2 DEF Row, SameRow
  <2>4. rows' = [rows EXCEPT ![e] = d]
    BY <2>1
  <2> HIDE DEF d
  <2>5. rows'[e] = d /\ \A f \in ExpIds \ {e} : rows'[f] = rows[f]
    BY <2>4 DEF IInv, TypeInv
  <2>6. d # NoRow
    BY <2>3, HarnessSentinel
  <2>7. Recorded' = Recorded
    BY <2>2, <2>5, <2>6 DEF Recorded
  <2>8. \A f \in Recorded : f \in Recorded' /\ SameRow(rows'[f], rows[f])
    BY <2>3, <2>5, <2>7 DEF SameRow, Recorded
  <2>9. Adds(h, "advice")
    BY <1>1, <1>2, <2>7, <2>8 DEF Adds
  <2>10. QED
    BY <2>7, <2>9
<1>7. CASE Review(h) /\ rows' # rows
  <2>0. PICK e, n : e = harness[h].impl /\ n = NextExpId
    OBVIOUS
  <2>1. PICK artifact \in {"none", "valid"}, second \in Now :
          rows' = [rows EXCEPT ![n] =
                     Draft(h, rows[e].run, "review", artifact, e, second)]
    BY <1>7, <2>0 DEF Review
  <2>2. harness[h].pc = "review" /\ n \in ExpIds /\ proposals' = proposals
    BY <1>7, <2>0 DEF Review, At
  <2>3. rows[e] \in Row /\ e \in ExpIds
    BY <2>0, <2>2, HarnessSentinel, RowsType DEF IInv, FoundInv, Has, Recorded
  <2>4. n \in ExpIds \ Recorded
    BY <2>0, <2>2, FreshIds, NextExpIdFresh
  <2>5. PICK d : d = Draft(h, rows[e].run, "review", artifact, e, second)
    OBVIOUS
  <2>6. d \in Row /\ d.by = h /\ d.step = "review"
    <3>1. rows[e].run \in RunIds /\ e \in 0 .. MaxExp
      BY <2>3, Bounds DEF Row, ExpIds
    <3>2. QED
      BY <2>5, <3>1, DraftType, DraftFields
  <2>7. rows' = [rows EXCEPT ![n] = d]
    BY <2>1, <2>5
  <2>8. Adds(h, "review")
    <3>1. PICK step : step = "review"
      OBVIOUS
    <3>2. d.by = h /\ d.step = step /\ d \in Row
      BY <2>6, <3>1
    <3>3. Adds(h, step)
      BY <1>1, <2>2, <2>4, <2>7, <3>2, OneRow
    <3>4. QED
      BY <3>1, <3>3
  <2>9. QED
    BY <2>2, <2>8
<1>8. QED
  BY <1>3, <1>4, <1>5, <1>6, <1>7 DEF InitFixture, Adopt, Plan, RunNextFails,
     ResearchFails, LookupImpl, Evaluate, Review, LookupReview, MintProposal, WriteProposal,
     ScanAndReport, Abort

(* What every step keeps.                                                   *)
Keeps(h) ==
    /\ \A e \in Recorded : e \in Recorded' /\ SameRow(rows'[e], rows[e])
    /\ \A e \in Recorded' \ Recorded : rows'[e].by = h
    /\ Filed \subseteq Filed'
    /\ \A g \in Harnesses \ {h} : harness'[g] = harness[g]

Step(h) ==
    \/ InitFixture(h) \/ Adopt(h) \/ Plan(h) \/ RunNext(h) \/ RunNextFails(h)
    \/ Research(h) \/ ResearchFails(h) \/ LookupImpl(h) \/ Evaluate(h)
    \/ Review(h) \/ LookupReview(h) \/ MintProposal(h) \/ WriteProposal(h)
    \/ ScanAndReport(h) \/ Abort(h)

LEMMA StepKeepsRows == ASSUME IInv, NEW h \in Harnesses, Step(h) PROVE Keeps(h)
<1>1. CASE Research(h)
  <2>1. proposals' = proposals /\ (Ok(h, "impl row") \/ Failed(h, "impl row"))
    BY <1>1 DEF Research
  <2>2. Same(h)
    BY <2>1, OkEffect, FailedEffect
  <2>3. /\ \A e \in Recorded : e \in Recorded' /\ SameRow(rows'[e], rows[e])
        /\ \A e \in Recorded' \ Recorded : rows'[e].by = h
    BY <1>1, ResearchAdds
  <2>4. Filed' = Filed
    BY <2>1 DEF Filed
  <2>5. QED
    BY <2>1, <2>2, <2>3, <2>4 DEF Keeps, Same
<1>2. CASE ~Research(h)
  <2>1. \E step : Adds(h, step)
    BY <1>2, StepAdds DEF Step
  <2>2. QED
    BY <2>1 DEF Adds, Keeps
<1>3. QED
  BY <1>1, <1>2

-----------------------------------------------------------------------------
(* The run a harness adopted is never newer than the newest.                *)
AdoptedInv == \A h \in Harnesses : harness[h].run <= latest

LEMMA AdoptedNext == ASSUME IInv, AdoptedInv, NEW h \in Harnesses, Step(h) PROVE AdoptedInv'
<1>1. latest \in Nat /\ \A g \in Harnesses : harness[g].run \in Nat
  BY Bounds DEF IInv, TypeInv, Harness
<1>2. latest' \in {latest, latest + 1}
  BY DEF Step, InitFixture, Adopt, Plan, RunNext, RunNextFails, Research, ResearchFails,
     LookupImpl, Evaluate, Review, LookupReview, MintProposal, WriteProposal,
     ScanAndReport, Abort
<1>3. ASSUME NEW g \in Harnesses
      PROVE  harness'[g].run \in {harness[g].run, latest, 0}
  <2>1. harness \in [Harnesses -> Harness]
    BY DEF IInv, TypeInv
  <2>2. CASE Adopt(h)
    BY <2>1, <2>2 DEF Adopt, Harness
  <2>3. CASE Abort(h)
    BY <2>1, <2>3 DEF Abort, Harness, NotStarted
  <2>4. CASE \E next : Ok(h, next) \/ Failed(h, next)
    BY <2>1, <2>4, OkEffect, FailedEffect DEF Same
  <2>9. CASE \E e : \/ harness' = [harness EXCEPT ![h].impl = e, ![h].pc = "evaluate"]
                   \/ harness' = [harness EXCEPT ![h].evaluated = e, ![h].pc = "review"]
                   \/ harness' = [harness EXCEPT ![h].review = e, ![h].pc = "memory propose"]
    <3>1. harness'[h].run = harness[h].run
      BY <2>1, <2>9 DEF Harness
    <3>2. g # h => harness'[g] = harness[g]
      BY <2>1, <2>9
    <3>3. QED
      BY <3>1, <3>2
  <2>10. CASE \E n, S : harness' = [harness EXCEPT ![h].mem = n, ![h].seen = S,
                                                 ![h].pc = "write proposal"]
    <3>1. harness'[h].run = harness[h].run
      BY <2>1, <2>10 DEF Harness
    <3>2. g # h => harness'[g] = harness[g]
      BY <2>1, <2>10
    <3>3. QED
      BY <3>1, <3>2
  <2>5. CASE LookupImpl(h) \/ Evaluate(h)
    <3>1. \/ \E e : \/ harness' = [harness EXCEPT ![h].impl = e, ![h].pc = "evaluate"]
                    \/ harness' = [harness EXCEPT ![h].evaluated = e, ![h].pc = "review"]
          \/ \E next : Ok(h, next) \/ Failed(h, next)
      BY <2>5 DEF LookupImpl, Evaluate
    <3>2. QED
      BY <2>4, <2>9, <3>1
  <2>6. CASE LookupReview(h) \/ MintProposal(h)
    <3>1. \/ \E e : harness' = [harness EXCEPT ![h].review = e, ![h].pc = "memory propose"]
          \/ \E n, S : harness' = [harness EXCEPT ![h].mem = n, ![h].seen = S,
                                                 ![h].pc = "write proposal"]
          \/ \E next : Ok(h, next) \/ Failed(h, next)
      BY <2>6 DEF LookupReview, MintProposal
    <3>2. QED
      BY <2>4, <2>9, <2>10, <3>1
  <2>7. CASE \/ InitFixture(h) \/ Plan(h) \/ RunNext(h) \/ RunNextFails(h) \/ Research(h)
             \/ ResearchFails(h) \/ Review(h) \/ WriteProposal(h) \/ ScanAndReport(h)
    BY <2>4, <2>7 DEF InitFixture, Plan, RunNext, RunNextFails, Research, ResearchFails,
       Review, WriteProposal, ScanAndReport
  <2>8. QED
    BY <2>2, <2>3, <2>5, <2>6, <2>7 DEF Step
<1>4. QED
  BY <1>1, <1>2, <1>3 DEF AdoptedInv

-----------------------------------------------------------------------------
(* Who has which proposal id.  What a harness saw has lesser ids than the   *)
(* one it took, and a file has the id of the harness that wrote it.         *)
Late == {"write proposal", "scan", "exit 0", "exit 1", "aborted"}

MemInv ==
    /\ \A h \in Harnesses :
         /\ harness[h].pc \notin Late => harness[h].mem = 0
         /\ harness[h].pc = "write proposal" => harness[h].mem \in MemIds
         /\ \A g \in harness[h].seen : /\ harness[g].mem # 0
                                        /\ harness[g].mem < harness[h].mem
    /\ \A i \in Filed : harness[proposals[i].by].mem = i

(* A step that neither takes an id nor writes.                              *)
LEMMA MemQuiet ==
    ASSUME IInv, MemInv, NEW h \in Harnesses, proposals' = proposals,
           \A g \in Harnesses \ {h} : harness'[g] = harness[g],
           harness'[h].mem = harness[h].mem, harness'[h].seen = harness[h].seen,
           harness'[h].pc # "write proposal",
           harness'[h].pc \notin Late => harness[h].pc \notin Late
    PROVE  MemInv'
<1>1. \A g \in Harnesses : /\ harness'[g].mem = harness[g].mem
                           /\ harness'[g].seen = harness[g].seen
                           /\ harness[g].seen \subseteq Harnesses
  BY DEF IInv, TypeInv, Harness, HarnessSets
<1>2. \A i \in Filed : proposals[i].by \in Harnesses
  BY DEF IInv, TypeInv, Filed, Proposal
<1>3. Filed' = Filed
  BY DEF Filed
<1>4. QED
  BY <1>1, <1>2, <1>3 DEF MemInv

LEMMA MemMint ==
    ASSUME IInv, MemInv, NEW h \in Harnesses, MintProposal(h), ~Failed(h, "scan")
    PROVE  MemInv'
<1>1. PICK n, S : n = NextMemId /\ S = {proposals[i].by : i \in Filed}
  OBVIOUS
<1>2. /\ n \in MemIds /\ proposals' = proposals /\ harness[h].pc = "memory propose"
      /\ harness' = [harness EXCEPT ![h].mem = n, ![h].seen = S,
                                    ![h].pc = "write proposal"]
  BY <1>1 DEF MintProposal, At
<1>3. /\ harness'[h].mem = n /\ harness'[h].seen = S /\ harness'[h].pc = "write proposal"
      /\ \A g \in Harnesses \ {h} : harness'[g] = harness[g]
  BY <1>2 DEF IInv, TypeInv, Harness
<1>4. harness[h].mem = 0
  BY <1>2 DEF MemInv, Late
<1>5. Filed' = Filed /\ \A i \in Filed : i \in MemIds /\ i \in Nat /\ i # 0
  <2>1. Filed' = Filed /\ \A i \in Filed : i \in MemIds
    BY <1>2 DEF Filed
  <2>2. \A i \in MemIds : i \in Nat /\ i # 0
    BY Bounds DEF MemIds
  <2>3. QED
    BY <2>1, <2>2
<1>6. \A i \in Filed : /\ proposals[i].by \in Harnesses \ {h}
                       /\ harness'[proposals[i].by].mem = i
  <2>1. \A i \in Filed : proposals[i].by \in Harnesses /\ harness[proposals[i].by].mem = i
    BY DEF MemInv, IInv, TypeInv, Filed, Proposal
  <2>2. QED
    BY <1>3, <1>4, <1>5, <2>1
<1>7. \A g \in S : harness'[g].mem # 0 /\ harness'[g].mem < n
  BY <1>1, <1>5, <1>6, NextMemIdFresh
<1>8. \A g \in Harnesses \ {h} : \A f \in harness[g].seen :
         f \in Harnesses \ {h} /\ harness[f].mem # 0 /\ harness[f].mem < harness[g].mem
  BY <1>4 DEF MemInv, IInv, TypeInv, Harness, HarnessSets
<1>9. QED
  <2>1. \A i \in Filed' : harness'[proposals'[i].by].mem = i
    BY <1>2, <1>5, <1>6
  <2>2. ASSUME NEW g \in Harnesses
        PROVE  /\ harness'[g].pc \notin Late => harness'[g].mem = 0
               /\ harness'[g].pc = "write proposal" => harness'[g].mem \in MemIds
               /\ \A f \in harness'[g].seen : /\ harness'[f].mem # 0
                                              /\ harness'[f].mem < harness'[g].mem
    <3>1. CASE g = h
      BY <1>2, <1>3, <1>7, <3>1 DEF Late
    <3>2. CASE g # h
      BY <1>3, <1>8, <3>2 DEF MemInv
    <3>3. QED
      BY <3>1, <3>2
  <2>3. QED
    BY <2>1, <2>2 DEF MemInv

LEMMA MemWrite ==
    ASSUME IInv, MemInv, NEW h \in Harnesses, WriteProposal(h)
    PROVE  MemInv'
<1>1. harness[h].pc = "write proposal" /\ Ok(h, "scan")
  BY DEF WriteProposal, At
<1>2. /\ harness'[h].pc = "scan" /\ \A g \in Harnesses \ {h} : harness'[g] = harness[g]
      /\ \A g \in Harnesses : /\ harness'[g].mem = harness[g].mem
                              /\ harness'[g].seen = harness[g].seen
                              /\ harness[g].seen \subseteq Harnesses
  <2>1. harness \in [Harnesses -> Harness]
    BY DEF IInv, TypeInv
  <2>2. \A g \in Harnesses : harness[g].seen \subseteq Harnesses
    BY <2>1 DEF Harness, HarnessSets
  <2>3. /\ harness'[h].pc = "scan" /\ harness'[h].mem = harness[h].mem
        /\ harness'[h].seen = harness[h].seen
        /\ \A g \in Harnesses \ {h} : harness'[g] = harness[g]
    BY <1>1, <2>1 DEF Ok, Harness
  <2>4. QED
    BY <2>2, <2>3
<1>3. PICK n : n = harness[h].mem
  OBVIOUS
<1>4. n \in MemIds
  BY <1>1, <1>3 DEF MemInv
<1>5. \A i \in Filed' : proposals'[i].by \in Harnesses /\ harness[proposals'[i].by].mem = i
  <2>1. proposals'[n].by = h
    BY <1>3, <1>4, WriteFiles
  <2>2. \A i \in Filed' : i # n => i \in Filed /\ proposals'[i] = proposals[i]
    BY <1>3, WriteFiles DEF Filed
  <2>3. \A i \in Filed : proposals[i].by \in Harnesses /\ harness[proposals[i].by].mem = i
    BY DEF MemInv, IInv, TypeInv, Filed, Proposal
  <2>4. QED
    BY <1>3, <2>1, <2>2, <2>3
<1>6. \A g \in Harnesses : \A f \in harness[g].seen :
         /\ harness'[f].mem # 0 /\ harness'[f].mem < harness'[g].mem
  BY <1>2 DEF MemInv
<1>7. \A g \in Harnesses : /\ harness'[g].pc \notin Late => harness'[g].mem = 0
                           /\ harness'[g].pc = "write proposal" => harness'[g].mem \in MemIds
  BY <1>2 DEF MemInv, Late
<1>8. QED
  BY <1>2, <1>5, <1>6, <1>7 DEF MemInv

LEMMA MemNext == ASSUME IInv, MemInv, NEW h \in Harnesses, Step(h) PROVE MemInv'
<1>1. harness \in [Harnesses -> Harness]
  BY DEF IInv, TypeInv
<1>2. ASSUME proposals' = proposals,
             NEW next \in Labels \ {"write proposal"}, Ok(h, next) \/ Failed(h, next),
             next \in Late \/ harness[h].pc \notin Late
      PROVE  MemInv'
  <2>1. /\ harness'[h].mem = harness[h].mem /\ harness'[h].seen = harness[h].seen
        /\ harness'[h].pc = next /\ \A g \in Harnesses \ {h} : harness'[g] = harness[g]
    BY <1>1, <1>2 DEF Ok, Failed, Harness
  <2>2. QED
    BY <1>2, <2>1, MemQuiet
<1>3. ASSUME proposals' = proposals, harness[h].pc \notin Late,
             harness'[h].mem = harness[h].mem, harness'[h].seen = harness[h].seen,
             harness'[h].pc # "write proposal",
             \A g \in Harnesses \ {h} : harness'[g] = harness[g]
      PROVE  MemInv'
  BY <1>3, MemQuiet
<1>4. CASE \/ InitFixture(h) \/ Plan(h) \/ RunNext(h) \/ RunNextFails(h)
           \/ Research(h) \/ ResearchFails(h) \/ Review(h)
  <2>1. proposals' = proposals /\ harness[h].pc \notin Late
    BY <1>4 DEF InitFixture, Plan, RunNext, RunNextFails, Research, ResearchFails,
       Review, At, Late
  <2>2. \E next \in {"adopt", "scan", "run-next", "research-proxy", "impl row",
                     "review row"} : Ok(h, next) \/ Failed(h, next)
    BY <1>4 DEF InitFixture, Plan, RunNext, RunNextFails, Research, ResearchFails, Review
  <2>3. QED
    BY <1>2, <2>1, <2>2 DEF Labels
<1>5. CASE Adopt(h)
  <2>1. /\ harness[h].pc = "adopt" /\ proposals' = proposals
        /\ harness' = [harness EXCEPT ![h].run = latest, ![h].pc = "plan"]
    BY <1>5 DEF Adopt, At
  <2>2. QED
    BY <1>1, <1>3, <2>1 DEF Harness, Late
<1>6. CASE LookupImpl(h)
  <2>1. harness[h].pc = "impl row" /\ proposals' = proposals
    BY <1>6 DEF LookupImpl, At
  <2>2. CASE Ok(h, "scan")
    BY <1>2, <2>1, <2>2 DEF Labels, Late
  <2>3. CASE \E e : harness' = [harness EXCEPT ![h].impl = e, ![h].pc = "evaluate"]
    BY <1>1, <1>3, <2>1, <2>3 DEF Harness, Late
  <2>4. QED
    BY <1>6, <2>2, <2>3 DEF LookupImpl
<1>7. CASE Evaluate(h)
  <2>1. harness[h].pc = "evaluate" /\ proposals' = proposals
    BY <1>7 DEF Evaluate, At
  <2>2. CASE Failed(h, "review")
    BY <1>2, <2>1, <2>2 DEF Labels, Late
  <2>3. CASE \E e : harness' = [harness EXCEPT ![h].evaluated = e, ![h].pc = "review"]
    BY <1>1, <1>3, <2>1, <2>3 DEF Harness, Late
  <2>4. QED
    BY <1>7, <2>2, <2>3 DEF Evaluate
<1>8. CASE LookupReview(h)
  <2>1. harness[h].pc = "review row" /\ proposals' = proposals
    BY <1>8 DEF LookupReview, At
  <2>2. CASE Ok(h, "scan")
    BY <1>2, <2>1, <2>2 DEF Labels, Late
  <2>3. CASE \E e : harness' = [harness EXCEPT ![h].review = e, ![h].pc = "memory propose"]
    BY <1>1, <1>3, <2>1, <2>3 DEF Harness, Late
  <2>4. QED
    BY <1>8, <2>2, <2>3 DEF LookupReview
<1>9. CASE MintProposal(h)
  <2>1. harness[h].pc = "memory propose" /\ proposals' = proposals
    BY <1>9 DEF MintProposal, At
  <2>2. CASE Failed(h, "scan")
    BY <1>2, <2>1, <2>2 DEF Labels, Late
  <2>3. QED
    BY <1>9, <2>2, MemMint
<1>10. CASE ScanAndReport(h)
  <2>1. /\ proposals' = proposals
        /\ \E next \in {"exit 0", "exit 1"} : Ok(h, next) \/ Failed(h, next)
    BY <1>10 DEF ScanAndReport
  <2>2. QED
    BY <1>2, <2>1 DEF Labels, Late
<1>11. CASE Abort(h)
  <2>1. /\ proposals' = proposals
        /\ harness' = [harness EXCEPT ![h] =
              [NotStarted EXCEPT !.pc = "aborted", !.mem = harness[h].mem,
                                 !.seen = harness[h].seen]]
    BY <1>11 DEF Abort
  <2>2. /\ harness'[h].mem = harness[h].mem /\ harness'[h].seen = harness[h].seen
        /\ harness'[h].pc = "aborted" /\ \A g \in Harnesses \ {h} : harness'[g] = harness[g]
    BY <1>1, <2>1 DEF NotStarted
  <2>3. QED
    BY <2>1, <2>2, MemQuiet DEF Late
<1>12. QED
  BY <1>4, <1>5, <1>6, <1>7, <1>8, <1>9, <1>10, <1>11, MemWrite DEF Step

-----------------------------------------------------------------------------
(* Exit code 0.  Once its research is done a harness that has not failed    *)
(* has a valid implementation row of its own, in the run it adopted or a    *)
(* newer one; in a newer one if it then found none in its own.  If it found *)
(* one, it has scored a row once it is past evaluate, and filed a proposal  *)
(* once it is past memory propose: after a review that came back there is   *)
(* a review row to be found.                                                *)
OwnResearch(x, h) ==
    \E e \in Recorded :
        /\ rows[e].by = h /\ rows[e].step = "implementation" /\ rows[e].artifact = "valid"
        /\ x.run <= rows[e].run
        /\ x.pc # "impl row" /\ x.impl = 0 => x.run # rows[e].run

Researched == {"impl row", "evaluate", "review", "review row", "memory propose",
               "write proposal", "scan", "exit 0"}

DoneOK(x, h) ==
    /\ x.pc \in Early \cup {"init-fixture", "impl row", "aborted"} => x.impl = 0
    /\ x.pc = "exit 0" => ~x.failed
    /\ x.pc \in Researched /\ ~x.failed => OwnResearch(x, h)
    /\ ~x.failed /\ x.impl # 0 =>
         /\ x.pc \in {"review", "review row", "memory propose", "write proposal",
                      "scan", "exit 0"}
              => x.evaluated \in Recorded /\ rows[x.evaluated].scored
         /\ x.pc \in {"scan", "exit 0"} => x.mem \in Filed
    /\ x.pc = "review row"
         => \E e \in Recorded : rows[e].step = "review" /\ rows[e].run = x.run

DoneInv == \A h \in Harnesses : DoneOK(harness[h], h)

(* The research of a harness stays its own, however the harness goes on.    *)
LEMMA OwnStays ==
    ASSUME NEW g, Keeps(g), NEW x, NEW y, NEW h, OwnResearch(x, h),
           y.run = x.run,
           y.pc # "impl row" /\ y.impl = 0 => x.pc # "impl row" /\ x.impl = 0
    PROVE  OwnResearch(y, h)'
<1>1. PICK e \in Recorded :
        /\ rows[e].by = h /\ rows[e].step = "implementation" /\ rows[e].artifact = "valid"
        /\ x.run <= rows[e].run
        /\ x.pc # "impl row" /\ x.impl = 0 => x.run # rows[e].run
  BY DEF OwnResearch
<1>2. e \in Recorded' /\ SameRow(rows'[e], rows[e])
  BY DEF Keeps
<1>3. QED
  BY <1>1, <1>2 DEF OwnResearch, SameRow

LEMMA DoneStays ==
    ASSUME NEW g, Keeps(g), NEW x, NEW h, DoneOK(x, h)
    PROVE  DoneOK(x, h)'
<1>1. OwnResearch(x, h) => OwnResearch(x, h)'
  BY OwnStays
<1>2. QED
  BY <1>1 DEF Keeps, SameRow, DoneOK

LEMMA DoneMove ==
    ASSUME IInv, DoneInv, NEW h \in Harnesses, Step(h),
           DoneOK(harness[h], h)'
    PROVE  DoneInv'
<1>1. Keeps(h)
  BY StepKeepsRows
<1>2. ASSUME NEW g \in Harnesses \ {h} PROVE DoneOK(harness[g], g)'
  <2>1. PICK x : x = harness[g]
    OBVIOUS
  <2>2. DoneOK(x, g)'
    BY <1>1, <2>1, DoneStays DEF DoneInv
  <2>3. harness'[g] = x
    BY <1>1, <2>1 DEF Keeps
  <2>4. QED
    BY <2>2, <2>3 DEF DoneOK, OwnResearch
<1>3. QED
  BY <1>2 DEF DoneInv

(* Before an implementation row is looked up there is nothing to show.      *)
LEMMA DoneBefore ==
    ASSUME IInv, DoneInv, NEW h \in Harnesses, Step(h),
           harness[h].impl = 0, harness'[h].impl = harness[h].impl,
           harness'[h].pc \notin {"exit 0", "review row"},
           harness'[h].failed \/ harness'[h].pc \notin Researched
    PROVE  DoneInv'
<1>1. DoneOK(harness[h], h)'
  BY DEF DoneOK
<1>2. QED
  BY <1>1, DoneMove

(* Research that has not failed leaves a valid implementation row.          *)
LEMMA ResearchOwn ==
    ASSUME IInv, NEW h \in Harnesses, Research(h), ~harness'[h].failed
    PROVE  \E e \in Recorded' : /\ rows'[e].by = h /\ rows'[e].step = "implementation"
                                /\ rows'[e].artifact = "valid" /\ rows'[e].run = latest
<1>1. ~Failed(h, "impl row")
  BY FailedEffect
<1>2. PICK e : e = NextExpId
  OBVIOUS
<1>3. PICK t \in Now, u \in Now :
        rows' = [rows EXCEPT
                   ![e] = Draft(h, latest, "advice", "valid", 0, t),
                   ![e + 1] = Draft(h, latest, "implementation", "valid", 0, u)]
  BY <1>1, <1>2 DEF Research
<1>4. PICK a, b : /\ a = Draft(h, latest, "advice", "valid", 0, t)
                  /\ b = Draft(h, latest, "implementation", "valid", 0, u)
  OBVIOUS
<1>5. latest \in RunIds
  <2>1. harness[h].pc = "research-proxy"
    BY DEF Research, At
  <2>2. QED
    BY <2>1, NewRun DEF IInv, RunInv
<1>6. b \in Row
  BY <1>4, <1>5, Bounds, DraftType
<1>7. /\ b.by = h /\ b.step = "implementation" /\ b.artifact = "valid"
      /\ b.run = latest
  BY <1>4 DEF Draft
<1>8. e + 1 \in ExpIds
  BY <1>2 DEF Research
<1>9. rows' = [rows EXCEPT ![e] = a, ![e + 1] = b]
  BY <1>3, <1>4
<1>10. rows'[e + 1] = b
  <2>1. PICK f : f = e + 1
    OBVIOUS
  <2>2. rows' = [[rows EXCEPT ![e] = a] EXCEPT ![f] = b] /\ f \in ExpIds
    BY <1>8, <1>9, <2>1
  <2>3. QED
    BY <2>1, <2>2 DEF IInv, TypeInv
<1>11. b # NoRow
  BY <1>6, HarnessSentinel
<1>12. QED
  BY <1>7, <1>8, <1>10, <1>11 DEF Recorded

LEMMA DoneNext == ASSUME IInv, AdoptedInv, MemInv, DoneInv, NEW h \in Harnesses, Step(h) PROVE DoneInv'
<1>1. DoneOK(harness[h], h)
  BY DEF DoneInv
<1>2. Keeps(h)
  BY StepKeepsRows
<1>3. harness \in [Harnesses -> Harness]
  BY DEF IInv, TypeInv
<1>4. CASE \/ InitFixture(h) \/ Adopt(h) \/ Plan(h) \/ RunNext(h) \/ RunNextFails(h)
           \/ Research(h) \/ ResearchFails(h)
  <2>1. harness[h].pc \in Early \cup {"init-fixture"}
    BY <1>4 DEF InitFixture, Adopt, Plan, RunNext, RunNextFails, Research,
       ResearchFails, At, Early
  <2>2. harness[h].impl = 0
    BY <1>1, <2>1 DEF DoneOK
  <2>3. CASE Adopt(h)
    <3>1. harness'[h].impl = harness[h].impl /\ harness'[h].pc = "plan"
      BY <1>3, <2>3 DEF Adopt, Harness
    <3>2. QED
      BY <2>2, <3>1, DoneBefore DEF Researched
  <2>4. CASE ~Adopt(h) /\ ~Research(h)
    <3>1. \/ \E next \in {"adopt", "run-next", "research-proxy"} :
                 Ok(h, next) \/ Failed(h, next)
          \/ \E next \in {"scan", "impl row"} : Failed(h, next)
      BY <1>4, <2>4 DEF InitFixture, Plan, RunNext, RunNextFails, ResearchFails
    <3>2. /\ Same(h) /\ harness'[h].pc \notin {"exit 0", "review row"}
          /\ harness'[h].failed \/ harness'[h].pc \notin Researched
      BY <3>1, OkEffect, FailedEffect DEF Researched
    <3>3. QED
      BY <2>2, <3>2, DoneBefore DEF Same
  <2>5. CASE Research(h)
    <3>1. Ok(h, "impl row") \/ Failed(h, "impl row")
      BY <2>5 DEF Research
    <3>2. Same(h) /\ harness'[h].pc = "impl row"
      BY <3>1, OkEffect, FailedEffect
    <3>3. harness[h].run <= latest
      BY DEF AdoptedInv
    <3>4. ~harness'[h].failed => OwnResearch(harness[h], h)'
      BY <2>5, <3>2, <3>3, ResearchOwn DEF OwnResearch, Same
    <3>5. DoneOK(harness[h], h)'
      BY <2>2, <3>2, <3>4 DEF DoneOK, Same
    <3>6. QED
      BY <3>5, DoneMove
  <2>6. QED
    BY <2>3, <2>4, <2>5
<1>5. CASE LookupImpl(h)
  <2>1. harness[h].impl = 0 /\ harness[h].pc = "impl row" /\ rows' = rows
    BY <1>1, <1>5 DEF LookupImpl, At, DoneOK
  <2>2. ~harness[h].failed => OwnResearch(harness[h], h)
    BY <1>1, <2>1 DEF DoneOK, Researched
  <2>3. CASE Ok(h, "scan") /\ StepRows(harness[h].run, "implementation") = {}
    <3>1. Same(h) /\ harness'[h].pc = "scan" /\ harness'[h].failed = harness[h].failed
      BY <2>3, OkEffect
    <3>2. ~harness[h].failed => OwnResearch(harness[h], h)'
      <4> SUFFICES ASSUME ~harness[h].failed PROVE OwnResearch(harness[h], h)'
        OBVIOUS
      <4>1. PICK e \in Recorded :
              /\ rows[e].by = h /\ rows[e].step = "implementation"
              /\ rows[e].artifact = "valid" /\ harness[h].run <= rows[e].run
        BY <2>2 DEF OwnResearch
      <4>2. harness[h].run # rows[e].run
        BY <2>3, <4>1 DEF StepRows
      <4>3. e \in Recorded'
        BY <2>1, <4>1 DEF Recorded
      <4>4. QED
        BY <2>1, <3>1, <4>1, <4>2, <4>3 DEF OwnResearch, Same
    <3>3. DoneOK(harness[h], h)'
      BY <2>1, <3>1, <3>2 DEF DoneOK, Same
    <3>4. QED
      BY <3>3, DoneMove
  <2>4. CASE \E e \in StepRows(harness[h].run, "implementation") :
               harness' = [harness EXCEPT ![h].impl = e, ![h].pc = "evaluate"]
    <3>1. PICK e \in StepRows(harness[h].run, "implementation") :
            harness' = [harness EXCEPT ![h].impl = e, ![h].pc = "evaluate"]
      BY <2>4
    <3>2. e # 0
      BY ZeroIsNoRow DEF StepRows
    <3>3. /\ harness'[h].pc = "evaluate" /\ harness'[h].impl = e
          /\ harness'[h].run = harness[h].run /\ harness'[h].failed = harness[h].failed
      BY <1>3, <3>1 DEF Harness
    <3>4. OwnResearch(harness[h], h) => OwnResearch(harness[h], h)'
      <4>1. PICK x, y : x = harness[h] /\ y = harness'[h]
        OBVIOUS
      <4>2. OwnResearch(x, h) => OwnResearch(y, h)'
        BY <1>2, <3>2, <3>3, <4>1, OwnStays
      <4>3. QED
        BY <4>1, <4>2 DEF OwnResearch
    <3>5. DoneOK(harness[h], h)'
      BY <2>2, <3>3, <3>4 DEF DoneOK, Early
    <3>6. QED
      BY <3>5, DoneMove
  <2>5. QED
    BY <1>5, <2>3, <2>4 DEF LookupImpl, Greatest
<1>0. ASSUME harness[h].pc \in Researched \ {"impl row"}, ~harness[h].failed,
             harness'[h].run = harness[h].run, harness'[h].impl = harness[h].impl
      PROVE  OwnResearch(harness[h], h)'
  <2>1. PICK x, y : x = harness[h] /\ y = harness'[h]
    OBVIOUS
  <2>2. OwnResearch(x, h)
    BY <1>0, <1>1, <2>1 DEF DoneOK
  <2>3. OwnResearch(y, h)'
    BY <1>0, <1>2, <2>1, <2>2, OwnStays
  <2>4. QED
    BY <2>1, <2>3 DEF OwnResearch
<1>6. CASE Evaluate(h)
  <2>1. CASE Failed(h, "review")
    <3>1. harness'[h].pc = "review" /\ harness'[h].failed
      BY <2>1, FailedEffect
    <3>2. DoneOK(harness[h], h)'
      BY <3>1 DEF DoneOK, Early
    <3>3. QED
      BY <3>2, DoneMove
  <2>2. CASE ~Failed(h, "review")
    <3>1. PICK e \in ExpIds :
            /\ IsLatest(e) /\ rows' = [rows EXCEPT ![e].scored = TRUE]
            /\ harness' = [harness EXCEPT ![h].evaluated = e, ![h].pc = "review"]
      BY <1>6, <2>2 DEF Evaluate
    <3>2. e \in Recorded /\ rows[e] \in Row
      BY <3>1, RowsType DEF IsLatest
    <3>3. e \in Recorded' /\ rows'[e].scored
      <4>1. rows'[e] = [rows[e] EXCEPT !.scored = TRUE]
        BY <3>1 DEF IInv, TypeInv
      <4>2. QED
        BY <1>2, <3>2, <4>1 DEF Keeps, Row
    <3>4. /\ harness'[h].pc = "review" /\ harness'[h].evaluated = e
          /\ harness'[h].run = harness[h].run /\ harness'[h].impl = harness[h].impl
          /\ harness'[h].failed = harness[h].failed
      BY <1>3, <3>1 DEF Harness
    <3>5. ~harness[h].failed => OwnResearch(harness[h], h)'
      BY <1>0, <1>6, <3>4 DEF Evaluate, At, Researched
    <3>6. DoneOK(harness[h], h)'
      BY <3>3, <3>4, <3>5 DEF DoneOK, Early
    <3>7. QED
      BY <3>6, DoneMove
  <2>3. QED
    BY <2>1, <2>2
<1>7. ASSUME Failed(h, "scan") PROVE DoneInv'
  <2>1. harness'[h].pc = "scan" /\ harness'[h].failed
    BY <1>7, FailedEffect
  <2>2. DoneOK(harness[h], h)'
    BY <2>1 DEF DoneOK, Early
  <2>3. QED
    BY <2>2, DoneMove
<1>8. CASE Review(h) /\ ~Failed(h, "scan")
  <2>0. PICK e : e = harness[h].impl
    OBVIOUS
  <2>1. PICK artifact \in {"none", "valid"}, second \in Now :
          /\ NextExpId \in ExpIds
          /\ rows' = [rows EXCEPT ![NextExpId] =
                        Draft(h, rows[e].run, "review", artifact, e, second)]
          /\ Ok(h, "review row")
    BY <1>8, <2>0 DEF Review
  <2>2. Same(h) /\ harness'[h].pc = "review row" /\ harness'[h].failed = harness[h].failed
    BY <2>1, OkEffect
  <2>3. harness[h].pc = "review" /\ rows[e].run = harness[h].run /\ e \in ExpIds
    BY <1>8, <2>0 DEF Review, At, IInv, FoundInv, Has
  <2>4. \E d \in Recorded' : rows'[d].step = "review" /\ rows'[d].run = harness'[h].run
    <3> DEFINE d == Draft(h, rows[e].run, "review", artifact, e, second)
    <3>1. d.step = "review" /\ d.run = harness'[h].run
      <4>1. d.step = "review" /\ d.run = rows[e].run
        BY DraftFields
      <4>2. harness'[h].run = harness[h].run
        BY <2>2 DEF Same
      <4> HIDE DEF d
      <4>3. QED
        BY <2>3, <4>1, <4>2
    <3>2. d # NoRow
      <4>1. rows[e].run \in RunIds /\ e \in 0 .. MaxExp
        <5>1. rows[e] \in Row
          BY <2>0, <2>3, HarnessSentinel, RowsType DEF IInv, FoundInv, Has, Recorded
        <5>2. QED
          BY <2>3, <5>1, Bounds DEF Row, ExpIds
      <4>2. d \in Row
        BY <4>1, DraftType
      <4> HIDE DEF d
      <4>3. QED
        BY <4>2, HarnessSentinel
    <3> HIDE DEF d
    <3>3. PICK n \in ExpIds : n = NextExpId
      BY <2>1
    <3>4. rows' = [rows EXCEPT ![n] = d]
      BY <2>1, <3>3 DEF d
    <3>5. rows'[n] = d
      BY <3>4 DEF IInv, TypeInv
    <3>6. n \in Recorded'
      BY <3>2, <3>5 DEF Recorded
    <3>7. QED
      BY <3>1, <3>5, <3>6
  <2>5. ~harness[h].failed /\ harness[h].impl # 0 =>
          /\ harness[h].evaluated \in Recorded'
          /\ rows'[harness[h].evaluated].scored
    BY <1>1, <1>2, <2>3 DEF DoneOK, Keeps, SameRow
  <2>6. ~harness[h].failed => OwnResearch(harness[h], h)'
    BY <1>0, <2>2, <2>3 DEF Same, Researched
  <2>7. DoneOK(harness[h], h)'
    BY <2>2, <2>4, <2>5, <2>6 DEF DoneOK, Same, Early
  <2>8. QED
    BY <2>7, DoneMove
<1>9. CASE LookupReview(h)
  <2>1. rows' = rows /\ harness[h].pc = "review row"
        /\ StepRows(harness[h].run, "review") # {}
    BY <1>1, <1>9 DEF LookupReview, At, DoneOK, StepRows
  <2>2. PICK e : harness' = [harness EXCEPT ![h].review = e, ![h].pc = "memory propose"]
    BY <1>9, <2>1 DEF LookupReview
  <2>3. /\ harness'[h].pc = "memory propose" /\ harness'[h].impl = harness[h].impl
        /\ harness'[h].evaluated = harness[h].evaluated
        /\ harness'[h].failed = harness[h].failed /\ harness'[h].run = harness[h].run
    BY <1>3, <2>2 DEF Harness
  <2>4. ~harness[h].failed => OwnResearch(harness[h], h)'
    BY <1>0, <2>1, <2>3 DEF Researched
  <2>5. DoneOK(harness[h], h)'
    BY <1>1, <1>2, <2>1, <2>3, <2>4 DEF DoneOK, Early, Keeps, SameRow
  <2>6. QED
    BY <2>5, DoneMove
<1>10. CASE MintProposal(h) /\ ~Failed(h, "scan")
  <2>1. PICK n, S : harness' = [harness EXCEPT ![h].mem = n, ![h].seen = S,
                                              ![h].pc = "write proposal"]
    BY <1>10 DEF MintProposal
  <2>2. /\ harness'[h].pc = "write proposal" /\ harness'[h].impl = harness[h].impl
        /\ harness'[h].evaluated = harness[h].evaluated
        /\ harness'[h].failed = harness[h].failed /\ harness'[h].run = harness[h].run
    BY <1>3, <2>1 DEF Harness
  <2>3. harness[h].pc = "memory propose"
    BY <1>10 DEF MintProposal, At
  <2>4. ~harness[h].failed => OwnResearch(harness[h], h)'
    BY <1>0, <2>2, <2>3 DEF Researched
  <2>5. DoneOK(harness[h], h)'
    BY <1>1, <1>2, <2>2, <2>3, <2>4 DEF DoneOK, Early, Keeps, SameRow
  <2>6. QED
    BY <2>5, DoneMove
<1>14. CASE WriteProposal(h)
  <2>1. harness[h].pc = "write proposal" /\ Ok(h, "scan")
    BY <1>14 DEF WriteProposal, At
  <2>2. /\ Same(h) /\ harness'[h].pc = "scan" /\ harness'[h].failed = harness[h].failed
        /\ harness'[h].mem = harness[h].mem
    BY <2>1, OkEffect, OkMem
  <2>3. harness'[h].mem \in Filed'
    BY <1>14, <2>1, <2>2, WriteFiles DEF MemInv
  <2>4. ~harness[h].failed => OwnResearch(harness[h], h)'
    BY <1>0, <2>1, <2>2 DEF Same, Researched
  <2>5. DoneOK(harness[h], h)'
    BY <1>1, <1>2, <2>1, <2>2, <2>3, <2>4 DEF DoneOK, Same, Early, Keeps, SameRow
  <2>6. QED
    BY <2>5, DoneMove
<1>11. CASE ScanAndReport(h)
  <2>1. /\ rows' = rows /\ proposals' = proposals /\ harness[h].pc = "scan"
        /\ Failed(h, "exit 1") \/ (Ok(h, "exit 0") /\ ~harness[h].failed)
    BY <1>11 DEF ScanAndReport, At
  <2>2. CASE Failed(h, "exit 1")
    <3>1. harness'[h].pc = "exit 1" /\ harness'[h].failed
      BY <2>2, FailedEffect
    <3>2. DoneOK(harness[h], h)'
      BY <3>1 DEF DoneOK, Early
    <3>3. QED
      BY <3>2, DoneMove
  <2>3. CASE Ok(h, "exit 0") /\ ~harness[h].failed
    <3>1. /\ Same(h) /\ harness'[h].pc = "exit 0" /\ harness'[h].failed = harness[h].failed
          /\ harness'[h].mem = harness[h].mem
      BY <2>3, OkEffect, OkMem
    <3>2. OwnResearch(harness[h], h)'
      BY <1>0, <2>1, <2>3, <3>1 DEF Same, Researched
    <3>3. DoneOK(harness[h], h)'
      BY <1>1, <1>2, <2>1, <2>3, <3>1, <3>2 DEF DoneOK, Same, Early, Keeps, SameRow
    <3>4. QED
      BY <3>3, DoneMove
  <2>4. QED
    BY <2>1, <2>2, <2>3
<1>12. CASE Abort(h)
  <2>1. harness'[h] = [NotStarted EXCEPT !.pc = "aborted", !.mem = harness[h].mem,
                                         !.seen = harness[h].seen]
    BY <1>3, <1>12 DEF Abort
  <2>2. harness'[h].pc = "aborted" /\ harness'[h].impl = 0
    BY <2>1 DEF NotStarted
  <2>3. DoneOK(harness[h], h)'
    BY <2>2 DEF DoneOK, Researched
  <2>4. QED
    BY <2>3, DoneMove
<1>13. QED
  BY <1>4, <1>5, <1>6, <1>7, <1>8, <1>9, <1>10, <1>11, <1>12, <1>14
  DEF Step

LEMMA DoneInit == Init => DoneInv
<1> SUFFICES ASSUME Init, NEW h \in Harnesses PROVE DoneOK(harness[h], h)
  BY DEF DoneInv
<1>1. harness[h] = NotStarted
  BY DEF Init
<1>2. /\ harness[h].pc = "init-fixture" /\ harness[h].impl = 0
      /\ harness[h].failed = FALSE
  BY <1>1 DEF NotStarted
<1>3. QED
  BY <1>2 DEF DoneOK, Researched

LEMMA RunNumbers == \A n : n \in 0 .. MaxRuns \/ n \in 1 .. MaxRuns => n \in Nat
BY Bounds

LEMMA MemNumbersNat == \A n : n \in MemNumbers => n \in Nat
BY Bounds DEF MemNumbers

LEMMA StrictlyMore == \A x, y \in Nat : x <= y /\ x # y => y > x
OBVIOUS

LEMMA NotLessThanItself == \A n \in Nat : ~(n < n)
OBVIOUS

(* Exit code 0 means that the harness has a valid implementation row of its *)
(* own, in a newer run if it found none in the run it adopted, and else     *)
(* that a row was scored and its memory proposal filed, which only one      *)
(* harness can have replaced that took the same id before: whatever number  *)
(* of harnesses run at once, and although no failed step ends one           *)
(* (eval_harness and memory_propose in arena/cli.py).                       *)
THEOREM ExitCodeIsTrue == Spec => []ExitMeansDone
<1> DEFINE I == IInv /\ AdoptedInv /\ MemInv /\ DoneInv
<1>1. Init => I
  <2> SUFFICES ASSUME Init PROVE I
    OBVIOUS
  <2>1. \A h \in Harnesses : harness[h] = NotStarted
    BY DEF Init
  <2>2. AdoptedInv
    BY <2>1 DEF AdoptedInv, Init, NotStarted
  <2>3. MemInv
    BY <2>1 DEF MemInv, Init, NotStarted, Filed
  <2>4. QED
    BY <2>2, <2>3, InvInit, DoneInit
<1>2. I /\ [Next]_vars => I'
  <2> SUFFICES ASSUME I, [Next]_vars PROVE I'
    OBVIOUS
  <2>1. CASE UNCHANGED vars
    <3>1. IInv'
      BY InvNext
    <3>2. AdoptedInv' /\ MemInv'
      BY <2>1 DEF vars, AdoptedInv, MemInv, Filed
    <3>3. DoneInv'
      <4>1. rows' = rows /\ harness' = harness /\ Recorded' = Recorded /\ Filed' = Filed
        BY <2>1 DEF vars, Recorded, Filed
      <4>2. ASSUME NEW h \in Harnesses PROVE DoneOK(harness[h], h)'
        <5>1. DoneOK(harness[h], h)
          BY DEF DoneInv
        <5>2. OwnResearch(harness[h], h)' <=> OwnResearch(harness[h], h)
          BY <4>1 DEF OwnResearch
        <5>3. QED
          BY <4>1, <5>1, <5>2 DEF DoneOK
      <4>3. QED
        BY <2>1, <4>2 DEF DoneInv
    <3>4. QED
      BY <3>1, <3>2, <3>3
  <2>2. CASE \E h \in Harnesses : Step(h)
    BY <2>2, InvNext, AdoptedNext, MemNext, DoneNext
  <2>3. QED
    BY <2>1, <2>2 DEF Next, Step
<1>3. I => ExitMeansDone
  <2> SUFFICES ASSUME IInv, MemInv, DoneInv, NEW h \in Harnesses, harness[h].pc = "exit 0"
               PROVE  /\ \E e \in Recorded :
                           /\ rows[e].by = h /\ rows[e].step = "implementation"
                           /\ rows[e].artifact = "valid"
                           /\ harness[h].impl = 0 => rows[e].run > harness[h].run
                      /\ harness[h].impl # 0 =>
                           /\ harness[h].evaluated # 0
                           /\ rows[harness[h].evaluated].scored
                           /\ harness[h].mem \in Filed
                           /\ \/ proposals[harness[h].mem].by = h
                              \/ h \notin harness[proposals[harness[h].mem].by].seen
    BY DEF ExitMeansDone
  <2>1. DoneOK(harness[h], h) /\ ~harness[h].failed
    BY DEF DoneInv, DoneOK
  <2>2. OwnResearch(harness[h], h)
    BY <2>1 DEF DoneOK, Researched
  <2>3. PICK e \in Recorded :
          /\ rows[e].by = h /\ rows[e].step = "implementation" /\ rows[e].artifact = "valid"
          /\ harness[h].run <= rows[e].run
          /\ harness[h].impl = 0 => harness[h].run # rows[e].run
    BY <2>2 DEF OwnResearch
  <2>4. harness[h].run \in Nat /\ rows[e].run \in Nat
    <3>1. harness[h].run \in 0 .. MaxRuns
      BY DEF IInv, TypeInv, Harness
    <3>2. rows[e].run \in 1 .. MaxRuns
      BY RowsType DEF Row, RunIds
    <3>3. QED
      BY <3>1, <3>2, RunNumbers
  <2>5. harness[h].impl = 0 => rows[e].run > harness[h].run
    <3>1. PICK a, b : a = harness[h].run /\ b = rows[e].run
      OBVIOUS
    <3>2. a \in Nat /\ b \in Nat /\ a <= b /\ (harness[h].impl = 0 => a # b)
      BY <2>3, <2>4, <3>1
    <3>3. a # b => b > a
      BY <3>2, StrictlyMore
    <3>4. QED
      BY <3>1, <3>2, <3>3
  <2>6. ASSUME harness[h].impl # 0
        PROVE  /\ harness[h].evaluated # 0 /\ rows[harness[h].evaluated].scored
               /\ harness[h].mem \in Filed
    BY <2>1, <2>6, ZeroIsNoRow DEF DoneOK
  <2>7. ASSUME harness[h].mem \in Filed
        PROVE  h \notin harness[proposals[harness[h].mem].by].seen
    <3>1. PICK g, n : n = harness[h].mem /\ g = proposals[n].by
      OBVIOUS
    <3>2. g \in Harnesses /\ harness[g].mem = n
      <4>1. n \in Filed /\ proposals[n] \in Proposal
        BY <2>7, <3>1 DEF IInv, TypeInv, Filed
      <4>2. QED
        BY <3>1, <4>1 DEF MemInv, Proposal
    <3>3. n \in Nat
      <4>1. n \in MemNumbers
        BY <3>1 DEF IInv, TypeInv, Harness
      <4>2. QED
        BY <4>1, MemNumbersNat
    <3>4. h \in harness[g].seen => n < n
      BY <3>1, <3>2 DEF MemInv
    <3>5. QED
      BY <3>1, <3>3, <3>4, NotLessThanItself
  <2>8. QED
    BY <2>3, <2>5, <2>6, <2>7
<1>4. QED
  BY <1>1, <1>2, <1>3, PTL DEF Spec

-----------------------------------------------------------------------------
(* What is scored and what is reviewed.  Once a harness looks for its       *)
(* implementation row, the one it wrote itself is later than all else that  *)
(* it wrote; and evaluate takes the latest of all.                          *)
OwnLast(h) ==
    \A d, e \in Recorded :
        /\ rows[d].by = h /\ rows[e].by = h /\ d # e
        /\ rows[e].step = "implementation"
        => Earlier(d, e)

NoneOwn(h) ==
    \A e \in Recorded : ~(rows[e].by = h /\ rows[e].step = "implementation")

PairOK(x, h) ==
    /\ x.pc \in Early \cup {"init-fixture"} => NoneOwn(h)
    /\ x.pc \in {"impl row", "evaluate"} => OwnLast(h)
    /\ x.pc \in Early \cup {"init-fixture", "impl row", "evaluate"} => x.evaluated = 0
    /\ x.evaluated # 0 =>
         /\ x.evaluated \in Recorded /\ x.impl \in Recorded
         /\ x.evaluated # x.impl /\ rows[x.impl].by = h => rows[x.evaluated].by # h

PairInv == \A h \in Harnesses : PairOK(harness[h], h)

(* The rows of one harness are added by that harness alone.                 *)
LEMMA PairStays ==
    ASSUME IInv, NEW g \in Harnesses, Keeps(g), NEW x, NEW h,
           Recorded' = Recorded \/ h # g, PairOK(x, h)
    PROVE  PairOK(x, h)'
<1>1. \A e \in Recorded : /\ rows'[e].by = rows[e].by /\ rows'[e].at = rows[e].at
                          /\ rows'[e].step = rows[e].step /\ e \in Recorded'
  BY DEF Keeps, SameRow
<1>2. \A e \in Recorded' : rows'[e].by = h => e \in Recorded
  BY DEF Keeps
<1>3. NoneOwn(h) => NoneOwn(h)'
  BY <1>1, <1>2 DEF NoneOwn
<1>4. OwnLast(h) => OwnLast(h)'
  BY <1>1, <1>2 DEF OwnLast, Earlier
<1>5. QED
  BY <1>1, <1>3, <1>4 DEF PairOK

LEMMA PairMove ==
    ASSUME IInv, PairInv, NEW h \in Harnesses, Step(h), PairOK(harness[h], h)'
    PROVE  PairInv'
<1>1. Keeps(h)
  BY StepKeepsRows
<1>2. ASSUME NEW g \in Harnesses \ {h} PROVE PairOK(harness[g], g)'
  <2>1. PICK x : x = harness[g]
    OBVIOUS
  <2>2. PairOK(x, g)'
    BY <1>1, <2>1, PairStays DEF PairInv
  <2>3. harness'[g] = x
    BY <1>1, <2>1 DEF Keeps
  <2>4. QED
    BY <2>2, <2>3 DEF PairOK, NoneOwn, OwnLast, Earlier
<1>3. QED
  BY <1>2 DEF PairInv

LEMMA PairNext == ASSUME IInv, PairInv, NEW h \in Harnesses, Step(h) PROVE PairInv'
<1>1. PairOK(harness[h], h)
  BY DEF PairInv
<1>2. Keeps(h)
  BY StepKeepsRows
<1>3. harness \in [Harnesses -> Harness]
  BY DEF IInv, TypeInv
<1>4. CASE Research(h)
  <2>1. harness[h].pc = "research-proxy" /\ (Ok(h, "impl row") \/ Failed(h, "impl row"))
    BY <1>4 DEF Research, At
  <2>2. Same(h) /\ harness'[h].pc = "impl row"
    BY <2>1, OkEffect, FailedEffect
  <2>3. NoneOwn(h) /\ harness[h].evaluated = 0
    BY <1>1, <2>1 DEF PairOK, Early
  <2>4. PICK e \in ExpIds :
          /\ \A d \in Recorded' : rows'[d].step = "implementation" /\ rows'[d].by = h
                                    => d \in Recorded \cup {e}
          /\ \A d \in Recorded' \ {e} : Earlier(d, e)'
    BY <1>4, ResearchAdds
  <2>5. \A d \in Recorded : /\ rows'[d].by = rows[d].by
                            /\ rows'[d].step = rows[d].step
    BY <1>2 DEF Keeps, SameRow
  <2>6. \A d \in Recorded' : rows'[d].step = "implementation" /\ rows'[d].by = h
                               => d = e
    BY <2>3, <2>4, <2>5 DEF NoneOwn
  <2>7. OwnLast(h)'
    BY <2>4, <2>6 DEF OwnLast
  <2>8. PairOK(harness[h], h)'
    BY <2>2, <2>3, <2>7 DEF PairOK, Same, Early
  <2>9. QED
    BY <2>8, PairMove
<1>5. ASSUME ~Research(h), Same(h),
             harness'[h].pc \in Early \cup {"impl row", "scan"},
             harness[h].pc \in Early \cup {"init-fixture"}
      PROVE  PairInv'
  <2>1. NoneOwn(h) /\ harness[h].evaluated = 0
    BY <1>1, <1>5 DEF PairOK
  <2>2. PICK step \in {"calibration", "advice", "review"} : Adds(h, step)
    BY <1>5, StepAdds DEF Step
  <2>3. NoneOwn(h)'
    BY <2>1, <2>2 DEF NoneOwn, Adds, SameRow
  <2>4. OwnLast(h)'
    BY <2>3 DEF NoneOwn, OwnLast
  <2>5. PairOK(harness[h], h)'
    BY <1>5, <2>1, <2>3, <2>4 DEF PairOK, Same
  <2>6. QED
    BY <2>5, PairMove
<1>6. CASE InitFixture(h) \/ Plan(h) \/ RunNext(h) \/ RunNextFails(h) \/ ResearchFails(h)
  <2>1. harness[h].pc \in Early \cup {"init-fixture"}
    BY <1>6 DEF InitFixture, Plan, RunNext, RunNextFails, ResearchFails, At, Early
  <2>2. \E next \in {"adopt", "scan", "run-next", "research-proxy", "impl row"} :
            Ok(h, next) \/ Failed(h, next)
    BY <1>6 DEF InitFixture, Plan, RunNext, RunNextFails, ResearchFails
  <2>3. Same(h) /\ harness'[h].pc \in Early \cup {"impl row", "scan"}
    BY <2>2, OkEffect, FailedEffect DEF Early
  <2>4. QED
    BY <1>4, <1>5, <2>1, <2>3
<1>7. CASE Adopt(h)
  <2>1. /\ harness[h].pc = "adopt" /\ rows' = rows
        /\ harness' = [harness EXCEPT ![h].run = latest, ![h].pc = "plan"]
    BY <1>7 DEF Adopt, At
  <2>2. harness'[h].pc = "plan" /\ harness'[h].evaluated = harness[h].evaluated
    BY <1>3, <2>1 DEF Harness
  <2>3. PairOK(harness[h], h)'
    BY <1>1, <2>1, <2>2 DEF PairOK, Early, NoneOwn, Recorded
  <2>4. QED
    BY <2>3, PairMove
<1>8. CASE LookupImpl(h)
  <2>1. harness[h].pc = "impl row" /\ rows' = rows
    BY <1>8 DEF LookupImpl, At
  <2>2. OwnLast(h)' /\ harness[h].evaluated = 0
    <3>1. PICK x : x = harness[h]
      OBVIOUS
    <3>2. Recorded' = Recorded
      BY <2>1 DEF Recorded
    <3>3. PairOK(x, h)'
      BY <1>1, <1>2, <3>1, <3>2, PairStays
    <3>4. QED
      BY <2>1, <3>1, <3>3 DEF PairOK
  <2>3. /\ harness'[h].evaluated = harness[h].evaluated
        /\ harness'[h].pc \in {"evaluate", "scan"}
    <3>1. CASE Ok(h, "scan")
      BY <3>1, OkEffect DEF Same
    <3>2. CASE \E e : harness' = [harness EXCEPT ![h].impl = e, ![h].pc = "evaluate"]
      BY <1>3, <3>2 DEF Harness
    <3>3. QED
      BY <1>8, <3>1, <3>2 DEF LookupImpl
  <2>4. PairOK(harness[h], h)'
    BY <2>2, <2>3 DEF PairOK, Early
  <2>5. QED
    BY <2>4, PairMove
<1>9. CASE Evaluate(h)
  <2>1. harness[h].pc = "evaluate" /\ OwnLast(h) /\ harness[h].evaluated = 0
    BY <1>1, <1>9 DEF Evaluate, At, PairOK
  <2>2. CASE Failed(h, "review")
    <3>1. Same(h) /\ harness'[h].pc = "review"
      BY <2>2, FailedEffect
    <3>2. PairOK(harness[h], h)'
      BY <2>1, <3>1 DEF PairOK, Same, Early
    <3>3. QED
      BY <3>2, PairMove
  <2>3. CASE ~Failed(h, "review")
    <3>1. PICK e \in ExpIds :
            /\ IsLatest(e)
            /\ harness' = [harness EXCEPT ![h].evaluated = e, ![h].pc = "review"]
      BY <1>9, <2>3 DEF Evaluate
    <3>2. PICK impl : impl = harness[h].impl
      OBVIOUS
    <3>3. impl \in Recorded /\ rows[impl].step = "implementation" /\ e \in Recorded
      BY <2>1, <3>1, <3>2 DEF IInv, FoundInv, Has, Recorded, IsLatest
    <3>4. e # impl /\ rows[impl].by = h => rows[e].by # h
      <4> SUFFICES ASSUME e # impl, rows[impl].by = h, rows[e].by = h PROVE FALSE
        OBVIOUS
      <4>1. Earlier(e, impl)
        BY <2>1, <3>3 DEF OwnLast
      <4>2. rows[impl].at < rows[e].at \/ (rows[impl].at = rows[e].at /\ impl <= e)
        BY <3>1, <3>3 DEF IsLatest
      <4>3. /\ rows[impl].at \in Nat /\ rows[e].at \in Nat /\ impl \in Nat /\ e \in Nat
        BY <3>3, RowsType, Bounds DEF Row, Seconds, ExpIds
      <4>4. QED
        BY <4>1, <4>2, <4>3 DEF Earlier
    <3>5. /\ harness'[h].pc = "review" /\ harness'[h].evaluated = e
          /\ harness'[h].impl = impl
      BY <1>3, <3>1, <3>2 DEF Harness
    <3>6. /\ e \in Recorded' /\ impl \in Recorded'
          /\ rows'[e].by = rows[e].by /\ rows'[impl].by = rows[impl].by
      BY <1>2, <3>3 DEF Keeps, SameRow
    <3>7. PairOK(harness[h], h)'
      BY <3>4, <3>5, <3>6 DEF PairOK, Early
    <3>8. QED
      BY <3>7, PairMove
  <2>4. QED
    BY <2>2, <2>3
<1>10. ASSUME harness'[h].evaluated = harness[h].evaluated,
              harness'[h].impl = harness[h].impl,
              harness'[h].pc \in {"review row", "memory propose", "write proposal", "scan",
                                  "exit 0", "exit 1"}
       PROVE  PairInv'
  <2>1. harness[h].evaluated # 0 =>
          /\ harness[h].evaluated \in Recorded' /\ harness[h].impl \in Recorded'
          /\ harness[h].evaluated # harness[h].impl /\ rows'[harness[h].impl].by = h
               => rows'[harness[h].evaluated].by # h
    BY <1>1, <1>2 DEF PairOK, Keeps, SameRow
  <2>2. PairOK(harness[h], h)'
    BY <1>10, <2>1 DEF PairOK, Early
  <2>3. QED
    BY <2>2, PairMove
<1>15. CASE MintProposal(h) /\ ~Failed(h, "scan")
  <2>1. PICK n, S : harness' = [harness EXCEPT ![h].mem = n, ![h].seen = S,
                                              ![h].pc = "write proposal"]
    BY <1>15 DEF MintProposal
  <2>2. /\ harness'[h].evaluated = harness[h].evaluated
        /\ harness'[h].impl = harness[h].impl /\ harness'[h].pc = "write proposal"
    BY <1>3, <2>1 DEF Harness
  <2>3. QED
    BY <1>10, <2>2
<1>11. CASE \/ Review(h) \/ (MintProposal(h) /\ Failed(h, "scan")) \/ WriteProposal(h)
            \/ ScanAndReport(h)
  <2>1. \E next \in {"review row", "scan", "exit 0", "exit 1"} :
          Ok(h, next) \/ Failed(h, next)
    BY <1>11 DEF Review, MintProposal, WriteProposal, ScanAndReport
  <2>2. QED
    BY <1>10, <2>1, OkEffect, FailedEffect DEF Same
<1>12. CASE LookupReview(h)
  <2>1. CASE Ok(h, "scan")
    BY <1>10, <2>1, OkEffect DEF Same
  <2>2. CASE \E e : harness' = [harness EXCEPT ![h].review = e, ![h].pc = "memory propose"]
    <3>1. /\ harness'[h].evaluated = harness[h].evaluated
          /\ harness'[h].impl = harness[h].impl
          /\ harness'[h].pc = "memory propose"
      BY <1>3, <2>2 DEF Harness
    <3>2. QED
      BY <1>10, <3>1
  <2>3. QED
    BY <1>12, <2>1, <2>2 DEF LookupReview
<1>13. CASE Abort(h)
  <2>1. harness'[h] = [NotStarted EXCEPT !.pc = "aborted", !.mem = harness[h].mem,
                                         !.seen = harness[h].seen]
    BY <1>3, <1>13 DEF Abort
  <2>2. harness'[h].pc = "aborted" /\ harness'[h].evaluated = 0
    BY <2>1 DEF NotStarted
  <2>3. PairOK(harness[h], h)'
    BY <2>2 DEF PairOK, Early
  <2>4. QED
    BY <2>3, PairMove
<1>14. QED
  BY <1>4, <1>6, <1>7, <1>8, <1>9, <1>11, <1>12, <1>13, <1>15 DEF Step

LEMMA PairInit == Init => PairInv
<1> SUFFICES ASSUME Init, NEW h \in Harnesses PROVE PairOK(harness[h], h)
  BY DEF PairInv
<1>1. harness[h] = NotStarted /\ Recorded = {}
  BY DEF Init, Recorded
<1>2. harness[h].pc = "init-fixture" /\ harness[h].evaluated = 0
  BY <1>1 DEF NotStarted
<1>3. QED
  BY <1>1, <1>2 DEF PairOK, NoneOwn

(* A harness whose implementation row is its own scores that row or one of  *)
(* another harness, never an earlier row of its own, although the lookups   *)
(* go by different orders and seconds are coarse (evaluate and eval_harness *)
(* in arena/cli.py).                                                        *)
THEOREM ScoresReviewed == Spec => []ScoresWhatItReviews
<1>1. Init => IInv /\ PairInv
  BY InvInit, PairInit
<1>2. IInv /\ PairInv /\ [Next]_vars => (IInv /\ PairInv)'
  <2> SUFFICES ASSUME IInv, PairInv, [Next]_vars PROVE IInv' /\ PairInv'
    OBVIOUS
  <2>1. CASE UNCHANGED vars
    <3>1. rows' = rows /\ harness' = harness /\ Recorded' = Recorded
      BY <2>1 DEF vars, Recorded
    <3>2. ASSUME NEW h \in Harnesses PROVE PairOK(harness[h], h)'
      <4>1. PICK x : x = harness[h]
        OBVIOUS
      <4>2. Keeps(h)
        BY <2>1, <3>1 DEF vars, Keeps, SameRow, Filed
      <4>3. PairOK(x, h)'
        BY <3>1, <4>1, <4>2, PairStays DEF PairInv
      <4>4. QED
        BY <3>1, <4>1, <4>3 DEF PairOK
    <3>3. QED
      BY <2>1, <3>2, InvNext DEF PairInv
  <2>2. CASE \E h \in Harnesses : Step(h)
    BY <2>2, InvNext, PairNext
  <2>3. QED
    BY <2>1, <2>2 DEF Next, Step
<1>3. PairInv => ScoresWhatItReviews
  BY DEF PairInv, PairOK, ScoresWhatItReviews
<1>4. QED
  BY <1>1, <1>2, <1>3, PTL DEF Spec
=============================================================================
