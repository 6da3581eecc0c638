----------------------- MODULE SelfImprovementProofs ------------------------
(***************************************************************************)
(* Proofs about SelfImprovement, for any rows, scores, tasks and number of *)
(* scans, whatever is inserted, scored or torn meanwhile, and wherever a   *)
(* scan dies.                                                              *)
(***************************************************************************)
EXTENDS SelfImprovement, NumberLemmas

-----------------------------------------------------------------------------
(* The operators of the community modules that scan_runs is built from.     *)

Pick(s) == CHOOSE x \in s : TRUE

(* The function that SumFunction chooses: sums over parts of S.             *)
SumsOver(g, f, S) ==
    g = [s \in SUBSET S |-> IF s = {} THEN 0 ELSE f[Pick(s)] + g[s \ {Pick(s)}]]

LEMMA SumUnfold ==
    ASSUME NEW S, NEW f \in [S -> Nat]
    PROVE  SumFunction(f) = (CHOOSE g : SumsOver(g, f, S))[S]
BY DEF SumFunction, SumFunctionOnSet, FoldFunctionOnSet, MapThenFoldSet, SumsOver, Pick

LEMMA PickIn == ASSUME NEW s, s # {} PROVE Pick(s) \in s
BY DEF Pick

(* It exists: by induction on the size of the parts.                        *)
LEMMA SumExists ==
    ASSUME NEW S, IsFiniteSet(S), NEW f \in [S -> Nat]
    PROVE  \E g : SumsOver(g, f, S)
<1> DEFINE Parts(k) == {t \in SUBSET S : Cardinality(t) <= k}
           Sums(g, k) == g = [s \in Parts(k) |->
                                IF s = {} THEN 0 ELSE f[Pick(s)] + g[s \ {Pick(s)}]]
           K == {k \in Nat : \E g : Sums(g, k)}
<1>1. \A s \in SUBSET S : IsFiniteSet(s) /\ Cardinality(s) \in Nat
  BY FS_Subset, FS_CardinalityType
<1>2. ASSUME NEW s \in SUBSET S, s # {}
      PROVE  /\ s \ {Pick(s)} \in SUBSET S
             /\ Cardinality(s \ {Pick(s)}) = Cardinality(s) - 1
  <2>1. Pick(s) \in s
    BY <1>2, PickIn
  <2>2. QED
    BY <1>1, <2>1, FS_RemoveElement
<1>3. 0 \in K
  <2> DEFINE g == [s \in Parts(0) |-> 0]
  <2>1. \A s \in Parts(0) : s = {}
    BY <1>1, FS_EmptySet
  <2>2. g = [s \in Parts(0) |-> IF s = {} THEN 0 ELSE f[Pick(s)] + g[s \ {Pick(s)}]]
    <3> HIDE DEF Parts
    <3>1. QED
      BY <2>1
  <2>3. QED
    BY <2>2
<1>4. ASSUME NEW k \in Nat, k \in K PROVE k + 1 \in K
  <2>1. PICK g : Sums(g, k)
    BY <1>4
  <2> DEFINE h == [s \in Parts(k + 1) |->
                      IF s = {} THEN 0 ELSE f[Pick(s)] + g[s \ {Pick(s)}]]
  <2>2. ASSUME NEW s \in Parts(k + 1), s # {}
        PROVE  h[s \ {Pick(s)}] = g[s \ {Pick(s)}]
    <3> DEFINE t == s \ {Pick(s)}
    <3>1. t \in Parts(k) /\ t \in Parts(k + 1)
      BY <1>1, <1>2, <2>2
    <3>2. g[t] = IF t = {} THEN 0 ELSE f[Pick(t)] + g[t \ {Pick(t)}]
      <4> HIDE DEF Parts, t
      <4>1. QED
        BY <2>1, <3>1
    <3>3. h[t] = IF t = {} THEN 0 ELSE f[Pick(t)] + g[t \ {Pick(t)}]
      <4> HIDE DEF Parts, t
      <4>1. QED
        BY <3>1
    <3>4. QED
      BY <3>2, <3>3
  <2>3. h = [s \in Parts(k + 1) |-> IF s = {} THEN 0 ELSE f[Pick(s)] + h[s \ {Pick(s)}]]
    <3> HIDE DEF Parts
    <3>1. QED
      BY <2>2
  <2>4. Sums(h, k + 1)
    BY <2>3
  <2> HIDE DEF h, Sums
  <2>5. QED
    BY <2>4
<1>5. Nat \subseteq K
  <2> HIDE DEF K
  <2>1. QED
    BY <1>3, <1>4, SetInduction
<1>6. PICK g : Sums(g, Cardinality(S))
  BY <1>1, <1>5
<1>7. Parts(Cardinality(S)) = SUBSET S
  BY FS_Subset
<1>8. SumsOver(g, f, S)
  <2> HIDE DEF Parts
  <2>1. QED
    BY <1>6, <1>7 DEF SumsOver
<1>9. QED
  BY <1>8

LEMMA SumType ==
    ASSUME NEW S, IsFiniteSet(S), NEW f \in [S -> Nat]
    PROVE  SumFunction(f) \in Nat
<1> DEFINE g == CHOOSE h : SumsOver(h, f, S)
           K == {k \in Nat : \A s \in SUBSET S : Cardinality(s) = k => g[s] \in Nat}
<1>1. SumsOver(g, f, S)
  BY SumExists
<1> HIDE DEF g
<1>2. ASSUME NEW s \in SUBSET S
      PROVE  g[s] = IF s = {} THEN 0 ELSE f[Pick(s)] + g[s \ {Pick(s)}]
  BY <1>1 DEF SumsOver
<1>3. \A s \in SUBSET S : IsFiniteSet(s) /\ Cardinality(s) \in Nat
  BY FS_Subset, FS_CardinalityType
<1>4. 0 \in K
  BY <1>2, <1>3, FS_EmptySet
<1>5. ASSUME NEW k \in Nat, k \in K PROVE k + 1 \in K
  <2> SUFFICES ASSUME NEW s \in SUBSET S, Cardinality(s) = k + 1 PROVE g[s] \in Nat
    OBVIOUS
  <2>1. s # {}
    BY FS_EmptySet
  <2>2. Pick(s) \in s /\ f[Pick(s)] \in Nat
    BY <2>1, PickIn
  <2>3. Cardinality(s \ {Pick(s)}) = Cardinality(s) - 1
    <3> HIDE DEF K
    <3>1. QED
      BY <1>3, <2>2, FS_RemoveElement
  <2>4. g[s \ {Pick(s)}] \in Nat
    <3>1. s \ {Pick(s)} \in SUBSET S /\ Cardinality(s \ {Pick(s)}) = k
      BY <2>3
    <3>2. QED
      BY <1>5, <3>1
  <2>5. QED
    <3>1. g[s] = f[Pick(s)] + g[s \ {Pick(s)}]
      BY <1>2, <2>1
    <3> HIDE DEF K
    <3>2. QED
      BY <2>2, <2>4, <3>1
<1>6. Nat \subseteq K
  <2> HIDE DEF K
  <2>1. QED
    BY <1>4, <1>5, SetInduction
<1>7. g[S] \in Nat
  BY <1>3, <1>6
<1>8. QED
  BY <1>7, SumUnfold DEF g

(* The function that FlattenSeq chooses: what the first i sequences make.   *)
Joins(g, h, k) == g = [i \in 1 .. k |-> IF i = 1 THEN h[i] ELSE g[i - 1] \o h[i]]

LEMMA JoinUnfold ==
    ASSUME NEW h, Len(h) # 0
    PROVE  FlattenSeq(h) = (CHOOSE g : Joins(g, h, Len(h)))[Len(h)]
BY DEF FlattenSeq, Joins

LEMMA JoinExists ==
    ASSUME NEW h, NEW k \in Nat
    PROVE  \E g : Joins(g, h, k)
<1> DEFINE K == {n \in Nat : \E g : Joins(g, h, n)}
<1>1. 0 \in K
  <2> DEFINE g == [i \in 1 .. 0 |-> h[i]]
  <2>1. Joins(g, h, 0)
    BY DEF Joins
  <2> HIDE DEF g
  <2>2. QED
    BY <2>1
<1>2. ASSUME NEW n \in Nat, n \in K PROVE n + 1 \in K
  <2>1. PICK g : Joins(g, h, n)
    BY <1>2
  <2> DEFINE j == [i \in 1 .. n + 1 |-> IF i = 1 THEN h[i] ELSE g[i - 1] \o h[i]]
  <2>2. ASSUME NEW i \in 1 .. n + 1, i # 1
        PROVE  j[i - 1] = g[i - 1]
    <3>1. i - 1 \in 1 .. n /\ i - 1 \in 1 .. n + 1
      BY <2>2
    <3>2. PICK m \in 1 .. n : m = i - 1
      BY <3>1
    <3>3. g[m] = IF m = 1 THEN h[m] ELSE g[m - 1] \o h[m]
      BY <2>1 DEF Joins
    <3>4. j[m] = IF m = 1 THEN h[m] ELSE g[m - 1] \o h[m]
      BY <3>1, <3>2
    <3>5. QED
      BY <3>2, <3>3, <3>4
  <2>3. j = [i \in 1 .. n + 1 |-> IF i = 1 THEN h[i] ELSE j[i - 1] \o h[i]]
    BY <2>2
  <2>4. Joins(j, h, n + 1)
    BY <2>3 DEF Joins
  <2> HIDE DEF j
  <2>5. QED
    BY <2>4
<1>3. Nat \subseteq K
  <2> HIDE DEF K
  <2>1. QED
    BY <1>1, <1>2, SetInduction
<1>4. QED
  BY <1>3

LEMMA FlattenType ==
    ASSUME NEW V, NEW h \in Seq(Seq(V))
    PROVE  FlattenSeq(h) \in Seq(V)
<1>1. CASE Len(h) = 0
  <2>1. h = <<>>
    BY <1>1
  <2>2. QED
    BY <1>1, <2>1 DEF FlattenSeq
<1>2. CASE Len(h) # 0
  <2> DEFINE g == CHOOSE x : Joins(x, h, Len(h))
             K == {n \in Nat : n + 1 \in 1 .. Len(h) => g[n + 1] \in Seq(V)}
  <2>1. Joins(g, h, Len(h))
    <3>1. Len(h) \in Nat
      OBVIOUS
    <3>2. \E x : Joins(x, h, Len(h))
      BY <3>1, JoinExists
    <3>3. QED
      BY <3>2
  <2> HIDE DEF g
  <2>2. ASSUME NEW i \in 1 .. Len(h)
        PROVE  g[i] = IF i = 1 THEN h[i] ELSE g[i - 1] \o h[i]
    BY <2>1 DEF Joins
  <2>3. 0 \in K
    BY <1>2, <2>2
  <2>4. ASSUME NEW n \in Nat, n \in K PROVE n + 1 \in K
    <3> SUFFICES ASSUME (n + 1) + 1 \in 1 .. Len(h) PROVE g[(n + 1) + 1] \in Seq(V)
      OBVIOUS
    <3>1. g[n + 1] \in Seq(V)
      BY <2>4
    <3>2. PICK i \in 1 .. Len(h) : i = (n + 1) + 1 /\ i # 1 /\ i - 1 = n + 1
      OBVIOUS
    <3>3. g[i] = g[i - 1] \o h[i]
      BY <2>2, <3>2
    <3>4. h[i] \in Seq(V) /\ g[i - 1] \in Seq(V)
      BY <3>1, <3>2
    <3>5. QED
      BY <3>2, <3>3, <3>4
  <2>5. Nat \subseteq K
    <3> HIDE DEF K
    <3>1. QED
      BY <2>3, <2>4, SetInduction
  <2>6. Len(h) - 1 \in Nat /\ (Len(h) - 1) + 1 = Len(h)
    BY <1>2
  <2>7. g[Len(h)] \in Seq(V)
    <3>1. PICK n \in Nat : n = Len(h) - 1
      BY <2>6
    <3>2. n \in K /\ n + 1 = Len(h) /\ n + 1 \in 1 .. Len(h)
      BY <2>5, <3>1
    <3>3. QED
      BY <3>2
  <2>8. QED
    BY <1>2, <2>7, JoinUnfold DEF g
<1>3. QED
  BY <1>1, <1>2

(* A file is added at the end or replaced.                                  *)
LEMMA PutType ==
    ASSUME NEW V, NEW s \in Seq(V), NEW i \in 1 .. Len(s) + 1, NEW x \in V
    PROVE  /\ Put(s, i, x) \in Seq(V)
           /\ Len(Put(s, i, x)) = IF i = Len(s) + 1 THEN Len(s) + 1 ELSE Len(s)
           /\ \A j \in 1 .. Len(Put(s, i, x)) :
                 Put(s, i, x)[j] = IF j = i THEN x ELSE s[j]
<1> DEFINE n == Max({i, Len(s)})
<1>1. /\ n \in {i, Len(s)} /\ n >= i /\ n >= Len(s)
  <2>1. {i, Len(s)} \subseteq 0 .. Len(s) + 1
    OBVIOUS
  <2>2. Len(s) + 1 \in Nat
    OBVIOUS
  <2>3. QED
    BY <2>1, <2>2, MaxExists
<1> HIDE DEF n
<1>2. n = IF i = Len(s) + 1 THEN Len(s) + 1 ELSE Len(s)
  BY <1>1
<1>3. Put(s, i, x) = [j \in 1 .. n |-> IF j = i THEN x ELSE s[j]]
  BY DEF Put, n
<1>4. \A j \in 1 .. n : (IF j = i THEN x ELSE s[j]) \in V
  BY <1>2
<1>5. n \in Nat
  BY <1>2
<1>6. QED
  BY <1>2, <1>3, <1>4, <1>5

-----------------------------------------------------------------------------
(* What scan_runs makes of rows and traces are findings.                    *)

LEMMA WhenType ==
    ASSUME NEW condition, NEW finding, condition => finding \in Finding
    PROVE  When(condition, finding) \in Seq(Finding)
BY DEF When

LEMMA PerRowType ==
    ASSUME NEW seen \in Seq(Row), NEW kind \in Kinds, NEW is
    PROVE  PerRow(seen, kind, is) \in Seq(Finding)
<1> DEFINE f(i) == [kind |-> kind, about |-> i, figures |-> <<>>]
           h == [i \in 1 .. Len(seen) |-> When(i \in is, f(i))]
<1>1. ASSUME NEW i \in 1 .. Len(seen) PROVE When(i \in is, f(i)) \in Seq(Finding)
  <2>1. f(i) \in Finding
    BY DEF Finding
  <2>2. QED
    BY <2>1, WhenType
<1>2. h \in Seq(Seq(Finding))
  <2>1. PICK n \in Nat : n = Len(seen)
    OBVIOUS
  <2> HIDE DEF f
  <2>2. h \in [1 .. n -> Seq(Finding)]
    BY <1>1, <2>1
  <2>3. QED
    BY <2>2
<1>3. FlattenSeq(h) \in Seq(Finding)
  BY <1>2, FlattenType
<1>4. QED
  BY <1>3 DEF PerRow

LEMMA RowAt ==
    ASSUME NEW seen \in Seq(Row), NEW i \in 1 .. Len(seen)
    PROVE  /\ seen[i].wall \in Nat /\ seen[i].waste \in Nat
           /\ seen[i].score \in Scores \cup {NoScore}
           /\ seen[i].task \in Tasks
<1>1. seen[i] \in Row
  OBVIOUS
<1>2. QED
  BY <1>1 DEF Row

(* The rows of either side, their scores and their costs.                   *)
LEMMA OfType ==
    ASSUME NEW seen \in Seq(Row), NEW calibration
    PROVE  /\ Of(seen, calibration) \subseteq 1 .. Len(seen)
           /\ IsFiniteSet(Of(seen, calibration))
           /\ Cardinality(Of(seen, calibration)) \in Nat
<1>1. Of(seen, calibration) \subseteq 1 .. Len(seen)
  BY DEF Of
<1>2. IsFiniteSet(1 .. Len(seen))
  BY FS_Interval
<1>3. IsFiniteSet(Of(seen, calibration))
  BY <1>1, <1>2, FS_Subset
<1>4. QED
  BY <1>1, <1>3, FS_CardinalityType

LEMMA WallType ==
    ASSUME NEW seen \in Seq(Row), NEW is, is \subseteq 1 .. Len(seen)
    PROVE  Wall(seen, is) \in Nat
<1>1. IsFiniteSet(1 .. Len(seen))
  BY FS_Interval
<1>2. IsFiniteSet(is)
  BY <1>1, FS_Subset
<1>3. [i \in is |-> seen[i].wall] \in [is -> Nat]
  BY RowAt
<1>4. QED
  BY <1>2, <1>3, SumType DEF Wall

LEMMA WasteType ==
    ASSUME NEW seen \in Seq(Row)
    PROVE  Waste(seen) \in Nat
<1>1. IsFiniteSet(1 .. Len(seen))
  BY FS_Interval
<1>2. [i \in 1 .. Len(seen) |-> seen[i].waste] \in [1 .. Len(seen) -> Nat]
  BY RowAt
<1>3. QED
  BY <1>1, <1>2, SumType DEF Waste

LEMMA ScoredType ==
    ASSUME NEW seen \in Seq(Row), NEW is, is \subseteq 1 .. Len(seen)
    PROVE  Scored(seen, is) \subseteq Nat /\ IsFiniteSet(Scored(seen, is))
<1> DEFINE score == [i \in is |-> seen[i].score]
           all == {seen[i].score : i \in is}
<1>1. IsFiniteSet(1 .. Len(seen))
  BY FS_Interval
<1>2. IsFiniteSet(is)
  BY <1>1, FS_Subset
<1>3. IsFiniteSet(all)
  <2>1. score \in Surjection(is, all)
    BY DEF Surjection
  <2> HIDE DEF score, all
  <2>2. QED
    BY <1>2, <2>1, FS_Surjection
<1>4. Scored(seen, is) \subseteq all
  BY DEF Scored
<1>5. IsFiniteSet(Scored(seen, is))
  <2> HIDE DEF all
  <2>1. QED
    BY <1>3, <1>4, FS_Subset
<1>6. Scored(seen, is) \subseteq Nat
  BY RowAt, ScanAssumption DEF Scored, ScanAssumption
<1>7. QED
  BY <1>5, <1>6

LEMMA BestType ==
    ASSUME NEW scores, scores \subseteq Nat, IsFiniteSet(scores), NEW default \in Nat
    PROVE  Best(scores, default) \in Nat
<1>1. CASE scores = {}
  BY <1>1 DEF Best
<1>2. CASE scores # {}
  <2>1. Max(scores) \in scores
    BY <1>2, FiniteMax
  <2>2. QED
    BY <1>2, <2>1 DEF Best
<1>3. QED
  BY <1>1, <1>2

(* The worst challenger is one: among those with the least score there is a *)
(* first one.                                                               *)
LEMMA ScoreFindingsType ==
    ASSUME NEW seen \in Seq(Row)
    PROVE  ScoreFindings(seen) \in Seq(Finding)
<1> DEFINE champion == Best(Scored(seen, Of(seen, TRUE)), Baseline)
           others == Of(seen, FALSE)
           scores == Scored(seen, others)
           least == {i \in others : seen[i].score = Min(scores)}
           worst == CHOOSE i \in others :
                       /\ seen[i].score = Min(scores)
                       /\ \A j \in others : seen[j].score = Min(scores) => i <= j
           finding == [kind |-> "score_regression", about |-> worst,
                       figures |-> <<Max(scores), champion>>]
<1>1. others \subseteq Nat /\ others \subseteq 1 .. Len(seen)
  <2>1. others \subseteq 1 .. Len(seen)
    BY OfType
  <2> HIDE DEF others
  <2>2. QED
    BY <2>1
<1>2. scores \subseteq Nat /\ IsFiniteSet(scores)
  BY <1>1, ScoredType
<1>3. champion \in Nat
  <2>1. Scored(seen, Of(seen, TRUE)) \subseteq Nat /\ IsFiniteSet(Scored(seen, Of(seen, TRUE)))
    BY OfType, ScoredType
  <2>2. Baseline \in Nat
    BY DEF Baseline
  <2>3. QED
    BY <2>1, <2>2, BestType
<1>4. ASSUME scores # {} PROVE finding \in Finding
  <2>1. Max(scores) \in Nat
    <3> HIDE DEF scores
    <3>1. QED
      BY <1>2, <1>4, FiniteMax
  <2>2. Min(scores) \in scores
    <3> HIDE DEF scores
    <3>1. QED
      BY <1>2, <1>4, MinExists
  <2>3. \E i \in others : seen[i].score = Min(scores)
    <3>1. \A x \in scores : \E i \in others : seen[i].score = x
      BY DEF Scored
    <3> HIDE DEF scores, others
    <3>2. QED
      BY <2>2, <3>1
  <2>4. least \subseteq Nat /\ least # {}
    BY <1>1, <2>3
  <2>5. PICK i \in least : \A j \in least : i <= j
    <3> HIDE DEF least
    <3>1. QED
      BY <2>4, LeastExists
  <2>6. worst \in others
    <3> HIDE DEF scores, others
    <3>1. QED
      BY <2>5
  <2>7. worst \in Nat
    BY <1>1, <2>6
  <2> HIDE DEF worst, scores, champion
  <2>8. <<Max(scores), champion>> \in Seq(Int)
    BY <1>3, <2>1
  <2>9. QED
    BY <2>7, <2>8 DEF Finding, Kinds
<1>5. ScoreFindings(seen) = IF scores # {} /\ Max(scores) < champion THEN <<finding>> ELSE <<>>
  BY DEF ScoreFindings
<1> HIDE DEF scores, finding, champion
<1>6. QED
  BY <1>4, <1>5

LEMMA WasteFindingsType ==
    ASSUME NEW seen \in Seq(Row)
    PROVE  WasteFindings(seen) \in Seq(Finding)
<1> DEFINE finding == [kind |-> "waste_events_threshold", about |-> 0,
                       figures |-> <<Waste(seen)>>]
<1>1. finding \in Finding
  BY WasteType DEF Finding, Kinds
<1>2. When(Waste(seen) > WasteThreshold, finding) \in Seq(Finding)
  BY <1>1, WhenType
<1>3. QED
  BY <1>2 DEF WasteFindings

LEMMA CostFindingsType ==
    ASSUME NEW seen \in Seq(Row)
    PROVE  CostFindings(seen) \in Seq(Finding)
<1> DEFINE cal == Of(seen, TRUE)
           others == Of(seen, FALSE)
           champion == Best(Scored(seen, cal), Baseline)
           improved == Best(Scored(seen, others), champion) > champion
           wall == Wall(seen, others) - Wall(seen, cal)
           calls == Cardinality(others) - Cardinality(cal)
           slower == [kind |-> "wall_clock_regression", about |-> 0, figures |-> <<wall>>]
           more == [kind |-> "provider_calls_regression", about |-> 0, figures |-> <<calls>>]
           first == When(CostRegressed(Wall(seen, cal), Wall(seen, others), improved), slower)
           second == When(CostRegressed(Cardinality(cal), Cardinality(others), improved), more)
<1>1. wall \in Int /\ calls \in Int
  <2>1. /\ cal \subseteq 1 .. Len(seen) /\ Cardinality(cal) \in Nat
        /\ others \subseteq 1 .. Len(seen) /\ Cardinality(others) \in Nat
    BY OfType
  <2> HIDE DEF cal, others
  <2>2. Wall(seen, cal) \in Nat /\ Wall(seen, others) \in Nat
    BY <2>1, WallType
  <2>3. QED
    BY <2>1, <2>2
<1>2. slower \in Finding /\ more \in Finding
  <2> HIDE DEF wall, calls
  <2>1. QED
    BY <1>1 DEF Finding, Kinds
<1>3. first \in Seq(Finding) /\ second \in Seq(Finding)
  <2> HIDE DEF slower, more
  <2>1. QED
    BY <1>2, WhenType
<1>4. CostFindings(seen) = IF cal = {} \/ others = {} THEN <<>> ELSE first \o second
  BY DEF CostFindings
<1> HIDE DEF first, second, cal, others
<1>5. QED
  BY <1>3, <1>4

LEMMA RowFindingsType ==
    ASSUME NEW seen \in Seq(Row)
    PROVE  RowFindings(seen) \in Seq(Finding)
<1>1. /\ PerRow(seen, "blocked_row", {i \in 1 .. Len(seen) : seen[i].blocked}) \in Seq(Finding)
      /\ PerRow(seen, "invalid_submission", {i \in 1 .. Len(seen) : seen[i].invalid})
            \in Seq(Finding)
  BY PerRowType DEF Kinds
<1>2. QED
  BY <1>1, ScoreFindingsType, WasteFindingsType, CostFindingsType DEF RowFindings

LEMMA TraceFindingsType ==
    ASSUME NEW i \in Nat, NEW task \in Tasks
    PROVE  TraceFindings(i, task) \in Seq(Finding)
<1> DEFINE missing == [kind |-> "missing_trace", about |-> i, figures |-> <<>>]
           corrupt == [kind |-> "corrupt_trace", about |-> task, figures |-> <<>>]
<1>1. missing \in Finding /\ corrupt \in Finding
  <2>1. task \in Nat
    BY ScanAssumption DEF ScanAssumption
  <2>2. QED
    BY <2>1 DEF Finding, Kinds
<1>2. /\ When(traces[task] = NoFile, missing) \in Seq(Finding)
      /\ When(traces[task] = Torn, corrupt) \in Seq(Finding)
  <2> HIDE DEF missing, corrupt
  <2>1. QED
    BY <1>1, WhenType
<1>3. QED
  BY <1>2 DEF TraceFindings

-----------------------------------------------------------------------------
(* Types. *)

LEMMA TypeInit == Init => TypeOK
<1> SUFFICES ASSUME Init PROVE TypeOK
  OBVIOUS
<1>1. scan \in [pc : {Idle, "traces", "propose", "fill", "freeze", "replace"},
                seen : Seq(Row), findings : Seq(Finding), next : Nat \ {0},
                known : SUBSET Finding, sip : Nat]
  BY DEF Init, IdleScan
<1>2. scan.next <= 1 + (IF At("traces") THEN Len(scan.seen) ELSE Len(scan.findings))
  BY DEF Init, IdleScan, At, Idle
<1>3. Len(Inserts) \in Nat /\ MaxScans \in Nat
  BY ScanAssumption DEF ScanAssumption
<1>4. /\ rows \in Seq(Row) /\ Len(rows) <= Len(Inserts)
      /\ proposals \in Seq(Finding \cup {Torn})
  BY <1>3 DEF Init
<1>5. /\ traces \in [Tasks -> {NoFile, "whole", Torn}]
      /\ tmp \in {NoFile, Torn} \cup Seq(Finding)
  BY DEF Init
<1>6. scans \in 0 .. MaxScans /\ died \in BOOLEAN
  <2>1. scans = 0
    BY DEF Init
  <2>2. scans \in 0 .. MaxScans
    BY <1>3, <2>1
  <2>3. died \in BOOLEAN
    BY DEF Init
  <2>4. QED
    BY <2>2, <2>3
<1>7. QED
  BY <1>1, <1>2, <1>4, <1>5, <1>6 DEF TypeOK

(* What the findings that have no proposal are known by: the first of them. *)
LEMMA CurrentIs ==
    ASSUME TypeOK, Unfiled(scan.next) # {}
    PROVE  /\ Current \in scan.next .. Len(scan.findings)
           /\ scan.findings[Current] \in Finding /\ scan.findings[Current] \notin scan.known
           /\ \A n \in scan.next .. Current - 1 : scan.findings[n] \in scan.known
<1> DEFINE U == Unfiled(scan.next)
<1>1. /\ scan.next \in Nat \ {0} /\ scan.findings \in Seq(Finding)
      /\ \A n \in U : /\ n \in scan.next .. Len(scan.findings)
                      /\ scan.findings[n] \notin scan.known
  BY DEF TypeOK, Unfiled, ContentHash
<1>2. U \subseteq Nat
  BY <1>1
<1>3. Current \in U /\ \A n \in U : Current <= n
  <2> HIDE DEF U
  <2>1. Min(U) \in U /\ \A n \in U : Min(U) <= n
    BY <1>2, MinExists DEF U
  <2>2. QED
    BY <2>1 DEF Current, U
<1>4. ASSUME NEW n \in scan.next .. Current - 1 PROVE scan.findings[n] \in scan.known
  <2>1. n \in scan.next .. Len(scan.findings) /\ ~(Current <= n)
    BY <1>1, <1>3
  <2>2. n \notin U
    BY <1>3, <2>1
  <2>3. QED
    BY <2>1, <2>2 DEF Unfiled, ContentHash
<1>5. Current \in scan.next .. Len(scan.findings)
  BY <1>1, <1>3
<1>6. scan.findings[Current] \in Finding
  BY <1>1, <1>5
<1>7. QED
  BY <1>1, <1>3, <1>4, <1>5, <1>6

(* The number of a new proposal is that of no file.                         *)
LEMMA OpenEffect ==
    ASSUME TypeOK, OpenProposal
    PROVE  /\ proposals' \in Seq(Finding \cup {Torn})
           /\ Len(proposals') = Len(proposals) + 1
           /\ proposals'[Len(proposals) + 1] = Torn
           /\ \A i \in 1 .. Len(proposals) : proposals'[i] = proposals[i]
<1>1. PICK V : V = Finding \cup {Torn}
  OBVIOUS
<1>2. PICK s \in Seq(V) : s = proposals
  BY <1>1 DEF TypeOK
<1>3. PICK i \in 1 .. Len(s) + 1 : i = Len(s) + 1
  OBVIOUS
<1>4. PICK x \in V : x = Torn
  BY <1>1
<1>5. proposals' = Put(s, i, x)
  BY <1>2, <1>3, <1>4 DEF OpenProposal, NextSipId
<1>6. /\ Put(s, i, x) \in Seq(V)
      /\ Len(Put(s, i, x)) = IF i = Len(s) + 1 THEN Len(s) + 1 ELSE Len(s)
      /\ \A j \in 1 .. Len(Put(s, i, x)) :
            Put(s, i, x)[j] = IF j = i THEN x ELSE s[j]
  BY PutType
<1>7. QED
  BY <1>1, <1>2, <1>3, <1>4, <1>5, <1>6

(* Where the scan is in the middle of a proposal, it is the last one.       *)
Filling ==
    At("fill") =>
        /\ scan.sip = Len(proposals) /\ scan.sip >= 1 /\ proposals[scan.sip] = Torn
        /\ scan.next <= Len(scan.findings)
        /\ scan.findings[scan.next] \notin scan.known

LEMMA FillEffect ==
    ASSUME TypeOK, Filling, FillProposal
    PROVE  /\ proposals' \in Seq(Finding \cup {Torn})
           /\ Len(proposals') = Len(proposals)
           /\ scan.sip \in 1 .. Len(proposals)
           /\ proposals'[scan.sip] = scan.findings[scan.next]
           /\ scan.findings[scan.next] \in Finding
           /\ \A i \in 1 .. Len(proposals) : i # scan.sip => proposals'[i] = proposals[i]
<1>1. /\ proposals \in Seq(Finding \cup {Torn}) /\ scan.findings \in Seq(Finding)
      /\ scan.next \in 1 .. Len(scan.findings) /\ At("fill")
      /\ scan.sip = Len(proposals) /\ scan.sip \in 1 .. Len(proposals)
  BY DEF TypeOK, Filling, FillProposal
<1>2. PICK f \in Finding : f = scan.findings[scan.next]
  BY <1>1
<1>3. PICK V : V = Finding \cup {Torn}
  OBVIOUS
<1>4. PICK s \in Seq(V) : s = proposals
  BY <1>1, <1>3
<1>5. PICK i \in 1 .. Len(s) + 1 : i = scan.sip /\ i \in 1 .. Len(s)
  BY <1>1, <1>4
<1>6. f \in V
  BY <1>3
<1>7. proposals' = Put(s, i, f)
  BY <1>2, <1>4, <1>5 DEF FillProposal
<1>8. /\ Put(s, i, f) \in Seq(V)
      /\ Len(Put(s, i, f)) = IF i = Len(s) + 1 THEN Len(s) + 1 ELSE Len(s)
      /\ \A j \in 1 .. Len(Put(s, i, f)) :
            Put(s, i, f)[j] = IF j = i THEN f ELSE s[j]
  BY <1>6, PutType
<1>9. QED
  BY <1>1, <1>2, <1>3, <1>4, <1>5, <1>7, <1>8

(* A step of the scan leaves the other commands' data alone, and the step   *)
(* of another command leaves the scan's.                                    *)
Labels == {Idle, "traces", "propose", "fill", "freeze", "replace"}
ScanType == [pc : Labels, seen : Seq(Row), findings : Seq(Finding), next : Nat \ {0},
             known : SUBSET Finding, sip : Nat]
NextBound ==
    scan.next <= 1 + (IF At("traces") THEN Len(scan.seen) ELSE Len(scan.findings))
FilesOK ==
    /\ proposals \in Seq(Finding \cup {Torn})
    /\ tmp \in {NoFile, Torn} \cup Seq(Finding)
OthersOK ==
    /\ rows \in Seq(Row) /\ Len(rows) <= Len(Inserts)
    /\ traces \in [Tasks -> {NoFile, "whole", Torn}]
    /\ scans \in 0 .. MaxScans /\ died \in BOOLEAN

LEMMA TypeParts == TypeOK <=> OthersOK /\ FilesOK /\ scan \in ScanType /\ NextBound
BY DEF TypeOK, OthersOK, FilesOK, ScanType, NextBound, Labels

LEMMA TypePartsNext ==
    TypeOK' <=> OthersOK' /\ FilesOK' /\ scan' \in ScanType /\ NextBound'
BY DEF TypeOK, OthersOK, FilesOK, ScanType, NextBound, Labels

LEMMA OthersNext == TypeOK /\ [Next]_vars => OthersOK'
<1> SUFFICES ASSUME TypeOK, [Next]_vars PROVE OthersOK'
  OBVIOUS
<1>1. /\ rows \in Seq(Row) /\ Len(rows) <= Len(Inserts)
      /\ traces \in [Tasks -> {NoFile, "whole", Torn}]
      /\ scans \in 0 .. MaxScans /\ died \in BOOLEAN /\ MaxScans \in Nat
      /\ Inserts \in Seq(Row)
  BY ScanAssumption DEF TypeOK, ScanAssumption
<1>2. CASE InsertRow
  <2>1. PICK row \in Row : row = Inserts[Len(rows) + 1]
    BY <1>1, <1>2 DEF InsertRow
  <2>2. rows' = Append(rows, row) /\ Len(rows) < Len(Inserts)
    BY <1>2, <2>1 DEF InsertRow
  <2>3. rows' \in Seq(Row) /\ Len(rows') <= Len(Inserts)
    BY <1>1, <2>2
  <2>4. QED
    BY <1>1, <1>2, <2>3 DEF InsertRow, OthersOK
<1>3. CASE ScoreRow
  <2>1. PICK i \in 1 .. Len(rows), score \in Scores :
            rows' = [rows EXCEPT ![i].score = score]
    BY <1>3 DEF ScoreRow
  <2>2. [rows[i] EXCEPT !.score = score] \in Row
    <3>1. rows[i] \in Row
      BY <1>1
    <3>2. QED
      BY <3>1 DEF Row
  <2>3. rows' \in Seq(Row) /\ Len(rows') = Len(rows)
    <3>1. PICK row \in Row : row = [rows[i] EXCEPT !.score = score]
      BY <2>2
    <3>2. rows' = [rows EXCEPT ![i] = row]
      BY <2>1, <3>1
    <3>3. QED
      BY <1>1, <3>2
  <2>4. QED
    BY <1>1, <1>3, <2>3 DEF ScoreRow, OthersOK
<1>4. CASE WriteTrace
  <2>1. traces' \in [Tasks -> {NoFile, "whole", Torn}]
    BY <1>1, <1>4 DEF WriteTrace
  <2>2. QED
    BY <1>1, <1>4, <2>1 DEF WriteTrace, OthersOK
<1>5. CASE StartScan
  <2>1. scans' = scans + 1 /\ scans < MaxScans /\ died' = FALSE /\ UNCHANGED <<rows, traces>>
    BY <1>5 DEF StartScan
  <2>2. scans' \in 0 .. MaxScans
    BY <1>1, <2>1
  <2>3. QED
    BY <1>1, <2>1, <2>2 DEF OthersOK
<1>6. CASE Crash
  <2>1. died' = TRUE /\ UNCHANGED <<rows, traces, scans>>
    BY <1>6 DEF Crash
  <2>2. QED
    BY <1>1, <2>1 DEF OthersOK
<1>7. CASE Unfreeze \/ ScanStep \/ UNCHANGED vars
  <2>1. UNCHANGED <<rows, traces, scans, died>>
    BY <1>7 DEF Unfreeze, ScanStep, ReadTrace, ListProposals, OpenProposal, FillProposal,
                Evaluate, FillSentinel, ReplaceSentinel, vars
  <2>2. QED
    BY <1>1, <2>1 DEF OthersOK
<1>8. QED
  BY <1>2, <1>3, <1>4, <1>5, <1>6, <1>7 DEF Next

-----------------------------------------------------------------------------
(* The inductive invariant. *)

(* The contents that have a proposal.                                       *)
FiledFindings == {proposals[i] : i \in Filed}

(* Between two proposals the scan knows every content that has one, its own *)
(* too, and every finding before the index has one.                         *)
Proposing ==
    At("propose") \/ At("fill") =>
        /\ scan.known = FiledFindings
        /\ \A n \in 1 .. scan.next - 1 : scan.findings[n] \in scan.known

(* A scan that freezes has a proposal for each of its findings.             *)
Freezing ==
    At("freeze") \/ At("replace") =>
        \A n \in 1 .. Len(scan.findings) : scan.findings[n] \in FiledFindings

(* The temporary file is whole when it is renamed.                          *)
Writing == At("replace") => tmp = scan.findings

Sequel == Proposing /\ Filling /\ Freezing /\ Writing

IInv == TypeOK /\ Sequel /\ NoDuplicates /\ TriggersFiled

(* A step that leaves the proposals and the sentinel alone.                 *)
LEMMA SameProposals ==
    ASSUME UNCHANGED proposals
    PROVE  /\ Filed' = Filed /\ FiledFindings' = FiledFindings
           /\ NoDuplicates => NoDuplicates'
           /\ UNCHANGED sentinel => (TriggersFiled => TriggersFiled')
<1>1. Filed' = Filed
  BY DEF Filed
<1>2. QED
  BY <1>1 DEF FiledFindings, NoDuplicates, TriggersFiled

LEMMA TornIsNoFinding == Torn \notin Finding
BY FileAssumption DEF FileAssumption

(* A proposal that is only begun counts as none.                            *)
LEMMA OpenKeepsFiled ==
    ASSUME TypeOK, OpenProposal
    PROVE  Filed' = Filed /\ FiledFindings' = FiledFindings
<1>1. /\ Len(proposals) \in Nat /\ Len(proposals') = Len(proposals) + 1
      /\ proposals'[Len(proposals) + 1] = Torn
      /\ \A i \in 1 .. Len(proposals) : proposals'[i] = proposals[i]
  BY OpenEffect DEF TypeOK
<1>2. Filed' = {i \in 1 .. Len(proposals') : proposals'[i] # Torn}
  BY DEF Filed
<1>3. Filed' = Filed
  BY <1>1, <1>2 DEF Filed
<1>4. \A i \in Filed : proposals'[i] = proposals[i]
  BY <1>1 DEF Filed
<1>5. FiledFindings' = {proposals'[i] : i \in Filed}
  BY <1>3 DEF FiledFindings
<1>6. QED
  BY <1>3, <1>4, <1>5 DEF FiledFindings

LEMMA FillFiles ==
    ASSUME TypeOK, Filling, FillProposal
    PROVE  /\ Filed' = Filed \cup {scan.sip} /\ scan.sip \notin Filed
           /\ \A i \in Filed : proposals'[i] = proposals[i]
           /\ proposals'[scan.sip] = scan.findings[scan.next]
           /\ FiledFindings' = FiledFindings \cup {scan.findings[scan.next]}
<1>1. /\ Len(proposals') = Len(proposals)
      /\ scan.sip \in 1 .. Len(proposals)
      /\ proposals'[scan.sip] = scan.findings[scan.next]
      /\ scan.findings[scan.next] \in Finding
      /\ \A i \in 1 .. Len(proposals) : i # scan.sip => proposals'[i] = proposals[i]
  BY FillEffect
<1>2. proposals[scan.sip] = Torn
  BY DEF Filling, FillProposal
<1>3. Filed' = {i \in 1 .. Len(proposals') : proposals'[i] # Torn}
  BY DEF Filed
<1>4. scan.sip \notin Filed
  BY <1>2 DEF Filed
<1>5. Filed' = Filed \cup {scan.sip}
  BY <1>1, <1>3, TornIsNoFinding DEF Filed
<1>6. \A i \in Filed : proposals'[i] = proposals[i]
  BY <1>1, <1>4 DEF Filed
<1>7. FiledFindings' = {proposals'[i] : i \in Filed \cup {scan.sip}}
  BY <1>5 DEF FiledFindings
<1>8. FiledFindings' = FiledFindings \cup {scan.findings[scan.next]}
  BY <1>1, <1>6, <1>7 DEF FiledFindings
<1>9. QED
  BY <1>1, <1>4, <1>5, <1>6, <1>8

(* A step that ends the scan.                                               *)
LEMMA IdleOK ==
    ASSUME scan' = IdleScan
    PROVE  scan' \in ScanType /\ NextBound' /\ Sequel'
<1>1. scan'.pc = Idle /\ scan'.next = 1 /\ scan'.findings = <<>>
  BY DEF IdleScan
<1>2. scan' \in ScanType
  BY DEF IdleScan, ScanType, Labels
<1>3. NextBound'
  BY <1>1 DEF NextBound, At, Idle
<1>4. Sequel'
  BY <1>1 DEF Sequel, Proposing, Filling, Freezing, Writing, At, Idle
<1>5. QED
  BY <1>2, <1>3, <1>4

-----------------------------------------------------------------------------
(* The steps of the scan. *)

LEMMA InitInv == Init => IInv
<1> SUFFICES ASSUME Init PROVE IInv
  OBVIOUS
<1>1. TypeOK
  BY TypeInit
<1>2. scan.pc = Idle /\ proposals = <<>> /\ sentinel = NoFile
  BY DEF Init, IdleScan
<1>3. Sequel
  BY <1>2 DEF Sequel, Proposing, Filling, Freezing, Writing, At, Idle
<1>4. NoDuplicates /\ TriggersFiled
  BY <1>2 DEF NoDuplicates, TriggersFiled, Filed
<1>5. QED
  BY <1>1, <1>3, <1>4 DEF IInv

(* What other commands do does not reach the scan: it has its own copy of   *)
(* the rows, and no other command writes a proposal.                        *)
LEMMA OthersInv ==
    ASSUME IInv, InsertRow \/ ScoreRow \/ WriteTrace \/ Unfreeze \/ UNCHANGED vars
    PROVE  IInv'
<1>1. UNCHANGED <<proposals, tmp, scan>>
  BY DEF InsertRow, ScoreRow, WriteTrace, Unfreeze, vars
<1>2. sentinel' = NoFile \/ UNCHANGED sentinel
  BY DEF InsertRow, ScoreRow, WriteTrace, Unfreeze, vars
<1>3. FilesOK' /\ scan' \in ScanType /\ NextBound'
  BY <1>1, TypeParts DEF IInv, FilesOK, NextBound, At
<1>4. OthersOK'
  BY OthersNext DEF IInv, Next
<1>5. FiledFindings' = FiledFindings /\ NoDuplicates'
  BY <1>1, SameProposals DEF IInv
<1>6. Sequel'
  BY <1>1, <1>5 DEF IInv, Sequel, Proposing, Filling, Freezing, Writing, At
<1>7. TriggersFiled'
  <2>1. CASE sentinel' = NoFile
    BY <2>1 DEF TriggersFiled
  <2>2. CASE UNCHANGED sentinel
    BY <1>1, <2>2, SameProposals DEF IInv
  <2>3. QED
    BY <1>2, <2>1, <2>2
<1>8. QED
  BY <1>3, <1>4, <1>5, <1>6, <1>7, TypePartsNext DEF IInv

LEMMA StartInv ==
    ASSUME IInv, StartScan
    PROVE  IInv'
<1>1. PICK s \in Seq(Row) : s = rows
  BY DEF IInv, TypeOK
<1>2. PICK f \in Seq(Finding) : f = RowFindings(s)
  BY RowFindingsType
<1>3. scan' = [IdleScan EXCEPT !.pc = "traces", !.seen = s, !.findings = f]
  BY <1>1, <1>2 DEF StartScan
<1>4. /\ scan'.pc = "traces" /\ scan'.seen = s /\ scan'.next = 1
      /\ scan' \in ScanType
  <2>1. PICK r : r = scan'
    OBVIOUS
  <2>2. r \in ScanType /\ r.pc = "traces" /\ r.next = 1 /\ r.seen = s
    <3>1. IdleScan \in ScanType /\ IdleScan.next = 1
      BY DEF IdleScan, ScanType, Labels
    <3>2. PICK q \in ScanType : q = IdleScan /\ q.next = 1
      BY <3>1
    <3>3. PICK p \in Labels : p = "traces"
      BY DEF Labels
    <3>4. r = [q EXCEPT !.pc = p, !.seen = s, !.findings = f]
      BY <1>3, <2>1, <3>2, <3>3
    <3>5. r \in ScanType /\ r.pc = p /\ r.next = q.next /\ r.seen = s
      BY <3>4 DEF ScanType
    <3>6. QED
      BY <3>2, <3>3, <3>5
  <2>3. QED
    BY <2>1, <2>2
<1>5. NextBound'
  BY <1>4 DEF NextBound, At
<1>6. Sequel'
  BY <1>4 DEF Sequel, Proposing, Filling, Freezing, Writing, At
<1>7. UNCHANGED <<proposals, tmp, sentinel>>
  BY DEF StartScan
<1>8. FilesOK' /\ OthersOK'
  BY <1>7, TypeParts, OthersNext DEF IInv, FilesOK, Next
<1>9. NoDuplicates' /\ TriggersFiled'
  BY <1>7, SameProposals DEF IInv
<1>10. QED
  BY <1>4, <1>5, <1>6, <1>8, <1>9, TypePartsNext DEF IInv

LEMMA ReadTraceInv ==
    ASSUME IInv, ReadTrace
    PROVE  IInv'
<1>1. /\ scan \in ScanType /\ scan.pc = "traces"
      /\ scan.next \in 1 .. Len(scan.seen) /\ scan.seen \in Seq(Row)
      /\ scan.findings \in Seq(Finding)
  BY TypeParts DEF IInv, ReadTrace, ScanType, At
<1>2. PICK f \in Seq(Finding) : f = TraceFindings(scan.next, scan.seen[scan.next].task)
  <2>1. scan.next \in Nat /\ scan.seen[scan.next] \in Row
    BY <1>1
  <2>2. scan.seen[scan.next].task \in Tasks
    BY <2>1 DEF Row
  <2>3. QED
    BY <2>1, <2>2, TraceFindingsType
<1>3. PICK g \in Seq(Finding) : g = scan.findings \o f
  <2>1. PICK h \in Seq(Finding) : h = scan.findings
    BY <1>1
  <2>2. h \o f \in Seq(Finding)
    OBVIOUS
  <2>3. QED
    BY <2>1, <2>2
<1>4. scan' = [scan EXCEPT !.next = scan.next + 1, !.findings = g]
  BY <1>2, <1>3 DEF ReadTrace
<1>5. /\ scan' \in ScanType /\ scan'.pc = "traces" /\ scan'.next = scan.next + 1
      /\ scan'.seen = scan.seen
  <2>1. PICK q \in ScanType : q = scan
    BY <1>1
  <2>2. PICK n \in Nat \ {0} : n = scan.next + 1
    BY <1>1
  <2>3. PICK r : r = scan'
    OBVIOUS
  <2>4. r = [q EXCEPT !.next = n, !.findings = g]
    BY <1>4, <2>1, <2>2, <2>3
  <2>5. r \in ScanType /\ r.pc = q.pc /\ r.next = n /\ r.seen = q.seen
    BY <2>4 DEF ScanType
  <2>6. QED
    BY <1>1, <2>1, <2>2, <2>3, <2>5
<1>6. NextBound'
  BY <1>1, <1>5 DEF NextBound, At
<1>7. Sequel'
  BY <1>5 DEF Sequel, Proposing, Filling, Freezing, Writing, At
<1>8. UNCHANGED <<proposals, tmp, sentinel>>
  BY DEF ReadTrace
<1>9. FilesOK' /\ OthersOK'
  BY <1>8, TypeParts, OthersNext DEF IInv, FilesOK, Next, ScanStep
<1>10. NoDuplicates' /\ TriggersFiled'
  BY <1>8, SameProposals DEF IInv
<1>11. QED
  BY <1>5, <1>6, <1>7, <1>9, <1>10, TypePartsNext DEF IInv

LEMMA ListInv ==
    ASSUME IInv, ListProposals
    PROVE  IInv'
<1>1. scan \in ScanType /\ scan.findings \in Seq(Finding)
  BY TypeParts DEF IInv, ScanType
<1>2. FiledFindings \subseteq Finding
  <2>1. proposals \in Seq(Finding \cup {Torn})
    BY DEF IInv, TypeOK
  <2>2. \A i \in Filed : proposals[i] \in Finding
    BY <2>1 DEF Filed
  <2>3. QED
    BY <2>2 DEF FiledFindings
<1>3. PICK K \in SUBSET Finding : K = FiledFindings
  BY <1>2
<1>4. scan' = [scan EXCEPT !.pc = "propose", !.next = 1, !.known = K]
  BY <1>3 DEF ListProposals, FiledFindings, ContentHash
<1>5. /\ scan' \in ScanType /\ scan'.pc = "propose" /\ scan'.next = 1
      /\ scan'.known = K /\ scan'.findings = scan.findings
  <2>1. PICK q \in ScanType : q = scan
    BY <1>1
  <2>2. PICK n \in Nat \ {0} : n = 1
    OBVIOUS
  <2>3. PICK p \in Labels : p = "propose"
    BY DEF Labels
  <2>4. PICK r : r = scan'
    OBVIOUS
  <2>5. r = [q EXCEPT !.pc = p, !.next = n, !.known = K]
    BY <1>4, <2>1, <2>2, <2>3, <2>4
  <2>6. /\ r \in ScanType /\ r.pc = p /\ r.next = n /\ r.known = K
        /\ r.findings = q.findings
    BY <2>5 DEF ScanType
  <2>7. QED
    BY <2>1, <2>2, <2>3, <2>4, <2>6
<1>6. NextBound'
  BY <1>1, <1>5 DEF NextBound, At
<1>7. UNCHANGED <<proposals, tmp, sentinel>>
  BY DEF ListProposals
<1>8. FiledFindings' = FiledFindings /\ NoDuplicates' /\ TriggersFiled'
  BY <1>7, SameProposals DEF IInv
<1>9. Sequel'
  BY <1>3, <1>5, <1>8 DEF Sequel, Proposing, Filling, Freezing, Writing, At
<1>10. FilesOK' /\ OthersOK'
  BY <1>7, TypeParts, OthersNext DEF IInv, FilesOK, Next, ScanStep
<1>11. QED
  BY <1>5, <1>6, <1>8, <1>9, <1>10, TypePartsNext DEF IInv

LEMMA OpenInv ==
    ASSUME IInv, OpenProposal
    PROVE  IInv'
<1>1. /\ scan \in ScanType /\ scan.findings \in Seq(Finding) /\ scan.pc = "propose"
      /\ scan.next \in Nat \ {0}
  BY TypeParts DEF IInv, ScanType, OpenProposal, At
<1>2. /\ Current \in scan.next .. Len(scan.findings)
      /\ scan.findings[Current] \notin scan.known
      /\ \A n \in scan.next .. Current - 1 : scan.findings[n] \in scan.known
  BY CurrentIs DEF IInv, OpenProposal
<1>3. PICK c \in Nat \ {0} : c = Current
  BY <1>1, <1>2
<1>4. PICK k \in Nat \ {0} : k = Len(proposals) + 1
  BY DEF IInv, TypeOK
<1>5. scan' = [scan EXCEPT !.pc = "fill", !.sip = k, !.next = c]
  BY <1>3, <1>4 DEF OpenProposal, NextSipId
<1>6. /\ scan' \in ScanType /\ scan'.pc = "fill" /\ scan'.sip = k /\ scan'.next = c
      /\ scan'.known = scan.known /\ scan'.findings = scan.findings
  BY <1>1, <1>5 DEF ScanType, Labels
<1>7. NextBound'
  BY <1>1, <1>2, <1>3, <1>6 DEF NextBound, At
<1>8. Filed' = Filed /\ FiledFindings' = FiledFindings
  BY OpenKeepsFiled DEF IInv
<1>9. /\ proposals' \in Seq(Finding \cup {Torn}) /\ Len(proposals') = k
      /\ proposals'[k] = Torn
      /\ \A i \in 1 .. Len(proposals) : proposals'[i] = proposals[i]
  BY <1>4, OpenEffect DEF IInv
<1>10. scan.known = FiledFindings
       /\ \A n \in 1 .. scan.next - 1 : scan.findings[n] \in scan.known
  BY <1>1 DEF IInv, Sequel, Proposing, At
<1>11. Proposing'
  <2>1. \A n \in 1 .. c - 1 : scan.findings[n] \in scan.known
    BY <1>1, <1>2, <1>3, <1>10
  <2>2. QED
    BY <1>6, <1>8, <1>10, <2>1 DEF Proposing, At
<1>12. Filling'
  BY <1>2, <1>3, <1>6, <1>9 DEF Filling, At
<1>13. Sequel'
  BY <1>6, <1>11, <1>12 DEF Sequel, Freezing, Writing, At
<1>14. UNCHANGED <<tmp, sentinel>>
  BY DEF OpenProposal
<1>15. FilesOK' /\ OthersOK'
  BY <1>9, <1>14, TypeParts, OthersNext DEF IInv, FilesOK, Next, ScanStep
<1>16. NoDuplicates' /\ TriggersFiled'
  <2>1. \A i \in Filed : proposals'[i] = proposals[i]
    BY <1>9 DEF Filed
  <2>2. QED
    BY <1>8, <1>14, <2>1 DEF IInv, NoDuplicates, TriggersFiled
<1>17. QED
  BY <1>6, <1>7, <1>13, <1>15, <1>16, TypePartsNext DEF IInv

(* The only step that files: what it files is known from then on, and it    *)
(* was not before.                                                          *)
LEMMA FillInv ==
    ASSUME IInv, FillProposal
    PROVE  IInv'
<1>1. /\ scan \in ScanType /\ scan.findings \in Seq(Finding) /\ scan.pc = "fill"
      /\ scan.next \in 1 .. Len(scan.findings) /\ scan.known \subseteq Finding
  BY TypeParts DEF IInv, ScanType, FillProposal, Sequel, Filling, At
<1>2. PICK f \in Finding : f = scan.findings[scan.next]
  BY <1>1
<1>3. PICK k : k = scan.sip
  OBVIOUS
<1>4. /\ Filed' = Filed \cup {k} /\ k \notin Filed
      /\ \A i \in Filed : proposals'[i] = proposals[i]
      /\ proposals'[k] = f /\ FiledFindings' = FiledFindings \cup {f}
  BY <1>2, <1>3, FillFiles DEF IInv, Sequel
<1>5. /\ scan.known = FiledFindings /\ f \notin FiledFindings
      /\ \A n \in 1 .. scan.next - 1 : scan.findings[n] \in scan.known
  BY <1>1, <1>2 DEF IInv, Sequel, Proposing, Filling, At
<1>6. PICK K \in SUBSET Finding : K = scan.known \cup {f}
  BY <1>1
<1>7. scan' = [scan EXCEPT !.pc = "propose", !.next = scan.next + 1, !.known = K]
  BY <1>2, <1>6 DEF FillProposal, ContentHash
<1>8. /\ scan' \in ScanType /\ scan'.pc = "propose" /\ scan'.next = scan.next + 1
      /\ scan'.known = K /\ scan'.findings = scan.findings
  <2>1. PICK q \in ScanType : q = scan
    BY <1>1
  <2>2. PICK n \in Nat \ {0} : n = scan.next + 1
    BY <1>1
  <2>3. PICK p \in Labels : p = "propose"
    BY DEF Labels
  <2>4. PICK r : r = scan'
    OBVIOUS
  <2>5. r = [q EXCEPT !.pc = p, !.next = n, !.known = K]
    BY <1>7, <2>1, <2>2, <2>3, <2>4
  <2>6. /\ r \in ScanType /\ r.pc = p /\ r.next = n /\ r.known = K
        /\ r.findings = q.findings
    BY <2>5 DEF ScanType
  <2>7. QED
    BY <2>1, <2>2, <2>3, <2>4, <2>6
<1>9. NextBound'
  BY <1>1, <1>8 DEF NextBound, At
<1>10. Sequel'
  <2>1. \A n \in 1 .. scan.next : scan.findings[n] \in K
    BY <1>1, <1>2, <1>5, <1>6
  <2>2. K = FiledFindings'
    BY <1>4, <1>5, <1>6
  <2>3. scan'.next - 1 = scan.next
    BY <1>1, <1>8
  <2>4. Proposing'
    BY <1>8, <2>1, <2>2, <2>3 DEF Proposing
  <2>5. QED
    BY <1>8, <2>4 DEF Sequel, Filling, Freezing, Writing, At
<1>11. NoDuplicates'
  <2>1. \A i \in Filed : proposals[i] # f
    BY <1>5 DEF FiledFindings
  <2>2. QED
    BY <1>4, <2>1 DEF IInv, NoDuplicates
<1>12. UNCHANGED <<tmp, sentinel>>
  BY DEF FillProposal
<1>13. TriggersFiled'
  BY <1>4, <1>12 DEF IInv, TriggersFiled
<1>14. proposals' \in Seq(Finding \cup {Torn})
  BY FillEffect DEF IInv, Sequel
<1>15. FilesOK' /\ OthersOK'
  BY <1>12, <1>14, TypeParts, OthersNext DEF IInv, FilesOK, Next, ScanStep
<1>16. QED
  BY <1>8, <1>9, <1>10, <1>11, <1>13, <1>15, TypePartsNext DEF IInv

(* The loop has ended: every finding has a proposal.                        *)
LEMMA EvaluateInv ==
    ASSUME IInv, Evaluate
    PROVE  IInv'
<1>1. /\ scan \in ScanType /\ scan.findings \in Seq(Finding) /\ scan.pc = "propose"
      /\ scan.next \in Nat \ {0}
  BY TypeParts DEF IInv, ScanType, Evaluate, At
<1>2. \A n \in 1 .. Len(scan.findings) : scan.findings[n] \in FiledFindings
  <2>1. /\ scan.known = FiledFindings
        /\ \A n \in 1 .. scan.next - 1 : scan.findings[n] \in scan.known
    BY <1>1 DEF IInv, Sequel, Proposing, At
  <2>2. \A n \in scan.next .. Len(scan.findings) : scan.findings[n] \in scan.known
    BY DEF Evaluate, Unfiled, ContentHash
  <2>3. QED
    BY <1>1, <2>1, <2>2
<1>3. UNCHANGED <<proposals, sentinel>>
  BY DEF Evaluate
<1>4. FiledFindings' = FiledFindings /\ NoDuplicates' /\ TriggersFiled'
  BY <1>3, SameProposals DEF IInv
<1>5. scan' \in ScanType /\ NextBound' /\ Sequel'
  <2>1. CASE scan' = IdleScan
    BY <2>1, IdleOK
  <2>2. CASE scan' = [scan EXCEPT !.pc = "freeze"]
    <3>1. /\ scan' \in ScanType /\ scan'.pc = "freeze" /\ scan'.next = scan.next
          /\ scan'.findings = scan.findings
      BY <1>1, <2>2 DEF ScanType, Labels
    <3>2. NextBound'
      BY <1>1, <3>1, TypeParts DEF IInv, NextBound, At
    <3>3. Sequel'
      BY <1>2, <1>4, <3>1 DEF Sequel, Proposing, Filling, Freezing, Writing, At
    <3>4. QED
      BY <3>1, <3>2, <3>3
  <2>3. QED
    BY <2>1, <2>2 DEF Evaluate
<1>6. tmp' = tmp \/ tmp' = Torn
  BY DEF Evaluate
<1>7. FilesOK' /\ OthersOK'
  BY <1>3, <1>6, TypeParts, OthersNext DEF IInv, FilesOK, Next, ScanStep
<1>8. QED
  BY <1>4, <1>5, <1>7, TypePartsNext DEF IInv

LEMMA FillSentinelInv ==
    ASSUME IInv, FillSentinel
    PROVE  IInv'
<1>1. /\ scan \in ScanType /\ scan.findings \in Seq(Finding) /\ scan.pc = "freeze"
      /\ \A n \in 1 .. Len(scan.findings) : scan.findings[n] \in FiledFindings
  BY TypeParts DEF IInv, ScanType, FillSentinel, Sequel, Freezing, At
<1>2. UNCHANGED <<proposals, sentinel>> /\ tmp' = scan.findings
      /\ scan' = [scan EXCEPT !.pc = "replace"]
  BY DEF FillSentinel
<1>3. /\ scan' \in ScanType /\ scan'.pc = "replace" /\ scan'.next = scan.next
      /\ scan'.findings = scan.findings
  BY <1>1, <1>2 DEF ScanType, Labels
<1>4. NextBound'
  BY <1>1, <1>3, TypeParts DEF IInv, NextBound, At
<1>5. FiledFindings' = FiledFindings /\ NoDuplicates' /\ TriggersFiled'
  BY <1>2, SameProposals DEF IInv
<1>6. Sequel'
  BY <1>1, <1>2, <1>3, <1>5 DEF Sequel, Proposing, Filling, Freezing, Writing, At
<1>7. FilesOK' /\ OthersOK'
  BY <1>1, <1>2, TypeParts, OthersNext DEF IInv, FilesOK, Next, ScanStep
<1>8. QED
  BY <1>3, <1>4, <1>5, <1>6, <1>7, TypePartsNext DEF IInv

(* The sentinel is the temporary file, which lists what has a proposal.     *)
LEMMA ReplaceInv ==
    ASSUME IInv, ReplaceSentinel
    PROVE  IInv'
<1>1. /\ scan.findings \in Seq(Finding) /\ tmp = scan.findings
      /\ \A n \in 1 .. Len(scan.findings) : scan.findings[n] \in FiledFindings
  BY DEF IInv, TypeOK, ReplaceSentinel, Sequel, Freezing, Writing
<1>2. UNCHANGED proposals /\ sentinel' = tmp /\ tmp' = NoFile /\ scan' = IdleScan
  BY DEF ReplaceSentinel
<1>3. scan' \in ScanType /\ NextBound' /\ Sequel'
  BY <1>2, IdleOK
<1>4. Filed' = Filed /\ NoDuplicates'
  BY <1>2, SameProposals DEF IInv
<1>5. TriggersFiled'
  <2>1. sentinel' # Torn
    BY <1>1, <1>2, FileAssumption DEF FileAssumption
  <2>2. \A n \in 1 .. Len(scan.findings) : \E i \in Filed : proposals[i] = scan.findings[n]
    BY <1>1 DEF FiledFindings
  <2>3. QED
    BY <1>1, <1>2, <1>4, <2>1, <2>2 DEF TriggersFiled
<1>6. FilesOK' /\ OthersOK'
  BY <1>2, TypeParts, OthersNext DEF IInv, FilesOK, Next, ScanStep
<1>7. QED
  BY <1>3, <1>4, <1>5, <1>6, TypePartsNext DEF IInv

LEMMA CrashInv ==
    ASSUME IInv, Crash
    PROVE  IInv'
<1>1. UNCHANGED <<proposals, tmp, sentinel>> /\ scan' = IdleScan
  BY DEF Crash
<1>2. scan' \in ScanType /\ NextBound' /\ Sequel'
  BY <1>1, IdleOK
<1>3. NoDuplicates' /\ TriggersFiled'
  BY <1>1, SameProposals DEF IInv
<1>4. FilesOK' /\ OthersOK'
  BY <1>1, TypeParts, OthersNext DEF IInv, FilesOK, Next
<1>5. QED
  BY <1>2, <1>3, <1>4, TypePartsNext DEF IInv

LEMMA NextInv == IInv /\ [Next]_vars => IInv'
<1> SUFFICES ASSUME IInv, [Next]_vars PROVE IInv'
  OBVIOUS
<1>1. CASE InsertRow \/ ScoreRow \/ WriteTrace \/ Unfreeze \/ UNCHANGED vars
  BY <1>1, OthersInv
<1>2. CASE StartScan
  BY <1>2, StartInv
<1>3. CASE ReadTrace
  BY <1>3, ReadTraceInv
<1>4. CASE ListProposals
  BY <1>4, ListInv
<1>5. CASE OpenProposal
  BY <1>5, OpenInv
<1>6. CASE FillProposal
  BY <1>6, FillInv
<1>7. CASE Evaluate
  BY <1>7, EvaluateInv
<1>8. CASE FillSentinel
  BY <1>8, FillSentinelInv
<1>9. CASE ReplaceSentinel
  BY <1>9, ReplaceInv
<1>10. CASE Crash
  BY <1>10, CrashInv
<1>11. QED
  BY <1>1, <1>2, <1>3, <1>4, <1>5, <1>6, <1>7, <1>8, <1>9, <1>10 DEF Next, ScanStep

-----------------------------------------------------------------------------
LEMMA IInvAlways == FairSpec => []IInv
<1>1. QED
  BY InitInv, NextInv, PTL DEF FairSpec

(* However the rows, the traces and the scores come, the scan's findings    *)
(* are ones that the report can print, the file it renames is a list of     *)
(* them, and each of its loops stays within its list.                       *)
THEOREM TypeCorrect == FairSpec => []TypeOK
<1>1. IInv => TypeOK
  BY DEF IInv
<1>2. QED
  BY <1>1, IInvAlways, PTL

(* No two proposals have the same content, whichever scans died before.     *)
THEOREM Idempotent == FairSpec => []NoDuplicates
<1>1. IInv => NoDuplicates
  BY DEF IInv
<1>2. QED
  BY <1>1, IInvAlways, PTL

(* A sentinel is whole, and each of its triggers has a proposal.            *)
THEOREM SentinelIsBacked == FairSpec => []TriggersFiled
<1>1. IInv => TriggersFiled
  BY DEF IInv
<1>2. QED
  BY <1>1, IInvAlways, PTL

(* A step changes no proposal but the one that its scan has just opened.    *)
LEMMA KeptStep ==
    IInv /\ [Next]_vars =>
        \A i \in 1 .. Len(proposals) :
            \/ proposals'[i] = proposals[i]
            \/ At("fill") /\ i = scan.sip /\ proposals[i] = Torn
<1> SUFFICES ASSUME IInv, [Next]_vars, NEW i \in 1 .. Len(proposals)
             PROVE  \/ proposals'[i] = proposals[i]
                    \/ At("fill") /\ i = scan.sip /\ proposals[i] = Torn
  OBVIOUS
<1>1. CASE OpenProposal
  BY <1>1, OpenEffect DEF IInv
<1>2. CASE FillProposal
  <2>1. At("fill") /\ proposals[scan.sip] = Torn
    BY <1>2 DEF IInv, Sequel, Filling, FillProposal
  <2>2. i # scan.sip => proposals'[i] = proposals[i]
    BY <1>2, FillEffect DEF IInv, Sequel
  <2>3. QED
    BY <2>1, <2>2
<1>3. CASE ~(OpenProposal \/ FillProposal)
  BY <1>3 DEF Next, InsertRow, ScoreRow, WriteTrace, Unfreeze, StartScan, ScanStep,
              ReadTrace, ListProposals, Evaluate, FillSentinel, ReplaceSentinel, Crash, vars
<1>4. QED
  BY <1>1, <1>2, <1>3

(* A proposal that is filed is never changed.                               *)
THEOREM FiledForGood == FairSpec => FilesKept
<1>1. QED
  BY IInvAlways, KeptStep, PTL DEF FairSpec, FilesKept

-----------------------------------------------------------------------------
(* How a scan ends. *)

(* A bound on the steps that a scan has still to take: a trace may add a    *)
(* finding, and a finding costs two steps.                                  *)
StepsLeft ==
    CASE At("traces") -> 4 + 2 * Len(scan.findings) + 3 * (Len(scan.seen) + 1 - scan.next)
      [] At("propose") -> 3 + 2 * (Len(scan.findings) + 1 - scan.next)
      [] At("fill") -> 2 + 2 * (Len(scan.findings) + 1 - scan.next)
      [] At("freeze") -> 2
      [] At("replace") -> 1
      [] OTHER -> 0

(* A scan with findings keeps having findings until it freezes or dies.     *)
Onward ==
    ~At(Idle) /\ scan.findings # <<>> =>
        \/ ~At(Idle)' /\ scan'.findings # <<>>
        \/ sentinel' # NoFile
        \/ died'

(* Scans do not run forever, and freeze.                                    *)
ScanEnds == [][(ScanStep => StepsLeft' < StepsLeft) /\ Onward]_vars

LEMMA LengthType ==
    ASSUME TypeOK
    PROVE  /\ Len(scan.findings) \in Nat /\ Len(scan.seen) \in Nat
           /\ scan.next \in Nat \ {0}
           /\ At("traces") => scan.next <= 1 + Len(scan.seen)
           /\ ~At("traces") => scan.next <= 1 + Len(scan.findings)
BY DEF TypeOK

LEMMA StepsLeftType ==
    ASSUME TypeOK
    PROVE  StepsLeft \in Nat
<1>1. CASE At("traces")
  BY <1>1, LengthType DEF StepsLeft, At
<1>2. CASE ~At("traces")
  BY <1>2, LengthType DEF StepsLeft
<1>3. QED
  BY <1>1, <1>2

(* A trace is missing, or torn, or neither.                                 *)
LEMMA OneFindingPerTrace ==
    ASSUME NEW i \in Nat, NEW task \in Tasks
    PROVE  Len(TraceFindings(i, task)) \in 0 .. 1
<1>1. NoFile # Torn
  BY FileAssumption DEF FileAssumption
<1>2. \A f : When(FALSE, f) = <<>> /\ When(TRUE, f) = <<f>>
  BY DEF When
<1>3. CASE traces[task] = NoFile
  <2>1. PICK f : TraceFindings(i, task) = <<f>> \o <<>>
    BY <1>1, <1>2, <1>3 DEF TraceFindings
  <2>2. QED
    BY <2>1
<1>4. CASE traces[task] = Torn
  <2>1. PICK f : TraceFindings(i, task) = <<>> \o <<f>>
    BY <1>1, <1>2, <1>4 DEF TraceFindings
  <2>2. QED
    BY <2>1
<1>5. CASE traces[task] # NoFile /\ traces[task] # Torn
  <2>1. TraceFindings(i, task) = <<>> \o <<>>
    BY <1>2, <1>5 DEF TraceFindings
  <2>2. QED
    BY <2>1
<1>6. QED
  BY <1>3, <1>4, <1>5

LEMMA ReadTraceAdds ==
    ASSUME TypeOK, ReadTrace
    PROVE  /\ scan'.pc = "traces" /\ scan'.next = scan.next + 1
           /\ scan'.seen = scan.seen
           /\ Len(scan'.findings) \in Len(scan.findings) .. Len(scan.findings) + 1
<1>1. /\ scan \in ScanType /\ scan.pc = "traces"
      /\ scan.next \in 1 .. Len(scan.seen) /\ scan.seen \in Seq(Row)
      /\ scan.findings \in Seq(Finding)
  BY TypeParts DEF ReadTrace, ScanType, At
<1>2. PICK f \in Seq(Finding) :
        f = TraceFindings(scan.next, scan.seen[scan.next].task) /\ Len(f) \in 0 .. 1
  <2>1. scan.next \in Nat /\ scan.seen[scan.next] \in Row
    BY <1>1
  <2>2. scan.seen[scan.next].task \in Tasks
    BY <2>1 DEF Row
  <2>3. QED
    BY <2>1, <2>2, TraceFindingsType, OneFindingPerTrace
<1>3. PICK h \in Seq(Finding) : h = scan.findings
  BY <1>1
<1>4. Len(h \o f) = Len(h) + Len(f) /\ Len(h) \in Nat
  OBVIOUS
<1>5. /\ scan'.pc = "traces" /\ scan'.next = scan.next + 1
      /\ scan'.seen = scan.seen /\ scan'.findings = h \o f
  BY <1>1, <1>2, <1>3 DEF ReadTrace, ScanType
<1>6. Len(scan'.findings) = Len(h) + Len(f)
  BY <1>4, <1>5
<1>7. Len(h) + Len(f) \in Len(h) .. Len(h) + 1
  <2>1. PICK m \in Nat : m = Len(h)
    BY <1>4
  <2>2. PICK k \in 0 .. 1 : k = Len(f)
    BY <1>2
  <2>3. m + k \in m .. m + 1
    OBVIOUS
  <2>4. QED
    BY <2>1, <2>2, <2>3
<1>8. Len(scan'.findings) \in Len(scan.findings) .. Len(scan.findings) + 1
  BY <1>3, <1>6, <1>7
<1>9. QED
  BY <1>5, <1>8

LEMMA FewerSteps ==
    ASSUME IInv, ScanStep
    PROVE  StepsLeft' < StepsLeft
<1>1. /\ scan \in ScanType /\ TypeOK
      /\ Len(scan.findings) \in Nat /\ Len(scan.seen) \in Nat
      /\ scan.next \in Nat \ {0}
      /\ At("traces") => scan.next <= 1 + Len(scan.seen)
      /\ ~At("traces") => scan.next <= 1 + Len(scan.findings)
  BY TypeParts, LengthType DEF IInv
<1>2. CASE ReadTrace
  <2>1. /\ scan'.pc = "traces" /\ scan'.next = scan.next + 1
        /\ scan'.seen = scan.seen /\ scan.pc = "traces"
        /\ Len(scan'.findings) \in Len(scan.findings) .. Len(scan.findings) + 1
    BY <1>1, <1>2, ReadTraceAdds DEF ReadTrace, At
  <2>2. StepsLeft = 4 + 2 * Len(scan.findings) + 3 * (Len(scan.seen) + 1 - scan.next)
    BY <2>1 DEF StepsLeft, At
  <2>3. StepsLeft' = 4 + 2 * Len(scan'.findings) + 3 * (Len(scan.seen) + 1 - (scan.next + 1))
    BY <2>1 DEF StepsLeft, At
  <2>4. PICK f \in Nat, r \in Nat, n \in Nat :
          f = Len(scan.findings) /\ r = Len(scan.seen) /\ n = scan.next
    BY <1>1
  <2>5. PICK g \in f .. f + 1 : g = Len(scan'.findings)
    BY <2>1, <2>4
  <2>6. 4 + 2 * g + 3 * (r + 1 - (n + 1)) < 4 + 2 * f + 3 * (r + 1 - n)
    OBVIOUS
  <2>7. QED
    BY <2>2, <2>3, <2>4, <2>5, <2>6
<1>3. CASE ListProposals
  <2>1. /\ scan.pc = "traces" /\ scan.next > Len(scan.seen)
        /\ scan'.pc = "propose" /\ scan'.next = 1 /\ scan'.findings = scan.findings
    BY <1>1, <1>3 DEF ListProposals, At, ScanType
  <2>2. StepsLeft = 4 + 2 * Len(scan.findings) + 3 * (Len(scan.seen) + 1 - scan.next)
    BY <2>1 DEF StepsLeft, At
  <2>3. StepsLeft' = 3 + 2 * (Len(scan.findings) + 1 - 1)
    BY <2>1 DEF StepsLeft, At
  <2>4. scan.next = Len(scan.seen) + 1
    BY <1>1, <2>1 DEF At
  <2>5. PICK f \in Nat, r \in Nat : f = Len(scan.findings) /\ r = Len(scan.seen)
    BY <1>1
  <2>6. 3 + 2 * (f + 1 - 1) < 4 + 2 * f + 3 * (r + 1 - (r + 1))
    OBVIOUS
  <2>7. QED
    BY <2>2, <2>3, <2>4, <2>5, <2>6
<1>4. CASE OpenProposal
  <2>1. /\ scan.pc = "propose" /\ scan'.pc = "fill" /\ scan'.next = Current
        /\ scan'.findings = scan.findings
    BY <1>1, <1>4 DEF OpenProposal, At, ScanType
  <2>2. Current \in scan.next .. Len(scan.findings)
    BY <1>1, <1>4, CurrentIs DEF OpenProposal
  <2>3. StepsLeft = 3 + 2 * (Len(scan.findings) + 1 - scan.next)
    BY <2>1 DEF StepsLeft, At
  <2>4. StepsLeft' = 2 + 2 * (Len(scan.findings) + 1 - Current)
    BY <2>1 DEF StepsLeft, At
  <2>5. PICK f \in Nat, n \in Nat : f = Len(scan.findings) /\ n = scan.next
    BY <1>1
  <2>6. PICK c \in n .. f : c = Current
    BY <2>2, <2>5
  <2>7. 2 + 2 * (f + 1 - c) < 3 + 2 * (f + 1 - n)
    OBVIOUS
  <2>8. QED
    BY <2>3, <2>4, <2>5, <2>6, <2>7
<1>5. CASE FillProposal
  <2>1. /\ scan.pc = "fill" /\ scan'.pc = "propose" /\ scan'.next = scan.next + 1
        /\ scan'.findings = scan.findings
    BY <1>1, <1>5 DEF FillProposal, At, ScanType
  <2>2. StepsLeft = 2 + 2 * (Len(scan.findings) + 1 - scan.next)
    BY <2>1 DEF StepsLeft, At
  <2>3. StepsLeft' = 3 + 2 * (Len(scan.findings) + 1 - (scan.next + 1))
    BY <2>1 DEF StepsLeft, At
  <2>4. PICK f \in Nat, n \in Nat : f = Len(scan.findings) /\ n = scan.next
    BY <1>1
  <2>5. 3 + 2 * (f + 1 - (n + 1)) < 2 + 2 * (f + 1 - n)
    OBVIOUS
  <2>6. QED
    BY <2>2, <2>3, <2>4, <2>5
<1>6. CASE Evaluate
  <2>1. scan.pc = "propose" /\ scan'.pc \in {Idle, "freeze"}
    BY <1>1, <1>6 DEF Evaluate, At, ScanType, IdleScan
  <2>2. StepsLeft = 3 + 2 * (Len(scan.findings) + 1 - scan.next)
    BY <2>1 DEF StepsLeft, At
  <2>3. StepsLeft' \in {0, 2}
    BY <2>1 DEF StepsLeft, At, Idle
  <2>4. scan.next <= 1 + Len(scan.findings)
    BY <1>1, <2>1 DEF At
  <2>5. PICK f \in Nat, n \in Nat : f = Len(scan.findings) /\ n = scan.next
    BY <1>1
  <2>6. n <= 1 + f
    BY <2>4, <2>5
  <2>7. 3 + 2 * (f + 1 - n) \in Int /\ 3 + 2 * (f + 1 - n) > 2
    BY <2>6
  <2>8. QED
    BY <2>2, <2>3, <2>5, <2>7
<1>7. CASE FillSentinel
  <2>1. scan.pc = "freeze" /\ scan'.pc = "replace"
    BY <1>1, <1>7 DEF FillSentinel, At, ScanType
  <2>2. QED
    BY <2>1 DEF StepsLeft, At
<1>8. CASE ReplaceSentinel
  <2>1. scan.pc = "replace" /\ scan'.pc = Idle
    BY <1>8 DEF ReplaceSentinel, At, IdleScan
  <2>2. QED
    BY <2>1 DEF StepsLeft, At, Idle
<1>9. QED
  BY <1>2, <1>3, <1>4, <1>5, <1>6, <1>7, <1>8 DEF ScanStep

LEMMA OnwardStep ==
    ASSUME IInv, [Next]_vars
    PROVE  Onward
<1> SUFFICES ASSUME ~At(Idle), scan.findings # <<>>
             PROVE  \/ ~At(Idle)' /\ scan'.findings # <<>>
                    \/ sentinel' # NoFile
                    \/ died'
  BY DEF Onward
<1>1. scan \in ScanType /\ TypeOK /\ scan.findings \in Seq(Finding)
  BY TypeParts DEF IInv, ScanType
<1>2. CASE InsertRow \/ ScoreRow \/ WriteTrace \/ Unfreeze \/ UNCHANGED vars
  <2>1. scan' = scan
    BY <1>2 DEF InsertRow, ScoreRow, WriteTrace, Unfreeze, vars
  <2>2. QED
    BY <2>1 DEF At
<1>3. CASE StartScan
  BY <1>3 DEF StartScan
<1>4. CASE ReadTrace
  <2>1. scan'.pc = "traces" /\ Len(scan'.findings) >= Len(scan.findings)
    BY <1>1, <1>4, ReadTraceAdds
  <2>2. Len(scan.findings) > 0
    BY <1>1
  <2>3. scan'.findings # <<>>
    BY <1>1, <2>1, <2>2
  <2>4. QED
    BY <2>1, <2>3 DEF At, Idle
<1>5. CASE ListProposals \/ OpenProposal \/ FillProposal \/ FillSentinel
  <2>1. scan'.findings = scan.findings /\ scan'.pc \in {"propose", "fill", "replace"}
    BY <1>1, <1>5 DEF ListProposals, OpenProposal, FillProposal, FillSentinel, ScanType
  <2>2. QED
    BY <2>1 DEF At, Idle
<1>6. CASE Evaluate
  <2>1. scan'.findings = scan.findings /\ scan'.pc = "freeze"
    BY <1>1, <1>6 DEF Evaluate, ScanType
  <2>2. QED
    BY <2>1 DEF At, Idle
<1>7. CASE ReplaceSentinel
  <2>1. sentinel' = scan.findings
    BY <1>7 DEF ReplaceSentinel, IInv, Sequel, Writing
  <2>2. QED
    BY <1>1, <2>1, FileAssumption DEF FileAssumption
<1>8. CASE Crash
  BY <1>8 DEF Crash
<1>9. QED
  BY <1>2, <1>3, <1>4, <1>5, <1>6, <1>7, <1>8 DEF Next, ScanStep

(* A scan takes a bounded number of steps, however many findings its        *)
(* traces add, and one with findings leaves a sentinel unless it dies.      *)
(* With the fairness of its steps this is why FindingsFreeze holds.         *)
THEOREM ScansEnd == FairSpec => ScanEnds /\ [](StepsLeft \in Nat)
<1>1. IInv => StepsLeft \in Nat
  BY StepsLeftType DEF IInv
<1>2. IInv /\ [Next]_vars => [(ScanStep => StepsLeft' < StepsLeft) /\ Onward]_vars
  BY FewerSteps, OnwardStep
<1>3. QED
  BY <1>1, <1>2, IInvAlways, PTL DEF FairSpec, ScanEnds

=============================================================================
