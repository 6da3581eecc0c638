------------------------- MODULE ResearchLoopProofs --------------------------
(***************************************************************************)
(* Proofs about ResearchLoop, for any number of commands, runs and ids,    *)
(* any ceilings and any outcomes of the invocations.                       *)
(***************************************************************************)
EXTENDS ResearchLoop, NumberLemmas, FiniteSetTheorems, TLAPS

-----------------------------------------------------------------------------
(* Type correctness. *)
Labels == {Idle, "precheck", "mint", "check", "invoking", "collect",
           "persist", "score"}

Minted == {"check", "invoking", "collect", "persist", "score"}

(* The local variables of a command whose accumulators are a.               *)
Locals(a) == [pc : Labels, exp : 0 .. MaxExp, row : Row \cup {NoRow},
              acc : {a}, started : BOOLEAN, payload : Artifact \cup {NoFile}]

(* A command has a row, empty until the artifact is there, and an id once    *)
(* it minted one; an artifact where it will read one, that of the proposal   *)
(* included; and its row is in the table once it scores.                     *)
LocalOK(x, f, t) ==
    /\ x \in Locals(x.acc)
    /\ x.pc \in Minted => x.exp \in ExpIds
    /\ x.pc = Idle <=> x.row = NoRow
    /\ x.pc = "check" => ~x.started
    /\ x.pc \in {"precheck", "mint", "check", "invoking", "collect"}
         => x.row.status = "completed" /\ ~x.row.file
    /\ x.pc = "collect" \/ (x.pc = "persist" /\ x.row.status = "completed")
         => f[x.exp][x.row.step] \in Artifact
    /\ x.pc # Idle /\ x.row.step = "implementation"
         => /\ x.row.proposal \in ExpIds
            /\ f[x.row.proposal]["fusion"] \in Artifact
    /\ x.pc = "score" => t[x.exp] # NoRow

TypeInv ==
    /\ latest \in 0 .. MaxRuns
    /\ rows \in [ExpIds -> Row \cup {NoRow}]
    /\ files \in [ExpIds -> [Steps -> Artifact \cup {NoFile}]]
    /\ invoked \in [RunIds -> [Providers -> Nat]]
    /\ commands \in 0 .. MaxCommands
    /\ proc = [p \in Procs |-> proc[p]]
    /\ \A p \in Procs : LocalOK(proc[p], files, rows)

LEMMA Bounds == MaxRuns \in Nat /\ MaxExp \in Nat /\ MaxCommands \in Nat
  BY ResearchAssumption DEF ResearchAssumption

LEMMA TypeInvImpliesType == TypeInv => TypeOK
<1> SUFFICES ASSUME TypeInv PROVE TypeOK
  OBVIOUS
<1>1. ASSUME NEW p \in Procs
      PROVE  /\ proc[p].pc \in Labels
             /\ proc[p].pc \in Minted => proc[p].exp \in ExpIds
             /\ proc[p].row \in Row \cup {NoRow}
             /\ proc[p].pc = Idle <=> proc[p].row = NoRow
             /\ proc[p].payload \in Artifact \cup {NoFile}
  BY DEF TypeInv, LocalOK, Locals
<1>2. QED
  BY <1>1 DEF TypeInv, TypeOK, Labels, Minted

LEMMA IdleOK == ASSUME NEW f, NEW t PROVE LocalOK(IdleProc, f, t)
  BY Bounds DEF IdleProc, LocalOK, Locals, Labels, Idle, Minted

LEMMA TypeInit == Init => TypeInv
<1> SUFFICES ASSUME Init PROVE TypeInv
  OBVIOUS
<1>1. proc = [p \in Procs |-> proc[p]] /\ \A p \in Procs : proc[p] = IdleProc
  BY DEF Init
<1>2. files \in [ExpIds -> [Steps -> Artifact \cup {NoFile}]]
  BY DEF Init
<1>3. invoked \in [RunIds -> [Providers -> Nat]]
  BY DEF Init
<1>4. QED
  BY <1>1, <1>2, <1>3, IdleOK, Bounds DEF Init, TypeInv

LEMMA BecomeEffect ==
    ASSUME TypeInv, NEW p \in Procs, NEW x, Become(p, x)
    PROVE  /\ proc' = [q \in Procs |-> proc'[q]]
           /\ proc'[p] = x /\ \A q \in Procs \ {p} : proc'[q] = proc[q]
<1>1. DOMAIN proc = Procs
  BY DEF TypeInv
<1>2. QED
  BY <1>1 DEF Become

(* Rows and artifacts that are there stay.                                  *)
Grows == /\ \A e \in ExpIds, s \in Steps :
              files[e][s] \in Artifact => files'[e][s] \in Artifact
         /\ \A e \in ExpIds : rows[e] # NoRow => rows'[e] # NoRow

LEMMA LocalGrows ==
    ASSUME Grows, NEW x, LocalOK(x, files, rows)
    PROVE  LocalOK(x, files', rows')
<1>1. x.row \in Row \cup {NoRow} /\ (x.pc = Idle <=> x.row = NoRow)
        /\ (x.pc \in Minted => x.exp \in ExpIds)
  BY DEF LocalOK, Locals
<1>2. x.pc # Idle => x.row.step \in Steps
  BY <1>1 DEF Row
<1>3. "fusion" \in Steps
  BY DEF Steps
<1>4. QED
  BY <1>1, <1>2, <1>3 DEF Grows, LocalOK, Minted, Idle

LEMMA TypeMove ==
    ASSUME TypeInv, NEW p \in Procs, NEW x, Become(p, x), Grows,
           LocalOK(x, files', rows')
    PROVE  /\ proc' = [q \in Procs |-> proc'[q]]
           /\ \A q \in Procs : LocalOK(proc'[q], files', rows')
  BY BecomeEffect, LocalGrows DEF TypeInv

(* A step that only changes the locals of its process.                      *)
LEMMA TypeLocal ==
    ASSUME TypeInv, NEW p \in Procs, NEW x, Become(p, x),
           LocalOK(x, files, rows),
           latest' = latest, rows' = rows, files' = files, invoked' = invoked,
           commands' \in 0 .. MaxCommands
    PROVE  TypeInv'
<1>1. Grows
  BY DEF Grows
<1>2. QED
  BY <1>1, TypeMove DEF TypeInv

LEMMA TypeExit ==
    ASSUME TypeInv, NEW p \in Procs, Exit(p),
           UNCHANGED <<latest, rows, files, invoked, commands>>
    PROVE  TypeInv'
  BY IdleOK, TypeLocal DEF Exit, TypeInv

(* Rows that stay about the same call.                                      *)
SameCall(a, b) == /\ a.run = b.run /\ a.step = b.step /\ a.prov = b.prov
                  /\ a.by = b.by /\ a.subject = b.subject
                  /\ a.proposal = b.proposal

LEMMA Running ==
    ASSUME TypeInv, NEW p \in Procs, ~At(p, Idle)
    PROVE  proc[p] \in Locals(proc[p].acc) /\ proc[p].row \in Row
  BY DEF TypeInv, LocalOK, Locals, At

LEMMA UsageType ==
    /\ ZeroUsage \in Usage
    /\ Usages \subseteq Usage
  BY ResearchAssumption DEF ResearchAssumption, ZeroUsage, Usage

-----------------------------------------------------------------------------
(* What each step does to the locals of its process.                        *)
LEMMA PrecheckStep ==
    ASSUME TypeInv, NEW p \in Procs, Precheck(p), ~Exit(p)
    PROVE  \E x : /\ Become(p, x) /\ x.pc = "mint" /\ x.row = proc[p].row
                  /\ x.acc = Accumulators(proc[p].row.run)
                  /\ x \in Locals(x.acc)
<1> DEFINE x == [proc[p] EXCEPT !.pc = "mint",
                                !.acc = Accumulators(proc[p].row.run)]
<1>1. Become(p, x) /\ ~At(p, Idle)
  BY DEF Precheck, At, Idle
<1>2. proc[p] \in Locals(proc[p].acc)
  BY <1>1, Running
<1>3. x.pc = "mint" /\ x.row = proc[p].row /\ x \in Locals(x.acc)
        /\ x.acc = Accumulators(proc[p].row.run)
  BY <1>2 DEF Locals, Labels
<1>4. QED
  BY <1>1, <1>3

LEMMA MintStep ==
    ASSUME TypeInv, NEW p \in Procs, Mint(p)
    PROVE  \E x : /\ Become(p, x) /\ x.pc = "check" /\ x.row = proc[p].row
                  /\ x.acc = proc[p].acc /\ ~x.started
                  /\ x.exp \in ExpIds /\ x.exp = NextExpId
                  /\ x \in Locals(x.acc)
<1>1. PICK e \in ExpIds :
        /\ e = NextExpId
        /\ Become(p, [proc[p] EXCEPT !.pc = "check", !.exp = e,
                                     !.started = FALSE])
  BY DEF Mint
<1> DEFINE x == [proc[p] EXCEPT !.pc = "check", !.exp = e, !.started = FALSE]
<1>2. proc[p] \in Locals(proc[p].acc)
  BY Running DEF Mint, At, Idle
<1>3. e \in 0 .. MaxExp
  BY DEF ExpIds
<1>4. /\ x.pc = "check" /\ x.row = proc[p].row /\ x.acc = proc[p].acc
      /\ ~x.started /\ x.exp = e /\ x \in Locals(x.acc)
  BY <1>2, <1>3 DEF Locals, Labels
<1> HIDE DEF x
<1>5. QED
  BY <1>1, <1>4 DEF x

LEMMA InvokeStep ==
    ASSUME TypeInv, NEW p \in Procs, Invoke(p)
    PROVE  \E x : /\ Become(p, x) /\ x.pc = "invoking" /\ x.row = proc[p].row
                  /\ x.acc = proc[p].acc /\ x.exp = proc[p].exp
                  /\ x \in Locals(x.acc)
<1> DEFINE x == [proc[p] EXCEPT !.pc = "invoking", !.started = TRUE]
<1>1. Become(p, x)
  BY DEF Invoke
<1>2. proc[p] \in Locals(proc[p].acc)
  BY Running DEF Invoke, At, Idle
<1>3. /\ x.pc = "invoking" /\ x.row = proc[p].row /\ x.acc = proc[p].acc
      /\ x.exp = proc[p].exp /\ x \in Locals(x.acc)
  BY <1>2 DEF Locals, Labels
<1>4. QED
  BY <1>1, <1>3

(* A blocked row, with the id and the call that the process has.            *)
Blocks(p, x) ==
    /\ Become(p, x) /\ x \in Locals(x.acc)
    /\ x.pc = "persist" /\ x.exp = proc[p].exp
    /\ x.row \in Row /\ SameCall(x.row, proc[p].row)
    /\ x.row.status = "blocked"
    /\ x.row.file = proc[p].row.file /\ x.row.token = proc[p].row.token

LEMMA BlockedStep ==
    ASSUME TypeInv, NEW p \in Procs, ~At(p, Idle), NEW usage \in Usage,
           PersistBlocked(p, usage)
    PROVE  Exit(p) \/ (proc[p].started /\ \E x : Blocks(p, x))
<1> DEFINE x == [proc[p] EXCEPT !.pc = "persist", !.row.status = "blocked",
                                !.row.usage = usage]
<1>1. CASE ~proc[p].started
  BY <1>1 DEF PersistBlocked
<1>2. CASE proc[p].started
  <2>1. Become(p, x)
    BY <1>2 DEF PersistBlocked
  <2>2. proc[p] \in Locals(proc[p].acc) /\ proc[p].row \in Row
    BY Running
  <2>3. /\ x.row = [proc[p].row EXCEPT !.status = "blocked", !.usage = usage]
        /\ x.pc = "persist" /\ x.exp = proc[p].exp /\ x.acc = proc[p].acc
        /\ x.started = proc[p].started /\ x.payload = proc[p].payload
    <3>1. DOMAIN proc[p] = {"pc", "exp", "row", "acc", "started", "payload"}
      BY <2>2 DEF Locals
    <3>2. QED
      BY <3>1
  <2> HIDE DEF x
  <2>4. /\ x.row \in Row /\ SameCall(x.row, proc[p].row)
        /\ x.row.status = "blocked"
        /\ x.row.file = proc[p].row.file /\ x.row.token = proc[p].row.token
    BY <2>2, <2>3 DEF Row, SameCall
  <2>5. x \in Locals(x.acc)
    BY <2>2, <2>4 DEF Locals, Labels, x, Row
  <2>6. Blocks(p, x)
    BY <2>1, <2>3, <2>4, <2>5 DEF Blocks
  <2>7. QED
    BY <1>2, <2>6
<1>3. QED
  BY <1>1, <1>2

(* The path of an artifact, and the usage on the books.                     *)
Accepts(p, x, usage) ==
    /\ Become(p, x) /\ x \in Locals(x.acc)
    /\ x.pc = "collect" /\ x.exp = proc[p].exp
    /\ x.row \in Row /\ SameCall(x.row, proc[p].row)
    /\ x.row.status = proc[p].row.status
    /\ x.row.file = proc[p].row.file /\ x.row.token = proc[p].row.token
    /\ Record(p, usage).breaker = NoBreaker
    /\ x.acc = Record(p, usage).acc

LEMMA AcceptStep ==
    ASSUME TypeInv, NEW p \in Procs, ~At(p, Idle), NEW usage \in Usage,
           Accept(p, usage), Record(p, usage).breaker = NoBreaker
    PROVE  \E x : Accepts(p, x, usage)
<1> DEFINE a == Record(p, usage).acc
           x == [proc[p] EXCEPT !.pc = "collect", !.row.usage = usage, !.acc = a]
<1>1. Become(p, x)
  BY DEF Accept
<1>2. proc[p] \in Locals(proc[p].acc) /\ proc[p].row \in Row
  BY Running
<1> HIDE DEF a
<1>3. /\ x.row = [proc[p].row EXCEPT !.usage = usage]
      /\ x.pc = "collect" /\ x.exp = proc[p].exp /\ x.acc = a
      /\ x.started = proc[p].started /\ x.payload = proc[p].payload
  BY <1>2 DEF Locals
<1> HIDE DEF x
<1>4. /\ x.row \in Row /\ SameCall(x.row, proc[p].row)
      /\ x.row.status = proc[p].row.status
      /\ x.row.file = proc[p].row.file /\ x.row.token = proc[p].row.token
  BY <1>2, <1>3 DEF Row, SameCall
<1>5. x \in Locals(x.acc)
  BY <1>2, <1>4 DEF Locals, Labels, x, Row
<1>6. Accepts(p, x, usage)
  BY <1>1, <1>3, <1>4, <1>5 DEF Accepts, a
<1>7. QED
  BY <1>6

(* The ways an adapter that returned goes on.                               *)
LEMMA ReturnedStep ==
    ASSUME TypeInv, NEW p \in Procs, ~At(p, Idle), NEW usage \in Usage,
           Returned(p, usage, Accept(p, usage))
    PROVE  Exit(p) \/ (\E x : Blocks(p, x)) \/ (\E x : Accepts(p, x, usage))
<1>1. CASE Record(p, usage).breaker # NoBreaker
  BY <1>1, BlockedStep DEF Returned
<1>2. CASE Record(p, usage).breaker = NoBreaker
  BY <1>2, AcceptStep DEF Returned
<1>3. QED
  BY <1>1, <1>2

(* The artifact is in the row.                                              *)
Collects(p, x) ==
    LET artifact == files[proc[p].exp][proc[p].row.step]
    IN  /\ Become(p, x) /\ x \in Locals(x.acc)
        /\ x.pc = "persist" /\ x.exp = proc[p].exp /\ x.acc = proc[p].acc
        /\ x.row \in Row /\ SameCall(x.row, proc[p].row)
        /\ x.row.file /\ x.row.token = artifact.fusion
        /\ x.payload = artifact
        /\ x.row.status \in {"blocked", proc[p].row.status}

LEMMA CollectStep ==
    ASSUME TypeInv, NEW p \in Procs, Collect(p)
    PROVE  \E x : Collects(p, x)
<1> DEFINE artifact == files[proc[p].exp][proc[p].row.step]
           invalid == proc[p].row.step = "implementation" /\ ~artifact.good
           status == IF invalid THEN "blocked" ELSE proc[p].row.status
           x == [proc[p] EXCEPT !.pc = "persist", !.payload = artifact,
                   !.row.token = artifact.fusion, !.row.file = TRUE,
                   !.row.status = IF invalid THEN "blocked" ELSE @]
<1>1. Become(p, x)
  BY DEF Collect
<1>2. proc[p] \in Locals(proc[p].acc) /\ proc[p].row \in Row
  BY Running DEF Collect, At, Idle
<1>3. artifact \in Artifact
  BY DEF Collect, At, TypeInv, LocalOK
<1>4. artifact.fusion \in FusionIds \cup {NoToken}
  BY <1>3 DEF Artifact
<1> HIDE DEF artifact, invalid
<1>5. /\ x.row = [proc[p].row EXCEPT !.token = artifact.fusion, !.file = TRUE,
                                     !.status = status]
      /\ x.pc = "persist" /\ x.exp = proc[p].exp /\ x.acc = proc[p].acc
      /\ x.started = proc[p].started /\ x.payload = artifact
  BY <1>2 DEF Locals, Row
<1>6. status \in {"blocked", proc[p].row.status} /\ status \in {"completed", "blocked"}
  BY <1>2 DEF Row
<1> HIDE DEF status, x
<1>7. /\ x.row \in Row /\ SameCall(x.row, proc[p].row)
      /\ x.row.status = status
      /\ x.row.file /\ x.row.token = artifact.fusion
  BY <1>2, <1>4, <1>5, <1>6 DEF Row, SameCall
<1>8. x \in Locals(x.acc)
  BY <1>2, <1>3, <1>4, <1>6 DEF Locals, Labels, x, Row, status
<1>9. Collects(p, x)
  BY <1>1, <1>5, <1>6, <1>7, <1>8 DEF Collects, artifact
<1>10. QED
  BY <1>9

(* The next step of the chain.                                              *)
Continues(p, x, step, prov, proposal) ==
    /\ Become(p, x) /\ x \in Locals(x.acc)
    /\ x.pc = "mint" /\ x.acc = proc[p].acc
    /\ x.row \in Row
    /\ x.row.run = proc[p].row.run /\ x.row.by = proc[p].row.by
    /\ x.row.subject = proc[p].row.subject
    /\ x.row.step = step /\ x.row.prov = prov /\ x.row.proposal = proposal
    /\ x.row.status = "completed" /\ ~x.row.file

LEMMA ContinueStep ==
    ASSUME TypeInv, NEW p \in Procs, ~At(p, Idle), NEW step \in Steps,
           NEW prov \in Providers, NEW proposal \in 0 .. MaxExp,
           Continue(p, step, prov, proposal)
    PROVE  \E x : Continues(p, x, step, prov, proposal)
<1> DEFINE row == [proc[p].row EXCEPT !.step = step, !.prov = prov,
                     !.usage = ZeroUsage, !.status = "completed",
                     !.token = NoToken, !.file = FALSE, !.proposal = proposal]
           x == [proc[p] EXCEPT !.pc = "mint", !.payload = NoFile, !.row = row]
<1>1. Become(p, x)
  BY DEF Continue
<1>2. proc[p] \in Locals(proc[p].acc) /\ proc[p].row \in Row
  BY Running
<1>3. /\ row \in Row
      /\ row.run = proc[p].row.run /\ row.by = proc[p].row.by
      /\ row.subject = proc[p].row.subject
      /\ row.step = step /\ row.prov = prov /\ row.proposal = proposal
      /\ row.status = "completed" /\ ~row.file
  BY <1>2, UsageType DEF Row
<1> HIDE DEF row
<1>4. /\ x.pc = "mint" /\ x.acc = proc[p].acc /\ x.row = row
      /\ x \in Locals(x.acc)
  BY <1>2, <1>3 DEF Locals, Labels
<1> HIDE DEF x
<1>5. Continues(p, x, step, prov, proposal)
  BY <1>1, <1>3, <1>4 DEF Continues
<1>6. QED
  BY <1>5

(* The implementation's row is in the table and gets its score.             *)
Scores(p, x) ==
    /\ Become(p, x) /\ x \in Locals(x.acc)
    /\ x.pc = "score" /\ x.row = proc[p].row /\ x.exp = proc[p].exp

(* What follows a row.                                                      *)
LEMMA AfterRowStep ==
    ASSUME TypeInv, NEW p \in Procs, At(p, "persist"), AfterRow(p)
    PROVE  LET row == proc[p].row
           IN  \/ Exit(p)
               \/ /\ row.status = "completed"
                  /\ \/ /\ row.step = "question"
                        /\ \E x : Continues(p, x, "digest", row.prov, 0)
                     \/ /\ row.step = "digest"
                        /\ \E x : Continues(p, x, "fusion", row.prov, 0)
                     \/ /\ row.step = "fusion" /\ Gate(p)
                        /\ \E x : Continues(p, x, "implementation",
                                            Implementer, proc[p].exp)
                     \/ row.step = "implementation" /\ \E x : Scores(p, x)
<1> DEFINE row == proc[p].row
<1>1. proc[p] \in Locals(proc[p].acc) /\ row \in Row /\ ~At(p, Idle)
  BY Running DEF At, Idle
<1>2. /\ row.prov \in Providers /\ proc[p].exp \in 0 .. MaxExp
      /\ row.status \in {"completed", "blocked"}
      /\ 0 \in 0 .. MaxExp /\ Implementer \in Providers
  BY <1>1, Bounds, ResearchAssumption DEF Locals, Row, ResearchAssumption
<1>3. {"digest", "fusion", "implementation"} \subseteq Steps
  BY DEF Steps
<1> DEFINE x == [proc[p] EXCEPT !.pc = "score"]
<1>4. ASSUME Become(p, x) PROVE Scores(p, x)
  BY <1>1, <1>4 DEF Scores, Locals, Labels
<1> HIDE DEF x
<1>5. CASE row.status = "blocked"
  BY <1>5 DEF AfterRow
<1>6. CASE row.status = "completed"
  <2>1. CASE row.step = "question"
    <3>1. Continue(p, "digest", row.prov, 0)
      BY <1>6, <2>1 DEF AfterRow
    <3>2. QED
      BY <1>1, <1>2, <1>3, <1>6, <2>1, <3>1, ContinueStep
  <2>2. CASE row.step = "digest"
    <3>1. Continue(p, "fusion", row.prov, 0)
      BY <1>6, <2>2 DEF AfterRow
    <3>2. QED
      BY <1>1, <1>2, <1>3, <1>6, <2>2, <3>1, ContinueStep
  <2>3. CASE row.step = "fusion" /\ Gate(p)
    <3>1. Continue(p, "implementation", Implementer, proc[p].exp)
      BY <1>6, <2>3 DEF AfterRow
    <3>2. QED
      BY <1>1, <1>2, <1>3, <1>6, <2>3, <3>1, ContinueStep
  <2>4. CASE row.step = "implementation"
    <3>1. Become(p, x)
      BY <1>6, <2>4 DEF AfterRow, x
    <3>2. QED
      BY <1>4, <1>6, <2>4, <3>1
  <2>5. CASE /\ row.step \notin {"question", "digest", "implementation"}
             /\ ~(row.step = "fusion" /\ Gate(p))
    <3>1. Exit(p)
      BY <1>6, <2>5 DEF AfterRow
    <3>2. QED
      BY <3>1
  <2>6. QED
    BY <2>1, <2>2, <2>3, <2>4, <2>5
<1>7. QED
  BY <1>2, <1>5, <1>6

-----------------------------------------------------------------------------
(* A command starts with an empty row of its own.                           *)
Starts(p, x, draft) ==
    /\ Become(p, x) /\ x \in Locals(x.acc)
    /\ x.pc = "precheck" /\ x.row = draft /\ draft \in Row
    /\ commands' = commands + 1 /\ commands < MaxCommands
    /\ UNCHANGED <<latest, rows, files, invoked>>

LEMMA DraftType ==
    ASSUME TypeInv, commands < MaxCommands,
           NEW run \in RunIds, NEW step \in Steps, NEW prov \in Providers,
           NEW subject \in 0 .. MaxExp, NEW proposal \in 0 .. MaxExp
    PROVE  LET draft == Draft(run, step, prov, subject, proposal)
           IN  /\ draft \in Row /\ draft.status = "completed" /\ ~draft.file
               /\ draft.run = run /\ draft.step = step /\ draft.prov = prov
               /\ draft.subject = subject /\ draft.proposal = proposal
               /\ draft.by = commands + 1
<1>1. commands + 1 \in 1 .. MaxCommands
  BY Bounds DEF TypeInv
<1>2. QED
  BY <1>1, UsageType DEF Draft, Row

LEMMA StartStep ==
    ASSUME TypeInv, NEW p \in Procs, NEW draft \in Row, StartCommand(p, draft)
    PROVE  \E x : Starts(p, x, draft)
<1> DEFINE x == [IdleProc EXCEPT !.pc = "precheck", !.row = draft]
<1>1. /\ x.pc = "precheck" /\ x.row = draft /\ x \in Locals(x.acc)
  <2>1. IdleProc \in Locals(ZeroAccumulators)
    BY Bounds DEF IdleProc, Locals, Labels
  <2>2. x.pc = "precheck" /\ x.row = draft /\ x \in Locals(ZeroAccumulators)
    BY <2>1 DEF Locals, Labels
  <2>3. x.acc = ZeroAccumulators
    BY <2>2 DEF Locals
  <2>4. QED
    BY <2>2, <2>3
<1>2. Become(p, x)
  BY DEF StartCommand
<1> HIDE DEF x
<1>3. Starts(p, x, draft)
  BY <1>1, <1>2 DEF Starts, StartCommand
<1>4. QED
  BY <1>3

LEMMA ResearchStart ==
    ASSUME TypeInv, NEW p \in Procs, StartResearch(p)
    PROVE  \E x : \E v \in Advisors :
             Starts(p, x, Draft(latest, "question", v, 0, 0))
<1>1. PICK v \in Advisors :
        StartCommand(p, Draft(latest, "question", v, 0, 0))
  BY DEF StartResearch
<1>2. latest \in RunIds /\ commands < MaxCommands
  BY Bounds, <1>1 DEF StartResearch, StartCommand, TypeInv, RunIds
<1>3. /\ v \in Providers /\ "question" \in Steps /\ 0 \in 0 .. MaxExp
  BY Bounds, ResearchAssumption DEF Steps, ResearchAssumption
<1>4. Draft(latest, "question", v, 0, 0) \in Row
  BY <1>2, <1>3, DraftType
<1>5. QED
  BY <1>1, <1>4, StartStep

(* What review starts with: an implementation, and a proposal of its run.   *)
LEMMA ReviewStart ==
    ASSUME TypeInv, NEW p \in Procs, StartReview(p)
    PROVE  \E x : \E v \in Advisors, e \in Recorded, d \in Recorded :
             /\ rows[d].run = rows[e].run /\ v \in Providers
             /\ Starts(p, x, Draft(rows[e].run, "review", v, e, d))
<1>1. PICK e \in Recorded, v \in Advisors :
        /\ Reviewable(e)
        /\ StartCommand(p, Draft(rows[e].run, "review", v, e,
                                 Min(ProposalsOf(e))))
  BY DEF StartReview
<1> DEFINE d == Min(ProposalsOf(e))
<1>2. d \in ProposalsOf(e)
  <2>1. ProposalsOf(e) \subseteq ExpIds /\ ProposalsOf(e) # {}
    BY <1>1 DEF Reviewable, ProposalsOf, RowsOf, Recorded
  <2>2. QED
    BY <2>1, Bounds, MinExists DEF ExpIds
<1> HIDE DEF d
<1>3. d \in Recorded /\ rows[d].run = rows[e].run
  BY <1>2 DEF ProposalsOf, RowsOf
<1>4. e \in ExpIds /\ d \in ExpIds /\ rows[e] \in Row
  BY <1>3 DEF Recorded, TypeInv
<1>5. /\ rows[e].run \in RunIds /\ "review" \in Steps /\ v \in Providers
      /\ e \in 0 .. MaxExp /\ d \in 0 .. MaxExp
  BY <1>4, Bounds, ResearchAssumption DEF Row, Steps, ResearchAssumption, ExpIds
<1>6. commands < MaxCommands /\ StartCommand(p, Draft(rows[e].run, "review", v, e, d))
  BY <1>1 DEF StartCommand, d
<1>7. Draft(rows[e].run, "review", v, e, d) \in Row
  BY <1>5, <1>6, DraftType
<1>8. PICK x : Starts(p, x, Draft(rows[e].run, "review", v, e, d))
  BY <1>6, <1>7, StartStep
<1>9. QED
  BY <1>3, <1>5, <1>8

-----------------------------------------------------------------------------
(* Every step keeps the types. *)
LEMMA TypeStart ==
    ASSUME TypeInv, NEW p \in Procs, StartResearch(p) \/ StartReview(p)
    PROVE  TypeInv'
<1>1. ASSUME NEW x, NEW draft, Starts(p, x, draft),
             draft.status = "completed", ~draft.file,
             draft.step # "implementation"
      PROVE  TypeInv'
  <2>1. commands' \in 0 .. MaxCommands
    BY <1>1, Bounds DEF Starts, TypeInv
  <2>2. x \in Locals(x.acc) /\ x.pc = "precheck" /\ x.row = draft
    BY <1>1 DEF Starts
  <2>3. x.row # NoRow
    BY <1>1, <2>2, ResearchSentinels DEF ResearchSentinels, Starts
  <2>4. LocalOK(x, files, rows)
    BY <1>1, <2>2, <2>3 DEF LocalOK, Minted, Idle
  <2>5. QED
    BY <1>1, <2>1, <2>4, TypeLocal DEF Starts
<1>2. CASE StartResearch(p)
  <2>1. PICK x, v : Starts(p, x, Draft(latest, "question", v, 0, 0))
    BY <1>2, ResearchStart
  <2>2. QED
    BY <1>1, <2>1 DEF Draft
<1>3. CASE StartReview(p)
  <2>1. PICK x, v, e, d : Starts(p, x, Draft(rows[e].run, "review", v, e, d))
    BY <1>3, ReviewStart
  <2>2. QED
    BY <1>1, <2>1 DEF Draft
<1>4. QED
  BY <1>2, <1>3

(* From its row on, a process that runs is not idle.                        *)
LEMMA RowIsThere == \A row \in Row : row # NoRow
  BY ResearchSentinels DEF ResearchSentinels

LEMMA BlocksOK ==
    ASSUME TypeInv, NEW p \in Procs, At(p, "invoking"), NEW x, Blocks(p, x),
           Grows
    PROVE  LocalOK(x, files', rows')
<1>1. LocalOK(proc[p], files', rows')
  BY LocalGrows DEF TypeInv
<1>2. x.row # NoRow /\ x.pc = "persist" /\ x.row.status = "blocked"
  BY RowIsThere DEF Blocks
<1>3. x.exp \in ExpIds
  BY <1>1 DEF Blocks, LocalOK, At, Minted
<1>4. x.row.step = "implementation"
        => /\ x.row.proposal \in ExpIds
           /\ files'[x.row.proposal]["fusion"] \in Artifact
  BY <1>1 DEF Blocks, SameCall, LocalOK, At, Idle
<1>5. QED
  BY <1>2, <1>3, <1>4 DEF LocalOK, Blocks, Idle

LEMMA AcceptsOK ==
    ASSUME TypeInv, NEW p \in Procs, At(p, "invoking"), NEW x, NEW usage,
           Accepts(p, x, usage), Grows,
           files'[proc[p].exp][proc[p].row.step] \in Artifact
    PROVE  LocalOK(x, files', rows')
<1>1. LocalOK(proc[p], files', rows')
  BY LocalGrows DEF TypeInv
<1>2. /\ x.row # NoRow /\ x.pc = "collect"
      /\ x.row.status = "completed" /\ ~x.row.file
  BY <1>1, RowIsThere DEF Accepts, LocalOK, At
<1>3. x.exp \in ExpIds /\ files'[x.exp][x.row.step] \in Artifact
  BY <1>1 DEF Accepts, SameCall, LocalOK, At, Minted
<1>4. x.row.step = "implementation"
        => /\ x.row.proposal \in ExpIds
           /\ files'[x.row.proposal]["fusion"] \in Artifact
  BY <1>1 DEF Accepts, SameCall, LocalOK, At, Idle
<1>5. QED
  BY <1>2, <1>3, <1>4 DEF LocalOK, Accepts, Idle

(* The artifact a provider writes is one.                                   *)
LEMMA MayWriteType ==
    ASSUME TypeInv, NEW p \in Procs, At(p, "invoking"),
           NEW artifact \in MayWrite(p)
    PROVE  artifact \in Artifact /\ artifact.by = proc[p].row.by
<1>1. proc[p].row \in Row
  BY Running DEF At, Idle
<1>2. proc[p].row.by \in 1 .. MaxCommands
  BY <1>1 DEF Row
<1>3. proc[p].row.step = "implementation"
        => files[proc[p].row.proposal]["fusion"].fusion \in FusionIds \cup {NoToken}
  BY DEF TypeInv, LocalOK, At, Idle, Artifact
<1>4. QED
  BY <1>2, <1>3 DEF MayWrite, Artifact

LEMMA WriteStep ==
    ASSUME TypeInv, NEW p \in Procs, InvokeReturns(p)
    PROVE  /\ files' \in [ExpIds -> [Steps -> Artifact \cup {NoFile}]]
           /\ \E artifact \in MayWrite(p) :
                /\ files'[proc[p].exp][proc[p].row.step] = artifact
                /\ artifact \in Artifact /\ artifact.by = proc[p].row.by
           /\ \A e \in ExpIds, s \in Steps :
                e # proc[p].exp \/ s # proc[p].row.step
                  => files'[e][s] = files[e][s]
           /\ At(p, "invoking") /\ rows' = rows /\ Grows
<1>1. PICK artifact \in MayWrite(p) :
        files' = [files EXCEPT ![proc[p].exp][proc[p].row.step] = artifact]
  BY DEF InvokeReturns
<1>2. At(p, "invoking") /\ rows' = rows
  BY DEF InvokeReturns
<1>3. proc[p].exp \in ExpIds /\ proc[p].row \in Row
  BY <1>2, Running DEF TypeInv, LocalOK, At, Minted, Idle
<1>4. proc[p].row.step \in Steps
  BY <1>3 DEF Row
<1>5. artifact \in Artifact /\ artifact.by = proc[p].row.by
  BY <1>2, MayWriteType
<1>6. files \in [ExpIds -> [Steps -> Artifact \cup {NoFile}]]
  BY DEF TypeInv
<1>7. files' \in [ExpIds -> [Steps -> Artifact \cup {NoFile}]]
  BY <1>1, <1>3, <1>4, <1>5, <1>6
<1>8. files'[proc[p].exp][proc[p].row.step] = artifact
  BY <1>1, <1>3, <1>4, <1>6
<1>9. \A e \in ExpIds, s \in Steps :
        e # proc[p].exp \/ s # proc[p].row.step => files'[e][s] = files[e][s]
  BY <1>1, <1>3, <1>4, <1>6
<1>10. Grows
  BY <1>2, <1>5, <1>8, <1>9 DEF Grows
<1>11. QED
  BY <1>2, <1>5, <1>7, <1>8, <1>9, <1>10

(* How an invocation ends.                                                  *)
InvokeEnd(p) == \/ InvokeReturns(p) \/ InvokeUnusable(p) \/ InvokeStopped(p)
                \/ InvokeRaises(p)

(* It accepts only what the adapter has written itself.                     *)
LEMMA EndStep ==
    ASSUME TypeInv, NEW p \in Procs, InvokeEnd(p)
    PROVE  /\ At(p, "invoking") /\ Grows
           /\ files' \in [ExpIds -> [Steps -> Artifact \cup {NoFile}]]
           /\ UNCHANGED <<latest, rows, invoked, commands>>
           /\ \/ Exit(p)
              \/ \E x : Blocks(p, x)
              \/ InvokeReturns(p) /\ \E x, usage : Accepts(p, x, usage)
<1>1. At(p, "invoking") /\ ~At(p, Idle)
  BY DEF InvokeEnd, InvokeReturns, InvokeUnusable, InvokeStopped, InvokeRaises,
     At, Idle
<1>2. UNCHANGED <<latest, rows, invoked, commands>>
  BY DEF InvokeEnd, InvokeReturns, InvokeUnusable, InvokeStopped, InvokeRaises
<1>3. Grows /\ files' \in [ExpIds -> [Steps -> Artifact \cup {NoFile}]]
  <2>1. CASE InvokeReturns(p)
    BY <2>1, WriteStep
  <2>2. CASE ~InvokeReturns(p)
    <3>1. files' = files /\ rows' = rows
      BY <2>2 DEF InvokeEnd, InvokeUnusable, InvokeStopped, InvokeRaises
    <3>2. QED
      BY <3>1 DEF Grows, TypeInv
  <2>3. QED
    BY <2>1, <2>2
<1>4. CASE InvokeReturns(p)
  <2>1. PICK usage \in Usages : Returned(p, usage, Accept(p, usage))
    BY <1>4 DEF InvokeReturns
  <2>2. usage \in Usage
    BY UsageType
  <2>3. QED
    BY <1>1, <1>2, <1>3, <1>4, <2>1, <2>2, ReturnedStep
<1>5. CASE InvokeUnusable(p)
  <2>1. PICK usage \in Usages : Returned(p, usage, Exit(p))
    BY <1>5 DEF InvokeUnusable
  <2>2. usage \in Usage
    BY UsageType
  <2>3. Exit(p) \/ PersistBlocked(p, usage)
    BY <2>1 DEF Returned
  <2>4. QED
    BY <1>1, <1>2, <1>3, <2>2, <2>3, BlockedStep
<1>6. CASE InvokeStopped(p)
  BY <1>1, <1>2, <1>3, <1>6, UsageType, BlockedStep DEF InvokeStopped
<1>7. CASE InvokeRaises(p)
  BY <1>1, <1>2, <1>3, <1>7 DEF InvokeRaises
<1>8. QED
  BY <1>4, <1>5, <1>6, <1>7 DEF InvokeEnd

LEMMA TypeInvokeEnd ==
    ASSUME TypeInv, NEW p \in Procs, InvokeEnd(p)
    PROVE  TypeInv'
<1>1. /\ At(p, "invoking") /\ Grows
      /\ files' \in [ExpIds -> [Steps -> Artifact \cup {NoFile}]]
      /\ UNCHANGED <<latest, rows, invoked, commands>>
  BY EndStep
<1>2. PICK x : Become(p, x) /\ LocalOK(x, files', rows')
  <2>1. CASE Exit(p)
    BY <2>1, IdleOK DEF Exit
  <2>2. CASE \E x : Blocks(p, x)
    BY <1>1, <2>2, BlocksOK DEF Blocks
  <2>3. CASE InvokeReturns(p) /\ \E x, usage : Accepts(p, x, usage)
    <3>1. files'[proc[p].exp][proc[p].row.step] \in Artifact
      BY <2>3, WriteStep
    <3>2. QED
      BY <1>1, <2>3, <3>1, AcceptsOK DEF Accepts
  <2>4. QED
    BY <2>1, <2>2, <2>3, EndStep
<1>3. QED
  BY <1>1, <1>2, TypeMove DEF TypeInv

(* A budget or a kill switch that refuses the call leaves no row.           *)
LEMMA RefuseStep ==
    ASSUME TypeInv, NEW p \in Procs, Refuse(p)
    PROVE  Exit(p)
<1>1. At(p, "check") /\ ~At(p, Idle)
  BY DEF Refuse, At, Idle
<1>2. ~proc[p].started
  BY <1>1 DEF TypeInv, LocalOK, At
<1>3. QED
  BY <1>1, <1>2 DEF Refuse, PersistBlocked

LEMMA TypeOneStep ==
    ASSUME TypeInv, NEW p \in Procs,
           Precheck(p) \/ Mint(p) \/ Invoke(p) \/ Refuse(p) \/ Collect(p)
    PROVE  TypeInv'
<1>1. LocalOK(proc[p], files, rows)
  BY DEF TypeInv
<1>2. CASE Exit(p) /\ UNCHANGED <<latest, rows, files, invoked, commands>>
  BY <1>2, TypeExit
<1>3. CASE Precheck(p) /\ ~Exit(p)
  <2>1. PICK x : /\ Become(p, x) /\ x.pc = "mint" /\ x.row = proc[p].row
                 /\ x \in Locals(x.acc)
    BY <1>3, PrecheckStep
  <2>2. LocalOK(x, files, rows)
    BY <1>1, <1>3, <2>1 DEF Precheck, At, LocalOK, Minted, Idle
  <2>3. QED
    BY <1>3, <2>1, <2>2, TypeLocal DEF Precheck, TypeInv
<1>4. CASE Mint(p)
  <2>1. PICK x : /\ Become(p, x) /\ x.pc = "check" /\ x.row = proc[p].row
                 /\ ~x.started /\ x.exp \in ExpIds
                 /\ x \in Locals(x.acc)
    BY <1>4, MintStep
  <2>2. LocalOK(x, files, rows)
    BY <1>1, <1>4, <2>1 DEF Mint, At, LocalOK, Minted, Idle
  <2>3. QED
    BY <1>4, <2>1, <2>2, TypeLocal DEF Mint, TypeInv
<1>5. CASE Invoke(p)
  <2>1. PICK x : /\ Become(p, x) /\ x.pc = "invoking" /\ x.row = proc[p].row
                 /\ x.exp = proc[p].exp /\ x \in Locals(x.acc)
    BY <1>5, InvokeStep
  <2>2. LocalOK(x, files, rows)
    BY <1>1, <1>5, <2>1 DEF Invoke, At, LocalOK, Minted, Idle
  <2>3. Grows /\ UNCHANGED <<latest, rows, files, commands>>
    BY <1>5 DEF Invoke, Grows
  <2>4. invoked' \in [RunIds -> [Providers -> Nat]]
    <3>1. proc[p].row \in Row
      BY <1>5, Running DEF Invoke, At, Idle
    <3>2. proc[p].row.run \in RunIds /\ proc[p].row.prov \in Providers
      BY <3>1 DEF Row
    <3>3. QED
      BY <1>5, <3>2 DEF Invoke, TypeInv
  <2>5. QED
    BY <2>1, <2>2, <2>3, <2>4, TypeMove DEF TypeInv
<1>6. CASE Collect(p)
  <2>1. PICK x : Collects(p, x)
    BY <1>6, CollectStep
  <2>2. LocalOK(x, files, rows)
    <3>1. x \in Locals(x.acc) /\ x.pc = "persist" /\ x.exp = proc[p].exp
      BY <2>1 DEF Collects
    <3>2. x.row # NoRow /\ SameCall(x.row, proc[p].row)
      BY <2>1, RowIsThere DEF Collects
    <3>3. x.exp \in ExpIds /\ files[x.exp][x.row.step] \in Artifact
      BY <1>1, <1>6, <3>1, <3>2 DEF Collect, At, LocalOK, Minted, SameCall
    <3>4. x.row.step = "implementation"
            => /\ x.row.proposal \in ExpIds
               /\ files[x.row.proposal]["fusion"] \in Artifact
      BY <1>1, <1>6, <3>2 DEF Collect, At, LocalOK, Idle, SameCall
    <3>5. QED
      BY <3>1, <3>2, <3>3, <3>4 DEF LocalOK, Idle
  <2>3. QED
    BY <1>6, <2>1, <2>2, TypeLocal DEF Collect, Collects, TypeInv
<1>7. QED
  BY <1>2, <1>3, <1>4, <1>5, <1>6, RefuseStep DEF Precheck, Refuse

LEMMA ContinuesOK ==
    ASSUME TypeInv, NEW p \in Procs, NEW x, NEW step \in Steps, NEW prov,
           NEW proposal, Continues(p, x, step, prov, proposal),
           step = "implementation"
             => proposal \in ExpIds /\ files[proposal]["fusion"] \in Artifact,
           Grows
    PROVE  LocalOK(x, files', rows')
<1>1. x.row # NoRow
  BY RowIsThere DEF Continues
<1>2. LocalOK(x, files, rows)
  BY <1>1 DEF Continues, LocalOK, Minted, Idle
<1>3. QED
  BY <1>2, LocalGrows

(* The insert: the row of a free id, or IntegrityError.                     *)
LEMMA PersistStep ==
    ASSUME TypeInv, NEW p \in Procs, Persist(p)
    PROVE  /\ At(p, "persist") /\ proc[p].exp \in ExpIds /\ proc[p].row \in Row
           /\ UNCHANGED <<latest, files, invoked, commands>>
           /\ Grows /\ rows' \in [ExpIds -> Row \cup {NoRow}]
           /\ \/ rows[proc[p].exp] # NoRow /\ Exit(p) /\ rows' = rows
              \/ /\ rows[proc[p].exp] = NoRow /\ AfterRow(p)
                 /\ rows'[proc[p].exp] = proc[p].row
                 /\ \A e \in ExpIds \ {proc[p].exp} : rows'[e] = rows[e]
<1>1. At(p, "persist") /\ UNCHANGED <<latest, files, invoked, commands>>
  BY DEF Persist
<1>2. proc[p].exp \in ExpIds /\ proc[p].row \in Row
  BY <1>1, Running DEF At, TypeInv, LocalOK, Minted, Idle
<1>3. rows \in [ExpIds -> Row \cup {NoRow}]
  BY DEF TypeInv
<1>4. CASE rows[proc[p].exp] # NoRow
  BY <1>1, <1>2, <1>3, <1>4 DEF Persist, Grows
<1>5. CASE rows[proc[p].exp] = NoRow
  <2>1. AfterRow(p) /\ rows' = [rows EXCEPT ![proc[p].exp] = proc[p].row]
    BY <1>5 DEF Persist
  <2>2. /\ rows'[proc[p].exp] = proc[p].row
        /\ \A e \in ExpIds \ {proc[p].exp} : rows'[e] = rows[e]
        /\ rows' \in [ExpIds -> Row \cup {NoRow}]
    BY <1>2, <1>3, <2>1
  <2>3. Grows
    BY <1>1, <1>2, <2>2, RowIsThere DEF Grows
  <2>4. QED
    BY <1>1, <1>2, <1>5, <2>1, <2>2, <2>3
<1>6. QED
  BY <1>4, <1>5

LEMMA TypePersist ==
    ASSUME TypeInv, NEW p \in Procs, Persist(p)
    PROVE  TypeInv'
<1>1. /\ At(p, "persist") /\ proc[p].exp \in ExpIds /\ proc[p].row \in Row
      /\ UNCHANGED <<latest, files, invoked, commands>>
      /\ Grows /\ rows' \in [ExpIds -> Row \cup {NoRow}]
  BY PersistStep
<1>2. LocalOK(proc[p], files', rows')
  BY <1>1, LocalGrows DEF TypeInv
<1>3. {"digest", "fusion", "implementation"} \subseteq Steps
  BY DEF Steps
<1>4. PICK x : Become(p, x) /\ LocalOK(x, files', rows')
  <2>1. CASE Exit(p)
    BY <2>1, IdleOK DEF Exit
  <2>2. CASE AfterRow(p) /\ ~Exit(p) /\ rows'[proc[p].exp] = proc[p].row
    <3>1. ASSUME NEW x, NEW step \in {"digest", "fusion"},
                 Continues(p, x, step, proc[p].row.prov, 0)
          PROVE  Become(p, x) /\ LocalOK(x, files', rows')
      BY <1>1, <1>3, <3>1, ContinuesOK DEF Continues
    <3>2. ASSUME NEW x, proc[p].row.status = "completed",
                 proc[p].row.step = "fusion",
                 Continues(p, x, "implementation", Implementer, proc[p].exp)
          PROVE  Become(p, x) /\ LocalOK(x, files', rows')
      <4>1. files[proc[p].exp]["fusion"] \in Artifact
        BY <1>1, <3>2 DEF TypeInv, LocalOK, At
      <4>2. QED
        BY <1>1, <1>3, <3>2, <4>1, ContinuesOK DEF Continues
    <3>3. ASSUME NEW x, Scores(p, x)
          PROVE  Become(p, x) /\ LocalOK(x, files', rows')
      <4>1. x.row # NoRow /\ rows'[x.exp] # NoRow
        BY <1>1, <2>2, <3>3, RowIsThere DEF Scores
      <4>2. LocalOK(x, files', rows')
        BY <1>1, <1>2, <3>3, <4>1 DEF Scores, LocalOK, Minted, Idle, At
      <4>3. QED
        BY <3>3, <4>2 DEF Scores
    <3>4. QED
      BY <1>1, <2>2, <3>1, <3>2, <3>3, AfterRowStep
  <2>3. QED
    BY <2>1, <2>2, PersistStep
<1>5. QED
  BY <1>1, <1>4, TypeMove DEF TypeInv

(* update_experiment_score changes one column of a row that is there.       *)
LEMMA ScoreStep ==
    ASSUME TypeInv, NEW p \in Procs, Score(p)
    PROVE  /\ Grows /\ rows' \in [ExpIds -> Row \cup {NoRow}]
           /\ \A e \in ExpIds :
                \/ rows'[e] = rows[e]
                \/ /\ e = proc[p].exp
                   /\ rows[e] \in Row /\ rows'[e] = [rows[e] EXCEPT !.scored = TRUE]
           /\ Exit(p) /\ UNCHANGED <<latest, files, invoked, commands>>
<1> DEFINE exp == proc[p].exp
           new == [rows[exp] EXCEPT !.scored = TRUE]
<1>1. /\ rows' = [rows EXCEPT ![exp].scored = TRUE] /\ Exit(p)
      /\ UNCHANGED <<latest, files, invoked, commands>>
  BY DEF Score
<1>2. exp \in ExpIds /\ rows[exp] # NoRow
  BY DEF Score, At, TypeInv, LocalOK, Minted
<1>3. rows \in [ExpIds -> Row \cup {NoRow}] /\ rows[exp] \in Row
  BY <1>2 DEF TypeInv
<1>4. new \in Row
  BY <1>3 DEF Row
<1>5. rows' = [rows EXCEPT ![exp] = new]
  BY <1>1
<1> HIDE DEF new
<1>6. /\ rows'[exp] = new /\ \A e \in ExpIds \ {exp} : rows'[e] = rows[e]
      /\ rows' \in [ExpIds -> Row \cup {NoRow}]
  BY <1>2, <1>3, <1>4, <1>5
<1>7. Grows
  BY <1>1, <1>4, <1>6, RowIsThere DEF Grows
<1>8. QED
  BY <1>1, <1>2, <1>3, <1>6, <1>7 DEF new

LEMMA TypeNext == TypeInv /\ [Next]_vars => TypeInv'
<1> SUFFICES ASSUME TypeInv, [Next]_vars PROVE TypeInv'
  OBVIOUS
<1>1. CASE InitFixture
  <2>1. latest' \in 0 .. MaxRuns /\ UNCHANGED <<rows, files, invoked, commands, proc>>
    BY <1>1, Bounds DEF InitFixture, TypeInv
  <2>2. QED
    BY <2>1 DEF TypeInv
<1>2. ASSUME NEW p \in Procs, StartResearch(p) \/ StartReview(p) PROVE TypeInv'
  BY <1>2, TypeStart
<1>3. ASSUME NEW p \in Procs,
             Precheck(p) \/ Mint(p) \/ Invoke(p) \/ Refuse(p) \/ Collect(p)
      PROVE  TypeInv'
  BY <1>3, TypeOneStep
<1>4. ASSUME NEW p \in Procs, InvokeEnd(p) PROVE TypeInv'
  BY <1>4, TypeInvokeEnd
<1>5. ASSUME NEW p \in Procs, Persist(p) PROVE TypeInv'
  BY <1>5, TypePersist
<1>6. ASSUME NEW p \in Procs, Score(p) PROVE TypeInv'
  <2>1. LocalOK(IdleProc, files', rows')
    BY IdleOK
  <2>2. QED
    BY <1>6, <2>1, ScoreStep, TypeMove DEF Exit, TypeInv
<1>7. ASSUME NEW p \in Procs, Crash(p) PROVE TypeInv'
  BY <1>7, TypeExit DEF Crash
<1>8. CASE UNCHANGED vars
  BY <1>8 DEF vars, TypeInv
<1>9. QED
  BY <1>1, <1>2, <1>3, <1>4, <1>5, <1>6, <1>7, <1>8 DEF Next, InvokeEnd

(* The tables, the files and the locals of every command hold what the code *)
(* puts there, whatever the commands collide in and wherever they die       *)
(* (research_proxy and review in arena/cli.py).                             *)
THEOREM TypeCorrect == Spec => []TypeOK
<1>1. QED
  BY TypeInit, TypeNext, TypeInvImpliesType, PTL DEF Spec

-----------------------------------------------------------------------------
(* A row is changed only by its own score: InsertRow takes a free id, and   *)
(* the command that scores has its row under its id (insert_experiment and  *)
(* update_experiment_score in arena/scoreboard/store.py).                   *)
LEMMA RowsStep ==
    ASSUME TypeInv, [Next]_vars
    PROVE  \A e \in Recorded :
             rows'[e] \in {rows[e], [rows[e] EXCEPT !.scored = TRUE]}
<1> SUFFICES ASSUME NEW e \in Recorded
             PROVE  rows'[e] \in {rows[e], [rows[e] EXCEPT !.scored = TRUE]}
  OBVIOUS
<1>1. e \in ExpIds /\ rows[e] # NoRow
  BY DEF Recorded
<1>2. CASE rows' = rows
  BY <1>2
<1>3. CASE \E p \in Procs : Persist(p)
  BY <1>1, <1>3, PersistStep
<1>4. CASE \E p \in Procs : Score(p)
  BY <1>1, <1>4, ScoreStep
<1>5. QED
  BY <1>2, <1>3, <1>4 DEF Next, vars, InitFixture, StartResearch, StartReview,
     StartCommand, Precheck, Mint, Invoke, Refuse, InvokeReturns, InvokeUnusable,
     InvokeStopped, InvokeRaises, Collect, Crash

THEOREM RowsAreKept == Spec => RowsKept
<1>1. TypeInv /\ [Next]_vars
        => [\A e \in Recorded :
              rows'[e] \in {rows[e], [rows[e] EXCEPT !.scored = TRUE]}]_vars
  BY RowsStep
<1>2. QED
  BY <1>1, TypeInit, TypeNext, PTL DEF Spec, RowsKept

-----------------------------------------------------------------------------
(* The five kinds of steps, as far as the scoreboard sees them. *)

(* A row keeps all that the properties look at.                             *)
Kept(e) == /\ rows'[e] # NoRow /\ SameCall(rows'[e], rows[e])
           /\ rows'[e].status = rows[e].status
           /\ rows'[e].file = rows[e].file /\ rows'[e].token = rows[e].token

LEMMA RowsStay ==
    ASSUME TypeInv, [Next]_vars, NEW e \in Recorded
    PROVE  Kept(e)
<1>1. rows[e] \in Row /\ rows[e] # NoRow
  BY DEF TypeInv, Recorded
<1>2. [rows[e] EXCEPT !.scored = TRUE] # NoRow
  <2>1. [rows[e] EXCEPT !.scored = TRUE] \in Row
    BY <1>1 DEF Row
  <2>2. QED
    BY <2>1, RowIsThere
<1>3. CASE rows'[e] = rows[e]
  BY <1>1, <1>3 DEF Kept, SameCall
<1>4. CASE rows'[e] = [rows[e] EXCEPT !.scored = TRUE]
  BY <1>1, <1>2, <1>4 DEF Kept, SameCall, Row
<1>5. QED
  BY <1>3, <1>4, RowsStep

(* The command ends.                                                        *)
Ends(p) == Exit(p) /\ Recorded' = Recorded /\ UNCHANGED <<invoked, commands>>

(* It works on the row that it has.                                         *)
Works(p, x) ==
    /\ Become(p, x) /\ x.row \in Row /\ SameCall(x.row, proc[p].row)
    /\ UNCHANGED <<rows, commands>> /\ x.pc # Idle
    /\ \/ At(p, "precheck") /\ x.pc = "mint" /\ UNCHANGED invoked
       \/ At(p, "mint") /\ x.pc = "check" /\ x.exp = NextExpId /\ UNCHANGED invoked
       \/ Invoke(p) /\ x.pc = "invoking" /\ x.exp = proc[p].exp
       \/ /\ At(p, "invoking") \/ At(p, "collect")
          /\ x.pc \in {"collect", "persist"} /\ x.exp = proc[p].exp
          /\ UNCHANGED invoked

(* Its row gets into the table.                                             *)
Inserts(p) ==
    /\ At(p, "persist") /\ AfterRow(p) /\ proc[p].row \in Row
    /\ proc[p].exp \in ExpIds \ Recorded
    /\ Recorded' = Recorded \cup {proc[p].exp}
    /\ rows'[proc[p].exp] = proc[p].row
    /\ UNCHANGED <<files, invoked, commands>>

LEMMA StepKinds ==
    ASSUME TypeInv, [Next]_vars
    PROVE  \/ UNCHANGED <<rows, invoked, commands, proc>>
           \/ \E p \in Procs :
                \/ Ends(p)
                \/ /\ StartResearch(p) \/ StartReview(p)
                   /\ \E x, draft : Starts(p, x, draft)
                \/ \E x : Works(p, x)
                \/ Inserts(p)
<1>1. ASSUME NEW p \in Procs, StartResearch(p) \/ StartReview(p)
      PROVE  \E x, draft : Starts(p, x, draft)
  BY <1>1, ResearchStart, ReviewStart
<1>2. ASSUME NEW p \in Procs,
             Precheck(p) \/ Refuse(p) \/ InvokeEnd(p) \/ Crash(p), Exit(p)
      PROVE  Ends(p)
  BY <1>2 DEF Ends, Recorded, Precheck, Refuse, InvokeEnd, InvokeReturns,
     InvokeUnusable, InvokeStopped, InvokeRaises, Crash
<1>3. ASSUME NEW p \in Procs, Precheck(p), ~Exit(p) PROVE \E x : Works(p, x)
  <2>1. PICK x : /\ Become(p, x) /\ x.pc = "mint" /\ x.row = proc[p].row
    BY <1>3, PrecheckStep
  <2>2. proc[p].row \in Row
    BY <1>3, Running DEF Precheck, At, Idle
  <2>3. Works(p, x)
    BY <1>3, <2>1, <2>2 DEF Works, Precheck, SameCall, Idle
  <2>4. QED
    BY <2>3
<1>4. ASSUME NEW p \in Procs, Mint(p) PROVE \E x : Works(p, x)
  <2>1. PICK x : /\ Become(p, x) /\ x.pc = "check" /\ x.row = proc[p].row
                 /\ x.exp = NextExpId
    BY <1>4, MintStep
  <2>2. proc[p].row \in Row
    BY <1>4, Running DEF Mint, At, Idle
  <2>3. Works(p, x)
    BY <1>4, <2>1, <2>2 DEF Works, Mint, SameCall, Idle
  <2>4. QED
    BY <2>3
<1>5. ASSUME NEW p \in Procs, Invoke(p) PROVE \E x : Works(p, x)
  <2>1. PICK x : /\ Become(p, x) /\ x.pc = "invoking" /\ x.row = proc[p].row
                 /\ x.exp = proc[p].exp
    BY <1>5, InvokeStep
  <2>2. proc[p].row \in Row
    BY <1>5, Running DEF Invoke, At, Idle
  <2>3. UNCHANGED <<rows, commands>>
    BY <1>5 DEF Invoke
  <2>4. Works(p, x)
    BY <1>5, <2>1, <2>2, <2>3 DEF Works, SameCall, Idle
  <2>5. QED
    BY <2>4
<1>6. ASSUME NEW p \in Procs, InvokeEnd(p), ~Exit(p) PROVE \E x : Works(p, x)
  <2>1. At(p, "invoking") /\ UNCHANGED <<rows, invoked, commands>>
    BY <1>6, EndStep
  <2>2. CASE \E x : Blocks(p, x)
    <3>1. PICK x : Blocks(p, x)
      BY <2>2
    <3>2. Works(p, x)
      BY <2>1, <3>1 DEF Blocks, Works, Idle
    <3>3. QED
      BY <3>2
  <2>3. CASE \E x, usage : Accepts(p, x, usage)
    <3>1. PICK x, usage : Accepts(p, x, usage)
      BY <2>3
    <3>2. Works(p, x)
      BY <2>1, <3>1 DEF Accepts, Works, Idle
    <3>3. QED
      BY <3>2
  <2>4. QED
    BY <1>6, <2>2, <2>3, EndStep
<1>7. ASSUME NEW p \in Procs, Collect(p) PROVE \E x : Works(p, x)
  <2>1. PICK x : Collects(p, x)
    BY <1>7, CollectStep
  <2>2. /\ Become(p, x) /\ x.row \in Row /\ SameCall(x.row, proc[p].row)
        /\ x.pc = "persist" /\ x.exp = proc[p].exp
    BY <2>1 DEF Collects
  <2>3. Works(p, x)
    BY <1>7, <2>2 DEF Collect, Works, Idle
  <2>4. QED
    BY <2>3
<1>8. ASSUME NEW p \in Procs, Persist(p) PROVE Ends(p) \/ Inserts(p)
  <2>1. CASE rows' = rows /\ Exit(p)
    BY <1>8, <2>1 DEF Persist, Ends, Recorded
  <2>2. CASE /\ rows[proc[p].exp] = NoRow /\ AfterRow(p)
             /\ rows'[proc[p].exp] = proc[p].row
             /\ \A e \in ExpIds \ {proc[p].exp} : rows'[e] = rows[e]
    <3>1. /\ At(p, "persist") /\ proc[p].exp \in ExpIds /\ proc[p].row \in Row
          /\ UNCHANGED <<files, invoked, commands>>
      BY <1>8, PersistStep
    <3>2. Recorded' = Recorded \cup {proc[p].exp} /\ proc[p].exp \notin Recorded
      BY <2>2, <3>1, RowIsThere DEF Recorded
    <3>3. QED
      BY <2>2, <3>1, <3>2 DEF Inserts
  <2>3. QED
    BY <1>8, <2>1, <2>2, PersistStep
<1>9. ASSUME NEW p \in Procs, Score(p) PROVE Ends(p)
  <2>1. Exit(p) /\ UNCHANGED <<invoked, commands>>
    BY <1>9 DEF Score
  <2>2. Recorded' = Recorded
    <3>1. \A e \in ExpIds : rows'[e] # NoRow <=> rows[e] # NoRow
      BY <1>9, ScoreStep, RowIsThere DEF Grows
    <3>2. QED
      BY <3>1 DEF Recorded
  <2>3. QED
    BY <2>1, <2>2 DEF Ends
<1> DEFINE Kind(p) == \/ Ends(p)
                      \/ /\ StartResearch(p) \/ StartReview(p)
                         /\ \E x, draft : Starts(p, x, draft)
                      \/ \E x : Works(p, x)
                      \/ Inserts(p)
<1>10. ASSUME NEW p \in Procs,
              Precheck(p) \/ Refuse(p) \/ InvokeEnd(p) \/ Crash(p)
       PROVE  Kind(p)
  <2>1. CASE Exit(p)
    BY <1>2, <1>10, <2>1
  <2>2. CASE ~Exit(p)
    BY <1>3, <1>6, <1>10, <2>2, RefuseStep DEF Crash
  <2>3. QED
    BY <2>1, <2>2
<1>11. ASSUME NEW p \in Procs,
              \/ StartResearch(p) \/ StartReview(p) \/ Mint(p) \/ Invoke(p)
              \/ Collect(p) \/ Persist(p) \/ Score(p)
       PROVE  Kind(p)
  BY <1>1, <1>4, <1>5, <1>7, <1>8, <1>9, <1>11
<1> HIDE DEF Kind
<1>12. UNCHANGED <<rows, invoked, commands, proc>> \/ \E p \in Procs : Kind(p)
  <2>1. CASE InitFixture \/ UNCHANGED vars
    BY <2>1 DEF InitFixture, vars
  <2>2. CASE ~(InitFixture \/ UNCHANGED vars)
    <3>1. PICK p \in Procs :
            \/ StartResearch(p) \/ StartReview(p) \/ Precheck(p)
            \/ Mint(p) \/ Invoke(p) \/ Refuse(p)
            \/ InvokeReturns(p) \/ InvokeUnusable(p) \/ InvokeStopped(p)
            \/ InvokeRaises(p) \/ Collect(p) \/ Persist(p) \/ Score(p) \/ Crash(p)
      BY <2>2 DEF Next
    <3>2. Kind(p)
      BY <1>10, <1>11, <3>1 DEF InvokeEnd
    <3>3. QED
      BY <3>2
  <2>3. QED
    BY <2>1, <2>2
<1>13. QED
  BY <1>12 DEF Kind

(* What an insert leaves of the process: nothing, the next step's empty     *)
(* row, or the same row, which it will score.                               *)
LEMMA InsertEffect ==
    ASSUME TypeInv, NEW p \in Procs, Inserts(p)
    PROVE  LET row == proc[p].row
           IN \E x : /\ Become(p, x)
                     /\ \/ x = IdleProc
                        \/ /\ x.pc = "score" /\ x.row = row /\ x.exp = proc[p].exp
                           /\ row.status = "completed"
                           /\ row.step = "implementation"
                        \/ /\ row.status = "completed"
                           /\ x.pc = "mint" /\ x.row \in Row
                           /\ x.row.run = row.run /\ x.row.by = row.by
                           /\ <<row.step, x.row.step>> \in
                                {<<"question", "digest">>, <<"digest", "fusion">>,
                                 <<"fusion", "implementation">>}
<1> DEFINE row == proc[p].row
<1>1. ASSUME NEW x, NEW step, NEW prov, NEW proposal, row.status = "completed",
             Continues(p, x, step, prov, proposal),
             <<row.step, step>> \in
               {<<"question", "digest">>, <<"digest", "fusion">>,
                <<"fusion", "implementation">>}
      PROVE  /\ Become(p, x) /\ x.pc = "mint" /\ x.row \in Row
             /\ x.row.run = row.run /\ x.row.by = row.by
             /\ <<row.step, x.row.step>> \in
                  {<<"question", "digest">>, <<"digest", "fusion">>,
                   <<"fusion", "implementation">>}
  BY <1>1 DEF Continues
<1>2. CASE Exit(p)
  BY <1>2 DEF Exit
<1>3. CASE /\ row.status = "completed" /\ row.step = "implementation"
           /\ \E x : Scores(p, x)
  BY <1>3 DEF Scores
<1>4. CASE /\ row.status = "completed" /\ row.step = "question"
           /\ \E x : Continues(p, x, "digest", row.prov, 0)
  BY <1>1, <1>4
<1>5. CASE /\ row.status = "completed" /\ row.step = "digest"
           /\ \E x : Continues(p, x, "fusion", row.prov, 0)
  BY <1>1, <1>5
<1>6. CASE /\ row.status = "completed" /\ row.step = "fusion"
           /\ \E x : Continues(p, x, "implementation", Implementer, proc[p].exp)
  BY <1>1, <1>6
<1>7. QED
  BY <1>2, <1>3, <1>4, <1>5, <1>6, AfterRowStep DEF Inserts

-----------------------------------------------------------------------------
(* The rows of a provider in a run, and the invocations that may become one, *)
(* against the trace.                                                       *)
RowsBy(r, v) == {e \in RowsOf(r) : rows[e].prov = v}
Calls(r, v) == {p \in Procs : /\ proc[p].pc \in {"invoking", "collect", "persist"}
                              /\ proc[p].row.run = r /\ proc[p].row.prov = v}

CallsTraced ==
    \A r \in RunIds, v \in Providers :
        Cardinality(RowsBy(r, v)) + Cardinality(Calls(r, v)) <= invoked[r][v]

LEMMA CallSizes ==
    ASSUME IsFiniteSet(Procs), NEW r, NEW v
    PROVE  /\ IsFiniteSet(RowsBy(r, v)) /\ Cardinality(RowsBy(r, v)) \in Nat
           /\ IsFiniteSet(Calls(r, v)) /\ Cardinality(Calls(r, v)) \in Nat
<1>1. IsFiniteSet(ExpIds)
  BY Bounds, FS_Interval DEF ExpIds
<1>2. RowsBy(r, v) \subseteq ExpIds /\ Calls(r, v) \subseteq Procs
  BY DEF RowsBy, RowsOf, Recorded, Calls
<1>3. QED
  BY <1>1, <1>2, FS_Subset, FS_CardinalityType

LEMMA CallsInit == Init => CallsTraced
<1> SUFFICES ASSUME Init, NEW r \in RunIds, NEW v \in Providers
             PROVE  Cardinality(RowsBy(r, v)) + Cardinality(Calls(r, v))
                      <= invoked[r][v]
  BY DEF CallsTraced
<1>1. RowsBy(r, v) = {} /\ Calls(r, v) = {} /\ invoked[r][v] = 0
  BY DEF Init, RowsBy, RowsOf, Recorded, Calls, IdleProc, Idle
<1>2. QED
  BY <1>1, FS_EmptySet

(* What a step of process p does to the invocations under way.              *)
LEMMA CallsAfter ==
    ASSUME TypeInv, NEW p \in Procs, NEW x, Become(p, x), NEW r, NEW v
    PROVE  Calls(r, v)' =
             IF /\ x.pc \in {"invoking", "collect", "persist"}
                /\ x.row.run = r /\ x.row.prov = v
             THEN Calls(r, v) \cup {p} ELSE Calls(r, v) \ {p}
<1>1. proc'[p] = x /\ \A q \in Procs \ {p} : proc'[q] = proc[q]
  BY BecomeEffect
<1>2. QED
  BY <1>1 DEF Calls

LEMMA RowsByKept ==
    ASSUME TypeInv, [Next]_vars, Recorded' = Recorded, NEW r, NEW v
    PROVE  RowsBy(r, v)' = RowsBy(r, v)
<1>1. \A e \in Recorded : SameCall(rows'[e], rows[e])
  BY RowsStay DEF Kept
<1>2. QED
  BY <1>1 DEF RowsBy, RowsOf, SameCall

LEMMA CallsNext ==
    ASSUME TypeInv, IsFiniteSet(Procs), CallsTraced, [Next]_vars
    PROVE  CallsTraced'
<1> SUFFICES ASSUME NEW r \in RunIds, NEW v \in Providers
             PROVE  Cardinality(RowsBy(r, v)') + Cardinality(Calls(r, v)')
                      <= invoked'[r][v]
  BY DEF CallsTraced, RunIds
<1>1. /\ Cardinality(RowsBy(r, v)) + Cardinality(Calls(r, v)) <= invoked[r][v]
      /\ invoked[r][v] \in Nat
  BY DEF CallsTraced, TypeInv
<1>2. ASSUME RowsBy(r, v)' = RowsBy(r, v), Calls(r, v)' \subseteq Calls(r, v),
             invoked' = invoked
      PROVE  Cardinality(RowsBy(r, v)') + Cardinality(Calls(r, v)')
                      <= invoked'[r][v]
  <2>1. /\ Cardinality(Calls(r, v)') <= Cardinality(Calls(r, v))
        /\ Cardinality(Calls(r, v)') \in Nat
    BY <1>2, CallSizes, FS_Subset, FS_CardinalityType
  <2>2. QED
    BY <1>1, <1>2, <2>1, CallSizes
<1>3. CASE UNCHANGED <<rows, invoked, commands, proc>>
  <2>1. Calls(r, v)' = Calls(r, v) /\ RowsBy(r, v)' = RowsBy(r, v)
    BY <1>3 DEF Calls, RowsBy, RowsOf, Recorded
  <2>2. QED
    BY <1>2, <1>3, <2>1
<1>4. ASSUME NEW p \in Procs, Ends(p)
      PROVE  Cardinality(RowsBy(r, v)') + Cardinality(Calls(r, v)')
                      <= invoked'[r][v]
  <2>1. IdleProc.pc = "idle"
    BY DEF IdleProc, Idle
  <2>2. Calls(r, v)' = Calls(r, v) \ {p}
    BY <1>4, <2>1, CallsAfter DEF Ends, Exit
  <2>3. QED
    BY <1>2, <1>4, <2>2, RowsByKept DEF Ends
<1>5. ASSUME NEW p \in Procs, NEW x, NEW draft, Starts(p, x, draft)
      PROVE  Cardinality(RowsBy(r, v)') + Cardinality(Calls(r, v)')
                      <= invoked'[r][v]
  <2>1. Calls(r, v)' = Calls(r, v) \ {p}
    BY <1>5, CallsAfter DEF Starts
  <2>2. Recorded' = Recorded /\ invoked' = invoked
    BY <1>5 DEF Starts, Recorded
  <2>3. QED
    BY <1>2, <2>1, <2>2, RowsByKept
<1>6. ASSUME NEW p \in Procs, NEW x, Works(p, x)
      PROVE  Cardinality(RowsBy(r, v)') + Cardinality(Calls(r, v)')
                      <= invoked'[r][v]
  <2>1. Recorded' = Recorded /\ Become(p, x)
    BY <1>6 DEF Works, Recorded
  <2>2. RowsBy(r, v)' = RowsBy(r, v)
    BY <2>1, RowsByKept
  <2>3. SameCall(x.row, proc[p].row)
    BY <1>6 DEF Works
  <2>4. CASE x.pc \in {"mint", "check"}
    <3>1. Calls(r, v)' = Calls(r, v) \ {p}
      BY <2>1, <2>4, CallsAfter
    <3>2. invoked' = invoked
      BY <1>6, <2>4 DEF Works
    <3>3. QED
      BY <1>2, <2>2, <3>1, <3>2
  <2>5. CASE x.pc \in {"collect", "persist"}
    <3>1. invoked' = invoked /\ (At(p, "invoking") \/ At(p, "collect"))
      BY <1>6, <2>5 DEF Works
    <3>2. Calls(r, v)' \subseteq Calls(r, v)
      <4>1. CASE proc[p].row.run = r /\ proc[p].row.prov = v
        BY <2>1, <3>1, <4>1, CallsAfter DEF Calls, At
      <4>2. CASE ~(proc[p].row.run = r /\ proc[p].row.prov = v)
        <5>1. ~(x.row.run = r /\ x.row.prov = v)
          BY <2>3, <4>2 DEF SameCall
        <5>2. QED
          BY <2>1, <5>1, CallsAfter
      <4>3. QED
        BY <4>1, <4>2
    <3>3. QED
      BY <1>2, <2>2, <3>1, <3>2
  <2>6. CASE Invoke(p) /\ x.pc = "invoking"
    <3> DEFINE own == proc[p].row.run
               prov == proc[p].row.prov
    <3>1. own \in RunIds /\ prov \in Providers
      <4>1. proc[p].row \in Row
        BY <2>6, Running DEF Invoke, At, Idle
      <4>2. QED
        BY <4>1 DEF Row
    <3>2. invoked' = [invoked EXCEPT ![own][prov] = @ + 1]
      BY <2>6 DEF Invoke
    <3> HIDE DEF own, prov
    <3>3. CASE own = r /\ prov = v
      <4>1. invoked'[r][v] = invoked[r][v] + 1
        BY <3>1, <3>2, <3>3 DEF TypeInv
      <4>2. p \notin Calls(r, v)
        BY <2>6 DEF Invoke, At, Calls
      <4>3. Calls(r, v)' = Calls(r, v) \cup {p}
        BY <2>1, <2>3, <2>6, <3>3, CallsAfter DEF SameCall, own, prov
      <4>4. Cardinality(Calls(r, v)') = Cardinality(Calls(r, v)) + 1
        BY <4>2, <4>3, CallSizes, FS_AddElement
      <4>5. QED
        BY <1>1, <2>2, <4>1, <4>4, CallSizes
    <3>4. CASE ~(own = r /\ prov = v)
      <4>1. invoked'[r][v] = invoked[r][v]
        BY <3>1, <3>2, <3>4 DEF TypeInv
      <4>2. Calls(r, v)' = Calls(r, v) \ {p} /\ p \notin Calls(r, v)
        <5>1. ~(x.row.run = r /\ x.row.prov = v)
          BY <2>3, <3>4 DEF SameCall, own, prov
        <5>2. QED
          BY <2>1, <3>4, <5>1, CallsAfter DEF Calls, own, prov
      <4>3. Calls(r, v)' = Calls(r, v)
        BY <4>2
      <4>4. QED
        BY <1>1, <2>2, <4>1, <4>3
    <3>5. QED
      BY <3>3, <3>4
  <2>7. QED
    BY <1>6, <2>4, <2>5, <2>6 DEF Works
<1>7. ASSUME NEW p \in Procs, Inserts(p)
      PROVE  Cardinality(RowsBy(r, v)') + Cardinality(Calls(r, v)')
                      <= invoked'[r][v]
  <2> DEFINE exp == proc[p].exp
             counts == proc[p].row.run = r /\ proc[p].row.prov = v
  <2>1. PICK x : Become(p, x) /\ x.pc \in {"idle", "score", "mint"}
    BY <1>7, InsertEffect DEF IdleProc, Idle
  <2>2. Calls(r, v)' = Calls(r, v) \ {p}
    BY <2>1, CallsAfter
  <2>3. p \in Calls(r, v) <=> counts
    BY <1>7 DEF Inserts, At, Calls
  <2>4. \A e \in Recorded : SameCall(rows'[e], rows[e])
    BY RowsStay DEF Kept
  <2>5. /\ exp \notin Recorded /\ Recorded' = Recorded \cup {exp}
        /\ rows'[exp] = proc[p].row /\ invoked' = invoked
    BY <1>7 DEF Inserts
  <2> HIDE DEF exp
  <2>6. RowsBy(r, v)' = IF counts THEN RowsBy(r, v) \cup {exp} ELSE RowsBy(r, v)
    BY <2>4, <2>5 DEF RowsBy, RowsOf, SameCall
  <2>7. exp \notin RowsBy(r, v)
    BY <2>5 DEF RowsBy, RowsOf
  <2> HIDE DEF counts
  <2>8. CASE ~counts
    BY <1>2, <2>2, <2>5, <2>6, <2>8
  <2>9. CASE counts
    <3>1. Cardinality(RowsBy(r, v)') = Cardinality(RowsBy(r, v)) + 1
      BY <2>6, <2>7, <2>9, CallSizes, FS_AddElement
    <3>2. Cardinality(Calls(r, v)') = Cardinality(Calls(r, v)) - 1
      BY <2>2, <2>3, <2>9, CallSizes, FS_RemoveElement
    <3>3. QED
      BY <1>1, <2>5, <3>1, <3>2, CallSizes
  <2>10. QED
    BY <2>8, <2>9
<1>8. QED
  BY <1>3, <1>4, <1>5, <1>6, <1>7, StepKinds

(* A call that the budget or the kill switch refused leaves no row: the rows *)
(* of a run never claim more invocations than its trace shows, for any      *)
(* number of commands and whatever they die of (in_flight and               *)
(* _persist_inflight_blocked in arena/cli.py).                              *)
THEOREM NoPhantoms == Spec => []NoPhantomCalls
<1> IsFiniteSet(Procs)
  BY ResearchAssumption DEF ResearchAssumption
<1>1. Init => TypeInv /\ CallsTraced
  BY TypeInit, CallsInit
<1>2. TypeInv /\ CallsTraced /\ [Next]_vars => (TypeInv /\ CallsTraced)'
  BY TypeNext, CallsNext
<1>3. TypeInv /\ CallsTraced => NoPhantomCalls
  <2> SUFFICES ASSUME TypeInv, CallsTraced, NEW r \in RunIds, NEW v \in Providers
               PROVE  Cardinality({e \in RowsOf(r) : rows[e].prov = v})
                        <= invoked[r][v]
    BY DEF NoPhantomCalls
  <2>1. Cardinality(RowsBy(r, v)) + Cardinality(Calls(r, v)) <= invoked[r][v]
          /\ invoked[r][v] \in Nat
    BY DEF CallsTraced, TypeInv
  <2>2. Cardinality(RowsBy(r, v)) <= invoked[r][v]
    BY <2>1, CallSizes
  <2>3. QED
    BY <2>2 DEF RowsBy
<1>4. QED
  BY <1>1, <1>2, <1>3, PTL DEF Spec

-----------------------------------------------------------------------------
(* A review is about rows of its own run, from the moment it starts.        *)
ReviewOK(row) ==
    row.step = "review" =>
        /\ row.subject \in Recorded /\ rows[row.subject].run = row.run
        /\ row.proposal \in Recorded /\ rows[row.proposal].run = row.run

ReviewsOK ==
    /\ \A e \in Recorded : ReviewOK(rows[e])
    /\ \A p \in Procs : ~At(p, Idle) => ReviewOK(proc[p].row)

LEMMA RecordedStays ==
    ASSUME TypeInv, [Next]_vars
    PROVE  Recorded \subseteq Recorded'
  BY RowsStay DEF Kept, Recorded, ExpIds

LEMMA ReviewOKStays ==
    ASSUME TypeInv, [Next]_vars, NEW row, ReviewOK(row)
    PROVE  ReviewOK(row)'
<1>1. \A e \in Recorded : rows'[e].run = rows[e].run
  BY RowsStay DEF Kept, SameCall
<1>2. QED
  BY <1>1, RecordedStays DEF ReviewOK

LEMMA ReviewsNext ==
    ASSUME TypeInv, ReviewsOK, [Next]_vars
    PROVE  ReviewsOK'
<1>1. ASSUME NEW e \in Recorded PROVE ReviewOK(rows[e])' /\ SameCall(rows'[e], rows[e])
  <2>1. SameCall(rows'[e], rows[e])
    BY RowsStay DEF Kept
  <2>2. ReviewOK(rows[e])
    BY DEF ReviewsOK
  <2>3. \A d \in Recorded : rows'[d].run = rows[d].run
    BY RowsStay DEF Kept, SameCall
  <2>4. QED
    BY <2>1, <2>2, <2>3, RecordedStays DEF ReviewOK, SameCall
<1>2. ASSUME NEW p \in Procs, ~At(p, Idle), NEW row, SameCall(row, proc[p].row)
      PROVE  row.step = "review" =>
               /\ row.subject \in Recorded' /\ rows'[row.subject].run = row.run
               /\ row.proposal \in Recorded' /\ rows'[row.proposal].run = row.run
  <2>1. ReviewOK(proc[p].row)
    BY <1>2 DEF ReviewsOK
  <2>2. \A d \in Recorded : rows'[d].run = rows[d].run
    BY RowsStay DEF Kept, SameCall
  <2>3. QED
    BY <1>2, <2>1, <2>2, RecordedStays DEF ReviewOK, SameCall
<1>3. ASSUME NEW p \in Procs, ~At(p, Idle)', proc'[p] = proc[p]
      PROVE  ReviewOK(proc[p].row)'
  <2>1. ~At(p, Idle) /\ SameCall(proc'[p].row, proc[p].row)
    BY <1>3 DEF At, SameCall
  <2>2. QED
    BY <1>2, <2>1 DEF ReviewOK
<1>4. ASSUME Recorded' = Recorded PROVE \A e \in Recorded' : ReviewOK(rows[e])'
  BY <1>1, <1>4
<1>5. CASE UNCHANGED <<rows, invoked, commands, proc>>
  BY <1>3, <1>4, <1>5 DEF ReviewsOK, Recorded
<1>6. ASSUME NEW p \in Procs, NEW x, Become(p, x),
             \A e \in Recorded' : ReviewOK(rows[e])',
             x.pc # Idle => ReviewOK(proc[p].row)'
      PROVE  ReviewsOK'
  <2>1. proc'[p] = x /\ \A q \in Procs \ {p} : proc'[q] = proc[q]
    BY <1>6, BecomeEffect
  <2>2. QED
    BY <1>3, <1>6, <2>1 DEF ReviewsOK, At
<1>7. ASSUME NEW p \in Procs, Ends(p) PROVE ReviewsOK'
  <2>1. IdleProc.pc = Idle
    BY DEF IdleProc
  <2>2. QED
    BY <1>4, <1>6, <1>7, <2>1 DEF Ends, Exit
<1>8. ASSUME NEW p \in Procs, StartResearch(p) \/ StartReview(p),
             \E x, draft : Starts(p, x, draft)
      PROVE  ReviewsOK'
  <2>1. rows' = rows /\ Recorded' = Recorded
    BY <1>8 DEF Starts, Recorded
  <2>2. CASE StartResearch(p)
    <3>1. PICK x, v : Starts(p, x, Draft(latest, "question", v, 0, 0))
      BY <2>2, ResearchStart
    <3>2. x.row.step = "question" /\ proc'[p] = x /\ Become(p, x)
      BY <3>1, BecomeEffect DEF Starts, Draft
    <3>3. QED
      BY <1>4, <1>6, <2>1, <3>2 DEF ReviewOK
  <2>3. CASE StartReview(p)
    <3>1. PICK x, v, e, d :
            /\ e \in Recorded /\ d \in Recorded /\ rows[d].run = rows[e].run
            /\ Starts(p, x, Draft(rows[e].run, "review", v, e, d))
      BY <2>3, ReviewStart
    <3>2. /\ x.row.subject = e /\ x.row.proposal = d
          /\ x.row.run = rows[e].run /\ proc'[p] = x /\ Become(p, x)
      BY <3>1, BecomeEffect DEF Starts, Draft
    <3>3. QED
      BY <1>4, <1>6, <2>1, <3>1, <3>2 DEF ReviewOK
  <2>4. QED
    BY <1>8, <2>2, <2>3
<1>9. ASSUME NEW p \in Procs, NEW x, Works(p, x) PROVE ReviewsOK'
  <2>1. /\ Recorded' = Recorded /\ ~At(p, Idle) /\ Become(p, x)
        /\ SameCall(x.row, proc[p].row)
    BY <1>9 DEF Works, Recorded, At, Idle, Invoke
  <2>2. proc'[p] = x
    BY <2>1, BecomeEffect
  <2>3. QED
    BY <1>2, <1>4, <1>6, <2>1, <2>2 DEF ReviewOK
<1>10. ASSUME NEW p \in Procs, Inserts(p) PROVE ReviewsOK'
  <2>1. PICK exp \in ExpIds :
          /\ Recorded' = Recorded \cup {exp} /\ rows'[exp] = proc[p].row
          /\ ~At(p, Idle)
    BY <1>10 DEF Inserts, At, Idle
  <2>2. ReviewOK(rows[exp])'
    BY <1>2, <2>1 DEF ReviewOK, SameCall
  <2>3. \A e \in Recorded' : ReviewOK(rows[e])'
    BY <1>1, <2>1, <2>2
  <2>4. PICK x : /\ Become(p, x)
                 /\ \/ x.pc = Idle
                    \/ x.row = proc[p].row
                    \/ x.row.step # "review"
    BY <1>10, InsertEffect DEF IdleProc
  <2>5. proc'[p] = x
    BY <2>4, BecomeEffect
  <2>6. CASE x.row = proc[p].row
    BY <1>2, <1>6, <2>1, <2>3, <2>4, <2>5, <2>6 DEF ReviewOK, SameCall
  <2>7. CASE x.pc = Idle \/ x.row.step # "review"
    BY <1>6, <2>3, <2>4, <2>5, <2>7 DEF ReviewOK
  <2>8. QED
    BY <2>4, <2>6, <2>7
<1>11. QED
  BY <1>5, <1>7, <1>8, <1>9, <1>10, StepKinds

(* A review, its subject and the proposal it reads are of one run, whatever *)
(* run is the newest when and although fusion ids repeat from run to run    *)
(* (the lookup by token in review, arena/cli.py).                           *)
THEOREM ReviewsStayInRun == Spec => []ReviewInRun
<1>1. Init => TypeInv /\ ReviewsOK
  BY TypeInit DEF Init, ReviewsOK, Recorded, At, IdleProc
<1>2. TypeInv /\ ReviewsOK /\ [Next]_vars => (TypeInv /\ ReviewsOK)'
  BY TypeNext, ReviewsNext
<1>3. ReviewsOK => ReviewInRun
  BY DEF ReviewsOK, ReviewOK, ReviewInRun
<1>4. QED
  BY <1>1, <1>2, <1>3, PTL DEF Spec

-----------------------------------------------------------------------------
(* The chain.  The rows of a command are its own because its number is; and *)
(* the id it minted is beyond all rows it has written, though other commands *)
(* may take that very id.                                                   *)
Own(b) == {d \in Recorded : rows[d].by = b}
Before(e) == {d \in Recorded : rows[d].by = rows[e].by /\ d < e}

(* A row of this step comes next after the rows done.                       *)
Follows(done, step) ==
    IF step = "review" THEN done = {}
    ELSE /\ Cardinality(done) \in 0 .. 3
         /\ step = Chain[Cardinality(done) + 1]

(* The rows done before a row of this run.                                  *)
Done(done, run) == \A d \in done : rows[d].status = "completed" /\ rows[d].run = run

RowPlace(e) ==
    /\ rows[e].by <= commands
    /\ Done(Before(e), rows[e].run) /\ Follows(Before(e), rows[e].step)

Place(x) ==
    /\ x.row.by <= commands
    /\ x.pc # "score" => /\ Done(Own(x.row.by), x.row.run)
                         /\ Follows(Own(x.row.by), x.row.step)
    /\ x.pc \in {"check", "invoking", "collect", "persist"}
         => \A d \in Own(x.row.by) : d < x.exp

ChainInv ==
    /\ \A e \in Recorded : RowPlace(e)
    /\ \A p \in Procs : ~At(p, Idle) => Place(proc[p])
    /\ \A p, q \in Procs : ~At(p, Idle) /\ ~At(q, Idle) /\ p # q
                             => proc[p].row.by # proc[q].row.by

LEMMA RowsKeep ==
    ASSUME TypeInv, [Next]_vars, NEW e \in Recorded
    PROVE  /\ rows'[e].by = rows[e].by /\ rows'[e].run = rows[e].run
           /\ rows'[e].step = rows[e].step /\ rows'[e].status = rows[e].status
           /\ e \in Recorded'
  BY RowsStay, RecordedStays DEF Kept, SameCall

(* A row keeps its place when no row goes before it.                        *)
LEMMA RowPlaceStays ==
    ASSUME TypeInv, [Next]_vars, NEW e \in Recorded, RowPlace(e),
           Before(e)' = Before(e), commands' \in Nat, commands <= commands'
    PROVE  RowPlace(e)'
<1>1. rows'[e].by <= commands'
  <2>1. rows[e] \in Row
    BY DEF TypeInv, Recorded
  <2>2. rows[e].by \in Nat /\ commands \in Nat
    BY <2>1 DEF Row, TypeInv
  <2>3. QED
    BY <2>2, RowsKeep DEF RowPlace
<1>2. Done(Before(e), rows[e].run)'
  <2>1. \A d \in Before(e) : d \in Recorded
    BY DEF Before
  <2>2. QED
    BY <2>1, RowsKeep DEF RowPlace, Done
<1>3. Follows(Before(e), rows[e].step)'
  BY RowsKeep DEF RowPlace, Follows
<1>4. QED
  BY <1>1, <1>2, <1>3 DEF RowPlace

LEMMA BeforeStays ==
    ASSUME TypeInv, [Next]_vars, Recorded' = Recorded, NEW e \in Recorded
    PROVE  Before(e)' = Before(e)
  BY RowsKeep DEF Before

LEMMA OwnStays ==
    ASSUME TypeInv, [Next]_vars, Recorded' = Recorded, NEW b
    PROVE  Own(b)' = Own(b)
  BY RowsKeep DEF Own

LEMMA PlaceStays ==
    ASSUME TypeInv, [Next]_vars, NEW x, x.row \in Row, Place(x),
           Own(x.row.by)' = Own(x.row.by),
           commands' \in Nat, commands <= commands'
    PROVE  Place(x)'
<1>1. x.row.by \in Nat /\ commands \in Nat
  BY DEF Row, TypeInv
<1>2. Done(Own(x.row.by), x.row.run) => Done(Own(x.row.by), x.row.run)'
  <2>1. \A d \in Own(x.row.by) : d \in Recorded
    BY DEF Own
  <2>2. QED
    BY <2>1, RowsKeep DEF Done
<1>3. QED
  BY <1>1, <1>2 DEF Place, Follows

(* All rows and all other processes are where they were, and p becomes x.   *)
LEMMA ChainMove ==
    ASSUME TypeInv, ChainInv, [Next]_vars,
           NEW p \in Procs, NEW x, Become(p, x),
           Recorded' = Recorded, commands' \in Nat, commands <= commands',
           x.pc # Idle => /\ Place(x)'
                          /\ \A q \in Procs \ {p} :
                               ~At(q, Idle) => proc[q].row.by # x.row.by
    PROVE  ChainInv'
<1>1. proc'[p] = x /\ \A q \in Procs \ {p} : proc'[q] = proc[q]
  BY BecomeEffect
<1>2. \A e \in Recorded' : RowPlace(e)'
  BY BeforeStays, RowPlaceStays DEF ChainInv
<1>3. ASSUME NEW q \in Procs, ~At(q, Idle)' PROVE Place(proc[q])'
  <2>1. CASE q = p
    BY <1>1, <1>3, <2>1 DEF At, Place
  <2>2. CASE q # p
    <3>1. proc'[q] = proc[q] /\ ~At(q, Idle)
      BY <1>1, <1>3, <2>2 DEF At
    <3>2. PICK y : y = proc[q]
      OBVIOUS
    <3>3. y.row \in Row /\ Place(y)
      BY <3>1, <3>2, Running DEF ChainInv
    <3>4. Place(y)'
      BY <3>3, OwnStays, PlaceStays
    <3>5. QED
      BY <3>1, <3>2, <3>4 DEF Place
  <2>3. QED
    BY <2>1, <2>2
<1>4. ASSUME NEW q \in Procs, NEW r \in Procs, q # r, ~At(q, Idle)', ~At(r, Idle)'
      PROVE  proc'[q].row.by # proc'[r].row.by
  BY <1>1, <1>4 DEF At, ChainInv
<1>5. QED
  BY <1>2, <1>3, <1>4 DEF ChainInv

LEMMA ChainStart ==
    ASSUME TypeInv, ChainInv, [Next]_vars, NEW p \in Procs,
           StartResearch(p) \/ StartReview(p)
    PROVE  ChainInv'
<1>1. PICK x, draft :
        /\ Starts(p, x, draft) /\ draft.by = commands + 1
        /\ draft.step \in {"question", "review"}
  <2>1. CASE StartResearch(p)
    <3>1. PICK x, v : Starts(p, x, Draft(latest, "question", v, 0, 0))
      BY <2>1, ResearchStart
    <3>2. QED
      BY <3>1 DEF Draft
  <2>2. CASE StartReview(p)
    <3>1. PICK x, v, e, d : Starts(p, x, Draft(rows[e].run, "review", v, e, d))
      BY <2>2, ReviewStart
    <3>2. QED
      BY <3>1 DEF Draft
  <2>3. QED
    BY <2>1, <2>2
<1>2. /\ Become(p, x) /\ x.row = draft /\ x.pc = "precheck"
      /\ commands' = commands + 1 /\ Recorded' = Recorded
  BY <1>1 DEF Starts, Recorded
<1>3. commands \in Nat
  BY DEF TypeInv
<1>4. ASSUME NEW row \in Row, row.by <= commands PROVE row.by # commands + 1
  BY <1>3, <1>4 DEF Row
<1>5. Own(commands + 1) = {}
  BY <1>4 DEF Own, ChainInv, RowPlace, TypeInv, Recorded
<1>6. Own(x.row.by)' = {}
  <2>1. PICK b : b = commands + 1
    OBVIOUS
  <2>2. Own(b)' = {}
    BY <1>2, <1>5, <2>1, OwnStays
  <2>3. QED
    BY <1>1, <1>2, <2>1, <2>2 DEF Own
<1>7. Place(x)'
  <2>1. Follows({}, x.row.step)
    BY <1>1, <1>2, FS_EmptySet DEF Follows, Chain
  <2>2. x.row.by <= commands'
    BY <1>1, <1>2, <1>3
  <2>3. QED
    BY <1>2, <1>6, <2>1, <2>2 DEF Place, Done, Follows
<1>8. ASSUME NEW q \in Procs \ {p}, ~At(q, Idle) PROVE proc[q].row.by # x.row.by
  <2>1. proc[q].row \in Row /\ proc[q].row.by <= commands
    BY <1>8, Running DEF ChainInv, Place
  <2>2. QED
    BY <1>1, <1>2, <1>4, <2>1
<1>9. QED
  BY <1>2, <1>3, <1>7, <1>8, ChainMove

LEMMA ChainWorks ==
    ASSUME TypeInv, ChainInv, [Next]_vars, NEW p \in Procs, NEW x, Works(p, x)
    PROVE  ChainInv'
<1>1. /\ Become(p, x) /\ SameCall(x.row, proc[p].row) /\ Recorded' = Recorded
      /\ commands' = commands /\ x.row \in Row /\ ~At(p, Idle) /\ ~At(p, "score")
  BY DEF Works, Recorded, At, Idle, Invoke
<1>2. commands \in Nat
  BY DEF TypeInv
<1>3. Place(proc[p]) /\ x.row.by = proc[p].row.by
  BY <1>1 DEF ChainInv, SameCall
<1>4. ASSUME x.pc \in {"check", "invoking", "collect", "persist"}
      PROVE  \A d \in Own(x.row.by) : d < x.exp
  <2>1. CASE At(p, "mint")
    <3>1. x.exp = NextExpId
      BY <2>1 DEF Works, At, Invoke
    <3>2. \A d \in Recorded : d < NextExpId
      <4>1. Recorded \subseteq 1 .. MaxExp /\ MaxExp \in Nat
        BY Bounds DEF Recorded, ExpIds
      <4>2. QED
        BY <4>1, NextIsFresh DEF NextExpId
    <3>3. QED
      BY <3>1, <3>2 DEF Own
  <2>2. CASE ~At(p, "mint")
    <3>1. /\ x.exp = proc[p].exp
          /\ proc[p].pc \in {"check", "invoking", "collect"}
      BY <1>4, <2>2 DEF Works, At, Invoke
    <3>2. QED
      BY <1>3, <3>1 DEF Place
  <2>3. QED
    BY <2>1, <2>2
<1>5. Place(x)
  BY <1>1, <1>3, <1>4 DEF Place, SameCall, At
<1>6. Place(x)'
  BY <1>1, <1>2, <1>5, OwnStays, PlaceStays
<1>7. QED
  BY <1>1, <1>2, <1>3, <1>6, ChainMove DEF ChainInv

(* A new row comes after all rows of its command and is nobody else's.      *)
LEMMA ChainInserts ==
    ASSUME TypeInv, ChainInv, [Next]_vars, NEW p \in Procs, Inserts(p)
    PROVE  ChainInv'
<1>1. PICK exp, row :
        /\ exp = proc[p].exp /\ row = proc[p].row /\ row \in Row
        /\ exp \in ExpIds \ Recorded /\ Recorded' = Recorded \cup {exp}
        /\ rows'[exp] = row /\ commands' = commands /\ At(p, "persist")
  BY DEF Inserts
<1>2. commands \in Nat /\ ~At(p, Idle)
  BY <1>1 DEF TypeInv, At, Idle
<1>3. /\ row.by <= commands /\ \A d \in Own(row.by) : d < exp
      /\ Done(Own(row.by), row.run) /\ Follows(Own(row.by), row.step)
  BY <1>1, <1>2 DEF ChainInv, Place, At
<1>4. ASSUME NEW b PROVE Own(b)' = IF b = row.by THEN Own(b) \cup {exp} ELSE Own(b)
  BY <1>1, RowsKeep DEF Own
<1>5. ASSUME NEW e \in Recorded PROVE RowPlace(e)'
  <2>1. e \in ExpIds /\ exp \in ExpIds
    BY <1>1 DEF Recorded
  <2>2. rows[e].by = row.by => ~(exp < e)
    BY <1>3, <2>1 DEF Own, ExpIds
  <2>3. Before(e)' = Before(e)
    BY <1>1, <2>2, RowsKeep DEF Before
  <2>4. QED
    BY <1>1, <1>2, <2>3, RowPlaceStays DEF ChainInv
<1>6. RowPlace(exp)'
  <2>1. exp \in ExpIds
    BY <1>1
  <2>2. Before(exp)' = Own(row.by)
    BY <1>1, <1>3, <2>1, RowsKeep DEF Before, Own, ExpIds
  <2>3. \A d \in Own(row.by) : /\ rows'[d].status = "completed"
                               /\ rows'[d].run = row.run
    BY <1>3, RowsKeep DEF Done, Own
  <2>4. Done(Before(exp), rows[exp].run)'
    BY <1>1, <2>2, <2>3 DEF Done
  <2>5. Follows(Before(exp), rows[exp].step)'
    BY <1>1, <1>3, <2>2 DEF Follows
  <2>6. QED
    BY <1>1, <1>3, <2>4, <2>5 DEF RowPlace
<1>7. PICK x : /\ Become(p, x)
               /\ \/ x.pc = Idle
                  \/ x.pc = "score" /\ x.row = row
                  \/ /\ row.status = "completed"
                     /\ x.pc = "mint" /\ x.row.run = row.run /\ x.row.by = row.by
                     /\ <<row.step, x.row.step>> \in
                          {<<"question", "digest">>, <<"digest", "fusion">>,
                           <<"fusion", "implementation">>}
  BY <1>1, InsertEffect DEF IdleProc
<1>8. x.pc # Idle => Place(x)' /\ x.row.by = row.by
  <2>1. CASE x.pc = "score" /\ x.row = row
    BY <1>1, <1>3, <2>1 DEF Place
  <2>2. CASE /\ row.status = "completed"
             /\ x.pc = "mint" /\ x.row.run = row.run /\ x.row.by = row.by
             /\ <<row.step, x.row.step>> \in
                  {<<"question", "digest">>, <<"digest", "fusion">>,
                   <<"fusion", "implementation">>}
    <3>1. Own(x.row.by)' = Own(row.by) \cup {exp} /\ exp \notin Own(row.by)
      <4>1. Own(row.by)' = Own(row.by) \cup {exp}
        BY <1>4
      <4>2. QED
        BY <1>1, <2>2, <4>1 DEF Own
    <3>2. \A d \in Own(row.by) : /\ rows'[d].status = "completed"
                                 /\ rows'[d].run = row.run
      BY <1>3, RowsKeep DEF Done, Own
    <3>3. Done(Own(x.row.by), x.row.run)'
      BY <1>1, <2>2, <3>1, <3>2 DEF Done
    <3>4. Cardinality(Own(row.by) \cup {exp}) = Cardinality(Own(row.by)) + 1
      <4>1. IsFiniteSet(ExpIds) /\ Own(row.by) \subseteq ExpIds
        BY Bounds, FS_Interval DEF ExpIds, Own, Recorded
      <4>2. IsFiniteSet(Own(row.by))
        BY <4>1, FS_Subset
      <4>3. QED
        BY <3>1, <4>2, FS_AddElement
    <3>5. Follows(Own(x.row.by), x.row.step)'
      <4> DEFINE n == Cardinality(Own(row.by))
      <4>1. n \in 0 .. 3 /\ row.step = Chain[n + 1]
        BY <1>3, <2>2 DEF Follows
      <4> HIDE DEF n
      <4>2. n + 1 \in 0 .. 3 /\ x.row.step = Chain[n + 1 + 1]
        BY <2>2, <4>1 DEF Chain
      <4>3. Cardinality(Own(x.row.by)') = n + 1
        BY <3>1, <3>4 DEF n
      <4>4. x.row.step # "review"
        BY <2>2
      <4>5. QED
        BY <4>2, <4>3, <4>4 DEF Follows
    <3>6. QED
      BY <1>1, <1>3, <2>2, <3>3, <3>5 DEF Place
  <2>3. QED
    BY <1>7, <2>1, <2>2
<1>9. proc'[p] = x /\ \A q \in Procs \ {p} : proc'[q] = proc[q]
  BY <1>7, BecomeEffect
<1>10. \A q \in Procs \ {p} : ~At(q, Idle) => proc[q].row.by # row.by
  BY <1>1, <1>2 DEF ChainInv
<1>11. ASSUME NEW q \in Procs, ~At(q, Idle)' PROVE Place(proc[q])'
  <2>1. CASE q = p
    BY <1>8, <1>9, <1>11, <2>1 DEF At, Place
  <2>2. CASE q # p
    <3>1. proc'[q] = proc[q] /\ ~At(q, Idle)
      BY <1>9, <1>11, <2>2 DEF At
    <3>2. PICK y : y = proc[q]
      OBVIOUS
    <3>3. y.row \in Row /\ Place(y)
      BY <3>1, <3>2, Running DEF ChainInv
    <3>4. Own(y.row.by)' = Own(y.row.by)
      BY <1>4, <1>10, <2>2, <3>1, <3>2
    <3>5. Place(y)'
      BY <1>1, <1>2, <3>3, <3>4, PlaceStays
    <3>6. QED
      BY <3>1, <3>2, <3>5 DEF Place
  <2>3. QED
    BY <2>1, <2>2
<1>12. ASSUME NEW q \in Procs, NEW r \in Procs, q # r, ~At(q, Idle)', ~At(r, Idle)'
       PROVE  proc'[q].row.by # proc'[r].row.by
  BY <1>8, <1>9, <1>10, <1>12 DEF At, ChainInv
<1>13. \A e \in Recorded' : RowPlace(e)'
  BY <1>1, <1>5, <1>6
<1>14. QED
  BY <1>11, <1>12, <1>13 DEF ChainInv

LEMMA ChainNext ==
    ASSUME TypeInv, ChainInv, [Next]_vars
    PROVE  ChainInv'
<1>1. CASE UNCHANGED <<rows, invoked, commands, proc>>
  <2>1. Recorded' = Recorded
    BY <1>1 DEF Recorded
  <2>2. \A e \in Recorded' : RowPlace(e)'
    BY <1>1, <2>1, BeforeStays, RowPlaceStays DEF ChainInv, TypeInv
  <2>3. ASSUME NEW q \in Procs, ~At(q, Idle)' PROVE Place(proc[q])'
    <3>1. proc'[q] = proc[q] /\ ~At(q, Idle)
      BY <1>1, <2>3 DEF At
    <3>2. PICK y : y = proc[q]
      OBVIOUS
    <3>3. y.row \in Row /\ Place(y)
      BY <3>1, <3>2, Running DEF ChainInv
    <3>4. Place(y)'
      BY <1>1, <2>1, <3>3, OwnStays, PlaceStays DEF TypeInv
    <3>5. QED
      BY <3>1, <3>2, <3>4 DEF Place
  <2>4. QED
    BY <1>1, <2>2, <2>3 DEF ChainInv, At
<1>2. ASSUME NEW p \in Procs, Ends(p) PROVE ChainInv'
  <2>1. IdleProc.pc = Idle
    BY DEF IdleProc
  <2>2. commands' = commands /\ commands \in Nat /\ Recorded' = Recorded
    BY <1>2 DEF Ends, TypeInv
  <2>3. QED
    BY <1>2, <2>1, <2>2, ChainMove DEF Ends, Exit
<1>3. QED
  BY <1>1, <1>2, ChainStart, ChainWorks, ChainInserts, StepKinds

(* The rows of one research-proxy are its steps in order, from the first on, *)
(* in one run and none after a blocked one, also when other commands take   *)
(* the ids it minted and die wherever they do (the sequence of steps in     *)
(* research_proxy, arena/cli.py).                                           *)
THEOREM ChainInOrder == Spec => []ChainOrder
<1>1. Init => TypeInv /\ ChainInv
  BY TypeInit DEF Init, ChainInv, Recorded, At, IdleProc
<1>2. TypeInv /\ ChainInv /\ [Next]_vars => (TypeInv /\ ChainInv)'
  BY TypeNext, ChainNext
<1>3. ChainInv => ChainOrder
  <2> SUFFICES ASSUME ChainInv, NEW e \in Recorded
               PROVE  /\ \A d \in Before(e) : /\ rows[d].status = "completed"
                                              /\ rows[d].run = rows[e].run
                      /\ rows[e].step = "review" => Before(e) = {}
                      /\ rows[e].step # "review" =>
                           LET n == Cardinality(Before(e)) + 1
                           IN  n <= 4 /\ rows[e].step = Chain[n]
    BY DEF ChainOrder, Before
  <2>1. RowPlace(e)
    BY DEF ChainInv
  <2>2. QED
    BY <2>1 DEF RowPlace, Done, Follows
<1>4. QED
  BY <1>1, <1>2, <1>3, PTL DEF Spec

-----------------------------------------------------------------------------
(* One command at a time: nobody takes an id that was minted, or writes the *)
(* artifacts of a row that is there.                                        *)

(* An implementation is of a proposal of its own command that passed.       *)
Gated(row) ==
    row.step = "implementation" =>
        /\ row.proposal \in Recorded
        /\ rows[row.proposal].by = row.by
        /\ files[row.proposal]["fusion"].good

(* Under id e, the artifact and the token of a row are its command's.       *)
Linked(row, e) ==
    row.file => /\ files[e][row.step].by = row.by
                /\ row.step = "implementation"
                     => row.token = files[row.proposal]["fusion"].fusion

OwnWork(x) ==
    /\ Gated(x.row)
    /\ x.pc \in {"check", "invoking", "collect", "persist"}
         => x.exp \notin Recorded
    /\ x.pc = "collect" =>
         /\ files[x.exp][x.row.step].by = x.row.by
         /\ x.row.step = "implementation" =>
              files[x.exp]["implementation"].fusion
                = files[x.row.proposal]["fusion"].fusion
    /\ x.pc = "persist" =>
         /\ Linked(x.row, x.exp)
         /\ x.row.status = "completed" => x.payload = files[x.exp][x.row.step]

SoloInv ==
    /\ \A e \in Recorded : Gated(rows[e]) /\ Linked(rows[e], e)
    /\ \A p \in Procs : ~At(p, Idle) => OwnWork(proc[p])

(* Nothing is written where there is a row.                                 *)
LEMMA FilesStay ==
    ASSUME TypeInv, SoloInv, [Next]_vars
    PROVE  \A e \in Recorded, s \in Steps : files'[e][s] = files[e][s]
<1>1. CASE files' = files
  BY <1>1
<1>2. ASSUME NEW p \in Procs, InvokeReturns(p)
      PROVE  \A e \in Recorded, s \in Steps : files'[e][s] = files[e][s]
  <2>1. proc[p].exp \notin Recorded
    BY <1>2 DEF InvokeReturns, SoloInv, OwnWork, At, Idle
  <2>2. QED
    BY <1>2, <2>1, WriteStep DEF Recorded
<1>3. QED
  BY <1>1, <1>2 DEF Next, vars, InitFixture, StartResearch, StartReview,
     StartCommand, Precheck, Mint, Invoke, Refuse, InvokeUnusable,
     InvokeStopped, InvokeRaises, Collect, Persist, Score, Crash

LEMMA GatedStays ==
    ASSUME TypeInv, SoloInv, [Next]_vars, NEW row, Gated(row)
    PROVE  Gated(row)'
<1>1. "fusion" \in Steps
  BY DEF Steps
<1>2. QED
  BY <1>1, FilesStay, RowsKeep DEF Gated

LEMMA LinkedStays ==
    ASSUME TypeInv, SoloInv, [Next]_vars, NEW row \in Row, Gated(row),
           NEW e \in Recorded, Linked(row, e)
    PROVE  Linked(row, e)'
<1>1. "fusion" \in Steps /\ row.step \in Steps
  BY DEF Steps, Row
<1>2. QED
  BY <1>1, FilesStay DEF Gated, Linked

(* A row that is there stays what it is, and so does its proposal.          *)
LEMMA RecordedOwn ==
    ASSUME TypeInv, SoloInv, [Next]_vars, NEW e \in Recorded
    PROVE  Gated(rows[e])' /\ Linked(rows[e], e)'
<1>1. PICK row \in Row : row = rows[e]
  BY DEF TypeInv, Recorded
<1>2. Gated(row) /\ Linked(row, e)
  BY <1>1 DEF SoloInv
<1>3. Gated(row)' /\ Linked(row, e)'
  BY <1>2, GatedStays, LinkedStays
<1>4. Kept(e)
  BY RowsStay
<1>5. PICK new : new = rows'[e]
  OBVIOUS
<1>6. /\ new.step = row.step /\ new.proposal = row.proposal /\ new.by = row.by
      /\ new.file = row.file /\ new.token = row.token
  BY <1>1, <1>4, <1>5 DEF Kept, SameCall
<1>7. Gated(new)' /\ Linked(new, e)'
  BY <1>3, <1>6 DEF Gated, Linked
<1>8. QED
  BY <1>5, <1>7 DEF Gated, Linked

LEMMA SoloMove ==
    ASSUME NEW only, Procs = {only}, TypeInv, SoloInv, [Next]_vars,
           NEW x, Become(only, x), x.pc # Idle => OwnWork(x)',
           \A e \in Recorded' \ Recorded : Gated(rows[e])' /\ Linked(rows[e], e)'
    PROVE  SoloInv'
<1>1. proc'[only] = x
  BY BecomeEffect
<1>2. \A e \in Recorded' : Gated(rows[e])' /\ Linked(rows[e], e)'
  BY RecordedOwn
<1>3. OwnWork(x)' /\ proc'[only] = x => OwnWork(proc[only])'
  BY DEF OwnWork, Gated, Linked
<1>4. QED
  BY <1>1, <1>2, <1>3 DEF SoloInv, At

LEMMA SoloExit ==
    ASSUME NEW only, Procs = {only}, TypeInv, SoloInv, [Next]_vars,
           Exit(only), Recorded' = Recorded
    PROVE  SoloInv'
<1>1. IdleProc.pc = Idle
  BY DEF IdleProc
<1>2. QED
  BY <1>1, SoloMove DEF Exit

(* A command that starts or mints has no implementation yet, or one whose   *)
(* proposal passed.                                                         *)
LEMMA SoloBegins ==
    ASSUME NEW only, Procs = {only}, TypeInv, SoloInv, [Next]_vars,
           \/ StartResearch(only) \/ StartReview(only) \/ Precheck(only)
           \/ Mint(only) \/ Invoke(only)
    PROVE  SoloInv'
<1>1. rows' = rows /\ Recorded' = Recorded /\ files' = files
  BY DEF StartResearch, StartReview, StartCommand, Precheck, Mint, Invoke, Recorded
<1>2. ASSUME NEW x, Become(only, x), x.pc # Idle => OwnWork(x)
      PROVE  SoloInv'
  <2>1. x.pc # Idle => OwnWork(x)'
    BY <1>1, <1>2 DEF OwnWork, Gated, Linked
  <2>2. QED
    BY <1>1, <1>2, <2>1, SoloMove
<1>3. CASE StartResearch(only)
  <2>1. PICK x, v : Starts(only, x, Draft(latest, "question", v, 0, 0))
    BY <1>3, ResearchStart
  <2>2. x.pc = "precheck" /\ x.row.step = "question" /\ Become(only, x)
    BY <2>1 DEF Starts, Draft
  <2>3. QED
    BY <1>2, <2>2 DEF OwnWork, Gated
<1>4. CASE StartReview(only)
  <2>1. PICK x, v, e, d : Starts(only, x, Draft(rows[e].run, "review", v, e, d))
    BY <1>4, ReviewStart
  <2>2. x.pc = "precheck" /\ x.row.step = "review" /\ Become(only, x)
    BY <2>1 DEF Starts, Draft
  <2>3. QED
    BY <1>2, <2>2 DEF OwnWork, Gated
<1>5. CASE Precheck(only) /\ Exit(only)
  BY <1>1, <1>5, SoloExit
<1>6. CASE Precheck(only) /\ ~Exit(only)
  <2>1. PICK x : Become(only, x) /\ x.pc = "mint" /\ x.row = proc[only].row
    BY <1>6, PrecheckStep
  <2>2. Gated(proc[only].row)
    BY <1>6 DEF Precheck, At, Idle, SoloInv, OwnWork
  <2>3. QED
    BY <1>2, <2>1, <2>2 DEF OwnWork
<1>7. CASE Mint(only)
  <2>1. PICK x : /\ Become(only, x) /\ x.pc = "check"
                 /\ x.row = proc[only].row /\ x.exp = NextExpId
                 /\ x.exp \in ExpIds
    BY <1>7, MintStep
  <2>2. Gated(proc[only].row)
    BY <1>7 DEF Mint, At, Idle, SoloInv, OwnWork
  <2>3. x.exp \notin Recorded
    <3>1. Recorded \subseteq 1 .. MaxExp /\ MaxExp \in Nat
      BY Bounds DEF Recorded, ExpIds
    <3>2. \A d \in Recorded : d < NextExpId
      BY <3>1, NextIsFresh DEF NextExpId
    <3>3. ~(x.exp < x.exp)
      BY <2>1 DEF ExpIds
    <3>4. QED
      BY <2>1, <3>2, <3>3
  <2>4. QED
    BY <1>2, <2>1, <2>2, <2>3 DEF OwnWork
<1>8. CASE Invoke(only)
  <2>1. PICK x : /\ Become(only, x) /\ x.pc = "invoking"
                 /\ x.row = proc[only].row /\ x.exp = proc[only].exp
    BY <1>8, InvokeStep
  <2>2. Gated(proc[only].row) /\ proc[only].exp \notin Recorded
    BY <1>8 DEF Invoke, At, Idle, SoloInv, OwnWork
  <2>3. QED
    BY <1>2, <2>1, <2>2 DEF OwnWork
<1>9. QED
  BY <1>3, <1>4, <1>5, <1>6, <1>7, <1>8

(* An adapter writes the artifact of this command, with the token of the    *)
(* proposal it implements.                                                  *)
LEMMA SoloEnds ==
    ASSUME NEW only, Procs = {only}, TypeInv, SoloInv, [Next]_vars,
           InvokeEnd(only)
    PROVE  SoloInv'
<1>1. /\ At(only, "invoking") /\ rows' = rows /\ Recorded' = Recorded
  BY EndStep DEF Recorded
<1>2. Gated(proc[only].row) /\ proc[only].exp \notin Recorded
  BY <1>1 DEF SoloInv, OwnWork, At, Idle
<1>3. ~proc[only].row.file /\ proc[only].row \in Row
  BY <1>1, Running DEF TypeInv, LocalOK, At, Idle
<1>4. ASSUME NEW row, SameCall(row, proc[only].row) PROVE Gated(row)'
  <2>1. Gated(row)
    BY <1>2, <1>4 DEF Gated, SameCall
  <2>2. QED
    BY <2>1, GatedStays
<1>5. CASE Exit(only)
  BY <1>1, <1>5, SoloExit
<1>6. CASE \E x : Blocks(only, x)
  <2>1. PICK x : Blocks(only, x)
    BY <1>6
  <2>2. /\ Become(only, x) /\ x.pc = "persist" /\ x.exp = proc[only].exp
        /\ SameCall(x.row, proc[only].row)
        /\ x.row.status = "blocked" /\ ~x.row.file
    BY <1>3, <2>1 DEF Blocks
  <2>3. OwnWork(x)'
    BY <1>1, <1>2, <1>4, <2>2 DEF OwnWork, Linked
  <2>4. QED
    BY <1>1, <2>2, <2>3, SoloMove
<1>7. CASE InvokeReturns(only) /\ \E x, usage : Accepts(only, x, usage)
  <2>1. PICK x, usage : Accepts(only, x, usage)
    BY <1>7
  <2>2. /\ Become(only, x) /\ x.pc = "collect" /\ x.exp = proc[only].exp
        /\ SameCall(x.row, proc[only].row)
    BY <2>1 DEF Accepts
  <2>3. PICK artifact \in MayWrite(only) :
          /\ files'[proc[only].exp][proc[only].row.step] = artifact
          /\ artifact.by = proc[only].row.by
    BY <1>7, WriteStep
  <2>4. files'[x.exp][x.row.step].by = x.row.by
    BY <2>2, <2>3 DEF SameCall
  <2>5. ASSUME x.row.step = "implementation"
        PROVE  files'[x.exp]["implementation"].fusion
                 = files'[x.row.proposal]["fusion"].fusion
    <3>1. proc[only].row.step = "implementation"
      BY <2>2, <2>5 DEF SameCall
    <3>2. artifact.fusion = files[proc[only].row.proposal]["fusion"].fusion
      BY <3>1 DEF MayWrite
    <3>3. proc[only].row.proposal \in Recorded /\ "fusion" \in Steps
      BY <1>2, <3>1 DEF Gated, Steps
    <3>4. QED
      BY <2>2, <2>3, <3>1, <3>2, <3>3, FilesStay DEF SameCall
  <2>6. OwnWork(x)'
    BY <1>1, <1>2, <1>4, <2>2, <2>4, <2>5 DEF OwnWork
  <2>7. QED
    BY <1>1, <2>2, <2>6, SoloMove
<1>8. QED
  BY <1>5, <1>6, <1>7, EndStep

LEMMA SoloCollects ==
    ASSUME NEW only, Procs = {only}, TypeInv, SoloInv, [Next]_vars,
           Collect(only)
    PROVE  SoloInv'
<1>1. /\ At(only, "collect") /\ rows' = rows /\ files' = files
      /\ Recorded' = Recorded
  BY DEF Collect, Recorded
<1>2. OwnWork(proc[only]) /\ proc[only].pc = "collect"
  BY <1>1 DEF SoloInv, At, Idle
<1>3. PICK x : Collects(only, x)
  BY CollectStep
<1>4. /\ Become(only, x) /\ x.pc = "persist" /\ x.exp = proc[only].exp
      /\ SameCall(x.row, proc[only].row)
      /\ x.row.token = files[proc[only].exp][proc[only].row.step].fusion
      /\ x.payload = files[proc[only].exp][proc[only].row.step]
  BY <1>3 DEF Collects
<1>5. Gated(x.row) /\ Linked(x.row, x.exp)
  BY <1>2, <1>4 DEF OwnWork, Gated, Linked, SameCall
<1>6. OwnWork(x)
  BY <1>2, <1>4, <1>5 DEF OwnWork, SameCall
<1>7. OwnWork(x)'
  BY <1>1, <1>6 DEF OwnWork, Gated, Linked
<1>8. QED
  BY <1>1, <1>4, <1>7, SoloMove

(* What the next step implements is the proposal whose row went in, and     *)
(* what was gated is what is on disk.                                       *)
LEMMA SoloPersists ==
    ASSUME NEW only, Procs = {only}, TypeInv, SoloInv, [Next]_vars,
           Persist(only)
    PROVE  SoloInv'
<1>1. PICK exp, row : exp = proc[only].exp /\ row = proc[only].row
  OBVIOUS
<1>2. /\ At(only, "persist") /\ exp \in ExpIds /\ row \in Row
      /\ files' = files
  BY <1>1, PersistStep
<1>3. OwnWork(proc[only]) /\ proc[only].pc = "persist"
  BY <1>2 DEF SoloInv, At, Idle
<1>4. CASE Exit(only) /\ rows' = rows
  BY <1>4, SoloExit DEF Recorded
<1>5. CASE /\ rows[exp] = NoRow /\ AfterRow(only) /\ rows'[exp] = row
           /\ \A e \in ExpIds \ {exp} : rows'[e] = rows[e]
  <2>1. Recorded' = Recorded \cup {exp}
    BY <1>2, <1>5, RowIsThere DEF Recorded
  <2>2. Gated(row)' /\ Linked(row, exp)'
    <3>1. Gated(row) /\ Linked(row, exp)
      BY <1>1, <1>3 DEF OwnWork
    <3>2. Gated(row)'
      BY <3>1, GatedStays
    <3>3. QED
      BY <1>2, <3>1, <3>2 DEF Linked
  <2>3. \A e \in Recorded' \ Recorded : Gated(rows[e])' /\ Linked(rows[e], e)'
    BY <1>5, <2>1, <2>2 DEF Gated, Linked
  <2>4. ASSUME NEW x, Become(only, x), x.pc \notin {"check", "invoking",
                  "collect", "persist"}, Gated(x.row)'
        PROVE  SoloInv'
    <3>1. OwnWork(x)'
      BY <2>4 DEF OwnWork
    <3>2. QED
      BY <2>3, <2>4, <3>1, SoloMove
  <2>5. CASE Exit(only)
    <3>1. IdleProc.pc = Idle
      BY DEF IdleProc
    <3>2. QED
      BY <2>3, <2>5, <3>1, SoloMove DEF Exit
  <2>6. CASE \E x, step, prov : /\ step \in {"digest", "fusion"}
                                /\ Continues(only, x, step, prov, 0)
    <3>1. PICK x, step, prov : /\ step \in {"digest", "fusion"}
                               /\ Continues(only, x, step, prov, 0)
      BY <2>6
    <3>2. /\ Become(only, x) /\ x.pc = "mint"
          /\ x.row.step \in {"digest", "fusion"}
      BY <3>1 DEF Continues
    <3>3. QED
      BY <2>4, <3>2 DEF Gated
  <2>7. CASE /\ row.status = "completed" /\ row.step = "fusion" /\ Gate(only)
             /\ \E x : Continues(only, x, "implementation", Implementer, exp)
    <3>1. PICK x : Continues(only, x, "implementation", Implementer, exp)
      BY <2>7
    <3>2. /\ Become(only, x) /\ x.pc = "mint" /\ x.row.proposal = exp
          /\ x.row.by = row.by
      BY <1>1, <3>1 DEF Continues
    <3>3. files[exp]["fusion"].good
      BY <1>1, <1>3, <2>7 DEF OwnWork, Gate
    <3>4. Gated(x.row)'
      BY <1>2, <1>5, <2>1, <3>2, <3>3 DEF Gated
    <3>5. QED
      BY <2>4, <3>2, <3>4
  <2>8. CASE \E x : Scores(only, x)
    <3>1. PICK x : Scores(only, x)
      BY <2>8
    <3>2. Become(only, x) /\ x.pc = "score" /\ x.row = row
      BY <1>1, <3>1 DEF Scores
    <3>3. Gated(x.row)'
      BY <2>2, <3>2 DEF Gated
    <3>4. QED
      BY <2>4, <3>2, <3>3
  <2>9. QED
    BY <1>1, <1>2, <1>5, <2>5, <2>6, <2>7, <2>8, AfterRowStep
<1>6. QED
  BY <1>1, <1>4, <1>5, PersistStep

LEMMA SoloNext ==
    ASSUME NEW only, Procs = {only}, TypeInv, SoloInv, [Next]_vars
    PROVE  SoloInv'
<1>1. CASE InitFixture \/ UNCHANGED vars
  <2>1. rows' = rows /\ files' = files /\ proc' = proc /\ Recorded' = Recorded
    BY <1>1 DEF InitFixture, vars, Recorded
  <2>2. QED
    BY <2>1 DEF SoloInv, OwnWork, Gated, Linked, At
<1>2. CASE Refuse(only) \/ Crash(only)
  BY <1>2, RefuseStep, SoloExit DEF Refuse, Crash, Recorded
<1>3. CASE Score(only)
  <2>1. Exit(only)
    BY <1>3, ScoreStep
  <2>2. Recorded' = Recorded
    BY <1>3, ScoreStep, RowIsThere DEF Recorded, Grows
  <2>3. QED
    BY <2>1, <2>2, SoloExit
<1>4. QED
  BY <1>1, <1>2, <1>3, SoloBegins, SoloEnds, SoloCollects, SoloPersists
     DEF Next, InvokeEnd

LEMMA SoloInit == Init => SoloInv
  BY DEF Init, SoloInv, Recorded, At, IdleProc

(* One command at a time, the artifact a row points to is the one its own   *)
(* invocation wrote: _step_ids mints an id beyond all rows, so what a dead  *)
(* command has left under it is overwritten before it is collected          *)
(* (_step_ids and _require_artifact in arena/cli.py).                       *)
THEOREM ArtifactsAreOwn ==
    ASSUME NEW only, Procs = {only}
    PROVE  Spec => []OwnArtifacts
<1>1. TypeInv /\ SoloInv /\ [Next]_vars => (TypeInv /\ SoloInv)'
  BY TypeNext, SoloNext
<1>2. SoloInv => OwnArtifacts
  BY DEF SoloInv, Linked, OwnArtifacts
<1>3. QED
  BY <1>1, <1>2, TypeInit, SoloInit, PTL DEF Spec

(* One command at a time, what is implemented and linked by its token is a  *)
(* proposal of the same command that passed the gate, although the gate     *)
(* looks at a payload in memory and the implementer at a file               *)
(* (is_eligible in research_proxy, arena/cli.py).                           *)
THEOREM ImplementsWhatPassed ==
    ASSUME NEW only, Procs = {only}
    PROVE  Spec => []ImplementsGated
<1>1. TypeInv /\ SoloInv /\ [Next]_vars => (TypeInv /\ SoloInv)'
  BY TypeNext, SoloNext
<1>2. SoloInv => ImplementsGated
  BY DEF SoloInv, Gated, Linked, ImplementsGated
<1>3. QED
  BY <1>1, <1>2, TypeInit, SoloInit, PTL DEF Spec

-----------------------------------------------------------------------------
(* The rows of a run in a scope exceed its ceiling by at most a chain for   *)
(* each process but one.                                                    *)
InScope(r, s) == {e \in RowsOf(r) : rows[e].prov \in Members[s]}

Size(r, s) == Cardinality(InScope(r, s))

One(prov, s) == IF prov \in Members[s] THEN 1 ELSE 0

(* The rows that a command at this step may still write.                    *)
Left(step) == CASE step = "question" -> 4 [] step = "digest" -> 3
                [] step = "fusion" -> 2 [] OTHER -> 1

(* The calls that its governor counted before this step.                    *)
Base(x, s) == IF x.pc \in {"collect", "persist"}
              THEN x.acc.calls[s] - One(x.row.prov, s) ELSE x.acc.calls[s]

(* The rows that its governor may still let it write in a scope of a run,   *)
(* numbered from one on; a blocked row is its last.                         *)
Room(x, r, s) ==
    IF x.pc \in {Idle, "precheck", "score"} \/ x.row.run # r THEN {}
    ELSE IF x.pc = "persist" /\ x.row.status = "blocked"
    THEN {k \in {1} : x.row.prov \in Members[s]}
    ELSE {k \in 1 .. Left(x.row.step) : Base(x, s) + k <= Ceilings.calls[s]}

Reserved(r, s) == {q \in Procs \X (1 .. 4) : q[2] \in Room(proc[q[1]], r, s)}

OnBudget(x) ==
    \A s \in Scopes :
        /\ (\/ x.pc \in {"mint", "check", "invoking", "collect"}
            \/ x.pc = "persist" /\ x.row.status = "completed")
             => x.acc.calls[s] \in Nat
        /\ x.pc \in {"invoking", "collect", "persist"} /\ x.row.prov \in Members[s]
             => 1 \in Room(x, x.row.run, s)

(* The rows that are there, and those that may come.                        *)
BudgetInv ==
    /\ \A r \in RunIds, s \in Scopes :
         Size(r, s) + Cardinality(Reserved(r, s))
             <= Ceilings.calls[s] + 4 * (Cardinality(Procs) - 1)
    /\ \A p \in Procs : OnBudget(proc[p])

LEMMA ScopeSize ==
    \A r, s : IsFiniteSet(InScope(r, s)) /\ Size(r, s) \in Nat
<1>1. IsFiniteSet(ExpIds)
  BY Bounds, FS_Interval DEF ExpIds
<1>2. \A r, s : InScope(r, s) \subseteq ExpIds
  BY DEF InScope, RowsOf, Recorded
<1>3. QED
  BY <1>1, <1>2, FS_Subset, FS_CardinalityType DEF Size

LEMMA Processes == IsFiniteSet(Procs) /\ Cardinality(Procs) \in Nat \ {0}
<1>1. IsFiniteSet(Procs) /\ Procs # {}
  BY ResearchAssumption DEF ResearchAssumption
<1>2. Cardinality(Procs) \in Nat /\ Cardinality(Procs) # 0
  BY <1>1, FS_CardinalityType, FS_EmptySet
<1>3. QED
  BY <1>1, <1>2

LEMMA Slots ==
    ASSUME NEW P \in SUBSET Procs
    PROVE  /\ IsFiniteSet(P \X (1 .. 4))
           /\ Cardinality(P \X (1 .. 4)) = 4 * Cardinality(P)
           /\ Cardinality(P) \in Nat
<1>1. IsFiniteSet(1 .. 4) /\ Cardinality(1 .. 4) = 4
  <2>1. PICK a \in Int, b \in Int : a = 1 /\ b = 4
    OBVIOUS
  <2>2. IsFiniteSet(a .. b) /\ Cardinality(a .. b) = IF a > b THEN 0 ELSE b - a + 1
    BY FS_Interval
  <2>3. QED
    BY <2>1, <2>2
<1>2. IsFiniteSet(P) /\ Cardinality(P) \in Nat
  BY Processes, FS_Subset, FS_CardinalityType
<1>3. /\ IsFiniteSet(P \X (1 .. 4))
      /\ Cardinality(P \X (1 .. 4)) = Cardinality(P) * Cardinality(1 .. 4)
  BY <1>1, <1>2, FS_Product
<1>4. QED
  BY <1>1, <1>2, <1>3

LEMMA ReservedSize ==
    ASSUME NEW R \in SUBSET (Procs \X (1 .. 4))
    PROVE  IsFiniteSet(R) /\ Cardinality(R) \in Nat
<1>1. Procs \in SUBSET Procs
  OBVIOUS
<1>2. IsFiniteSet(Procs \X (1 .. 4))
  BY <1>1, Slots
<1>3. QED
  BY <1>2, FS_Subset, FS_CardinalityType

LEMMA ReservedIn == \A r, s : Reserved(r, s) \in SUBSET (Procs \X (1 .. 4))
BY DEF Reserved

LEMMA ReservedNext ==
    \A r, s : Reserved(r, s)' = {q \in Procs \X (1 .. 4) : q[2] \in Room(proc'[q[1]], r, s)}
BY DEF Reserved, Room, Base, Left, One

LEMMA OnBudgetNext ==
    ASSUME NEW p \in Procs
    PROVE  OnBudget(proc[p])' <=> OnBudget(proc'[p])
BY DEF OnBudget, Room, Base, Left, One

LEMMA RoomType ==
    ASSUME NEW x, NEW r, NEW s
    PROVE  Room(x, r, s) \subseteq 1 .. 4
<1>1. Left(x.row.step) \in 1 .. 4
  BY DEF Left
<1>2. QED
  BY <1>1 DEF Room

LEMMA Seeded ==
    ASSUME NEW r, NEW s \in Scopes
    PROVE  Accumulators(r).calls[s] = Size(r, s)
  BY DEF Accumulators, Size, InScope

LEMMA SizesStay ==
    ASSUME TypeInv, [Next]_vars, Recorded' = Recorded
    PROVE  \A r, s : Size(r, s)' = Size(r, s)
<1>1. \A e \in Recorded : rows'[e].run = rows[e].run /\ rows'[e].prov = rows[e].prov
  BY RowsStay DEF Kept, SameCall
<1>2. ASSUME NEW r, NEW s PROVE InScope(r, s)' = InScope(r, s)
  BY <1>1 DEF InScope, RowsOf
<1>3. QED
  BY <1>2 DEF Size

(* An invocation that is on the books has been counted.                     *)
LEMMA Counted ==
    ASSUME NEW acc, NEW prov, NEW usage, NEW s \in Scopes, acc.calls[s] \in Nat,
           RecordPostInvoke(acc, prov, usage).breaker = NoBreaker
    PROVE  RecordPostInvoke(acc, prov, usage).acc.calls[s]
             = acc.calls[s] + One(prov, s)
<1>1. TaskCapBreaker(usage) = NoBreaker
  BY DEF RecordPostInvoke
<1>2. RecordPostInvoke(acc, prov, usage).acc = AddUsage(acc, prov, usage)
  BY <1>1 DEF RecordPostInvoke
<1>3. QED
  BY <1>2 DEF AddUsage, One

LEMMA CeilingType == \A s \in Scopes : Ceilings.calls[s] \in Nat
BY CeilingsAssumption DEF CeilingsAssumption

(* A step after which nothing is reserved that was not before.              *)
LEMMA ReservedShrinks ==
    ASSUME TypeInv, NEW p \in Procs, NEW x, Become(p, x), NEW r, NEW s,
           Room(x, r, s) \subseteq Room(proc[p], r, s)
    PROVE  Reserved(r, s)' \subseteq Reserved(r, s)
<1>1. proc'[p] = x /\ \A q \in Procs \ {p} : proc'[q] = proc[q]
  BY BecomeEffect
<1>2. \A q \in Procs : Room(proc'[q], r, s) \subseteq Room(proc[q], r, s)
  BY <1>1
<1>3. QED
  BY <1>2, ReservedNext DEF Reserved

LEMMA BudgetMove ==
    ASSUME TypeInv, BudgetInv, [Next]_vars, NEW p \in Procs,
           NEW x, Become(p, x), Recorded' = Recorded, OnBudget(x),
           \A r \in RunIds, s \in Scopes : Room(x, r, s) \subseteq Room(proc[p], r, s)
    PROVE  BudgetInv'
<1>1. proc'[p] = x /\ \A q \in Procs \ {p} : proc'[q] = proc[q]
  BY BecomeEffect
<1>2. \A q \in Procs : OnBudget(proc[q])'
  BY <1>1, OnBudgetNext DEF BudgetInv
<1>3. ASSUME NEW r \in RunIds, NEW s \in Scopes
      PROVE  Size(r, s)' + Cardinality(Reserved(r, s)')
                 <= Ceilings.calls[s] + 4 * (Cardinality(Procs) - 1)
  <2>1. Size(r, s)' = Size(r, s) /\ Size(r, s) \in Nat
    BY SizesStay, ScopeSize
  <2>2. Reserved(r, s)' \subseteq Reserved(r, s)
    BY ReservedShrinks
  <2>3. /\ IsFiniteSet(Reserved(r, s)) /\ Cardinality(Reserved(r, s)) \in Nat
        /\ Cardinality(Reserved(r, s)') \in Nat
    BY <2>2, ReservedIn, ReservedSize
  <2>4. Cardinality(Reserved(r, s)') <= Cardinality(Reserved(r, s))
    BY <2>2, <2>3, FS_Subset
  <2>5. Size(r, s) + Cardinality(Reserved(r, s))
            <= Ceilings.calls[s] + 4 * (Cardinality(Procs) - 1)
    BY DEF BudgetInv
  <2>6. QED
    BY <2>1, <2>3, <2>4, <2>5, CeilingType, Processes
<1>4. QED
  BY <1>2, <1>3 DEF BudgetInv

LEMMA BudgetExit ==
    ASSUME TypeInv, BudgetInv, [Next]_vars, NEW p \in Procs,
           Exit(p), Recorded' = Recorded
    PROVE  BudgetInv'
<1>1. IdleProc.pc = Idle
  BY DEF IdleProc
<1>2. OnBudget(IdleProc)
  BY <1>1 DEF OnBudget, Idle
<1>3. \A r \in RunIds, s \in Scopes : Room(IdleProc, r, s) \subseteq Room(proc[p], r, s)
  BY <1>1 DEF Room
<1>4. QED
  BY <1>2, <1>3, BudgetMove DEF Exit

(* The seed: what the others have reserved is a chain each at most, and     *)
(* what the new governor lets through fits on top of the rows it counted,   *)
(* which are all there are.                                                 *)
LEMMA BudgetSeeds ==
    ASSUME TypeInv, BudgetInv, [Next]_vars, NEW p \in Procs, Precheck(p), ~Exit(p)
    PROVE  BudgetInv'
<1>1. PICK x : /\ Become(p, x) /\ x.pc = "mint" /\ x.row = proc[p].row
               /\ x.acc = Accumulators(proc[p].row.run)
  BY PrecheckStep
<1>2. Recorded' = Recorded /\ proc[p].pc = "precheck"
  BY DEF Precheck, Recorded, At
<1>3. proc'[p] = x /\ \A q \in Procs \ {p} : proc'[q] = proc[q]
  BY <1>1, BecomeEffect
<1>4. \A s \in Scopes : x.acc.calls[s] = Size(x.row.run, s) /\ x.acc.calls[s] \in Nat
  BY <1>1, Seeded, ScopeSize
<1>5. OnBudget(x)
  BY <1>1, <1>4 DEF OnBudget
<1>6. \A q \in Procs : OnBudget(proc[q])'
  BY <1>3, <1>5, OnBudgetNext DEF BudgetInv
<1>7. ASSUME NEW r \in RunIds, NEW s \in Scopes
      PROVE  Size(r, s)' + Cardinality(Reserved(r, s)')
                 <= Ceilings.calls[s] + 4 * (Cardinality(Procs) - 1)
  <2>1. /\ Size(r, s)' = Size(r, s) /\ Size(r, s) \in Nat /\ Ceilings.calls[s] \in Nat
        /\ Cardinality(Procs) \in Nat
    BY <1>2, SizesStay, ScopeSize, CeilingType, Processes
  <2>2. CASE Room(x, r, s) = {}
    <3>1. Reserved(r, s)' \subseteq Reserved(r, s)
      BY <1>1, <2>2, ReservedShrinks
    <3>2. /\ IsFiniteSet(Reserved(r, s)) /\ Cardinality(Reserved(r, s)) \in Nat
          /\ Cardinality(Reserved(r, s)') \in Nat
      BY <3>1, ReservedIn, ReservedSize
    <3>3. Cardinality(Reserved(r, s)') <= Cardinality(Reserved(r, s))
      BY <3>1, <3>2, FS_Subset
    <3>4. Size(r, s) + Cardinality(Reserved(r, s))
              <= Ceilings.calls[s] + 4 * (Cardinality(Procs) - 1)
      BY DEF BudgetInv
    <3>5. QED
      BY <2>1, <3>2, <3>3, <3>4
  <2>3. CASE Room(x, r, s) # {}
    <3> DEFINE others == (Procs \ {p}) \X (1 .. 4)
               c == Ceilings.calls[s] - Size(r, s)
               mine == {p} \X (1 .. c)
    <3>1. Room(x, r, s) \subseteq 1 .. c /\ c \in Nat
      <4>1. Room(x, r, s) = {k \in 1 .. Left(x.row.step) : Size(r, s) + k <= Ceilings.calls[s]}
        BY <1>1, <1>4, <2>3 DEF Room, Base
      <4>2. Left(x.row.step) \in 1 .. 4
        BY DEF Left
      <4>3. \A k \in Room(x, r, s) : k \in 1 .. c
        BY <2>1, <4>1, <4>2
      <4>4. QED
        BY <2>1, <2>3, <4>3
    <3>2. Reserved(r, s)' \subseteq others \cup mine
      <4>1. ASSUME NEW q \in Reserved(r, s)' PROVE q \in others \cup mine
        <5>1. q \in Procs \X (1 .. 4) /\ q[2] \in Room(proc'[q[1]], r, s)
          BY <4>1, ReservedNext
        <5>2. CASE q[1] = p
          BY <1>3, <3>1, <5>1, <5>2
        <5>3. CASE q[1] # p
          BY <5>1, <5>3
        <5>4. QED
          BY <5>2, <5>3
      <4>2. QED
        BY <4>1
    <3>3. /\ IsFiniteSet(others) /\ Cardinality(others) = 4 * Cardinality(Procs \ {p})
          /\ Cardinality(Procs \ {p}) = Cardinality(Procs) - 1
      BY Slots, Processes, FS_RemoveElement
    <3>4. IsFiniteSet(mine) /\ Cardinality(mine) = c
      <4>1. IsFiniteSet({p}) /\ Cardinality({p}) = 1
        BY FS_Singleton
      <4>2. IsFiniteSet(1 .. c) /\ Cardinality(1 .. c) = c
        <5> HIDE DEF c
        <5>1. QED
          BY <3>1, FS_Interval
      <4> HIDE DEF c
      <4>3. IsFiniteSet(mine) /\ Cardinality(mine) = Cardinality({p}) * Cardinality(1 .. c)
        BY <4>1, <4>2, FS_Product
      <4>4. QED
        BY <3>1, <4>1, <4>2, <4>3
    <3>5. /\ IsFiniteSet(others \cup mine)
          /\ Cardinality(others \cup mine) <= 4 * (Cardinality(Procs) - 1) + c
          /\ Cardinality(others \cup mine) \in Nat
      <4> HIDE DEF c, others, mine
      <4>1. /\ IsFiniteSet(others \cup mine)
            /\ Cardinality(others \cup mine)
                 = Cardinality(others) + Cardinality(mine) - Cardinality(others \cap mine)
        BY <3>3, <3>4, FS_Union
      <4>2. IsFiniteSet(others \cap mine) /\ Cardinality(others \cap mine) \in Nat
        BY <3>3, FS_Intersection, FS_CardinalityType
      <4>3. Cardinality(others \cup mine) \in Nat
        BY <4>1, FS_CardinalityType
      <4>4. QED
        BY <2>1, <3>1, <3>3, <3>4, <4>1, <4>2, <4>3
    <3>6. /\ Cardinality(Reserved(r, s)') <= Cardinality(others \cup mine)
          /\ Cardinality(Reserved(r, s)') \in Nat
      <4> HIDE DEF others, mine
      <4>1. QED
        BY <3>2, <3>5, FS_Subset, FS_CardinalityType
    <3> HIDE DEF others, mine
    <3>7. QED
      BY <2>1, <3>5, <3>6
  <2>4. QED
    BY <2>2, <2>3
<1>8. QED
  BY <1>6, <1>7 DEF BudgetInv

LEMMA BudgetWorks ==
    ASSUME TypeInv, BudgetInv, [Next]_vars, NEW p \in Procs,
           \/ StartResearch(p) \/ StartReview(p)
           \/ Mint(p) \/ Invoke(p) \/ InvokeEnd(p) \/ Collect(p)
    PROVE  BudgetInv'
<1>1. Recorded' = Recorded
  BY EndStep DEF StartResearch, StartReview, StartCommand, Mint, Invoke, Collect, Recorded
<1> DEFINE y == proc[p]
<1>2. OnBudget(y)
  BY DEF BudgetInv
<1> HIDE DEF y
<1>3. CASE StartResearch(p) \/ StartReview(p)
  <2>1. PICK x : Become(p, x) /\ x.pc = "precheck"
    BY <1>3, ResearchStart, ReviewStart DEF Starts
  <2>2. OnBudget(x) /\ \A r, s : Room(x, r, s) = {}
    BY <2>1 DEF OnBudget, Room
  <2>3. QED
    BY <1>1, <2>1, <2>2, BudgetMove
<1>4. CASE Mint(p)
  <2>1. PICK x : /\ Become(p, x) /\ x.pc = "check" /\ x.row = y.row /\ x.acc = y.acc
    BY <1>4, MintStep DEF y
  <2>2. y.pc = "mint"
    BY <1>4 DEF Mint, At, y
  <2>3. OnBudget(x)
    BY <1>2, <2>1, <2>2 DEF OnBudget
  <2>4. \A r, s : Room(x, r, s) = Room(y, r, s)
    BY <2>1, <2>2 DEF Room, Base, Idle
  <2>5. QED
    BY <1>1, <2>1, <2>3, <2>4, BudgetMove DEF y
<1>5. CASE Invoke(p)
  <2>1. PICK x : /\ Become(p, x) /\ x.pc = "invoking" /\ x.row = y.row /\ x.acc = y.acc
    BY <1>5, InvokeStep DEF y
  <2>2. y.pc = "check"
    BY <1>5 DEF Invoke, At, y
  <2>3. PreInvokeOk(y.acc.calls, y.row.prov)
    BY <1>5 DEF Invoke, y
  <2>4. ASSUME NEW s \in Scopes, x.row.prov \in Members[s]
        PROVE  1 \in Room(x, x.row.run, s)
    <3>1. x.acc.calls[s] + 1 <= Ceilings.calls[s]
      BY <2>1, <2>3, <2>4 DEF PreInvokeOk
    <3>2. 1 \in 1 .. Left(x.row.step)
      BY DEF Left
    <3>3. QED
      BY <2>1, <3>1, <3>2 DEF Room, Base, Idle
  <2>5. OnBudget(x)
    BY <1>2, <2>1, <2>2, <2>4 DEF OnBudget
  <2>6. \A r, s : Room(x, r, s) = Room(y, r, s)
    BY <2>1, <2>2 DEF Room, Base, Idle
  <2>7. QED
    BY <1>1, <2>1, <2>5, <2>6, BudgetMove DEF y
<1>6. ASSUME NEW x, Become(p, x), x.pc = "persist", x.row.status = "blocked",
             SameCall(x.row, y.row), y.pc \in {"invoking", "collect"}
      PROVE  BudgetInv'
  <2>1. \A r, s : Room(x, r, s) = {k \in {1} : x.row.run = r /\ x.row.prov \in Members[s]}
    BY <1>6 DEF Room, Idle
  <2>2. \A s \in Scopes : y.row.prov \in Members[s] => 1 \in Room(y, y.row.run, s)
    BY <1>2, <1>6 DEF OnBudget
  <2>3. OnBudget(x)
    BY <1>6, <2>1 DEF OnBudget
  <2>4. \A r \in RunIds, s \in Scopes : Room(x, r, s) \subseteq Room(y, r, s)
    BY <1>6, <2>1, <2>2 DEF SameCall
  <2>5. QED
    BY <1>1, <1>6, <2>3, <2>4, BudgetMove DEF y
<1>7. CASE InvokeEnd(p)
  <2>1. y.pc = "invoking"
    BY <1>7, EndStep DEF At, y
  <2>2. CASE \E x : Blocks(p, x)
    BY <1>6, <2>1, <2>2 DEF Blocks, y
  <2>3. CASE \E x, usage : Accepts(p, x, usage)
    <3>1. PICK x, usage : Accepts(p, x, usage)
      BY <2>3
    <3>2. Become(p, x) /\ x.pc = "collect" /\ SameCall(x.row, y.row)
      BY <3>1 DEF Accepts, y
    <3>3. \A s \in Scopes : y.acc.calls[s] \in Nat
      BY <1>2, <2>1 DEF OnBudget
    <3>4. \A s \in Scopes : x.acc.calls[s] = y.acc.calls[s] + One(y.row.prov, s)
      BY <3>1, <3>3, Counted DEF Accepts, Record, y
    <3>5. \A s \in Scopes : x.acc.calls[s] \in Nat /\ Base(x, s) = Base(y, s)
      BY <2>1, <3>2, <3>3, <3>4 DEF Base, One, SameCall
    <3>6. \A r : \A s \in Scopes : Room(x, r, s) = Room(y, r, s)
      BY <2>1, <3>2, <3>5 DEF Room, Idle, SameCall
    <3>7. OnBudget(x)
      BY <1>2, <2>1, <3>2, <3>5, <3>6 DEF OnBudget, SameCall
    <3>8. QED
      BY <1>1, <3>2, <3>6, <3>7, BudgetMove DEF y
  <2>4. QED
    BY <1>1, <1>7, <2>2, <2>3, EndStep, BudgetExit
<1>8. CASE Collect(p)
  <2>1. PICK x : Collects(p, x)
    BY <1>8, CollectStep
  <2>2. /\ Become(p, x) /\ x.pc = "persist" /\ x.acc = y.acc
        /\ SameCall(x.row, y.row) /\ x.row \in Row
    BY <2>1 DEF Collects, y
  <2>3. y.pc = "collect"
    BY <1>8 DEF Collect, At, y
  <2>4. CASE x.row.status = "completed"
    <3>1. \A s : Base(x, s) = Base(y, s)
      BY <2>2, <2>3 DEF Base, SameCall
    <3>2. \A r, s : Room(x, r, s) = Room(y, r, s)
      BY <2>2, <2>3, <2>4, <3>1 DEF Room, Idle, SameCall
    <3>3. OnBudget(x)
      BY <1>2, <2>2, <2>3, <3>2 DEF OnBudget, SameCall
    <3>4. QED
      BY <1>1, <2>2, <3>2, <3>3, BudgetMove DEF y
  <2>5. CASE x.row.status = "blocked"
    BY <1>6, <2>2, <2>3, <2>5
  <2>6. QED
    BY <2>2, <2>4, <2>5 DEF Row
<1>9. QED
  BY <1>3, <1>4, <1>5, <1>7, <1>8

(* The new row takes the place that the check before it left.               *)
LEMMA BudgetInserts ==
    ASSUME TypeInv, BudgetInv, [Next]_vars, NEW p \in Procs, Inserts(p)
    PROVE  BudgetInv'
<1> DEFINE y == proc[p]
<1>1. PICK exp, row :
        /\ exp = y.exp /\ row = y.row /\ row \in Row
        /\ exp \in ExpIds \ Recorded /\ Recorded' = Recorded \cup {exp}
        /\ rows'[exp] = row /\ At(p, "persist") /\ AfterRow(p)
  BY DEF Inserts
<1>2. OnBudget(y) /\ y.pc = "persist" /\ y.row = row
  BY <1>1 DEF BudgetInv, At
<1> HIDE DEF y
<1>3. ASSUME NEW r, NEW s
      PROVE  Size(r, s)' = IF r = row.run THEN Size(r, s) + One(row.prov, s)
                                          ELSE Size(r, s)
  <2>1. \A e \in Recorded : rows'[e].run = rows[e].run /\ rows'[e].prov = rows[e].prov
    BY RowsStay DEF Kept, SameCall
  <2>2. CASE r = row.run /\ row.prov \in Members[s]
    <3>1. InScope(r, s)' = InScope(r, s) \cup {exp} /\ exp \notin InScope(r, s)
      BY <1>1, <2>1, <2>2 DEF InScope, RowsOf
    <3>2. Cardinality(InScope(r, s) \cup {exp}) = Cardinality(InScope(r, s)) + 1
      BY <3>1, ScopeSize, FS_AddElement
    <3>3. QED
      BY <2>2, <3>1, <3>2 DEF Size, One
  <2>3. CASE ~(r = row.run /\ row.prov \in Members[s])
    <3>1. InScope(r, s)' = InScope(r, s)
      BY <1>1, <2>1, <2>3 DEF InScope, RowsOf
    <3>2. QED
      BY <2>3, <3>1, ScopeSize DEF Size, One
  <2>4. QED
    BY <2>2, <2>3
<1>4. PICK x :
        /\ Become(p, x) /\ OnBudget(x)
        /\ \A r \in RunIds, s \in Scopes :
             /\ Room(x, r, s) \subseteq Room(y, r, s)
             /\ r = row.run /\ row.prov \in Members[s]
                  => \E m \in Room(y, r, s) : m \notin Room(x, r, s)
  <2>1. \A s \in Scopes : row.prov \in Members[s] => 1 \in Room(y, row.run, s)
    BY <1>2 DEF OnBudget
  <2>2. ASSUME NEW x, Become(p, x), x.pc \in {Idle, "score"}
        PROVE  /\ OnBudget(x) /\ \A r, s : Room(x, r, s) = {}
    BY <2>2 DEF OnBudget, Room, Idle
  <2>3. CASE Exit(p)
    <3>1. IdleProc.pc = Idle
      BY DEF IdleProc
    <3>2. QED
      BY <2>1, <2>2, <2>3, <3>1 DEF Exit
  <2>4. CASE \E x : Scores(p, x)
    BY <2>1, <2>2, <2>4 DEF Scores
  <2>5. ASSUME row.status = "completed", NEW x, NEW step, NEW prov, NEW proposal,
               Continues(p, x, step, prov, proposal), Left(row.step) = Left(step) + 1
        PROVE  /\ Become(p, x) /\ OnBudget(x)
               /\ \A r \in RunIds, s \in Scopes :
                    /\ Room(x, r, s) \subseteq Room(y, r, s)
                    /\ r = row.run /\ row.prov \in Members[s]
                         => \E m \in Room(y, r, s) : m \notin Room(x, r, s)
    <3>1. /\ Become(p, x) /\ x.pc = "mint" /\ x.acc = y.acc
          /\ x.row.run = row.run /\ x.row.step = step
      BY <1>2, <2>5 DEF Continues, y
    <3>2. \A s \in Scopes : x.acc.calls[s] \in Nat
      BY <1>2, <2>5, <3>1 DEF OnBudget
    <3>3. OnBudget(x)
      BY <3>1, <3>2 DEF OnBudget
    <3>4. ASSUME NEW r, NEW s \in Scopes
          PROVE  /\ Room(x, r, s) \subseteq Room(y, r, s)
                 /\ r = row.run /\ row.prov \in Members[s]
                      => \E m \in Room(y, r, s) : m \notin Room(x, r, s)
      <4>1. CASE r # row.run
        BY <3>1, <4>1 DEF Room
      <4>2. CASE r = row.run
        <5>1. PICK a \in Nat, c \in Nat, n \in Nat, b \in 0 .. 1 :
                /\ a = x.acc.calls[s] /\ c = Ceilings.calls[s] /\ n = Left(step)
                /\ b = One(row.prov, s)
          <6>1. x.acc.calls[s] \in Nat /\ Ceilings.calls[s] \in Nat
            BY <3>2, CeilingType
          <6>2. Left(step) \in Nat
            BY DEF Left
          <6>3. One(row.prov, s) \in 0 .. 1
            BY DEF One
          <6>4. QED
            BY <6>1, <6>2, <6>3
        <5>2. Room(x, r, s) = {k \in 1 .. n : a + k <= c}
          BY <3>1, <4>2, <5>1 DEF Room, Base, Idle
        <5>3. Room(y, r, s) = {k \in 1 .. n + 1 : a - b + k <= c}
          BY <1>2, <2>5, <3>1, <4>2, <5>1 DEF Room, Base, Idle
        <5>4. Room(x, r, s) \subseteq Room(y, r, s)
          BY <5>2, <5>3
        <5>5. ASSUME row.prov \in Members[s]
              PROVE  \E m \in Room(y, r, s) : m \notin Room(x, r, s)
          <6>1. b = 1 /\ 1 \in Room(y, r, s)
            BY <2>1, <4>2, <5>1, <5>5 DEF One
          <6>2. a <= c
            BY <5>3, <6>1
          <6>3. PICK m \in 1 .. n + 1 : m = IF n + a <= c THEN n + 1 ELSE c - a + 1
            <7>1. n + 1 \in 1 .. n + 1
              OBVIOUS
            <7>2. ~(n + a <= c) => c - a + 1 \in 1 .. n + 1
              BY <6>2
            <7>3. QED
              BY <7>1, <7>2
          <6>4. m \in Room(y, r, s) /\ m \notin Room(x, r, s)
            BY <5>2, <5>3, <6>1, <6>2, <6>3
          <6>5. QED
            BY <6>4
        <5>6. QED
          BY <5>4, <5>5
      <4>3. QED
        BY <4>1, <4>2
    <3>5. QED
      BY <3>1, <3>3, <3>4
  <2>6. CASE /\ row.status = "completed"
             /\ \E x, step, prov, proposal :
                  /\ Continues(p, x, step, prov, proposal)
                  /\ Left(row.step) = Left(step) + 1
    BY <2>5, <2>6
  <2>7. /\ Left("question") = Left("digest") + 1 /\ Left("digest") = Left("fusion") + 1
        /\ Left("fusion") = Left("implementation") + 1
    BY DEF Left
  <2>8. \/ Exit(p) \/ \E x : Scores(p, x)
        \/ /\ row.status = "completed"
           /\ \E x, step, prov, proposal :
                  /\ Continues(p, x, step, prov, proposal)
                  /\ Left(row.step) = Left(step) + 1
    BY <1>1, <2>7, AfterRowStep DEF y
  <2>9. QED
    BY <2>3, <2>4, <2>6, <2>8
<1>5. proc'[p] = x /\ \A q \in Procs \ {p} : proc'[q] = proc[q]
  BY <1>4, BecomeEffect
<1>6. \A q \in Procs : OnBudget(proc[q])'
  BY <1>4, <1>5, OnBudgetNext DEF BudgetInv
<1>7. ASSUME NEW r \in RunIds, NEW s \in Scopes
      PROVE  Size(r, s)' + Cardinality(Reserved(r, s)')
                 <= Ceilings.calls[s] + 4 * (Cardinality(Procs) - 1)
  <2>1. /\ Size(r, s) \in Nat /\ Ceilings.calls[s] \in Nat /\ Cardinality(Procs) \in Nat
        /\ Size(r, s) + Cardinality(Reserved(r, s))
               <= Ceilings.calls[s] + 4 * (Cardinality(Procs) - 1)
    BY ScopeSize, CeilingType, Processes DEF BudgetInv
  <2>2. Reserved(r, s)' \subseteq Reserved(r, s)
    BY <1>4, ReservedShrinks DEF y
  <2>3. /\ IsFiniteSet(Reserved(r, s)) /\ Cardinality(Reserved(r, s)) \in Nat
        /\ Cardinality(Reserved(r, s)') \in Nat
    BY <2>2, ReservedIn, ReservedSize
  <2>4. CASE r = row.run /\ row.prov \in Members[s]
    <3>1. Size(r, s)' = Size(r, s) + 1
      BY <1>3, <2>4 DEF One
    <3>2. PICK m \in Room(y, r, s) : m \notin Room(x, r, s)
      BY <1>4, <2>4
    <3>3. <<p, m>> \in Reserved(r, s)
      <4>1. m \in 1 .. 4
        BY RoomType
      <4>2. QED
        BY <3>2, <4>1 DEF Reserved, y
    <3>4. <<p, m>> \notin Reserved(r, s)'
      BY <1>5, <3>2, ReservedNext
    <3>5. Reserved(r, s)' \in SUBSET (Reserved(r, s) \ {<<p, m>>})
      BY <2>2, <3>4
    <3>6. /\ IsFiniteSet(Reserved(r, s) \ {<<p, m>>})
          /\ Cardinality(Reserved(r, s) \ {<<p, m>>}) = Cardinality(Reserved(r, s)) - 1
      BY <2>3, <3>3, FS_RemoveElement
    <3>7. Cardinality(Reserved(r, s)') <= Cardinality(Reserved(r, s)) - 1
      BY <3>5, <3>6, FS_Subset
    <3>8. QED
      BY <2>1, <2>3, <3>1, <3>7
  <2>5. CASE ~(r = row.run /\ row.prov \in Members[s])
    <3>1. Size(r, s)' = Size(r, s)
      BY <1>3, <2>1, <2>5 DEF One
    <3>2. Cardinality(Reserved(r, s)') <= Cardinality(Reserved(r, s))
      BY <2>2, <2>3, FS_Subset
    <3>3. QED
      BY <2>1, <2>3, <3>1, <3>2
  <2>6. QED
    BY <2>4, <2>5
<1>8. QED
  BY <1>6, <1>7 DEF BudgetInv

LEMMA BudgetNext ==
    ASSUME TypeInv, BudgetInv, [Next]_vars
    PROVE  BudgetInv'
<1>1. CASE InitFixture \/ UNCHANGED vars
  <2>1. proc' = proc /\ Recorded' = Recorded
    BY <1>1 DEF InitFixture, vars, Recorded
  <2>2. \A r, s : Size(r, s)' = Size(r, s)
    BY <2>1, SizesStay
  <2>3. \A r, s : Reserved(r, s)' = Reserved(r, s)
    BY <2>1, ReservedNext DEF Reserved
  <2>4. \A p \in Procs : OnBudget(proc[p])'
    BY <2>1, OnBudgetNext DEF BudgetInv
  <2>5. QED
    BY <2>2, <2>3, <2>4 DEF BudgetInv
<1>2. ASSUME NEW p \in Procs, Refuse(p) \/ Crash(p) PROVE BudgetInv'
  BY <1>2, RefuseStep, BudgetExit DEF Refuse, Crash, Recorded
<1>3. ASSUME NEW p \in Procs, Score(p) PROVE BudgetInv'
  <2>1. Exit(p)
    BY <1>3, ScoreStep
  <2>2. Recorded' = Recorded
    BY <1>3, ScoreStep, RowIsThere DEF Recorded, Grows
  <2>3. QED
    BY <2>1, <2>2, BudgetExit
<1>4. ASSUME NEW p \in Procs, Persist(p) PROVE BudgetInv'
  <2>1. CASE Exit(p) /\ rows' = rows
    BY <2>1, BudgetExit DEF Recorded
  <2>2. CASE /\ rows[proc[p].exp] = NoRow /\ AfterRow(p)
             /\ rows'[proc[p].exp] = proc[p].row
             /\ \A e \in ExpIds \ {proc[p].exp} : rows'[e] = rows[e]
    <3>1. /\ At(p, "persist") /\ proc[p].exp \in ExpIds
          /\ proc[p].row \in Row /\ UNCHANGED <<files, invoked, commands>>
      BY <1>4, PersistStep
    <3>2. Recorded' = Recorded \cup {proc[p].exp} /\ proc[p].exp \notin Recorded
      BY <2>2, <3>1, RowIsThere DEF Recorded
    <3>3. Inserts(p)
      BY <2>2, <3>1, <3>2 DEF Inserts
    <3>4. QED
      BY <3>3, BudgetInserts
  <2>3. QED
    BY <1>4, <2>1, <2>2, PersistStep
<1>5. ASSUME NEW p \in Procs, Precheck(p) PROVE BudgetInv'
  <2>1. CASE Exit(p)
    <3>1. Recorded' = Recorded
      BY <1>5 DEF Precheck, Recorded
    <3>2. QED
      BY <2>1, <3>1, BudgetExit
  <2>2. CASE ~Exit(p)
    BY <1>5, <2>2, BudgetSeeds
  <2>3. QED
    BY <2>1, <2>2
<1>6. QED
  BY <1>1, <1>2, <1>3, <1>4, <1>5, BudgetWorks DEF Next, InvokeEnd

LEMMA BudgetInit == Init => BudgetInv
<1> SUFFICES ASSUME Init PROVE BudgetInv
  OBVIOUS
<1>1. \A r, s : InScope(r, s) = {}
  BY DEF Init, InScope, RowsOf, Recorded
<1>2. \A r, s : Size(r, s) = 0
  BY <1>1, FS_EmptySet DEF Size
<1>3. \A p \in Procs : proc[p].pc = Idle
  BY DEF Init, IdleProc
<1>4. \A r, s : Cardinality(Reserved(r, s)) = 0
  <2>1. \A r, s : Reserved(r, s) = {}
    BY <1>3 DEF Reserved, Room
  <2>2. QED
    BY <2>1, FS_EmptySet
<1>5. \A p \in Procs : OnBudget(proc[p])
  BY <1>3 DEF OnBudget, Idle
<1>6. \A s \in Scopes : 0 + 0 <= Ceilings.calls[s] + 4 * (Cardinality(Procs) - 1)
  BY CeilingType, Processes
<1>7. QED
  BY <1>2, <1>4, <1>5, <1>6 DEF BudgetInv

(* The rows of a run exceed a call ceiling by at most a chain for each      *)
(* further process, though up to four invocations share one seed and a      *)
(* review may go on with the run of old; with one command at a time they    *)
(* never do (BudgetGovernor as research_proxy and review in arena/cli.py    *)
(* use it).                                                                 *)
THEOREM RowsWithinBudget == Spec => []RowBudget
<1>1. TypeInv /\ BudgetInv /\ [Next]_vars => (TypeInv /\ BudgetInv)'
  BY TypeNext, BudgetNext
<1>2. BudgetInv => RowBudget
  <2> SUFFICES ASSUME BudgetInv, NEW r \in RunIds, NEW s \in Scopes
               PROVE  Cardinality({e \in RowsOf(r) : rows[e].prov \in Members[s]})
                          <= Ceilings.calls[s] + Len(Chain) * (Cardinality(Procs) - 1)
    BY DEF RowBudget
  <2>1. Len(Chain) = 4
    BY DEF Chain
  <2>2. /\ Size(r, s) + Cardinality(Reserved(r, s))
               <= Ceilings.calls[s] + 4 * (Cardinality(Procs) - 1)
        /\ Size(r, s) \in Nat /\ Ceilings.calls[s] \in Nat
    BY ScopeSize, CeilingType DEF BudgetInv
  <2>3. Cardinality(Reserved(r, s)) \in Nat
    BY ReservedIn, ReservedSize
  <2>4. Size(r, s) <= Ceilings.calls[s] + 4 * (Cardinality(Procs) - 1)
    BY <2>2, <2>3, Processes
  <2>5. QED
    BY <2>1, <2>4 DEF Size, InScope
<1>3. QED
  BY <1>1, <1>2, TypeInit, BudgetInit, PTL DEF Spec
=============================================================================
