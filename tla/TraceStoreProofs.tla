-------------------------- MODULE TraceStoreProofs ---------------------------
(***************************************************************************)
(* Proofs about TraceStore, for any number of commands, task files and     *)
(* events, with and without lines that are cut short; and, at the end,     *)
(* about the files of ProviderCli, for any number of invocations.          *)
(***************************************************************************)
EXTENDS TraceStore, ProviderCli, NumberLemmas, FiniteSetTheorems

-----------------------------------------------------------------------------
(* The files. *)

LEMMA WrittenType ==
    ASSUME NEW lines \in Seq(Line), NEW line \in Line
    PROVE  Written(lines, line) \in Seq(Line)
<1>1. CASE lines # <<>> /\ Last(lines).text \in {"unended", "torn"}
  <2> DEFINE n == Len(lines)
             t == IF line.text = "line" THEN "junk" ELSE "torn"
  <2>1. n \in DOMAIN lines /\ lines[n] \in Line
    BY <1>1
  <2>2. [lines[n] EXCEPT !.text = t] \in Line
    BY <2>1 DEF Line, Texts
  <2>3. [lines EXCEPT ![n] = [lines[n] EXCEPT !.text = t]] \in Seq(Line)
    BY <2>1, <2>2
  <2>4. Written(lines, line) = [lines EXCEPT ![n] = [lines[n] EXCEPT !.text = t]]
    BY <1>1, <2>1 DEF Written
  <2>5. QED
    BY <2>3, <2>4
<1>2. CASE ~(lines # <<>> /\ Last(lines).text \in {"unended", "torn"})
  BY <1>2 DEF Written
<1>3. QED
  BY <1>1, <1>2

(* Whatever a write does to a file, it shows no event but its own and those *)
(* that were shown before.                                                  *)
LEMMA WrittenShows ==
    ASSUME NEW lines \in Seq(Line), NEW line \in Line,
           NEW i \in DOMAIN Written(lines, line),
           Readable(Written(lines, line)[i])
    PROVE  \/ Written(lines, line)[i] = line
           \/ i \in DOMAIN lines /\ Written(lines, line)[i] = lines[i]
<1>1. CASE lines # <<>> /\ Last(lines).text \in {"unended", "torn"}
  <2> DEFINE n == Len(lines)
             t == IF line.text = "line" THEN "junk" ELSE "torn"
             swallowed == [lines[n] EXCEPT !.text = t]
  <2>1. n \in DOMAIN lines /\ lines[n] \in Line
    BY <1>1
  <2>2. Written(lines, line) = [lines EXCEPT ![n] = swallowed]
    BY <1>1, <2>1 DEF Written
  <2>3. ~Readable(swallowed)
    BY <2>1 DEF Line, Readable
  <2>4. QED
    BY <2>1, <2>2, <2>3
<1>2. CASE ~(lines # <<>> /\ Last(lines).text \in {"unended", "torn"})
  BY <1>2 DEF Written
<1>3. QED
  BY <1>1, <1>2

-----------------------------------------------------------------------------
(* Type correctness. *)

StoreOK(r) == r \in Store /\ (r.pc = "emit" => r.counter > 0)

LEMMA StoreTyped ==
    ASSUME TypeOK, NEW s \in Stores
    PROVE  StoreOK(store[s])
  BY DEF TypeOK, StoreOK

LEMMA StoreUpdate ==
    ASSUME NEW r \in Store, NEW n \in Nat, NEW l \in Logs,
           NEW pc \in {"ready", "emit"}
    PROVE  [r EXCEPT !.pc = pc, !.counter = n, !.log = l] \in Store
  BY DEF Store

LEMMA TakeIdStore ==
    ASSUME TypeOK, NEW s \in Stores, NEW l \in Logs, TakeId(s, l)
    PROVE  store' = [store EXCEPT ![s] =
                       [store[s] EXCEPT !.pc = "emit",
                                        !.counter = store[s].counter + 1,
                                        !.log = l]]
  BY StoreTyped DEF TakeId, StoreOK, Store, TypeOK

LEMMA NewLine ==
    ASSUME TypeOK, NEW s \in Stores, NEW text \in Texts
    PROVE  [id |-> store[s].counter, by |-> s, at |-> clock + 1,
            since |-> store[s].since, text |-> text] \in Line
  BY StoreTyped DEF StoreOK, Store, Line, TypeOK

LEMMA WriteType ==
    ASSUME TypeOK, NEW s \in Stores, NEW text \in Texts, Write(s, text),
           clock < MaxEvents
    PROVE  /\ files' \in [Logs -> Seq(Line)]
           /\ clock' \in 0 .. MaxEvents /\ clock' = clock + 1
<1> DEFINE line == [id |-> store[s].counter, by |-> s, at |-> clock + 1,
                    since |-> store[s].since, text |-> text]
<1>1. line \in Line
  BY NewLine
<1> HIDE DEF line
<1>2. files' = [files EXCEPT ![store[s].log] = Written(files[store[s].log], line)]
  BY DEF Write, line
<1>3. \A l \in Logs : files[l] \in Seq(Line)
  BY DEF TypeOK
<1>4. store[s].log \in Logs
  BY StoreTyped DEF StoreOK, Store
<1>5. files' \in [Logs -> Seq(Line)]
  BY <1>1, <1>2, <1>3, <1>4, WrittenType DEF TypeOK
<1>6. QED
  BY <1>5, TraceStoreAssumption DEF Write, TypeOK, TraceStoreAssumption

(* A step of command s that leaves it with a well-typed store.              *)
LEMMA StoreStep ==
    ASSUME TypeOK, NEW s \in Stores, NEW r,
           store' = [store EXCEPT ![s] = r],
           clock' \in Nat, clock' >= clock,
           StoreOK(r)
    PROVE  /\ store' \in [Stores -> Store']
           /\ \A q \in Stores : store'[q].pc = "emit" => store'[q].counter > 0
<1>1. clock \in Nat
  BY DEF TypeOK
<1>2. Store \subseteq Store'
  BY <1>1 DEF Store
<1>3. \A q \in Stores : store'[q] = IF q = s THEN r ELSE store[q]
  BY DEF TypeOK
<1>4. \A q \in Stores : StoreOK(store'[q])
  BY <1>3, StoreTyped
<1>5. store' \in [Stores -> Store']
  BY <1>2, <1>4 DEF StoreOK, TypeOK
<1>6. QED
  BY <1>4, <1>5 DEF StoreOK

LEMMA ClosedOK == ASSUME TypeOK PROVE StoreOK(Closed)
  BY TraceStoreAssumption DEF Closed, StoreOK, Store, TypeOK, Logs, RunLog, TraceStoreAssumption

LEMMA TypeInit == Init => TypeOK
<1> SUFFICES ASSUME Init PROVE TypeOK
  OBVIOUS
<1>1. 0 \in Logs /\ 0 \in 0 .. MaxEvents
  BY TraceStoreAssumption DEF TraceStoreAssumption, Logs, RunLog
<1>2. clock \in 0 .. MaxEvents /\ returned \subseteq 1 .. clock
  BY <1>1 DEF Init
<1>3. files \in [Logs -> Seq(Line)]
  <2>1. <<>> \in Seq(Line)
    OBVIOUS
  <2>2. QED
    BY <2>1 DEF Init
<1>4. Closed \in Store /\ Closed.pc = "closed"
  BY <1>1 DEF Init, Closed, Store, RunLog
<1>5. store \in [Stores -> Store] /\ \A s \in Stores : store[s] = Closed
  BY <1>4 DEF Init
<1>6. QED
  BY <1>2, <1>3, <1>4, <1>5 DEF TypeOK

LEMMA TypeNext == TypeOK /\ [Next]_vars => TypeOK'
<1> SUFFICES ASSUME TypeOK, [Next]_vars PROVE TypeOK'
  OBVIOUS
<1>1. clock \in Nat /\ clock \in 0 .. MaxEvents
  BY DEF TypeOK
<1>2. ASSUME NEW s \in Stores, NEW r, store' = [store EXCEPT ![s] = r],
             StoreOK(r), UNCHANGED <<files, clock, returned>>
      PROVE  TypeOK'
  <2>1. clock' \in Nat /\ clock' >= clock
    BY <1>1, <1>2
  <2>2. /\ store' \in [Stores -> Store']
        /\ \A q \in Stores : store'[q].pc = "emit" => store'[q].counter > 0
    BY <1>2, <2>1, StoreStep
  <2>3. QED
    BY <1>2, <2>2 DEF TypeOK
<1>3. ASSUME NEW s \in Stores, NEW r, store' = [store EXCEPT ![s] = r],
             StoreOK(r), NEW text \in Texts, Write(s, text), clock < MaxEvents,
             returned' \subseteq 1 .. clock + 1
      PROVE  TypeOK'
  <2>1. /\ files' \in [Logs -> Seq(Line)] /\ clock' \in 0 .. MaxEvents
        /\ clock' = clock + 1
    BY <1>3, WriteType
  <2>2. /\ store' \in [Stores -> Store']
        /\ \A q \in Stores : store'[q].pc = "emit" => store'[q].counter > 0
    <3>1. clock' \in Nat /\ clock' >= clock
      BY <1>1, <2>1
    <3>2. QED
      BY <1>3, <3>1, StoreStep
  <2>3. QED
    BY <1>3, <2>1, <2>2 DEF TypeOK
<1>4. ASSUME NEW s \in Stores, Open(s) PROVE TypeOK'
  <2> DEFINE r == [pc |-> "scan", counter |-> 0, since |-> clock, todo |-> Logs,
                   log |-> RunLog]
  <2>1. StoreOK(r)
    <3>1. RunLog \in Logs
      BY TraceStoreAssumption DEF Logs, RunLog, TraceStoreAssumption
    <3>2. r \in Store
      BY <1>1, <3>1 DEF Store
    <3>3. QED
      BY <3>2 DEF StoreOK
  <2>2. QED
    BY <1>2, <1>4, <2>1 DEF Open
<1>5. ASSUME NEW s \in Stores, NEW l \in Logs, Scan(s, l) PROVE TypeOK'
  <2>1. PICK n \in {store[s].counter} \cup Ids(l) : Scanned(s, l, n)
    BY <1>5 DEF Scan, Highest
  <2>2. n \in Nat
    <3>1. \A line \in ReadableIn(l) : line \in Line
      BY DEF ReadableIn, TypeOK
    <3>2. QED
      BY <2>1, <3>1, StoreTyped DEF Ids, Line, StoreOK, Store
  <2> DEFINE left == store[s].todo \ {l}
             r == [store[s] EXCEPT !.counter = n, !.todo = left,
                     !.pc = IF left = {} THEN "ready" ELSE "scan"]
  <2>3. StoreOK(r)
    BY <2>2, StoreTyped DEF StoreOK, Store
  <2>4. store' = [store EXCEPT ![s] = r]
    BY <1>5, <2>1, StoreTyped DEF Scan, Scanned, StoreOK, Store, TypeOK
  <2> HIDE DEF r
  <2>5. QED
    BY <1>2, <1>5, <2>3, <2>4 DEF Scan
<1>6. ASSUME NEW s \in Stores, NEW l \in Logs, TakeId(s, l) PROVE TypeOK'
  <2> DEFINE r == [store[s] EXCEPT !.pc = "emit", !.counter = store[s].counter + 1,
                                   !.log = l]
  <2>1. StoreOK(r)
    <3>1. store[s] \in Store /\ store[s].counter \in Nat
      BY StoreTyped DEF StoreOK, Store
    <3>2. store[s].counter + 1 \in Nat
      BY <3>1
    <3>3. r \in Store
      BY <3>1, <3>2, StoreUpdate
    <3>4. r.counter = store[s].counter + 1
      BY <3>1 DEF Store
    <3>5. QED
      BY <3>1, <3>3, <3>4 DEF StoreOK
  <2>2. store' = [store EXCEPT ![s] = r]
    BY <1>6, TakeIdStore
  <2> HIDE DEF r
  <2>3. QED
    BY <1>2, <1>6, <2>1, <2>2 DEF TakeId
<1>7. ASSUME NEW s \in Stores, NEW n \in Nat, Return(s, n)
      PROVE  \E r : store' = [store EXCEPT ![s] = r] /\ StoreOK(r)
  <2> DEFINE r == [store[s] EXCEPT !.pc = "ready", !.counter = n, !.log = RunLog]
  <2>1. StoreOK(r)
    <3>1. store[s] \in Store
      BY StoreTyped DEF StoreOK
    <3>2. RunLog \in Logs
      BY TraceStoreAssumption DEF Logs, RunLog, TraceStoreAssumption
    <3>3. r \in Store /\ r.pc = "ready"
      BY <3>1, <3>2, StoreUpdate DEF Store
    <3>4. QED
      BY <3>3 DEF StoreOK
  <2>2. store' = [store EXCEPT ![s] = r]
    BY <1>7, StoreTyped DEF Return, StoreOK, Store, TypeOK
  <2>3. QED
    BY <2>1, <2>2
<1>8. ASSUME NEW s \in Stores, Reject(s) PROVE TypeOK'
  <2>1. store[s].counter - 1 \in Nat
    BY <1>8, StoreTyped DEF Reject, StoreOK, Store
  <2>2. QED
    BY <1>2, <1>7, <1>8, <2>1 DEF Reject
<1>9. ASSUME NEW s \in Stores, Emit(s) PROVE TypeOK'
  <2>1. store[s].counter \in Nat
    BY StoreTyped DEF StoreOK, Store
  <2>2. returned' \subseteq 1 .. clock + 1
    BY <1>1, <1>9 DEF Emit, Write, TypeOK
  <2>3. QED
    BY <1>3, <1>7, <1>9, <2>1, <2>2 DEF Emit, Texts
<1>10. ASSUME NEW s \in Stores, Close(s) PROVE TypeOK'
  BY <1>2, <1>10, ClosedOK DEF Close
<1>11. ASSUME NEW s \in Stores, DieWriting(s) PROVE TypeOK'
  <2>1. PICK text \in {"unended", "torn"} : Write(s, text)
    BY <1>11 DEF DieWriting
  <2>2. returned' \subseteq 1 .. clock + 1
    BY <1>1, <1>11 DEF DieWriting, TypeOK
  <2>3. QED
    BY <1>3, <1>11, <2>1, <2>2, ClosedOK DEF DieWriting, Texts
<1>12. CASE UNCHANGED vars
  BY <1>12 DEF vars, TypeOK, Store
<1>13. QED
  BY <1>4, <1>5, <1>6, <1>8, <1>9, <1>10, <1>11, <1>12 DEF Next

(* The counters of the stores and the ids in the files are numbers, and no  *)
(* event is from the future (arena/observability/trace_store.py).           *)
THEOREM TypeCorrect == Spec => []TypeOK
  BY TypeInit, TypeNext, PTL DEF Spec

-----------------------------------------------------------------------------
(* The order of replay. *)

Shown == UNION {ReadableIn(l) : l \in Logs}

(* The events the store of s has to count beyond: of its own, or in the     *)
(* trace when it was opened.                                                *)
Past(s) == {e \in Shown : e.by = s \/ e.at <= store[s].since}

(* The id the store of s would give back to, were its event rejected.       *)
Base(r) == IF r.pc = "emit" THEN r.counter - 1 ELSE r.counter

(* No event is from the future, and none knows of the future.               *)
Dated == \A e \in Shown : e.at \in 1 .. clock /\ e.since \in 0 .. clock

(* Between commands a name may be used again: the events of the one before  *)
(* are then among those found at the start.                                 *)
Renewed == \A s \in Stores : store[s].pc = "scan" =>
              \A e \in Shown : e.by = s => e.at <= store[s].since

(* What a store has scanned is not ahead of it.                             *)
Ahead(s) == \A l \in Logs \ store[s].todo : \A e \in ReadableIn(l) :
                e \in Past(s) => e.id <= Base(store[s])

AllAhead == \A s \in Stores : store[s].pc # "closed" => Ahead(s)

Complete == \A s \in Stores : store[s].pc \in {"ready", "emit"} => store[s].todo = {}

Ordered == \A e, f \in Shown : HappenedBefore(e, f) => e.id < f.id

OrderInv == TypeOK /\ Dated /\ Renewed /\ Complete /\ AllAhead /\ Ordered

LEMMA ShownTyped ==
    ASSUME TypeOK
    PROVE  Shown \subseteq Line /\ \A l \in Logs : ReadableIn(l) \subseteq Line
  BY DEF TypeOK, Shown, ReadableIn

LEMMA OrderInit == Init => OrderInv
<1> SUFFICES ASSUME Init PROVE OrderInv
  OBVIOUS
<1>1. TypeOK
  BY TypeInit
<1>2. Shown = {}
  BY DEF Init, Shown, ReadableIn
<1>3. \A s \in Stores : store[s].pc = "closed"
  BY DEF Init, Closed
<1>4. QED
  BY <1>1, <1>2, <1>3 DEF OrderInv, Dated, Renewed, Complete, AllAhead, Ordered

(* A step that writes no event: only the store of s has to be looked at.    *)
LEMMA LocalStep ==
    ASSUME OrderInv, TypeOK', NEW s \in Stores, NEW r,
           store' = [store EXCEPT ![s] = r], UNCHANGED <<files, clock>>,
           r.pc = "scan" => \A e \in Shown : e.by = s => e.at <= r.since,
           r.pc \in {"ready", "emit"} => r.todo = {},
           r.pc # "closed" =>
             \A l \in Logs \ r.todo : \A e \in ReadableIn(l) :
               (e.by = s \/ e.at <= r.since) => e.id <= Base(r)
    PROVE  OrderInv'
<1>1. Shown' = Shown /\ \A l \in Logs : ReadableIn(l)' = ReadableIn(l)
  BY DEF Shown, ReadableIn, Readable
<1>2. \A q \in Stores : store'[q] = IF q = s THEN r ELSE store[q]
  BY DEF OrderInv, TypeOK
<1>3. Dated'
  BY <1>1 DEF OrderInv, Dated
<1>4. Renewed'
  BY <1>1, <1>2 DEF OrderInv, Renewed
<1>5. Complete'
  BY <1>2 DEF OrderInv, Complete
<1>6. AllAhead'
  <2> SUFFICES ASSUME NEW q \in Stores, store'[q].pc # "closed",
                      NEW l \in Logs \ store'[q].todo,
                      NEW e \in ReadableIn(l)', e \in Past(q)'
               PROVE  e.id <= Base(store'[q])
    BY DEF AllAhead, Ahead
  <2>1. e \in ReadableIn(l) /\ (e.by = q \/ e.at <= store'[q].since)
    BY <1>1 DEF Past
  <2>2. e \in Shown
    BY <2>1 DEF Shown
  <2>3. CASE q = s
    BY <1>2, <2>1, <2>3
  <2>4. CASE q # s
    BY <1>2, <2>1, <2>2, <2>4 DEF OrderInv, AllAhead, Ahead, Past
  <2>5. QED
    BY <2>3, <2>4
<1>7. Ordered'
  BY <1>1 DEF OrderInv, Ordered, HappenedBefore
<1>8. QED
  BY <1>3, <1>4, <1>5, <1>6, <1>7 DEF OrderInv

(* A write: the new event is later than all of the past of its store, and   *)
(* in the past of no other store that is open.                              *)
LEMMA WriteStep ==
    ASSUME OrderInv, TypeOK', NEW s \in Stores, NEW text \in Texts, NEW r,
           store[s].pc = "emit", clock < MaxEvents, Write(s, text),
           store' = [store EXCEPT ![s] = r],
           \/ r.pc = "closed"
           \/ /\ r.pc = "ready" /\ r.counter = store[s].counter
              /\ r.todo = store[s].todo /\ r.since = store[s].since
    PROVE  OrderInv'
<1> DEFINE line == [id |-> store[s].counter, by |-> s, at |-> clock + 1,
                    since |-> store[s].since, text |-> text]
<1>1. /\ line \in Line /\ line.id = store[s].counter /\ line.by = s
      /\ line.at = clock + 1 /\ line.since = store[s].since
  BY NewLine DEF OrderInv
<1>2. files' = [files EXCEPT ![store[s].log] = Written(files[store[s].log], line)]
  BY DEF Write
<1> HIDE DEF line
<1>3. /\ clock \in Nat /\ clock' = clock + 1
      /\ \A q \in Stores : store[q] \in Store
      /\ \A q \in Stores : store'[q] = IF q = s THEN r ELSE store[q]
  BY DEF OrderInv, TypeOK, Write
<1>4. \A l \in Logs : \A e \in ReadableIn(l)' : e = line \/ e \in ReadableIn(l)
  <2> SUFFICES ASSUME NEW l \in Logs, NEW i \in DOMAIN files'[l],
                      Readable(files'[l][i])
               PROVE  files'[l][i] = line \/ files'[l][i] \in ReadableIn(l)
    BY DEF ReadableIn, Readable
  <2>1. files[l] \in Seq(Line) /\ files \in [Logs -> Seq(Line)]
    BY DEF OrderInv, TypeOK
  <2>2. CASE l = store[s].log
    <3>1. files'[l] = Written(files[l], line)
      BY <1>2, <2>1, <2>2
    <3>2. QED
      BY <1>1, <2>1, <3>1, WrittenShows DEF ReadableIn
  <2>3. CASE l # store[s].log
    <3>1. files'[l] = files[l]
      BY <1>2, <2>1, <2>3
    <3>2. QED
      BY <3>1 DEF ReadableIn
  <2>4. QED
    BY <2>2, <2>3
<1>5. \A e \in Shown' : e = line \/ e \in Shown
  BY <1>4 DEF Shown
<1>6. Shown \subseteq Line
  BY ShownTyped DEF OrderInv
<1>7. Dated'
  <2>1. line.at \in 1 .. clock + 1 /\ line.since \in 0 .. clock + 1
    BY <1>1, <1>3 DEF Store
  <2>2. \A e \in Shown : e.at \in 1 .. clock + 1 /\ e.since \in 0 .. clock + 1
    BY <1>3 DEF OrderInv, Dated
  <2>3. QED
    BY <1>3, <1>5, <2>1, <2>2 DEF Dated
<1>8. Renewed'
  <2> SUFFICES ASSUME NEW q \in Stores, store'[q].pc = "scan",
                      NEW e \in Shown', e.by = q
               PROVE  e.at <= store'[q].since
    BY DEF Renewed
  <2>1. q # s /\ store'[q] = store[q]
    BY <1>3
  <2>2. e \in Shown
    BY <1>1, <1>5, <2>1
  <2>3. QED
    BY <2>1, <2>2 DEF OrderInv, Renewed
<1>9. Complete'
  BY <1>3 DEF OrderInv, Complete
<1>10. AllAhead'
  <2> SUFFICES ASSUME NEW q \in Stores, store'[q].pc # "closed",
                      NEW l \in Logs \ store'[q].todo,
                      NEW e \in ReadableIn(l)',
                      e.by = q \/ e.at <= store'[q].since
               PROVE  e.id <= Base(store'[q])
    BY DEF AllAhead, Ahead, Past
  <2>1. e = line \/ e \in ReadableIn(l)
    BY <1>4
  <2>2. ReadableIn(l) \subseteq Shown
    BY DEF Shown
  <2>3. CASE q # s
    <3>1. store'[q] = store[q] /\ store[q].since <= clock
      BY <1>3, <2>3 DEF Store
    <3>2. e # line
      BY <1>1, <1>3, <2>3, <3>1 DEF Store
    <3>3. QED
      BY <2>1, <2>2, <3>1, <3>2 DEF OrderInv, AllAhead, Ahead, Past
  <2>4. CASE q = s
    <3>1. /\ r.pc = "ready" /\ r.counter = store[s].counter
          /\ r.todo = store[s].todo /\ r.since = store[s].since
          /\ store'[q] = r
      BY <1>3, <2>4
    <3>2. Base(r) = store[s].counter /\ store[s].counter \in Nat
      BY <1>3, <3>1 DEF Base, Store
    <3>3. CASE e = line
      BY <1>1, <3>1, <3>2, <3>3
    <3>4. CASE e \in ReadableIn(l)
      <4>1. e \in Past(s) /\ l \in Logs \ store[s].todo
        BY <2>2, <2>4, <3>1, <3>4 DEF Past
      <4>2. e.id <= store[s].counter - 1
        BY <3>4, <4>1 DEF OrderInv, AllAhead, Ahead, Base
      <4>3. e.id \in Nat
        BY <1>6, <2>2, <3>4 DEF Line
      <4>4. QED
        BY <3>1, <3>2, <4>2, <4>3
    <3>5. QED
      BY <2>1, <3>3, <3>4
  <2>5. QED
    BY <2>3, <2>4
<1>11. \A e \in Shown : HappenedBefore(e, line) => e.id < line.id
  <2> SUFFICES ASSUME NEW e \in Shown, HappenedBefore(e, line)
               PROVE  e.id < line.id
    OBVIOUS
  <2>1. e \in Past(s)
    BY <1>1 DEF HappenedBefore, Past
  <2>2. PICK l \in Logs : e \in ReadableIn(l)
    BY DEF Shown
  <2>3. store[s].todo = {}
    BY DEF OrderInv, Complete
  <2>4. e.id <= store[s].counter - 1
    BY <2>1, <2>2, <2>3 DEF OrderInv, AllAhead, Ahead, Base
  <2>5. e.id \in Nat /\ store[s].counter \in Nat
    BY <1>3, <1>6 DEF Line, Store
  <2>6. QED
    BY <1>1, <2>4, <2>5
<1>12. \A e \in Shown' : ~HappenedBefore(line, e)
  <2> SUFFICES ASSUME NEW e \in Shown' PROVE ~HappenedBefore(line, e)
    OBVIOUS
  <2>1. e.at <= clock + 1 /\ e.since <= clock /\ e.at \in Nat /\ e.since \in Nat
    <3>1. CASE e = line
      BY <1>1, <1>3, <3>1 DEF Store
    <3>2. CASE e \in Shown
      BY <1>3, <3>2 DEF OrderInv, Dated
    <3>3. QED
      BY <1>5, <3>1, <3>2
  <2>2. QED
    BY <1>1, <1>3, <2>1 DEF HappenedBefore
<1>13. Ordered'
  <2> SUFFICES ASSUME NEW e \in Shown', NEW f \in Shown', HappenedBefore(e, f)
               PROVE  e.id < f.id
    BY DEF Ordered, HappenedBefore
  <2>1. e # line /\ e \in Shown
    BY <1>5, <1>12
  <2>2. QED
    BY <1>5, <1>11, <2>1 DEF OrderInv, Ordered
<1>14. QED
  BY <1>7, <1>8, <1>9, <1>10, <1>13 DEF OrderInv

LEMMA OrderNext == OrderInv /\ [Next]_vars => OrderInv'
<1> SUFFICES ASSUME OrderInv, [Next]_vars PROVE OrderInv'
  OBVIOUS
<1>1. TypeOK /\ TypeOK'
  BY TypeNext DEF OrderInv
<1>2. \A s \in Stores : store[s] \in Store
  BY <1>1 DEF TypeOK
<1>3. ASSUME NEW s \in Stores, Open(s) PROVE OrderInv'
  <2> DEFINE r == [pc |-> "scan", counter |-> 0, since |-> clock, todo |-> Logs,
                   log |-> RunLog]
  <2>1. \A e \in Shown : e.at <= clock
    BY <1>1 DEF OrderInv, Dated, TypeOK
  <2>2. store' = [store EXCEPT ![s] = r] /\ UNCHANGED <<files, clock>>
    BY <1>3 DEF Open
  <2>3. r.pc = "scan" /\ r.todo = Logs /\ r.since = clock
    OBVIOUS
  <2> HIDE DEF r
  <2>4. QED
    BY <1>1, <2>1, <2>2, <2>3, LocalStep
<1>4. ASSUME NEW s \in Stores, NEW l \in Logs, Scan(s, l) PROVE OrderInv'
  <2>1. PICK n \in Highest({store[s].counter} \cup Ids(l)) : Scanned(s, l, n)
    BY <1>4 DEF Scan
  <2>2. n >= store[s].counter /\ \A e \in ReadableIn(l) : e.id <= n
    BY <2>1 DEF Highest, Ids
  <2> DEFINE left == store[s].todo \ {l}
             r == [store[s] EXCEPT !.counter = n, !.todo = left,
                     !.pc = IF left = {} THEN "ready" ELSE "scan"]
  <2>3. store' = [store EXCEPT ![s] = r]
    BY <1>1, <1>2, <1>4, <2>1 DEF Scan, Scanned, Store, TypeOK
  <2>4. /\ r.counter = n /\ r.todo = left /\ r.since = store[s].since
        /\ r.pc \in {"scan", "ready"} /\ (r.pc = "ready" => left = {})
        /\ Base(r) = n
    BY <1>2 DEF Store, Base
  <2>5. store[s].pc = "scan" /\ UNCHANGED <<files, clock>>
    BY <1>4 DEF Scan
  <2> HIDE DEF r
  <2>6. \A k \in Logs \ r.todo : \A e \in ReadableIn(k) :
          (e.by = s \/ e.at <= r.since) => e.id <= Base(r)
    <3> SUFFICES ASSUME NEW k \in Logs \ r.todo, NEW e \in ReadableIn(k),
                        e.by = s \/ e.at <= r.since
                 PROVE  e.id <= n
      BY <2>4
    <3>1. CASE k = l
      BY <2>2, <3>1
    <3>2. CASE k # l
      <4>1. k \in Logs \ store[s].todo /\ e \in Past(s)
        BY <2>4, <3>2 DEF Past, Shown
      <4>2. e.id <= store[s].counter
        BY <2>5, <4>1 DEF OrderInv, AllAhead, Ahead, Base
      <4>3. e.id \in Nat /\ store[s].counter \in Nat /\ n \in Nat
        BY <1>1, <1>2, <2>1, ShownTyped DEF Line, Store, Highest, Ids
      <4>4. QED
        BY <2>2, <4>2, <4>3
    <3>3. QED
      BY <3>1, <3>2
  <2>7. \A e \in Shown : e.by = s => e.at <= r.since
    BY <2>4, <2>5 DEF OrderInv, Renewed
  <2>8. QED
    BY <1>1, <2>3, <2>4, <2>5, <2>6, <2>7, LocalStep
<1>5. ASSUME NEW s \in Stores, NEW r, store' = [store EXCEPT ![s] = r],
             UNCHANGED <<files, clock>>, store[s].pc \in {"ready", "emit"},
             r.pc \in {"ready", "emit"}, r.todo = store[s].todo,
             r.since = store[s].since, Base(r) = Base(store[s])
      PROVE  OrderInv'
  <2>1. r.todo = {}
    BY <1>5 DEF OrderInv, Complete
  <2>2. \A k \in Logs \ r.todo : \A e \in ReadableIn(k) :
          (e.by = s \/ e.at <= r.since) => e.id <= Base(r)
    BY <1>5 DEF OrderInv, AllAhead, Ahead, Past, Shown
  <2>3. QED
    BY <1>1, <1>5, <2>1, <2>2, LocalStep
<1>6. ASSUME NEW s \in Stores, NEW l \in Logs, TakeId(s, l) PROVE OrderInv'
  <2> DEFINE r == [store[s] EXCEPT !.pc = "emit", !.counter = store[s].counter + 1,
                                   !.log = l]
  <2>1. store' = [store EXCEPT ![s] = r]
    BY <1>1, <1>6, TakeIdStore
  <2>2. /\ r.pc = "emit" /\ r.todo = store[s].todo /\ r.since = store[s].since
        /\ r.counter = store[s].counter + 1
    BY <1>2 DEF Store
  <2> HIDE DEF r
  <2>3. store[s].counter \in Nat /\ store[s].pc = "ready"
    BY <1>2, <1>6 DEF TakeId, Store
  <2>4. Base(r) = Base(store[s])
    BY <2>2, <2>3 DEF Base
  <2>5. QED
    BY <1>5, <1>6, <2>1, <2>2, <2>3, <2>4 DEF TakeId
<1>7. ASSUME NEW s \in Stores, NEW n \in Nat, Return(s, n)
      PROVE  \E r : /\ store' = [store EXCEPT ![s] = r]
                    /\ r.pc = "ready" /\ r.counter = n
                    /\ r.todo = store[s].todo /\ r.since = store[s].since
  <2> DEFINE r == [store[s] EXCEPT !.pc = "ready", !.counter = n, !.log = RunLog]
  <2>1. store' = [store EXCEPT ![s] = r]
    BY <1>1, <1>2, <1>7 DEF Return, Store, TypeOK
  <2>2. /\ r.pc = "ready" /\ r.counter = n
        /\ r.todo = store[s].todo /\ r.since = store[s].since
    BY <1>2 DEF Store
  <2>3. QED
    BY <2>1, <2>2
<1>8. ASSUME NEW s \in Stores, Reject(s) PROVE OrderInv'
  <2>1. store[s].counter - 1 \in Nat /\ store[s].pc = "emit"
    BY <1>1, <1>8, StoreTyped DEF Reject, StoreOK, Store
  <2>2. PICK r : /\ store' = [store EXCEPT ![s] = r]
                 /\ r.pc = "ready" /\ r.counter = store[s].counter - 1
                 /\ r.todo = store[s].todo /\ r.since = store[s].since
    BY <1>7, <1>8, <2>1 DEF Reject
  <2>3. Base(r) = Base(store[s])
    BY <2>1, <2>2 DEF Base
  <2>4. QED
    BY <1>5, <1>8, <2>1, <2>2, <2>3 DEF Reject
<1>9. ASSUME NEW s \in Stores, Emit(s) PROVE OrderInv'
  <2>1. PICK r : /\ store' = [store EXCEPT ![s] = r]
                 /\ r.pc = "ready" /\ r.counter = store[s].counter
                 /\ r.todo = store[s].todo /\ r.since = store[s].since
    BY <1>2, <1>7, <1>9 DEF Emit, Store
  <2>2. "line" \in Texts
    BY DEF Texts
  <2>3. store[s].pc = "emit" /\ clock < MaxEvents /\ Write(s, "line")
    BY <1>9 DEF Emit
  <2>4. QED
    BY <1>1, <2>1, <2>2, <2>3, WriteStep
<1>10. ASSUME NEW s \in Stores, Close(s) PROVE OrderInv'
  <2>1. Closed.pc = "closed"
    BY DEF Closed
  <2>2. QED
    BY <1>1, <1>10, <2>1, LocalStep DEF Close
<1>11. ASSUME NEW s \in Stores, DieWriting(s) PROVE OrderInv'
  <2>1. PICK text \in {"unended", "torn"} : Write(s, text)
    BY <1>11 DEF DieWriting
  <2>2. text \in Texts /\ Closed.pc = "closed"
    BY DEF Texts, Closed
  <2>3. /\ store[s].pc = "emit" /\ clock < MaxEvents
        /\ store' = [store EXCEPT ![s] = Closed]
    BY <1>11 DEF DieWriting
  <2>4. QED
    BY <1>1, <2>1, <2>2, <2>3, WriteStep
<1>12. CASE UNCHANGED vars
  <2>1. Shown' = Shown /\ \A l \in Logs : ReadableIn(l)' = ReadableIn(l)
    BY <1>12 DEF vars, Shown, ReadableIn, Readable
  <2>2. store' = store /\ clock' = clock
    BY <1>12 DEF vars
  <2>3. Dated' /\ Renewed' /\ Complete' /\ Ordered'
    BY <2>1, <2>2 DEF OrderInv, Dated, Renewed, Complete, Ordered, HappenedBefore
  <2>4. AllAhead'
    BY <2>1, <2>2 DEF OrderInv, AllAhead, Ahead, Past
  <2>5. QED
    BY <1>1, <2>3, <2>4 DEF OrderInv
<1>13. QED
  BY <1>3, <1>4, <1>6, <1>8, <1>9, <1>10, <1>11, <1>12 DEF Next

LEMMA OrderImplies == OrderInv => CausalReplay
<1> SUFFICES ASSUME OrderInv, NEW p \in Places, NEW q \in Places,
                    HappenedBefore(At(p), At(q))
             PROVE  ReplayedBefore(p, q)
  BY DEF CausalReplay
<1>1. At(p) \in Shown /\ At(q) \in Shown
  BY DEF Places, At, Shown, ReadableIn
<1>2. At(p).id < At(q).id
  BY <1>1 DEF OrderInv, Ordered
<1>3. QED
  BY <1>2 DEF ReplayedBefore

(* Replay shows the events of each command in the order it emitted them,    *)
(* and after all that was in the trace when it started                      *)
(* (arena/observability/replay.py sorts by event id), for any number of     *)
(* commands, of files and of lines cut short.                               *)
THEOREM ReplayIsCausal == Spec => []CausalReplay
  BY OrderInit, OrderNext, OrderImplies, PTL DEF Spec

-----------------------------------------------------------------------------
(* What becomes of a file that is written to.                               *)
Pending(lines) == lines # <<>> /\ Last(lines).text \in {"unended", "torn"}

Swallowed(line, text) ==
    [line EXCEPT !.text = IF text = "line" THEN "junk" ELSE "torn"]

LEMMA WrittenAppends ==
    ASSUME NEW lines \in Seq(Line), NEW line \in Line, ~Pending(lines)
    PROVE  Written(lines, line) = Append(lines, line)
  BY DEF Written, Pending

LEMMA WrittenSwallows ==
    ASSUME NEW lines \in Seq(Line), NEW line \in Line, Pending(lines)
    PROVE  /\ Len(lines) \in DOMAIN lines
           /\ lines[Len(lines)].text \in {"unended", "torn"}
           /\ Written(lines, line) =
                [lines EXCEPT ![Len(lines)] = Swallowed(lines[Len(lines)], line.text)]
<1>1. Len(lines) \in DOMAIN lines /\ lines[Len(lines)] \in Line
  BY DEF Pending
<1>2. QED
  BY <1>1 DEF Written, Pending, Swallowed, Last

LEMMA SwallowedLost ==
    ASSUME NEW line \in Line, NEW text
    PROVE  /\ ~Readable(Swallowed(line, text))
           /\ text = "line" => Swallowed(line, text).text = "junk"
  BY DEF Line, Readable, Swallowed

(* The files whose next event is lost, whatever it is.                      *)
Unfinished == {l \in Logs : Pending(files[l])}

(* What one write changes: it shows its own event only on a line of its     *)
(* own, and hides none that was returned from.                              *)
LEMMA WriteEffect ==
    ASSUME TypeOK, NEW l \in Logs, NEW line \in Line,
           files' = [files EXCEPT ![l] = Written(files[l], line)]
    PROVE  /\ \A k \in Logs \ {l} : files'[k] = files[k]
           /\ Pending(files[l]) =>
                /\ \E i \in DOMAIN files'[l] : ~Readable(files'[l][i])
                /\ Len(files'[l]) = Len(files[l])
                /\ \A e \in Shown : e \in Shown' \/ e.text = "unended"
           /\ ~Pending(files[l]) =>
                /\ files'[l] = Append(files[l], line)
                /\ Shown \subseteq Shown'
                /\ Readable(line) => line \in Shown'
           /\ \A e \in Shown' : e = line \/ e \in Shown
           /\ Unfinished' \subseteq Unfinished \cup {l}
           /\ line.text = "line" => Unfinished' = Unfinished \ {l}
<1>1. \A k \in Logs : files[k] \in Seq(Line)
  BY DEF TypeOK
<1>2. files'[l] = Written(files[l], line) /\ \A k \in Logs \ {l} : files'[k] = files[k]
  BY DEF TypeOK
<1>3. \A k \in Logs \ {l} : ReadableIn(k)' = ReadableIn(k)
  BY <1>2 DEF ReadableIn, Readable
<1>4. \A k \in Logs \ {l} : Pending(files'[k]) <=> Pending(files[k])
  BY <1>2
<1>5. \A e \in Shown' : e = line \/ e \in Shown
  <2> SUFFICES ASSUME NEW k \in Logs, NEW i \in DOMAIN files'[k], Readable(files'[k][i])
               PROVE  files'[k][i] = line \/ files'[k][i] \in ReadableIn(k)
    BY DEF Shown, ReadableIn, Readable
  <2>1. CASE k = l
    BY <1>1, <1>2, <2>1, WrittenShows DEF ReadableIn
  <2>2. CASE k # l
    BY <1>2, <2>2 DEF ReadableIn
  <2>3. QED
    BY <2>1, <2>2
<1>6. ASSUME Pending(files[l])
      PROVE  /\ \E i \in DOMAIN files'[l] : ~Readable(files'[l][i])
             /\ Len(files'[l]) = Len(files[l])
             /\ \A e \in Shown : e \in Shown' \/ e.text = "unended"
             /\ line.text = "line" => ~Pending(files'[l])
  <2>1. PICK lines \in Seq(Line), n \in Nat : lines = files[l] /\ n = Len(lines)
    BY <1>1
  <2>2. PICK lost : lost = Swallowed(lines[n], line.text)
    OBVIOUS
  <2>3. /\ n \in DOMAIN lines /\ lines[n].text \in {"unended", "torn"}
        /\ files'[l] = [lines EXCEPT ![n] = lost]
    BY <1>2, <1>6, <2>1, <2>2, WrittenSwallows
  <2>4. ~Readable(lost) /\ (line.text = "line" => lost.text = "junk")
    BY <2>2, <2>3, SwallowedLost
  <2>5. /\ files'[l][n] = lost /\ DOMAIN files'[l] = DOMAIN lines
        /\ \A i \in DOMAIN lines \ {n} : files'[l][i] = lines[i]
    BY <2>3
  <2>6. Len(files'[l]) = n
    BY <2>1, <2>3
  <2>7. ASSUME NEW e \in Shown PROVE e \in Shown' \/ e.text = "unended"
    <3>0. PICK k \in Logs : e \in ReadableIn(k)
      BY DEF Shown
    <3>1. PICK i \in DOMAIN files[k] : e = files[k][i] /\ Readable(e)
      BY <3>0 DEF ReadableIn
    <3>2. CASE k = l /\ i = n
      BY <2>1, <2>3, <3>1, <3>2 DEF Readable
    <3>3. CASE ~(k = l /\ i = n)
      <4>1. i \in DOMAIN files'[k] /\ files'[k][i] = e
        BY <1>2, <2>1, <2>5, <3>1, <3>3
      <4>2. QED
        BY <3>1, <4>1 DEF Shown, ReadableIn, Readable
    <3>4. QED
      BY <3>2, <3>3
  <2>8. line.text = "line" => ~Pending(files'[l])
    BY <2>4, <2>5, <2>6 DEF Pending, Last
  <2>9. QED
    BY <2>1, <2>3, <2>4, <2>5, <2>6, <2>7, <2>8
<1>7. ASSUME ~Pending(files[l])
      PROVE  /\ files'[l] = Append(files[l], line)
             /\ Shown \subseteq Shown'
             /\ Readable(line) => line \in Shown'
             /\ line.text = "line" => ~Pending(files'[l])
  <2>1. PICK lines \in Seq(Line), n \in Nat : lines = files[l] /\ n = Len(lines)
    BY <1>1
  <2>2. files'[l] = Append(lines, line)
    BY <1>2, <1>7, <2>1, WrittenAppends
  <2>3. /\ DOMAIN files'[l] = 1 .. n + 1 /\ files'[l][n + 1] = line
        /\ \A i \in DOMAIN lines : i \in DOMAIN files'[l] /\ files'[l][i] = lines[i]
        /\ Len(files'[l]) = n + 1
    BY <2>1, <2>2
  <2>4. ASSUME NEW e \in Shown PROVE e \in Shown'
    <3>0. PICK k \in Logs : e \in ReadableIn(k)
      BY DEF Shown
    <3>1. PICK i \in DOMAIN files[k] : e = files[k][i] /\ Readable(e)
      BY <3>0 DEF ReadableIn
    <3>2. i \in DOMAIN files'[k] /\ files'[k][i] = e
      BY <1>2, <2>1, <2>3, <3>1
    <3>3. QED
      BY <3>1, <3>2 DEF Shown, ReadableIn, Readable
  <2>5. Readable(line) => line \in Shown'
    <3>1. n + 1 \in DOMAIN files'[l]
      BY <2>3
    <3>2. QED
      BY <2>3, <3>1 DEF Shown, ReadableIn, Readable
  <2>6. line.text = "line" => ~Pending(files'[l])
    BY <2>3 DEF Pending, Last
  <2>7. QED
    BY <2>1, <2>2, <2>4, <2>5, <2>6
<1>8. Unfinished' \subseteq Unfinished \cup {l}
  BY <1>4 DEF Unfinished
<1>9. line.text = "line" => Unfinished' = Unfinished \ {l}
  <2>1. line.text = "line" => ~Pending(files'[l])
    BY <1>6, <1>7
  <2>2. QED
    BY <1>4, <2>1 DEF Unfinished
<1>10. QED
  BY <1>2, <1>5, <1>6, <1>7, <1>8, <1>9

(* The file and the line that a write is about.                             *)
LEMMA WriteLine ==
    ASSUME TypeOK, NEW s \in Stores, NEW text \in Texts, Write(s, text)
    PROVE  \E l \in Logs, line \in Line :
             /\ line.id = store[s].counter /\ line.at = clock + 1 /\ line.text = text
             /\ files' = [files EXCEPT ![l] = Written(files[l], line)]
             /\ clock' = clock + 1
<1>1. PICK line : line = [id |-> store[s].counter, by |-> s, at |-> clock + 1,
                          since |-> store[s].since, text |-> text]
  OBVIOUS
<1>2. line \in Line /\ store[s].log \in Logs
  BY <1>1, NewLine, StoreTyped DEF StoreOK, Store
<1>3. files' = [files EXCEPT ![store[s].log] = Written(files[store[s].log], line)]
  BY <1>1 DEF Write
<1>4. QED
  BY <1>1, <1>2, <1>3 DEF Write

-----------------------------------------------------------------------------
(* Ids without gaps.  As long as no line is damaged, every id up to that of *)
(* an event and up to what a store has counted is in the trace.             *)
ShownIds == {e.id : e \in Shown}

Short ==
    /\ \A e \in Shown : e.id \in 1 .. clock
    /\ \A s \in Stores : Base(store[s]) \in 0 .. clock
    /\ \A l \in Logs : Len(files[l]) <= clock

Filled ==
    Replayable =>
      /\ \A e \in Shown : 1 .. e.id \subseteq ShownIds
      /\ \A s \in Stores : store[s].pc # "closed" => 1 .. Base(store[s]) \subseteq ShownIds

GapInv == TypeOK /\ Short /\ Filled

LEMMA GapInit == Init => GapInv
<1> SUFFICES ASSUME Init PROVE GapInv
  OBVIOUS
<1>1. TypeOK
  BY TypeInit
<1>2. Shown = {} /\ clock = 0 /\ \A l \in Logs : files[l] = <<>>
  BY DEF Init, Shown, ReadableIn
<1>3. \A s \in Stores : store[s].pc = "closed" /\ store[s].counter = 0
  BY DEF Init, Closed
<1>4. Short
  BY <1>2, <1>3 DEF Short, Base
<1>5. Filled
  BY <1>2, <1>3 DEF Filled
<1>6. QED
  BY <1>1, <1>4, <1>5 DEF GapInv

(* A step that writes no event. *)
LEMMA GapLocal ==
    ASSUME GapInv, TypeOK', NEW s \in Stores, NEW r,
           store' = [store EXCEPT ![s] = r], UNCHANGED <<files, clock>>,
           Base(r) \in 0 .. clock,
           Replayable /\ r.pc # "closed" => 1 .. Base(r) \subseteq ShownIds
    PROVE  GapInv'
<1>1. Shown' = Shown /\ (Replayable' <=> Replayable)
  BY DEF Shown, ReadableIn, Readable, Replayable
<1>2. ShownIds' = ShownIds
  BY <1>1 DEF ShownIds
<1>3. \A q \in Stores : store'[q] = IF q = s THEN r ELSE store[q]
  BY DEF GapInv, TypeOK
<1>4. Short'
  BY <1>1, <1>3 DEF GapInv, Short
<1>5. Filled'
  BY <1>1, <1>2, <1>3 DEF GapInv, Filled
<1>6. QED
  BY <1>4, <1>5 DEF GapInv

(* A write that leaves the trace undamaged adds the event to it, and its id *)
(* is the one that its store was about to fill.                             *)
LEMMA GapWrite ==
    ASSUME GapInv, TypeOK', NEW s \in Stores, NEW text \in Texts, NEW r,
           store[s].pc = "emit", Write(s, text),
           store' = [store EXCEPT ![s] = r],
           \/ r.pc = "closed" /\ r.counter = 0
           \/ r.pc = "ready" /\ r.counter = store[s].counter
    PROVE  GapInv'
<1>1. TypeOK
  BY DEF GapInv
<1>2. PICK l \in Logs, line \in Line :
             /\ line.id = store[s].counter
             /\ files' = [files EXCEPT ![l] = Written(files[l], line)]
             /\ clock' = clock + 1
  BY <1>1, WriteLine
<1>3. /\ \A k \in Logs \ {l} : files'[k] = files[k]
      /\ Pending(files[l]) =>
           /\ \E i \in DOMAIN files'[l] : ~Readable(files'[l][i])
           /\ Len(files'[l]) = Len(files[l])
      /\ ~Pending(files[l]) =>
           /\ files'[l] = Append(files[l], line)
           /\ Shown \subseteq Shown'
           /\ Readable(line) => line \in Shown'
      /\ \A e \in Shown' : e = line \/ e \in Shown
  BY <1>1, <1>2, WriteEffect
<1>4. \A q \in Stores : store'[q] = IF q = s THEN r ELSE store[q]
  BY <1>1 DEF TypeOK
<1>5. /\ store[s].counter \in Nat /\ store[s].counter > 0 /\ clock \in Nat
      /\ Base(store[s]) = store[s].counter - 1 /\ store[s].counter <= clock + 1
  BY <1>1, StoreTyped DEF StoreOK, Store, TypeOK, Base, GapInv, Short
<1>6. Base(r) \in 0 .. clock + 1 /\ (r.pc # "closed" => Base(r) = store[s].counter)
  BY <1>5 DEF Base
<1>7. Short'
  <2>1. \A e \in Shown' : e.id \in 1 .. clock + 1
    BY <1>2, <1>3, <1>5 DEF GapInv, Short
  <2>2. \A q \in Stores : Base(store'[q]) \in 0 .. clock + 1
    BY <1>4, <1>5, <1>6 DEF GapInv, Short
  <2>3. \A k \in Logs : Len(files'[k]) <= clock + 1
    <3> SUFFICES ASSUME NEW k \in Logs PROVE Len(files'[k]) <= clock + 1
      OBVIOUS
    <3>1. files[k] \in Seq(Line) /\ Len(files[k]) <= clock /\ Len(files[k]) \in Nat
      BY <1>1 DEF TypeOK, GapInv, Short
    <3>2. CASE k = l /\ ~Pending(files[l])
      BY <1>3, <1>5, <3>1, <3>2
    <3>3. CASE ~(k = l /\ ~Pending(files[l]))
      <4>1. Len(files'[k]) = Len(files[k])
        BY <1>3, <3>3
      <4>2. QED
        BY <1>5, <3>1, <4>1
    <3>4. QED
      BY <3>2, <3>3
  <2>4. QED
    BY <1>2, <2>1, <2>2, <2>3 DEF Short
<1>8. ASSUME Replayable'
      PROVE  Replayable /\ ShownIds' = ShownIds \cup {store[s].counter}
  <2>1. ~Pending(files[l])
    BY <1>3, <1>8 DEF Replayable, Readable
  <2>2. /\ files[l] \in Seq(Line) /\ files'[l] = Append(files[l], line)
        /\ \A k \in Logs \ {l} : files'[k] = files[k]
        /\ \A i \in DOMAIN files[l] : i \in DOMAIN files'[l] /\ files'[l][i] = files[l][i]
    <3>1. PICK lines \in Seq(Line) : lines = files[l]
      BY <1>1 DEF TypeOK
    <3>2. files'[l] = Append(lines, line)
      BY <1>3, <2>1, <3>1
    <3>3. \A i \in DOMAIN lines : i \in DOMAIN files'[l] /\ files'[l][i] = lines[i]
      BY <3>1, <3>2
    <3>4. QED
      BY <1>3, <3>1, <3>2, <3>3
  <2>3. Replayable
    <3> SUFFICES ASSUME NEW k \in Logs, NEW i \in DOMAIN files[k]
                 PROVE  Readable(files[k][i])
      BY DEF Replayable
    <3>1. i \in DOMAIN files'[k] /\ files'[k][i] = files[k][i]
      BY <2>2
    <3>2. QED
      BY <1>8, <3>1 DEF Replayable, Readable
  <2>4. Readable(line)
    <3>1. Len(files[l]) + 1 \in DOMAIN files'[l] /\ files'[l][Len(files[l]) + 1] = line
      BY <2>2
    <3>2. QED
      BY <1>8, <3>1 DEF Replayable, Readable
  <2>5. Shown' = Shown \cup {line}
    BY <1>3, <2>1, <2>4
  <2>6. QED
    BY <1>2, <2>3, <2>5 DEF ShownIds
<1>9. Filled'
  <2> SUFFICES ASSUME Replayable'
               PROVE  /\ \A e \in Shown' : 1 .. e.id \subseteq ShownIds'
                      /\ \A q \in Stores : store'[q].pc # "closed"
                           => 1 .. Base(store'[q]) \subseteq ShownIds'
    BY DEF Filled
  <2>1. Replayable /\ ShownIds' = ShownIds \cup {store[s].counter}
    BY <1>8
  <2>2. 1 .. store[s].counter \subseteq ShownIds'
    <3>1. 1 .. store[s].counter - 1 \subseteq ShownIds
      BY <1>5, <2>1 DEF GapInv, Filled
    <3>2. 1 .. store[s].counter = (1 .. store[s].counter - 1) \cup {store[s].counter}
      BY <1>5
    <3>3. QED
      BY <2>1, <3>1, <3>2
  <2>3. \A e \in Shown' : 1 .. e.id \subseteq ShownIds'
    BY <1>2, <1>3, <2>1, <2>2 DEF GapInv, Filled
  <2>4. \A q \in Stores : store'[q].pc # "closed"
          => 1 .. Base(store'[q]) \subseteq ShownIds'
    BY <1>4, <1>6, <2>1, <2>2 DEF GapInv, Filled
  <2>5. QED
    BY <2>3, <2>4
<1>10. QED
  BY <1>7, <1>9 DEF GapInv

LEMMA GapNext == GapInv /\ [Next]_vars => GapInv'
<1> SUFFICES ASSUME GapInv, [Next]_vars PROVE GapInv'
  OBVIOUS
<1>1. TypeOK /\ TypeOK'
  BY TypeNext DEF GapInv
<1>2. clock \in Nat /\ \A s \in Stores : store[s] \in Store
  BY <1>1 DEF TypeOK
<1>3. ASSUME NEW s \in Stores, NEW r, store' = [store EXCEPT ![s] = r],
             UNCHANGED <<files, clock>>, store[s].pc # "closed",
             Base(r) = Base(store[s])
      PROVE  GapInv'
  BY <1>1, <1>3, GapLocal DEF GapInv, Short, Filled
<1>4. ASSUME NEW s \in Stores, Open(s) PROVE GapInv'
  <2> DEFINE r == [pc |-> "scan", counter |-> 0, since |-> clock, todo |-> Logs,
                   log |-> RunLog]
  <2>1. store' = [store EXCEPT ![s] = r] /\ UNCHANGED <<files, clock>>
    BY <1>4 DEF Open
  <2>2. Base(r) = 0
    BY DEF Base
  <2> HIDE DEF r
  <2>3. Base(r) \in 0 .. clock /\ 1 .. Base(r) \subseteq ShownIds
    BY <1>2, <2>2
  <2>4. QED
    BY <1>1, <2>1, <2>3, GapLocal
<1>5. ASSUME NEW s \in Stores, NEW l \in Logs, Scan(s, l) PROVE GapInv'
  <2>1. PICK n \in {store[s].counter} \cup Ids(l) : Scanned(s, l, n)
    BY <1>5 DEF Scan, Highest
  <2> DEFINE left == store[s].todo \ {l}
             r == [store[s] EXCEPT !.counter = n, !.todo = left,
                     !.pc = IF left = {} THEN "ready" ELSE "scan"]
  <2>2. store' = [store EXCEPT ![s] = r]
    BY <1>1, <1>2, <1>5, <2>1 DEF Scan, Scanned, Store, TypeOK
  <2>3. Base(r) = n
    BY <1>2 DEF Store, Base
  <2>4. /\ store[s].pc = "scan" /\ UNCHANGED <<files, clock>>
        /\ Base(store[s]) = store[s].counter
    BY <1>5 DEF Scan, Base
  <2> HIDE DEF r
  <2>5. n \in 0 .. clock /\ (Replayable => 1 .. n \subseteq ShownIds)
    <3>1. CASE n = store[s].counter
      BY <2>4, <3>1 DEF GapInv, Short, Filled
    <3>2. CASE n \in Ids(l)
      <4>1. PICK e \in Shown : n = e.id
        BY <3>2 DEF Ids, Shown
      <4>2. QED
        BY <1>2, <4>1 DEF GapInv, Short, Filled
    <3>3. QED
      BY <2>1, <3>1, <3>2
  <2>6. QED
    BY <1>1, <2>2, <2>3, <2>4, <2>5, GapLocal
<1>6. ASSUME NEW s \in Stores, NEW l \in Logs, TakeId(s, l) PROVE GapInv'
  <2> DEFINE r == [store[s] EXCEPT !.pc = "emit", !.counter = store[s].counter + 1,
                                   !.log = l]
  <2>1. store' = [store EXCEPT ![s] = r]
    BY <1>1, <1>6, TakeIdStore
  <2>2. /\ r.pc = "emit" /\ r.counter = store[s].counter + 1
        /\ store[s].counter \in Nat /\ store[s].pc = "ready"
    BY <1>2, <1>6 DEF Store, TakeId
  <2> HIDE DEF r
  <2>3. Base(r) = Base(store[s])
    BY <2>2 DEF Base
  <2>4. QED
    BY <1>3, <1>6, <2>1, <2>2, <2>3 DEF TakeId
<1>7. ASSUME NEW s \in Stores, NEW n \in Nat, Return(s, n)
      PROVE  \E r : /\ store' = [store EXCEPT ![s] = r]
                    /\ r.pc = "ready" /\ r.counter = n
  <2> DEFINE r == [store[s] EXCEPT !.pc = "ready", !.counter = n, !.log = RunLog]
  <2>1. store' = [store EXCEPT ![s] = r]
    BY <1>1, <1>2, <1>7 DEF Return, Store, TypeOK
  <2>2. r.pc = "ready" /\ r.counter = n
    BY <1>2 DEF Store
  <2>3. QED
    BY <2>1, <2>2
<1>8. ASSUME NEW s \in Stores, Reject(s) PROVE GapInv'
  <2>1. store[s].counter - 1 \in Nat /\ store[s].pc = "emit"
    BY <1>1, <1>8, StoreTyped DEF Reject, StoreOK, Store
  <2>2. PICK r : /\ store' = [store EXCEPT ![s] = r]
                 /\ r.pc = "ready" /\ r.counter = store[s].counter - 1
    BY <1>7, <1>8, <2>1 DEF Reject
  <2>3. Base(r) = Base(store[s])
    BY <2>1, <2>2 DEF Base
  <2>4. QED
    BY <1>3, <1>8, <2>1, <2>2, <2>3 DEF Reject
<1>9. ASSUME NEW s \in Stores, Emit(s) PROVE GapInv'
  <2>1. PICK r : /\ store' = [store EXCEPT ![s] = r]
                 /\ r.pc = "ready" /\ r.counter = store[s].counter
    BY <1>2, <1>7, <1>9 DEF Emit, Store
  <2>2. "line" \in Texts /\ store[s].pc = "emit" /\ Write(s, "line")
    BY <1>9 DEF Emit, Texts
  <2>3. QED
    BY <1>1, <2>1, <2>2, GapWrite
<1>10. Closed.pc = "closed" /\ Closed.counter = 0 /\ Base(Closed) \in 0 .. clock
  BY <1>2 DEF Closed, Base
<1>11. ASSUME NEW s \in Stores, Close(s) PROVE GapInv'
  BY <1>1, <1>10, <1>11, GapLocal DEF Close
<1>12. ASSUME NEW s \in Stores, DieWriting(s) PROVE GapInv'
  <2>1. PICK text \in {"unended", "torn"} : Write(s, text)
    BY <1>12 DEF DieWriting
  <2>2. /\ text \in Texts /\ store[s].pc = "emit"
        /\ store' = [store EXCEPT ![s] = Closed]
    BY <1>12 DEF Texts, DieWriting
  <2>3. QED
    BY <1>1, <1>10, <2>1, <2>2, GapWrite
<1>13. CASE UNCHANGED vars
  <2>1. /\ Shown' = Shown /\ (Replayable' <=> Replayable)
        /\ store' = store /\ clock' = clock /\ files' = files
    BY <1>13 DEF vars, Shown, ReadableIn, Readable, Replayable
  <2>2. Short' /\ Filled'
    BY <2>1 DEF GapInv, Short, Filled, ShownIds
  <2>3. QED
    BY <1>1, <2>2 DEF GapInv
<1>14. QED
  BY <1>4, <1>5, <1>6, <1>8, <1>9, <1>11, <1>12, <1>13 DEF Next

(* Replay finds all that is shown: no file has more lines than MaxEvents.   *)
LEMMA ShownPlaces == ASSUME TypeOK, Short PROVE Shown = {At(p) : p \in Places}
<1>1. \A p \in Places : At(p) \in Shown
  BY DEF Places, At, Shown, ReadableIn
<1>2. ASSUME NEW e \in Shown PROVE \E p \in Places : e = At(p)
  <2>1. PICK l \in Logs : e \in ReadableIn(l)
    BY DEF Shown
  <2>2. PICK i \in DOMAIN files[l] : e = files[l][i] /\ Readable(e)
    BY <2>1 DEF ReadableIn
  <2>3. i \in 1 .. MaxEvents
    <3>1. files[l] \in Seq(Line) /\ Len(files[l]) <= clock /\ clock <= MaxEvents
      BY TraceStoreAssumption DEF TypeOK, Short, TraceStoreAssumption
    <3>2. clock \in Nat /\ MaxEvents \in Nat /\ i \in 1 .. Len(files[l])
      BY <3>1, TraceStoreAssumption DEF TypeOK, TraceStoreAssumption
    <3>3. QED
      BY <3>1, <3>2
  <2>4. <<l, i>> \in Places /\ At(<<l, i>>) = e
    BY <2>2, <2>3 DEF Places, At
  <2>5. QED
    BY <2>4
<1>3. QED
  BY <1>1, <1>2

LEMMA GapImplies == GapInv => NoGaps
<1> SUFFICES ASSUME GapInv, Replayable
             PROVE  LET ids == {At(p).id : p \in Places} IN ids = 1 .. Max({0} \cup ids)
  BY DEF NoGaps
<1>1. {At(p).id : p \in Places} = ShownIds
  BY ShownPlaces DEF GapInv, ShownIds
<1>2. PICK ids : ids = ShownIds
  OBVIOUS
<1>3. ids \subseteq 1 .. clock /\ clock \in Nat
  BY <1>2 DEF GapInv, TypeOK, Short, ShownIds
<1>4. PICK top : top = Max({0} \cup ids)
  OBVIOUS
<1>5. top \in {0} \cup ids /\ \A n \in ids : top >= n
  <2>1. {0} \cup ids \subseteq 0 .. clock /\ {0} \cup ids # {}
    BY <1>3
  <2>2. QED
    BY <1>3, <1>4, <2>1, MaxExists
<1>6. 1 .. top \subseteq ids
  <2>1. CASE top = 0
    BY <2>1
  <2>2. CASE top \in ids
    BY <1>2, <2>2 DEF GapInv, Filled, ShownIds
  <2>3. QED
    BY <1>5, <2>1, <2>2
<1>7. ids = 1 .. top
  <2>1. \A n \in ids : n \in Nat /\ n >= 1 /\ n <= top
    BY <1>3, <1>5
  <2>2. top \in Nat
    BY <1>3, <1>5
  <2>3. ids \subseteq 1 .. top
    BY <2>1, <2>2
  <2>4. QED
    BY <1>6, <2>3
<1>8. QED
  BY <1>1, <1>2, <1>4, <1>7

(* The ids of a trace without damaged lines are the numbers from one on,    *)
(* however many stores count at once and give ids back                      *)
(* (TraceStore.emit in arena/observability/trace_store.py).                 *)
THEOREM IdsWithoutGaps == Spec => []NoGaps
  BY GapInit, GapNext, GapImplies, PTL DEF Spec

-----------------------------------------------------------------------------
(* What a death in a write costs.  Every write that was cut short leaves at *)
(* most one file unfinished, and such a file takes one event more with it.  *)
Missing == {n \in returned : \A e \in Shown : e.at # n}

(* An event without newline is of a command that died.                      *)
CutIsNotReturned == \A e \in Shown : e.text = "unended" => e.at \notin returned

LossInv ==
    /\ CutIsNotReturned
    /\ Replayable => Missing = {}
    /\ ~Replayable => Cardinality(returned) < clock
    /\ Cardinality(Missing) + Cardinality(Unfinished) + Cardinality(returned) <= clock

LEMMA LossFinite ==
    ASSUME TypeOK
    PROVE  /\ IsFiniteSet(returned) /\ IsFiniteSet(Missing) /\ IsFiniteSet(Unfinished)
           /\ Cardinality(returned) \in Nat /\ Cardinality(Missing) \in Nat
           /\ Cardinality(Unfinished) \in Nat
<1>1. IsFiniteSet(1 .. clock) /\ IsFiniteSet(Logs)
  <2>1. clock \in Int /\ 0 \in Int /\ 1 \in Int /\ NumTasks \in Int
    BY TraceStoreAssumption DEF TypeOK, TraceStoreAssumption
  <2>2. QED
    BY <2>1, FS_Interval DEF Logs, RunLog
<1>2. returned \subseteq 1 .. clock /\ Missing \subseteq returned /\ Unfinished \subseteq Logs
  BY DEF TypeOK, Missing, Unfinished
<1>3. IsFiniteSet(returned)
  BY <1>1, <1>2, FS_Subset
<1>4. IsFiniteSet(Missing) /\ IsFiniteSet(Unfinished)
  BY <1>1, <1>2, <1>3, FS_Subset
<1>5. QED
  BY <1>3, <1>4, FS_CardinalityType

LEMMA AddOne ==
    ASSUME NEW S, NEW x, IsFiniteSet(S)
    PROVE  /\ IsFiniteSet(S \cup {x})
           /\ Cardinality(S \cup {x}) <= Cardinality(S) + 1
<1>1. Cardinality(S) \in Nat
  BY FS_CardinalityType
<1>2. Cardinality(S \cup {x}) = IF x \in S THEN Cardinality(S) ELSE Cardinality(S) + 1
  BY FS_AddElement
<1>3. Cardinality(S \cup {x}) <= Cardinality(S) + 1
  BY <1>1, <1>2
<1>4. QED
  BY <1>3, FS_AddElement

(* A damaged file stays damaged, and an unfinished one is damaged by the    *)
(* next write.                                                              *)
LEMMA DamageStays ==
    ASSUME TypeOK, NEW l \in Logs, NEW line \in Line,
           files' = [files EXCEPT ![l] = Written(files[l], line)]
    PROVE  /\ Replayable' => Replayable /\ ~Pending(files[l])
           /\ Replayable /\ ~Pending(files[l]) /\ Readable(line) => Replayable'
<1>1. /\ \A k \in Logs \ {l} : files'[k] = files[k]
      /\ Pending(files[l]) => \E i \in DOMAIN files'[l] : ~Readable(files'[l][i])
      /\ ~Pending(files[l]) => files'[l] = Append(files[l], line)
  BY WriteEffect
<1>2. CASE Pending(files[l])
  BY <1>1, <1>2 DEF Replayable, Readable
<1>3. CASE ~Pending(files[l])
  <2>1. PICK lines \in Seq(Line), n \in Nat : lines = files[l] /\ n = Len(lines)
    BY DEF TypeOK
  <2>2. /\ DOMAIN files'[l] = 1 .. n + 1 /\ files'[l][n + 1] = line
        /\ \A i \in 1 .. n : files'[l][i] = lines[i]
        /\ DOMAIN lines = 1 .. n
    BY <1>1, <1>3, <2>1
  <2>3. (\A i \in DOMAIN files'[l] : Readable(files'[l][i]))
          <=> Readable(line) /\ \A i \in DOMAIN lines : Readable(lines[i])
    <3>1. \A i \in 1 .. n + 1 : i = n + 1 \/ i \in 1 .. n
      OBVIOUS
    <3>2. n + 1 \in 1 .. n + 1 /\ 1 .. n \subseteq 1 .. n + 1
      OBVIOUS
    <3>3. QED
      BY <2>2, <3>1, <3>2
  <2>4. QED
    BY <1>1, <1>3, <2>1, <2>3 DEF Replayable, Readable
<1>4. QED
  BY <1>2, <1>3

LEMMA LossInit == Init => LossInv
<1> SUFFICES ASSUME Init PROVE LossInv
  OBVIOUS
<1>1. returned = {} /\ clock = 0 /\ Shown = {} /\ \A l \in Logs : files[l] = <<>>
  BY DEF Init, Shown, ReadableIn
<1>2. Missing = {} /\ Unfinished = {}
  BY <1>1 DEF Missing, Unfinished, Pending
<1>3. Cardinality({}) = 0
  BY FS_EmptySet
<1>4. QED
  BY <1>1, <1>2, <1>3 DEF LossInv, CutIsNotReturned, Replayable

(* emit has returned: the event is shown, or it has ended the last line of  *)
(* an unfinished file.                                                      *)
LEMMA LossReturned ==
    ASSUME OrderInv, LossInv, TypeOK', NEW s \in Stores, Write(s, "line"),
           returned' = returned \cup {clock'}
    PROVE  LossInv'
<1>1. TypeOK /\ clock \in Nat /\ returned \subseteq 1 .. clock
  BY DEF OrderInv, TypeOK
<1>2. PICK l \in Logs, line \in Line :
             /\ line.at = clock + 1 /\ line.text = "line"
             /\ files' = [files EXCEPT ![l] = Written(files[l], line)]
             /\ clock' = clock + 1
  BY <1>1, WriteLine DEF Texts
<1>3. /\ Pending(files[l]) => \A e \in Shown : e \in Shown' \/ e.text = "unended"
      /\ ~Pending(files[l]) =>
           /\ Shown \subseteq Shown'
           /\ Readable(line) => line \in Shown'
      /\ \A e \in Shown' : e = line \/ e \in Shown
      /\ Unfinished' = Unfinished \ {l}
  BY <1>1, <1>2, WriteEffect
<1>4. \A e \in Shown : e.at \in 1 .. clock
  BY DEF OrderInv, Dated
<1>5. clock + 1 \notin returned
  BY <1>1
<1>6. CutIsNotReturned'
  BY <1>1, <1>2, <1>3, <1>4 DEF LossInv, CutIsNotReturned
<1>7. Cardinality(returned') = Cardinality(returned) + 1
  BY <1>1, <1>2, <1>5, LossFinite, FS_AddElement
<1>8. Cardinality(Missing') + Cardinality(Unfinished')
        <= Cardinality(Missing) + Cardinality(Unfinished)
  <2>1. CASE Pending(files[l])
    <3>1. Missing' \subseteq Missing \cup {clock + 1}
      BY <1>2, <1>3, <2>1 DEF Missing, LossInv, CutIsNotReturned
    <3>2. /\ IsFiniteSet(Missing \cup {clock + 1})
          /\ Cardinality(Missing \cup {clock + 1}) <= Cardinality(Missing) + 1
      BY <1>1, LossFinite, AddOne
    <3>3. Cardinality(Missing') <= Cardinality(Missing \cup {clock + 1})
      BY <3>1, <3>2, FS_Subset
    <3>4. l \in Unfinished
      BY <2>1 DEF Unfinished
    <3>5. Cardinality(Unfinished') = Cardinality(Unfinished) - 1
      BY <1>1, <1>3, <3>4, LossFinite, FS_RemoveElement
    <3>6. Cardinality(Missing') \in Nat /\ Cardinality(Missing \cup {clock + 1}) \in Nat
      BY <3>1, <3>2, FS_Subset, FS_CardinalityType
    <3>7. QED
      BY <1>1, <3>2, <3>3, <3>5, <3>6, LossFinite
  <2>2. CASE ~Pending(files[l])
    <3>1. line \in Shown'
      BY <1>2, <1>3, <2>2 DEF Readable
    <3>2. Missing' \subseteq Missing
      BY <1>2, <1>3, <2>2, <3>1 DEF Missing
    <3>3. Unfinished' \subseteq Unfinished
      BY <1>3
    <3>4. /\ Cardinality(Missing') <= Cardinality(Missing)
          /\ Cardinality(Unfinished') <= Cardinality(Unfinished)
          /\ Cardinality(Missing') \in Nat /\ Cardinality(Unfinished') \in Nat
      BY <1>1, <3>2, <3>3, LossFinite, FS_Subset, FS_CardinalityType
    <3>5. QED
      BY <1>1, <3>4, LossFinite
  <2>3. QED
    BY <2>1, <2>2
<1>9. Cardinality(Missing') \in Nat /\ Cardinality(Unfinished') \in Nat
      /\ Cardinality(returned') \in Nat
  <2>1. IsFiniteSet(Missing') /\ IsFiniteSet(Unfinished') /\ IsFiniteSet(returned')
    <3>1. IsFiniteSet(returned') /\ IsFiniteSet(Unfinished')
      BY <1>1, <1>2, <1>3, LossFinite, FS_AddElement, FS_RemoveElement
    <3>2. Missing' \subseteq returned'
      BY DEF Missing
    <3>3. QED
      BY <3>1, <3>2, FS_Subset
  <2>2. QED
    BY <2>1, FS_CardinalityType
<1>10. Replayable' => Missing' = {}
  <2> SUFFICES ASSUME Replayable' PROVE Missing' = {}
    OBVIOUS
  <2>1. Replayable /\ ~Pending(files[l])
    BY <1>1, <1>2, DamageStays
  <2>2. line \in Shown' /\ Shown \subseteq Shown'
    BY <1>2, <1>3, <2>1 DEF Readable
  <2>3. QED
    BY <1>2, <2>1, <2>2 DEF LossInv, Missing
<1>11. ~Replayable' => Cardinality(returned') < clock'
  <2>1. CASE Pending(files[l])
    <3>1. l \in Unfinished
      BY <2>1 DEF Unfinished
    <3>2. Cardinality(Unfinished) # 0
      BY <1>1, <3>1, LossFinite, FS_EmptySet
    <3>3. Cardinality(returned) < clock
      BY <1>1, <3>2, LossFinite DEF LossInv
    <3>4. QED
      BY <1>1, <1>2, <1>7, <3>3, LossFinite
  <2>2. CASE ~Pending(files[l]) /\ ~Replayable'
    <3>1. ~Replayable
      BY <1>1, <1>2, <2>2, DamageStays DEF Readable
    <3>2. Cardinality(returned) < clock
      BY <3>1 DEF LossInv
    <3>3. QED
      BY <1>1, <1>2, <1>7, <3>2, LossFinite
  <2>3. QED
    BY <2>1, <2>2
<1>12. QED
  BY <1>1, <1>2, <1>6, <1>7, <1>8, <1>9, <1>10, <1>11, LossFinite DEF LossInv

(* A write that is cut short pays for the file that it leaves unfinished.   *)
LEMMA LossCut ==
    ASSUME OrderInv, LossInv, TypeOK', NEW s \in Stores,
           NEW text \in {"unended", "torn"}, Write(s, text), returned' = returned
    PROVE  LossInv'
<1>1. TypeOK /\ clock \in Nat /\ returned \subseteq 1 .. clock
  BY DEF OrderInv, TypeOK
<1>2. PICK l \in Logs, line \in Line :
             /\ line.at = clock + 1
             /\ files' = [files EXCEPT ![l] = Written(files[l], line)]
             /\ clock' = clock + 1
  BY <1>1, WriteLine DEF Texts
<1>3. /\ Pending(files[l]) => \A e \in Shown : e \in Shown' \/ e.text = "unended"
      /\ ~Pending(files[l]) => Shown \subseteq Shown'
      /\ \A e \in Shown' : e = line \/ e \in Shown
      /\ Unfinished' \subseteq Unfinished \cup {l}
  BY <1>1, <1>2, WriteEffect
<1>4. CutIsNotReturned'
  BY <1>1, <1>2, <1>3 DEF LossInv, CutIsNotReturned
<1>5. Missing' \subseteq Missing
  BY <1>3 DEF Missing, LossInv, CutIsNotReturned
<1>6. Cardinality(Missing') <= Cardinality(Missing) /\ Cardinality(Missing') \in Nat
  BY <1>1, <1>5, LossFinite, FS_Subset, FS_CardinalityType
<1>7. /\ Cardinality(Unfinished') <= Cardinality(Unfinished) + 1
      /\ Cardinality(Unfinished') \in Nat
  <2>1. /\ IsFiniteSet(Unfinished \cup {l})
        /\ Cardinality(Unfinished \cup {l}) <= Cardinality(Unfinished) + 1
    BY <1>1, LossFinite, AddOne
  <2>2. /\ IsFiniteSet(Unfinished')
        /\ Cardinality(Unfinished') <= Cardinality(Unfinished \cup {l})
    BY <1>3, <2>1, FS_Subset
  <2>3. Cardinality(Unfinished') \in Nat /\ Cardinality(Unfinished \cup {l}) \in Nat
    BY <2>1, <2>2, FS_CardinalityType
  <2>4. QED
    BY <1>1, <2>1, <2>2, <2>3, LossFinite
<1>8. Replayable' => Missing' = {}
  BY <1>1, <1>2, <1>5, DamageStays DEF LossInv
<1>9. Cardinality(returned') < clock'
  BY <1>1, <1>2, LossFinite DEF LossInv
<1>10. QED
  BY <1>1, <1>2, <1>4, <1>6, <1>7, <1>8, <1>9, LossFinite DEF LossInv

LEMMA LossNext == OrderInv /\ LossInv /\ [Next]_vars => LossInv'
<1> SUFFICES ASSUME OrderInv, LossInv, [Next]_vars PROVE LossInv'
  OBVIOUS
<1>1. TypeOK'
  BY TypeNext DEF OrderInv
<1>2. CASE UNCHANGED <<files, clock, returned>>
  <2>1. Shown' = Shown
    BY <1>2 DEF Shown, ReadableIn, Readable
  <2>2. /\ Missing' = Missing /\ Unfinished' = Unfinished
        /\ (CutIsNotReturned => CutIsNotReturned')
        /\ (Replayable' <=> Replayable)
    BY <1>2, <2>1 DEF Missing, Unfinished, CutIsNotReturned, Replayable
  <2>3. QED
    BY <1>2, <2>2 DEF LossInv
<1>3. ASSUME NEW s \in Stores, Emit(s) PROVE LossInv'
  <2>1. Write(s, "line") /\ returned' = returned \cup {clock'}
    BY <1>3 DEF Emit
  <2>2. QED
    BY <1>1, <2>1, LossReturned
<1>4. ASSUME NEW s \in Stores, DieWriting(s) PROVE LossInv'
  <2>1. PICK text \in {"unended", "torn"} : Write(s, text)
    BY <1>4 DEF DieWriting
  <2>2. returned' = returned
    BY <1>4 DEF DieWriting
  <2>3. QED
    BY <1>1, <2>1, <2>2, LossCut
<1>5. QED
  BY <1>2, <1>3, <1>4 DEF Next, vars, Open, Scan, TakeId, Reject, Close

LEMMA LossImplies == TypeOK /\ Short /\ LossInv => NoSilentLoss
<1> SUFFICES ASSUME TypeOK, Short, LossInv PROVE NoSilentLoss
  OBVIOUS
<1>1. Lost = Missing
  BY ShownPlaces DEF Lost, Missing
<1>2. Cardinality(Missing) + Cardinality(returned) <= clock
  BY LossFinite DEF LossInv, TypeOK
<1>3. QED
  BY <1>1, <1>2 DEF NoSilentLoss, LossInv

(* Replay raises only where a write was cut short, and otherwise shows      *)
(* every event whose emit has returned, whatever dies when and however the  *)
(* remains are written over; and a reader that passes over damaged lines    *)
(* misses no more of them than writes were cut short (TraceStore.emit, its  *)
(* loader, and _read_jsonl in arena/observability/replay.py).               *)
THEOREM LossIsNotSilent == Spec => []NoSilentLoss
<1>1. Init => OrderInv /\ GapInv /\ LossInv
  BY OrderInit, GapInit, LossInit
<1>2. OrderInv /\ GapInv /\ LossInv /\ [Next]_vars => (OrderInv /\ GapInv /\ LossInv)'
  BY OrderNext, GapNext, LossNext
<1>3. OrderInv /\ GapInv /\ LossInv => NoSilentLoss
  BY LossImplies DEF OrderInv, GapInv
<1>4. QED
  BY <1>1, <1>2, <1>3, PTL DEF Spec

-----------------------------------------------------------------------------
(* The streams that write_provider_streams leaves in a task directory, and *)
(* the answer of the provider: for any number of commands, whatever becomes *)
(* of each and of the program they call.                                   *)

Files == Raw \cup Scrubbed

(* No stream of the invocation has been opened; all of them are written.    *)
Before == {"--version", "--help", "invoke", "spawn", "unavailable"}
Behind == {"status", "advice", "returned"}

CliTypeInv ==
    /\ inv \in Nat
    /\ stream \in [Files -> Nat]
    /\ cmd \in [pc : {"idle"} \cup Before \cup Files \cup Behind,
                provider : {"none", "codex", "claude"}, checks : Int,
                exit : {"none"} \cup Exits, output : {"none"} \cup Outputs,
                status : {"none", "killed", "success", "blocked", "failure"},
                listed : BOOLEAN, open : BOOLEAN]

(* Which files the invocation has written, by its program counter.          *)
StreamInv ==
    /\ \A f \in Files : stream[f] <= inv
    /\ cmd.open => cmd.pc \in Files /\ stream[cmd.pc] = inv
    /\ cmd.pc \in Before \cup Raw => \A f \in Scrubbed : stream[f] < inv
    /\ cmd.pc = "stderr.raw" => stream["stdout.raw"] = inv /\ "stdout.raw" \notin torn
    /\ cmd.pc \in Scrubbed => \A f \in Raw : stream[f] = inv /\ f \notin torn

(* Nothing is listed before the result, and the file is opened on success.  *)
ListInv ==
    /\ cmd.pc # "returned" => ~cmd.listed
    /\ cmd.pc = "advice" => cmd.provider = "claude" /\ Status = "success"

CliInv == CliTypeInv /\ StreamInv /\ ListInv /\ RawFirst /\ OwnAdvice

LEMMA StatusType == Status \in {"killed", "success", "blocked", "failure"}
BY DEF Status

LEMMA CliInvInit == CliInit => CliInv
BY DEF CliInit, CliInv, CliTypeInv, StreamInv, ListInv, RawFirst, OwnAdvice, Idle, Files, Raw,
       Scrubbed, Before, Behind, Exits, Outputs

LEMMA CliUnchanged ==
  ASSUME CliInv, UNCHANGED <<inv, cmd, stream, torn, advice>>
  PROVE  CliInv'
<1>1. CliTypeInv' /\ StreamInv' /\ RawFirst'
  BY DEF CliInv, CliTypeInv, StreamInv, RawFirst
<1>2. Status' = Status
  BY DEF Status
<1>3. ListInv' /\ OwnAdvice'
  BY <1>2 DEF CliInv, ListInv, OwnAdvice
<1> QED BY <1>1, <1>3 DEF CliInv

LEMMA BackToIdle ==
  ASSUME CliInv, cmd' = Idle, UNCHANGED <<inv, stream, torn>>
  PROVE  CliInv'
<1> USE DEF CliInv, Idle
<1>1. CliTypeInv'
  BY DEF CliTypeInv
<1>2. StreamInv' /\ RawFirst'
  BY DEF StreamInv, RawFirst, Before, Behind, Raw, Scrubbed
<1>3. ListInv' /\ OwnAdvice'
  BY DEF ListInv, OwnAdvice
<1> QED BY <1>1, <1>2, <1>3

(* Every action but two leaves the streams as they are.                     *)
LEMMA CliInvNext == CliInv /\ [CliNext]_cliVars => CliInv'
<1> SUFFICES ASSUME CliInv, [CliNext]_cliVars PROVE CliInv'
  OBVIOUS
<1> USE DEF CliInv, CliTypeInv, Files, Before, Behind, Raw, Scrubbed
<1>1. ASSUME NEW provider \in {"codex", "claude"}, NEW checks \in 1 .. 2, Start(provider, checks)
      PROVE  CliInv'
  <2>1. /\ inv' = inv + 1 /\ UNCHANGED <<stream, torn>>
        /\ cmd' = [pc |-> "--version", provider |-> provider, checks |-> checks, exit |-> "none",
                   output |-> "none", status |-> "none", listed |-> FALSE,
                   open |-> FALSE]
    BY <1>1 DEF Start, Idle
  <2>2. CliTypeInv'
    BY <2>1
  <2>3. StreamInv' /\ RawFirst'
    BY <2>1 DEF StreamInv, RawFirst
  <2>4. ListInv' /\ OwnAdvice'
    BY <2>1 DEF ListInv, OwnAdvice
  <2> QED BY <2>2, <2>3, <2>4
<1>2. CASE ProbeFails
  BY <1>2 DEF ProbeFails, Unavailable, Goto, StreamInv, ListInv, RawFirst, OwnAdvice
<1>3. CASE ProbeVersion
  BY <1>3 DEF ProbeVersion, Goto, StreamInv, ListInv, RawFirst, OwnAdvice
<1>4. CASE ProbeHelp
  <2>1. PICK label \in {"--version", "invoke"} :
            cmd' = [cmd EXCEPT !.checks = cmd.checks - 1, !.pc = label]
    <3>1. cmd' = [cmd EXCEPT !.checks = cmd.checks - 1,
                             !.pc = IF cmd.checks > 1 THEN "--version" ELSE "invoke"]
      BY <1>4 DEF ProbeHelp
    <3>2. CASE cmd.checks > 1
      BY <3>1, <3>2
    <3>3. CASE ~(cmd.checks > 1)
      BY <3>1, <3>3
    <3> QED BY <3>2, <3>3
  <2>2. cmd.pc = "--help" /\ UNCHANGED <<inv, stream, torn, advice>>
    BY <1>4 DEF ProbeHelp
  <2>3. CliTypeInv'
    <3>1. PICK n \in Int : n = cmd.checks - 1
      OBVIOUS
    <3>2. cmd' = [cmd EXCEPT !.checks = n, !.pc = label]
      BY <2>1, <3>1
    <3> QED BY <2>2, <3>2
  <2>4. StreamInv' /\ RawFirst'
    BY <2>1, <2>2 DEF StreamInv, RawFirst
  <2>5. ListInv' /\ OwnAdvice'
    BY <2>1, <2>2 DEF ListInv, OwnAdvice
  <2> QED BY <2>3, <2>4, <2>5
<1>5. CASE Invoke
  BY <1>5 DEF Invoke, Unavailable, Goto, StreamInv, ListInv, RawFirst, OwnAdvice
<1>6. CASE CannotStart
  BY <1>6 DEF CannotStart, Unavailable, Goto, StreamInv, ListInv, RawFirst, OwnAdvice
<1>7. ASSUME NEW exit \in Exits, NEW output \in Outputs, Run(exit, output)
      PROVE  CliInv'
  BY <1>7 DEF Run, StreamInv, ListInv, RawFirst, OwnAdvice
<1>8. CASE OpenStream
  <2>1. cmd' = [cmd EXCEPT !.open = TRUE] /\ UNCHANGED <<inv, advice>>
        /\ stream' = [stream EXCEPT ![cmd.pc] = inv] /\ cmd.pc \in Files
        /\ torn' = torn \cup {cmd.pc}
    BY <1>8 DEF OpenStream
  <2>2. CliTypeInv'
    BY <2>1
  <2>3. StreamInv'
    BY <2>1 DEF StreamInv
  <2>4. RawFirst'
    BY <2>1 DEF StreamInv, RawFirst
  <2>5. ListInv' /\ OwnAdvice'
    BY <2>1 DEF ListInv, OwnAdvice, Status
  <2> QED BY <2>2, <2>3, <2>4, <2>5
<1>15. CASE WriteStream
  <2>1. cmd' = [cmd EXCEPT !.open = FALSE, !.pc = After(cmd.pc)]
        /\ UNCHANGED <<inv, stream, advice>> /\ cmd.pc \in Files /\ cmd.open
        /\ torn' = torn \ {cmd.pc}
    BY <1>15 DEF WriteStream
  <2>2. CliTypeInv'
    BY <2>1 DEF After
  <2>3. StreamInv'
    BY <2>1 DEF After, StreamInv
  <2>4. RawFirst'
    BY <2>1 DEF StreamInv, RawFirst
  <2>5. ListInv' /\ OwnAdvice'
    BY <2>1 DEF After, ListInv, OwnAdvice
  <2> QED BY <2>2, <2>3, <2>4, <2>5
<1>9. CASE MapStatus
  <2>1. CASE cmd.provider = "claude" /\ Status = "success"
    <3>1. /\ cmd.pc = "status" /\ cmd' = [cmd EXCEPT !.pc = "advice"]
          /\ UNCHANGED <<inv, stream, torn>>
      BY <1>9, <2>1 DEF MapStatus, Goto
    <3>2. CliTypeInv' /\ StreamInv' /\ RawFirst'
      BY <3>1 DEF StreamInv, RawFirst
    <3>3. cmd'.exit = cmd.exit /\ cmd'.output = cmd.output /\ cmd'.provider = cmd.provider
          /\ cmd'.listed = cmd.listed /\ cmd'.pc = "advice"
      BY <3>1
    <3>4. ListInv' /\ OwnAdvice'
      BY <2>1, <3>1, <3>3 DEF ListInv, OwnAdvice, Status
    <3> QED BY <3>2, <3>4
  <2>2. CASE ~(cmd.provider = "claude" /\ Status = "success")
    <3>1. cmd.pc = "status" /\ cmd' = [cmd EXCEPT !.pc = "returned", !.status = Status]
          /\ UNCHANGED <<inv, stream, torn, advice>>
      BY <1>9, <2>2 DEF MapStatus, ReturnStatus
    <3> QED BY <2>2, <3>1, StatusType DEF StreamInv, ListInv, RawFirst, OwnAdvice
  <2> QED BY <2>1, <2>2
<1>10. CASE WriteAdvice
  BY <1>10, StatusType DEF WriteAdvice, StreamInv, ListInv, RawFirst, OwnAdvice
<1>11. CASE RecordRow
  <2>1. cmd' = Idle /\ UNCHANGED <<inv, stream, torn>>
    BY <1>11 DEF RecordRow
  <2> QED BY <2>1, BackToIdle
<1>12. CASE End
  <2>1. cmd' = Idle /\ UNCHANGED <<inv, stream, torn>>
    BY <1>12 DEF End
  <2> QED BY <2>1, BackToIdle
<1>13. CASE Reinstall
  BY <1>13, CliUnchanged DEF Reinstall
<1>14. CASE UNCHANGED cliVars
  BY <1>14, CliUnchanged DEF cliVars
<1> QED
  BY <1>1, <1>2, <1>3, <1>4, <1>5, <1>6, <1>7, <1>8, <1>9, <1>10, <1>11, <1>12,
     <1>13, <1>14, <1>15 DEF CliNext

LEMMA CliInvAlways == CliSpec => []CliInv
BY CliInvInit, CliInvNext, PTL DEF CliSpec

-----------------------------------------------------------------------------
(* The raw streams of what a scrubbed stream shows are whole, or are being  *)
(* replaced by later ones, wherever commands died in write_provider_streams.*)
THEOREM RawStreamsFirst == CliSpec => []RawFirst
BY CliInvAlways, PTL DEF CliInv

(* What claude's result lists is the answer of its own invocation.          *)
THEOREM AdviceIsOwn == CliSpec => []OwnAdvice
BY CliInvAlways, PTL DEF CliInv
=============================================================================
