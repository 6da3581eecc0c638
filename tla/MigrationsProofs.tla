-------------------------- MODULE MigrationsProofs --------------------------
(***************************************************************************)
(* Proofs about Migrations, for any number of commands, any sequence of    *)
(* migration files, any statements in them and any number of deaths.       *)
(***************************************************************************)
EXTENDS Migrations, TLAPS

-----------------------------------------------------------------------------
(* The inductive invariant. *)

Databases == [objects : SUBSET Objects, versions : SUBSET Files]

TypeInv ==
    /\ db \in Databases /\ pending \in Databases
    /\ lock \in Procs \cup {NoProc}
    /\ proc \in [Procs -> [pc : {"idle", "apply", "connected"},
                           todo : SUBSET Files, stmt : Nat \ {0}]]

(* Only a command that is applying holds a transaction, and the transaction *)
(* adds to what is committed: nobody else commits while it is open.         *)
LockInv ==
    lock \in Procs =>
        /\ proc[lock].pc = "apply"
        /\ db.objects \subseteq pending.objects
        /\ db.versions \subseteq pending.versions

(* What a database records, it has. *)
Whole(d) == \A f \in Files : f \in d.versions => Creates(f) \subseteq d.objects

WholeInv == Whole(db) /\ (lock \in Procs => Whole(pending))

(* A command sees recorded what it no longer has to do.                     *)
TodoInv ==
    \A p \in Procs : proc[p].pc = "apply" =>
        \A f \in Files : f \in proc[p].todo \/ f \in Seen(p).versions

(* A command sees what the statements of its file that it ran created.      *)
StmtInv ==
    \A p \in Procs : \A f \in Files :
        Current(p, f) =>
            \A i \in DOMAIN Script[f] :
                i < proc[p].stmt => Script[f][i] \in Seen(p).objects

ConnectedInv ==
    \A p \in Procs : proc[p].pc = "connected" => Files \subseteq db.versions

IInv == TypeInv /\ LockInv /\ WholeInv /\ TodoInv /\ StmtInv /\ ConnectedInv

-----------------------------------------------------------------------------
LEMMA FilesNat == Files \subseteq Nat
BY ScriptAssumption DEF Files

LEMMA CreatesType == \A f \in Files : Creates(f) \subseteq Objects
BY ScriptAssumption DEF Creates

(* A command is at one file.                                                *)
LEMMA CurrentUnique ==
    ASSUME NEW p, NEW f \in Files, NEW g \in Files, Current(p, f), Current(p, g)
    PROVE  f = g
BY FilesNat DEF Current

LEMMA LeftType ==
    ASSUME NEW n \in 0 .. NumFiles - 1, NEW i \in 0 .. Len(Script[n + 1])
    PROVE  /\ Left(n, i) \in Databases
           /\ Whole(Left(n, i))
<1>1. n + 1 \in Files /\ 1 .. n \subseteq Files
  BY ScriptAssumption DEF Files
<1>2. Script[n + 1] \in Seq(Objects)
  BY <1>1, ScriptAssumption
<1>3. \A j \in 1 .. i : Script[n + 1][j] \in Objects
  BY <1>2
<1>4. (UNION {Creates(f) : f \in 1 .. n}) \subseteq Objects
  BY <1>1, CreatesType
<1>5. Left(n, i) \in Databases
  <2>1. {Script[n + 1][j] : j \in 1 .. i} \subseteq Objects
    BY <1>3
  <2>2. (UNION {Creates(f) : f \in 1 .. n}) \cup {Script[n + 1][j] : j \in 1 .. i}
          \in SUBSET Objects
    BY <1>4, <2>1
  <2>3. 1 .. n \in SUBSET Files
    BY <1>1
  <2>4. QED
    BY <2>2, <2>3 DEF Left, Databases
<1>6. Whole(Left(n, i))
  BY DEF Whole, Left
<1>7. QED
  BY <1>5, <1>6

LEMMA InvInit == Init => IInv
<1> SUFFICES ASSUME Init PROVE IInv
  OBVIOUS
<1>1. PICK n \in 0 .. NumFiles - 1 : \E i \in 0 .. Len(Script[n + 1]) : db = Left(n, i)
  BY DEF Init
<1>2. PICK i \in 0 .. Len(Script[n + 1]) : db = Left(n, i)
  BY <1>1
<1>3. db \in Databases /\ Whole(db)
  BY <1>2, LeftType
<1>4. lock = NoProc /\ pending = db /\ lock \notin Procs
  BY ScriptAssumption DEF Init
<1>5. \A p \in Procs : proc[p] = Idle
  BY DEF Init
<1>6. TypeInv
  BY <1>3, <1>4 DEF Init, TypeInv, Idle
<1>7. \A p \in Procs : proc[p].pc = "idle"
  <2>1. Idle.pc = "idle"
    BY DEF Idle
  <2>2. QED
    BY <1>5, <2>1
<1>8. LockInv /\ WholeInv
  BY <1>3, <1>4 DEF LockInv, WholeInv
<1>9. TodoInv /\ StmtInv /\ ConnectedInv
  BY <1>7 DEF TodoInv, StmtInv, ConnectedInv, Current
<1>10. QED
  BY <1>6, <1>8, <1>9 DEF IInv

-----------------------------------------------------------------------------
(* The steps. *)

LEMMA ConnectKeeps ==
    ASSUME IInv, NEW p \in Procs, Connect(p)
    PROVE  IInv'
<1> DEFINE r == [pc |-> "apply", todo |-> Files \ db.versions, stmt |-> 1]
<1>1. /\ proc' = [proc EXCEPT ![p] = r] /\ proc[p].pc = "idle"
      /\ db' = db /\ lock' = lock /\ pending' = pending
  BY DEF Connect, Become
<1>2. proc'[p] = r /\ \A q \in Procs : q # p => proc'[q] = proc[q]
  BY <1>1 DEF IInv, TypeInv
<1>3. lock # p
  BY <1>1 DEF IInv, LockInv
<1>4. \A q \in Procs : Seen(q)' = Seen(q)
  BY <1>1 DEF Seen
<1>5. TypeInv'
  BY <1>1 DEF IInv, TypeInv
<1>6. LockInv' /\ WholeInv'
  BY <1>1, <1>2, <1>3 DEF IInv, LockInv, WholeInv, Whole
<1>7. Seen(p) = db
  BY <1>3 DEF Seen
<1>8. TodoInv'
  BY <1>2, <1>4, <1>7 DEF IInv, TodoInv
<1>9. StmtInv'
  <2> SUFFICES ASSUME NEW q \in Procs, NEW f \in Files, Current(q, f)',
                      NEW i \in DOMAIN Script[f], i < proc'[q].stmt
               PROVE  Script[f][i] \in Seen(q)'.objects
    BY DEF StmtInv
  <2>1. CASE q = p
    <3>1. i < 1 /\ i \in 1 .. Len(Script[f])
      BY <1>2, <2>1, ScriptAssumption
    <3>2. QED
      BY <3>1
  <2>2. CASE q # p
    <3>1. proc'[q] = proc[q]
      BY <1>2, <2>2
    <3>2. Current(q, f)
      BY <3>1 DEF Current
    <3>3. QED
      BY <1>4, <3>1, <3>2 DEF IInv, StmtInv
  <2>3. QED
    BY <2>1, <2>2
<1>10. ConnectedInv'
  BY <1>1, <1>2 DEF IInv, ConnectedInv
<1>11. QED
  BY <1>5, <1>6, <1>8, <1>9, <1>10 DEF IInv

(* What command p writes is seen by p, and by every other command that has  *)
(* no transaction of its own; nothing is ever taken back.                   *)
LEMMA WriteAdds ==
    ASSUME IInv, NEW p \in Procs, NEW o \in Objects, Write(p, o), lock' = lock
    PROVE  /\ db' \in Databases /\ pending' \in Databases
           /\ db.objects \subseteq db'.objects /\ db'.versions = db.versions
           /\ lock \in Procs => /\ pending.objects \subseteq pending'.objects
                                /\ pending'.versions = pending.versions
                                /\ lock = p
           /\ lock \in Procs => db' = db
           /\ o \in Seen(p)'.objects
           /\ \A q \in Procs : /\ Seen(q).objects \subseteq Seen(q)'.objects
                               /\ Seen(q)'.versions = Seen(q).versions
<1>1. db \in Databases /\ pending \in Databases /\ lock \in Procs \cup {NoProc}
  BY DEF IInv, TypeInv
<1>2. lock \in {p, NoProc} /\ NoProc \notin Procs
  BY ScriptAssumption DEF Write, Free
<1>3. CASE lock = p
  <2>1. pending' = [pending EXCEPT !.objects = @ \cup {o}] /\ db' = db
    BY <1>3 DEF Write
  <2>2. /\ pending' \in Databases /\ o \in pending'.objects
        /\ pending.objects \subseteq pending'.objects
        /\ pending'.versions = pending.versions
    BY <1>1, <2>1 DEF Databases
  <2>3. QED
    BY <1>1, <1>3, <2>1, <2>2 DEF Seen
<1>4. CASE lock = NoProc
  <2>1. db' = [db EXCEPT !.objects = @ \cup {o}] /\ pending' = pending
    BY <1>2, <1>4 DEF Write
  <2>2. /\ db' \in Databases /\ o \in db'.objects
        /\ db.objects \subseteq db'.objects /\ db'.versions = db.versions
    BY <1>1, <2>1 DEF Databases
  <2>3. \A q \in Procs : Seen(q) = db /\ Seen(q)' = db'
    BY <1>2, <1>4 DEF Seen
  <2>4. QED
    BY <1>1, <1>2, <1>4, <2>1, <2>2, <2>3
<1>5. QED
  BY <1>2, <1>3, <1>4

LEMMA ExecuteKeeps ==
    ASSUME IInv, NEW p \in Procs, Execute(p)
    PROVE  IInv'
<1>1. PICK f \in Files :
        /\ Current(p, f)
        /\ proc[p].stmt \in DOMAIN Script[f]
        /\ \/ Present(p, Script[f][proc[p].stmt]) /\ UNCHANGED <<db, pending>>
           \/ Write(p, Script[f][proc[p].stmt])
        /\ Become(p, [proc[p] EXCEPT !.stmt = @ + 1])
        /\ lock' = lock
  BY DEF Execute
<1> DEFINE o == Script[f][proc[p].stmt]
<1>2. o \in Objects
  BY <1>1, ScriptAssumption
<1>3. /\ proc'[p] = [proc[p] EXCEPT !.stmt = @ + 1]
      /\ \A q \in Procs : q # p => proc'[q] = proc[q]
  BY <1>1 DEF Become, IInv, TypeInv
<1>4. /\ proc[p] \in [pc : {"idle", "apply", "connected"}, todo : SUBSET Files, stmt : Nat \ {0}]
  BY DEF IInv, TypeInv
<1>5. /\ proc'[p].pc = proc[p].pc /\ proc'[p].todo = proc[p].todo
      /\ proc'[p].stmt = proc[p].stmt + 1
  BY <1>3, <1>4
<1>6. /\ db' \in Databases /\ pending' \in Databases
      /\ db.objects \subseteq db'.objects /\ db'.versions = db.versions
      /\ lock \in Procs => /\ pending.objects \subseteq pending'.objects
                           /\ pending'.versions = pending.versions
                           /\ db' = db
      /\ o \in Seen(p)'.objects
      /\ \A q \in Procs : /\ Seen(q).objects \subseteq Seen(q)'.objects
                          /\ Seen(q)'.versions = Seen(q).versions
  <2>1. CASE Present(p, o) /\ UNCHANGED <<db, pending>>
    BY <1>1, <2>1 DEF Present, Seen, IInv, TypeInv
  <2>2. CASE Write(p, o)
    BY <1>1, <1>2, <2>2, WriteAdds
  <2>3. QED
    BY <1>1, <2>1, <2>2
<1> HIDE DEF o
<1>7. TypeInv'
  <2>1. [proc[p] EXCEPT !.stmt = @ + 1]
          \in [pc : {"idle", "apply", "connected"}, todo : SUBSET Files, stmt : Nat \ {0}]
    BY <1>4
  <2>2. QED
    BY <1>1, <1>6, <2>1 DEF Become, IInv, TypeInv
<1>8. LockInv'
  BY <1>1, <1>3, <1>5, <1>6 DEF IInv, LockInv
<1>9. WholeInv'
  <2>1. Whole(db')
    BY <1>6 DEF IInv, WholeInv, Whole
  <2>2. lock \in Procs => Whole(pending')
    BY <1>6 DEF IInv, WholeInv, Whole
  <2>3. QED
    BY <1>1, <2>1, <2>2 DEF WholeInv, Whole
<1>10. TodoInv'
  <2> SUFFICES ASSUME NEW q \in Procs, proc'[q].pc = "apply", NEW g \in Files
               PROVE  g \in proc'[q].todo \/ g \in Seen(q)'.versions
    BY DEF TodoInv
  <2>1. proc[q].pc = "apply" /\ proc'[q].todo = proc[q].todo
    BY <1>3, <1>5
  <2>2. g \in proc[q].todo \/ g \in Seen(q).versions
    BY <2>1 DEF IInv, TodoInv
  <2>3. QED
    BY <1>6, <2>1, <2>2
<1>11. StmtInv'
  <2> SUFFICES ASSUME NEW q \in Procs, NEW g \in Files, Current(q, g)',
                      NEW i \in DOMAIN Script[g], i < proc'[q].stmt
               PROVE  Script[g][i] \in Seen(q)'.objects
    BY DEF StmtInv
  <2>1. Current(q, g)
    BY <1>3, <1>5 DEF Current
  <2>2. CASE i < proc[q].stmt
    BY <1>6, <2>1, <2>2 DEF IInv, StmtInv
  <2>3. CASE ~(i < proc[q].stmt)
    <3>1. q = p
      BY <1>3, <2>3
    <3>2. g = f
      BY <1>1, <2>1, <3>1, CurrentUnique
    <3>3. i \in 1 .. Len(Script[f])
      BY <3>2, ScriptAssumption
    <3>4. i = proc[p].stmt
      BY <1>4, <1>5, <2>3, <3>1, <3>3
    <3>5. QED
      BY <1>6, <3>1, <3>2, <3>4 DEF o
  <2>4. QED
    BY <2>2, <2>3
<1>12. ConnectedInv'
  BY <1>3, <1>5, <1>6 DEF IInv, ConnectedInv
<1>13. QED
  BY <1>7, <1>8, <1>9, <1>10, <1>11, <1>12 DEF IInv

(* A command that has run the last statement of its file sees all that the  *)
(* file creates.                                                            *)
LEMMA DoneIsComplete ==
    ASSUME IInv, NEW p \in Procs, NEW f \in Files, Done(p, f)
    PROVE  Creates(f) \subseteq Seen(p).objects
<1>1. Current(p, f) /\ proc[p].stmt = Len(Script[f]) + 1
  BY DEF Done
<1>2. DOMAIN Script[f] = 1 .. Len(Script[f]) /\ Len(Script[f]) \in Nat
  BY ScriptAssumption
<1>3. \A i \in DOMAIN Script[f] : i < proc[p].stmt
  BY <1>1, <1>2
<1>4. \A i \in DOMAIN Script[f] : Script[f][i] \in Seen(p).objects
  BY <1>1, <1>3 DEF IInv, StmtInv
<1>5. QED
  BY <1>4 DEF Creates

LEMMA RecordKeeps ==
    ASSUME IInv, NEW p \in Procs, Record(p)
    PROVE  IInv'
<1>1. PICK f \in Files :
        /\ Done(p, f) /\ Free(p)
        /\ lock' = p
        /\ pending' = [Seen(p) EXCEPT !.versions = @ \cup {f}]
        /\ Become(p, [pc |-> "apply", todo |-> proc[p].todo \ {f}, stmt |-> 1])
        /\ db' = db
  BY DEF Record
<1>2. /\ proc'[p] = [pc |-> "apply", todo |-> proc[p].todo \ {f}, stmt |-> 1]
      /\ \A q \in Procs : q # p => proc'[q] = proc[q]
  BY <1>1 DEF Become, IInv, TypeInv
<1>3. Seen(p) \in Databases
  BY DEF Seen, IInv, TypeInv
<1>4. /\ pending' \in Databases
      /\ pending'.objects = Seen(p).objects
      /\ pending'.versions = Seen(p).versions \cup {f}
  BY <1>1, <1>3 DEF Databases
<1>5. proc[p].pc = "apply" /\ f \in proc[p].todo
  BY <1>1 DEF Done, Current
<1>6. Seen(p)' = pending'
  BY <1>1 DEF Seen
<1>7. \A q \in Procs : q # p => Seen(q)' = Seen(q)
  <2>1. \A q \in Procs : q # p => Seen(q) = db
    BY <1>1, ScriptAssumption DEF Free, Seen
  <2>2. \A q \in Procs : q # p => Seen(q)' = db
    BY <1>1 DEF Seen
  <2>3. QED
    BY <2>1, <2>2
<1>8. TypeInv'
  BY <1>1, <1>4 DEF Become, IInv, TypeInv
<1>9. LockInv'
  <2>1. db.objects \subseteq Seen(p).objects /\ db.versions \subseteq Seen(p).versions
    BY DEF Seen, IInv, LockInv
  <2>2. QED
    BY <1>1, <1>2, <1>4, <2>1 DEF LockInv
<1>10. WholeInv'
  <2>1. Whole(Seen(p))
    BY DEF Seen, IInv, WholeInv
  <2>2. Creates(f) \subseteq Seen(p).objects
    BY <1>1, DoneIsComplete
  <2>3. Whole(pending')
    BY <1>4, <2>1, <2>2 DEF Whole
  <2>4. Whole(db')
    BY <1>1 DEF IInv, WholeInv
  <2>5. QED
    BY <2>3, <2>4 DEF WholeInv, Whole
<1>11. TodoInv'
  <2> SUFFICES ASSUME NEW q \in Procs, proc'[q].pc = "apply", NEW g \in Files
               PROVE  g \in proc'[q].todo \/ g \in Seen(q)'.versions
    BY DEF TodoInv
  <2>1. CASE q = p
    <3>1. g \in proc[p].todo \/ g \in Seen(p).versions
      BY <1>5 DEF IInv, TodoInv
    <3>2. QED
      BY <1>2, <1>4, <1>6, <2>1, <3>1
  <2>2. CASE q # p
    BY <1>2, <1>7, <2>2 DEF IInv, TodoInv
  <2>3. QED
    BY <2>1, <2>2
<1>12. StmtInv'
  <2> SUFFICES ASSUME NEW q \in Procs, NEW g \in Files, Current(q, g)',
                      NEW i \in DOMAIN Script[g], i < proc'[q].stmt
               PROVE  Script[g][i] \in Seen(q)'.objects
    BY DEF StmtInv
  <2>1. CASE q = p
    <3>1. i < 1 /\ i \in 1 .. Len(Script[g])
      BY <1>2, <2>1, ScriptAssumption
    <3>2. QED
      BY <3>1
  <2>2. CASE q # p
    <3>1. Current(q, g) /\ proc'[q] = proc[q]
      BY <1>2, <2>2 DEF Current
    <3>2. QED
      BY <1>7, <2>2, <3>1 DEF IInv, StmtInv
  <2>3. QED
    BY <2>1, <2>2
<1>13. ConnectedInv'
  BY <1>1, <1>2 DEF IInv, ConnectedInv
<1>14. QED
  BY <1>8, <1>9, <1>10, <1>11, <1>12, <1>13 DEF IInv

-----------------------------------------------------------------------------
(* A command that ends, with a commit or without one.                       *)
LEMMA EndKeeps ==
    ASSUME IInv, NEW p \in Procs, NEW r,
           r \in [pc : {"idle", "apply", "connected"}, todo : SUBSET Files, stmt : Nat \ {0}],
           r.pc # "apply",
           r.pc = "connected" => Files \subseteq db'.versions,
           Become(p, r),
           db' \in {db, Seen(p)},
           lock' = (IF lock = p THEN NoProc ELSE lock),
           pending' = pending
    PROVE  IInv'
<1>1. proc'[p] = r /\ \A q \in Procs : q # p => proc'[q] = proc[q]
  BY DEF Become, IInv, TypeInv
<1>2. db \in Databases /\ Seen(p) \in Databases
  BY DEF Seen, IInv, TypeInv
<1>3. lock' # p
  BY ScriptAssumption
<1>4. TypeInv'
  <2>1. proc' \in [Procs -> [pc : {"idle", "apply", "connected"},
                             todo : SUBSET Files, stmt : Nat \ {0}]]
    BY DEF Become, IInv, TypeInv
  <2>2. db' \in Databases
    BY <1>2
  <2>3. QED
    BY <2>1, <2>2 DEF IInv, TypeInv
<1>5. /\ db.objects \subseteq db'.objects /\ db.versions \subseteq db'.versions
  BY DEF Seen, IInv, LockInv
<1>6. lock' \in Procs => lock' = lock /\ db' = db
  BY <1>3, ScriptAssumption DEF Seen
<1>7. \A q \in Procs : q # p =>
        /\ Seen(q).objects \subseteq Seen(q)'.objects
        /\ Seen(q).versions \subseteq Seen(q)'.versions
  <2> SUFFICES ASSUME NEW q \in Procs, q # p
               PROVE  /\ Seen(q).objects \subseteq Seen(q)'.objects
                      /\ Seen(q).versions \subseteq Seen(q)'.versions
    OBVIOUS
  <2>1. CASE lock = q
    BY <2>1 DEF Seen
  <2>2. CASE lock # q
    <3>1. Seen(q) = db /\ Seen(q)' = db'
      BY <2>2, ScriptAssumption DEF Seen
    <3>2. QED
      BY <1>5, <3>1
  <2>3. QED
    BY <2>1, <2>2
<1>8. LockInv'
  BY <1>1, <1>3, <1>6 DEF IInv, LockInv
<1>9. WholeInv'
  <2>1. Whole(db')
    BY DEF Seen, IInv, WholeInv
  <2>2. lock' \in Procs => Whole(pending')
    BY <1>6 DEF IInv, WholeInv
  <2>3. QED
    BY <2>1, <2>2 DEF WholeInv, Whole
<1>10. TodoInv'
  BY <1>1, <1>7 DEF IInv, TodoInv
<1>11. StmtInv'
  <2> SUFFICES ASSUME NEW q \in Procs, NEW f \in Files, Current(q, f)',
                      NEW i \in DOMAIN Script[f], i < proc'[q].stmt
               PROVE  Script[f][i] \in Seen(q)'.objects
    BY DEF StmtInv
  <2>1. q # p /\ proc'[q] = proc[q]
    BY <1>1 DEF Current
  <2>2. Current(q, f)
    BY <2>1 DEF Current
  <2>3. QED
    BY <1>7, <2>1, <2>2 DEF IInv, StmtInv
<1>12. ConnectedInv'
  BY <1>1, <1>5 DEF IInv, ConnectedInv
<1>13. QED
  BY <1>4, <1>8, <1>9, <1>10, <1>11, <1>12 DEF IInv

LEMMA CommitKeeps ==
    ASSUME IInv, NEW p \in Procs, Commit(p)
    PROVE  IInv'
<1> DEFINE r == [proc[p] EXCEPT !.pc = "connected"]
<1>1. /\ r \in [pc : {"idle", "apply", "connected"}, todo : SUBSET Files, stmt : Nat \ {0}]
      /\ r.pc = "connected"
  BY DEF IInv, TypeInv
<1>2. Files \subseteq Seen(p).versions
  BY DEF Commit, IInv, TodoInv
<1>3. /\ Become(p, r) /\ db' = Seen(p) /\ pending' = pending
      /\ lock' = (IF lock = p THEN NoProc ELSE lock)
  BY DEF Commit
<1> HIDE DEF r
<1>4. QED
  BY <1>1, <1>2, <1>3, EndKeeps

LEMMA StopKeeps ==
    ASSUME IInv, NEW p \in Procs, Stop(p)
    PROVE  IInv'
<1>1. /\ Idle \in [pc : {"idle", "apply", "connected"}, todo : SUBSET Files, stmt : Nat \ {0}]
      /\ Idle.pc = "idle"
  BY DEF Idle
<1>2. /\ Become(p, Idle) /\ db' = db /\ pending' = pending
      /\ lock' = (IF lock = p THEN NoProc ELSE lock)
  BY DEF Stop
<1>3. QED
  BY <1>1, <1>2, EndKeeps

LEMMA InvNext == IInv /\ [Next]_vars => IInv'
<1> SUFFICES ASSUME IInv, [Next]_vars PROVE IInv'
  OBVIOUS
<1>1. ASSUME NEW p \in Procs, Connect(p) PROVE IInv'
  BY <1>1, ConnectKeeps
<1>2. ASSUME NEW p \in Procs, Execute(p) PROVE IInv'
  BY <1>2, ExecuteKeeps
<1>3. ASSUME NEW p \in Procs, Record(p) PROVE IInv'
  BY <1>3, RecordKeeps
<1>4. ASSUME NEW p \in Procs, Commit(p) PROVE IInv'
  BY <1>4, CommitKeeps
<1>5. ASSUME NEW p \in Procs, Raise(p) \/ Crash(p) \/ Close(p) PROVE IInv'
  BY <1>5, StopKeeps DEF Raise, Crash, Close
<1>6. CASE UNCHANGED vars
  BY <1>6 DEF vars, IInv, TypeInv, LockInv, WholeInv, Whole, TodoInv, StmtInv,
              ConnectedInv, Current, Seen
<1>7. QED
  BY <1>1, <1>2, <1>3, <1>4, <1>5, <1>6 DEF Next, Apply

LEMMA InvAlways == Spec => []IInv
  BY InvInit, InvNext, PTL DEF Spec

(* The promise of ScoreboardStore's docstring: a file that is recorded in   *)
(* schema_versions has been applied in full, for any files and any number   *)
(* of commands that apply them at once and die at any point.                *)
THEOREM NeverFalselyRecorded == Spec => []RecordedIsApplied
<1>1. IInv => RecordedIsApplied
  BY DEF IInv, WholeInv, Whole, RecordedIsApplied
<1>2. QED
  BY <1>1, InvAlways, PTL

(* A command that connect has returned to finds the whole schema, whoever   *)
(* applied it.                                                              *)
THEOREM SchemaIsComplete == Spec => []ConnectedIsComplete
<1>1. IInv => ConnectedIsComplete
  BY DEF IInv, WholeInv, Whole, ConnectedInv, ConnectedIsComplete
<1>2. QED
  BY <1>1, InvAlways, PTL

-----------------------------------------------------------------------------
(* What Migrates rests on. *)

(* Of the errors that end a command, "no such table" never occurs.          *)
OnlyLocked == \A p \in Procs : Refused(p) => ~Free(p)

(* Whatever commands die, are refused or roll back, the committed database  *)
(* only grows.                                                              *)
SchemaGrows ==
    [][db.objects \subseteq db'.objects /\ db.versions \subseteq db'.versions]_vars

(* A command whose turn it is to add a column sees the table.               *)
LEMMA BaseIsThere ==
    ASSUME IInv, NEW p \in Procs, NEW f \in Files, Current(p, f),
           proc[p].stmt \in DOMAIN Script[f]
    PROVE  HasBase(p, Script[f][proc[p].stmt])
<1> DEFINE i == proc[p].stmt
           base == Base[Script[f][i]]
<1>1. CASE base = NoObject
  BY <1>1 DEF HasBase
<1>2. CASE \E j \in DOMAIN Script[f] : j < i /\ Script[f][j] = base
  <2>1. base \in Seen(p).objects
    BY <1>2 DEF IInv, StmtInv
  <2>2. QED
    BY <2>1 DEF HasBase, Present
<1>3. ASSUME NEW g \in Files, g < f, base \in Creates(g)
      PROVE  HasBase(p, Script[f][i])
  <2>1. f \in Nat /\ g \in Nat
    BY FilesNat
  <2>2. g \notin proc[p].todo /\ proc[p].pc = "apply"
    BY <1>3, <2>1 DEF Current
  <2>3. g \in Seen(p).versions
    BY <2>2 DEF IInv, TodoInv
  <2>4. Whole(Seen(p))
    BY DEF Seen, IInv, WholeInv
  <2>5. base \in Seen(p).objects
    BY <1>3, <2>3, <2>4 DEF Whole
  <2>6. QED
    BY <2>5 DEF HasBase, Present
<1>4. QED
  BY <1>1, <1>2, <1>3, ScriptInOrder

(* A command is refused only while another one has a transaction open; in   *)
(* particular the one that has it is not, wherever others died before it    *)
(* and however they share out the statements of a file.                     *)
THEOREM RefusedByLockOnly == Spec => []OnlyLocked
<1>1. IInv => OnlyLocked
  BY BaseIsThere DEF OnlyLocked, Refused
<1>2. QED
  BY <1>1, InvAlways, PTL

LEMMA GrowStep ==
    ASSUME IInv, [Next]_vars
    PROVE  db.objects \subseteq db'.objects /\ db.versions \subseteq db'.versions
<1>1. CASE UNCHANGED db
  BY <1>1
<1>2. ASSUME NEW p \in Procs, Execute(p)
      PROVE  db.objects \subseteq db'.objects /\ db.versions \subseteq db'.versions
  <2>1. PICK o \in Objects : lock' = lock /\ (UNCHANGED db \/ Write(p, o))
    BY <1>2, ScriptAssumption DEF Execute
  <2>2. QED
    BY <2>1, WriteAdds
<1>3. ASSUME NEW p \in Procs, Commit(p)
      PROVE  db.objects \subseteq db'.objects /\ db.versions \subseteq db'.versions
  BY <1>3 DEF Commit, Seen, IInv, LockInv
<1>4. QED
  BY <1>1, <1>2, <1>3 DEF Next, Apply, Connect, Record, Raise, Crash, Close, Stop, vars

(* What is committed of the schema stays, also what an interrupted file has *)
(* left.                                                                    *)
THEOREM NothingTakenBack == Spec => SchemaGrows
<1>1. QED
  BY InvAlways, GrowStep, PTL DEF Spec, SchemaGrows
=============================================================================
