----------------------------- MODULE Migrations ------------------------------
(***************************************************************************)
(* ScoreboardStore.connect (arena/scoreboard/store.py): every command      *)
(* opens the SQLite scoreboard and brings its schema up to date before it  *)
(* does anything else.  Commands may do so at once, and may die anywhere.  *)
(*                                                                         *)
(* Python's sqlite3 module opens a transaction before an INSERT but not    *)
(* before a CREATE or ALTER.  So the statements of the first file that is  *)
(* not yet recorded are committed one by one; the INSERT that records it   *)
(* opens a transaction, and whatever follows is part of that transaction   *)
(* until the single commit at the end.                                     *)
(***************************************************************************)
EXTENDS Naturals, Sequences

CONSTANTS
    Procs,      \* the commands that may connect at once
    NumFiles,   \* migrations/*.sql, in the order of their names
    Objects,    \* the tables and columns the statements create
    Script,     \* per file, what its statements create, in order
    Base,       \* the table a column is added to; NoObject for a table
    NoObject, NoProc,   \* no such thing
    MaxCrashes  \* bound on the commands that die

Files == 1 .. NumFiles

(* What file f creates. *)
Creates(f) == {Script[f][i] : i \in DOMAIN Script[f]}

ASSUME ScriptAssumption ==
    /\ NumFiles \in Nat /\ MaxCrashes \in Nat
    /\ Script \in [Files -> Seq(Objects)]
    /\ Base \in [Objects -> Objects \cup {NoObject}]
    /\ NoProc \notin Procs

(* A column is added to a table that an earlier statement of its file, or   *)
(* an earlier file, creates.                                                *)
ASSUME ScriptInOrder ==
    \A f \in Files : \A i \in DOMAIN Script[f] :
        LET base == Base[Script[f][i]]
        IN  \/ base = NoObject
            \/ \E j \in DOMAIN Script[f] : j < i /\ Script[f][j] = base
            \/ \E g \in Files : g < f /\ base \in Creates(g)

VARIABLES
    db,         \* the committed database: [objects, versions]
    lock,       \* the command whose transaction is open, or NoProc
    pending,    \* what that transaction would commit
    proc,       \* per command: [pc, todo, stmt]
    crashes     \* number of commands that died (bounds the model)

vars == <<db, lock, pending, proc, crashes>>

Idle == [pc |-> "idle", todo |-> {}, stmt |-> 1]

Become(p, r) == proc' = [proc EXCEPT ![p] = r]

-----------------------------------------------------------------------------
(* The database as an earlier version of the program left it: its first n   *)
(* files are recorded, and it died in the middle of the next one, before    *)
(* any of it was recorded.                                                  *)
Left(n, i) ==
    [objects  |-> (UNION {Creates(f) : f \in 1 .. n})
                    \cup {Script[n + 1][j] : j \in 1 .. i},
     versions |-> 1 .. n]

Init ==
    /\ \E n \in 0 .. NumFiles - 1 :
         \E i \in 0 .. Len(Script[n + 1]) : db = Left(n, i)
    /\ lock = NoProc
    /\ pending = db
    /\ proc = [p \in Procs |-> Idle]
    /\ crashes = 0

(* connect: the versions that are recorded are read once.  (schema_versions *)
(* is created if it is not there, which nothing else depends on.)           *)
Connect(p) ==
    /\ proc[p].pc = "idle"
    /\ Become(p, [pc |-> "apply", todo |-> Files \ db.versions, stmt |-> 1])
    /\ UNCHANGED <<db, lock, pending, crashes>>

(* A command sees its own transaction, and no other.                        *)
Seen(p) == IF lock = p THEN pending ELSE db

Free(p) == lock \in {p, NoProc}

(* The file at which command p is: the first that was not recorded.         *)
Current(p, f) ==
    /\ proc[p].pc = "apply"
    /\ f \in proc[p].todo
    /\ \A g \in proc[p].todo : f <= g

(* What a statement finds. *)
Present(p, o) == o \in Seen(p).objects
HasBase(p, o) == Base[o] = NoObject \/ Present(p, Base[o])

(* A statement writes: in the open transaction, or in one of its own.       *)
Write(p, o) ==
    /\ Free(p)
    /\ HasBase(p, o)
    /\ IF lock = p
       THEN pending' = [pending EXCEPT !.objects = @ \cup {o}] /\ UNCHANGED db
       ELSE db' = [db EXCEPT !.objects = @ \cup {o}] /\ UNCHANGED pending

(* mutant: the duplicate column is not tolerated.                           *)
ExecuteStrict(p) ==
    \E f \in Files :
        /\ Current(p, f)
        /\ proc[p].stmt \in DOMAIN Script[f]
        /\ LET o == Script[f][proc[p].stmt]
           IN  \/ /\ Present(p, o)
                  /\ IF Base[o] = NoObject
                     THEN Become(p, [proc[p] EXCEPT !.stmt = @ + 1]) /\ UNCHANGED lock
                     ELSE /\ Become(p, Idle)
                          /\ lock' = IF lock = p THEN NoProc ELSE lock
                  /\ UNCHANGED <<db, pending>>
               \/ /\ ~Present(p, o)
                  /\ Write(p, o)
                  /\ Become(p, [proc[p] EXCEPT !.stmt = @ + 1])
                  /\ UNCHANGED lock
        /\ UNCHANGED crashes

(* One statement of a file: CREATE TABLE IF NOT EXISTS finds its table, the *)
(* duplicate column of ALTER TABLE is tolerated, or the object is created.  *)
Execute(p) ==
    \E f \in Files :
        /\ Current(p, f)
        /\ proc[p].stmt \in DOMAIN Script[f]
        /\ LET o == Script[f][proc[p].stmt]
           IN  \/ Present(p, o) /\ UNCHANGED <<db, pending>>
               \/ ~Present(p, o) /\ Write(p, o)
        /\ Become(p, [proc[p] EXCEPT !.stmt = @ + 1])
        /\ UNCHANGED <<lock, crashes>>

(* mutant: a file is recorded before its last statement has run.            *)
DoneEarly(p, f) == Current(p, f) /\ proc[p].stmt = Len(Script[f])

(* Every statement of the file has run, or was tolerated.                   *)
Done(p, f) == Current(p, f) /\ proc[p].stmt = Len(Script[f]) + 1

(* INSERT OR IGNORE INTO schema_versions, in a transaction that it opens    *)
(* unless one is open.                                                      *)
Record(p) ==
    \E f \in Files :
        /\ Done(p, f)
        /\ Free(p)
        /\ lock' = p
        /\ pending' = [Seen(p) EXCEPT !.versions = @ \cup {f}]
        /\ Become(p, [pc |-> "apply", todo |-> proc[p].todo \ {f}, stmt |-> 1])
        /\ UNCHANGED <<db, crashes>>

(* mutant: the connection is used without a commit.                         *)
CommitForgotten(p) ==
    /\ proc[p].pc = "apply" /\ proc[p].todo = {}
    /\ UNCHANGED db
    /\ lock' = IF lock = p THEN NoProc ELSE lock
    /\ Become(p, [proc[p] EXCEPT !.pc = "connected"])
    /\ UNCHANGED <<pending, crashes>>

(* The commit at the end of _apply_migrations, if there is anything to      *)
(* commit: the command may use the scoreboard.                              *)
Commit(p) ==
    /\ proc[p].pc = "apply" /\ proc[p].todo = {}
    /\ db' = Seen(p)
    /\ lock' = IF lock = p THEN NoProc ELSE lock
    /\ Become(p, [proc[p] EXCEPT !.pc = "connected"])
    /\ UNCHANGED <<pending, crashes>>

(* A statement waits for the transaction of another command; when it has    *)
(* waited for the busy timeout of five seconds it raises "database is       *)
(* locked", and a column without its table raises "no such table".  Neither *)
(* is tolerated: the command ends, its transaction is rolled back.          *)
Refused(p) ==
    \E f \in Files :
        \/ Done(p, f) /\ ~Free(p)
        \/ /\ Current(p, f) /\ proc[p].stmt \in DOMAIN Script[f]
           /\ LET o == Script[f][proc[p].stmt]
              IN  ~Present(p, o) /\ ~(Free(p) /\ HasBase(p, o))

Stop(p) ==
    /\ lock' = IF lock = p THEN NoProc ELSE lock
    /\ Become(p, Idle)
    /\ UNCHANGED <<db, pending>>

Raise(p) == Refused(p) /\ Stop(p) /\ UNCHANGED crashes

(* The process dies: SQLite rolls its transaction back.                     *)
Crash(p) ==
    /\ crashes < MaxCrashes
    /\ proc[p].pc # "idle"
    /\ crashes' = crashes + 1
    /\ Stop(p)

(* The command is done with the scoreboard.                                 *)
Close(p) ==
    /\ proc[p].pc = "connected"
    /\ Stop(p)
    /\ UNCHANGED crashes

Apply(p) == Execute(p) \/ Record(p) \/ Commit(p) \/ Raise(p)

Next == \E p \in Procs : Connect(p) \/ Apply(p) \/ Crash(p) \/ Close(p)

Spec == Init /\ [][Next]_vars

(* A command that is connecting goes on, waits for a lock at most until the *)
(* busy timeout, and closes when it is done.                                *)
FairSpec == Spec /\ \A p \in Procs : WF_vars(Apply(p)) /\ WF_vars(Close(p))

-----------------------------------------------------------------------------
(* Properties. *)

(* The docstring of ScoreboardStore: a partial application never falsely    *)
(* marks a migration applied, however many commands apply it at once and    *)
(* wherever they die.                                                       *)
RecordedIsApplied ==
    \A f \in Files : f \in db.versions => Creates(f) \subseteq db.objects

(* A command that has connected finds every table and every column, also    *)
(* those it left to another command or to an earlier version.               *)
ConnectedIsComplete ==
    \A p \in Procs : proc[p].pc = "connected" =>
        \A f \in Files : f \in db.versions /\ Creates(f) \subseteq db.objects

Connecting == \E p \in Procs : proc[p].pc = "apply"

(* If commands keep connecting, the schema is complete at last, although    *)
(* some of them died half-way and others found the database locked.         *)
Migrates ==
    []<>Connecting => <>[](\A f \in Files : Creates(f) \subseteq db.objects)
=============================================================================
