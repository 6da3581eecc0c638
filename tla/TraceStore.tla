----------------------------- MODULE TraceStore ------------------------------
(***************************************************************************)
(* The trace of one run: arena/observability/trace_store.py (TraceStore)   *)
(* and what arena/observability/replay.py makes of it.                     *)
(*                                                                         *)
(* The trace is a file run.jsonl and one events.jsonl per task.  Each      *)
(* command opens a store of its own over them: it takes the highest event  *)
(* id it finds and counts on from there in memory.  Stores of several      *)
(* commands may be open at once, and a machine that goes down may leave a  *)
(* line that was written in part.                                          *)
(***************************************************************************)
EXTENDS Integers, Sequences, FiniteSets, SequencesExt, FiniteSetsExt

CONSTANTS
    Stores,     \* commands that may have a TraceStore open
    NumTasks,   \* number of task directories; replay reads them in this order
    Torn,       \* whether a write may be cut short
    MaxEvents   \* bound on the events appended

ASSUME TraceStoreAssumption ==
    NumTasks \in Nat /\ MaxEvents \in Nat /\ Torn \in BOOLEAN

RunLog == 0                 \* run.jsonl
Logs == RunLog .. NumTasks

(* What is physically in a line: an event and its newline, an event without *)
(* newline, a part of one, or several of these on one line.                 *)
Texts == {"line", "unended", "torn", "junk"}

VARIABLES
    files,      \* the lines of each file
    store,      \* each command's TraceStore
    clock,      \* number of events appended so far
    returned    \* the events whose emit has returned, by the clock

vars == <<files, store, clock, returned>>

(* Of an event only its id matters here.  To speak of the order of events,  *)
(* a line also has who wrote it, at which clock, and the clock when its     *)
(* store was opened.                                                        *)
Line == [id : Nat, by : Stores, at : Nat, since : Nat, text : Texts]

Closed == [pc |-> "closed", counter |-> 0, since |-> 0, todo |-> {}, log |-> RunLog]

-----------------------------------------------------------------------------
(* json.loads accepts the line.                                             *)
Readable(line) == line.text \in {"line", "unended"}

ReadableIn(l) == {files[l][i] : i \in {j \in DOMAIN files[l] : Readable(files[l][j])}}

(* mutant: the event is written without its newline.                        *)
WrittenWithoutNewline(lines, line) ==
    IF lines # <<>> /\ Last(lines).text \in {"unended", "torn"}
    THEN [lines EXCEPT ![Len(lines)].text = "torn"]
    ELSE Append(lines, [line EXCEPT !.text =
                          IF @ = "line" THEN "unended" ELSE @])

(* The bytes of an event at the end of a file.  A last line without newline *)
(* swallows them, and is no longer JSON, whatever it was.                   *)
Written(lines, line) ==
    IF lines # <<>> /\ Last(lines).text \in {"unended", "torn"}
    THEN [lines EXCEPT ![Len(lines)].text =
            IF line.text = "line" THEN "junk" ELSE "torn"]
    ELSE Append(lines, line)

-----------------------------------------------------------------------------
Init ==
    /\ files = [l \in Logs |-> <<>>]
    /\ store = [s \in Stores |-> Closed]
    /\ clock = 0
    /\ returned = {}

(* TraceStore.__init__ starts to look for the highest event id ...          *)
Open(s) ==
    /\ store[s].pc = "closed"
    /\ store' = [store EXCEPT ![s] = [pc |-> "scan", counter |-> 0, since |-> clock,
                                      todo |-> Logs, log |-> RunLog]]
    /\ UNCHANGED <<files, clock, returned>>

Ids(l) == {line.id : line \in ReadableIn(l)}

(* The highest of some numbers, if there are any. *)
Highest(S) == {n \in S : \A k \in S : k <= n}

(* File l is scanned and n is the highest id so far.                        *)
Scanned(s, l, n) ==
    LET left == store[s].todo \ {l}
    IN  store' = [store EXCEPT ![s].counter = n, ![s].todo = left,
                               ![s].pc = IF left = {} THEN "ready" ELSE @]

(* mutant: only run.jsonl is scanned.                                       *)
ScanRunLogOnly(s, l) ==
    /\ store[s].pc = "scan"
    /\ l \in store[s].todo
    /\ \E n \in Highest({store[s].counter} \cup (IF l = RunLog THEN Ids(l) ELSE {})) :
         Scanned(s, l, n)
    /\ UNCHANGED <<files, clock, returned>>

(* ... file by file, in any order, passing over what it cannot parse.       *)
Scan(s, l) ==
    /\ store[s].pc = "scan"
    /\ l \in store[s].todo
    /\ \E n \in Highest({store[s].counter} \cup Ids(l)) :
         Scanned(s, l, n)
    /\ UNCHANGED <<files, clock, returned>>

(* emit, up to the validation: the event gets the next id.                  *)
TakeId(s, l) ==
    /\ store[s].pc = "ready"
    /\ clock < MaxEvents
    /\ store' = [store EXCEPT ![s].counter = @ + 1, ![s].log = l,
                              ![s].pc = "emit"]
    /\ UNCHANGED <<files, clock, returned>>

(* emit is left with the counter n; its local variables are gone.           *)
Return(s, n) == store' = [store EXCEPT ![s].pc = "ready", ![s].counter = n,
                                       ![s].log = RunLog]

(* mutant: the counter is not rolled back.                                  *)
RejectKeepsId(s) ==
    /\ store[s].pc = "emit"
    /\ Return(s, store[s].counter)
    /\ UNCHANGED <<files, clock, returned>>

(* mutant: the id is given back twice, by two handlers.                     *)
RejectTwice(s) ==
    /\ store[s].pc = "emit"
    /\ Return(s, store[s].counter - 2)
    /\ UNCHANGED <<files, clock, returned>>

(* ValidationError: the id is given back, the caller gets the exception.    *)
Reject(s) ==
    /\ store[s].pc = "emit"
    /\ Return(s, store[s].counter - 1)
    /\ UNCHANGED <<files, clock, returned>>

(* Append a line to the file of the event. *)
Write(s, text) ==
    /\ files' = [files EXCEPT ![store[s].log] =
                   Written(@, [id |-> store[s].counter, by |-> s,
                               at |-> clock + 1, since |-> store[s].since,
                               text |-> text])]
    /\ clock' = clock + 1

(* The line is appended; then the observer runs, and whether it raises or   *)
(* not the store goes on from here.                                         *)
Emit(s) ==
    /\ store[s].pc = "emit"
    /\ clock < MaxEvents
    /\ Write(s, "line")
    /\ Return(s, store[s].counter)
    /\ returned' = returned \cup {clock'}

(* The command ends, or is killed between two system calls.                 *)
Close(s) ==
    /\ store[s].pc # "closed"
    /\ store' = [store EXCEPT ![s] = Closed]
    /\ UNCHANGED <<files, clock, returned>>

(* The command dies in the append: all of the line but its newline is in    *)
(* the file, or less.  (With all of it, it may as well die after Emit.)     *)
DieWriting(s) ==
    /\ Torn
    /\ store[s].pc = "emit"
    /\ clock < MaxEvents
    /\ \E text \in {"unended", "torn"} : Write(s, text)
    /\ store' = [store EXCEPT ![s] = Closed]
    /\ UNCHANGED returned

Next ==
    \E s \in Stores :
        \/ Open(s) \/ Reject(s) \/ Emit(s) \/ Close(s) \/ DieWriting(s)
        \/ \E l \in Logs : Scan(s, l) \/ TakeId(s, l)

Spec == Init /\ [][Next]_vars

-----------------------------------------------------------------------------
(* Replay. *)

(* A place is a file and a line in it. *)
At(p) == files[p[1]][p[2]]

(* The places of the events that can be read, line by line.                 *)
Places == {p \in Logs \X (1 .. MaxEvents) :
             p[2] \in DOMAIN files[p[1]] /\ Readable(At(p))}

(* replay_run hands every line to json.loads and catches nothing: one line  *)
(* that is damaged, in whatever file, and it raises and shows no event.     *)
Replayable == \A l \in Logs : \A i \in DOMAIN files[l] : Readable(files[l][i])

(* Otherwise it reads the files in the order of Logs and sorts the events   *)
(* by id; the sort is stable.                                               *)
ReplayedBefore(p, q) ==
    \/ At(p).id < At(q).id
    \/ At(p).id = At(q).id /\ (p[1] < q[1] \/ (p[1] = q[1] /\ p[2] < q[2]))

-----------------------------------------------------------------------------
(* Properties. *)

Store == [pc : {"closed", "scan", "ready", "emit"}, counter : Nat,
          since : 0 .. clock, todo : SUBSET Logs, log : Logs]

(* Files, counters and scans hold what the code puts there.                 *)
TypeOK ==
    /\ files \in [Logs -> Seq(Line)]
    /\ store \in [Stores -> Store]
    /\ \A s \in Stores : store[s].pc = "emit" => store[s].counter > 0
    /\ clock \in 0 .. MaxEvents
    /\ returned \subseteq 1 .. clock

(* e was in the trace before f was emitted, and its writer could know: they *)
(* are of one command, or the command of f started later.                   *)
HappenedBefore(e, f) ==
    \/ e.by = f.by /\ e.at < f.at
    \/ e.at <= f.since

(* What happened before is replayed before, also when commands overlap:     *)
(* replay shows every command's events in the order it emitted them, after  *)
(* all events of the commands that ended before it.  Where no two stores    *)
(* are open at once, that is the order of emission.  Of a damaged trace,    *)
(* which replay refuses, it says that the lines which can still be read     *)
(* have ids in this order.                                                  *)
CausalReplay ==
    \A p, q \in Places : HappenedBefore(At(p), At(q)) => ReplayedBefore(p, q)

(* The ids of an undamaged trace are the numbers from one on, although ids  *)
(* are given back and several stores count on their own.                    *)
NoGaps ==
    Replayable
        => LET ids == {At(p).id : p \in Places}
           IN  ids = 1 .. Max({0} \cup ids)

(* The events whose emit has returned and that can no longer be read.       *)
Lost == {n \in returned : \A p \in Places : At(p).at # n}

(* Replay is all or nothing: where it raises a write was cut short, and     *)
(* where it does not no event is missing whose emit has returned, so that a *)
(* loss never goes unnoticed.  Where it raises, a reader that passes over   *)
(* damaged lines, as the store's own loader does, misses no more such       *)
(* events than writes were cut short.                                       *)
NoSilentLoss ==
    /\ ~Replayable => Cardinality(returned) < clock
    /\ Replayable => Lost = {}
    /\ Cardinality(Lost) + Cardinality(returned) <= clock
=============================================================================
