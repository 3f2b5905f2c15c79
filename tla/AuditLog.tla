------------------------------ MODULE AuditLog ------------------------------
(***************************************************************************)
(* The signed audit log of incoming sessions (crates/sensor-audit/src/      *)
(* lib.rs).                                                                 *)
(*                                                                          *)
(* The file is a sequence of lines.  A line is a whole record or Torn: what *)
(* a write that did not finish, or a power loss, left behind.  Each record  *)
(* holds its number and the hash of the record before it; the hash of a     *)
(* record stands for all the events up to it, since hashes do not collide.  *)
(* All records carry the signature of the one identity of this device.      *)
(*                                                                          *)
(* Every run of a host opens the log once, appends to it during one         *)
(* session, and closes it by ending.  Runs may overlap: the file lock keeps *)
(* the second out.  A run may die at any point and the power may fail.      *)
(*                                                                          *)
(* A definition marked "Mutation" is not the code: it is a plausible wrong  *)
(* version of the definition below it, used to see a property fail.         *)
(***************************************************************************)
EXTENDS Naturals, Sequences

CONSTANTS
    Runs,     \* the processes, or listening jobs, that open the log
    Events,
    Torn,     \* a line that is not a record
    None

ASSUME LogAssumption ==
    /\ None \notin Runs
    /\ Torn \notin [sequence : Nat, previous : Seq(Events), event : Events]

VARIABLES
    file,      \* the lines of audit.jsonl
    durable,   \* how many of them survive a power loss
    lock,      \* the run that holds the exclusive lock
    log,       \* log[r]: what the AuditLog of run r is doing
    head,      \* head[r]: AuditLog.head
    promised   \* history: the lines up to the last append that returned Ok

logVars == << file, durable, lock, log, head, promised >>

Records == [sequence : Nat, previous : Seq(Events), event : Events]
Heads   == [records : Nat, hash : Seq(Events)]

\* "opening" before open, "writing" between the write and the sync of a line
LogState == {"opening", "ready", "writing", "failed", "closed"}

TypeOK ==
    /\ file \in Seq(Records \cup {Torn})
    /\ durable \in 0 .. Len(file)
    /\ promised \in 0 .. Len(file)
    /\ lock \in Runs \cup {None}
    /\ log \in [Runs -> LogState]
    /\ head \in [Runs -> Heads]

Genesis      == << >>
Hash(record) == Append(record.previous, record.event)
HashOf(n)    == IF n = 0 \/ file[n] = Torn THEN Genesis ELSE Hash(file[n])
HeadOfFile   == [records |-> Len(file), hash |-> HashOf(Len(file))]

LogInit ==
    /\ file = << >>
    /\ durable = 0
    /\ lock = None
    /\ log = [r \in Runs |-> "opening"]
    /\ head = [r \in Runs |-> [records |-> 0, hash |-> Genesis]]
    /\ promised = 0

\* verify: every line is a record that continues the chain
Verifies ==
    \A k \in 1 .. Len(file) :
        /\ file[k] # Torn
        /\ file[k].sequence = k - 1
        /\ file[k].previous = HashOf(k - 1)

LogTo(r, state) == log' = [log EXCEPT ![r] = state]
Line(r, e)      == [sequence |-> head[r].records, previous |-> head[r].hash, event |-> e]

-----------------------------------------------------------------------------
(* AuditLog::open and AuditLog::append *)

\* Mutation: the exclusive lock is not taken
OpenUnlocked(r) ==
    /\ log[r] = "opening"
    /\ Verifies
    /\ lock' = r
    /\ head' = [head EXCEPT ![r] = HeadOfFile]
    /\ LogTo(r, "ready")
    /\ UNCHANGED << file, durable, promised >>

\* the file is created if need be, locked, verified whole, and positioned at its end
Open(r) ==
    /\ log[r] = "opening"
    /\ lock = None
    /\ Verifies
    /\ lock' = r
    /\ head' = [head EXCEPT ![r] = HeadOfFile]
    /\ LogTo(r, "ready")
    /\ UNCHANGED << file, durable, promised >>

OpenFails(r) ==
    /\ log[r] = "opening"
    /\ lock # None \/ ~Verifies
    /\ LogTo(r, "closed")
    /\ UNCHANGED << file, durable, lock, head, promised >>

\* Mutation: success is reported without waiting for sync_data
WriteUnsynced(r, e) ==
    /\ log[r] = "ready"
    /\ file' = Append(file, Line(r, e))
    /\ promised' = Len(file')
    /\ LogTo(r, "writing")
    /\ UNCHANGED << durable, lock, head >>

\* write_all
Write(r, e) ==
    /\ log[r] = "ready"
    /\ file' = Append(file, Line(r, e))
    /\ LogTo(r, "writing")
    /\ UNCHANGED << durable, lock, head, promised >>

\* write_all fails: nothing or a part of the line is in the file
WriteFails(r) ==
    /\ log[r] = "ready"
    /\ file' \in {file, Append(file, Torn)}
    /\ LogTo(r, "failed")
    /\ UNCHANGED << durable, lock, head, promised >>

\* Mutation: the number of the record advances, the hash does not
SyncKeepingHash(r) ==
    /\ log[r] = "writing"
    /\ durable' = Len(file)
    /\ head' = [head EXCEPT ![r].records = @ + 1]
    /\ promised' = Len(file)
    /\ LogTo(r, "ready")
    /\ UNCHANGED << file, lock >>

\* sync_data, and append returns the new head
Sync(r) ==
    /\ log[r] = "writing"
    /\ durable' = Len(file)
    /\ head' = [head EXCEPT ![r] =
        [records |-> @.records + 1, hash |-> HashOf(Len(file))]]
    /\ promised' = Len(file)
    /\ LogTo(r, "ready")
    /\ UNCHANGED << file, lock >>

\* sync_data fails: the line is in the file, for now
SyncFails(r) ==
    /\ log[r] = "writing"
    /\ LogTo(r, "failed")
    /\ UNCHANGED << file, durable, lock, head, promised >>

\* the run returns or dies, and its lock goes with it
Close(r) ==
    /\ log[r] # "closed"
    /\ LogTo(r, "closed")
    /\ lock' = IF lock = r THEN None ELSE lock
    /\ UNCHANGED << file, durable, head, promised >>

\* what was not synced is lost from some line on, whose remains cannot be read
PowerFails ==
    /\ \E n \in durable .. Len(file) :
        file' \in {SubSeq(file, 1, n)} \cup
                  (IF n < Len(file) THEN {Append(SubSeq(file, 1, n), Torn)} ELSE {})
    /\ durable' = Len(file')
    /\ log' = [r \in Runs |-> IF log[r] = "opening" THEN "opening" ELSE "closed"]
    /\ lock' = None
    /\ UNCHANGED << head, promised >>

AppendStep(r) ==
    \/ \E e \in Events : Write(r, e)
    \/ WriteFails(r)
    \/ Sync(r)
    \/ SyncFails(r)

LogNext ==
    \/ \E r \in Runs : Open(r) \/ OpenFails(r) \/ AppendStep(r) \/ Close(r)
    \/ PowerFails

LogSpec == LogInit /\ [][LogNext]_logVars

-----------------------------------------------------------------------------
(* Properties *)

\* the records a reader finds: all lines, or all but a torn end
Readable == IF file # << >> /\ file[Len(file)] = Torn THEN Len(file) - 1 ELSE Len(file)

\* What readers find is an append-only ledger that keeps what append promised (an
\* append that returned Ok was synced): the records before a torn end, none after it.
Promises == INSTANCE Ledger WITH
    entries  <- [k \in 1 .. Readable |-> file[k].event],
    promised <- promised

\* The log implements Ledger (append, and what verify reads back).
KeepsItsPromises == Promises!Spec

\* Runs, failures, deaths and power losses in any order leave a chain that verifies,
\* but for one line at the end that is no record: what AuditLog::open rejects is a log
\* whose last append did not finish, or a log someone changed.
OnlyTheEndIsTorn ==
    \A k \in 1 .. Len(file) :
        \/ k = Len(file) /\ file[k] = Torn
        \/ /\ file[k] # Torn
           /\ file[k].sequence = k - 1
           /\ file[k].previous = HashOf(k - 1)

\* A run that may append holds the lock, and its head, read at open and kept by append,
\* is the head of the file as it is now.
HeadIsCurrent ==
    \A r \in Runs : log[r] = "ready" => lock = r /\ head[r] = HeadOfFile

\* The file is a chain that open accepts, but for a torn end, and whoever appends to it
\* appends to its head (verify, open, append).
ChainIsSound == OnlyTheEndIsTorn /\ HeadIsCurrent
=============================================================================
