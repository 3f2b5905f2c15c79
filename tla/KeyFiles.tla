------------------------------ MODULE KeyFiles ------------------------------
(***************************************************************************)
(* The two files that hold a secret key: identity.bin, made and rewritten   *)
(* under a lock file by IdentityFileStore (crates/sensor-identity/src/      *)
(* lib.rs), and relay-seed.bin, made in place by load_or_create of          *)
(* crates/sensor-relay/src/main.rs.                                         *)
(*                                                                          *)
(* Programs of the same user start at the same time, die at any point, and  *)
(* meet a power loss.  A file is the key in it and whether all of it is     *)
(* there.  sync_all makes contents durable.  A new name is durable only at  *)
(* some later time, since no directory is synced.                           *)
(*                                                                          *)
(* A definition marked "Mutation" is not the code: it is a plausible wrong  *)
(* version of the definition below it, used to see a property fail.         *)
(***************************************************************************)
EXTENDS Naturals, FiniteSets

CONSTANTS
    Programs,  \* what opens identity.bin: the desktop application, sensor-client
    Relays,    \* runs of the relay executable on one configuration
    Keys,
    None

KeyAssumption == None \notin Keys \cup Programs \cup Relays

VARIABLES
    program,   \* program[p]: where load_or_create or save of p is
    key,       \* key[p]: the key p has in memory
    lock,      \* the program that holds identity.bin.lock
    synced,    \* synced[p]: whether its temporary file is on the disk
    identity,  \* identity.bin
    settled,   \* identity.bin as it is after a power loss
    relay,     \* relay[q]: where load_or_create of relay q is
    seed,      \* seed[q]: the seed it has in memory
    seedFile,  \* relay-seed.bin
    seedKept   \* how much of it a power loss leaves: "none", "short" or "whole"

identityVars == << program, key, lock, synced, identity, settled >>
seedVars     == << relay, seed, seedFile, seedKept >>
vars         == << identityVars, seedVars >>

Files   == [key : Keys, whole : BOOLEAN]
NoFile  == [key |-> None, whole |-> FALSE]

TypeOK ==
    /\ program \in [Programs -> {"off", "loading", "writing", "ready"}]
    /\ key \in [Programs -> Keys \cup {None}]
    /\ \A p \in Programs : program[p] \in {"writing", "ready"} <=> key[p] # None
    /\ lock \in Programs \cup {None}
    /\ synced \in [Programs -> BOOLEAN]
    /\ {identity, settled} \subseteq Files \cup {NoFile}
    /\ relay \in [Relays -> {"off", "absent", "created", "written", "ready"}]
    /\ seed \in [Relays -> Keys \cup {None}]
    /\ seedFile \in Files \cup {NoFile}
    /\ seedKept \in {"none", "short", "whole"}

Init ==
    /\ program = [p \in Programs |-> "off"]
    /\ key = [p \in Programs |-> None]
    /\ lock = None
    /\ synced = [p \in Programs |-> FALSE]
    /\ identity = NoFile
    /\ settled = NoFile
    /\ relay = [q \in Relays |-> "off"]
    /\ seed = [q \in Relays |-> None]
    /\ seedFile = NoFile
    /\ seedKept = "none"

\* a key that was never generated before: keys do not collide
Known == {key[p] : p \in Programs} \cup {seed[q] : q \in Relays}
             \cup {identity.key, settled.key, seedFile.key}
Fresh == Keys \ Known

ProgramTo(p, state) == program' = [program EXCEPT ![p] = state]
RelayTo(q, state)   == relay' = [relay EXCEPT ![q] = state]

-----------------------------------------------------------------------------
(* IdentityFileStore *)

\* load_or_create waits for the lock
Lock(p) ==
    /\ program[p] = "off"
    /\ lock = None
    /\ lock' = p
    /\ ProgramTo(p, "loading")
    /\ UNCHANGED << key, synced, identity, settled, seedVars >>

Load(p) ==
    /\ program[p] = "loading"
    /\ identity.whole
    /\ key' = [key EXCEPT ![p] = identity.key]
    /\ lock' = None
    /\ ProgramTo(p, "ready")
    /\ UNCHANGED << synced, identity, settled, seedVars >>

\* the file cannot be read, or Windows does not unprotect the seed now: no start
LoadFails(p) ==
    /\ program[p] = "loading"
    /\ identity # NoFile
    /\ lock' = None
    /\ ProgramTo(p, "off")
    /\ UNCHANGED << key, synced, identity, settled, seedVars >>

\* Mutation: a new identity after any error of load
GenerateAnyway(p) ==
    /\ program[p] = "loading"
    /\ \E k \in Fresh : key' = [key EXCEPT ![p] = k]
    /\ synced' = [synced EXCEPT ![p] = FALSE]
    /\ ProgramTo(p, "writing")
    /\ UNCHANGED << lock, identity, settled, seedVars >>

\* only a file that is not there makes a new identity, which goes to a temporary file
Generate(p) ==
    /\ program[p] = "loading"
    /\ identity = NoFile
    /\ \E k \in Fresh : key' = [key EXCEPT ![p] = k]
    /\ synced' = [synced EXCEPT ![p] = FALSE]
    /\ ProgramTo(p, "writing")
    /\ UNCHANGED << lock, identity, settled, seedVars >>

\* the user changes the alias: the whole identity is written again
Save(p) ==
    /\ program[p] = "ready"
    /\ lock = None
    /\ lock' = p
    /\ synced' = [synced EXCEPT ![p] = FALSE]
    /\ ProgramTo(p, "writing")
    /\ UNCHANGED << key, identity, settled, seedVars >>

SyncTemporary(p) ==
    /\ program[p] = "writing"
    /\ synced' = [synced EXCEPT ![p] = TRUE]
    /\ UNCHANGED << program, key, lock, identity, settled, seedVars >>

\* persist: one rename over the old file
Persist(p) ==
    /\ program[p] = "writing"
    /\ synced[p]
    /\ identity' = [key |-> key[p], whole |-> TRUE]
    /\ lock' = None
    /\ ProgramTo(p, "ready")
    /\ UNCHANGED << key, synced, settled, seedVars >>

\* the change of alias fails, and the program goes on
SaveFails(p) ==
    /\ program[p] = "writing"
    /\ identity.key = key[p]
    /\ lock' = None
    /\ ProgramTo(p, "ready")
    /\ UNCHANGED << key, synced, identity, settled, seedVars >>

\* the program ends, dies, or gives up after an error; its lock goes with it
ProgramEnds(p) ==
    /\ program[p] # "off"
    /\ key' = [key EXCEPT ![p] = None]
    /\ lock' = IF lock = p THEN None ELSE lock
    /\ ProgramTo(p, "off")
    /\ UNCHANGED << synced, identity, settled, seedVars >>

\* the disk gets to the names: of an identity that was renamed, of a seed that was made
Settle ==
    /\ settled' = identity
    /\ seedKept' = IF seedKept = "none" /\ seedFile.whole THEN "whole" ELSE seedKept
    /\ UNCHANGED << program, key, lock, synced, identity, relay, seed, seedFile >>

-----------------------------------------------------------------------------
(* load_or_create of the relay *)

\* a file of 32 bytes is the seed, one of another length ends the start
ReadSeed(q) ==
    /\ relay[q] = "off"
    /\ seedFile.whole
    /\ seed' = [seed EXCEPT ![q] = seedFile.key]
    /\ RelayTo(q, "ready")
    /\ UNCHANGED << identityVars, seedFile, seedKept >>

FindNoSeed(q) ==
    /\ relay[q] = "off"
    /\ seedFile = NoFile
    /\ RelayTo(q, "absent")
    /\ UNCHANGED << identityVars, seed, seedFile, seedKept >>

\* Mutation: open with create and truncate
CreateSeedOver(q) ==
    /\ relay[q] = "absent"
    /\ \E k \in Fresh :
        /\ seed' = [seed EXCEPT ![q] = k]
        /\ seedFile' = [key |-> k, whole |-> FALSE]
    /\ seedKept' \in {"none", "short"}
    /\ RelayTo(q, "created")
    /\ UNCHANGED identityVars

\* create_new: an empty file, if another relay has not made it since
CreateSeed(q) ==
    /\ relay[q] = "absent"
    /\ seedFile = NoFile
    /\ \E k \in Fresh :
        /\ seed' = [seed EXCEPT ![q] = k]
        /\ seedFile' = [key |-> k, whole |-> FALSE]
    /\ seedKept' \in {"none", "short"}
    /\ RelayTo(q, "created")
    /\ UNCHANGED identityVars

WriteSeed(q) ==
    /\ relay[q] = "created"
    /\ seedFile' = [key |-> seed[q], whole |-> TRUE]
    /\ seedKept' \in {seedKept, "short", "whole"}
    /\ RelayTo(q, "written")
    /\ UNCHANGED << identityVars, seed >>

\* sync_all, and the relay uses the seed; the name may still be lost
SyncSeed(q) ==
    /\ relay[q] = "written"
    /\ seedKept' = IF seedKept = "none" THEN "none" ELSE "whole"
    /\ RelayTo(q, "ready")
    /\ UNCHANGED << identityVars, seed, seedFile >>

RelayEnds(q) ==
    /\ relay[q] # "off"
    /\ seed' = [seed EXCEPT ![q] = None]
    /\ RelayTo(q, "off")
    /\ UNCHANGED << identityVars, seedFile, seedKept >>

-----------------------------------------------------------------------------

PowerFails ==
    /\ program' = [p \in Programs |-> "off"]
    /\ key' = [p \in Programs |-> None]
    /\ lock' = None
    /\ identity' = settled
    /\ relay' = [q \in Relays |-> "off"]
    /\ seed' = [q \in Relays |-> None]
    /\ seedFile' = IF seedKept = "none" THEN NoFile
                   ELSE [seedFile EXCEPT !.whole = (seedKept = "whole")]
    /\ UNCHANGED << synced, settled, seedKept >>

Store(p) ==
    \/ Lock(p) \/ Load(p) \/ LoadFails(p) \/ Generate(p) \/ Save(p)
    \/ SyncTemporary(p) \/ Persist(p) \/ SaveFails(p) \/ ProgramEnds(p)

Seed(q) ==
    ReadSeed(q) \/ FindNoSeed(q) \/ CreateSeed(q) \/ WriteSeed(q) \/ SyncSeed(q) \/ RelayEnds(q)

Next ==
    \/ \E p \in Programs : Store(p)
    \/ Settle
    \/ \E q \in Relays : Seed(q)
    \/ PowerFails

Spec == Init /\ [][Next]_vars

-----------------------------------------------------------------------------
(* Properties *)

\* However programs start together and die, those that run have one identity, the one in
\* the file (load_or_create holds the lock from the look to the rename).
OneIdentity ==
    \A p \in Programs : program[p] = "ready" => identity = [key |-> key[p], whole |-> TRUE]

\* identity.bin is all there or not there, now and after a power loss (sync, then rename).
IdentityIsWhole == \A f \in {identity, settled} : f = NoFile \/ f.whole

\* Once the disk knows the identity nothing replaces it: no failed load, no second start,
\* no death in the middle of a save.
IdentityIsForGood == [][settled # NoFile => settled'.key = settled.key]_vars

\* The relays that run on one configuration have one seed, the one in the file, also when
\* they were started together (create_new lets one of them make it).
OneSeed ==
    \A q \in Relays : relay[q] = "ready" => seedFile = [key |-> seed[q], whole |-> TRUE]
=============================================================================
