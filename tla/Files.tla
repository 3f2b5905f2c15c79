------------------------------- MODULE Files --------------------------------
(***************************************************************************)
(* What the programs keep on disk: transfers (FileTransfer) and the two key *)
(* files (KeyFiles).                                                        *)
(*                                                                          *)
(* The two share no state, so that what one does cannot help or hinder the  *)
(* other: a behaviour moves one of them (part) and the other stays as it    *)
(* began, and every state of each is reached with far fewer of both.        *)
(***************************************************************************)
EXTENDS Naturals, Sequences, FiniteSets

CONSTANTS
    Sessions, Peers, Owner, Names, NameOf, Contents, ChunkSize, Ids, Garbage,  \* of FileTransfer
    Programs, Relays, Keys,                                                    \* of KeyFiles
    None

VARIABLES
    part,
    source, sender, described, sent, wire, host, current, offset, record, meta, parts, content,
    durable, lock, dest, disk,
    program, key, lockFile, synced, identity, settled, relay, seed, seedFile, seedKept

transferVars == << source, sender, described, sent, wire, host, current, offset, record, meta,
                   parts, content, durable, lock, dest, disk >>
keyVars      == << program, key, lockFile, synced, identity, settled, relay, seed, seedFile,
seedKept >>
vars         == << part, transferVars, keyVars >>

FT == INSTANCE FileTransfer
KF == INSTANCE KeyFiles WITH lock <- lockFile

ASSUME InstanceAssumption == FT!ConstantsAssumption /\ KF!KeyAssumption

Init == part \in {"transfers", "keys"} /\ FT!Init /\ KF!Init

Next ==
    \/ part = "transfers" /\ FT!Next /\ UNCHANGED << part, keyVars >>
    \/ part = "keys" /\ KF!Next /\ UNCHANGED << part, transferVars >>

Spec == Init /\ [][Next]_vars

-----------------------------------------------------------------------------
(* Properties *)

\* A published file is the one that was offered, a resumed transfer goes on where its file
\* ends, and one session writes it (begin, resume, write_chunk and finish of sensor-files).
TransferIsSound ==
    /\ FT!TypeOK
    /\ FT!PublishedAsOffered
    /\ FT!OffsetIsLength
    /\ FT!OneWriter

\* The transfers implement Publication: nothing published is changed, or replaced while it has
\* its name, what is acknowledged is there when it is, and a power loss takes no more than the
\* names the disk does not have, that of an acknowledged file among them (finish, send_file).
Publishes == FT!Publishes

\* The name under which what was received can be resumed is lost only when its owner cancels
\* it, or in a power loss before the disk has it (cancel, finish).
NothingLost == FT!NothingLost

\* Programs started together have one identity and relays one seed, whole also after a
\* power loss (load_or_create of sensor-identity and of the relay executable).
KeysAreSound ==
    /\ KF!TypeOK
    /\ KF!OneIdentity
    /\ KF!IdentityIsWhole
    /\ KF!OneSeed

\* An identity the disk knows is never replaced (IdentityFileStore).
IdentityIsForGood == KF!IdentityIsForGood
=============================================================================
