---------------------------- MODULE FileTransfer ----------------------------
(***************************************************************************)
(* Sending a file into a directory (crates/sensor-files/src/lib.rs) with    *)
(* the endpoint protocol around it (operate and send_file in                *)
(* crates/sensor-client/src/lib.rs).                                        *)
(*                                                                          *)
(* A session is one accepted connection: the sender and the host take turns *)
(* over it.  The hosts of several sessions share one directory, each in its *)
(* own process.  Between any two file operations a host may die, another    *)
(* session may run, and the power may fail.                                 *)
(*                                                                          *)
(* A file is a sequence of blocks and its SHA-256 is its content.  A part   *)
(* file and the file published from it by a hard link are one inode, named  *)
(* here by the transfer ID.  No directory is synced: which names there are  *)
(* the disk learns at some later time, in the order of the changes, and a   *)
(* power loss takes back what it has not learned, a published name as well. *)
(* Of the contents it keeps what was synced.                                *)
(*                                                                          *)
(* A definition marked "Mutation" is not the code: it is a plausible wrong  *)
(* version of the definition below it, used to see a property fail.         *)
(***************************************************************************)
EXTENDS Naturals, Sequences

CONSTANTS
    Sessions,
    Peers,      \* identities: the owner recorded in the metadata
    Owner,      \* Owner[s]: the peer of session s
    Names,
    NameOf,     \* NameOf[p]: the name of the file peer p sends
    Contents,   \* what a file to send may contain: sequences of blocks
    ChunkSize,  \* blocks in a chunk
    Ids,        \* transfer IDs, random in the code
    Garbage,    \* a block that did not reach the disk
    None

Blocks    == UNION {{data[k] : k \in DOMAIN data} : data \in Contents}
Manifests == [name : Names, data : Contents]
Records   == [owner : Peers, manifest : Manifests]

ConstantsAssumption ==
    /\ Owner \in [Sessions -> Peers]
    /\ NameOf \in [Peers -> Names]
    /\ Contents \subseteq Seq(Blocks) /\ Garbage \notin Blocks
    /\ ChunkSize \in Nat \ {0}
    /\ None \notin Ids \cup Sessions \cup Contents \cup Manifests \cup Records
    /\ None \notin [kind : {"complete"}, manifest : Manifests]

VARIABLES
    source,    \* source[p]: the file p sends, which p may edit
    sender,    \* sender[s]: where send_file is
    described, \* described[s]: its manifest
    sent,      \* sent[s]: its offset
    wire,      \* wire[s]: the message on its way, to either side
    host,      \* host[s]: where operate is
    current,   \* current[s]: the transfer it works on
    offset,    \* offset[s]: IncomingTransfer.offset
    record,    \* record[i]: owner and manifest of transfer i, None if i is unused
    meta,      \* meta[i]: the metadata file, "none", "torn" or "whole"
    parts,     \* the part files that have a name
    content,   \* content[i]: the blocks of inode i
    durable,   \* durable[i]: the number of them that were synced
    lock,      \* lock[i]: the session holding the exclusive lock
    dest,      \* dest[n]: the inode published as n
    disk       \* parts, meta and dest as a power loss leaves them

peerVars == << source, sender, described, sent >>
hostVars == << host, current, offset >>
diskVars == << record, meta, parts, content, durable, lock, dest, disk >>
vars == << peerVars, wire, hostVars, diskVars >>

SenderState == {"start", "described", "request", "stream", "progress", "commit",
                "complete", "failed"}
HostState   == {"idle", "created", "torn", "open", "lock", "ready", "link", "unlink",
                "unlinkMeta", "cancelPart", "cancelMeta", "ended"}
MetaState   == {"none", "torn", "whole"}
Directories == [parts : SUBSET Ids, meta : [Ids -> MetaState], dest : [Names -> Ids \cup {None}]]
Directory   == [parts |-> parts, meta |-> meta, dest |-> dest]
Size(m)     == Len(m.data)
Prefix(seq, n) == SubSeq(seq, 1, n)

TypeOK ==
    /\ source \in [Peers -> Contents]
    /\ sender \in [Sessions -> SenderState]
    /\ described \in [Sessions -> Manifests \cup {None}]
    /\ \A s \in Sessions : sent[s] \in 0 .. (IF described[s] = None THEN 0 ELSE Size(described[s]))
    /\ host \in [Sessions -> HostState]
    /\ current \in [Sessions -> Ids \cup {None}]
    /\ offset \in [Sessions -> Nat]
    /\ record \in [Ids -> Records \cup {None}]
    /\ Directory \in Directories /\ disk \in Directories
    /\ \A i \in Ids : durable[i] \in 0 .. Len(content[i])
    /\ lock \in [Ids -> Sessions \cup {None}]

Init ==
    /\ source \in [Peers -> Contents]
    /\ sender = [s \in Sessions |-> "start"]
    /\ described = [s \in Sessions |-> None]
    /\ sent = [s \in Sessions |-> 0]
    /\ wire = [s \in Sessions |-> None]
    /\ host = [s \in Sessions |-> "idle"]
    /\ current = [s \in Sessions |-> None]
    /\ offset = [s \in Sessions |-> 0]
    /\ record = [i \in Ids |-> None]
    /\ meta = [i \in Ids |-> "none"]
    /\ parts = {}
    /\ content = [i \in Ids |-> << >>]
    /\ durable = [i \in Ids |-> 0]
    /\ lock = [i \in Ids |-> None]
    /\ dest = [n \in Names |-> None]
    /\ disk = Directory

-----------------------------------------------------------------------------
(* The sender: send_file *)

Sends(s, message)  == wire' = [wire EXCEPT ![s] = message]
Takes(s, kind)     == wire[s] # None /\ wire[s].kind = kind
GoesTo(s, state)   == sender' = [sender EXCEPT ![s] = state]
Chunk(data, at)    ==
    SubSeq(data, at + 1, IF at + ChunkSize < Len(data) THEN at + ChunkSize ELSE Len(data))

\* describe_file: the file is read and hashed, and not kept open
Describe(s) ==
    /\ sender[s] = "start"
    /\ described' = [described EXCEPT
        ![s] = [name |-> NameOf[Owner[s]], data |-> source[Owner[s]]]]
    /\ GoesTo(s, "described")
    /\ UNCHANGED << source, sent, wire, hostVars, diskVars >>

\* a new transfer, or the resumption of one whose ID the user gives
Ask(s) ==
    /\ sender[s] = "described"
    /\ \/ Sends(s, [kind |-> "offer", manifest |-> described[s]])
       \/ \E i \in Ids : record[i] # None /\ Sends(s, [kind |-> "resume", id |-> i])
    /\ GoesTo(s, "request")
    /\ UNCHANGED << source, described, sent, hostVars, diskVars >>

\* the file is opened again and its beginning compared with what the host has
ReceiveReady(s) ==
    /\ sender[s] = "request"
    /\ Takes(s, "ready")
    /\ LET m == wire[s] IN
        /\ m.manifest = described[s]
        /\ m.offset <= Size(m.manifest)
        /\ m.offset <= Len(source[Owner[s]])
        /\ Prefix(source[Owner[s]], m.offset) = m.prefix
        /\ sent' = [sent EXCEPT ![s] = m.offset]
    /\ Sends(s, None)
    /\ GoesTo(s, "stream")
    /\ UNCHANGED << source, described, hostVars, diskVars >>

\* the size is the one described, the bytes are those the file has now
SendChunk(s) ==
    /\ sender[s] = "stream"
    /\ sent[s] < Size(described[s])
    /\ LET blocks == Chunk(source[Owner[s]], sent[s]) IN
        /\ Len(blocks) = Len(Chunk(described[s].data, sent[s]))
        /\ Sends(s, [kind |-> "chunk", offset |-> sent[s], blocks |-> blocks])
        /\ sent' = [sent EXCEPT ![s] = @ + Len(blocks)]
    /\ GoesTo(s, "progress")
    /\ UNCHANGED << source, described, hostVars, diskVars >>

ReceiveProgress(s) ==
    /\ sender[s] = "progress"
    /\ Takes(s, "progress")
    /\ wire[s].offset = sent[s]
    /\ Sends(s, None)
    /\ GoesTo(s, "stream")
    /\ UNCHANGED << source, described, sent, hostVars, diskVars >>

SendCommit(s) ==
    /\ sender[s] = "stream"
    /\ sent[s] = Size(described[s])
    /\ Sends(s, [kind |-> "commit"])
    /\ GoesTo(s, "commit")
    /\ UNCHANGED << source, described, sent, hostVars, diskVars >>

ReceiveComplete(s) ==
    /\ sender[s] = "commit"
    /\ Takes(s, "complete")
    /\ wire[s].manifest = described[s]
    /\ Sends(s, None)
    /\ GoesTo(s, "complete")
    /\ UNCHANGED << source, described, sent, hostVars, diskVars >>

\* an error of the connection or of the file, an answer that does not fit, a timeout
SenderFails(s) ==
    /\ sender[s] \notin {"complete", "failed"}
    /\ GoesTo(s, "failed")
    /\ UNCHANGED << source, described, sent, wire, hostVars, diskVars >>

\* a client that stops early instead: the protocol has both messages
Withdraw(s) ==
    /\ sender[s] = "stream"
    /\ \E kind \in {"pause", "cancel"} : Sends(s, [kind |-> kind])
    /\ GoesTo(s, "failed")
    /\ UNCHANGED << source, described, sent, hostVars, diskVars >>

Edit(p) ==
    /\ \E data \in Contents : source' = [source EXCEPT ![p] = data]
    /\ UNCHANGED << sender, described, sent, wire, hostVars, diskVars >>

-----------------------------------------------------------------------------
(* The host: operate, Receiver and IncomingTransfer *)

HostAt(s, state) == host' = [host EXCEPT ![s] = state]
Unlocked(s)      == [i \in Ids |-> IF lock[i] = s THEN None ELSE lock[i]]
Recorded(s)      == record[current[s]].manifest

\* Receiver::begin: the destination is free; a part file with a fresh name, locked
Begin(s) ==
    /\ host[s] = "idle"
    /\ Takes(s, "offer")
    /\ LET m == wire[s].manifest IN
        /\ dest[m.name] = None
        /\ \E i \in Ids :
            /\ record[i] = None
            /\ record' = [record EXCEPT ![i] = [owner |-> Owner[s], manifest |-> m]]
            /\ parts' = parts \cup {i}
            /\ lock' = [lock EXCEPT ![i] = s]
            /\ current' = [current EXCEPT ![s] = i]
    /\ Sends(s, None)
    /\ HostAt(s, "created")
    /\ UNCHANGED << peerVars, offset, meta, content, durable, dest, disk >>

CreateMeta(s) ==
    /\ host[s] = "created"
    /\ meta' = [meta EXCEPT ![current[s]] = "torn"]
    /\ HostAt(s, "torn")
    /\ UNCHANGED << peerVars, wire, current, offset, record, parts, content, durable, lock, dest,
                    disk >>

Ready(s, i, at) ==
    Sends(s, [kind |-> "ready", id |-> i, offset |-> at, prefix |-> content[i],
              manifest |-> record[i].manifest])

\* the metadata is written and synced before the sender hears of the ID
WriteMeta(s) ==
    /\ host[s] = "torn"
    /\ meta' = [meta EXCEPT ![current[s]] = "whole"]
    /\ disk' = [disk EXCEPT !.meta[current[s]] = IF @ = "torn" THEN "whole" ELSE @]
    /\ Ready(s, current[s], 0)
    /\ HostAt(s, "ready")
    /\ UNCHANGED << peerVars, current, offset, record, parts, content, durable, lock, dest >>

\* the error path of begin removes what it created, then the session ends
BeginFails(s) ==
    /\ host[s] \in {"created", "torn"}
    /\ parts' = parts \ {current[s]}
    /\ meta' = [meta EXCEPT ![current[s]] = "none"]
    /\ lock' = Unlocked(s)
    /\ HostAt(s, "ended")
    /\ UNCHANGED << peerVars, wire, current, offset, record, content, durable, dest, disk >>

\* Receiver::resume: read the metadata and compare the owner ...
ReadMeta(s) ==
    /\ host[s] = "idle"
    /\ Takes(s, "resume")
    /\ LET i == wire[s].id IN
        /\ meta[i] = "whole"
        /\ record[i].owner = Owner[s]
        /\ current' = [current EXCEPT ![s] = i]
    /\ Sends(s, None)
    /\ HostAt(s, "open")
    /\ UNCHANGED << peerVars, offset, diskVars >>

\* ... open the part file ...
OpenPart(s) ==
    /\ host[s] = "open"
    /\ current[s] \in parts
    /\ HostAt(s, "lock")
    /\ UNCHANGED << peerVars, wire, current, offset, diskVars >>

\* ... lock it, and only then look at its length
LockPart(s) ==
    /\ host[s] = "lock"
    /\ lock[current[s]] = None
    /\ lock' = [lock EXCEPT ![current[s]] = s]
    /\ Len(content[current[s]]) <= Size(Recorded(s))
    /\ offset' = [offset EXCEPT ![s] = Len(content[current[s]])]
    /\ Ready(s, current[s], Len(content[current[s]]))
    /\ HostAt(s, "ready")
    /\ UNCHANGED << peerVars, current, record, meta, parts, content, durable, dest, disk >>

\* blocks written at a position of the file
Overwrite(data, at, blocks) ==
    Prefix(data, at) \o blocks \o SubSeq(data, at + Len(blocks) + 1, Len(data))

Written(s, blocks) ==
    LET i == current[s] IN
    /\ content' = [content EXCEPT ![i] = Overwrite(@, offset[s], blocks)]
    /\ durable' = [durable EXCEPT ![i] = IF @ < offset[s] THEN @ ELSE offset[s]]

Acceptable(s, m) ==
    /\ m.offset = offset[s]
    /\ m.offset + Len(m.blocks) <= Size(Recorded(s))

\* Mutation: a short write is taken for a whole one
ReceiveChunkShort(s) ==
    /\ host[s] = "ready"
    /\ Takes(s, "chunk")
    /\ Acceptable(s, wire[s])
    /\ \E n \in 1 .. Len(wire[s].blocks) : Written(s, Prefix(wire[s].blocks, n))
    /\ offset' = [offset EXCEPT ![s] = @ + Len(wire[s].blocks)]
    /\ Sends(s, [kind |-> "progress", offset |-> offset'[s]])
    /\ UNCHANGED << peerVars, host, current, record, meta, parts, lock, dest, disk >>

\* write_chunk
ReceiveChunk(s) ==
    /\ host[s] = "ready"
    /\ Takes(s, "chunk")
    /\ Acceptable(s, wire[s])
    /\ Written(s, wire[s].blocks)
    /\ offset' = [offset EXCEPT ![s] = @ + Len(wire[s].blocks)]
    /\ Sends(s, [kind |-> "progress", offset |-> offset'[s]])
    /\ UNCHANGED << peerVars, host, current, record, meta, parts, lock, dest, disk >>

\* write_all fails half way, or the host dies in it
TornChunk(s) ==
    /\ host[s] = "ready"
    /\ Takes(s, "chunk")
    /\ Acceptable(s, wire[s])
    /\ \E n \in 1 .. Len(wire[s].blocks) - 1 : Written(s, Prefix(wire[s].blocks, n))
    /\ lock' = Unlocked(s)
    /\ Sends(s, None)
    /\ HostAt(s, "ended")
    /\ UNCHANGED << peerVars, current, offset, record, meta, parts, dest, disk >>

\* finish: the size and the hash of everything that is in the file, then sync_all
Verify(s) ==
    /\ host[s] = "ready"
    /\ Takes(s, "commit")
    /\ offset[s] = Size(Recorded(s))
    /\ content[current[s]] = Recorded(s).data
    /\ durable' = [durable EXCEPT ![current[s]] = Len(content[current[s]])]
    /\ Sends(s, None)
    /\ HostAt(s, "link")
    /\ UNCHANGED << peerVars, current, offset, record, meta, parts, content, lock, dest, disk >>

\* Mutation: publication by renaming over what is there
LinkReplacing(s) ==
    /\ host[s] = "link"
    /\ dest' = [dest EXCEPT ![Recorded(s).name] = current[s]]
    /\ HostAt(s, "unlink")
    /\ UNCHANGED << peerVars, wire, current, offset, record, meta, parts, content, durable, lock,
                    disk >>

\* hard_link: it fails when the name is taken
Link(s) ==
    /\ host[s] = "link"
    /\ dest[Recorded(s).name] = None
    /\ dest' = [dest EXCEPT ![Recorded(s).name] = current[s]]
    /\ HostAt(s, "unlink")
    /\ UNCHANGED << peerVars, wire, current, offset, record, meta, parts, content, durable, lock,
                    disk >>

\* Mutation: the result of hard_link is ignored
UnlinkPartAnyway(s) ==
    /\ host[s] \in {"link", "unlink"}
    /\ parts' = parts \ {current[s]}
    /\ HostAt(s, "unlinkMeta")
    /\ UNCHANGED << peerVars, wire, current, offset, record, meta, content, durable, lock, dest,
                    disk >>

UnlinkPart(s) ==
    /\ host[s] = "unlink"
    /\ current[s] \in parts
    /\ parts' = parts \ {current[s]}
    /\ HostAt(s, "unlinkMeta")
    /\ UNCHANGED << peerVars, wire, current, offset, record, meta, content, durable, lock, dest,
                    disk >>

\* the metadata goes, the file is closed, the sender is told
Complete(s) ==
    /\ host[s] = "unlinkMeta"
    /\ meta[current[s]] # "none"
    /\ meta' = [meta EXCEPT ![current[s]] = "none"]
    /\ lock' = Unlocked(s)
    /\ Sends(s, [kind |-> "complete", manifest |-> Recorded(s)])
    /\ HostAt(s, "ended")
    /\ UNCHANGED << peerVars, current, offset, record, parts, content, durable, dest, disk >>

\* pause: sync_all, and the file is dropped with its lock
ReceivePause(s) ==
    /\ host[s] = "ready"
    /\ Takes(s, "pause")
    /\ durable' = [durable EXCEPT ![current[s]] = Len(content[current[s]])]
    /\ lock' = Unlocked(s)
    /\ Sends(s, [kind |-> "paused"])
    /\ HostAt(s, "ended")
    /\ UNCHANGED << peerVars, current, offset, record, meta, parts, content, dest, disk >>

\* cancel: the file is closed first, then its names are removed
ReceiveCancel(s) ==
    /\ host[s] = "ready"
    /\ Takes(s, "cancel")
    /\ lock' = Unlocked(s)
    /\ Sends(s, None)
    /\ HostAt(s, "cancelPart")
    /\ UNCHANGED << peerVars, current, offset, record, meta, parts, content, durable, dest, disk >>

CancelPart(s) ==
    /\ host[s] = "cancelPart"
    /\ current[s] \in parts
    /\ parts' = parts \ {current[s]}
    /\ HostAt(s, "cancelMeta")
    /\ UNCHANGED << peerVars, wire, current, offset, record, meta, content, durable, lock, dest,
                    disk >>

CancelMeta(s) ==
    /\ host[s] = "cancelMeta"
    /\ meta[current[s]] # "none"
    /\ meta' = [meta EXCEPT ![current[s]] = "none"]
    /\ Sends(s, [kind |-> "cancelled"])
    /\ HostAt(s, "ended")
    /\ UNCHANGED << peerVars, current, offset, record, parts, content, durable, lock, dest, disk >>

\* a refusal or an error anywhere, a timeout of the connection, the death of the process:
\* the files stay and the lock goes
HostFails(s) ==
    /\ host[s] # "ended"
    /\ lock' = Unlocked(s)
    /\ HostAt(s, "ended")
    /\ UNCHANGED << peerVars, wire, current, offset, record, meta, parts, content, durable, dest,
                    disk >>

\* the disk has the names
Settle ==
    /\ disk' = Directory
    /\ UNCHANGED << peerVars, wire, hostVars, record, meta, parts, content, durable, lock, dest >>

\* what a power loss may leave of an inode: what was synced, and after it blocks that were
\* or were not written
Survivors(i) ==
    LET rest == Len(content[i]) - durable[i] IN
    {content[i]} \cup {Prefix(content[i],
    durable[i]) \o [k \in 1 .. n |-> Garbage] : n \in 0 .. rest}

\* the sessions that have begun end, those to come go on with what is left
PowerLoss ==
    /\ \E after \in [Ids -> UNION {Survivors(i) : i \in Ids}] :
        /\ \A i \in Ids : after[i] \in Survivors(i)
        /\ content' = after
        /\ durable' = [i \in Ids |-> Len(after[i])]
    /\ parts' = disk.parts /\ meta' = disk.meta /\ dest' = disk.dest
    /\ host' = [s \in Sessions |-> IF sender[s] = "start" THEN host[s] ELSE "ended"]
    /\ lock' = [i \in Ids |-> None]
    /\ UNCHANGED << peerVars, wire, current, offset, record, disk >>

-----------------------------------------------------------------------------
SenderStep(s) ==
    \/ Describe(s) \/ Ask(s) \/ ReceiveReady(s) \/ SendChunk(s) \/ ReceiveProgress(s)
    \/ SendCommit(s) \/ ReceiveComplete(s) \/ Withdraw(s)

HostStep(s) ==
    \/ Begin(s) \/ CreateMeta(s) \/ WriteMeta(s) \/ BeginFails(s)
    \/ ReadMeta(s) \/ OpenPart(s) \/ LockPart(s)
    \/ ReceiveChunk(s) \/ TornChunk(s)
    \/ Verify(s) \/ Link(s) \/ UnlinkPart(s) \/ Complete(s)
    \/ ReceivePause(s) \/ ReceiveCancel(s) \/ CancelPart(s) \/ CancelMeta(s)

Next ==
    \/ \E s \in Sessions : SenderStep(s) \/ SenderFails(s) \/ HostStep(s) \/ HostFails(s)
    \/ \E p \in Peers : Edit(p)
    \/ Settle \/ PowerLoss

Spec == Init /\ [][Next]_vars

-----------------------------------------------------------------------------
(* Properties *)

\* What a directory holds and what senders are told, as Publication promises: a published
\* file is never changed, not through the part file that is the same inode after a crash
\* between the link and the removal, and never replaced but when a power loss took its name;
\* what the disk has learned stays; a sender is told of a file that is there (finish, operate).
Promise == INSTANCE Publication WITH
    published    <- [n \in Names |-> IF dest[n] = None THEN None ELSE content[dest[n]]],
    kept         <- {n \in Names : disk.dest[n] # None},
    acknowledged <- [s \in Sessions |-> IF Takes(s, "complete") THEN wire[s].manifest
                                        ELSE IF sender[s] = "complete" THEN described[s] ELSE None]

\* The transfer implements Publication (begin to finish, and send_file).
Publishes == Promise!Spec

\* A published file is the one its offer described, although its source may be edited
\* while it is sent, a chunk may be half written and a power loss may leave a part file
\* of the right length with blocks that never reached the disk (finish).
PublishedAsOffered ==
    \A n \in Names : dest[n] # None =>
        /\ record[dest[n]].manifest = [name |-> n, data |-> content[dest[n]]]
        /\ durable[dest[n]] = Len(content[dest[n]])

\* Where the next chunk goes is the end of the file, in every session that has the file
\* open for writing, even when it was resumed while another session finished or cancelled
\* it, or after a half-written chunk (resume, write_chunk).
OffsetIsLength ==
    \A s \in Sessions : host[s] = "ready" => offset[s] = Len(content[current[s]])

\* Two sessions never write one part file (the exclusive lock taken by begin and resume).
OneWriter ==
    \A s, t \in Sessions : s # t /\ host[s] = "ready" /\ host[t] = "ready"
      => current[s] # current[t]

\* The name of a part file that can be resumed disappears only after it was published or because its
\* owner cancelled it, or in a power loss that comes before the disk has its name: nothing else
\* that fails loses what was received (finish, cancel, begin).
NothingLost ==
    [][\A i \in parts \ parts' : meta[i] = "whole" =>
        \/ \E n \in Names : dest[n] = i
        \/ \E s \in Sessions :
            host[s] = "cancelPart" /\ current[s] = i /\ Owner[s] = record[i].owner
        \/ i \notin disk.parts /\ Directory' = disk]_vars

=============================================================================
