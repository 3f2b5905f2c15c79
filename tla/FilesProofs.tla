----------------------------- MODULE FilesProofs -----------------------------
(***************************************************************************)
(* Proofs about Files, for any sessions, peers, files, chunk size, programs *)
(* and relays.                                                              *)
(*                                                                          *)
(* First the transfers: the invariant TransferInv says who has the lock of  *)
(* a part file, how far a session and its sender are when one is told that  *)
(* its file is there, that what was published is on record, and that the    *)
(* names the disk has are those in use; each action keeps it (the lemmas    *)
(* ...Keeps), and the properties follow from it.  Then the key files in the *)
(* same way with KeyInv.  The theorems about both together are at the end.  *)
(***************************************************************************)
EXTENDS Files, SequenceTheorems, TLAPS

-----------------------------------------------------------------------------
(* Transfers: the invariant *)

AnyBlock == FT!Blocks \cup {Garbage}
Holding  == {"created", "torn", "ready", "link", "unlink", "unlinkMeta"}
Busy     == FT!HostState \ {"idle", "ended"}

Publishing == {"link", "unlink", "unlinkMeta"}

\* FT!TypeOK with the directory taken apart
Typed ==
    /\ source \in [Peers -> Contents]
    /\ sender \in [Sessions -> FT!SenderState]
    /\ described \in [Sessions -> FT!Manifests \cup {None}]
    /\ \A s \in Sessions : sent[s] \in 0 .. (IF described[s] = None THEN 0
         ELSE FT!Size(described[s]))
    /\ host \in [Sessions -> FT!HostState]
    /\ current \in [Sessions -> Ids \cup {None}]
    /\ offset \in [Sessions -> Nat]
    /\ record \in [Ids -> FT!Records \cup {None}]
    /\ parts \in SUBSET Ids
    /\ meta \in [Ids -> {"none", "torn", "whole"}]
    /\ \A i \in Ids : durable[i] \in 0 .. Len(content[i])
    /\ lock \in [Ids -> Sessions \cup {None}]
    /\ dest \in [Names -> Ids \cup {None}]
    /\ disk.parts \in SUBSET Ids
    /\ disk.meta \in [Ids -> {"none", "torn", "whole"}]
    /\ disk.dest \in [Names -> Ids \cup {None}]
    /\ disk = [parts |-> disk.parts, meta |-> disk.meta, dest |-> disk.dest]

\* What it leaves open
Shaped ==
    /\ wire = [s \in Sessions |-> wire[s]]
    /\ sent \in [Sessions -> Nat]
    /\ content \in [Ids -> Seq(AnyBlock)]
    /\ durable \in [Ids -> Nat]

\* What the two sides rely on in a message
Fits(s) ==
    /\ wire[s].kind = "offer" => wire[s].manifest \in FT!Manifests
    /\ wire[s].kind = "resume" => wire[s].id \in Ids
    /\ wire[s].kind = "ready" => wire[s].offset \in Nat
    /\ wire[s].kind = "chunk" => wire[s].blocks \in Seq(FT!Blocks)

Messages == \A s \in Sessions : wire[s] # None => Fits(s)

\* A sender has described its file before it asks
Described ==
    \A s \in Sessions :
        /\ sender[s] = "start" => sent[s] = 0
        /\ sender[s] \notin {"start", "failed"} => described[s] # None

\* A session that has not begun has no host that works, and a host publishes and answers a
\* sender that waits for it or has given up
Answered ==
    \A s \in Sessions :
        /\ sender[s] = "start" => wire[s] = None /\ host[s] \in {"idle", "ended"}
        /\ FT!Takes(s, "commit") \/ host[s] \in Publishing => sender[s] \in {"commit", "failed"}
        /\ FT!Takes(s, "complete") => sender[s] \in {"commit", "failed"} /\ host[s] = "ended"

\* A transfer a session works on is on record, as one of its peer
Working ==
    /\ \A s \in Sessions : current[s] # None =>
        record[current[s]] # None /\ record[current[s]].owner = Owner[s]
    /\ \A s \in Sessions : host[s] \in Busy => current[s] # None
    /\ \A i \in Ids : record[i] = None => meta[i] = "none" /\ content[i] = << >>

\* A transfer that begins is nobody else's, and empty
Beginning ==
    \A s \in Sessions :
        /\ host[s] \in {"idle", "created", "torn"} => offset[s] = 0
        /\ host[s] \in {"created", "torn"} =>
            /\ meta[current[s]] # "whole"
            /\ content[current[s]] = << >>
            /\ \A t \in Sessions \ {s} : current[t] # current[s]

\* Who writes or publishes has the lock
Locked == \A s \in Sessions : host[s] \in Holding => lock[current[s]] = s

\* What is about to be published was verified and is synced; what was linked is there
Verified ==
    \A s \in Sessions :
        /\ host[s] = "link" => /\ content[current[s]] = FT!Recorded(s).data
                               /\ durable[current[s]] = Len(content[current[s]])
        /\ host[s] \in {"unlink", "unlinkMeta"} => dest[FT!Recorded(s).name] = current[s]

\* A published transfer is on record, and is what the record says
OnRecord ==
    \A n \in Names : dest[n] # None =>
        /\ record[dest[n]] # None
        /\ record[dest[n]].manifest = [name |-> n, data |-> content[dest[n]]]
        /\ durable[dest[n]] = Len(content[dest[n]])

\* What the disk has is there, and of an unused ID it has nothing
OnDisk ==
    /\ \A i \in Ids : record[i] = None => disk.meta[i] = "none"
    /\ \A n \in Names : disk.dest[n] # None => dest[n] = disk.dest[n]

TransferInv ==
    /\ Typed /\ Shaped /\ Messages /\ Described /\ Answered
    /\ Working /\ Beginning /\ Locked /\ FT!OffsetIsLength /\ Verified /\ OnRecord /\ OnDisk

\* A step that is not a power loss
Powered ==
    \/ \E s \in Sessions :
        FT!SenderStep(s) \/ FT!SenderFails(s) \/ FT!HostStep(s) \/ FT!HostFails(s)
    \/ \E p \in Peers : FT!Edit(p)
    \/ FT!Settle

-----------------------------------------------------------------------------
(* Lemmas about files *)

\* A prefix is a sequence of the same blocks, and as long as it says.
LEMMA PrefixOf ==
    ASSUME NEW S, NEW seq \in Seq(S), NEW n \in 0 .. Len(seq)
    PROVE  FT!Prefix(seq, n) \in Seq(S) /\ Len(FT!Prefix(seq, n)) = n
<1>1. \A i \in 1 .. n : seq[i] \in S
  OBVIOUS
<1> QED
  BY <1>1, SubSeqProperties DEF FT!Prefix

\* Blocks written at the end are appended.
LEMMA OverwriteAtEnd ==
    ASSUME NEW S, NEW data \in Seq(S), NEW blocks \in Seq(S)
    PROVE  /\ FT!Overwrite(data, Len(data), blocks) = data \o blocks
           /\ data \o blocks \in Seq(S)
           /\ Len(data \o blocks) = Len(data) + Len(blocks)
<1>1. FT!Prefix(data, Len(data)) = data
  BY SubSeqFull DEF FT!Prefix
<1>2. SubSeq(data, Len(data) + Len(blocks) + 1, Len(data)) = << >>
  <2>1. Len(data) + Len(blocks) + 1 \in Int /\ Len(data) \in Int
          /\ Len(data) + Len(blocks) + 1 > Len(data)
    OBVIOUS
  <2> QED
    BY <2>1, SubSeqEmpty
<1>3. /\ data \o blocks \in Seq(S) /\ (data \o blocks) \o << >> = data \o blocks
      /\ Len(data \o blocks) = Len(data) + Len(blocks)
  BY ConcatProperties, ConcatEmptySeq
<1> QED
  BY <1>1, <1>2, <1>3 DEF FT!Overwrite

\* A chunk does not reach beyond the end of the file.
LEMMA ChunkWithin ==
    ASSUME FT!ConstantsAssumption, NEW data \in Contents, NEW at \in 0 .. Len(data)
    PROVE  /\ FT!Chunk(data, at) \in Seq(FT!Blocks)
           /\ at + Len(FT!Chunk(data, at)) \in 0 .. Len(data)
<1> DEFINE to == IF at + ChunkSize < Len(data) THEN at + ChunkSize ELSE Len(data)
<1>1. data \in Seq(FT!Blocks) /\ ChunkSize \in Nat \ {0}
  BY DEF FT!ConstantsAssumption
<1>2. to \in at .. Len(data)
  BY <1>1
<1>3. \A i \in at + 1 .. to : data[i] \in FT!Blocks
  BY <1>1, <1>2
<1>4. SubSeq(data, at + 1, to) \in Seq(FT!Blocks)
      /\ Len(SubSeq(data, at + 1, to)) = IF at + 1 <= to THEN to - at ELSE 0
  BY <1>1, <1>2, <1>3, SubSeqProperties
<1> QED
  BY <1>1, <1>2, <1>4 DEF FT!Chunk

\* The same of a file that was edited, wherever the chunk starts.
LEMMA ChunkIsBlocks ==
    ASSUME FT!ConstantsAssumption, NEW data \in Contents, NEW at \in Nat
    PROVE  FT!Chunk(data, at) \in Seq(FT!Blocks)
<1>1. data \in Seq(FT!Blocks) /\ ChunkSize \in Nat \ {0}
  BY DEF FT!ConstantsAssumption
<1>2. CASE at <= Len(data)
  BY <1>1, <1>2, ChunkWithin
<1>3. CASE at > Len(data)
  <2>1. /\ ~(at + ChunkSize < Len(data))
        /\ at + 1 \in Int /\ Len(data) \in Int /\ at + 1 > Len(data)
    BY <1>1, <1>3
  <2> QED
    BY <2>1, SubSeqEmpty DEF FT!Chunk
<1> QED
  BY <1>1, <1>2, <1>3

\* After a power loss a file is a sequence of blocks or garbage, and a synced file is as it was.
LEMMA SurvivorsOf ==
    ASSUME NEW i \in Ids, content[i] \in Seq(AnyBlock), durable[i] \in 0 .. Len(content[i]),
           NEW after \in FT!Survivors(i)
    PROVE  /\ after \in Seq(AnyBlock)
           /\ durable[i] = Len(content[i]) => after = content[i]
<1> DEFINE rest == Len(content[i]) - durable[i]
<1>1. CASE after = content[i]
  BY <1>1
<1>2. ASSUME NEW n \in 0 .. rest,
             after = FT!Prefix(content[i], durable[i]) \o [k \in 1 .. n |-> Garbage]
      PROVE  after \in Seq(AnyBlock) /\ (durable[i] = Len(content[i]) => after = content[i])
  <2>1. FT!Prefix(content[i], durable[i]) \in Seq(AnyBlock)
    BY PrefixOf
  <2>2. n \in Nat /\ [k \in 1 .. n |-> Garbage] \in Seq(AnyBlock)
    BY DEF AnyBlock
  <2>3. after \in Seq(AnyBlock)
    BY <1>2, <2>1, <2>2, ConcatProperties
  <2>4. ASSUME durable[i] = Len(content[i]) PROVE after = content[i]
    <3>1. FT!Prefix(content[i], durable[i]) = content[i]
      BY <2>4, SubSeqFull DEF FT!Prefix
    <3>2. n = 0 /\ [k \in 1 .. n |-> Garbage] = << >>
      BY <2>4
    <3> QED
      BY <1>2, <3>1, <3>2, ConcatEmptySeq
  <2> QED
    BY <2>3, <2>4
<1> QED
  BY <1>1, <1>2 DEF FT!Survivors

-----------------------------------------------------------------------------
(* What no step takes back *)

\* A session that has a transfer in hand has one on record.
LEMMA InHand ==
    ASSUME TransferInv, NEW s \in Sessions, host[s] \in Busy
    PROVE  /\ current[s] \in Ids
           /\ record[current[s]] \in FT!Records
           /\ FT!Recorded(s) \in FT!Manifests /\ FT!Recorded(s).name \in Names
                /\ FT!Recorded(s).data \in Contents
BY DEF TransferInv, Typed, Working, FT!Recorded, FT!Records, FT!Manifests

\* A chunk is appended, and to a file that is published nothing is.
LEMMA Appends ==
    ASSUME FT!ConstantsAssumption, TransferInv, NEW s \in Sessions, host[s] = "ready",
           FT!Takes(s, "chunk"),
           FT!Acceptable(s, wire[s]), NEW blocks \in Seq(FT!Blocks),
           Len(blocks) <= Len(wire[s].blocks),
           FT!Written(s, blocks)
    PROVE  /\ content' = [content EXCEPT ![current[s]] = @ \o blocks]
           /\ content' \in [Ids -> Seq(AnyBlock)]
           /\ Len(content'[current[s]]) = offset[s] + Len(blocks)
           /\ durable' \in [Ids -> Nat]
           /\ \A i \in Ids : durable'[i] \in 0 .. Len(content'[i])
           /\ \A i \in Ids \ {current[s]} : durable'[i] = durable[i]
           /\ \A n \in Names : dest[n] = current[s] =>
                content'[current[s]] = content[current[s]]
                  /\ durable'[current[s]] = durable[current[s]]
<1> DEFINE i == current[s]
<1>1. i \in Ids /\ FT!Recorded(s) \in FT!Manifests /\ FT!Recorded(s).data \in Contents
  BY InHand DEF Busy, FT!HostState
<1>2. /\ content[i] \in Seq(AnyBlock) /\ offset[s] = Len(content[i])
      /\ durable[i] \in 0 .. Len(content[i]) /\ content \in [Ids -> Seq(AnyBlock)]
      /\ durable \in [Ids -> Nat] /\ \A j \in Ids : durable[j] \in 0 .. Len(content[j])
  BY <1>1 DEF TransferInv, Shaped, FT!OffsetIsLength, Typed
<1>3. blocks \in Seq(AnyBlock) /\ Len(blocks) \in Nat /\ wire[s].blocks \in Seq(FT!Blocks)
  <2>1. \A k \in 1 .. Len(blocks) : blocks[k] \in AnyBlock
    BY DEF AnyBlock
  <2>2. wire[s].blocks \in Seq(FT!Blocks)
    BY DEF TransferInv, Messages, Fits, FT!Takes
  <2> QED
    BY <2>1, <2>2
<1>4. /\ FT!Overwrite(content[i], offset[s], blocks) = content[i] \o blocks
      /\ content[i] \o blocks \in Seq(AnyBlock)
      /\ Len(content[i] \o blocks) = Len(content[i]) + Len(blocks)
  BY <1>2, <1>3, OverwriteAtEnd
<1>5. content' = [content EXCEPT ![i] = content[i] \o blocks]
  BY <1>4 DEF FT!Written
<1>6. durable' = [durable EXCEPT ![i] = durable[i]]
  <2>1. (IF durable[i] < offset[s] THEN durable[i] ELSE offset[s]) = durable[i]
    BY <1>2
  <2> QED
    BY <2>1 DEF FT!Written
<1>7. ASSUME NEW n \in Names, dest[n] = i
      PROVE  content'[i] = content[i]
  <2>1. i # None
    BY <1>1 DEF FT!ConstantsAssumption
  <2>2. record[i].manifest = [name |-> n, data |-> content[i]]
    BY <1>7, <2>1 DEF TransferInv, OnRecord
  <2>3. FT!Recorded(s).data = content[i]
    BY <2>2 DEF FT!Recorded
  <2>4. wire[s].offset + Len(wire[s].blocks) <= Len(content[i]) /\ wire[s].offset = offset[s]
    BY <2>3 DEF FT!Acceptable, FT!Size
  <2>5. \A x, y, z \in Nat : x + y <= x /\ z <= y => z = 0
    OBVIOUS
  <2>6. offset[s] + Len(wire[s].blocks) <= offset[s]
    BY <1>2, <2>4
  <2>7. offset[s] \in Nat /\ Len(wire[s].blocks) \in Nat
    BY <1>2, <1>3
  <2>8. Len(blocks) = 0
    BY <1>3, <2>5, <2>6, <2>7
  <2>9. blocks = << >>
    BY <2>8, <1>3
  <2> QED
    BY <1>1, <1>2, <1>5, <2>9, ConcatEmptySeq
<1>8. content' \in [Ids -> Seq(AnyBlock)] /\ Len(content'[i]) = offset[s] + Len(blocks)
  BY <1>1, <1>2, <1>4, <1>5
<1>9. \A j \in Ids : durable'[j] \in 0 .. Len(content'[j])
  BY <1>1, <1>2, <1>3, <1>4, <1>5, <1>6
<1> QED
  BY <1>1, <1>2, <1>5, <1>6, <1>7, <1>8, <1>9

\* Half a chunk is a chunk.
LEMMA HalfChunk ==
    ASSUME TransferInv, NEW s \in Sessions, FT!Takes(s, "chunk"), NEW n \in 1 .. Len(wire[s].blocks)
    PROVE  /\ FT!Prefix(wire[s].blocks, n) \in Seq(FT!Blocks)
           /\ Len(FT!Prefix(wire[s].blocks, n)) <= Len(wire[s].blocks)
<1>1. wire[s].blocks \in Seq(FT!Blocks)
  BY DEF TransferInv, Messages, Fits, FT!Takes
<1> QED
  BY <1>1, PrefixOf

\* The disk after a power loss
LEMMA AfterPowerLoss ==
    ASSUME TransferInv, FT!PowerLoss
    PROVE  /\ content' \in [Ids -> Seq(AnyBlock)]
           /\ durable' = [i \in Ids |-> Len(content'[i])]
           /\ \A i \in Ids : durable[i] = Len(content[i]) => content'[i] = content[i]
<1>1. PICK after \in [Ids -> UNION {FT!Survivors(i) : i \in Ids}] :
        /\ \A i \in Ids : after[i] \in FT!Survivors(i)
        /\ content' = after
        /\ durable' = [i \in Ids |-> Len(after[i])]
  BY DEF FT!PowerLoss
<1>2. ASSUME NEW i \in Ids
      PROVE  after[i] \in Seq(AnyBlock) /\ (durable[i] = Len(content[i]) => after[i] = content[i])
  <2>1. content[i] \in Seq(AnyBlock) /\ durable[i] \in 0 .. Len(content[i])
    BY DEF TransferInv, Shaped, Typed
  <2> QED
    BY <1>1, <2>1, SurvivorsOf
<1> QED
  BY <1>1, <1>2

\* While the power is on a published file keeps its name, its content and what is synced of it.
LEMMA StaysPublished ==
    ASSUME FT!ConstantsAssumption, TransferInv, [Powered]_(FT!vars), NEW n \in Names, dest[n] # None
    PROVE  /\ dest'[n] = dest[n]
           /\ content'[dest[n]] = content[dest[n]]
           /\ durable'[dest[n]] = durable[dest[n]]
<1> DEFINE Stays == /\ dest'[n] = dest[n]
                    /\ content'[dest[n]] = content[dest[n]]
                    /\ durable'[dest[n]] = durable[dest[n]]
<1>t. dest \in [Names -> Ids \cup {None}] /\ dest[n] \in Ids /\ content \in [Ids -> Seq(AnyBlock)]
      /\ durable \in [Ids -> Nat] /\ durable[dest[n]] = Len(content[dest[n]])
  BY DEF TransferInv, Typed, Shaped, OnRecord
<1>1. CASE UNCHANGED << content, durable, dest >>
  BY <1>1
<1>2. ASSUME NEW s \in Sessions, FT!ReceiveChunk(s) PROVE Stays
  <2>1. /\ host[s] = "ready" /\ FT!Takes(s, "chunk") /\ FT!Acceptable(s, wire[s])
             /\ FT!Written(s, wire[s].blocks)
        /\ dest' = dest
    BY <1>2 DEF FT!ReceiveChunk
  <2>2. wire[s].blocks \in Seq(FT!Blocks) /\ Len(wire[s].blocks) <= Len(wire[s].blocks)
    BY <2>1 DEF TransferInv, Messages, Fits, FT!Takes
  <2>3. /\ content' = [content EXCEPT ![current[s]] = @ \o wire[s].blocks]
        /\ \A i \in Ids \ {current[s]} : durable'[i] = durable[i]
        /\ dest[n] = current[s] =>
             content'[current[s]] = content[current[s]]
               /\ durable'[current[s]] = durable[current[s]]
    BY <2>1, <2>2, Appends
  <2> QED
    BY <1>t, <2>1, <2>3
<1>3. ASSUME NEW s \in Sessions, FT!TornChunk(s) PROVE Stays
  <2>1. PICK k \in 1 .. Len(wire[s].blocks) - 1 : FT!Written(s, FT!Prefix(wire[s].blocks, k))
    BY <1>3 DEF FT!TornChunk
  <2>2. /\ host[s] = "ready" /\ FT!Takes(s, "chunk") /\ FT!Acceptable(s, wire[s]) /\ dest' = dest
    BY <1>3 DEF FT!TornChunk
  <2>3. FT!Prefix(wire[s].blocks, k) \in Seq(FT!Blocks)
          /\ Len(FT!Prefix(wire[s].blocks, k)) <= Len(wire[s].blocks)
    <3>1. wire[s].blocks \in Seq(FT!Blocks)
      BY <2>2 DEF TransferInv, Messages, Fits, FT!Takes
    <3>2. k \in 1 .. Len(wire[s].blocks)
      BY <3>1
    <3> QED
      BY <2>2, <3>2, HalfChunk
  <2>4. /\ content' = [content EXCEPT ![current[s]] = @ \o FT!Prefix(wire[s].blocks, k)]
        /\ \A i \in Ids \ {current[s]} : durable'[i] = durable[i]
        /\ dest[n] = current[s] =>
             content'[current[s]] = content[current[s]]
               /\ durable'[current[s]] = durable[current[s]]
    BY <2>1, <2>2, <2>3, Appends
  <2> QED
    BY <1>t, <2>2, <2>4
<1>4. ASSUME NEW s \in Sessions, FT!Verify(s) \/ FT!ReceivePause(s) PROVE Stays
  BY <1>4, <1>t DEF FT!Verify, FT!ReceivePause
<1>5. ASSUME NEW s \in Sessions, FT!Link(s) PROVE Stays
  BY <1>5, <1>t DEF FT!Link
<1>6. CASE FT!Settle
  BY <1>6, <1>1 DEF FT!Settle
<1>7. ASSUME NEW s \in Sessions, FT!SenderStep(s) \/ FT!SenderFails(s) PROVE Stays
  BY <1>7, <1>1 DEF FT!SenderStep, FT!SenderFails, FT!Describe, FT!Ask, FT!ReceiveReady,
     FT!SendChunk, FT!ReceiveProgress, FT!SendCommit, FT!ReceiveComplete, FT!Withdraw, FT!diskVars
<1>8. ASSUME NEW s \in Sessions, FT!HostStep(s) \/ FT!HostFails(s) PROVE Stays
  BY <1>8, <1>1, <1>2, <1>3, <1>4, <1>5 DEF FT!HostStep, FT!HostFails, FT!Begin, FT!CreateMeta,
     FT!WriteMeta, FT!BeginFails, FT!ReadMeta, FT!OpenPart, FT!LockPart, FT!UnlinkPart, FT!Complete,
     FT!ReceiveCancel, FT!CancelPart, FT!CancelMeta, FT!diskVars
<1>9. ASSUME NEW p \in Peers, FT!Edit(p) PROVE Stays
  BY <1>9, <1>1 DEF FT!Edit, FT!diskVars
<1>10. CASE UNCHANGED FT!vars
  BY <1>10, <1>1 DEF FT!vars, FT!diskVars
<1> QED
  BY <1>6, <1>7, <1>8, <1>9, <1>10 DEF Powered

\* What is on record stays there.
LEMMA StaysOnRecord ==
    ASSUME TransferInv, [FT!Next]_(FT!vars), NEW i \in Ids, record[i] # None
    PROVE  record'[i] = record[i]
<1>1. CASE record' = record
  BY <1>1
<1>2. ASSUME NEW s \in Sessions, FT!Begin(s) PROVE record'[i] = record[i]
  BY <1>2 DEF FT!Begin, TransferInv, Typed
<1>3. ASSUME NEW s \in Sessions, FT!SenderStep(s) \/ FT!SenderFails(s) PROVE record'[i] = record[i]
  BY <1>3 DEF FT!SenderStep, FT!SenderFails, FT!Describe, FT!Ask, FT!ReceiveReady, FT!SendChunk,
     FT!ReceiveProgress, FT!SendCommit, FT!ReceiveComplete, FT!Withdraw, FT!diskVars
<1>4. ASSUME NEW s \in Sessions, FT!HostStep(s) \/ FT!HostFails(s) PROVE record'[i] = record[i]
  BY <1>4, <1>1, <1>2 DEF FT!HostStep, FT!HostFails, FT!CreateMeta, FT!WriteMeta, FT!BeginFails,
     FT!ReadMeta, FT!OpenPart, FT!LockPart, FT!ReceiveChunk, FT!TornChunk, FT!Verify, FT!Link,
     FT!UnlinkPart, FT!Complete, FT!ReceivePause, FT!ReceiveCancel, FT!CancelPart, FT!CancelMeta,
     FT!diskVars
<1>5. CASE (\E p \in Peers : FT!Edit(p)) \/ FT!Settle \/ FT!PowerLoss \/ UNCHANGED FT!vars
  BY <1>5 DEF FT!Edit, FT!Settle, FT!PowerLoss, FT!vars, FT!diskVars
<1> QED
  BY <1>3, <1>4, <1>5 DEF FT!Next

\* What a sender and a host know of each other goes on being so.
LEMMA AnswersStay ==
    ASSUME FT!ConstantsAssumption, TransferInv, [FT!Next]_(FT!vars)
    PROVE  Answered'
<1>t. Typed /\ Answered /\ wire = [s \in Sessions |-> wire[s]]
  BY DEF TransferInv, Shaped
<1>1. CASE UNCHANGED << sender, wire, host >>
  BY <1>1, <1>t DEF Answered, FT!Takes
<1> DEFINE Others(s) == \A t \in Sessions \ {s} :
                          sender'[t] = sender[t] /\ wire'[t] = wire[t] /\ host'[t] = host[t]
           Mine(s) ==
             /\ sender'[s] = "start" => wire'[s] = None /\ host'[s] \in {"idle", "ended"}
             /\ FT!Takes(s, "commit")' \/ host'[s] \in Publishing
                  => sender'[s] \in {"commit", "failed"}
             /\ FT!Takes(s, "complete")' => sender'[s] \in {"commit", "failed"}
                  /\ host'[s] = "ended"
<1>2. ASSUME NEW s \in Sessions, Others(s), Mine(s) PROVE Answered'
  BY <1>2, <1>t DEF Answered, FT!Takes
<1>3. ASSUME NEW s \in Sessions, FT!SenderStep(s) \/ FT!SenderFails(s) PROVE Answered'
  <2>1. host' = host
    BY <1>3 DEF FT!SenderStep, FT!SenderFails, FT!Describe, FT!Ask, FT!ReceiveReady, FT!SendChunk,
       FT!ReceiveProgress, FT!SendCommit, FT!ReceiveComplete, FT!Withdraw, FT!hostVars
  <2>2. CASE FT!Describe(s)
    BY <1>t, <1>2, <2>1, <2>2 DEF FT!Describe, FT!GoesTo, Typed, Answered, FT!Takes, Publishing
  <2>9. CASE FT!SenderFails(s)
    BY <1>t, <1>2, <2>1, <2>9 DEF FT!SenderFails, FT!GoesTo, Typed, Answered, FT!Takes, FT!hostVars
  <2>3. CASE FT!Ask(s)
    BY <1>t, <1>2, <2>1, <2>3 DEF FT!Ask, FT!GoesTo, FT!Sends, Typed, Answered, FT!Takes
  <2>4. CASE FT!ReceiveReady(s) \/ FT!ReceiveProgress(s)
    BY <1>t, <1>2, <2>1, <2>4 DEF FT!ReceiveReady, FT!ReceiveProgress, FT!GoesTo, FT!Sends, Typed,
       Answered, FT!Takes
  <2>5. CASE FT!SendChunk(s)
    BY <1>t, <1>2, <2>1, <2>5 DEF FT!SendChunk, FT!GoesTo, FT!Sends, Typed, Answered, FT!Takes
  <2>6. CASE FT!SendCommit(s)
    BY <1>t, <1>2, <2>1, <2>6 DEF FT!SendCommit, FT!GoesTo, FT!Sends, Typed, Answered, FT!Takes
  <2>7. CASE FT!ReceiveComplete(s)
    BY <1>t, <1>2, <2>1, <2>7 DEF FT!ReceiveComplete, FT!GoesTo, FT!Sends, Typed, Answered,
       FT!Takes, Publishing
  <2>8. CASE FT!Withdraw(s)
    BY <1>t, <1>2, <2>1, <2>8 DEF FT!Withdraw, FT!GoesTo, FT!Sends, Typed, Answered, FT!Takes
  <2> QED
    BY <1>3, <2>2, <2>3, <2>4, <2>5, <2>6, <2>7, <2>8, <2>9 DEF FT!SenderStep
<1>4. ASSUME NEW s \in Sessions, FT!HostStep(s) \/ FT!HostFails(s) PROVE Answered'
  <2>1. sender' = sender
    BY <1>4 DEF FT!HostStep, FT!HostFails, FT!Begin, FT!CreateMeta, FT!WriteMeta, FT!BeginFails,
       FT!ReadMeta, FT!OpenPart, FT!LockPart, FT!ReceiveChunk, FT!TornChunk, FT!Verify, FT!Link,
       FT!UnlinkPart, FT!Complete, FT!ReceivePause, FT!ReceiveCancel, FT!CancelPart, FT!CancelMeta,
       FT!peerVars
  <2> USE DEF FT!HostAt, FT!Sends, FT!Takes, Publishing
  <2>2. CASE FT!Begin(s) \/ FT!ReadMeta(s) \/ FT!TornChunk(s)
    BY <1>t, <1>2, <2>1, <2>2 DEF FT!Begin, FT!ReadMeta, FT!TornChunk, Typed, Answered
  <2>3. CASE FT!CreateMeta(s) \/ FT!BeginFails(s) \/ FT!OpenPart(s) \/ FT!CancelPart(s)
    BY <1>t, <1>2, <2>1, <2>3 DEF FT!CreateMeta, FT!BeginFails, FT!OpenPart, FT!CancelPart, Typed,
       Answered
  <2>4. CASE FT!WriteMeta(s) \/ FT!LockPart(s)
    <3>1. wire'[s].kind = "ready" /\ \A t \in Sessions \ {s} : wire'[t] = wire[t]
      BY <1>t, <2>4 DEF FT!WriteMeta, FT!LockPart, FT!Ready
    <3>2. host' = [host EXCEPT ![s] = "ready"] /\ host[s] \in {"torn", "lock"}
      BY <2>4 DEF FT!WriteMeta, FT!LockPart
    <3> QED
      BY <1>t, <1>2, <2>1, <3>1, <3>2 DEF Typed, Answered
  <2>5. CASE FT!ReceiveChunk(s)
    BY <1>t, <1>2, <2>1, <2>5 DEF FT!ReceiveChunk, Typed, Answered
  <2>6. CASE FT!Verify(s)
    BY <1>t, <1>2, <2>1, <2>6 DEF FT!Verify, Typed, Answered
  <2>7. CASE FT!Link(s) \/ FT!UnlinkPart(s)
    BY <1>t, <1>2, <2>1, <2>7 DEF FT!Link, FT!UnlinkPart, Typed, Answered
  <2>8. CASE FT!Complete(s)
    BY <1>t, <1>2, <2>1, <2>8 DEF FT!Complete, Typed, Answered
  <2>9. CASE FT!ReceivePause(s) \/ FT!ReceiveCancel(s) \/ FT!CancelMeta(s)
    BY <1>t, <1>2, <2>1, <2>9 DEF FT!ReceivePause, FT!ReceiveCancel, FT!CancelMeta, Typed, Answered
  <2>10. CASE FT!HostFails(s)
    BY <1>t, <1>2, <2>1, <2>10 DEF FT!HostFails, Typed, Answered
  <2> QED
    BY <1>4, <2>2, <2>3, <2>4, <2>5, <2>6, <2>7, <2>8, <2>9, <2>10 DEF FT!HostStep
<1>5. CASE FT!PowerLoss
  <2>1. /\ sender' = sender /\ wire' = wire
        /\ \A s \in Sessions : host'[s] = IF sender[s] = "start" THEN host[s] ELSE "ended"
    BY <1>5 DEF FT!PowerLoss, FT!peerVars
  <2> QED
    BY <1>t, <2>1 DEF Answered, FT!Takes, Publishing
<1>6. CASE (\E p \in Peers : FT!Edit(p)) \/ FT!Settle \/ UNCHANGED FT!vars
  BY <1>1, <1>6 DEF FT!Edit, FT!Settle, FT!vars, FT!peerVars, FT!hostVars
<1> QED
  BY <1>3, <1>4, <1>5, <1>6 DEF FT!Next

-----------------------------------------------------------------------------
(* The steps of the sender *)

LEMMA TransfersBegin == FT!ConstantsAssumption /\ FT!Init => TransferInv
<1> SUFFICES ASSUME FT!ConstantsAssumption, FT!Init PROVE TransferInv
  OBVIOUS
<1>1. Typed
  BY DEF FT!Init, FT!Directory, Typed, FT!SenderState, FT!HostState
<1>2. Shaped /\ Messages /\ Described /\ Answered
  BY DEF FT!Init, Shaped, Messages, Described, Answered, FT!Takes, Publishing
<1>3. Working /\ Beginning /\ Locked
  BY DEF FT!Init, Working, Beginning, Locked, Holding, Busy
<1>4. FT!OffsetIsLength /\ Verified /\ OnRecord /\ OnDisk
  BY DEF FT!Init, FT!Directory, FT!OffsetIsLength, Verified, OnRecord, OnDisk
<1> QED
  BY <1>1, <1>2, <1>3, <1>4 DEF TransferInv

\* What the sender does leaves the host and the disk alone.
LEMMA SenderLeaves ==
    ASSUME TransferInv, UNCHANGED << FT!hostVars, FT!diskVars >>
    PROVE  Working' /\ Beginning' /\ Locked' /\ FT!OffsetIsLength' /\ Verified' /\ OnRecord'
             /\ OnDisk'
BY DEF TransferInv, FT!hostVars, FT!diskVars, Working, Beginning, Locked, FT!OffsetIsLength,
   Verified, OnRecord, OnDisk, FT!Recorded

LEMMA SenderKeeps ==
    ASSUME FT!ConstantsAssumption, TransferInv, NEW s \in Sessions, FT!SenderStep(s)
             \/ FT!SenderFails(s)
    PROVE  TransferInv'
<1>n. [FT!Next]_(FT!vars)
  BY DEF FT!Next
<1>d. UNCHANGED << FT!hostVars, FT!diskVars >>
  BY DEF FT!SenderStep, FT!SenderFails, FT!Describe, FT!Ask, FT!ReceiveReady, FT!SendChunk,
     FT!ReceiveProgress, FT!SendCommit, FT!ReceiveComplete, FT!Withdraw
<1>u. /\ host' = host /\ current' = current /\ offset' = offset /\ record' = record /\ meta' = meta
      /\ parts' = parts /\ content' = content /\ durable' = durable /\ lock' = lock /\ dest' = dest
      /\ disk' = disk
  BY <1>d DEF FT!hostVars, FT!diskVars
<1>s. source' = source
  BY DEF FT!SenderStep, FT!SenderFails, FT!Describe, FT!Ask, FT!ReceiveReady, FT!SendChunk,
     FT!ReceiveProgress, FT!SendCommit, FT!ReceiveComplete, FT!Withdraw
<1> DEFINE Good == Typed' /\ Shaped' /\ Described'
           Safe == /\ Good
                   /\ \A t \in Sessions \ {s} : wire'[t] = wire[t]
                   /\ wire'[s] = None \/ wire'[s] = wire[s] \/ Fits(s)'
<1>t. Typed /\ Shaped /\ Described /\ wire = [t \in Sessions |-> wire[t]]
  BY DEF TransferInv, Shaped
<1> USE DEF FT!GoesTo, FT!SenderState
<1>1. ASSUME FT!Describe(s) PROVE Safe
  <2>1. [name |-> NameOf[Owner[s]], data |-> source[Owner[s]]] \in FT!Manifests
    BY <1>t DEF FT!ConstantsAssumption, Typed, FT!Manifests
  <2>2. described' \in [Sessions -> FT!Manifests \cup {None}] /\ described'[s] # None
    BY <1>1, <1>t, <2>1 DEF FT!Describe, Typed, FT!ConstantsAssumption
  <2>3. \A t \in Sessions : sent'[t] \in 0 .. (IF described'[t] = None THEN 0
          ELSE FT!Size(described'[t]))
    <3>1. sent' = sent /\ sent[s] = 0 /\ \A t \in Sessions \ {s} : described'[t] = described[t]
      BY <1>1, <1>t DEF FT!Describe, Typed, Described
    <3>2. described'[s].data \in Seq(FT!Blocks)
      BY <2>2 DEF FT!Manifests, FT!ConstantsAssumption
    <3>3. FT!Size(described'[s]) \in Nat
      BY <3>2 DEF FT!Size
    <3> QED
      <4>1. sent'[s] = 0 /\ 0 \in 0 .. FT!Size(described'[s])
        BY <3>1, <3>3
      <4>2. \A t \in Sessions \ {s} : sent'[t] \in 0 .. (IF described'[t] = None THEN 0
              ELSE FT!Size(described'[t]))
        BY <1>t, <3>1 DEF Typed
      <4> QED
        BY <2>2, <4>1, <4>2
  <2>4. Good
    BY <1>1, <1>t, <1>u, <1>s, <2>2, <2>3 DEF FT!Describe, Typed, Shaped, Described
  <2> QED
    BY <1>1, <2>4 DEF FT!Describe
<1>2. ASSUME FT!Ask(s) PROVE Safe
  <2>1. described[s] \in FT!Manifests
    BY <1>2, <1>t DEF FT!Ask, Typed, Described
  <2>2. Good /\ \A t \in Sessions : t # s => wire'[t] = wire[t]
    BY <1>2, <1>t, <1>u, <1>s DEF FT!Ask, FT!Sends, Typed, Shaped, Described
  <2>3. Fits(s)'
    BY <1>2, <1>t, <2>1 DEF FT!Ask, FT!Sends, Fits
  <2> QED
    BY <2>2, <2>3
<1>3. ASSUME FT!ReceiveReady(s) PROVE Safe
  <2>1. sent' = [sent EXCEPT ![s] = wire[s].offset] /\ wire[s].offset <= FT!Size(wire[s].manifest)
        /\ wire[s].manifest = described[s] /\ wire[s].offset \in Nat
             /\ described[s] \in FT!Manifests
    BY <1>3, <1>t DEF FT!ReceiveReady, FT!Takes, TransferInv, Messages, Fits, Described, Typed
  <2>2. FT!Size(described[s]) \in Nat /\ described[s] # None
    BY <2>1 DEF FT!Manifests, FT!ConstantsAssumption, FT!Size
  <2>3. \A t \in Sessions : sent'[t] \in 0 .. (IF described[t] = None THEN 0
          ELSE FT!Size(described[t]))
    BY <1>t, <2>1, <2>2 DEF Typed, Shaped
  <2>4. Good
    BY <1>3, <1>t, <1>u, <1>s, <2>1, <2>3 DEF FT!ReceiveReady, FT!Sends, Typed, Shaped,
       Described
  <2> QED
    BY <1>3, <1>t, <2>4 DEF FT!ReceiveReady, FT!Sends
<1>4. ASSUME FT!SendChunk(s) PROVE Safe
  <2> DEFINE blocks == FT!Chunk(source[Owner[s]], sent[s])
  <2>1. described[s] \in FT!Manifests /\ described[s].data \in Contents
          /\ source[Owner[s]] \in Contents
    <3>1. described[s] # None /\ Owner[s] \in Peers
      BY <1>4, <1>t DEF FT!SendChunk, Described, FT!ConstantsAssumption
    <3>2. described[s] \in FT!Manifests /\ source[Owner[s]] \in Contents
      BY <1>t, <3>1 DEF Typed
    <3> QED
      BY <3>2 DEF FT!Manifests
  <2>2. sent[s] \in 0 .. Len(described[s].data) /\ described[s] # None
    BY <1>t, <2>1 DEF Typed, FT!Size, FT!ConstantsAssumption
  <2>3. sent[s] + Len(FT!Chunk(described[s].data, sent[s])) \in 0 .. Len(described[s].data)
    BY <2>1, <2>2, ChunkWithin
  <2>4. blocks \in Seq(FT!Blocks) /\ Len(blocks) = Len(FT!Chunk(described[s].data, sent[s]))
    BY <1>4, <1>t, <2>1, ChunkIsBlocks DEF FT!SendChunk, Shaped
  <2>5. sent' = [sent EXCEPT ![s] = sent[s] + Len(blocks)]
        /\ wire' = [wire EXCEPT ![s] = [kind |-> "chunk", offset |-> sent[s], blocks |-> blocks]]
    BY <1>4 DEF FT!SendChunk, FT!Sends
  <2>6. sent[s] + Len(blocks) \in 0 .. FT!Size(described[s]) /\ sent[s] + Len(blocks) \in Nat
    BY <2>3, <2>4 DEF FT!Size
  <2> HIDE DEF blocks
  <2>7. \A t \in Sessions : sent'[t] \in 0 .. (IF described[t] = None THEN 0
          ELSE FT!Size(described[t]))
    BY <1>t, <2>2, <2>5, <2>6 DEF Typed, Shaped
  <2>8. Good
    BY <1>4, <1>t, <1>u, <1>s, <2>5, <2>6, <2>7 DEF FT!SendChunk, Typed, Shaped, Described
  <2>9. Fits(s)'
    BY <1>t, <2>4, <2>5 DEF Fits
  <2> QED
    BY <1>t, <2>5, <2>8, <2>9
<1>5. ASSUME FT!ReceiveProgress(s) PROVE Safe
  BY <1>5, <1>t, <1>u, <1>s DEF FT!ReceiveProgress, FT!Sends, Typed, Shaped, Described
<1>6. ASSUME FT!SendCommit(s) PROVE Safe
  BY <1>6, <1>t, <1>u, <1>s DEF FT!SendCommit, FT!Sends, Fits, Typed, Shaped, Described
<1>7. ASSUME FT!ReceiveComplete(s) PROVE Safe
  BY <1>7, <1>t, <1>u, <1>s DEF FT!ReceiveComplete, FT!Sends, Typed, Shaped, Described
<1>8. ASSUME FT!Withdraw(s) PROVE Safe
  <2>1. PICK kind \in {"pause", "cancel"} : wire' = [wire EXCEPT ![s] = [kind |-> kind]]
    BY <1>8 DEF FT!Withdraw, FT!Sends
  <2>2. Fits(s)' /\ \A t \in Sessions \ {s} : wire'[t] = wire[t]
    BY <1>t, <2>1 DEF Fits
  <2>3. Good
    BY <1>8, <1>t, <1>u, <1>s, <2>1 DEF FT!Withdraw, Typed, Shaped, Described
  <2> QED
    BY <2>2, <2>3
<1>9. ASSUME FT!SenderFails(s) PROVE Safe
  BY <1>9, <1>t, <1>u, <1>s DEF FT!SenderFails, FT!Sends, Typed, Shaped, Described
<1>g. Safe
  BY <1>1, <1>2, <1>3, <1>4, <1>5, <1>6, <1>7, <1>8, <1>9 DEF FT!SenderStep
<1>m. Messages'
  <2>1. ASSUME NEW t \in Sessions, wire'[t] # None PROVE Fits(t)'
    BY <1>g, <2>1 DEF TransferInv, Messages, Fits
  <2> QED
    BY <2>1 DEF Messages
<1> QED
  BY <1>d, <1>g, <1>m, <1>n, AnswersStay, SenderLeaves DEF TransferInv

-----------------------------------------------------------------------------
(* The steps of the host, one by one *)

\* What a step of the host of session s keeps by itself
Kept(s) ==
    /\ Typed' /\ Shaped' /\ Working' /\ Beginning' /\ Locked' /\ FT!OffsetIsLength' /\ Verified'
    /\ \A t \in Sessions \ {s} : wire'[t] = wire[t]
    /\ wire'[s] = None \/ wire'[s] = wire[s] \/ Fits(s)'

\* A session that lets go of its locks leaves the others theirs.
LEMMA UnlockedOthers ==
    ASSUME TransferInv, NEW s \in Sessions, lock' = FT!Unlocked(s), current' = current,
           NEW state \in {"cancelPart", "ended"}, host' = [host EXCEPT ![s] = state]
    PROVE  Locked'
<1>1. host \in [Sessions -> FT!HostState]
  BY DEF TransferInv, Typed
<1>2. ASSUME NEW t \in Sessions, host'[t] \in Holding
      PROVE  lock'[current[t]] = t
  <2>1. t # s /\ host[t] \in Holding
    BY <1>1, <1>2 DEF Holding
  <2>2. current[t] \in Ids /\ lock[current[t]] = t
    BY <2>1, InHand DEF TransferInv, Locked, Holding, Busy, FT!HostState
  <2> QED
    BY <2>1, <2>2 DEF FT!Unlocked
<1> QED
  BY <1>2 DEF Locked

LEMMA BeginKeeps ==
    ASSUME FT!ConstantsAssumption, TransferInv, NEW s \in Sessions, FT!Begin(s)
    PROVE  Kept(s)
<1>t. Typed /\ Shaped /\ Working /\ Beginning /\ Locked /\ FT!OffsetIsLength /\ Verified
  BY DEF TransferInv
<1>m. wire[s].manifest \in FT!Manifests
  BY DEF FT!Begin, FT!Takes, TransferInv, Messages, Fits
<1> DEFINE new == [owner |-> Owner[s], manifest |-> wire[s].manifest]
<1>p. PICK i \in Ids :
        /\ record[i] = None
        /\ record' = [record EXCEPT ![i] = new]
        /\ parts' = parts \cup {i}
        /\ lock' = [lock EXCEPT ![i] = s]
        /\ current' = [current EXCEPT ![s] = i]
  BY DEF FT!Begin
<1>n. /\ new \in FT!Records /\ new # None /\ i # None /\ new.owner = Owner[s]
      /\ new.manifest = wire[s].manifest
  BY <1>m DEF FT!Records, FT!ConstantsAssumption
<1>e. meta[i] = "none" /\ content[i] = << >> /\ \A t \in Sessions : current[t] # i
  BY <1>n, <1>p, <1>t DEF Working
<1>u. /\ UNCHANGED << FT!peerVars, offset, meta, content, durable, dest, disk >>
      /\ host' = [host EXCEPT ![s] = "created"] /\ wire' = [wire EXCEPT ![s] = None]
      /\ host[s] = "idle"
  BY DEF FT!Begin, FT!HostAt, FT!Sends
<1> HIDE DEF new
<1>1. Typed'
  BY <1>n, <1>p, <1>t, <1>u DEF Typed, FT!HostState, FT!peerVars
<1>2. Shaped'
  BY <1>t, <1>u DEF Shaped, FT!peerVars
<1>3. Working'
  BY <1>e, <1>n, <1>p, <1>t, <1>u DEF Typed, Working, Busy, FT!HostState
<1>4. Beginning'
  BY <1>e, <1>n, <1>p, <1>t, <1>u DEF Typed, Beginning
<1>5. Locked'
  BY <1>e, <1>p, <1>t, <1>u DEF Typed, Locked, Holding
<1>6. FT!OffsetIsLength'
  BY <1>p, <1>t, <1>u DEF Typed, FT!OffsetIsLength
<1>7. Verified'
  BY <1>e, <1>p, <1>t, <1>u DEF Typed, Verified, FT!Recorded
<1>8. (\A t \in Sessions \ {s} : wire'[t] = wire[t]) /\ wire'[s] = None
  BY <1>t, <1>u DEF Shaped
<1> QED
  BY <1>1, <1>2, <1>3, <1>4, <1>5, <1>6, <1>7, <1>8 DEF Kept

LEMMA CreateMetaKeeps ==
    ASSUME FT!ConstantsAssumption, TransferInv, NEW s \in Sessions, FT!CreateMeta(s)
    PROVE  Kept(s)
<1> USE DEF FT!CreateMeta, FT!HostAt, FT!Sends
<1>h. host[s] \in Busy => current[s] \in Ids /\ record[current[s]] \in FT!Records
  BY InHand
<1>t. Typed /\ Shaped /\ Working /\ Beginning /\ Locked /\ FT!OffsetIsLength /\ Verified
  BY DEF TransferInv
<1>1. Typed'
  BY <1>h, <1>t DEF Typed, Shaped, Busy, FT!HostState, FT!peerVars, FT!Unlocked
<1>2. Shaped'
  BY <1>h, <1>t DEF Typed, Shaped, Busy, FT!HostState, FT!peerVars
<1>3. Working'
  BY <1>h, <1>t DEF Typed, Shaped, Working, Busy, FT!HostState
<1>4. Beginning'
  BY <1>h, <1>t DEF Typed, Shaped, Working, Beginning, Busy, FT!HostState
<1>5. Locked'
  BY ZenonT(30), <1>h, <1>t DEF Typed, Locked, Holding, Busy, FT!HostState, FT!Unlocked, Working
<1>6. FT!OffsetIsLength'
  BY <1>h, <1>t DEF Typed, Shaped, FT!OffsetIsLength, Locked, Holding, Busy, FT!HostState,
     Beginning
<1>7. Verified'
  BY <1>h, <1>t DEF Typed, Shaped, Verified, FT!Recorded, Locked, Holding, Busy, FT!HostState,
     Working
<1>8. /\ \A t \in Sessions \ {s} : wire'[t] = wire[t]
      /\ wire'[s] = None \/ wire'[s] = wire[s] \/ Fits(s)'
  BY <1>h, <1>t DEF Shaped, Fits, Typed, Busy, FT!HostState
<1> QED
  BY <1>1, <1>2, <1>3, <1>4, <1>5, <1>6, <1>7, <1>8 DEF Kept

LEMMA WriteMetaKeeps ==
    ASSUME FT!ConstantsAssumption, TransferInv, NEW s \in Sessions, FT!WriteMeta(s)
    PROVE  Kept(s)
<1> USE DEF FT!WriteMeta, FT!HostAt, FT!Sends, FT!Ready
<1>h. host[s] \in Busy => current[s] \in Ids /\ record[current[s]] \in FT!Records
  BY InHand
<1>t. Typed /\ Shaped /\ Working /\ Beginning /\ Locked /\ FT!OffsetIsLength /\ Verified
  BY DEF TransferInv
<1>1. Typed'
  BY <1>h, <1>t DEF Typed, Shaped, Busy, FT!HostState, FT!peerVars, FT!Unlocked
<1>2. Shaped'
  BY <1>h, <1>t DEF Typed, Shaped, Busy, FT!HostState, FT!peerVars
<1>3. Working'
  BY <1>h, <1>t DEF Typed, Shaped, Working, Busy, FT!HostState
<1>4. Beginning'
  BY <1>h, <1>t DEF Typed, Shaped, Working, Beginning, Busy, FT!HostState
<1>5. Locked'
  BY ZenonT(30), <1>h, <1>t DEF Typed, Locked, Holding, Busy, FT!HostState, FT!Unlocked, Working
<1>6. FT!OffsetIsLength'
  BY <1>h, <1>t DEF Typed, Shaped, FT!OffsetIsLength, Locked, Holding, Busy, FT!HostState,
     Beginning
<1>7. Verified'
  BY <1>h, <1>t DEF Typed, Shaped, Verified, FT!Recorded, Locked, Holding, Busy, FT!HostState,
     Working
<1>8. /\ \A t \in Sessions \ {s} : wire'[t] = wire[t]
      /\ wire'[s] = None \/ wire'[s] = wire[s] \/ Fits(s)'
  BY <1>h, <1>t DEF Shaped, Fits, Typed, Busy, FT!HostState
<1> QED
  BY <1>1, <1>2, <1>3, <1>4, <1>5, <1>6, <1>7, <1>8 DEF Kept

LEMMA BeginFailsKeeps ==
    ASSUME FT!ConstantsAssumption, TransferInv, NEW s \in Sessions, FT!BeginFails(s)
    PROVE  Kept(s)
<1> USE DEF FT!BeginFails, FT!HostAt, FT!Sends
<1>h. host[s] \in Busy => current[s] \in Ids /\ record[current[s]] \in FT!Records
  BY InHand
<1>t. Typed /\ Shaped /\ Working /\ Beginning /\ Locked /\ FT!OffsetIsLength /\ Verified
  BY DEF TransferInv
<1>1. Typed'
  BY <1>h, <1>t DEF Typed, Shaped, Busy, FT!HostState, FT!peerVars, FT!Unlocked
<1>2. Shaped'
  BY <1>h, <1>t DEF Typed, Shaped, Busy, FT!HostState, FT!peerVars
<1>3. Working'
  BY <1>h, <1>t DEF Typed, Shaped, Working, Busy, FT!HostState
<1>4. Beginning'
  BY <1>h, <1>t DEF Typed, Shaped, Working, Beginning, Busy, FT!HostState
<1>5. Locked'
  BY <1>t, UnlockedOthers DEF Typed
<1>6. FT!OffsetIsLength'
  BY <1>h, <1>t DEF Typed, Shaped, FT!OffsetIsLength, Locked, Holding, Busy, FT!HostState,
     Beginning
<1>7. Verified'
  BY <1>h, <1>t DEF Typed, Shaped, Verified, FT!Recorded, Locked, Holding, Busy, FT!HostState,
     Working
<1>8. /\ \A t \in Sessions \ {s} : wire'[t] = wire[t]
      /\ wire'[s] = None \/ wire'[s] = wire[s] \/ Fits(s)'
  BY <1>h, <1>t DEF Shaped, Fits, Typed, Busy, FT!HostState
<1> QED
  BY <1>1, <1>2, <1>3, <1>4, <1>5, <1>6, <1>7, <1>8 DEF Kept

LEMMA ReadMetaKeeps ==
    ASSUME FT!ConstantsAssumption, TransferInv, NEW s \in Sessions, FT!ReadMeta(s)
    PROVE  Kept(s)
<1> USE DEF FT!ReadMeta, FT!HostAt, FT!Sends, FT!Takes, FT!diskVars
<1>h. host[s] \in Busy => current[s] \in Ids /\ record[current[s]] \in FT!Records
  BY InHand
<1>t. Typed /\ Shaped /\ Working /\ Beginning /\ Locked /\ FT!OffsetIsLength /\ Verified
  BY DEF TransferInv
<1>i. /\ wire[s].id \in Ids /\ wire[s].id # None
      /\ record[wire[s].id] # None /\ record[wire[s].id].owner = Owner[s]
  <2>1. wire[s].id \in Ids
    BY DEF TransferInv, Messages, Fits
  <2> QED
    BY <1>t, <2>1 DEF Working, FT!ConstantsAssumption
<1>1. Typed'
  BY <1>h, <1>i, <1>t DEF Typed, Shaped, Busy, FT!HostState, FT!peerVars, FT!Unlocked
<1>2. Shaped'
  BY <1>h, <1>t DEF Typed, Shaped, Busy, FT!HostState, FT!peerVars
<1>3. Working'
  BY <1>h, <1>i, <1>t DEF Typed, Shaped, Working, Busy, FT!HostState
<1>4. Beginning'
  BY <1>h, <1>t DEF Typed, Shaped, Working, Beginning, Busy, FT!HostState
<1>5. Locked'
  BY ZenonT(30), <1>h, <1>t DEF Typed, Locked, Holding, Busy, FT!HostState, FT!Unlocked, Working
<1>6. FT!OffsetIsLength'
  BY <1>h, <1>t DEF Typed, Shaped, FT!OffsetIsLength, Locked, Holding, Busy, FT!HostState,
     Beginning
<1>7. Verified'
  BY <1>h, <1>t DEF Typed, Shaped, Verified, FT!Recorded, Locked, Holding, Busy, FT!HostState,
     Working
<1>8. /\ \A t \in Sessions \ {s} : wire'[t] = wire[t]
      /\ wire'[s] = None \/ wire'[s] = wire[s] \/ Fits(s)'
  BY <1>h, <1>t DEF Shaped, Fits, Typed, Busy, FT!HostState
<1> QED
  BY <1>1, <1>2, <1>3, <1>4, <1>5, <1>6, <1>7, <1>8 DEF Kept

LEMMA OpenPartKeeps ==
    ASSUME FT!ConstantsAssumption, TransferInv, NEW s \in Sessions, FT!OpenPart(s)
    PROVE  Kept(s)
<1> USE DEF FT!OpenPart, FT!HostAt, FT!Sends, FT!diskVars
<1>h. host[s] \in Busy => current[s] \in Ids /\ record[current[s]] \in FT!Records
  BY InHand
<1>t. Typed /\ Shaped /\ Working /\ Beginning /\ Locked /\ FT!OffsetIsLength /\ Verified
  BY DEF TransferInv
<1>1. Typed'
  BY <1>h, <1>t DEF Typed, Shaped, Busy, FT!HostState, FT!peerVars, FT!Unlocked
<1>2. Shaped'
  BY <1>h, <1>t DEF Typed, Shaped, Busy, FT!HostState, FT!peerVars
<1>3. Working'
  BY <1>h, <1>t DEF Typed, Shaped, Working, Busy, FT!HostState
<1>4. Beginning'
  BY <1>h, <1>t DEF Typed, Shaped, Working, Beginning, Busy, FT!HostState
<1>5. Locked'
  BY ZenonT(30), <1>h, <1>t DEF Typed, Locked, Holding, Busy, FT!HostState, FT!Unlocked, Working
<1>6. FT!OffsetIsLength'
  BY <1>h, <1>t DEF Typed, Shaped, FT!OffsetIsLength, Locked, Holding, Busy, FT!HostState,
     Beginning
<1>7. Verified'
  BY <1>h, <1>t DEF Typed, Shaped, Verified, FT!Recorded, Locked, Holding, Busy, FT!HostState,
     Working
<1>8. /\ \A t \in Sessions \ {s} : wire'[t] = wire[t]
      /\ wire'[s] = None \/ wire'[s] = wire[s] \/ Fits(s)'
  BY <1>h, <1>t DEF Shaped, Fits, Typed, Busy, FT!HostState
<1> QED
  BY <1>1, <1>2, <1>3, <1>4, <1>5, <1>6, <1>7, <1>8 DEF Kept

LEMMA LockPartKeeps ==
    ASSUME FT!ConstantsAssumption, TransferInv, NEW s \in Sessions, FT!LockPart(s)
    PROVE  Kept(s)
<1> USE DEF FT!LockPart, FT!HostAt, FT!Sends, FT!Ready
<1>h. host[s] \in Busy => current[s] \in Ids /\ record[current[s]] \in FT!Records
  BY InHand
<1>t. Typed /\ Shaped /\ Working /\ Beginning /\ Locked /\ FT!OffsetIsLength /\ Verified
  BY DEF TransferInv
<1>l. \A i \in Ids : Len(content[i]) \in Nat
  BY <1>t DEF Shaped
<1>1. Typed'
  BY <1>h, <1>t DEF Typed, Shaped, Busy, FT!HostState, FT!peerVars, FT!Unlocked
<1>2. Shaped'
  BY <1>h, <1>l, <1>t DEF Typed, Shaped, Busy, FT!HostState, FT!peerVars
<1>3. Working'
  BY <1>h, <1>t DEF Typed, Shaped, Working, Busy, FT!HostState
<1>4. Beginning'
  BY <1>h, <1>t DEF Typed, Shaped, Working, Beginning, Busy, FT!HostState
<1>5. Locked'
  BY <1>h, <1>t DEF FT!ConstantsAssumption, Typed, Locked, Holding, Busy, FT!HostState, Working
<1>6. FT!OffsetIsLength'
  BY <1>h, <1>t DEF Typed, Shaped, FT!OffsetIsLength, Locked, Holding, Busy, FT!HostState,
     Beginning
<1>7. Verified'
  BY <1>h, <1>t DEF Typed, Shaped, Verified, FT!Recorded, Locked, Holding, Busy, FT!HostState,
     Working
<1>8. /\ \A t \in Sessions \ {s} : wire'[t] = wire[t]
      /\ wire'[s] = None \/ wire'[s] = wire[s] \/ Fits(s)'
  BY <1>h, <1>l, <1>t DEF Shaped, Fits, Typed, Busy, FT!HostState
<1> QED
  BY <1>1, <1>2, <1>3, <1>4, <1>5, <1>6, <1>7, <1>8 DEF Kept

LEMMA VerifyKeeps ==
    ASSUME FT!ConstantsAssumption, TransferInv, NEW s \in Sessions, FT!Verify(s)
    PROVE  Kept(s)
<1> USE DEF FT!Verify, FT!HostAt, FT!Sends
<1>h. host[s] \in Busy => current[s] \in Ids /\ record[current[s]] \in FT!Records
  BY InHand
<1>t. Typed /\ Shaped /\ Working /\ Beginning /\ Locked /\ FT!OffsetIsLength /\ Verified
  BY DEF TransferInv
<1>l. \A i \in Ids : Len(content[i]) \in Nat
  BY <1>t DEF Shaped
<1>1. Typed'
  BY <1>h, <1>t DEF Typed, Shaped, Busy, FT!HostState, FT!peerVars, FT!Unlocked
<1>2. Shaped'
  BY <1>h, <1>l, <1>t DEF Typed, Shaped, Busy, FT!HostState, FT!peerVars
<1>3. Working'
  BY <1>h, <1>t DEF Typed, Shaped, Working, Busy, FT!HostState
<1>4. Beginning'
  BY <1>h, <1>t DEF Typed, Shaped, Working, Beginning, Busy, FT!HostState
<1>5. Locked'
  BY ZenonT(30), <1>h, <1>t DEF Typed, Locked, Holding, Busy, FT!HostState, FT!Unlocked, Working
<1>6. FT!OffsetIsLength'
  BY <1>h, <1>t DEF Typed, Shaped, FT!OffsetIsLength, Locked, Holding, Busy, FT!HostState,
     Beginning
<1>7. Verified'
  BY <1>h, <1>t DEF Typed, Shaped, Verified, FT!Recorded, Locked, Holding, Busy, FT!HostState,
     Working
<1>8. /\ \A t \in Sessions \ {s} : wire'[t] = wire[t]
      /\ wire'[s] = None \/ wire'[s] = wire[s] \/ Fits(s)'
  BY <1>h, <1>t DEF Shaped, Fits, Typed, Busy, FT!HostState
<1> QED
  BY <1>1, <1>2, <1>3, <1>4, <1>5, <1>6, <1>7, <1>8 DEF Kept

LEMMA LinkKeeps ==
    ASSUME FT!ConstantsAssumption, TransferInv, NEW s \in Sessions, FT!Link(s)
    PROVE  Kept(s)
<1> USE DEF FT!Link, FT!HostAt, FT!Sends
<1>h. host[s] \in Busy => current[s] \in Ids /\ record[current[s]] \in FT!Records
  BY InHand
<1>t. Typed /\ Shaped /\ Working /\ Beginning /\ Locked /\ FT!OffsetIsLength /\ Verified
  BY DEF TransferInv
<1>1. Typed'
  BY <1>h, <1>t DEF Typed, Shaped, Busy, FT!HostState, FT!peerVars, FT!Unlocked
<1>2. Shaped'
  BY <1>h, <1>t DEF Typed, Shaped, Busy, FT!HostState, FT!peerVars
<1>3. Working'
  BY <1>h, <1>t DEF Typed, Shaped, Working, Busy, FT!HostState
<1>4. Beginning'
  BY <1>h, <1>t DEF Typed, Shaped, Working, Beginning, Busy, FT!HostState
<1>5. Locked'
  BY ZenonT(30), <1>h, <1>t DEF Typed, Locked, Holding, Busy, FT!HostState, FT!Unlocked, Working
<1>6. FT!OffsetIsLength'
  BY <1>h, <1>t DEF Typed, Shaped, FT!OffsetIsLength, Locked, Holding, Busy, FT!HostState,
     Beginning
<1>7. Verified'
  <2>1. \A t \in Sessions : host[t] \in Busy => current[t] \in Ids /\ FT!Recorded(t).name \in Names
    BY InHand
  <2>2. \A i \in Ids : i # None
    BY DEF FT!ConstantsAssumption
  <2>3. ASSUME NEW t \in Sessions \ {s}, host[t] \in {"unlink", "unlinkMeta"}
        PROVE  dest'[FT!Recorded(t).name] = current[t]
    <3>1. dest[FT!Recorded(t).name] = current[t] /\ current[t] \in Ids
      BY <1>t, <2>1, <2>3 DEF Verified, Busy, FT!HostState
    <3>2. FT!Recorded(t).name # FT!Recorded(s).name
      BY <2>2, <3>1
    <3> QED
      BY <1>t, <3>1, <3>2 DEF Typed
  <2>4. dest'[FT!Recorded(s).name] = current[s]
    BY <1>t, <2>1 DEF Typed, Busy, FT!HostState
  <2> QED
    BY <1>h, <1>t, <2>3, <2>4 DEF Typed, Verified, FT!Recorded
<1>8. /\ \A t \in Sessions \ {s} : wire'[t] = wire[t]
      /\ wire'[s] = None \/ wire'[s] = wire[s] \/ Fits(s)'
  BY <1>h, <1>t DEF Shaped, Fits, Typed, Busy, FT!HostState
<1> QED
  BY <1>1, <1>2, <1>3, <1>4, <1>5, <1>6, <1>7, <1>8 DEF Kept

LEMMA UnlinkPartKeeps ==
    ASSUME FT!ConstantsAssumption, TransferInv, NEW s \in Sessions, FT!UnlinkPart(s)
    PROVE  Kept(s)
<1> USE DEF FT!UnlinkPart, FT!HostAt, FT!Sends
<1>h. host[s] \in Busy => current[s] \in Ids /\ record[current[s]] \in FT!Records
  BY InHand
<1>t. Typed /\ Shaped /\ Working /\ Beginning /\ Locked /\ FT!OffsetIsLength /\ Verified
  BY DEF TransferInv
<1>1. Typed'
  BY <1>h, <1>t DEF Typed, Shaped, Busy, FT!HostState, FT!peerVars, FT!Unlocked
<1>2. Shaped'
  BY <1>h, <1>t DEF Typed, Shaped, Busy, FT!HostState, FT!peerVars
<1>3. Working'
  BY <1>h, <1>t DEF Typed, Shaped, Working, Busy, FT!HostState
<1>4. Beginning'
  BY <1>h, <1>t DEF Typed, Shaped, Working, Beginning, Busy, FT!HostState
<1>5. Locked'
  BY ZenonT(30), <1>h, <1>t DEF Typed, Locked, Holding, Busy, FT!HostState, FT!Unlocked, Working
<1>6. FT!OffsetIsLength'
  BY <1>h, <1>t DEF Typed, Shaped, FT!OffsetIsLength, Locked, Holding, Busy, FT!HostState,
     Beginning
<1>7. Verified'
  BY <1>h, <1>t DEF Typed, Shaped, Verified, FT!Recorded, Locked, Holding, Busy, FT!HostState,
     Working
<1>8. /\ \A t \in Sessions \ {s} : wire'[t] = wire[t]
      /\ wire'[s] = None \/ wire'[s] = wire[s] \/ Fits(s)'
  BY <1>h, <1>t DEF Shaped, Fits, Typed, Busy, FT!HostState
<1> QED
  BY <1>1, <1>2, <1>3, <1>4, <1>5, <1>6, <1>7, <1>8 DEF Kept

LEMMA CompleteKeeps ==
    ASSUME FT!ConstantsAssumption, TransferInv, NEW s \in Sessions, FT!Complete(s)
    PROVE  Kept(s)
<1> USE DEF FT!Complete, FT!HostAt, FT!Sends
<1>h. host[s] \in Busy => current[s] \in Ids /\ record[current[s]] \in FT!Records
  BY InHand
<1>t. Typed /\ Shaped /\ Working /\ Beginning /\ Locked /\ FT!OffsetIsLength /\ Verified
  BY DEF TransferInv
<1>1. Typed'
  BY <1>h, <1>t DEF Typed, Shaped, Busy, FT!HostState, FT!peerVars, FT!Unlocked
<1>2. Shaped'
  BY <1>h, <1>t DEF Typed, Shaped, Busy, FT!HostState, FT!peerVars
<1>3. Working'
  BY <1>h, <1>t DEF Typed, Shaped, Working, Busy, FT!HostState
<1>4. Beginning'
  BY <1>h, <1>t DEF Typed, Shaped, Working, Beginning, Busy, FT!HostState
<1>5. Locked'
  BY <1>t, UnlockedOthers DEF Typed
<1>6. FT!OffsetIsLength'
  BY <1>h, <1>t DEF Typed, Shaped, FT!OffsetIsLength, Locked, Holding, Busy, FT!HostState,
     Beginning
<1>7. Verified'
  BY <1>h, <1>t DEF Typed, Shaped, Verified, FT!Recorded, Locked, Holding, Busy, FT!HostState,
     Working
<1>8. /\ \A t \in Sessions \ {s} : wire'[t] = wire[t]
      /\ wire'[s] = None \/ wire'[s] = wire[s] \/ Fits(s)'
  BY <1>h, <1>t DEF Shaped, Fits, Typed, Busy, FT!HostState
<1> QED
  BY <1>1, <1>2, <1>3, <1>4, <1>5, <1>6, <1>7, <1>8 DEF Kept

LEMMA ReceivePauseKeeps ==
    ASSUME FT!ConstantsAssumption, TransferInv, NEW s \in Sessions, FT!ReceivePause(s)
    PROVE  Kept(s)
<1> USE DEF FT!ReceivePause, FT!HostAt, FT!Sends
<1>h. host[s] \in Busy => current[s] \in Ids /\ record[current[s]] \in FT!Records
  BY InHand
<1>t. Typed /\ Shaped /\ Working /\ Beginning /\ Locked /\ FT!OffsetIsLength /\ Verified
  BY DEF TransferInv
<1>l. \A i \in Ids : Len(content[i]) \in Nat
  BY <1>t DEF Shaped
<1>1. Typed'
  BY <1>h, <1>t DEF Typed, Shaped, Busy, FT!HostState, FT!peerVars, FT!Unlocked
<1>2. Shaped'
  BY <1>h, <1>l, <1>t DEF Typed, Shaped, Busy, FT!HostState, FT!peerVars
<1>3. Working'
  BY <1>h, <1>t DEF Typed, Shaped, Working, Busy, FT!HostState
<1>4. Beginning'
  BY <1>h, <1>t DEF Typed, Shaped, Working, Beginning, Busy, FT!HostState
<1>5. Locked'
  BY <1>t, UnlockedOthers DEF Typed
<1>6. FT!OffsetIsLength'
  BY <1>h, <1>t DEF Typed, Shaped, FT!OffsetIsLength, Locked, Holding, Busy, FT!HostState,
     Beginning
<1>7. Verified'
  BY <1>h, <1>t DEF Typed, Shaped, Verified, FT!Recorded, Locked, Holding, Busy, FT!HostState,
     Working
<1>8. /\ \A t \in Sessions \ {s} : wire'[t] = wire[t]
      /\ wire'[s] = None \/ wire'[s] = wire[s] \/ Fits(s)'
  BY <1>h, <1>t DEF Shaped, Fits, Typed, Busy, FT!HostState
<1> QED
  BY <1>1, <1>2, <1>3, <1>4, <1>5, <1>6, <1>7, <1>8 DEF Kept

LEMMA ReceiveCancelKeeps ==
    ASSUME FT!ConstantsAssumption, TransferInv, NEW s \in Sessions, FT!ReceiveCancel(s)
    PROVE  Kept(s)
<1> USE DEF FT!ReceiveCancel, FT!HostAt, FT!Sends
<1>h. host[s] \in Busy => current[s] \in Ids /\ record[current[s]] \in FT!Records
  BY InHand
<1>t. Typed /\ Shaped /\ Working /\ Beginning /\ Locked /\ FT!OffsetIsLength /\ Verified
  BY DEF TransferInv
<1>1. Typed'
  BY <1>h, <1>t DEF Typed, Shaped, Busy, FT!HostState, FT!peerVars, FT!Unlocked
<1>2. Shaped'
  BY <1>h, <1>t DEF Typed, Shaped, Busy, FT!HostState, FT!peerVars
<1>3. Working'
  BY <1>h, <1>t DEF Typed, Shaped, Working, Busy, FT!HostState
<1>4. Beginning'
  BY <1>h, <1>t DEF Typed, Shaped, Working, Beginning, Busy, FT!HostState
<1>5. Locked'
  BY <1>t, UnlockedOthers DEF Typed
<1>6. FT!OffsetIsLength'
  BY <1>h, <1>t DEF Typed, Shaped, FT!OffsetIsLength, Locked, Holding, Busy, FT!HostState,
     Beginning
<1>7. Verified'
  BY <1>h, <1>t DEF Typed, Shaped, Verified, FT!Recorded, Locked, Holding, Busy, FT!HostState,
     Working
<1>8. /\ \A t \in Sessions \ {s} : wire'[t] = wire[t]
      /\ wire'[s] = None \/ wire'[s] = wire[s] \/ Fits(s)'
  BY <1>h, <1>t DEF Shaped, Fits, Typed, Busy, FT!HostState
<1> QED
  BY <1>1, <1>2, <1>3, <1>4, <1>5, <1>6, <1>7, <1>8 DEF Kept

LEMMA CancelPartKeeps ==
    ASSUME FT!ConstantsAssumption, TransferInv, NEW s \in Sessions, FT!CancelPart(s)
    PROVE  Kept(s)
<1> USE DEF FT!CancelPart, FT!HostAt, FT!Sends
<1>h. host[s] \in Busy => current[s] \in Ids /\ record[current[s]] \in FT!Records
  BY InHand
<1>t. Typed /\ Shaped /\ Working /\ Beginning /\ Locked /\ FT!OffsetIsLength /\ Verified
  BY DEF TransferInv
<1>1. Typed'
  BY <1>h, <1>t DEF Typed, Shaped, Busy, FT!HostState, FT!peerVars, FT!Unlocked
<1>2. Shaped'
  BY <1>h, <1>t DEF Typed, Shaped, Busy, FT!HostState, FT!peerVars
<1>3. Working'
  BY <1>h, <1>t DEF Typed, Shaped, Working, Busy, FT!HostState
<1>4. Beginning'
  BY <1>h, <1>t DEF Typed, Shaped, Working, Beginning, Busy, FT!HostState
<1>5. Locked'
  BY ZenonT(30), <1>h, <1>t DEF Typed, Locked, Holding, Busy, FT!HostState, FT!Unlocked, Working
<1>6. FT!OffsetIsLength'
  BY <1>h, <1>t DEF Typed, Shaped, FT!OffsetIsLength, Locked, Holding, Busy, FT!HostState,
     Beginning
<1>7. Verified'
  BY <1>h, <1>t DEF Typed, Shaped, Verified, FT!Recorded, Locked, Holding, Busy, FT!HostState,
     Working
<1>8. /\ \A t \in Sessions \ {s} : wire'[t] = wire[t]
      /\ wire'[s] = None \/ wire'[s] = wire[s] \/ Fits(s)'
  BY <1>h, <1>t DEF Shaped, Fits, Typed, Busy, FT!HostState
<1> QED
  BY <1>1, <1>2, <1>3, <1>4, <1>5, <1>6, <1>7, <1>8 DEF Kept

LEMMA CancelMetaKeeps ==
    ASSUME FT!ConstantsAssumption, TransferInv, NEW s \in Sessions, FT!CancelMeta(s)
    PROVE  Kept(s)
<1> USE DEF FT!CancelMeta, FT!HostAt, FT!Sends
<1>h. host[s] \in Busy => current[s] \in Ids /\ record[current[s]] \in FT!Records
  BY InHand
<1>t. Typed /\ Shaped /\ Working /\ Beginning /\ Locked /\ FT!OffsetIsLength /\ Verified
  BY DEF TransferInv
<1>1. Typed'
  BY <1>h, <1>t DEF Typed, Shaped, Busy, FT!HostState, FT!peerVars, FT!Unlocked
<1>2. Shaped'
  BY <1>h, <1>t DEF Typed, Shaped, Busy, FT!HostState, FT!peerVars
<1>3. Working'
  BY <1>h, <1>t DEF Typed, Shaped, Working, Busy, FT!HostState
<1>4. Beginning'
  BY <1>h, <1>t DEF Typed, Shaped, Working, Beginning, Busy, FT!HostState
<1>5. Locked'
  BY ZenonT(30), <1>h, <1>t DEF Typed, Locked, Holding, Busy, FT!HostState, FT!Unlocked, Working
<1>6. FT!OffsetIsLength'
  BY <1>h, <1>t DEF Typed, Shaped, FT!OffsetIsLength, Locked, Holding, Busy, FT!HostState,
     Beginning
<1>7. Verified'
  BY <1>h, <1>t DEF Typed, Shaped, Verified, FT!Recorded, Locked, Holding, Busy, FT!HostState,
     Working
<1>8. /\ \A t \in Sessions \ {s} : wire'[t] = wire[t]
      /\ wire'[s] = None \/ wire'[s] = wire[s] \/ Fits(s)'
  BY <1>h, <1>t DEF Shaped, Fits, Typed, Busy, FT!HostState
<1> QED
  BY <1>1, <1>2, <1>3, <1>4, <1>5, <1>6, <1>7, <1>8 DEF Kept

LEMMA HostFailsKeeps ==
    ASSUME FT!ConstantsAssumption, TransferInv, NEW s \in Sessions, FT!HostFails(s)
    PROVE  Kept(s)
<1> USE DEF FT!HostFails, FT!HostAt, FT!Sends
<1>h. host[s] \in Busy => current[s] \in Ids /\ record[current[s]] \in FT!Records
  BY InHand
<1>t. Typed /\ Shaped /\ Working /\ Beginning /\ Locked /\ FT!OffsetIsLength /\ Verified
  BY DEF TransferInv
<1>1. Typed'
  BY <1>h, <1>t DEF Typed, Shaped, Busy, FT!HostState, FT!peerVars, FT!Unlocked
<1>2. Shaped'
  BY <1>h, <1>t DEF Typed, Shaped, Busy, FT!HostState, FT!peerVars
<1>3. Working'
  BY <1>h, <1>t DEF Typed, Shaped, Working, Busy, FT!HostState
<1>4. Beginning'
  BY <1>h, <1>t DEF Typed, Shaped, Working, Beginning, Busy, FT!HostState
<1>5. Locked'
  BY <1>t, UnlockedOthers DEF Typed
<1>6. FT!OffsetIsLength'
  BY <1>h, <1>t DEF Typed, Shaped, FT!OffsetIsLength, Locked, Holding, Busy, FT!HostState,
     Beginning
<1>7. Verified'
  BY <1>h, <1>t DEF Typed, Shaped, Verified, FT!Recorded, Locked, Holding, Busy, FT!HostState,
     Working
<1>8. /\ \A t \in Sessions \ {s} : wire'[t] = wire[t]
      /\ wire'[s] = None \/ wire'[s] = wire[s] \/ Fits(s)'
  BY <1>h, <1>t DEF Shaped, Fits, Typed, Busy, FT!HostState
<1> QED
  BY <1>1, <1>2, <1>3, <1>4, <1>5, <1>6, <1>7, <1>8 DEF Kept

\* A chunk, whole or not, of the length that was written
LEMMA ChunkKeeps ==
    ASSUME FT!ConstantsAssumption, TransferInv, NEW s \in Sessions, FT!ReceiveChunk(s)
             \/ FT!TornChunk(s)
    PROVE  Kept(s)
<1>t. Typed /\ Shaped /\ Working /\ Beginning /\ Locked /\ FT!OffsetIsLength /\ Verified
  BY DEF TransferInv
<1>h. current[s] \in Ids /\ wire[s].blocks \in Seq(FT!Blocks) /\ lock[current[s]] = s
        /\ offset[s] \in Nat
  BY <1>t, InHand DEF Busy, FT!HostState, FT!ReceiveChunk, FT!TornChunk, TransferInv, Messages,
     Fits, FT!Takes, Locked, Holding, Typed
<1>w. PICK blocks \in Seq(FT!Blocks) :
        /\ Len(blocks) <= Len(wire[s].blocks)
        /\ FT!Written(s, blocks)
        /\ FT!ReceiveChunk(s) => blocks = wire[s].blocks
  <2>1. CASE FT!ReceiveChunk(s)
    BY <1>h, <2>1 DEF FT!ReceiveChunk
  <2>2. CASE FT!TornChunk(s) /\ ~FT!ReceiveChunk(s)
    <3>1. PICK k \in 1 .. Len(wire[s].blocks) - 1 : FT!Written(s, FT!Prefix(wire[s].blocks, k))
      BY <2>2 DEF FT!TornChunk
    <3>2. k \in 1 .. Len(wire[s].blocks) /\ FT!Takes(s, "chunk")
      BY <1>h, <2>2 DEF FT!TornChunk
    <3> QED
      BY <2>2, <3>1, <3>2, HalfChunk
  <2> QED
    BY <2>1, <2>2
<1>a. /\ content' = [content EXCEPT ![current[s]] = @ \o blocks]
      /\ content' \in [Ids -> Seq(AnyBlock)]
      /\ Len(content'[current[s]]) = offset[s] + Len(blocks)
      /\ durable' \in [Ids -> Nat]
      /\ \A i \in Ids : durable'[i] \in 0 .. Len(content'[i])
      /\ \A i \in Ids \ {current[s]} : durable'[i] = durable[i]
      /\ \A n \in Names : dest[n] = current[s] =>
           content'[current[s]] = content[current[s]] /\ durable'[current[s]] = durable[current[s]]
  <2>1. host[s] = "ready" /\ FT!Takes(s, "chunk") /\ FT!Acceptable(s, wire[s])
    BY DEF FT!ReceiveChunk, FT!TornChunk
  <2> QED
    BY <1>w, <2>1, Appends
<1>c. \A i \in Ids \ {current[s]} : content'[i] = content[i]
  BY <1>a, <1>t DEF Shaped
<1>u. UNCHANGED << FT!peerVars, current, record, meta, parts, dest, disk >> /\ host[s] = "ready"
  BY DEF FT!ReceiveChunk, FT!TornChunk
<1>o. \A t \in Sessions \ {s} : host[t] \in Holding => current[t] \in Ids \ {current[s]}
  <2>1. \A t \in Sessions : host[t] \in Busy => current[t] \in Ids
    BY InHand
  <2> QED
    BY <1>h, <1>t, <2>1 DEF Locked, Holding, Busy, FT!HostState
<1>r. \/ /\ host' = host /\ lock' = lock /\ offset' = [offset EXCEPT ![s] = @ + Len(blocks)]
         /\ wire' = [wire EXCEPT ![s] = [kind |-> "progress", offset |-> offset'[s]]]
      \/ /\ host' = [host EXCEPT ![s] = "ended"] /\ offset' = offset
         /\ lock' = FT!Unlocked(s) /\ wire' = [wire EXCEPT ![s] = None]
  BY <1>w DEF FT!ReceiveChunk, FT!TornChunk, FT!Sends, FT!HostAt
<1>i. Len(blocks) \in Nat /\ offset[s] + Len(blocks) \in Nat
  BY <1>h
<1>1. Typed'
  <2>1. host' \in [Sessions -> FT!HostState] /\ offset' \in [Sessions -> Nat]
    BY ZenonT(30), <1>i, <1>r, <1>t DEF Typed, FT!HostState
  <2>2. lock' \in [Ids -> Sessions \cup {None}]
    BY <1>r, <1>t DEF Typed, FT!Unlocked
  <2> QED
    BY <1>a, <1>t, <1>u, <2>1, <2>2 DEF Typed, FT!peerVars
<1>2. Shaped'
  BY <1>a, <1>r, <1>t, <1>u DEF Shaped, FT!peerVars
<1>3. Working'
  <2>1. record[current[s]] # None
    BY <1>h, <1>t, <1>u DEF Working, Busy, FT!HostState
  <2> QED
    BY <1>c, <1>h, <1>r, <1>t, <1>u, <2>1 DEF Typed, Working, Busy, FT!HostState
<1>4. Beginning'
  <2>1. \A t \in Sessions \ {s} : host'[t] = host[t] /\ offset'[t] = offset[t]
    BY <1>r, <1>t DEF Typed
  <2>2. host'[s] \in {"ready", "ended"}
    BY <1>r, <1>t, <1>u DEF Typed
  <2>3. ASSUME NEW t \in Sessions \ {s}, host[t] \in {"created", "torn"}
        PROVE  content'[current[t]] = content[current[t]]
    BY <1>c, <1>o, <2>3 DEF Holding
  <2> QED
    BY <1>t, <1>u, <2>1, <2>2, <2>3 DEF Beginning
<1>5. Locked'
  BY <1>h, <1>r, <1>t, <1>o, <1>u DEF Typed, Locked, Holding, FT!Unlocked
<1>6. FT!OffsetIsLength'
  BY <1>a, <1>c, <1>h, <1>i, <1>o, <1>r, <1>t, <1>u DEF Typed, FT!OffsetIsLength, Holding
<1>7. Verified'
  <2>1. \A t \in Sessions \ {s} : host'[t] = host[t]
    BY <1>r, <1>t DEF Typed
  <2>2. host'[s] \in {"ready", "ended"}
    BY <1>r, <1>t, <1>u DEF Typed
  <2>3. ASSUME NEW t \in Sessions \ {s}, host[t] \in {"link", "unlink", "unlinkMeta"}
        PROVE  /\ content'[current[t]] = content[current[t]]
               /\ durable'[current[t]] = durable[current[t]]
    BY <1>a, <1>c, <1>o, <2>3 DEF Holding
  <2> QED
    BY <1>t, <1>u, <2>1, <2>2, <2>3 DEF Verified, FT!Recorded
<1>8. /\ \A t \in Sessions \ {s} : wire'[t] = wire[t]
      /\ wire'[s] = None \/ wire'[s] = wire[s] \/ Fits(s)'
  BY <1>r, <1>t DEF Shaped, Fits
<1> QED
  BY <1>1, <1>2, <1>3, <1>4, <1>5, <1>6, <1>7, <1>8 DEF Kept

\* A host writes the metadata of its own transfer and takes no name away that the disk has.
LEMMA HostLeavesDisk ==
    ASSUME FT!ConstantsAssumption, TransferInv, NEW s \in Sessions, FT!HostStep(s)
             \/ FT!HostFails(s)
    PROVE  OnDisk'
<1>n. [FT!Next]_(FT!vars) /\ [Powered]_(FT!vars)
  BY DEF FT!Next, Powered
<1>1. \A i \in Ids : record'[i] = None => record[i] = None
  BY <1>n, StaysOnRecord DEF FT!ConstantsAssumption
<1>2. \A n \in Names : dest[n] # None => dest'[n] = dest[n]
  BY <1>n, StaysPublished
<1>3. CASE disk' = disk
  BY <1>1, <1>2, <1>3 DEF TransferInv, OnDisk
<1>4. CASE FT!WriteMeta(s)
  <2>1. current[s] \in Ids /\ record[current[s]] # None /\ record' = record
    BY <1>4, InHand DEF FT!WriteMeta, Busy, FT!HostState, FT!ConstantsAssumption
  <2>2. disk'.dest = disk.dest /\ \A i \in Ids \ {current[s]} : disk'.meta[i] = disk.meta[i]
    BY <1>4 DEF FT!WriteMeta, TransferInv, Typed
  <2> QED
    BY <1>1, <1>2, <2>1, <2>2 DEF TransferInv, OnDisk
<1> QED
  BY <1>3, <1>4 DEF FT!HostStep, FT!HostFails, FT!Begin, FT!CreateMeta, FT!BeginFails, FT!ReadMeta,
     FT!OpenPart, FT!LockPart, FT!ReceiveChunk, FT!TornChunk, FT!Verify, FT!Link, FT!UnlinkPart,
     FT!Complete, FT!ReceivePause, FT!ReceiveCancel, FT!CancelPart, FT!CancelMeta, FT!diskVars

LEMMA HostKeeps ==
    ASSUME FT!ConstantsAssumption, TransferInv, NEW s \in Sessions, FT!HostStep(s)
             \/ FT!HostFails(s)
    PROVE  TransferInv'
<1>n. [FT!Next]_(FT!vars) /\ [Powered]_(FT!vars)
  BY DEF FT!Next, Powered
<1>1. Kept(s)
  BY BeginKeeps, CreateMetaKeeps, WriteMetaKeeps, BeginFailsKeeps, ReadMetaKeeps, OpenPartKeeps,
     LockPartKeeps, ChunkKeeps, VerifyKeeps, LinkKeeps, UnlinkPartKeeps, CompleteKeeps,
     ReceivePauseKeeps, ReceiveCancelKeeps, CancelPartKeeps, CancelMetaKeeps, HostFailsKeeps DEF
     FT!HostStep
<1>2. UNCHANGED FT!peerVars
  BY DEF FT!HostStep, FT!HostFails, FT!Begin, FT!CreateMeta, FT!WriteMeta, FT!BeginFails,
     FT!ReadMeta, FT!OpenPart, FT!LockPart, FT!ReceiveChunk, FT!TornChunk, FT!Verify, FT!Link,
     FT!UnlinkPart, FT!Complete, FT!ReceivePause, FT!ReceiveCancel, FT!CancelPart, FT!CancelMeta
<1>3. Described'
  BY <1>2 DEF FT!peerVars, TransferInv, Described
<1>4. Messages'
  <2>1. ASSUME NEW t \in Sessions, wire'[t] # None PROVE Fits(t)'
    BY <1>1, <2>1 DEF Kept, TransferInv, Messages, Fits
  <2> QED
    BY <2>1 DEF Messages
<1>5. OnRecord'
  <2>1. ASSUME NEW n \in Names, dest[n] # None
        PROVE  /\ record'[dest'[n]] # None
               /\ record'[dest'[n]].manifest = [name |-> n, data |-> content'[dest'[n]]]
               /\ durable'[dest'[n]] = Len(content'[dest'[n]])
    <3>1. dest[n] \in Ids
      BY <2>1 DEF TransferInv, Typed
    <3> QED
      BY <1>n, <2>1, <3>1, StaysPublished, StaysOnRecord DEF TransferInv, OnRecord
  <2>2. ASSUME NEW n \in Names, dest[n] = None, dest'[n] # None
        PROVE  /\ record'[dest'[n]] # None
               /\ record'[dest'[n]].manifest = [name |-> n, data |-> content'[dest'[n]]]
               /\ durable'[dest'[n]] = Len(content'[dest'[n]])
    <3>1. FT!Link(s)
      BY <2>2 DEF FT!HostStep, FT!HostFails, FT!Begin, FT!CreateMeta, FT!WriteMeta, FT!BeginFails,
         FT!ReadMeta, FT!OpenPart, FT!LockPart, FT!ReceiveChunk, FT!TornChunk, FT!Verify,
         FT!UnlinkPart, FT!Complete, FT!ReceivePause, FT!ReceiveCancel, FT!CancelPart,
         FT!CancelMeta, FT!diskVars
    <3>2. host[s] \in Busy
      BY <3>1 DEF FT!Link, Busy, FT!HostState
    <3>3. /\ current[s] \in Ids /\ record[current[s]] \in FT!Records
          /\ FT!Recorded(s) \in FT!Manifests /\ FT!Recorded(s).name \in Names
      BY <3>2, InHand
    <3>4. n = FT!Recorded(s).name /\ dest'[n] = current[s]
            /\ UNCHANGED << record, content, durable >>
      BY <2>2, <3>1, <3>3 DEF FT!Link, TransferInv, Typed
    <3>5. FT!Recorded(s) = [name |-> n, data |-> content[current[s]]]
      BY <3>1, <3>3, <3>4 DEF FT!Link, TransferInv, Verified, FT!Manifests
    <3>6. durable[current[s]] = Len(content[current[s]]) /\ record[current[s]] # None
      BY <3>1, <3>3 DEF FT!Link, TransferInv, Verified, FT!ConstantsAssumption
    <3> QED
      BY <3>4, <3>5, <3>6 DEF FT!Recorded
  <2> QED
    BY <2>1, <2>2 DEF OnRecord
<1>6. OnDisk'
  BY <1>n, HostLeavesDisk DEF TransferInv
<1> QED
  BY <1>1, <1>3, <1>4, <1>5, <1>6, <1>n, AnswersStay DEF Kept, TransferInv

-----------------------------------------------------------------------------
LEMMA EditKeeps ==
    ASSUME TransferInv, NEW p \in Peers, FT!Edit(p)
    PROVE  TransferInv'
<1>1. UNCHANGED << sender, described, sent, wire, host, current, offset, record, meta, parts,
      content,
                   durable, lock, dest, disk >> /\ source' \in [Peers -> Contents]
  BY DEF FT!Edit, FT!hostVars, FT!diskVars, TransferInv, Typed
<1> QED
  BY <1>1 DEF TransferInv, Typed, Shaped, Messages, Fits, Described, Answered, FT!Takes,
     Working, Beginning, Locked, FT!OffsetIsLength, Verified, OnRecord, OnDisk, FT!Recorded

LEMMA SettleKeeps ==
    ASSUME TransferInv, FT!Settle
    PROVE  TransferInv'
<1>1. UNCHANGED << source, sender, described, sent, wire, host, current, offset, record, meta,
      parts,
                   content, durable, lock, dest >>
      /\ disk' = [parts |-> parts, meta |-> meta, dest |-> dest]
  BY DEF FT!Settle, FT!peerVars, FT!hostVars, FT!Directory
<1>2. Typed' /\ OnDisk'
  BY <1>1 DEF TransferInv, Typed, OnDisk, Working
<1> QED
  BY <1>1, <1>2 DEF TransferInv, Shaped, Messages, Fits, Described, Answered, FT!Takes, Working,
     Beginning, Locked, FT!OffsetIsLength, Verified, OnRecord, FT!Recorded

LEMMA PowerKeeps ==
    ASSUME FT!ConstantsAssumption, TransferInv, FT!PowerLoss
    PROVE  TransferInv'
<1>n. [FT!Next]_(FT!vars)
  BY DEF FT!Next
<1>1. /\ UNCHANGED << source, sender, described, sent, wire, current, offset, record, disk >>
      /\ parts' = disk.parts /\ meta' = disk.meta /\ dest' = disk.dest
      /\ host' = [s \in Sessions |-> IF sender[s] = "start" THEN host[s] ELSE "ended"]
      /\ lock' = [i \in Ids |-> None]
  BY DEF FT!PowerLoss, FT!peerVars
<1>h. \A s \in Sessions : host'[s] = "ended" \/ (host'[s] = "idle" /\ host[s] = "idle")
  BY <1>1 DEF TransferInv, Answered
<1>2. /\ content' \in [Ids -> Seq(AnyBlock)] /\ durable' = [i \in Ids |-> Len(content'[i])]
      /\ \A i \in Ids : durable[i] = Len(content[i]) => content'[i] = content[i]
  BY AfterPowerLoss
<1>3. \A i \in Ids : durable'[i] = Len(content'[i]) /\ Len(content'[i]) \in Nat
  BY <1>2
<1>4. Typed' /\ Shaped'
  BY <1>1, <1>2, <1>3 DEF TransferInv, Typed, Shaped, FT!HostState
<1>5. Messages' /\ Described' /\ Answered'
  BY <1>1, <1>n, AnswersStay DEF TransferInv, Messages, Fits, Described
<1>6. Beginning' /\ Locked' /\ FT!OffsetIsLength' /\ Verified'
  BY <1>1, <1>h DEF TransferInv, Beginning, Locked, Holding, FT!OffsetIsLength, Verified
<1>7. Working'
  <2>1. ASSUME NEW i \in Ids, record[i] = None PROVE content'[i] = << >>
    <3>1. content[i] = << >> /\ durable[i] = 0
      BY <2>1 DEF TransferInv, Working, Typed
    <3> QED
      BY <1>2, <3>1
  <2> QED
    BY <1>1, <1>h, <2>1 DEF TransferInv, Working, OnDisk, Busy
<1>8. OnRecord' /\ OnDisk'
  <2>1. ASSUME NEW n \in Names, dest'[n] # None
        PROVE  /\ record'[dest'[n]] # None
               /\ record'[dest'[n]].manifest = [name |-> n, data |-> content'[dest'[n]]]
               /\ durable'[dest'[n]] = Len(content'[dest'[n]])
    <3>1. dest'[n] = dest[n] /\ dest[n] \in Ids /\ dest[n] # None
      BY <1>1, <2>1 DEF TransferInv, Typed, OnDisk
    <3> QED
      BY <1>1, <1>2, <3>1 DEF TransferInv, OnRecord
  <2> QED
    BY <1>1, <2>1 DEF OnRecord, TransferInv, OnDisk
<1> QED
  BY <1>4, <1>5, <1>6, <1>7, <1>8 DEF TransferInv

LEMMA TransferStep == FT!ConstantsAssumption /\ TransferInv /\ [FT!Next]_(FT!vars) => TransferInv'
<1> SUFFICES ASSUME FT!ConstantsAssumption, TransferInv, [FT!Next]_(FT!vars) PROVE TransferInv'
  OBVIOUS
<1>1. CASE UNCHANGED FT!vars
  BY <1>1 DEF FT!vars, FT!peerVars, FT!hostVars, FT!diskVars, TransferInv, Typed, Shaped,
     Messages, Fits, Described, Answered, FT!Takes, Working, Beginning, Locked, FT!OffsetIsLength,
     Verified, OnRecord, OnDisk, FT!Recorded
<1> QED
  BY <1>1, SenderKeeps, HostKeeps, EditKeeps, SettleKeeps, PowerKeeps DEF FT!Next

-----------------------------------------------------------------------------
(* What the transfers promise *)

LEMMA TransferIsSafe ==
    ASSUME FT!ConstantsAssumption, TransferInv
    PROVE  FT!TypeOK /\ FT!PublishedAsOffered /\ FT!OffsetIsLength /\ FT!OneWriter
<1>1. FT!PublishedAsOffered
  BY DEF TransferInv, OnRecord, FT!PublishedAsOffered
<1>2. FT!OneWriter
  BY DEF TransferInv, Locked, Holding, FT!OneWriter
<1>3. FT!TypeOK
  BY DEF TransferInv, Typed, FT!TypeOK, FT!Directory, FT!Directories, FT!MetaState
<1> QED
  BY <1>1, <1>2, <1>3 DEF TransferInv

\* A part file that can be resumed goes when it is published or cancelled, or with its name.
LEMMA TransferLosesNothing ==
    ASSUME FT!ConstantsAssumption, TransferInv, [FT!Next]_(FT!vars), NEW i \in parts \ parts',
           meta[i] = "whole"
    PROVE  \/ \E n \in Names : dest[n] = i
           \/ \E s \in Sessions :
                host[s] = "cancelPart" /\ current[s] = i /\ Owner[s] = record[i].owner
           \/ i \notin disk.parts /\ FT!Directory' = disk
<1>p. CASE FT!PowerLoss
  BY <1>p DEF FT!PowerLoss, FT!Directory, TransferInv, Typed
<1> SUFFICES ASSUME ~FT!PowerLoss PROVE
        \/ \E n \in Names : dest[n] = i
        \/ \E s \in Sessions :
             host[s] = "cancelPart" /\ current[s] = i /\ Owner[s] = record[i].owner
  BY <1>p
<1>1. PICK s \in Sessions : FT!BeginFails(s) \/ FT!UnlinkPart(s) \/ FT!CancelPart(s)
  BY ZenonT(30) DEF FT!Next, FT!SenderStep, FT!SenderFails, FT!HostStep, FT!HostFails, FT!Describe,
     FT!Ask, FT!ReceiveReady, FT!SendChunk, FT!ReceiveProgress, FT!SendCommit, FT!ReceiveComplete,
     FT!Withdraw, FT!Edit, FT!Begin, FT!CreateMeta, FT!WriteMeta, FT!ReadMeta, FT!OpenPart,
     FT!LockPart, FT!ReceiveChunk, FT!TornChunk, FT!Verify, FT!Link, FT!Complete, FT!ReceivePause,
     FT!ReceiveCancel, FT!CancelMeta, FT!Settle, FT!vars, FT!diskVars
<1>2. host[s] \in Busy /\ i = current[s]
  BY <1>1 DEF FT!BeginFails, FT!UnlinkPart, FT!CancelPart, Busy, FT!HostState
<1>3. CASE FT!BeginFails(s)
  BY <1>2, <1>3 DEF FT!BeginFails, TransferInv, Beginning
<1>4. CASE FT!UnlinkPart(s)
  <2>1. FT!Recorded(s).name \in Names
    BY <1>2, InHand
  <2> QED
    BY <1>2, <1>4, <2>1 DEF FT!UnlinkPart, TransferInv, Verified
<1>5. CASE FT!CancelPart(s)
  <2>1. current[s] # None
    BY <1>2, InHand DEF FT!ConstantsAssumption
  <2> QED
    BY <1>2, <1>5, <2>1 DEF FT!CancelPart, TransferInv, Working
<1> QED
  BY <1>1, <1>3, <1>4, <1>5

\* What Publication speaks of
Shown == [n \in Names |-> IF dest[n] = None THEN None ELSE content[dest[n]]]
Known == {n \in Names : disk.dest[n] # None}
Told  == [s \in Sessions |-> IF FT!Takes(s, "complete") THEN wire[s].manifest
                             ELSE IF sender[s] = "complete" THEN described[s] ELSE None]

LEMMA TransferPromises == FT!Init => FT!Promise!Init
BY DEF FT!Init, FT!Promise!Init, FT!Directory, FT!Takes

\* Only Link publishes while the power is on.
LEMMA OnlyLinkPublishes ==
    ASSUME FT!ConstantsAssumption, TransferInv, [Powered]_(FT!vars), \A s \in Sessions : ~FT!Link(s)
    PROVE  Shown' = Shown
<1>1. dest' = dest
  BY ZenonT(30) DEF Powered, FT!SenderStep, FT!SenderFails, FT!HostStep, FT!HostFails, FT!Describe,
     FT!Ask, FT!ReceiveReady, FT!SendChunk, FT!ReceiveProgress, FT!SendCommit, FT!ReceiveComplete,
     FT!Withdraw, FT!Edit, FT!Begin, FT!CreateMeta, FT!WriteMeta, FT!ReadMeta, FT!OpenPart,
     FT!LockPart, FT!ReceiveChunk, FT!TornChunk, FT!Verify, FT!Complete, FT!ReceivePause,
     FT!ReceiveCancel, FT!CancelMeta, FT!Settle, FT!BeginFails, FT!UnlinkPart, FT!CancelPart,
     FT!vars, FT!diskVars
<1>2. \A n \in Names : dest[n] # None => content'[dest[n]] = content[dest[n]]
  BY StaysPublished
<1> QED
  BY <1>1, <1>2 DEF Shown

\* Only Settle lets the disk have other published names.
LEMMA OnlySettleKeeps ==
    ASSUME TransferInv, [FT!Next]_(FT!vars), ~FT!Settle
    PROVE  disk'.dest = disk.dest
<1>1. ASSUME NEW s \in Sessions, FT!WriteMeta(s) PROVE disk'.dest = disk.dest
  BY <1>1 DEF FT!WriteMeta, TransferInv, Typed
<1>2. CASE \A s \in Sessions : ~FT!WriteMeta(s)
  BY ZenonT(30), <1>2 DEF FT!Next, FT!SenderStep, FT!SenderFails, FT!HostStep, FT!HostFails,
     FT!Describe, FT!Ask, FT!ReceiveReady, FT!SendChunk, FT!ReceiveProgress, FT!SendCommit,
     FT!ReceiveComplete, FT!Withdraw, FT!Edit, FT!Begin, FT!CreateMeta, FT!ReadMeta, FT!OpenPart,
     FT!LockPart, FT!ReceiveChunk, FT!TornChunk, FT!Verify, FT!Link, FT!Complete, FT!ReceivePause,
     FT!ReceiveCancel, FT!CancelMeta, FT!PowerLoss, FT!BeginFails, FT!UnlinkPart, FT!CancelPart,
     FT!vars, FT!diskVars
<1> QED
  BY <1>1, <1>2

\* Only Complete acknowledges: what is on its way is taken as it is, and stays when nobody takes it.
LEMMA OnlyCompleteAcknowledges ==
    ASSUME TransferInv, [FT!Next]_(FT!vars), \A s \in Sessions : ~FT!Complete(s)
    PROVE  Told' = Told
<1>t. /\ sender \in [Sessions -> FT!SenderState]
           /\ described \in [Sessions -> FT!Manifests \cup {None}]
      /\ wire = [s \in Sessions |-> wire[s]] /\ host \in [Sessions -> FT!HostState] /\ Answered
  BY DEF TransferInv, Typed, Shaped
<1>1. CASE UNCHANGED << sender, described, wire >>
  BY <1>1 DEF Told, FT!Takes
<1> DEFINE Says(s) == IF FT!Takes(s, "complete") THEN wire[s].manifest
                      ELSE IF sender[s] = "complete" THEN described[s] ELSE None
<1>2. ASSUME NEW s \in Sessions,
             \A t \in Sessions \ {s} :
                sender'[t] = sender[t] /\ described'[t] = described[t] /\ wire'[t] = wire[t],
             Says(s)' = Says(s)
      PROVE  Told' = Told
  BY <1>2 DEF Told, FT!Takes
<1>3. ASSUME NEW s \in Sessions, FT!SenderStep(s) \/ FT!SenderFails(s) PROVE Told' = Told
  <2> USE DEF FT!Sends, FT!GoesTo, FT!Takes
  <2>1. CASE FT!Describe(s) \/ FT!SenderFails(s)
    BY <1>t, <1>2, <2>1 DEF FT!Describe, FT!SenderFails, Answered
  <2>2. CASE FT!Ask(s)
    BY <1>t, <1>2, <2>2 DEF FT!Ask, Answered
  <2>3. CASE FT!ReceiveReady(s) \/ FT!ReceiveProgress(s)
    BY <1>t, <1>2, <2>3 DEF FT!ReceiveReady, FT!ReceiveProgress
  <2>4. CASE FT!SendChunk(s)
    BY <1>t, <1>2, <2>4 DEF FT!SendChunk, Answered
  <2>5. CASE FT!SendCommit(s) \/ FT!Withdraw(s)
    BY <1>t, <1>2, <2>5 DEF FT!SendCommit, FT!Withdraw, Answered
  <2>6. CASE FT!ReceiveComplete(s)
    BY <1>t, <1>2, <2>6 DEF FT!ReceiveComplete
  <2> QED
    BY <1>3, <2>1, <2>2, <2>3, <2>4, <2>5, <2>6 DEF FT!SenderStep
<1>4. ASSUME NEW s \in Sessions, FT!HostStep(s) \/ FT!HostFails(s) PROVE Told' = Told
  <2>1. sender' = sender /\ described' = described
    BY <1>4 DEF FT!HostStep, FT!HostFails, FT!Begin, FT!CreateMeta, FT!WriteMeta, FT!BeginFails,
       FT!ReadMeta, FT!OpenPart, FT!LockPart, FT!ReceiveChunk, FT!TornChunk, FT!Verify, FT!Link,
       FT!UnlinkPart, FT!Complete, FT!ReceivePause, FT!ReceiveCancel, FT!CancelPart, FT!CancelMeta,
       FT!peerVars
  <2>2. wire' = wire \/ \E message : /\ wire' = [wire EXCEPT ![s] = message]
                                     /\ message = None \/ message.kind # "complete"
                                     /\ host[s] # "ended"
    BY <1>4 DEF FT!HostStep, FT!HostFails, FT!Begin, FT!CreateMeta, FT!WriteMeta, FT!BeginFails,
       FT!ReadMeta, FT!OpenPart, FT!LockPart, FT!ReceiveChunk, FT!TornChunk, FT!Verify, FT!Link,
       FT!UnlinkPart, FT!ReceivePause, FT!ReceiveCancel, FT!CancelPart, FT!CancelMeta,
       FT!Ready, FT!Sends
  <2> QED
    BY <1>t, <1>1, <1>2, <2>1, <2>2 DEF Answered, FT!Takes
<1>5. CASE (\E p \in Peers : FT!Edit(p)) \/ FT!Settle \/ FT!PowerLoss \/ UNCHANGED FT!vars
  BY <1>1, <1>5 DEF FT!Edit, FT!Settle, FT!PowerLoss, FT!vars, FT!peerVars
<1> QED
  BY <1>3, <1>4, <1>5 DEF FT!Next

\* Link publishes.
LEMMA LinkPublishes ==
    ASSUME FT!ConstantsAssumption, TransferInv, NEW s \in Sessions, FT!Link(s)
    PROVE  FT!Promise!Next
<1>1. /\ FT!Recorded(s).name \in Names /\ FT!Recorded(s).data \in Contents
      /\ current[s] # None
  BY InHand DEF FT!Link, Busy, FT!HostState, FT!ConstantsAssumption
<1>n. PICK n \in Names : n = FT!Recorded(s).name
  BY <1>1
<1>2. content[current[s]] = FT!Recorded(s).data
  BY DEF FT!Link, TransferInv, Verified
<1>3. /\ dest[n] = None /\ UNCHANGED << sender, described, wire, content, disk >>
      /\ dest' = [dest EXCEPT ![n] = current[s]]
  BY <1>n DEF FT!Link, FT!peerVars
<1>4. dest \in [Names -> Ids \cup {None}]
  BY DEF TransferInv, Typed
<1>5. Shown' = [Shown EXCEPT ![n] = FT!Recorded(s).data]
  BY <1>1, <1>2, <1>3, <1>4 DEF Shown
<1>6. Shown[n] = None /\ Told' = Told /\ Known' = Known
  BY <1>1, <1>3 DEF Shown, Told, Known, FT!Takes
<1>7. FT!Promise!Publish(n)
  BY <1>1, <1>5, <1>6 DEF FT!Promise!Publish, Shown, Told, Known
<1> QED
  BY <1>7 DEF FT!Promise!Next

\* Complete tells the sender of a file that is there.
LEMMA CompleteAcknowledges ==
    ASSUME FT!ConstantsAssumption, TransferInv, NEW s \in Sessions, FT!Complete(s)
    PROVE  FT!Promise!Next
<1> DEFINE m == FT!Recorded(s)
<1>1. /\ m \in FT!Manifests /\ m.name \in Names /\ current[s] \in Ids /\ current[s] # None
  BY InHand DEF FT!Complete, Busy, FT!HostState, FT!ConstantsAssumption
<1>2. dest[m.name] = current[s] /\ content[current[s]] = m.data
  <2>1. dest[m.name] = current[s]
    BY DEF FT!Complete, TransferInv, Verified
  <2>2. record[current[s]].manifest = [name |-> m.name, data |-> content[current[s]]]
    BY <1>1, <2>1 DEF TransferInv, OnRecord
  <2> QED
    BY <2>1, <2>2 DEF FT!Recorded
<1>3. /\ UNCHANGED << sender, described, dest, content, disk >>
      /\ wire' = [wire EXCEPT ![s] = [kind |-> "complete", manifest |-> m]]
      /\ host[s] = "unlinkMeta"
  BY DEF FT!Complete, FT!Sends, FT!peerVars
<1>4. sender[s] \in {"commit", "failed"} /\ ~FT!Takes(s, "complete")
  BY <1>3 DEF TransferInv, Answered, Publishing
<1>5. wire = [t \in Sessions |-> wire[t]]
  BY DEF TransferInv, Shaped
<1>6. m = [name |-> m.name, data |-> m.data]
  BY <1>1 DEF FT!Manifests
<1> HIDE DEF m
<1>7. [kind |-> "complete", manifest |-> m] # None
  BY <1>1 DEF FT!ConstantsAssumption
<1>8. Shown[m.name] = m.data /\ Shown[m.name] # None /\ Shown' = Shown /\ Known' = Known
  BY <1>1, <1>2, <1>3 DEF Shown, Known, FT!Manifests, FT!ConstantsAssumption
<1>9. Told[s] = None /\ Told' = [Told EXCEPT ![s] = [name |-> m.name, data |-> Shown[m.name]]]
  BY <1>3, <1>4, <1>5, <1>6, <1>7, <1>8 DEF Told, FT!Takes
<1>10. FT!Promise!Acknowledge(s)
  BY <1>1, <1>8, <1>9 DEF FT!Promise!Acknowledge, Shown, Told, Known
<1> QED
  BY <1>10 DEF FT!Promise!Next

\* A power loss takes the names the disk does not know, and nothing else of what was published.
LEMMA PowerFailsPromises ==
    ASSUME FT!ConstantsAssumption, TransferInv, FT!PowerLoss
    PROVE  FT!Promise!PowerFails
<1>1. dest' = disk.dest /\ UNCHANGED << sender, described, wire, disk >>
  BY DEF FT!PowerLoss, FT!peerVars
<1>2. ASSUME NEW n \in Names, disk.dest[n] # None
      PROVE  dest[n] = disk.dest[n] /\ content'[dest[n]] = content[dest[n]]
  <2>1. dest[n] = disk.dest[n] /\ dest[n] \in Ids
    BY <1>2 DEF TransferInv, OnDisk, Typed
  <2> QED
    BY <1>2, <2>1, AfterPowerLoss DEF TransferInv, OnRecord
<1>3. Shown' = [n \in Names |-> IF n \in Known THEN Shown[n] ELSE None]
  BY <1>1, <1>2 DEF Shown, Known
<1>4. Told' = Told /\ Known' = Known
  BY <1>1 DEF Told, Known, FT!Takes
<1> QED
  BY <1>3, <1>4 DEF FT!Promise!PowerFails, Shown, Known, Told

\* The disk learns all names at once.
LEMMA SettlePromises ==
    ASSUME FT!ConstantsAssumption, TransferInv, FT!Settle
    PROVE  FT!Promise!Keep
<1>1. /\ disk'.dest = dest /\ UNCHANGED << sender, described, wire, dest, content >>
  BY DEF FT!Settle, FT!peerVars, FT!Directory
<1>2. \A n \in Names : dest[n] # None => content[dest[n]] # None
  <2>1. \A n \in Names : dest[n] # None =>
          record[dest[n]] \in FT!Records /\ record[dest[n]].manifest.data = content[dest[n]]
    <3>1. \A n \in Names : dest[n] # None => dest[n] \in Ids /\ record[dest[n]] # None
      BY DEF TransferInv, OnRecord, Typed
    <3>2. record \in [Ids -> FT!Records \cup {None}]
      BY DEF TransferInv, Typed
    <3>3. \A n \in Names : dest[n] # None => record[dest[n]] \in FT!Records
      BY <3>1, <3>2
    <3>4. ASSUME NEW n \in Names, dest[n] # None
          PROVE  record[dest[n]].manifest.data = content[dest[n]]
      <4>1. record[dest[n]].manifest = [name |-> n, data |-> content[dest[n]]]
        BY <3>4 DEF TransferInv, OnRecord
      <4> QED
        BY <4>1
    <3> QED
      BY <3>3, <3>4
  <2> QED
    BY <2>1 DEF FT!Records, FT!Manifests, FT!ConstantsAssumption
<1>3. Shown' = Shown /\ Told' = Told
  BY <1>1 DEF Shown, Told, FT!Takes
<1>4. Known' = {n \in Names : Shown[n] # None}
  BY <1>1, <1>2 DEF Shown, Known
<1> QED
  BY <1>3, <1>4 DEF FT!Promise!Keep, Shown, Known, Told

\* A step of a transfer is a step of the promise or none.
LEMMA TransferStepPromises ==
    ASSUME FT!ConstantsAssumption, TransferInv, [FT!Next]_(FT!vars)
    PROVE  [FT!Promise!Next]_(FT!Promise!vars)
<1>1. CASE FT!PowerLoss \/ FT!Settle
  BY <1>1, PowerFailsPromises, SettlePromises DEF FT!Promise!Next
<1>2. ASSUME NEW s \in Sessions, FT!Link(s) \/ FT!Complete(s) PROVE FT!Promise!Next
  BY <1>2, LinkPublishes, CompleteAcknowledges
<1>3. CASE ~FT!PowerLoss /\ ~FT!Settle /\ \A s \in Sessions : ~FT!Link(s) /\ ~FT!Complete(s)
  <2>1. [Powered]_(FT!vars)
    BY <1>3 DEF FT!Next, Powered
  <2>2. Shown' = Shown
    BY <1>3, <2>1, OnlyLinkPublishes
  <2>3. Told' = Told
    BY <1>3, OnlyCompleteAcknowledges
  <2>4. Known' = Known
    BY <1>3, OnlySettleKeeps DEF Known
  <2> QED
    BY <2>2, <2>3, <2>4 DEF FT!Promise!vars, Shown, Told, Known
<1> QED
  BY <1>1, <1>2, <1>3

-----------------------------------------------------------------------------
(* The two key files *)

\* Who is between the look and the rename has the lock
StoreLocked == \A p \in Programs : program[p] \in {"loading", "writing"} => lockFile = p

\* What is written is what is there already, or the first identity
SameIdentity ==
    \A p \in Programs : program[p] = "writing"
      => identity \in {KF!NoFile, [key |-> key[p], whole |-> TRUE]}

\* The disk has the identity of the file or none
SettledIsCurrent == settled \in {KF!NoFile, identity}

\* A relay that made or read the seed file has the seed in it
SeedInFile ==
    \A q \in Relays :
        /\ relay[q] \in {"created", "written", "ready"} => seed[q] # None /\ seedFile.key = seed[q]
        /\ relay[q] \in {"written", "ready"} => seedFile.whole

\* What a power loss leaves of a seed file is of a file that is there
SeedKept == seedKept # "none" => seedFile # KF!NoFile

KeyInv ==
    /\ KF!TypeOK /\ StoreLocked /\ KF!OneIdentity /\ KF!IdentityIsWhole /\ SameIdentity
         /\ SettledIsCurrent
    /\ SeedInFile /\ SeedKept

LEMMA KeysBegin == KF!KeyAssumption /\ KF!Init => KeyInv
BY DEF KF!Init, KeyInv, KF!TypeOK, StoreLocked, KF!OneIdentity, KF!IdentityIsWhole, SameIdentity,
   SettledIsCurrent, SeedInFile, SeedKept, KF!NoFile, KF!Files

\* A file that was written is one, and none is not.
LEMMA FileOf ==
    ASSUME KF!KeyAssumption, NEW f \in KF!Files \cup {KF!NoFile}
    PROVE  /\ f.key = None => f = KF!NoFile
           /\ f.whole => f = [key |-> f.key, whole |-> TRUE] /\ f.key \in Keys
           /\ KF!NoFile.key = None /\ ~KF!NoFile.whole
BY DEF KF!Files, KF!NoFile, KF!KeyAssumption

LEMMA LockKeeps ==
    ASSUME KF!KeyAssumption, KeyInv, NEW p \in Programs, KF!Lock(p)
    PROVE  KeyInv'
<1> USE DEF KF!Lock, KF!ProgramTo
<1>t. KF!TypeOK /\ \A r \in Programs : r # None
  BY DEF KeyInv, KF!KeyAssumption
<1>f. /\ identity.key = None => identity = KF!NoFile
      /\ identity.whole => identity = [key |-> identity.key, whole |-> TRUE]
           /\ identity.key \in Keys
      /\ KF!NoFile.key = None /\ ~KF!NoFile.whole
  BY <1>t, FileOf DEF KF!TypeOK
<1>1. KF!TypeOK'
  BY <1>t, <1>f DEF KF!TypeOK, KF!Fresh, KF!Files, KF!seedVars, KF!KeyAssumption
<1>2. StoreLocked'
  BY <1>t DEF KeyInv, StoreLocked, KF!TypeOK
<1>3. KF!OneIdentity'
  BY <1>t, <1>f DEF KeyInv, KF!OneIdentity, SameIdentity, KF!TypeOK
<1>4. KF!IdentityIsWhole'
  BY DEF KeyInv, KF!IdentityIsWhole
<1>5. SameIdentity'
  BY <1>t, <1>f DEF KeyInv, SameIdentity, KF!OneIdentity, StoreLocked, KF!TypeOK
<1>6. SettledIsCurrent'
  BY DEF KeyInv, SettledIsCurrent, SameIdentity
<1>7. SeedInFile' /\ SeedKept'
  BY DEF KeyInv, SeedInFile, SeedKept, KF!seedVars
<1> QED
  BY <1>1, <1>2, <1>3, <1>4, <1>5, <1>6, <1>7 DEF KeyInv

LEMMA LoadKeeps ==
    ASSUME KF!KeyAssumption, KeyInv, NEW p \in Programs, KF!Load(p)
    PROVE  KeyInv'
<1> USE DEF KF!Load, KF!ProgramTo
<1>t. KF!TypeOK /\ \A r \in Programs : r # None
  BY DEF KeyInv, KF!KeyAssumption
<1>f. /\ identity.key = None => identity = KF!NoFile
      /\ identity.whole => identity = [key |-> identity.key, whole |-> TRUE]
           /\ identity.key \in Keys
      /\ KF!NoFile.key = None /\ ~KF!NoFile.whole
  BY <1>t, FileOf DEF KF!TypeOK
<1>1. KF!TypeOK'
  BY <1>t, <1>f DEF KF!TypeOK, KF!Fresh, KF!Files, KF!seedVars, KF!KeyAssumption
<1>2. StoreLocked'
  BY <1>t DEF KeyInv, StoreLocked, KF!TypeOK
<1>3. KF!OneIdentity'
  BY <1>t, <1>f DEF KeyInv, KF!OneIdentity, SameIdentity, KF!TypeOK
<1>4. KF!IdentityIsWhole'
  BY DEF KeyInv, KF!IdentityIsWhole
<1>5. SameIdentity'
  BY <1>t, <1>f DEF KeyInv, SameIdentity, KF!OneIdentity, StoreLocked, KF!TypeOK
<1>6. SettledIsCurrent'
  BY DEF KeyInv, SettledIsCurrent, SameIdentity
<1>7. SeedInFile' /\ SeedKept'
  BY DEF KeyInv, SeedInFile, SeedKept, KF!seedVars
<1> QED
  BY <1>1, <1>2, <1>3, <1>4, <1>5, <1>6, <1>7 DEF KeyInv

LEMMA LoadFailsKeeps ==
    ASSUME KF!KeyAssumption, KeyInv, NEW p \in Programs, KF!LoadFails(p)
    PROVE  KeyInv'
<1> USE DEF KF!LoadFails, KF!ProgramTo
<1>t. KF!TypeOK /\ \A r \in Programs : r # None
  BY DEF KeyInv, KF!KeyAssumption
<1>f. /\ identity.key = None => identity = KF!NoFile
      /\ identity.whole => identity = [key |-> identity.key, whole |-> TRUE]
           /\ identity.key \in Keys
      /\ KF!NoFile.key = None /\ ~KF!NoFile.whole
  BY <1>t, FileOf DEF KF!TypeOK
<1>1. KF!TypeOK'
  BY <1>t, <1>f DEF KF!TypeOK, KF!Fresh, KF!Files, KF!seedVars, KF!KeyAssumption
<1>2. StoreLocked'
  BY <1>t DEF KeyInv, StoreLocked, KF!TypeOK
<1>3. KF!OneIdentity'
  BY <1>t, <1>f DEF KeyInv, KF!OneIdentity, SameIdentity, KF!TypeOK
<1>4. KF!IdentityIsWhole'
  BY DEF KeyInv, KF!IdentityIsWhole
<1>5. SameIdentity'
  BY <1>t, <1>f DEF KeyInv, SameIdentity, KF!OneIdentity, StoreLocked, KF!TypeOK
<1>6. SettledIsCurrent'
  BY DEF KeyInv, SettledIsCurrent, SameIdentity
<1>7. SeedInFile' /\ SeedKept'
  BY DEF KeyInv, SeedInFile, SeedKept, KF!seedVars
<1> QED
  BY <1>1, <1>2, <1>3, <1>4, <1>5, <1>6, <1>7 DEF KeyInv

LEMMA GenerateKeeps ==
    ASSUME KF!KeyAssumption, KeyInv, NEW p \in Programs, KF!Generate(p)
    PROVE  KeyInv'
<1> USE DEF KF!Generate, KF!ProgramTo
<1>t. KF!TypeOK /\ \A r \in Programs : r # None
  BY DEF KeyInv, KF!KeyAssumption
<1>f. /\ identity.key = None => identity = KF!NoFile
      /\ identity.whole => identity = [key |-> identity.key, whole |-> TRUE]
           /\ identity.key \in Keys
      /\ KF!NoFile.key = None /\ ~KF!NoFile.whole
  BY <1>t, FileOf DEF KF!TypeOK
<1>1. KF!TypeOK'
  BY <1>t, <1>f DEF KF!TypeOK, KF!Fresh, KF!Files, KF!seedVars, KF!KeyAssumption
<1>2. StoreLocked'
  BY <1>t DEF KeyInv, StoreLocked, KF!TypeOK
<1>3. KF!OneIdentity'
  BY <1>t, <1>f DEF KeyInv, KF!OneIdentity, SameIdentity, KF!TypeOK
<1>4. KF!IdentityIsWhole'
  BY DEF KeyInv, KF!IdentityIsWhole
<1>5. SameIdentity'
  BY <1>t, <1>f DEF KeyInv, SameIdentity, KF!OneIdentity, StoreLocked, KF!TypeOK
<1>6. SettledIsCurrent'
  BY DEF KeyInv, SettledIsCurrent, SameIdentity
<1>7. SeedInFile' /\ SeedKept'
  BY DEF KeyInv, SeedInFile, SeedKept, KF!seedVars
<1> QED
  BY <1>1, <1>2, <1>3, <1>4, <1>5, <1>6, <1>7 DEF KeyInv

LEMMA SaveKeeps ==
    ASSUME KF!KeyAssumption, KeyInv, NEW p \in Programs, KF!Save(p)
    PROVE  KeyInv'
<1> USE DEF KF!Save, KF!ProgramTo
<1>t. KF!TypeOK /\ \A r \in Programs : r # None
  BY DEF KeyInv, KF!KeyAssumption
<1>f. /\ identity.key = None => identity = KF!NoFile
      /\ identity.whole => identity = [key |-> identity.key, whole |-> TRUE]
           /\ identity.key \in Keys
      /\ KF!NoFile.key = None /\ ~KF!NoFile.whole
  BY <1>t, FileOf DEF KF!TypeOK
<1>1. KF!TypeOK'
  BY <1>t, <1>f DEF KF!TypeOK, KF!Fresh, KF!Files, KF!seedVars, KF!KeyAssumption
<1>2. StoreLocked'
  BY <1>t DEF KeyInv, StoreLocked, KF!TypeOK
<1>3. KF!OneIdentity'
  BY <1>t, <1>f DEF KeyInv, KF!OneIdentity, SameIdentity, KF!TypeOK
<1>4. KF!IdentityIsWhole'
  BY DEF KeyInv, KF!IdentityIsWhole
<1>5. SameIdentity'
  BY <1>t, <1>f DEF KeyInv, SameIdentity, KF!OneIdentity, StoreLocked, KF!TypeOK
<1>6. SettledIsCurrent'
  BY DEF KeyInv, SettledIsCurrent, SameIdentity
<1>7. SeedInFile' /\ SeedKept'
  BY DEF KeyInv, SeedInFile, SeedKept, KF!seedVars
<1> QED
  BY <1>1, <1>2, <1>3, <1>4, <1>5, <1>6, <1>7 DEF KeyInv

LEMMA SyncTemporaryKeeps ==
    ASSUME KF!KeyAssumption, KeyInv, NEW p \in Programs, KF!SyncTemporary(p)
    PROVE  KeyInv'
<1> USE DEF KF!SyncTemporary, KF!ProgramTo
<1>t. KF!TypeOK /\ \A r \in Programs : r # None
  BY DEF KeyInv, KF!KeyAssumption
<1>f. /\ identity.key = None => identity = KF!NoFile
      /\ identity.whole => identity = [key |-> identity.key, whole |-> TRUE]
           /\ identity.key \in Keys
      /\ KF!NoFile.key = None /\ ~KF!NoFile.whole
  BY <1>t, FileOf DEF KF!TypeOK
<1>1. KF!TypeOK'
  BY <1>t, <1>f DEF KF!TypeOK, KF!Fresh, KF!Files, KF!seedVars, KF!KeyAssumption
<1>2. StoreLocked'
  BY <1>t DEF KeyInv, StoreLocked, KF!TypeOK
<1>3. KF!OneIdentity'
  BY <1>t, <1>f DEF KeyInv, KF!OneIdentity, SameIdentity, KF!TypeOK
<1>4. KF!IdentityIsWhole'
  BY DEF KeyInv, KF!IdentityIsWhole
<1>5. SameIdentity'
  BY <1>t, <1>f DEF KeyInv, SameIdentity, KF!OneIdentity, StoreLocked, KF!TypeOK
<1>6. SettledIsCurrent'
  BY DEF KeyInv, SettledIsCurrent, SameIdentity
<1>7. SeedInFile' /\ SeedKept'
  BY DEF KeyInv, SeedInFile, SeedKept, KF!seedVars
<1> QED
  BY <1>1, <1>2, <1>3, <1>4, <1>5, <1>6, <1>7 DEF KeyInv

LEMMA PersistKeeps ==
    ASSUME KF!KeyAssumption, KeyInv, NEW p \in Programs, KF!Persist(p)
    PROVE  KeyInv'
<1> USE DEF KF!Persist, KF!ProgramTo
<1>t. KF!TypeOK /\ \A r \in Programs : r # None
  BY DEF KeyInv, KF!KeyAssumption
<1>f. /\ identity.key = None => identity = KF!NoFile
      /\ identity.whole => identity = [key |-> identity.key, whole |-> TRUE]
           /\ identity.key \in Keys
      /\ KF!NoFile.key = None /\ ~KF!NoFile.whole
  BY <1>t, FileOf DEF KF!TypeOK
<1>1. KF!TypeOK'
  BY <1>t, <1>f DEF KF!TypeOK, KF!Fresh, KF!Files, KF!seedVars, KF!KeyAssumption
<1>2. StoreLocked'
  BY <1>t DEF KeyInv, StoreLocked, KF!TypeOK
<1>3. KF!OneIdentity'
  <2>1. \A r \in Programs : program[r] = "ready" => identity = [key |-> key[p], whole |-> TRUE]
                                                  /\ identity = [key |-> key[r], whole |-> TRUE]
    BY <1>f DEF KeyInv, KF!OneIdentity, SameIdentity
  <2>2. \A r \in Programs : program[r] = "ready" => key[r] = key[p]
    BY <2>1
  <2>3. key' = key /\ identity' = [key |-> key[p], whole |-> TRUE]
        /\ \A r \in Programs \ {p} : program'[r] = program[r]
    BY <1>t DEF KF!TypeOK
  <2> HIDE DEF KF!Persist
  <2> QED
    BY <2>2, <2>3 DEF KF!OneIdentity
<1>4. KF!IdentityIsWhole'
  BY DEF KeyInv, KF!IdentityIsWhole
<1>5. SameIdentity'
  BY <1>t, <1>f DEF KeyInv, SameIdentity, KF!OneIdentity, StoreLocked, KF!TypeOK
<1>6. SettledIsCurrent'
  BY DEF KeyInv, SettledIsCurrent, SameIdentity
<1>7. SeedInFile' /\ SeedKept'
  BY DEF KeyInv, SeedInFile, SeedKept, KF!seedVars
<1> QED
  BY <1>1, <1>2, <1>3, <1>4, <1>5, <1>6, <1>7 DEF KeyInv

LEMMA SaveFailsKeeps ==
    ASSUME KF!KeyAssumption, KeyInv, NEW p \in Programs, KF!SaveFails(p)
    PROVE  KeyInv'
<1> USE DEF KF!SaveFails, KF!ProgramTo
<1>t. KF!TypeOK /\ \A r \in Programs : r # None
  BY DEF KeyInv, KF!KeyAssumption
<1>f. /\ identity.key = None => identity = KF!NoFile
      /\ identity.whole => identity = [key |-> identity.key, whole |-> TRUE]
           /\ identity.key \in Keys
      /\ KF!NoFile.key = None /\ ~KF!NoFile.whole
  BY <1>t, FileOf DEF KF!TypeOK
<1>1. KF!TypeOK'
  BY <1>t, <1>f DEF KF!TypeOK, KF!Fresh, KF!Files, KF!seedVars, KF!KeyAssumption
<1>2. StoreLocked'
  BY <1>t DEF KeyInv, StoreLocked, KF!TypeOK
<1>3. KF!OneIdentity'
  BY <1>t, <1>f DEF KeyInv, KF!OneIdentity, SameIdentity, KF!TypeOK
<1>4. KF!IdentityIsWhole'
  BY DEF KeyInv, KF!IdentityIsWhole
<1>5. SameIdentity'
  BY <1>t, <1>f DEF KeyInv, SameIdentity, KF!OneIdentity, StoreLocked, KF!TypeOK
<1>6. SettledIsCurrent'
  BY DEF KeyInv, SettledIsCurrent, SameIdentity
<1>7. SeedInFile' /\ SeedKept'
  BY DEF KeyInv, SeedInFile, SeedKept, KF!seedVars
<1> QED
  BY <1>1, <1>2, <1>3, <1>4, <1>5, <1>6, <1>7 DEF KeyInv

LEMMA ProgramEndsKeeps ==
    ASSUME KF!KeyAssumption, KeyInv, NEW p \in Programs, KF!ProgramEnds(p)
    PROVE  KeyInv'
<1> USE DEF KF!ProgramEnds, KF!ProgramTo
<1>t. KF!TypeOK /\ \A r \in Programs : r # None
  BY DEF KeyInv, KF!KeyAssumption
<1>f. /\ identity.key = None => identity = KF!NoFile
      /\ identity.whole => identity = [key |-> identity.key, whole |-> TRUE]
           /\ identity.key \in Keys
      /\ KF!NoFile.key = None /\ ~KF!NoFile.whole
  BY <1>t, FileOf DEF KF!TypeOK
<1>1. KF!TypeOK'
  BY <1>t, <1>f DEF KF!TypeOK, KF!Fresh, KF!Files, KF!seedVars, KF!KeyAssumption
<1>2. StoreLocked'
  BY <1>t DEF KeyInv, StoreLocked, KF!TypeOK
<1>3. KF!OneIdentity'
  BY <1>t, <1>f DEF KeyInv, KF!OneIdentity, SameIdentity, KF!TypeOK
<1>4. KF!IdentityIsWhole'
  BY DEF KeyInv, KF!IdentityIsWhole
<1>5. SameIdentity'
  BY <1>t, <1>f DEF KeyInv, SameIdentity, KF!OneIdentity, StoreLocked, KF!TypeOK
<1>6. SettledIsCurrent'
  BY DEF KeyInv, SettledIsCurrent, SameIdentity
<1>7. SeedInFile' /\ SeedKept'
  BY DEF KeyInv, SeedInFile, SeedKept, KF!seedVars
<1> QED
  BY <1>1, <1>2, <1>3, <1>4, <1>5, <1>6, <1>7 DEF KeyInv

LEMMA ReadSeedKeeps ==
    ASSUME KF!KeyAssumption, KeyInv, NEW q \in Relays, KF!ReadSeed(q)
    PROVE  KeyInv'
<1> USE DEF KF!ReadSeed, KF!RelayTo
<1>t. KF!TypeOK
  BY DEF KeyInv
<1>f. /\ seedFile.whole => seedFile = [key |-> seedFile.key, whole |-> TRUE]
           /\ seedFile.key \in Keys
      /\ KF!NoFile.key = None /\ ~KF!NoFile.whole
  BY <1>t, FileOf DEF KF!TypeOK
<1>1. KF!TypeOK'
  BY <1>t, <1>f DEF KeyInv, SeedInFile, KF!TypeOK, KF!Fresh, KF!Files, KF!identityVars
<1>2. StoreLocked' /\ KF!OneIdentity' /\ KF!IdentityIsWhole' /\ SameIdentity' /\ SettledIsCurrent'
  BY DEF KeyInv, StoreLocked, KF!OneIdentity, KF!IdentityIsWhole, SameIdentity, SettledIsCurrent,
     KF!identityVars
<1>3. SeedInFile'
  BY <1>t, <1>f DEF KeyInv, SeedInFile, KF!TypeOK, KF!Fresh, KF!KeyAssumption
<1>4. SeedKept'
  BY <1>t, <1>f DEF KeyInv, SeedKept, SeedInFile, KF!TypeOK, KF!Fresh, KF!KeyAssumption
<1> QED
  BY <1>1, <1>2, <1>3, <1>4 DEF KeyInv

LEMMA FindNoSeedKeeps ==
    ASSUME KF!KeyAssumption, KeyInv, NEW q \in Relays, KF!FindNoSeed(q)
    PROVE  KeyInv'
<1> USE DEF KF!FindNoSeed, KF!RelayTo
<1>t. KF!TypeOK
  BY DEF KeyInv
<1>f. /\ seedFile.whole => seedFile = [key |-> seedFile.key, whole |-> TRUE]
           /\ seedFile.key \in Keys
      /\ KF!NoFile.key = None /\ ~KF!NoFile.whole
  BY <1>t, FileOf DEF KF!TypeOK
<1>1. KF!TypeOK'
  BY <1>t, <1>f DEF KeyInv, SeedInFile, KF!TypeOK, KF!Fresh, KF!Files, KF!identityVars
<1>2. StoreLocked' /\ KF!OneIdentity' /\ KF!IdentityIsWhole' /\ SameIdentity' /\ SettledIsCurrent'
  BY DEF KeyInv, StoreLocked, KF!OneIdentity, KF!IdentityIsWhole, SameIdentity, SettledIsCurrent,
     KF!identityVars
<1>3. SeedInFile'
  BY <1>t, <1>f DEF KeyInv, SeedInFile, KF!TypeOK, KF!Fresh, KF!KeyAssumption
<1>4. SeedKept'
  BY <1>t, <1>f DEF KeyInv, SeedKept, SeedInFile, KF!TypeOK, KF!Fresh, KF!KeyAssumption
<1> QED
  BY <1>1, <1>2, <1>3, <1>4 DEF KeyInv

LEMMA CreateSeedKeeps ==
    ASSUME KF!KeyAssumption, KeyInv, NEW q \in Relays, KF!CreateSeed(q)
    PROVE  KeyInv'
<1> USE DEF KF!CreateSeed, KF!RelayTo
<1>t. KF!TypeOK
  BY DEF KeyInv
<1>f. /\ seedFile.whole => seedFile = [key |-> seedFile.key, whole |-> TRUE]
           /\ seedFile.key \in Keys
      /\ KF!NoFile.key = None /\ ~KF!NoFile.whole
  BY <1>t, FileOf DEF KF!TypeOK
<1>1. KF!TypeOK'
  BY <1>t, <1>f DEF KeyInv, SeedInFile, KF!TypeOK, KF!Fresh, KF!Files, KF!identityVars
<1>2. StoreLocked' /\ KF!OneIdentity' /\ KF!IdentityIsWhole' /\ SameIdentity' /\ SettledIsCurrent'
  BY DEF KeyInv, StoreLocked, KF!OneIdentity, KF!IdentityIsWhole, SameIdentity, SettledIsCurrent,
     KF!identityVars
<1>3. SeedInFile'
  BY <1>t, <1>f DEF KeyInv, SeedInFile, KF!TypeOK, KF!Fresh, KF!KeyAssumption
<1>4. SeedKept'
  BY <1>t, <1>f DEF KeyInv, SeedKept, SeedInFile, KF!TypeOK, KF!Fresh, KF!KeyAssumption
<1> QED
  BY <1>1, <1>2, <1>3, <1>4 DEF KeyInv

LEMMA WriteSeedKeeps ==
    ASSUME KF!KeyAssumption, KeyInv, NEW q \in Relays, KF!WriteSeed(q)
    PROVE  KeyInv'
<1> USE DEF KF!WriteSeed, KF!RelayTo
<1>t. KF!TypeOK
  BY DEF KeyInv
<1>f. /\ seedFile.whole => seedFile = [key |-> seedFile.key, whole |-> TRUE]
           /\ seedFile.key \in Keys
      /\ KF!NoFile.key = None /\ ~KF!NoFile.whole
  BY <1>t, FileOf DEF KF!TypeOK
<1>1. KF!TypeOK'
  BY <1>t, <1>f DEF KeyInv, SeedInFile, KF!TypeOK, KF!Fresh, KF!Files, KF!identityVars
<1>2. StoreLocked' /\ KF!OneIdentity' /\ KF!IdentityIsWhole' /\ SameIdentity' /\ SettledIsCurrent'
  BY DEF KeyInv, StoreLocked, KF!OneIdentity, KF!IdentityIsWhole, SameIdentity, SettledIsCurrent,
     KF!identityVars
<1>3. SeedInFile'
  BY <1>t, <1>f DEF KeyInv, SeedInFile, KF!TypeOK, KF!Fresh, KF!KeyAssumption
<1>4. SeedKept'
  BY <1>t, <1>f DEF KeyInv, SeedKept, SeedInFile, KF!TypeOK, KF!Fresh, KF!KeyAssumption
<1> QED
  BY <1>1, <1>2, <1>3, <1>4 DEF KeyInv

LEMMA SyncSeedKeeps ==
    ASSUME KF!KeyAssumption, KeyInv, NEW q \in Relays, KF!SyncSeed(q)
    PROVE  KeyInv'
<1> USE DEF KF!SyncSeed, KF!RelayTo
<1>t. KF!TypeOK
  BY DEF KeyInv
<1>f. /\ seedFile.whole => seedFile = [key |-> seedFile.key, whole |-> TRUE]
           /\ seedFile.key \in Keys
      /\ KF!NoFile.key = None /\ ~KF!NoFile.whole
  BY <1>t, FileOf DEF KF!TypeOK
<1>1. KF!TypeOK'
  BY <1>t, <1>f DEF KeyInv, SeedInFile, KF!TypeOK, KF!Fresh, KF!Files, KF!identityVars
<1>2. StoreLocked' /\ KF!OneIdentity' /\ KF!IdentityIsWhole' /\ SameIdentity' /\ SettledIsCurrent'
  BY DEF KeyInv, StoreLocked, KF!OneIdentity, KF!IdentityIsWhole, SameIdentity, SettledIsCurrent,
     KF!identityVars
<1>3. SeedInFile'
  BY <1>t, <1>f DEF KeyInv, SeedInFile, KF!TypeOK, KF!Fresh, KF!KeyAssumption
<1>4. SeedKept'
  BY <1>t, <1>f DEF KeyInv, SeedKept, SeedInFile, KF!TypeOK, KF!Fresh, KF!KeyAssumption
<1> QED
  BY <1>1, <1>2, <1>3, <1>4 DEF KeyInv

LEMMA RelayEndsKeeps ==
    ASSUME KF!KeyAssumption, KeyInv, NEW q \in Relays, KF!RelayEnds(q)
    PROVE  KeyInv'
<1> USE DEF KF!RelayEnds, KF!RelayTo
<1>t. KF!TypeOK
  BY DEF KeyInv
<1>f. /\ seedFile.whole => seedFile = [key |-> seedFile.key, whole |-> TRUE]
           /\ seedFile.key \in Keys
      /\ KF!NoFile.key = None /\ ~KF!NoFile.whole
  BY <1>t, FileOf DEF KF!TypeOK
<1>1. KF!TypeOK'
  BY <1>t, <1>f DEF KeyInv, SeedInFile, KF!TypeOK, KF!Fresh, KF!Files, KF!identityVars
<1>2. StoreLocked' /\ KF!OneIdentity' /\ KF!IdentityIsWhole' /\ SameIdentity' /\ SettledIsCurrent'
  BY DEF KeyInv, StoreLocked, KF!OneIdentity, KF!IdentityIsWhole, SameIdentity, SettledIsCurrent,
     KF!identityVars
<1>3. SeedInFile'
  BY <1>t, <1>f DEF KeyInv, SeedInFile, KF!TypeOK, KF!Fresh, KF!KeyAssumption
<1>4. SeedKept'
  BY <1>t, <1>f DEF KeyInv, SeedKept, SeedInFile, KF!TypeOK, KF!Fresh, KF!KeyAssumption
<1> QED
  BY <1>1, <1>2, <1>3, <1>4 DEF KeyInv

LEMMA DiskKeepsKeys ==
    ASSUME KF!KeyAssumption, KeyInv, KF!Settle \/ KF!PowerFails
    PROVE  KeyInv'
<1>t. KF!TypeOK
  BY DEF KeyInv
<1>f. /\ \A f \in {identity, settled, seedFile} : f.key = None => f = KF!NoFile
      /\ KF!NoFile.key = None /\ ~KF!NoFile.whole
  BY <1>t, FileOf DEF KF!TypeOK
<1>1. CASE KF!Settle
  BY <1>1, <1>t, <1>f DEF KF!Settle, KeyInv, KF!TypeOK, StoreLocked, KF!OneIdentity,
     KF!IdentityIsWhole, SameIdentity, SettledIsCurrent, SeedInFile, SeedKept
<1>2. CASE KF!PowerFails
  <2>1. KF!TypeOK' /\ SeedKept'
    BY <1>2, <1>t, <1>f DEF KF!PowerFails, KeyInv, KF!TypeOK, SeedKept, KF!Files, KF!NoFile
  <2>2. StoreLocked' /\ KF!OneIdentity' /\ KF!IdentityIsWhole' /\ SameIdentity' /\ SettledIsCurrent'
          /\ SeedInFile'
    BY <1>2 DEF KF!PowerFails, KeyInv, StoreLocked, KF!OneIdentity, KF!IdentityIsWhole,
       SameIdentity, SettledIsCurrent, SeedInFile
  <2> QED
    BY <2>1, <2>2 DEF KeyInv
<1> QED
  BY <1>1, <1>2

LEMMA KeysStep == KF!KeyAssumption /\ KeyInv /\ [KF!Next]_(KF!vars) => KeyInv'
<1> SUFFICES ASSUME KF!KeyAssumption, KeyInv, [KF!Next]_(KF!vars) PROVE KeyInv'
  OBVIOUS
<1>1. CASE UNCHANGED KF!vars
  BY <1>1 DEF KF!vars, KF!identityVars, KF!seedVars, KeyInv, KF!TypeOK, StoreLocked, KF!OneIdentity,
     KF!IdentityIsWhole, SameIdentity, SettledIsCurrent, SeedInFile, SeedKept
<1> QED
  BY <1>1, LockKeeps, LoadKeeps, LoadFailsKeeps, GenerateKeeps, SaveKeeps, SyncTemporaryKeeps,
     PersistKeeps, SaveFailsKeeps, ProgramEndsKeeps, ReadSeedKeeps, FindNoSeedKeeps,
     CreateSeedKeeps, WriteSeedKeeps, SyncSeedKeeps, RelayEndsKeeps, DiskKeepsKeys DEF KF!Next,
     KF!Store, KF!Seed

LEMMA KeysAreSafe ==
    ASSUME KF!KeyAssumption, KeyInv
    PROVE  KF!TypeOK /\ KF!OneIdentity /\ KF!IdentityIsWhole /\ KF!OneSeed
<1>1. KF!OneSeed
  BY FileOf DEF KeyInv, SeedInFile, KF!TypeOK, KF!OneSeed
<1> QED
  BY <1>1 DEF KeyInv

\* The identity on the disk is the one in the file, and a save writes the same.
LEMMA SettledStays ==
    ASSUME KeyInv, [KF!Next]_(KF!vars), settled # KF!NoFile
    PROVE  settled'.key = settled.key
BY DEF KeyInv, SettledIsCurrent, KF!Next, KF!Store, KF!Seed, KF!Lock, KF!Load, KF!LoadFails,
   KF!Generate, KF!Save, KF!SyncTemporary, KF!Persist, KF!SaveFails, KF!ProgramEnds, KF!Settle,
   KF!ReadSeed, KF!FindNoSeed, KF!CreateSeed, KF!WriteSeed, KF!SyncSeed, KF!RelayEnds,
   KF!PowerFails, KF!vars, KF!identityVars

-----------------------------------------------------------------------------
(* Both on one disk.  A behaviour moves one of the two; the other keeps its *)
(* invariant because none of its variables change.                          *)

FilesInv == TransferInv /\ KeyInv

\* While the keys move, the transfers stay as they are, and the other way round.
LEMMA OneMoves ==
    ASSUME [Next]_vars
    PROVE  [FT!Next]_(FT!vars) /\ [KF!Next]_(KF!vars)
BY DEF Next, vars, transferVars, keyVars, FT!vars, FT!peerVars, FT!hostVars,
   FT!diskVars, KF!vars, KF!identityVars, KF!seedVars

\* Every state a behaviour reaches has locks, offsets, records and keys that agree.
THEOREM FilesInvariant == Spec => []FilesInv
<1>a. FT!ConstantsAssumption /\ KF!KeyAssumption
  BY InstanceAssumption
<1>1. Init => FilesInv
  BY <1>a, TransfersBegin, KeysBegin DEF Init, FilesInv
<1>2. FilesInv /\ [Next]_vars => FilesInv'
  BY <1>a, OneMoves, TransferStep, KeysStep DEF FilesInv
<1> QED
  BY <1>1, <1>2, PTL DEF Spec

\* A published file is the one that was offered and is on the disk, the offset of a session
\* is the end of its file, and no two sessions write one file (begin, resume, write_chunk
\* and finish), for any number of sessions, files and chunks.
THEOREM TransfersSound == Spec => []TransferIsSound
<1>1. FilesInv => TransferIsSound
  BY InstanceAssumption, TransferIsSafe DEF FilesInv, TransferIsSound
<1> QED
  BY <1>1, FilesInvariant, PTL

\* Only the removal after publication, the owner's cancel and a power loss that comes before
\* the disk has the name take away a part file that can be resumed (finish, cancel).
THEOREM ReceivedIsKept == Spec => NothingLost
<1>1. FilesInv /\ [Next]_vars =>
        [\A i \in parts \ parts' : meta[i] = "whole" =>
            \/ \E n \in Names : dest[n] = i
            \/ \E s \in Sessions :
                host[s] = "cancelPart" /\ current[s] = i /\ Owner[s] = record[i].owner
            \/ i \notin disk.parts /\ FT!Directory' = disk]_(FT!vars)
  BY InstanceAssumption, OneMoves, TransferLosesNothing DEF FilesInv
<1> QED
  BY <1>1, FilesInvariant, PTL DEF Spec, NothingLost, FT!NothingLost

\* The transfers implement Publication (begin to finish, send_file): each step publishes one
\* new name, tells one sender of a file that is there, lets the disk have the names there are,
\* takes in a power loss those it does not have and no other, or shows nothing.
THEOREM TransfersPublish == Spec => Publishes
<1>1. Init => FT!Promise!Init
  BY TransferPromises DEF Init
<1>2. FilesInv /\ [Next]_vars => [FT!Promise!Next]_(FT!Promise!vars)
  BY InstanceAssumption, OneMoves, TransferStepPromises DEF FilesInv
<1> QED
  BY <1>1, <1>2, FilesInvariant, PTL DEF Spec, Publishes, FT!Publishes, FT!Promise!Spec

\* Programs that run have the identity in the file, relays the seed, and identity.bin is
\* whole, for any number of programs and relays, through deaths and power losses
\* (load_or_create and save of sensor-identity, load_or_create of the relay).
THEOREM KeysSound == Spec => []KeysAreSound
<1>1. FilesInv => KeysAreSound
  BY InstanceAssumption, KeysAreSafe DEF FilesInv, KeysAreSound
<1> QED
  BY <1>1, FilesInvariant, PTL

\* The identity the disk knows is never replaced (IdentityFileStore).
THEOREM IdentityStays == Spec => IdentityIsForGood
<1>1. FilesInv /\ [Next]_vars =>
        [settled # KF!NoFile => settled'.key = settled.key]_(KF!vars)
  BY OneMoves, SettledStays DEF FilesInv
<1> QED
  BY <1>1, FilesInvariant, PTL DEF Spec, IdentityIsForGood, KF!IdentityIsForGood

=============================================================================
