--------------------------- MODULE SecureChannel ---------------------------
(***************************************************************************)
(* The secure connection of two endpoints (SecureConnection, SecureReader   *)
(* and SecureWriter, crates/sensor-transport/src/connection.rs) with the    *)
(* handshake of crates/sensor-session/src/lib.rs and the record sequence    *)
(* numbers of crates/sensor-crypto/src/lib.rs.                              *)
(*                                                                          *)
(* One thread makes the handshake and splits the connection; a reader and a *)
(* writer thread use the halves.  Each side of the connection is a TCP      *)
(* stream through a relay that may lose, repeat or swap frames.             *)
(*                                                                          *)
(* A signature cannot be forged and a record opens only under its own       *)
(* sequence number and the keys of its transcript, so the relay forwards    *)
(* content or garbage.  A message is the number of the send that made it.   *)
(*                                                                          *)
(* A definition marked "Mutation" is not the code: it is a plausible wrong  *)
(* version of the definition below it, used to see a property fail.         *)
(***************************************************************************)
EXTENDS Naturals, Sequences

CONSTANTS
    DeviceIds, Keys, \* an identity is a device ID with a public key
    Zero,            \* the key [0; 32]: the initiator knows only the device ID
    Unpinned,        \* the responder accepts any identity (accept_unpinned)
    None,
    Capacity,        \* frames a stream holds before a write blocks
    MaxSends,        \* bound on the messages an end sends
    MaxDisturbances  \* bound on what the relay loses, repeats or swaps

ConstantsAssumption ==
    /\ Zero \notin Keys
    /\ Capacity \in Nat \ {0}
    /\ MaxSends \in Nat
    /\ MaxDisturbances \in Nat

Ends       == {"initiator", "responder"}
Other(e)   == CHOOSE f \in Ends : f # e
Identities == [id : DeviceIds, key : Keys]

VARIABLES
    me,         \* me[e]: the identity of e
    expected,   \* expected[e]: the peer it was told to expect
    phase,      \* phase[e]: where the handshake of e is
    peer,       \* peer[e]: the identity its session authenticated
    transcript, \* transcript[e]: the hellos its keys come from
    stream,     \* stream[e]: the frames from e that the other end has not read
    shut,       \* shut[e]: e has shut its socket down
    sealing,    \* sealing[e]: next_send_sequence
    opening,    \* opening[e]: the sequence number open expects
    writer,     \* writer[e]: where SecureWriter::send is
    reader,     \* reader[e]: where SecureReader::receive is
    taken,      \* taken[e]: the frame the reader has in hand
    failed,     \* failed[e]: DuplexState.failed
    sent,       \* history: messages sealed by e
    delivered,  \* history: messages receive of e returned
    late,       \* history: how many of them after failed
    disturbed   \* history: what the relay did

handshake == << me, expected, phase, peer, transcript >>
threads   == << writer, reader, taken, failed >>
history   == << sent, delivered, late >>
vars == << handshake, stream, shut, sealing, opening, threads, history, disturbed >>

Phases ==
    [initiator |-> {"hello", "serverHello", "finish", "awaitFinish", "established", "split", "closed"},
     responder |-> {"clientHello", "reply", "awaitFinish", "finish", "established", "split", "closed"}]

TypeOK ==
    /\ me \in [Ends -> Identities]
    /\ \A e \in Ends : phase[e] \in Phases[e]
    /\ peer \in [Ends -> Identities \cup {None}]
    /\ \A e \in Ends : Len(stream[e]) <= Capacity + MaxDisturbances
    /\ shut \in [Ends -> BOOLEAN]
    /\ \A e \in Ends : sealing[e] \in 0 .. MaxSends + 1 /\ opening[e] \in 0 .. MaxSends + 1
    /\ writer \in [Ends -> {"idle", "sealed", "half", "dropped"}]
    /\ reader \in [Ends -> {"idle", "reading", "whole", "dropped"}]
    /\ failed \in [Ends -> BOOLEAN]
    /\ \A e \in Ends : failed[e] => shut[e]
    /\ disturbed \in 0 .. MaxDisturbances

Init ==
    /\ me \in [Ends -> Identities]
    /\ expected \in [initiator : [id : DeviceIds, key : Keys \cup {Zero}],
                     responder : Identities \cup {Unpinned}]
    /\ phase = [initiator |-> "hello", responder |-> "clientHello"]
    /\ peer = [e \in Ends |-> None]
    /\ transcript = [e \in Ends |-> None]
    /\ stream = [e \in Ends |-> << >>]
    /\ shut = [e \in Ends |-> FALSE]
    /\ sealing = [e \in Ends |-> 0]
    /\ opening = [e \in Ends |-> 0]
    /\ writer = [e \in Ends |-> "idle"]
    /\ reader = [e \in Ends |-> "idle"]
    /\ taken = [e \in Ends |-> None]
    /\ failed = [e \in Ends |-> FALSE]
    /\ sent = [e \in Ends |-> << >>]
    /\ delivered = [e \in Ends |-> << >>]
    /\ late = [e \in Ends |-> 0]
    /\ disturbed = 0

-----------------------------------------------------------------------------
(* Frames *)

Hello(kind, body)    == [kind |-> kind, whole |-> TRUE, sequence |-> 0, body |-> body]
Finish               == 0  \* CLIENT_FINISH, SERVER_FINISH; messages are numbered from 1
Record(n, body)      == [kind |-> "record", whole |-> TRUE, sequence |-> n, body |-> body]
Arrives(e)           == stream[Other(e)] # << >> /\ Head(stream[Other(e)]).whole
Arriving(e)          == Head(stream[Other(e)])
ReadFrame(e)         == stream' = [stream EXCEPT ![Other(e)] = Tail(@)]
CanWrite(e)          == ~shut[e] /\ Len(stream[e]) < Capacity
WriteFrame(e, frame) == stream' = [stream EXCEPT ![e] = Append(@, frame)]
GoesTo(e, state)     == phase' = [phase EXCEPT ![e] = state]
Open(e)              == phase[e] \in {"established", "split"}

\* Mutation: any later record is accepted
OpensLater(e, frame) ==
    /\ frame.kind = "record" /\ frame.whole
    /\ frame.sequence >= opening[e]
    /\ transcript[e] = transcript[Other(e)]

\* SecureChannel::open: the very next sequence number, and the keys of the transcript both
\* ends derived theirs from
Opens(e, frame) ==
    /\ frame.kind = "record" /\ frame.whole
    /\ frame.sequence = opening[e]
    /\ transcript[e] = transcript[Other(e)]

-----------------------------------------------------------------------------
(* The handshake: initiate, accept, accept_unpinned *)

SendClientHello ==
    /\ phase["initiator"] = "hello"
    /\ CanWrite("initiator")
    /\ WriteFrame("initiator", Hello("clientHello",
            [from |-> me["initiator"], target |-> expected["initiator"]]))
    /\ GoesTo("initiator", "serverHello")
    /\ UNCHANGED << me, expected, peer, transcript, shut, sealing, opening, threads, history, disturbed >>

\* Mutation: the caller's identity is only looked at by its device ID
AcceptHelloById(hello) ==
    /\ hello.target.id = me["responder"].id
    /\ hello.target.key \in {Zero, me["responder"].key}
    /\ expected["responder"] # Unpinned => hello.from.id = expected["responder"].id

\* accept_hello and accept_hello_unpinned
AcceptHello(hello) ==
    /\ hello.target.id = me["responder"].id
    /\ hello.target.key \in {Zero, me["responder"].key}
    /\ expected["responder"] \in {Unpinned, hello.from}

ReceiveClientHello ==
    /\ phase["responder"] = "clientHello"
    /\ Arrives("responder")
    /\ LET frame == Arriving("responder") IN
        /\ frame.kind = "clientHello"
        /\ AcceptHello(frame.body)
        /\ peer' = [peer EXCEPT !["responder"] = frame.body.from]
        /\ transcript' = [transcript EXCEPT !["responder"] = << frame.body, me["responder"] >>]
    /\ ReadFrame("responder")
    /\ GoesTo("responder", "reply")
    /\ UNCHANGED << me, expected, shut, sealing, opening, threads, history, disturbed >>

SendServerHello ==
    /\ phase["responder"] = "reply"
    /\ CanWrite("responder")
    /\ WriteFrame("responder", Hello("serverHello", transcript["responder"]))
    /\ GoesTo("responder", "awaitFinish")
    /\ UNCHANGED << me, expected, peer, transcript, shut, sealing, opening, threads, history, disturbed >>

\* finish_initiator: the answer is to this hello and from the device that was asked for
ReceiveServerHello ==
    /\ phase["initiator"] = "serverHello"
    /\ Arrives("initiator")
    /\ LET frame == Arriving("initiator") IN
        /\ frame.kind = "serverHello"
        /\ frame.body[1].from = me["initiator"]
        /\ frame.body[2].id = expected["initiator"].id
        /\ expected["initiator"].key \in {Zero, frame.body[2].key}
        /\ peer' = [peer EXCEPT !["initiator"] = frame.body[2]]
        /\ transcript' = [transcript EXCEPT !["initiator"] = frame.body]
    /\ ReadFrame("initiator")
    /\ GoesTo("initiator", "finish")
    /\ UNCHANGED << me, expected, shut, sealing, opening, threads, history, disturbed >>

\* CLIENT_FINISH and SERVER_FINISH are the first records of their directions
SendFinish(e) ==
    /\ phase[e] = "finish"
    /\ CanWrite(e)
    /\ WriteFrame(e, Record(sealing[e], Finish))
    /\ sealing' = [sealing EXCEPT ![e] = @ + 1]
    /\ GoesTo(e, IF e = "initiator" THEN "awaitFinish" ELSE "established")
    /\ UNCHANGED << me, expected, peer, transcript, shut, opening, threads, history, disturbed >>

ReceiveFinish(e) ==
    /\ phase[e] = "awaitFinish"
    /\ Arrives(e)
    /\ Opens(e, Arriving(e))
    /\ Arriving(e).body = Finish
    /\ opening' = [opening EXCEPT ![e] = @ + 1]
    /\ ReadFrame(e)
    /\ GoesTo(e, IF e = "initiator" THEN "established" ELSE "finish")
    /\ UNCHANGED << me, expected, peer, transcript, shut, sealing, threads, history, disturbed >>

\* anything else: a frame that does not fit, an identity that is not the expected one, the
\* end of the stream, the deadline; the connection is closed when its owner drops it
HandshakeFails(e) ==
    /\ phase[e] \notin {"split", "closed"}
    /\ GoesTo(e, "closed")
    /\ shut' = [shut EXCEPT ![e] = TRUE]
    /\ UNCHANGED << me, expected, peer, transcript, stream, sealing, opening, threads, history, disturbed >>

\* SecureConnection::split: the session moves to the halves, the connection counts as closed
Split(e) ==
    /\ phase[e] = "established"
    /\ GoesTo(e, "split")
    /\ UNCHANGED << me, expected, peer, transcript, stream, shut, sealing, opening, threads, history, disturbed >>

-----------------------------------------------------------------------------
(* Sending and receiving: before split one thread does both, after it each half its own. *)
(* failed[e] is SecureConnection.closed before split and DuplexState.failed after it.   *)

\* close and fail_duplex
Fail(e) ==
    /\ failed' = [failed EXCEPT ![e] = TRUE]
    /\ shut' = [shut EXCEPT ![e] = TRUE]

WriterAt(e, state) == writer' = [writer EXCEPT ![e] = state]
ReaderAt(e, state) == reader' = [reader EXCEPT ![e] = state]
OneThread(e, half) == phase[e] = "established" => half = "idle"

\* the record gets its sequence number under the lock, which is released before the write
Seal(e) ==
    /\ Open(e) /\ OneThread(e, reader[e])
    /\ writer[e] = "idle" /\ ~failed[e]
    /\ Len(sent[e]) < MaxSends
    /\ sent' = [sent EXCEPT ![e] = Append(@, Len(@) + 1)]
    /\ sealing' = [sealing EXCEPT ![e] = @ + 1]
    /\ WriterAt(e, "sealed")
    /\ UNCHANGED << handshake, stream, shut, opening, reader, taken, failed, delivered, late, disturbed >>

\* write_frame writes in pieces
WriteStart(e) ==
    /\ writer[e] = "sealed"
    /\ CanWrite(e)
    /\ WriteFrame(e, [Record(sealing[e] - 1, Len(sent[e])) EXCEPT !.whole = FALSE])
    /\ WriterAt(e, "half")
    /\ UNCHANGED << handshake, shut, sealing, opening, reader, taken, failed, history, disturbed >>

WriteEnd(e) ==
    /\ writer[e] = "half"
    /\ ~shut[e]
    /\ stream' = [stream EXCEPT ![e][Len(stream[e])].whole = TRUE]
    /\ WriterAt(e, "idle")
    /\ UNCHANGED << handshake, shut, sealing, opening, reader, taken, failed, history, disturbed >>

\* the deadline passes before or in the middle of a frame, or the connection is gone
WriteFails(e) ==
    /\ writer[e] \in {"sealed", "half"}
    /\ Fail(e)
    /\ WriterAt(e, "idle")
    /\ UNCHANGED << handshake, stream, sealing, opening, reader, taken, history, disturbed >>

StartReading(e) ==
    /\ Open(e) /\ OneThread(e, writer[e])
    /\ reader[e] = "idle" /\ ~failed[e]
    /\ ReaderAt(e, "reading")
    /\ UNCHANGED << handshake, stream, shut, sealing, opening, writer, taken, failed, history, disturbed >>

TakeFrame(e) ==
    /\ reader[e] = "reading"
    /\ Arrives(e)
    /\ taken' = [taken EXCEPT ![e] = Arriving(e)]
    /\ ReadFrame(e)
    /\ ReaderAt(e, "whole")
    /\ UNCHANGED << handshake, shut, sealing, opening, writer, failed, history, disturbed >>

\* open, under the lock; the other half may have failed meanwhile
Deliver(e) ==
    /\ reader[e] = "whole"
    /\ Opens(e, taken[e])
    /\ opening' = [opening EXCEPT ![e] = taken[e].sequence + 1]
    /\ delivered' = [delivered EXCEPT ![e] = Append(@, taken[e].body)]
    /\ late' = [late EXCEPT ![e] = IF failed[e] THEN @ + 1 ELSE @]
    /\ taken' = [taken EXCEPT ![e] = None]
    /\ ReaderAt(e, "idle")
    /\ UNCHANGED << handshake, stream, shut, sealing, writer, failed, sent, disturbed >>

\* a record that does not open ends the connection
Reject(e) ==
    /\ reader[e] = "whole"
    /\ ~Opens(e, taken[e])
    /\ Fail(e)
    /\ taken' = [taken EXCEPT ![e] = None]
    /\ ReaderAt(e, "idle")
    /\ UNCHANGED << handshake, stream, sealing, opening, writer, history, disturbed >>

\* the stream ends, here or at the other end, with nothing or with half a frame left
SeeEnd(e) ==
    /\ reader[e] = "reading"
    /\ ~Arrives(e)
    /\ shut[e] \/ shut[Other(e)]
    /\ Fail(e)
    /\ ReaderAt(e, "idle")
    /\ UNCHANGED << handshake, stream, sealing, opening, writer, taken, history, disturbed >>

ReadTimesOut(e) ==
    /\ reader[e] = "reading"
    /\ Fail(e)
    /\ ReaderAt(e, "idle")
    /\ UNCHANGED << handshake, stream, sealing, opening, writer, taken, history, disturbed >>

\* either half is dropped
DropHalf(e) ==
    /\ phase[e] = "split"
    /\ \/ writer[e] = "idle" /\ WriterAt(e, "dropped") /\ UNCHANGED reader
       \/ reader[e] = "idle" /\ ReaderAt(e, "dropped") /\ UNCHANGED writer
    /\ Fail(e)
    /\ UNCHANGED << handshake, stream, sealing, opening, taken, history, disturbed >>

\* what a closed socket had sent may be lost with it
Reset(e) ==
    /\ shut[e]
    /\ stream[e] # << >>
    /\ stream' = [stream EXCEPT ![e] = << >>]
    /\ UNCHANGED << handshake, shut, sealing, opening, threads, history, disturbed >>

\* the relay loses, repeats or swaps frames
Disturb(e) ==
    /\ disturbed < MaxDisturbances
    /\ LET s == stream[e] IN \E k \in DOMAIN s :
        /\ s[k].whole
        /\ \/ stream' = [stream EXCEPT ![e] = SubSeq(s, 1, k - 1) \o SubSeq(s, k + 1, Len(s))]
           \/ stream' = [stream EXCEPT ![e] = SubSeq(s, 1, k) \o SubSeq(s, k, Len(s))]
           \/ /\ k < Len(s) /\ s[k + 1].whole
              /\ stream' = [stream EXCEPT ![e][k] = s[k + 1], ![e][k + 1] = s[k]]
    /\ disturbed' = disturbed + 1
    /\ UNCHANGED << handshake, shut, sealing, opening, threads, history >>

-----------------------------------------------------------------------------
Writes(e) == WriteStart(e) \/ WriteEnd(e) \/ WriteFails(e)
Reads(e)  == StartReading(e) \/ TakeFrame(e) \/ Deliver(e) \/ Reject(e) \/ SeeEnd(e)

Next ==
    \/ SendClientHello \/ ReceiveClientHello \/ SendServerHello \/ ReceiveServerHello
    \/ \E e \in Ends :
        \/ SendFinish(e) \/ ReceiveFinish(e) \/ HandshakeFails(e) \/ Split(e)
        \/ Seal(e) \/ Writes(e)
        \/ Reads(e) \/ ReadTimesOut(e) \/ DropHalf(e) \/ Reset(e) \/ Disturb(e)

Spec == Init /\ [][Next]_vars

\* the programs receive in a loop, the end of a stream reaches its reader, and a write ends
\* or fails; that the deadline of a read passes is not assumed
FairSpec == Spec /\ \A e \in Ends : WF_vars(Reads(e)) /\ WF_vars(Writes(e))

-----------------------------------------------------------------------------
(* Properties *)

\* Each direction is a Pipe: what receive returns is a prefix of what send was given, in
\* order, whatever the relay loses, repeats or swaps and wherever a write stopped (seal,
\* open, write_frame).
Channel == INSTANCE Pipe WITH
    Messages  <- 1 .. MaxSends,
    sent      <- sent,
    delivered <- delivered

\* Both directions keep what Pipe promises (send and receive of SecureReader and SecureWriter).
Delivers == Channel!Spec

\* An end that finished its handshake talks to the identity it was told to expect, and to
\* the one at the other end (accept_hello, accept_hello_unpinned, finish_initiator).
Authentic ==
    \A e \in Ends : Open(e) =>
        /\ peer[e] = me[Other(e)]
        /\ e = "initiator" => /\ peer[e].id = expected[e].id
                              /\ expected[e].key \in {Zero, peer[e].key}
        /\ e = "responder" => expected[e] \in {Unpinned, peer[e]}

\* When an end can send messages the other has authenticated it under the same transcript,
\* and what either receives the other has sent after its own handshake ended (the
\* confirmations in initiate and accept).
Confirmed ==
    /\ Open("initiator") =>
        /\ transcript["responder"] = transcript["initiator"]
        /\ peer["responder"] = me["initiator"]
        /\ phase["responder"] \in {"established", "split", "closed"} /\ sealing["responder"] > 0
    /\ Open("responder") => sealing["initiator"] > 0 /\ transcript["initiator"] = transcript["responder"]

\* After one half failed or was dropped the other delivers at most the message it was
\* already reading (DuplexState.failed).
AtMostOneLate == \A e \in Ends : late[e] <= 1

\* A failure of any half ends the other end too, without waiting for a deadline
\* (fail_duplex shuts the stream down in both directions).
FailureSpreads ==
    \A e \in Ends :
        failed[e] /\ Open("initiator") /\ Open("responder") ~> failed[Other(e)] \/ shut[Other(e)]
=============================================================================
