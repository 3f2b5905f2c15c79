---------------------------- MODULE ClientBridge ----------------------------
(***************************************************************************)
(* The thread between a local TCP stream, which the secure connection uses, *)
(* and the WebSocket of the rendezvous service (bridge,                     *)
(* crates/sensor-render/src/lib.rs).  Both sockets are non-blocking: one    *)
(* pass of the loop flushes, reads and sends towards the service, then      *)
(* reads and writes towards the program, and keeps what could not be        *)
(* written for the next pass.                                               *)
(*                                                                          *)
(* A byte is its number in its direction; the program and the service send  *)
(* a few each, and either may stop reading.  A message of the service has   *)
(* one or two bytes.                                                        *)
(*                                                                          *)
(* A definition marked "Mutation" is not the code: it is a plausible wrong  *)
(* version of the definition below it, used to see a property fail.         *)
(***************************************************************************)
EXTENDS Naturals, Sequences

CONSTANTS
    MaxBytes,   \* bound on the bytes each side sends
    MaxPings,   \* bound on the pings of the service
    TcpRoom,    \* what the local socket buffers, in each direction
    WireRoom,   \* messages the network to the service takes before a write blocks
    StallLimit  \* idle passes that make up the 30 seconds without progress

ConstantsAssumption ==
    /\ MaxBytes \in Nat /\ MaxPings \in Nat
    /\ TcpRoom \in Nat \ {0} /\ WireRoom \in Nat \ {0} /\ StallLimit \in Nat

VARIABLES
    at,         \* where the loop is
    sentUp,     \* bytes the program has written
    tcpIn,      \* those of them the bridge has not read
    unsent,     \* messages tungstenite holds: a sequence of bytes, or the answer to a ping
    blocked,    \* pending_websocket
    wire,       \* messages on their way to the service
    gotUp,      \* history: bytes the service has read
    pongs,      \* history: answers it has read
    sentDown,   \* bytes the service has sent
    inbox,      \* messages of the service the bridge has not read
    pendingTcp, \* pending_tcp from tcp_offset on
    tcpOut,     \* bytes the program has not read
    gotDown,    \* history: bytes it has read
    pings,      \* history: pings of the service
    fresh,      \* history: a message has come since the bridge last looked for one
    progressed, \* of this pass
    stalled,    \* idle passes in a row
    hangup,     \* the program has closed its end
    ended       \* why the loop ended, "no" while it runs

upward   == << sentUp, tcpIn, unsent, blocked, wire, gotUp, pongs >>
downward == << sentDown, inbox, pendingTcp, tcpOut, gotDown, pings, fresh >>
vars == << at, upward, downward, progressed, stalled, hangup, ended >>

Places  == {"flush", "read", "pull", "push", "account", "ended"}
Bytes   == 1 .. MaxBytes
Pong    == << >>  \* stands for a pong among sequences of bytes

TypeOK ==
    /\ at \in Places
    /\ sentUp \in 0 .. MaxBytes /\ sentDown \in 0 .. MaxBytes
    /\ tcpIn \in Seq(Bytes) /\ Len(tcpIn) <= TcpRoom
    /\ tcpOut \in Seq(Bytes) /\ Len(tcpOut) <= TcpRoom
    /\ unsent \in Seq(Seq(Bytes)) /\ wire \in Seq(Seq(Bytes)) /\ Len(wire) <= WireRoom
    /\ \A i, j \in DOMAIN unsent : unsent[i] # Pong /\ unsent[j] # Pong => i = j
    /\ unsent # << >> => blocked
    /\ pendingTcp \in Seq(Bytes) /\ Len(pendingTcp) <= 2
    /\ blocked \in BOOLEAN /\ fresh \in BOOLEAN /\ progressed \in BOOLEAN /\ hangup \in BOOLEAN
    /\ stalled \in 0 .. StallLimit
    /\ pings \in 0 .. MaxPings /\ pongs \in 0 .. MaxPings
    /\ ended \in {"no", "hangup", "service", "stalled", "error"}

Init ==
    /\ at = "flush"
    /\ sentUp = 0 /\ sentDown = 0
    /\ tcpIn = << >> /\ unsent = << >> /\ blocked = FALSE /\ wire = << >> /\ gotUp = << >> /\ pongs = 0
    /\ inbox = << >> /\ pendingTcp = << >> /\ tcpOut = << >> /\ gotDown = << >> /\ pings = 0 /\ fresh = FALSE
    /\ progressed = FALSE /\ stalled = 0
    /\ hangup = FALSE /\ ended = "no"

-----------------------------------------------------------------------------
(* The loop *)

\* break: both sockets are shut down, what is held is lost
Break(reason) == ended' = reason /\ at' = "ended"

\* what the network takes of the held messages
Push(held) ==
    LET room == WireRoom - Len(wire)
        n    == IF Len(held) < room THEN Len(held) ELSE room IN
    /\ wire' = wire \o SubSeq(held, 1, n)
    /\ unsent' = SubSeq(held, n + 1, Len(held))

Flush ==
    /\ at = "flush"
    /\ IF blocked
       THEN /\ Push(unsent)
            /\ blocked' = (unsent' # << >>)
            /\ progressed' = (unsent' = << >>)
       ELSE UNCHANGED << wire, unsent, blocked >> /\ progressed' = FALSE
    /\ at' = "read"
    /\ UNCHANGED << sentUp, tcpIn, gotUp, pongs, downward, stalled, hangup, ended >>

\* Mutation: a message that could not be sent is sent again in the next pass
ReadTcpRepeating ==
    /\ at = "read"
    /\ IF ~blocked /\ tcpIn # << >>
       THEN /\ Push(<< tcpIn >>)
            /\ tcpIn' = IF unsent' = << >> THEN << >> ELSE tcpIn
            /\ blocked' = (unsent' # << >>)
            /\ progressed' = TRUE /\ at' = "pull" /\ UNCHANGED ended
       ELSE IF ~blocked /\ hangup
       THEN Break("hangup") /\ UNCHANGED << wire, unsent, tcpIn, blocked, progressed >>
       ELSE at' = "pull" /\ UNCHANGED << wire, unsent, tcpIn, blocked, progressed, ended >>
    /\ UNCHANGED << sentUp, gotUp, pongs, downward, stalled, hangup >>

\* only while nothing is held: the program is not read, and its end is not seen
ReadTcp ==
    /\ at = "read"
    /\ IF ~blocked /\ tcpIn # << >>
       THEN /\ Push(<< tcpIn >>)
            /\ tcpIn' = << >>
            /\ blocked' = (unsent' # << >>)
            /\ progressed' = TRUE /\ at' = "pull" /\ UNCHANGED ended
       ELSE IF ~blocked /\ hangup
       THEN Break("hangup") /\ UNCHANGED << wire, unsent, tcpIn, blocked, progressed >>
       ELSE at' = "pull" /\ UNCHANGED << wire, unsent, tcpIn, blocked, progressed, ended >>
    /\ UNCHANGED << sentUp, gotUp, pongs, downward, stalled, hangup >>

\* only when everything read before has been written; tungstenite queues the answer to a ping
Pull ==
    /\ at = "pull"
    /\ IF pendingTcp = << >> /\ inbox # << >>
       THEN /\ CASE Head(inbox).kind = "binary" -> pendingTcp' = Head(inbox).bytes /\ at' = "push"
                                                   /\ UNCHANGED << unsent, blocked, ended >>
                 [] Head(inbox).kind = "ping"   -> unsent' = Append(unsent, Pong) /\ blocked' = TRUE
                                                   /\ at' = "push" /\ UNCHANGED << pendingTcp, ended >>
                 [] OTHER                       -> Break("service") /\ UNCHANGED << pendingTcp, unsent, blocked >>
            /\ inbox' = Tail(inbox)
            /\ progressed' = TRUE
       ELSE at' = "push" /\ UNCHANGED << inbox, pendingTcp, unsent, blocked, progressed, ended >>
    /\ fresh' = FALSE
    /\ UNCHANGED << sentUp, tcpIn, wire, gotUp, pongs, sentDown, tcpOut, gotDown, pings, stalled, hangup >>

\* as much as the local socket takes
PushTcp ==
    /\ at = "push"
    /\ LET room == TcpRoom - Len(tcpOut)
           n    == IF Len(pendingTcp) < room THEN Len(pendingTcp) ELSE room IN
       IF pendingTcp # << >> /\ hangup
       THEN Break("error") /\ UNCHANGED << tcpOut, pendingTcp, progressed >>
       ELSE /\ tcpOut' = tcpOut \o SubSeq(pendingTcp, 1, n)
            /\ pendingTcp' = SubSeq(pendingTcp, n + 1, Len(pendingTcp))
            /\ progressed' = (progressed \/ n > 0)
            /\ at' = "account" /\ UNCHANGED ended
    /\ UNCHANGED << upward, sentDown, inbox, gotDown, pings, fresh, stalled, hangup >>

\* 30 seconds without progress while something is held end the bridge
Account ==
    /\ at = "account"
    /\ IF progressed
       THEN stalled' = 0 /\ at' = "flush" /\ UNCHANGED ended
       ELSE IF (blocked \/ pendingTcp # << >>) /\ stalled = StallLimit
       THEN Break("stalled") /\ UNCHANGED stalled
       ELSE /\ stalled' = IF stalled < StallLimit THEN stalled + 1 ELSE stalled
            /\ at' = "flush" /\ UNCHANGED ended
    /\ UNCHANGED << upward, downward, progressed, hangup >>

\* an error of either socket
BridgeFails ==
    /\ at \notin {"ended", "account"}
    /\ Break("error")
    /\ UNCHANGED << upward, downward, progressed, stalled, hangup >>

-----------------------------------------------------------------------------
(* The program and the service *)

ProgramWrites ==
    /\ ~hangup /\ ended = "no"
    /\ sentUp < MaxBytes /\ Len(tcpIn) < TcpRoom
    /\ sentUp' = sentUp + 1
    /\ tcpIn' = Append(tcpIn, sentUp')
    /\ UNCHANGED << at, unsent, blocked, wire, gotUp, pongs, downward, progressed, stalled, hangup, ended >>

ProgramReads ==
    /\ ~hangup
    /\ tcpOut # << >>
    /\ gotDown' = gotDown \o tcpOut
    /\ tcpOut' = << >>
    /\ UNCHANGED << at, upward, sentDown, inbox, pendingTcp, pings, fresh, progressed, stalled, hangup, ended >>

ProgramCloses ==
    /\ ~hangup
    /\ hangup' = TRUE
    /\ UNCHANGED << at, upward, downward, progressed, stalled, ended >>

ServiceReads ==
    /\ wire # << >>
    /\ gotUp' = gotUp \o Head(wire)
    /\ pongs' = IF Head(wire) = Pong THEN pongs + 1 ELSE pongs
    /\ wire' = Tail(wire)
    /\ UNCHANGED << at, sentUp, tcpIn, unsent, blocked, downward, progressed, stalled, hangup, ended >>

ServiceSends ==
    /\ Len(inbox) < 2
    /\ \A k \in DOMAIN inbox : inbox[k].kind # "close"
    /\ \/ \E n \in 1 .. 2 :
            /\ sentDown + n <= MaxBytes
            /\ sentDown' = sentDown + n
            /\ inbox' = Append(inbox, [kind |-> "binary", bytes |-> [k \in 1 .. n |-> sentDown + k]])
            /\ UNCHANGED pings
       \/ /\ pings < MaxPings
          /\ pings' = pings + 1
          /\ inbox' = Append(inbox, [kind |-> "ping", bytes |-> << >>])
          /\ UNCHANGED sentDown
       \/ /\ inbox' = Append(inbox, [kind |-> "close", bytes |-> << >>])
          /\ UNCHANGED << sentDown, pings >>
    /\ fresh' = TRUE
    /\ UNCHANGED << at, upward, pendingTcp, tcpOut, gotDown, progressed, stalled, hangup, ended >>

-----------------------------------------------------------------------------
Pass == Flush \/ ReadTcp \/ Pull \/ PushTcp \/ Account

Next ==
    \/ Pass \/ BridgeFails
    \/ ProgramWrites \/ ProgramReads \/ ProgramCloses \/ ServiceReads \/ ServiceSends

Spec == Init /\ [][Next]_vars

\* the thread runs; the program reads what arrives; the service need not read
FairSpec == Spec /\ WF_vars(Pass) /\ WF_vars(ProgramReads)

-----------------------------------------------------------------------------
(* Properties *)

\* Bytes arrive once and in order in both directions, however writes are cut and held over
\* (pending_tcp, tcp_offset, pending_websocket).
InOrder ==
    /\ Len(gotUp) <= sentUp /\ \A k \in DOMAIN gotUp : gotUp[k] = k
    /\ Len(gotDown) <= sentDown /\ \A k \in DOMAIN gotDown : gotDown[k] = k

\* When the program has closed its end, everything it had written has been handed to the
\* network: the end is only seen when nothing is held (Ok(0) after pending_websocket).
HangupLosesNothing ==
    ended = "hangup" => tcpIn = << >> /\ unsent = << >>

\* A side that takes nothing does not hold up the other direction: when the bridge gives up, no
\* message it could have passed on to the program was waiting (one pending write per direction).
GivesUpOnlyWhenStuck ==
    ended = "stalled" => fresh \/ inbox = << >> \/ pendingTcp # << >>

\* Once the traffic has stopped, what is held is written or the bridge ends: a program or a
\* service that takes nothing any more does not hold the thread for ever (the 30 seconds).
StuckEnds ==
    (blocked \/ pendingTcp # << >>) ~> (ended # "no" \/ (~blocked /\ pendingTcp = << >>))
=============================================================================
