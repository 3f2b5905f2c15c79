----------------------------- MODULE Connection -----------------------------
(***************************************************************************)
(* What carries a connection: reaching the service (RenderClient), staying  *)
(* on its list (Presence), passing bytes on (ClientBridge), and the secure  *)
(* channel over them (SecureChannel).                                       *)
(*                                                                          *)
(* Each is the model of one layer and takes from the others only what it    *)
(* says of its inputs, so that they share no state: a behaviour moves one   *)
(* of them (part) and the others stay as they began.                        *)
(***************************************************************************)
EXTENDS Naturals, Sequences, FiniteSets

CONSTANTS
    Jobs, Listeners, Resolvers, Addresses, MaxRuns, MaxSaid,           \* of RenderClient
    Heartbeat, AckLimit, Ttl, MaxDelay,                                \* of Presence
    MaxBytes, MaxPings, TcpRoom, WireRoom, StallLimit,                 \* of ClientBridge
    DeviceIds, Keys, Zero, Unpinned, None, FrameRoom, MaxSends, MaxDisturbances  \* of SecureChannel

VARIABLES
    part,
    pc, cancelled, overdue, tried, mail, heard, answer, runs, resolver, leftover, inFlight,
    client, asleep, beat, acked, up, down, present, seen, cut, troubled, gone, unheard,
    at, sentUp, tcpIn, unsent, blocked, wire, gotUp, pongs, sentDown, inbox, pendingTcp, tcpOut,
    gotDown, pings, fresh, progressed, stalled, hangup, ended,
    me, expected, phase, peer, transcript, stream, shut, sealing, opening, writer, reader, taken,
    failed, sent, delivered, late, disturbed

renderVars   == << pc, cancelled, overdue, tried, mail, heard, answer, runs, resolver, leftover,
                   inFlight >>
presenceVars == << client, asleep, beat, acked, up, down, present, seen, cut, troubled, gone,
                   unheard >>
bridgeVars   == << at, sentUp, tcpIn, unsent, blocked, wire, gotUp, pongs, sentDown, inbox,
                   pendingTcp, tcpOut, gotDown, pings, fresh, progressed, stalled, hangup, ended >>
channelVars  == << me, expected, phase, peer, transcript, stream, shut, sealing, opening, writer,
                   reader, taken, failed, sent, delivered, late, disturbed >>
vars         == << part, renderVars, presenceVars, bridgeVars, channelVars >>

RC == INSTANCE RenderClient WITH Capacity <- Resolvers, late <- overdue, inbox <- mail
PR == INSTANCE Presence
BR == INSTANCE ClientBridge
SC == INSTANCE SecureChannel WITH Capacity <- FrameRoom

ASSUME InstanceAssumption ==
    /\ RC!ConstantsAssumption
    /\ PR!DurationsAssumption
    /\ BR!ConstantsAssumption
    /\ SC!ConstantsAssumption

Init ==
    /\ part \in {"render", "presence", "bridge", "channel"}
    /\ RC!Init /\ PR!Init /\ BR!Init /\ SC!Init

Next ==
    \/ part = "render" /\ RC!Next /\ UNCHANGED << part, presenceVars, bridgeVars, channelVars >>
    \/ part = "presence" /\ PR!Next /\ UNCHANGED << part, renderVars, bridgeVars, channelVars >>
    \/ part = "bridge" /\ BR!Next /\ UNCHANGED << part, renderVars, presenceVars, channelVars >>
    \/ part = "channel" /\ SC!Next /\ UNCHANGED << part, renderVars, presenceVars, bridgeVars >>

Spec == Init /\ [][Next]_vars

\* the fairness of RenderClient, ClientBridge and SecureChannel, of the part that moves
Fairness ==
    /\ \A j \in Jobs : WF_renderVars(part = "render" /\ RC!JobStep(j))
    /\ WF_bridgeVars(part = "bridge" /\ BR!Pass)
    /\ WF_bridgeVars(part = "bridge" /\ BR!ProgramReads)
    /\ \A e \in SC!Ends : /\ WF_channelVars(part = "channel" /\ SC!Reads(e))
                          /\ WF_channelVars(part = "channel" /\ SC!Writes(e))

FairSpec == Spec /\ Fairness

-----------------------------------------------------------------------------
(* Properties *)

\* DNS_IN_FLIGHT equals the resolver threads there are, and no stream is handed over that the
\* service did not confirm (resolve, connect and wait_for_peer).
JobsAreAccounted ==
    /\ RC!TypeOK
    /\ RC!SlotsAccounted /\ RC!PeerAfterRegistration

\* A client that lives stays on the list, one that is gone leaves it, and a silence is noticed,
\* each in its time (HEARTBEAT, CONNECT_TIMEOUT, PRESENCE_TTL).
PresenceHolds ==
    /\ PR!TypeOK
    /\ PR!StaysReachable /\ PR!NoFalseTimeout
    /\ PR!SilenceNoticed /\ PR!StaleEntryBounded

\* The bridge passes every byte on once and in order, loses none when the program hangs up, and
\* gives up only when it is stuck (bridge).
BytesArrive ==
    /\ BR!TypeOK
    /\ BR!InOrder /\ BR!HangupLosesNothing /\ BR!GivesUpOnlyWhenStuck

\* Each end talks to whom it expected, both agree, and nothing but the message in hand is
\* delivered after a failure (initiate, accept, receive).
ChannelIsSound ==
    /\ SC!TypeOK
    /\ SC!AtMostOneLate /\ SC!Authentic /\ SC!Confirmed

\* Both directions of the channel are pipes: a prefix of what was sent arrives (send, receive).
Delivers == SC!Delivers

\* What waits comes to an end: a bridge that is stuck, a job that was cancelled or is past its
\* deadline, the other end of a channel that failed.
RouteEnds ==
    /\ BR!StuckEnds
    /\ RC!StopEnds /\ RC!DeadlineEnds
    /\ SC!FailureSpreads
=============================================================================
