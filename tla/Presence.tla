------------------------------ MODULE Presence ------------------------------
(***************************************************************************)
(* The time of a listening client: wait_for_peer of the client              *)
(* (crates/sensor-render/src/lib.rs) sends a heartbeat every HEARTBEAT and  *)
(* gives up when no answer has come for CONNECT_TIMEOUT; the service        *)
(* (crates/sensor-rendezvous/src/main.rs) drops a device it has not heard   *)
(* of for PRESENCE_TTL.  In the instance checked a tick is five seconds.   *)
(*                                                                          *)
(* Both loops poll every few milliseconds, so what is due at a tick is done *)
(* before the next one.  Messages keep their order and take at most         *)
(* MaxDelay ticks, until the network is cut for good; the client's computer *)
(* may sleep.                                                               *)
(*                                                                          *)
(* A definition marked "Mutation" is not the code: it is a plausible wrong  *)
(* version of the definition below it, used to see a property fail.         *)
(***************************************************************************)
EXTENDS Naturals, Sequences

CONSTANTS
    Heartbeat,  \* HEARTBEAT, in ticks
    AckLimit,   \* CONNECT_TIMEOUT, in ticks
    Ttl,        \* PRESENCE_TTL, in ticks
    MaxDelay    \* of a message, in ticks

\* what the code's three durations require of the network
DurationsAssumption ==
    /\ Heartbeat \in Nat \ {0} /\ AckLimit \in Nat /\ Ttl \in Nat /\ MaxDelay \in Nat
    /\ Heartbeat + 2 * MaxDelay <= AckLimit
    /\ Heartbeat + MaxDelay < Ttl

VARIABLES
    client,    \* "waiting", "ready", "timeout" or "refused"
    asleep,    \* the computer of the client sleeps
    beat,      \* ticks since last_heartbeat
    acked,     \* ticks since last_ack
    up,        \* ages of the heartbeats on their way, the oldest first
    down,      \* answers on their way: [kind, age], the oldest first
    present,   \* the service has the entry of the device
    seen,      \* ticks since last_seen
    cut,       \* the network delivers nothing any more
    troubled,  \* history: the client has slept, or the network was cut
    gone,      \* history: ticks since the client last ran with a network
    unheard    \* history: ticks the client has run with no network

vars == << client, asleep, beat, acked, up, down, present, seen, cut, troubled, gone, unheard >>

\* a count of ticks that no guard and no property tells apart beyond its limit
Older(n, limit) == IF n < limit THEN n + 1 ELSE n
Kinds == {"ack", "ready", "closed"}

TypeOK ==
    /\ client \in {"waiting", "ready", "timeout", "refused"}
    /\ asleep \in BOOLEAN /\ cut \in BOOLEAN /\ troubled \in BOOLEAN /\ present \in BOOLEAN
    /\ beat \in 0 .. Heartbeat /\ acked \in 0 .. AckLimit + 1 /\ seen \in 0 .. Ttl
    /\ gone \in 0 .. Ttl + MaxDelay + 1 /\ unheard \in 0 .. AckLimit + 2
    /\ Len(up) <= (MaxDelay \div Heartbeat) + 1
    /\ up \in Seq(0 .. MaxDelay) /\ down \in Seq([kind : Kinds, age : 0 .. MaxDelay])

\* the service has just answered the registration
Init ==
    /\ client = "waiting" /\ asleep = FALSE
    /\ beat = 0 /\ acked = 0
    /\ up = << >> /\ down = << >>
    /\ present = TRUE /\ seen = 0
    /\ cut = FALSE /\ troubled = FALSE /\ gone = 0 /\ unheard = 0

-----------------------------------------------------------------------------
(* The client *)

Runs == client = "waiting" /\ ~asleep

\* the check at the head of the loop comes before the read
GiveUp ==
    /\ Runs /\ acked > AckLimit
    /\ client' = "timeout"
    /\ UNCHANGED << asleep, beat, acked, up, down, present, seen, cut, troubled, gone, unheard >>

Read ==
    /\ Runs /\ acked <= AckLimit /\ ~cut
    /\ down # << >>
    /\ CASE Head(down).kind = "ready"  -> client' = "ready"   /\ UNCHANGED acked
         [] Head(down).kind = "closed" -> client' = "refused" /\ UNCHANGED acked
         [] OTHER                      -> acked' = 0          /\ UNCHANGED client
    /\ down' = Tail(down)
    /\ UNCHANGED << asleep, beat, up, present, seen, cut, troubled, gone, unheard >>

\* when the read would block
Beat ==
    /\ Runs /\ acked <= AckLimit
    /\ beat >= Heartbeat
    /\ beat' = 0
    /\ up' = IF cut THEN up ELSE Append(up, 0)
    /\ UNCHANGED << client, asleep, acked, down, present, seen, cut, troubled, gone, unheard >>

-----------------------------------------------------------------------------
(* The service *)

\* Mutation: the heartbeat is answered and the entry is not touched
HearUntouched ==
    /\ up # << >> /\ ~cut
    /\ up' = Tail(up)
    /\ down' = IF present THEN Append(down, [kind |-> "ack", age |-> 0]) ELSE down
    /\ UNCHANGED << client, asleep, beat, acked, present, seen, cut, troubled, gone, unheard >>

\* touch_device, last_seen and the answer
Hear ==
    /\ up # << >> /\ ~cut
    /\ up' = Tail(up)
    /\ IF present /\ seen < Ttl
       THEN /\ seen' = 0
            /\ down' = Append(down, [kind |-> "ack", age |-> 0])
       ELSE UNCHANGED << seen, down >>
    /\ UNCHANGED << client, asleep, beat, acked, present, cut, troubled, gone, unheard >>

\* presence_expired, remove_device and the end of the connection
Expire ==
    /\ present /\ seen >= Ttl
    /\ present' = FALSE
    /\ down' = IF cut THEN down ELSE Append(down, [kind |-> "closed", age |-> 0])
    /\ UNCHANGED << client, asleep, beat, acked, up, seen, cut, troubled, gone, unheard >>

\* a connector was found: relay_pair takes the device off the list and announces the peer
Pair ==
    /\ present /\ seen < Ttl /\ ~cut
    /\ present' = FALSE
    /\ down' = Append(down, [kind |-> "ready", age |-> 0])
    /\ UNCHANGED << client, asleep, beat, acked, up, seen, cut, troubled, gone, unheard >>

-----------------------------------------------------------------------------
(* The world *)

Aged(s) == [k \in DOMAIN s |-> s[k] + 1]
AgedDown == [k \in DOMAIN down |-> [down[k] EXCEPT !.age = Older(@, MaxDelay)]]

\* what is due has been done, and no message is late
Tick ==
    /\ present => seen < Ttl
    /\ Runs => acked <= AckLimit /\ beat < Heartbeat
    /\ ~cut => /\ up # << >> => Head(up) < MaxDelay
               /\ down # << >> /\ Runs => Head(down).age < MaxDelay
    /\ beat' = Older(beat, Heartbeat)
    /\ acked' = Older(acked, AckLimit + 1)
    /\ seen' = Older(seen, Ttl)
    /\ up' = (IF cut THEN up ELSE Aged(up))
    /\ down' = AgedDown
    /\ gone' = IF Runs /\ ~cut THEN 0 ELSE Older(gone, Ttl + MaxDelay + 1)
    /\ unheard' = IF Runs /\ cut THEN Older(unheard, AckLimit + 2) ELSE unheard
    /\ UNCHANGED << client, asleep, present, cut, troubled >>

Cut ==
    /\ ~cut
    /\ cut' = TRUE /\ troubled' = TRUE
    /\ UNCHANGED << client, asleep, beat, acked, up, down, present, seen, gone, unheard >>

\* the bound: at most one sleep, and none after the network is cut
Sleep ==
    /\ Runs /\ ~troubled
    /\ asleep' = TRUE /\ troubled' = TRUE
    /\ UNCHANGED << client, beat, acked, up, down, present, seen, cut, gone, unheard >>

Wake ==
    /\ asleep
    /\ asleep' = FALSE
    /\ gone' = IF cut THEN gone ELSE 0
    /\ UNCHANGED << client, beat, acked, up, down, present, seen, cut, troubled, unheard >>

Next == GiveUp \/ Read \/ Beat \/ Hear \/ Expire \/ Pair \/ Tick \/ Cut \/ Sleep \/ Wake

Spec == Init /\ [][Next]_vars

-----------------------------------------------------------------------------
(* Properties *)

\* While messages arrive in time and the client waits, the device stays reachable: it is on the
\* list, or a peer has been found for it (HEARTBEAT against PRESENCE_TTL).
StaysReachable ==
    ~troubled /\ client = "waiting" => present \/ \E k \in DOMAIN down : down[k].kind = "ready"

\* A client does not give up, nor is it dropped, while messages arrive in time (last_ack).
NoFalseTimeout == ~troubled => client \in {"waiting", "ready"}

\* A silence is noticed: a client runs without a network, or without a service that answers, for
\* CONNECT_TIMEOUT at most, whatever it could still write into its socket (last_ack).
SilenceNoticed == unheard <= AckLimit + 1

\* A device whose client is gone stays on the list for PRESENCE_TTL and the delay of its last
\* heartbeat, and no longer.
StaleEntryBounded == present => gone <= Ttl + MaxDelay
=============================================================================
