---------------------------- MODULE RenderClient ----------------------------
(***************************************************************************)
(* How jobs of the program reach the rendezvous service                     *)
(* (connect_with_control, accept_with_control and what they call,           *)
(* crates/sensor-render/src/lib.rs): the name is resolved on a thread of    *)
(* its own, of which the process allows a few; then connecting is retried   *)
(* until the deadline; then the device registers and waits for a peer.      *)
(*                                                                          *)
(* A job may be cancelled at any time, and its deadline may pass at any     *)
(* time.  The resolver, the network and the service promise nothing: a      *)
(* resolver thread may never return, a connection may never be made, the    *)
(* service may say anything or nothing.  A job that has ended may be run    *)
(* again while the resolver thread of its last run is still busy.           *)
(*                                                                          *)
(* A definition marked "Mutation" is not the code: it is a plausible wrong  *)
(* version of the definition below it, used to see a property fail.         *)
(***************************************************************************)
EXTENDS Naturals, FiniteSets, Sequences

CONSTANTS
    Jobs,
    Listeners,  \* the jobs that listen; the others connect
    Capacity,   \* resolver threads of the process (4)
    Addresses,  \* addresses a name has
    MaxRuns,    \* bound on the runs of a job
    MaxSaid     \* bound on the messages of the service in a run

ConstantsAssumption ==
    /\ IsFiniteSet(Jobs) /\ Listeners \subseteq Jobs
    /\ Capacity \in Nat \ {0} /\ Addresses \in Nat \ {0} /\ MaxRuns \in Nat /\ MaxSaid \in Nat

VARIABLES
    pc,         \* where a job is
    cancelled,  \* its cancellation flag
    late,       \* its deadline has passed
    tried,      \* addresses tried in this round
    inbox,      \* messages of the service it has not read
    heard,      \* history: kinds of messages of this run it has acted on, in order
    answer,     \* what the resolver of this run has sent: "none", "addresses" or "error"
    runs,       \* runs so far
    resolver,   \* the resolver thread of this run has not answered yet
    leftover,   \* resolver threads nobody listens to, or that are about to end
    inFlight    \* DNS_IN_FLIGHT

job == << pc, cancelled, late, tried, inbox, heard, answer, runs >>
dns == << resolver, leftover, inFlight >>
vars == << job, dns >>

Kinds     == {"challenge", "registered", "ack", "ready", "error"}
Ends      == {"idle", "failed", "cancelled", "timeout", "stream"}
Opening   == {"resolve", "reserved", "resolving", "connecting", "pause"}
Connected == {"challenge", "register", "wait"}

TypeOK ==
    /\ pc \in [Jobs -> Ends \cup Opening \cup Connected]
    /\ cancelled \in [Jobs -> BOOLEAN] /\ late \in [Jobs -> BOOLEAN] /\ resolver \in [Jobs -> BOOLEAN]
    /\ tried \in [Jobs -> 0 .. Addresses]
    /\ \A j \in Jobs : inbox[j] \in Seq(Kinds) /\ heard[j] \in Seq(Kinds)
    /\ answer \in [Jobs -> {"none", "addresses", "error"}]
    /\ runs \in [Jobs -> 0 .. MaxRuns]
    /\ leftover \in 0 .. Capacity
    /\ inFlight \in 0 .. Capacity

Init ==
    /\ pc = [j \in Jobs |-> "idle"]
    /\ cancelled = [j \in Jobs |-> FALSE] /\ late = [j \in Jobs |-> FALSE]
    /\ tried = [j \in Jobs |-> 0]
    /\ inbox = [j \in Jobs |-> << >>] /\ heard = [j \in Jobs |-> << >>]
    /\ answer = [j \in Jobs |-> "none"]
    /\ runs = [j \in Jobs |-> 0]
    /\ resolver = [j \in Jobs |-> FALSE]
    /\ leftover = 0 /\ inFlight = 0

-----------------------------------------------------------------------------
(* The user and the clock *)

Run(j) ==
    /\ pc[j] \in Ends /\ runs[j] < MaxRuns
    /\ runs' = [runs EXCEPT ![j] = @ + 1]
    /\ pc' = [pc EXCEPT ![j] = "resolve"]
    /\ cancelled' = [cancelled EXCEPT ![j] = FALSE] /\ late' = [late EXCEPT ![j] = FALSE]
    /\ tried' = [tried EXCEPT ![j] = 0]
    /\ inbox' = [inbox EXCEPT ![j] = << >>] /\ heard' = [heard EXCEPT ![j] = << >>]
    /\ answer' = [answer EXCEPT ![j] = "none"]
    /\ UNCHANGED dns

Cancel(j) ==
    /\ pc[j] \notin Ends /\ ~cancelled[j]
    /\ cancelled' = [cancelled EXCEPT ![j] = TRUE]
    /\ UNCHANGED << pc, late, tried, inbox, heard, answer, runs, dns >>

\* a listener that waits has no deadline but the silence of the service
DeadlinePasses(j) ==
    /\ pc[j] \notin Ends /\ ~late[j]
    /\ ~(j \in Listeners /\ pc[j] = "wait")
    /\ late' = [late EXCEPT ![j] = TRUE]
    /\ UNCHANGED << pc, cancelled, tried, inbox, heard, answer, runs, dns >>

-----------------------------------------------------------------------------
(* Resolving *)

Goes(j, place) == pc' = [pc EXCEPT ![j] = place]

\* nobody listens to the resolver of the job any more: its receiver is dropped
Abandon(j) ==
    /\ resolver' = [resolver EXCEPT ![j] = FALSE]
    /\ leftover' = leftover + (IF resolver[j] THEN 1 ELSE 0)

\* check_cancelled, wherever a job waits or is about to; between reserving a slot and starting
\* the thread nothing is checked
Checked == {"resolve", "resolving", "connecting", "pause", "challenge", "register", "wait"}
\* Mutation: the resolver is waited for as long as it takes
NoticeCancelNotResolving(j) ==
    /\ pc[j] \in Checked \ {"resolving"} /\ cancelled[j]
    /\ Goes(j, "cancelled")
    /\ Abandon(j)
    /\ UNCHANGED << cancelled, late, tried, inbox, heard, answer, runs, inFlight >>

NoticeCancel(j) ==
    /\ pc[j] \in Checked /\ cancelled[j]
    /\ Goes(j, "cancelled")
    /\ Abandon(j)
    /\ UNCHANGED << cancelled, late, tried, inbox, heard, answer, runs, inFlight >>

\* the deadline is looked at after the flag, and not during a pause, which never outlasts it
NoticeDeadline(j) ==
    /\ pc[j] \in Checked \ {"pause"} /\ ~cancelled[j] /\ late[j]
    /\ Goes(j, "timeout")
    /\ Abandon(j)
    /\ UNCHANGED << cancelled, late, tried, inbox, heard, answer, runs, inFlight >>

MayGoOn(j) == ~cancelled[j] /\ ~late[j]

\* fetch_update: a slot, or the error "capacity reached"
Reserve(j) ==
    /\ pc[j] = "resolve" /\ MayGoOn(j)
    /\ IF inFlight < Capacity
       THEN inFlight' = inFlight + 1 /\ Goes(j, "reserved")
       ELSE Goes(j, "failed") /\ UNCHANGED inFlight
    /\ UNCHANGED << cancelled, late, tried, inbox, heard, answer, runs, resolver, leftover >>

\* Mutation: the slot belongs to the caller, which drops it when it gives up
SpawnFailsLeaking(j) ==
    /\ pc[j] = "reserved"
    /\ Goes(j, "failed")
    /\ UNCHANGED << cancelled, late, tried, inbox, heard, answer, runs, dns >>

\* the slot has moved into the closure, which is dropped
SpawnFails(j) ==
    /\ pc[j] = "reserved"
    /\ Goes(j, "failed")
    /\ inFlight' = inFlight - 1
    /\ UNCHANGED << cancelled, late, tried, inbox, heard, answer, runs, resolver, leftover >>

Spawn(j) ==
    /\ pc[j] = "reserved"
    /\ Goes(j, "resolving")
    /\ resolver' = [resolver EXCEPT ![j] = TRUE]
    /\ UNCHANGED << cancelled, late, tried, inbox, heard, answer, runs, leftover, inFlight >>

\* recv_timeout has an answer
Resolved(j) ==
    /\ pc[j] = "resolving" /\ MayGoOn(j)
    /\ answer[j] # "none"
    /\ Goes(j, IF answer[j] = "addresses" THEN "connecting" ELSE "failed")
    /\ UNCHANGED << cancelled, late, tried, inbox, heard, answer, runs, dns >>

\* the system resolver returns: the answer is sent first, the slot is dropped last
ResolverAnswers(j) ==
    /\ resolver[j]
    /\ \E a \in {"addresses", "error"} : answer' = [answer EXCEPT ![j] = a]
    /\ resolver' = [resolver EXCEPT ![j] = FALSE]
    /\ leftover' = leftover + 1
    /\ UNCHANGED << pc, cancelled, late, tried, inbox, heard, runs, inFlight >>

ResolverEnds ==
    /\ leftover > 0
    /\ leftover' = leftover - 1
    /\ inFlight' = inFlight - 1
    /\ UNCHANGED << job, resolver >>

-----------------------------------------------------------------------------
(* Connecting *)

\* TcpStream::connect_timeout and the TLS and WebSocket handshakes, which have their own timeouts
ConnectSucceeds(j) ==
    /\ pc[j] = "connecting" /\ MayGoOn(j) /\ tried[j] < Addresses
    /\ Goes(j, "challenge")
    /\ UNCHANGED << cancelled, late, tried, inbox, heard, answer, runs, dns >>

AttemptFails(j) ==
    /\ pc[j] = "connecting" /\ MayGoOn(j) /\ tried[j] < Addresses
    /\ tried' = [tried EXCEPT ![j] = @ + 1]
    /\ UNCHANGED << pc, cancelled, late, inbox, heard, answer, runs, dns >>

\* 250 ms, doubled up to 4 s, after a round of all the addresses
Pause(j) ==
    /\ pc[j] = "connecting" /\ MayGoOn(j) /\ tried[j] = Addresses
    /\ Goes(j, "pause")
    /\ UNCHANGED << cancelled, late, tried, inbox, heard, answer, runs, dns >>

PauseEnds(j) ==
    /\ pc[j] = "pause" /\ ~cancelled[j]
    /\ Goes(j, "connecting")
    /\ tried' = [tried EXCEPT ![j] = 0]
    /\ UNCHANGED << cancelled, late, inbox, heard, answer, runs, dns >>

-----------------------------------------------------------------------------
(* Registering and waiting; each phase has a deadline of its own *)

\* one message is taken and the job goes on at place
Hears(j, place) ==
    /\ MayGoOn(j)
    /\ heard' = [heard EXCEPT ![j] = Append(@, Head(inbox[j]))]
    /\ inbox' = [inbox EXCEPT ![j] = Tail(@)]
    /\ Goes(j, place)
    /\ UNCHANGED << cancelled, tried, answer, runs, dns >>

First(j) == IF inbox[j] = << >> THEN "none" ELSE Head(inbox[j])

\* the signed registration is the answer to the challenge
Challenged(j) ==
    /\ pc[j] = "challenge" /\ First(j) # "none"
    /\ Hears(j, IF First(j) = "challenge" THEN "register" ELSE "failed")
    /\ UNCHANGED late

\* a connector then names its target
Registered(j) ==
    /\ pc[j] = "register" /\ First(j) # "none"
    /\ Hears(j, CASE First(j) = "registered" -> "wait"
                  [] First(j) = "ack"        -> "register"
                  [] OTHER                   -> "failed")
    /\ late' = IF First(j) = "registered" THEN [late EXCEPT ![j] = FALSE] ELSE late

\* wait_for_peer; local_stream may still fail
PeerReady(j) ==
    /\ pc[j] = "wait" /\ First(j) # "none"
    /\ \E ok \in BOOLEAN :
        Hears(j, CASE First(j) = "ready" -> IF ok THEN "stream" ELSE "failed"
                   [] First(j) = "ack"   -> "wait"
                   [] OTHER              -> "failed")
    /\ UNCHANGED late

\* last_ack, see Presence
Silence(j) ==
    /\ pc[j] = "wait" /\ ~cancelled[j]
    /\ Goes(j, "timeout")
    /\ UNCHANGED << cancelled, late, tried, inbox, heard, answer, runs, dns >>

ConnectionFails(j) ==
    /\ pc[j] \in Connected
    /\ Goes(j, "failed")
    /\ UNCHANGED << cancelled, late, tried, inbox, heard, answer, runs, dns >>

\* it need not keep to the protocol
ServiceSays(j) ==
    /\ pc[j] \in Connected
    /\ Len(heard[j]) + Len(inbox[j]) < MaxSaid
    /\ \E k \in Kinds : inbox' = [inbox EXCEPT ![j] = Append(@, k)]
    /\ UNCHANGED << pc, cancelled, late, tried, heard, answer, runs, dns >>

-----------------------------------------------------------------------------
JobStep(j) ==
    \/ NoticeCancel(j) \/ NoticeDeadline(j)
    \/ Reserve(j) \/ SpawnFails(j) \/ Spawn(j) \/ Resolved(j)
    \/ ConnectSucceeds(j) \/ AttemptFails(j) \/ Pause(j) \/ PauseEnds(j)
    \/ Challenged(j) \/ Registered(j) \/ PeerReady(j)

Next ==
    \/ \E j \in Jobs :
        \/ Run(j) \/ Cancel(j) \/ DeadlinePasses(j)
        \/ JobStep(j)
        \/ Silence(j) \/ ConnectionFails(j)
        \/ ResolverAnswers(j) \/ ServiceSays(j)
    \/ ResolverEnds

Spec == Init /\ [][Next]_vars

\* the threads of the jobs run; resolver, network and service may do nothing for ever
FairSpec == Spec /\ \A j \in Jobs : WF_vars(JobStep(j))

-----------------------------------------------------------------------------
(* Properties *)

\* DNS_IN_FLIGHT counts the resolver threads there are and the slots about to be used, whoever
\* gave up meanwhile (DnsSlot moves into the thread).
SlotsAccounted ==
    inFlight = leftover + Cardinality({j \in Jobs : resolver[j] \/ pc[j] = "reserved"})

\* A stream is handed over only after a registration of this run that the service confirmed,
\* and after its word that the peer is there, whatever else it says.
PeerAfterRegistration ==
    \A j \in Jobs : pc[j] = "stream" =>
        LET h == heard[j]
            n == Len(h) IN
        /\ n > 0 /\ h[1] = "challenge" /\ h[n] = "ready"
        /\ \E r \in 2 .. n - 1 :
            /\ h[r] = "registered"
            /\ \A k \in 2 .. n - 1 : k # r => h[k] = "ack"

\* A cancelled job ends, although the resolver may never return and the service never answer
\* (check_cancelled).
StopEnds == \A j \in Jobs : cancelled[j] ~> pc[j] \in Ends \/ ~cancelled[j]

\* Past its deadline a phase ends: neither the resolver nor a service that answers nothing, or
\* only heartbeats, can draw it out.
DeadlineEnds ==
    \A j \in Jobs : late[j] ~> pc[j] \in Ends \/ ~late[j]
=============================================================================
