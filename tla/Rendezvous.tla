----------------------------- MODULE Rendezvous -----------------------------
(***************************************************************************)
(* The rendezvous server (crates/sensor-rendezvous/src/main.rs): the accept *)
(* loop with its connection limit, one thread per connection, the shared    *)
(* device directory, and the hand-over of an initiator's socket to the      *)
(* thread of the listener it asked for.                                     *)
(*                                                                          *)
(* A connection c stands for a TCP socket, the ConnectionGuard counted for  *)
(* it, the thread spawned for it and the random connection_id it draws when *)
(* it registers.  pc[c] is where that thread is, sock[c] where the socket   *)
(* and its guard are: an initiator's thread hands them to another thread    *)
(* and goes on without them.  The contents of messages are abstracted: a    *)
(* device ID, a public key and whether the endpoint listens are all that    *)
(* the server's decisions read.                                             *)
(*                                                                          *)
(* A definition marked "Mutation" is not the code: it is a plausible wrong  *)
(* version of the definition below it, used to see a property fail.         *)
(***************************************************************************)
EXTENDS Integers, FiniteSets

CONSTANTS
    Conns,          \* connections; each is used once, so this bounds a behaviour
    Ids,            \* canonical device IDs
    Keys,           \* endpoint public keys
    AnyKey,         \* the all-zero key an ID-only Connect names
    None,           \* no entry, no registration, no peer
    MaxConnections, \* the 64 of the accept loop
    PresenceTtl,    \* PRESENCE_TTL, in ticks of the clock
    Claims          \* Claims[c]: the registrations the client of c can prove

Registration == [id : Ids, key : Keys, listen : BOOLEAN]
Request      == [id : Ids, key : Keys \cup {AnyKey}]
DeviceEntry  == [conn : Conns, key : Keys, busy : BOOLEAN, age : 0 .. PresenceTtl]

ASSUME ConstantsAssumption ==
    /\ None \notin Conns \cup Registration \cup Request \cup DeviceEntry
    /\ AnyKey \notin Keys
    /\ MaxConnections \in Nat \ {0}
    /\ PresenceTtl \in Nat \ {0}
    /\ Claims \in [Conns -> SUBSET Registration]

VARIABLES
    pc,          \* pc[c]: where the thread of connection c is
    sock,        \* sock[c]: who owns its socket and its guard
    reg,         \* reg[c]: its Registration
    seen,        \* seen[c]: ticks since last_seen of its endpoint_loop
    want,        \* want[c]: the target an initiator is asking for
    peer,        \* peer[c]: the connection it was matched with
    channel,     \* channel[c]: the offer in its sync_channel(1)
    devices,     \* State.devices
    connections, \* Metrics.connections
    active,      \* Metrics.active_sessions
    acceptor     \* where the accept loop is

vars == << pc, sock, reg, seen, want, peer, channel, devices, connections,
           active, acceptor >>

-----------------------------------------------------------------------------
(* States and the records of the source *)

InLoop     == {"top", "recv", "read"}
Connecting == {"finding", "found"}
Relaying   == {"pairing", "relay"}

PcState == {"idle", "request", "challenge", "inserted", "unsent", "leaving", "done"}
             \cup InLoop \cup Connecting \cup Relaying

SocketState == {"none", "open", "offered", "paired", "closed"}


TypeOK ==
    /\ pc \in [Conns -> PcState]
    /\ sock \in [Conns -> SocketState]
    /\ reg \in [Conns -> Registration \cup {None}]
    /\ seen \in [Conns -> 0 .. PresenceTtl + 1]
    /\ want \in [Conns -> Request \cup {None}]
    /\ peer \in [Conns -> Conns \cup {None}]
    /\ channel \in [Conns -> Conns \cup {None}]
    /\ devices \in [Ids -> DeviceEntry \cup {None}]
    /\ connections \in Int
    /\ active \in Int
    /\ acceptor \in {"ready", "refusing"}

Init ==
    /\ pc = [c \in Conns |-> "idle"]
    /\ sock = [c \in Conns |-> "none"]
    /\ reg = [c \in Conns |-> None]
    /\ seen = [c \in Conns |-> 0]
    /\ want = [c \in Conns |-> None]
    /\ peer = [c \in Conns |-> None]
    /\ channel = [c \in Conns |-> None]
    /\ devices = [d \in Ids |-> None]
    /\ connections = 0
    /\ active = 0
    /\ acceptor = "ready"

-----------------------------------------------------------------------------
(* The directory: each operator is one hold of the devices mutex *)

Listens(c) == reg[c] # None /\ reg[c].listen

EntryOf(id, c) == devices[id] # None /\ devices[id].conn = c

\* expire_devices
Expired(dir) == [d \in Ids |->
    IF dir[d] # None /\ dir[d].age >= PresenceTtl THEN None ELSE dir[d]]

\* touch_device
Touched(c) == [d \in Ids |->
    IF d = reg[c].id /\ EntryOf(d, c) THEN [devices[d] EXCEPT !.age = 0]
    ELSE devices[d]]

\* Mutation: the connection_id is not compared
RemovedByIdAlone(c) == [devices EXCEPT ![reg[c].id] = None]
\* Mutation: an early return skips remove_device
RemovedNever(c) == devices
\* remove_device
Removed(c) == [d \in Ids |->
    IF d = reg[c].id /\ EntryOf(d, c) THEN None ELSE devices[d]]

\* presence_expired
PresenceExpired(c) ==
    \/ ~EntryOf(reg[c].id, c)
    \/ devices[reg[c].id].age >= PresenceTtl

\* Mutation: the entry is made before the key is decoded
InsertedWithZeroKey(c, r) == [devices EXCEPT ![r.id] =
    [conn |-> c, key |-> AnyKey, busy |-> FALSE, age |-> 0]]
\* The entry a registration inserts, over whatever was there before
Inserted(c, r) == [devices EXCEPT ![r.id] =
    [conn |-> c, key |-> r.key, busy |-> FALSE, age |-> 0]]

\* What register() checks of an entry that is already there
MayRegister(r) == devices[r.id] # None => devices[r.id].key = r.key

\* Mutation: busy is not checked
AvailableEvenBusy(w) ==
    /\ devices[w.id] # None
    /\ w.key \in {devices[w.id].key, AnyKey}
\* What find_target checks before it marks the entry busy
Available(w) ==
    /\ devices[w.id] # None
    /\ ~devices[w.id].busy
    /\ w.key \in {devices[w.id].key, AnyKey}

-----------------------------------------------------------------------------
(* Sockets, guards and channels *)

\* The offer waiting in the channel of c, as a set
Queued(c) == {i \in Conns : channel[c] = i}

\* Mutation: something keeps the Receiver of a finished thread alive
ReceiverOutlivesThread(c) == pc[c] \in InLoop \cup Relaying
                               \cup {"inserted", "unsent", "leaving", "done"}
\* The Receiver of c exists: from register() until endpoint_loop returns
ReceiverAlive(c) == pc[c] \in InLoop \cup Relaying \cup {"inserted", "unsent"}

\* Drops sockets together with their ConnectionGuards
Close(S) ==
    /\ sock' = [c \in Conns |-> IF c \in S THEN "closed" ELSE sock[c]]
    /\ connections' = connections - Cardinality(S)

Goto(c, label) == pc' = [pc EXCEPT ![c] = label]

\* endpoint_loop returns: its socket, its guard and its receiver are dropped,
\* and with the receiver an offer nobody took; remove_device is still to come
DropEndpoint(c) ==
    /\ Close({c} \cup Queued(c))
    /\ channel' = [channel EXCEPT ![c] = None]

-----------------------------------------------------------------------------
(* The accept loop *)

\* fetch_add answers with the count before it: at the limit the stream is dropped
Accept(c) ==
    /\ acceptor = "ready"
    /\ pc[c] = "idle"
    /\ connections' = connections + 1
    /\ \/ /\ connections >= MaxConnections
          /\ acceptor' = "refusing"
          /\ Goto(c, "done")
          /\ sock' = [sock EXCEPT ![c] = "closed"]
       \/ /\ connections < MaxConnections
          /\ acceptor' = "ready"
          /\ Goto(c, "request")
          /\ sock' = [sock EXCEPT ![c] = "open"]
    /\ UNCHANGED << reg, seen, want, peer, channel, devices, active >>

\* The fetch_sub that follows the refusal
Refuse ==
    /\ acceptor = "refusing"
    /\ acceptor' = "ready"
    /\ connections' = connections - 1
    /\ UNCHANGED << pc, sock, reg, seen, want, peer, channel, devices, active >>

-----------------------------------------------------------------------------
(* handle_connection and register *)

\* /health and /devices/<id> expire the directory, answer and close
ServeHttp(c) ==
    /\ pc[c] = "request"
    /\ devices' = Expired(devices)
    /\ Goto(c, "done")
    /\ Close({c})
    /\ UNCHANGED << reg, seen, want, peer, channel, active, acceptor >>

\* No thread for it, a malformed request, an unknown path, a failed upgrade, or
\* a client that registers wrongly, late or over another key
TurnAway(c) ==
    /\ pc[c] \in {"request", "challenge"}
    /\ Goto(c, "done")
    /\ Close({c})
    /\ UNCHANGED << reg, seen, want, peer, channel, devices, active, acceptor >>

\* The WebSocket is accepted and the challenge sent
Challenge(c) ==
    /\ pc[c] = "request"
    /\ Goto(c, "challenge")
    /\ UNCHANGED << sock, reg, seen, want, peer, channel, devices, connections,
                    active, acceptor >>

\* A verified Register; a listener enters the directory before it is told
Register(c, r) ==
    /\ pc[c] = "challenge"
    /\ reg' = [reg EXCEPT ![c] = r]
    /\ IF r.listen
         THEN MayRegister(r) /\ devices' = Inserted(c, r)
         ELSE UNCHANGED devices
    /\ Goto(c, "inserted")
    /\ UNCHANGED << sock, seen, want, peer, channel, connections, active, acceptor >>

SendRegistered(c) ==
    /\ pc[c] = "inserted"
    /\ Goto(c, "top")
    /\ seen' = [seen EXCEPT ![c] = 0]
    /\ UNCHANGED << sock, reg, want, peer, channel, devices, connections, active, acceptor >>

SendRegisteredFails(c) ==
    /\ pc[c] = "inserted"
    /\ devices' = Removed(c)
    /\ Goto(c, "unsent")
    /\ UNCHANGED << sock, reg, seen, want, peer, channel, connections, active, acceptor >>

\* register returned Err: its receiver goes, then handle_websocket's socket
AbandonRegistration(c) ==
    /\ pc[c] = "unsent"
    /\ Goto(c, "done")
    /\ DropEndpoint(c)
    /\ UNCHANGED << reg, seen, want, peer, devices, active, acceptor >>

-----------------------------------------------------------------------------
(* endpoint_loop *)

\* The presence check at the top of the loop
PresenceLost(c) ==
    \/ seen[c] > PresenceTtl
    \/ Listens(c) /\ PresenceExpired(c)

CheckPresence(c) ==
    /\ pc[c] = "top"
    /\ ~PresenceLost(c)
    /\ Goto(c, "recv")
    /\ UNCHANGED << sock, reg, seen, want, peer, channel, devices, connections,
                    active, acceptor >>

\* Lost presence, an expired token, a Close frame, a read or write error, an
\* oversized, malformed or binary message, more than ten messages in a second
EndLoop(c) ==
    /\ \/ pc[c] = "top"
       \/ pc[c] = "read"
    /\ Goto(c, "leaving")
    /\ DropEndpoint(c)
    /\ UNCHANGED << reg, seen, want, peer, devices, active, acceptor >>

\* try_recv yields an offer: this thread takes over the initiator's socket
ReceiveOffer(c) ==
    /\ pc[c] = "recv"
    /\ \E i \in Queued(c) :
         /\ peer' = [peer EXCEPT ![c] = i]
         /\ sock' = [sock EXCEPT ![i] = "paired"]
    /\ channel' = [channel EXCEPT ![c] = None]
    /\ active' = active + 1
    /\ Goto(c, "pairing")
    /\ UNCHANGED << reg, seen, want, devices, connections, acceptor >>

NoOffer(c) ==
    /\ pc[c] = "recv"
    /\ channel[c] = None
    /\ Goto(c, "read")
    /\ UNCHANGED << sock, reg, seen, want, peer, channel, devices, connections,
                    active, acceptor >>

\* The 5 ms read timed out, or a message was answered without any effect: a bad
\* token, a second Register, a listener's Connect, a Connect to oneself
ReadNothing(c) ==
    /\ pc[c] = "read"
    /\ Goto(c, "top")
    /\ UNCHANGED << sock, reg, seen, want, peer, channel, devices, connections,
                    active, acceptor >>

Heartbeat(c) ==
    /\ pc[c] = "read"
    /\ devices' = Touched(c)
    /\ seen' = [seen EXCEPT ![c] = 0]
    /\ Goto(c, "top")
    /\ UNCHANGED << sock, reg, want, peer, channel, connections, active, acceptor >>

\* Connect with a valid token, up to the first lock of find_target
Connect(c, w) ==
    /\ pc[c] = "read"
    /\ ~Listens(c)
    /\ w.id # reg[c].id
    /\ want' = [want EXCEPT ![c] = w]
    /\ devices' = Expired(Touched(c))
    /\ Goto(c, "finding")
    /\ UNCHANGED << sock, reg, seen, peer, channel, connections, active, acceptor >>

FindTarget(c) ==
    /\ pc[c] = "finding"
    /\ Available(want[c])
    /\ peer' = [peer EXCEPT ![c] = devices[want[c].id].conn]
    /\ devices' = [devices EXCEPT ![want[c].id].busy = TRUE]
    /\ Goto(c, "found")
    /\ UNCHANGED << sock, reg, seen, want, channel, connections, active, acceptor >>

\* Mutation: the entry is marked before its key is compared
TargetUnavailableMarkedBusy(c) ==
    /\ pc[c] = "finding"
    /\ ~Available(want[c])
    /\ devices' = IF devices[want[c].id] = None THEN devices
                  ELSE [devices EXCEPT ![want[c].id].busy = TRUE]
    /\ want' = [want EXCEPT ![c] = None]
    /\ Goto(c, "top")
    /\ UNCHANGED << sock, reg, seen, peer, channel, connections, active, acceptor >>
\* Offline, busy or another key: the initiator is told and may ask again
TargetUnavailable(c) ==
    /\ pc[c] = "finding"
    /\ ~Available(want[c])
    /\ want' = [want EXCEPT ![c] = None]
    /\ Goto(c, "top")
    /\ UNCHANGED << sock, reg, seen, peer, channel, devices, connections, active, acceptor >>

\* try_send succeeds: socket and guard are in the channel, this thread returns
\* without them and drops its own (always empty) channel
SendOffer(c) ==
    /\ pc[c] = "found"
    /\ ReceiverAlive(peer[c])
    /\ channel[peer[c]] = None
    /\ channel' = [channel EXCEPT ![peer[c]] = c]
    /\ sock' = [sock EXCEPT ![c] = "offered"]
    /\ Goto(c, "leaving")
    /\ UNCHANGED << reg, seen, want, peer, devices, connections, active, acceptor >>

\* "target disconnected before pairing": the rejected offer is dropped
SendOfferFails(c) ==
    /\ pc[c] = "found"
    /\ ~ReceiverAlive(peer[c]) \/ channel[peer[c]] # None
    /\ Goto(c, "leaving")
    /\ DropEndpoint(c)
    /\ UNCHANGED << reg, seen, want, peer, devices, active, acceptor >>

-----------------------------------------------------------------------------
(* relay_pair, in the listener's thread, and the end of a thread *)

\* PeerReady reached both sockets and both are nonblocking
SendPeerReady(c) ==
    /\ pc[c] = "pairing"
    /\ Goto(c, "relay")
    /\ UNCHANGED << sock, reg, seen, want, peer, channel, devices, connections,
                    active, acceptor >>

\* A PeerReady fails, either side closes or errs, or a write stalls for 5 s:
\* the initiator's socket goes with the target's
RelayEnds(c) ==
    /\ pc[c] \in Relaying
    /\ active' = active - 1
    /\ Close({c, peer[c]} \cup Queued(c))
    /\ channel' = [channel EXCEPT ![c] = None]
    /\ Goto(c, "leaving")
    /\ UNCHANGED << reg, seen, want, peer, devices, acceptor >>

\* handle_websocket's remove_device, after endpoint_loop of either kind returned
RemoveDevice(c) ==
    /\ pc[c] = "leaving"
    /\ devices' = Removed(c)
    /\ Goto(c, "done")
    /\ UNCHANGED << sock, reg, seen, want, peer, channel, connections, active, acceptor >>

-----------------------------------------------------------------------------
\* One tick of the clock; ages past what any comparison tells apart saturate
Tick ==
    /\ devices' = [d \in Ids |->
         IF devices[d] # None /\ devices[d].age < PresenceTtl
           THEN [devices[d] EXCEPT !.age = @ + 1] ELSE devices[d]]
    /\ seen' = [c \in Conns |->
         IF pc[c] \in InLoop \cup Connecting /\ seen[c] <= PresenceTtl
           THEN seen[c] + 1 ELSE seen[c]]
    /\ UNCHANGED << pc, sock, reg, want, peer, channel, connections, active, acceptor >>

\* Every step the thread of c takes
Thread(c) ==
    \/ ServeHttp(c) \/ TurnAway(c) \/ Challenge(c)
    \/ \E r \in Claims[c] : Register(c, r)
    \/ SendRegistered(c) \/ SendRegisteredFails(c) \/ AbandonRegistration(c)
    \/ CheckPresence(c) \/ EndLoop(c) \/ ReceiveOffer(c) \/ NoOffer(c)
    \/ ReadNothing(c) \/ Heartbeat(c)
    \/ \E w \in Request : Connect(c, w)
    \/ FindTarget(c) \/ TargetUnavailable(c) \/ SendOffer(c) \/ SendOfferFails(c)
    \/ SendPeerReady(c) \/ RelayEnds(c) \/ RemoveDevice(c)

Next ==
    \/ \E c \in Conns : Accept(c) \/ Thread(c)
    \/ Refuse
    \/ Tick

Spec == Init /\ [][Next]_vars

\* Threads are scheduled, every blocking read has a timeout and every write one
\* (10 s, 5 ms, 30 s); only a relay may last as long as its two endpoints like
Progress(c) == pc[c] # "relay" /\ Thread(c)

FairSpec == Spec /\ (\A c \in Conns : WF_vars(Progress(c))) /\ WF_vars(Tick)

-----------------------------------------------------------------------------
(* Safety *)

HoldsGuard == {c \in Conns : sock[c] \in {"open", "offered", "paired"}}

\* Every accepted connection is counted until its guard is dropped, wherever the
\* guard has travelled, so the limit neither leaks nor is exceeded; the same for
\* the sessions gauge (main's fetch_add/fetch_sub, ConnectionGuard::drop).
Accounting ==
    /\ connections = Cardinality(HoldsGuard) + (IF acceptor = "refusing" THEN 1 ELSE 0)
    /\ Cardinality(HoldsGuard) <= MaxConnections
    /\ active = Cardinality({c \in Conns : pc[c] \in Relaying})

\* A socket handed over is in exactly one place: a channel whose receiver still
\* lives, or the one thread that relays it (PeerOffer, receiver.try_recv).
SoleOwner ==
    /\ \A i \in Conns :
         /\ sock[i] = "offered" =>
              \E t \in Conns : channel[t] = i /\ ReceiverAlive(t)
         /\ sock[i] = "paired" =>
              \E t \in Conns : pc[t] \in Relaying /\ peer[t] = i
    /\ \A t \in Conns :
         /\ channel[t] # None => sock[channel[t]] = "offered"
         /\ pc[t] \in Relaying => sock[peer[t]] = "paired" /\ sock[t] = "open"
    /\ \A s, t \in Conns :
         channel[s] = channel[t] /\ channel[s] # None => s = t

\* One registration of a listener serves one initiator: no two threads that got
\* through find_target ever hold the same listener (the busy flag).
AtMostOneInitiator ==
    \A i, j \in Conns : peer[i] = peer[j] /\ peer[i] # None => i = j

\* No entry is busy for nobody: an initiator is on its way to that very
\* connection, is in its channel, is being relayed, or the thread is about to
\* remove the entry (find_target sets busy and nothing ever clears it).
BusyExplained ==
    \A d \in Ids : devices[d] # None /\ devices[d].busy =>
        LET t == devices[d].conn
        IN  \/ \E i \in Conns : pc[i] = "found" /\ peer[i] = t
            \/ channel[t] # None
            \/ pc[t] \in Relaying \cup {"leaving"}

\* An entry never outlives the thread that answers for it, and says what that
\* thread registered (remove_device on every way out of handle_websocket).
NoGhostEntry ==
    \A d \in Ids : devices[d] # None =>
        LET t == devices[d].conn
        IN  /\ pc[t] \in InLoop \cup Relaying \cup {"inserted", "leaving"}
            /\ reg[t] = [id |-> d, key |-> devices[d].key, listen |-> TRUE]

\* Whatever happened to the directory in between, an initiator is matched with a
\* listener that proved the ID and, unless it asked by ID only, the key it named.
PairsAgree ==
    \A i \in Conns : peer[i] # None /\ ~Listens(i) =>
        LET t == peer[i]
        IN  /\ Listens(t)
            /\ reg[t].id = want[i].id /\ reg[t].id # reg[i].id
            /\ want[i].key \in {reg[t].key, AnyKey}

\* An entry of the directory is true of the thread behind it, and an initiator that was
\* given one meets whom it asked for (register, find_target, remove_device).
DirectoryIsTrue == NoGhostEntry /\ PairsAgree

\* Through every hand-over between threads each socket has one owner, the counters equal
\* what is open, and no listener is busy for nobody (PeerOffer, ConnectionGuard, busy).
SocketsAccounted == SoleOwner /\ Accounting /\ BusyExplained

\* A fresh entry is nobody's to take away: it changes hands only to a newer
\* registration of the same key, and disappears only when its own thread
\* unregisters (remove_device compares connection_id, register compares keys).
DirectoryStep ==
    \A d \in Ids : devices[d] # None /\ devices[d].age < PresenceTtl =>
        \/ devices'[d] # None /\ devices'[d].key = devices[d].key
        \/ devices'[d] = None /\ pc[devices[d].conn] \in {"inserted", "leaving"}
DirectoryDiscipline == [][DirectoryStep]_vars

-----------------------------------------------------------------------------
(* Liveness, under FairSpec *)

\* A socket that was offered is answered: it is relayed or closed, never left in
\* the channel of a listener that does not look (endpoint_loop polls try_recv).
OfferAnswered ==
    \A i \in Conns : sock[i] = "offered" ~> sock[i] \in {"paired", "closed"}

\* A busy listener is relaying soon, or its entry gives way: no device stays
\* unreachable after an initiator vanished between find_target and try_send.
BusyResolves ==
    \A d \in Ids, t \in Conns :
        EntryOf(d, t) /\ devices[d].busy ~> ~EntryOf(d, t) \/ pc[t] = "relay"

\* A client that stops sending heartbeats, closing nothing, is dropped: presence
\* is renewed by authenticated heartbeats only (PRESENCE_TTL).
SilentClientLeaves ==
    \A c \in Conns :
        (<>[][~Heartbeat(c)]_vars) => <>[](pc[c] \notin InLoop \cup Connecting)

\* What a client waits for comes to an end: an offered socket, a busy listener, a silent
\* client (endpoint_loop, PRESENCE_TTL).
RequestsResolve == OfferAnswered /\ BusyResolves /\ SilentClientLeaves

-----------------------------------------------------------------------------
(* The server implements Matchmaking *)

Listed == {t \in Conns : \E d \in Ids : EntryOf(d, t) /\ ~devices[d].busy}
Spent  == {t \in Conns : Listens(t)}
Given  == [i \in Conns |-> IF Listens(i) THEN None ELSE peer[i]]

Matchmaker == INSTANCE Matchmaking
                WITH listed <- Listed, spent <- Spent, partner <- Given

\* The directory, its busy flags and the hand-over of sockets together keep the
\* promise of Matchmaking: a registration goes to one initiator, once.
ImplementsMatchmaking == Matchmaker!Spec
=============================================================================
