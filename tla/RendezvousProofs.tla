-------------------------- MODULE RendezvousProofs --------------------------
(***************************************************************************)
(* Proofs about Rendezvous for every set of connections, IDs and keys: type *)
(* correctness, the truth of directory entries and of matches, what may     *)
(* happen to an entry, the accounting of sockets, and that the server       *)
(* implements Matchmaking.                                                  *)
(***************************************************************************)
EXTENDS Rendezvous, FiniteSetTheorems, TLAPS

-----------------------------------------------------------------------------
(* The inductive invariant *)

Before == {"idle", "request", "challenge"}
Unmatched == Before \cup {"inserted", "unsent", "finding"} \cup InLoop

\* What a thread has done by the time it is somewhere
ThreadState ==
    \A c \in Conns :
        /\ pc[c] \in Before => reg[c] = None
        /\ pc[c] \notin Before \cup {"done"} => reg[c] # None
        /\ pc[c] \in Unmatched => peer[c] = None
        /\ pc[c] \in Connecting => ~Listens(c) /\ want[c] # None /\ want[c].id # reg[c].id
        /\ pc[c] = "found" => peer[c] # None
        /\ pc[c] \in Relaying => Listens(c) /\ peer[c] # None

\* An initiator's match, its place in a channel and its place in a relay agree
MatchState ==
    \A c \in Conns :
        /\ channel[c] # None =>
             Listens(c) /\ ~Listens(channel[c]) /\ peer[channel[c]] = c
        /\ Listens(c) /\ peer[c] # None => ~Listens(peer[c]) /\ peer[peer[c]] = c

\* A registration that was given to an initiator is busy for as long as it is listed
GivenIsBusy ==
    \A i \in Conns : peer[i] # None /\ ~Listens(i) =>
        \A d \in Ids : EntryOf(d, peer[i]) => devices[d].busy

IInv ==
    /\ TypeOK
    /\ ThreadState
    /\ MatchState
    /\ NoGhostEntry
    /\ PairsAgree
    /\ GivenIsBusy
    /\ AtMostOneInitiator

-----------------------------------------------------------------------------
(* Type correctness of a step *)

LEMMA CloseType ==
    ASSUME TypeOK, NEW S \in SUBSET Conns, IsFiniteSet(S), Close(S)
    PROVE  /\ sock' \in [Conns -> SocketState]
           /\ connections' \in Int
<1>1. Cardinality(S) \in Nat
  BY FS_CardinalityType
<1> QED
  BY <1>1 DEF Close, TypeOK, SocketState

LEMMA QueuedFinite ==
    ASSUME TypeOK, NEW c \in Conns
    PROVE  Queued(c) \in SUBSET Conns /\ IsFiniteSet(Queued(c))
<1>1. Queued(c) \subseteq {channel[c]}
  BY DEF Queued
<1>2. IsFiniteSet({channel[c]})
  BY FS_Singleton
<1> QED
  BY <1>1, <1>2, FS_Subset DEF Queued

LEMMA DropEndpointType ==
    ASSUME TypeOK, NEW c \in Conns, DropEndpoint(c)
    PROVE  /\ sock' \in [Conns -> SocketState]
           /\ connections' \in Int
           /\ channel' \in [Conns -> Conns \cup {None}]
<1>1. IsFiniteSet({c} \cup Queued(c))
  BY QueuedFinite, FS_Singleton, FS_Union
<1>2. {c} \cup Queued(c) \in SUBSET Conns
  BY QueuedFinite
<1> QED
  BY <1>1, <1>2, CloseType DEF DropEndpoint, TypeOK

LEMMA DirectoryType ==
    ASSUME TypeOK
    PROVE  /\ Expired(devices) \in [Ids -> DeviceEntry \cup {None}]
           /\ \A c \in Conns :
                /\ Removed(c) \in [Ids -> DeviceEntry \cup {None}]
                /\ Touched(c) \in [Ids -> DeviceEntry \cup {None}]
                /\ Expired(Touched(c)) \in [Ids -> DeviceEntry \cup {None}]
BY ConstantsAssumption DEF TypeOK, DeviceEntry, Expired, Removed, Touched, EntryOf

LEMMA TypeStep == TypeOK /\ ThreadState /\ [Next]_vars => TypeOK'
<1> SUFFICES ASSUME TypeOK, ThreadState, [Next]_vars PROVE TypeOK'
  OBVIOUS
<1> USE ConstantsAssumption DEF PcState, SocketState, InLoop, Connecting, Relaying
<1>1. ASSUME NEW c \in Conns, Accept(c) PROVE TypeOK'
  BY <1>1 DEF TypeOK, Accept, Goto
<1>2. ASSUME NEW c \in Conns, ServeHttp(c) \/ TurnAway(c) PROVE TypeOK'
  <2>1. sock' \in [Conns -> SocketState] /\ connections' \in Int
    BY <1>2, CloseType, FS_Singleton DEF ServeHttp, TurnAway
  <2>2. devices' \in [Ids -> DeviceEntry \cup {None}]
    BY <1>2, DirectoryType DEF ServeHttp, TurnAway, TypeOK
  <2> QED
    BY <1>2, <2>1, <2>2 DEF TypeOK, ServeHttp, TurnAway, Goto
<1>3. ASSUME NEW c \in Conns, Challenge(c) PROVE TypeOK'
  BY <1>3 DEF TypeOK, Challenge, Goto
<1>4. ASSUME NEW c \in Conns, NEW r \in Claims[c], Register(c, r) PROVE TypeOK'
  <2>1. r \in Registration
    OBVIOUS
  <2>2. Inserted(c, r) \in [Ids -> DeviceEntry \cup {None}]
    BY <2>1 DEF TypeOK, Inserted, Registration, DeviceEntry
  <2> QED
    BY <1>4, <2>1, <2>2 DEF TypeOK, Register, Goto
<1>5. ASSUME NEW c \in Conns, SendRegistered(c) PROVE TypeOK'
  BY <1>5 DEF TypeOK, SendRegistered, Goto
<1>6. ASSUME NEW c \in Conns, SendRegisteredFails(c) \/ RemoveDevice(c) PROVE TypeOK'
  <2>1. devices' \in [Ids -> DeviceEntry \cup {None}]
    BY <1>6, DirectoryType DEF SendRegisteredFails, RemoveDevice
  <2> QED
    BY <1>6, <2>1 DEF TypeOK, SendRegisteredFails, RemoveDevice, Goto
<1>7. ASSUME NEW c \in Conns, AbandonRegistration(c) \/ EndLoop(c) \/ SendOfferFails(c)
      PROVE  TypeOK'
  <2>1. DropEndpoint(c)
    BY <1>7 DEF AbandonRegistration, EndLoop, SendOfferFails
  <2> QED
    BY <1>7, <2>1, DropEndpointType
       DEF TypeOK, AbandonRegistration, EndLoop, SendOfferFails, Goto
<1>8. ASSUME NEW c \in Conns, CheckPresence(c) \/ NoOffer(c) \/ ReadNothing(c)
      PROVE  TypeOK'
  BY <1>8 DEF TypeOK, CheckPresence, NoOffer, ReadNothing, Goto
<1>9. ASSUME NEW c \in Conns, ReceiveOffer(c) PROVE TypeOK'
  BY <1>9 DEF TypeOK, ReceiveOffer, Queued, Goto
<1>10. ASSUME NEW c \in Conns, Heartbeat(c) PROVE TypeOK'
  BY <1>10, DirectoryType DEF TypeOK, Heartbeat, Goto
<1>11. ASSUME NEW c \in Conns, NEW w \in Request, Connect(c, w) PROVE TypeOK'
  BY <1>11, DirectoryType DEF TypeOK, Connect, Goto
<1>12. ASSUME NEW c \in Conns, FindTarget(c) PROVE TypeOK'
  <2> DEFINE id == want[c].id
  <2>1. want[c] \in Request
    BY <1>12 DEF FindTarget, TypeOK, ThreadState
  <2>2. id \in Ids /\ devices[id] \in DeviceEntry
    BY <1>12, <2>1 DEF FindTarget, TypeOK, Available, Request
  <2>3. [devices[id] EXCEPT !.busy = TRUE] \in DeviceEntry
    BY <2>2 DEF DeviceEntry
  <2>4. devices' \in [Ids -> DeviceEntry \cup {None}]
    BY <1>12, <2>2, <2>3 DEF FindTarget, TypeOK
  <2>5. devices[id].conn \in Conns
    BY <2>2 DEF DeviceEntry
  <2> QED
    BY <1>12, <2>4, <2>5 DEF TypeOK, FindTarget, Goto
<1>13. ASSUME NEW c \in Conns, TargetUnavailable(c) PROVE TypeOK'
  BY <1>13 DEF TypeOK, TargetUnavailable, Goto
<1>14. ASSUME NEW c \in Conns, SendOffer(c) PROVE TypeOK'
  BY <1>14 DEF TypeOK, SendOffer, Goto
<1>15. ASSUME NEW c \in Conns, SendPeerReady(c) PROVE TypeOK'
  BY <1>15 DEF TypeOK, SendPeerReady, Goto
<1>16. ASSUME NEW c \in Conns, RelayEnds(c) PROVE TypeOK'
  <2>1. peer[c] \in Conns
    BY <1>16 DEF RelayEnds, TypeOK, ThreadState
  <2>2. IsFiniteSet({c} \cup {peer[c]} \cup Queued(c))
    BY QueuedFinite, FS_Singleton, FS_Union
  <2>3. IsFiniteSet({c, peer[c]} \cup Queued(c)) /\ {c, peer[c]} \cup Queued(c) \in SUBSET Conns
    <3>1. {c} \cup {peer[c]} \cup Queued(c) = {c, peer[c]} \cup Queued(c)
      OBVIOUS
    <3> QED
      BY <2>1, <2>2, <3>1, QueuedFinite
  <2>4. sock' \in [Conns -> SocketState] /\ connections' \in Int
    BY <1>16, <2>3, CloseType DEF RelayEnds
  <2>5. pc' \in [Conns -> PcState] /\ channel' \in [Conns -> Conns \cup {None}]
    BY <1>16 DEF TypeOK, RelayEnds, Goto
  <2>6. active' \in Int /\ UNCHANGED << reg, seen, want, peer, devices, acceptor >>
    BY <1>16 DEF TypeOK, RelayEnds
  <2> QED
    BY <2>4, <2>5, <2>6 DEF TypeOK
<1>17. ASSUME Refuse PROVE TypeOK'
  BY <1>17 DEF TypeOK, Refuse
<1>18. ASSUME Tick PROVE TypeOK'
  BY <1>18 DEF TypeOK, Tick, DeviceEntry
<1>19. CASE UNCHANGED vars
  BY <1>19 DEF TypeOK, vars
<1> QED
  BY <1>1, <1>2, <1>3, <1>4, <1>5, <1>6, <1>7, <1>8, <1>9, <1>10, <1>11, <1>12, <1>13,
     <1>14, <1>15, <1>16, <1>17, <1>18, <1>19 DEF Next, Thread

-----------------------------------------------------------------------------
(* The rest of the invariant *)

\* Every entry of the new directory was there before, perhaps touched or aged
SameOrGone ==
    \A d \in Ids : devices'[d] # None =>
        /\ devices[d] # None
        /\ devices'[d].conn = devices[d].conn
        /\ devices'[d].key = devices[d].key
        /\ devices'[d].busy = devices[d].busy

LEMMA DirectorySameOrGone ==
    ASSUME TypeOK, NEW c \in Conns,
           devices' \in {devices, Expired(devices), Removed(c), Touched(c), Expired(Touched(c))}
    PROVE  SameOrGone
BY DEF TypeOK, DeviceEntry, SameOrGone, Expired, Removed, Touched, EntryOf

\* What the invariant says of an entry and of the thread that answers for it
LEMMA EntryFacts ==
    ASSUME IInv, NEW d \in Ids, devices[d] # None
    PROVE  /\ devices[d] \in DeviceEntry
           /\ devices[d].conn \in Conns /\ devices[d].conn # None
           /\ pc[devices[d].conn] \in InLoop \cup Relaying \cup {"inserted", "leaving"}
           /\ reg[devices[d].conn] = [id |-> d, key |-> devices[d].key, listen |-> TRUE]
           /\ reg[devices[d].conn].id = d
           /\ reg[devices[d].conn].key = devices[d].key
           /\ Listens(devices[d].conn)
<1>1. devices[d] \in DeviceEntry
  BY DEF IInv, TypeOK
<1>2. devices[d].conn \in Conns /\ devices[d].conn # None
  BY <1>1, ConstantsAssumption DEF DeviceEntry
<1>3. /\ pc[devices[d].conn] \in InLoop \cup Relaying \cup {"inserted", "leaving"}
      /\ reg[devices[d].conn] = [id |-> d, key |-> devices[d].key, listen |-> TRUE]
  BY DEF IInv, NoGhostEntry
<1>4. reg[devices[d].conn] # None
  BY <1>2, <1>3 DEF IInv, ThreadState, Before, InLoop, Relaying
<1> QED
  BY <1>1, <1>2, <1>3, <1>4 DEF Listens

\* A step that matches nobody, whatever it takes off the directory and the channels
LEMMA QuietStep ==
    ASSUME IInv, UNCHANGED << reg, want, peer >>, SameOrGone,
           \A c \in Conns : channel'[c] \in {None, channel[c]}
    PROVE  MatchState' /\ PairsAgree' /\ GivenIsBusy' /\ AtMostOneInitiator'
<1>1. MatchState'
  BY DEF IInv, MatchState, Listens
<1>2. PairsAgree' /\ AtMostOneInitiator'
  BY DEF IInv, PairsAgree, AtMostOneInitiator, Listens
<1>3. GivenIsBusy'
  BY DEF IInv, GivenIsBusy, Listens, EntryOf, SameOrGone
<1> QED
  BY <1>1, <1>2, <1>3

LEMMA RestStep == IInv /\ [Next]_vars =>
    ThreadState' /\ MatchState' /\ NoGhostEntry' /\ PairsAgree' /\ GivenIsBusy' /\ AtMostOneInitiator'
<1> DEFINE Rest == ThreadState /\ MatchState /\ NoGhostEntry /\ PairsAgree /\ GivenIsBusy
                     /\ AtMostOneInitiator
<1> SUFFICES ASSUME IInv, [Next]_vars PROVE Rest'
  OBVIOUS
<1> USE DEF InLoop, Connecting, Relaying, Before, Unmatched
<1>1. ASSUME NEW c \in Conns,
             \/ Accept(c) \/ ServeHttp(c) \/ TurnAway(c) \/ Challenge(c)
             \/ SendRegistered(c) \/ SendRegisteredFails(c) \/ AbandonRegistration(c)
             \/ CheckPresence(c) \/ EndLoop(c) \/ NoOffer(c) \/ ReadNothing(c) \/ Heartbeat(c)
             \/ SendOfferFails(c) \/ SendPeerReady(c) \/ RelayEnds(c) \/ RemoveDevice(c)
      PROVE  Rest'
  <2> USE <1>1 DEF Accept, ServeHttp, TurnAway, Challenge, SendRegistered, SendRegisteredFails,
                   AbandonRegistration, CheckPresence, EndLoop, NoOffer, ReadNothing, Heartbeat,
                   SendOfferFails, SendPeerReady, RelayEnds, RemoveDevice, DropEndpoint, Goto
  <2>1. UNCHANGED << reg, want, peer >>
    OBVIOUS
  <2>2. devices' \in {devices, Expired(devices), Removed(c), Touched(c)}
    OBVIOUS
  <2>3. SameOrGone
    BY <2>2, DirectorySameOrGone DEF IInv
  <2>4. \A x \in Conns : channel'[x] \in {None, channel[x]}
    BY DEF IInv, TypeOK
  <2>5. MatchState' /\ PairsAgree' /\ GivenIsBusy' /\ AtMostOneInitiator'
    BY <2>1, <2>3, <2>4, QuietStep
  <2>6. ThreadState'
    BY <2>1 DEF IInv, TypeOK, ThreadState, Listens
  <2>7. NoGhostEntry'
    <3>1. ASSUME NEW d \in Ids, devices'[d] # None, NEW t, t = devices[d].conn
          PROVE  /\ pc'[t] \in InLoop \cup Relaying \cup {"inserted", "leaving"}
                 /\ reg'[t] = [id |-> d, key |-> devices[d].key, listen |-> TRUE]
      <4>1. /\ t \in Conns
            /\ pc[t] \in InLoop \cup Relaying \cup {"inserted", "leaving"}
            /\ reg[t] = [id |-> d, key |-> devices[d].key, listen |-> TRUE]
        BY <2>3, <3>1, EntryFacts DEF SameOrGone
      <4>2. CASE t # c
        BY <2>1, <4>1, <4>2 DEF IInv, TypeOK
      <4>3. CASE t = c /\ (SendRegisteredFails(c) \/ RemoveDevice(c))
        <5>1. devices' = Removed(c)
          BY <4>3
        <5>2. d = reg[c].id /\ EntryOf(d, c)
          BY <2>3, <3>1, <4>1, <4>3 DEF EntryOf, SameOrGone
        <5>3. devices'[d] = None
          BY <5>1, <5>2 DEF Removed
        <5> QED
          BY <5>3, <3>1
      <4>4. CASE t = c /\ ~SendRegisteredFails(c) /\ ~RemoveDevice(c)
        <5>1. pc'[c] \in InLoop \cup Relaying \cup {"inserted", "leaving"}
          BY <4>1, <4>4 DEF IInv, TypeOK
        <5> QED
          BY <2>1, <4>1, <4>4, <5>1
      <4> QED
        BY <4>2, <4>3, <4>4
    <3> QED
      BY <2>3, <3>1 DEF NoGhostEntry, SameOrGone
  <2> QED
    BY <2>5, <2>6, <2>7
<1>2. ASSUME Refuse \/ Tick \/ UNCHANGED vars PROVE Rest'
  <2>1. UNCHANGED << pc, reg, want, peer, channel >>
    BY <1>2 DEF Refuse, Tick, vars
  <2>2. SameOrGone
    BY <1>2 DEF Refuse, Tick, vars, IInv, TypeOK, DeviceEntry, SameOrGone
  <2>3. MatchState' /\ PairsAgree' /\ GivenIsBusy' /\ AtMostOneInitiator'
    BY <2>1, <2>2, QuietStep
  <2>4. ThreadState'
    BY <2>1 DEF IInv, ThreadState, Listens
  <2>5. NoGhostEntry'
    BY <2>1, <2>2 DEF IInv, NoGhostEntry, SameOrGone
  <2> QED
    BY <2>3, <2>4, <2>5
<1>3. ASSUME NEW c \in Conns, NEW r \in Claims[c], Register(c, r) PROVE Rest'
  <2> USE <1>3
  <2>1. /\ r \in Registration /\ r # None /\ r.id \in Ids
        /\ pc[c] = "challenge" /\ reg[c] = None /\ peer[c] = None /\ ~Listens(c)
        /\ UNCHANGED << want, peer, channel >>
        /\ reg' = [reg EXCEPT ![c] = r]
        /\ pc' = [pc EXCEPT ![c] = "inserted"]
    <3>1. r \in Registration /\ r # None
      BY ConstantsAssumption
    <3> QED
      BY <3>1 DEF IInv, ThreadState, Register, Registration, Goto, Listens
  <2>2. \A x \in Conns : x # c => reg'[x] = reg[x] /\ Listens(x)' = Listens(x)
    BY <2>1 DEF IInv, TypeOK, Listens
  <2>3. \A d \in Ids : devices[d] # None => devices[d].conn \in Conns \ {c}
    BY <2>1, EntryFacts
  <2>4. \A d \in Ids : devices'[d] # None =>
          \/ devices[d] # None /\ devices'[d] = devices[d]
          \/ /\ r.listen /\ d = r.id
             /\ devices'[d] = [conn |-> c, key |-> r.key, busy |-> FALSE, age |-> 0]
    BY <2>1 DEF IInv, TypeOK, Register, Inserted
  <2>5. \A x \in Conns : peer[x] # c /\ channel[x] # c
    BY <2>1, ConstantsAssumption DEF IInv, ThreadState, MatchState, PairsAgree, Listens
  <2>6. ThreadState'
    BY <2>1, <2>2 DEF IInv, TypeOK, ThreadState, Listens
  <2>7. MatchState'
    BY <2>1, <2>2, <2>5 DEF IInv, TypeOK, MatchState
  <2>8. NoGhostEntry'
    <3>1. ASSUME NEW d \in Ids, devices[d] # None, devices'[d] = devices[d]
          PROVE  /\ pc'[devices[d].conn] \in InLoop \cup Relaying \cup {"inserted", "leaving"}
                 /\ reg'[devices[d].conn] = [id |-> d, key |-> devices[d].key, listen |-> TRUE]
      BY <2>1, <2>2, <2>3, <3>1, EntryFacts DEF IInv, TypeOK
    <3>2. r.listen => r = [id |-> r.id, key |-> r.key, listen |-> TRUE]
      BY <2>1 DEF Registration
    <3>3. pc'[c] = "inserted" /\ reg'[c] = r
      BY <2>1 DEF IInv, TypeOK
    <3>4. ASSUME NEW d \in Ids, devices'[d] # None
          PROVE  /\ pc'[devices'[d].conn] \in InLoop \cup Relaying \cup {"inserted", "leaving"}
                 /\ reg'[devices'[d].conn] = [id |-> d, key |-> devices'[d].key, listen |-> TRUE]
      <4>1. CASE devices[d] # None /\ devices'[d] = devices[d]
        BY <3>1, <4>1
      <4>2. CASE /\ r.listen /\ d = r.id
                 /\ devices'[d] = [conn |-> c, key |-> r.key, busy |-> FALSE, age |-> 0]
        <5>1. devices'[d].conn = c /\ devices'[d].key = r.key
          BY <4>2
        <5>2. reg'[c] = [id |-> d, key |-> r.key, listen |-> TRUE]
          BY <3>2, <3>3, <4>2
        <5> QED
          BY <3>3, <5>1, <5>2
      <4> QED
        BY <2>4, <3>4, <4>1, <4>2
    <3> QED
      BY <3>4 DEF NoGhostEntry
  <2>9. PairsAgree' /\ AtMostOneInitiator'
    BY <2>1, <2>2, <2>5 DEF IInv, TypeOK, PairsAgree, AtMostOneInitiator
  <2>10. GivenIsBusy'
    BY <2>1, <2>2, <2>4, <2>5 DEF IInv, TypeOK, GivenIsBusy, EntryOf
  <2> QED
    BY <2>6, <2>7, <2>8, <2>9, <2>10
<1>4. ASSUME NEW c \in Conns, ReceiveOffer(c) PROVE Rest'
  <2> USE <1>4
  <2>1. PICK i \in Conns : /\ channel[c] = i
                           /\ peer' = [peer EXCEPT ![c] = i]
    BY DEF ReceiveOffer, Queued
  <2>2. /\ pc[c] = "recv" /\ pc' = [pc EXCEPT ![c] = "pairing"]
        /\ channel' = [channel EXCEPT ![c] = None]
        /\ UNCHANGED << reg, want, devices >>
    BY DEF ReceiveOffer, Goto
  <2>3. /\ Listens(c) /\ ~Listens(i) /\ peer[i] = c /\ peer[c] = None /\ i # c /\ i # None
    BY <2>1, <2>2, ConstantsAssumption DEF IInv, ThreadState, MatchState
  <2>4. ThreadState'
    BY <2>1, <2>2, <2>3 DEF IInv, TypeOK, ThreadState, Listens
  <2>5. MatchState'
    BY <2>1, <2>2, <2>3 DEF IInv, TypeOK, MatchState, Listens
  <2>6. NoGhostEntry'
    BY <2>2 DEF IInv, TypeOK, DeviceEntry, NoGhostEntry
  <2>7. PairsAgree' /\ GivenIsBusy'
    BY <2>1, <2>2, <2>3 DEF IInv, TypeOK, PairsAgree, GivenIsBusy, Listens, EntryOf
  <2>8. AtMostOneInitiator'
    <3>1. \A x \in Conns : peer[x] # i
      BY <2>3 DEF IInv, MatchState, PairsAgree, ThreadState
    <3> QED
      BY <2>1, <3>1 DEF IInv, TypeOK, AtMostOneInitiator
  <2> QED
    BY <2>4, <2>5, <2>6, <2>7, <2>8
<1>5. ASSUME NEW c \in Conns, NEW w \in Request, Connect(c, w) PROVE Rest'
  <2> USE <1>5
  <2>1. /\ pc[c] = "read" /\ pc' = [pc EXCEPT ![c] = "finding"] /\ peer[c] = None
        /\ ~Listens(c) /\ w # None /\ w.id # reg[c].id
        /\ want' = [want EXCEPT ![c] = w]
        /\ UNCHANGED << reg, peer, channel >>
    BY ConstantsAssumption DEF Connect, Goto, IInv, ThreadState
  <2>2. SameOrGone
    BY DirectorySameOrGone DEF Connect, IInv
  <2>3. ThreadState'
    BY <2>1 DEF IInv, TypeOK, ThreadState, Listens
  <2>4. MatchState' /\ AtMostOneInitiator'
    BY <2>1 DEF IInv, MatchState, AtMostOneInitiator, Listens
  <2>5. NoGhostEntry'
    <3>1. ASSUME NEW d \in Ids, devices'[d] # None
          PROVE  LET t == devices'[d].conn
                 IN  /\ t = devices[d].conn /\ devices'[d].key = devices[d].key
                     /\ pc'[t] \in InLoop \cup Relaying \cup {"inserted", "leaving"}
                     /\ reg'[t] = [id |-> d, key |-> devices[d].key, listen |-> TRUE]
      BY <2>1, <2>2, <3>1, EntryFacts DEF IInv, TypeOK, SameOrGone
    <3> QED
      BY <3>1 DEF NoGhostEntry
  <2>6. PairsAgree'
    BY <2>1 DEF IInv, TypeOK, PairsAgree, Listens
  <2>7. GivenIsBusy'
    BY <2>1, <2>2 DEF IInv, GivenIsBusy, Listens, EntryOf, SameOrGone
  <2> QED
    BY <2>3, <2>4, <2>5, <2>6, <2>7
<1>6. ASSUME NEW c \in Conns, FindTarget(c) PROVE Rest'
  <2> USE <1>6
  <2> DEFINE id == want[c].id
             t  == devices[id].conn
  <2>1. /\ pc[c] = "finding" /\ pc' = [pc EXCEPT ![c] = "found"] /\ peer[c] = None
        /\ ~Listens(c) /\ want[c] \in Request /\ id # reg[c].id /\ id \in Ids
        /\ devices[id] \in DeviceEntry /\ devices[id] # None /\ ~devices[id].busy
        /\ want[c].key \in {devices[id].key, AnyKey}
        /\ peer' = [peer EXCEPT ![c] = t]
        /\ devices' = [devices EXCEPT ![id].busy = TRUE]
        /\ UNCHANGED << reg, want, channel >>
    BY DEF FindTarget, Available, Goto, IInv, TypeOK, ThreadState, Request
  <2>2. /\ t \in Conns /\ t # c /\ t # None
        /\ pc[t] \in InLoop \cup Relaying \cup {"inserted", "leaving"}
        /\ Listens(t) /\ reg[t].id = id /\ reg[t].key = devices[id].key
    BY <2>1, EntryFacts
  <2>3. \A d \in Ids : EntryOf(d, t) => d = id
    BY <2>2, EntryFacts DEF EntryOf
  <2>4. /\ \A d \in Ids : d # id => devices'[d] = devices[d]
        /\ devices'[id].conn = t /\ devices'[id].key = devices[id].key /\ devices'[id].busy
    BY <2>1 DEF IInv, TypeOK, DeviceEntry
  <2>5. \A x \in Conns : peer[x] # t
    <3>1. ASSUME NEW x \in Conns, peer[x] = t PROVE ~Listens(x)
      BY <2>2, <3>1 DEF IInv, MatchState
    <3>2. ASSUME NEW x \in Conns, peer[x] = t, ~Listens(x) PROVE FALSE
      BY <2>1, <2>2, <3>2 DEF IInv, GivenIsBusy, EntryOf
    <3> QED
      BY <3>1, <3>2
  <2>6. ThreadState'
    BY <2>1, <2>2 DEF IInv, TypeOK, ThreadState, Listens
  <2>7. MatchState'
    BY <2>1, <2>2, ConstantsAssumption DEF IInv, TypeOK, MatchState, Listens
  <2>8. NoGhostEntry'
    BY <2>1, <2>2, <2>4 DEF IInv, TypeOK, DeviceEntry, NoGhostEntry
  <2>9. PairsAgree'
    BY <2>1, <2>2 DEF IInv, TypeOK, PairsAgree, Listens
  <2>10. GivenIsBusy'
    BY <2>1, <2>2, <2>3, <2>4 DEF IInv, TypeOK, GivenIsBusy, Listens, EntryOf
  <2>11. AtMostOneInitiator'
    BY <2>1, <2>5 DEF IInv, TypeOK, AtMostOneInitiator
  <2> QED
    BY <2>6, <2>7, <2>8, <2>9, <2>10, <2>11
<1>7. ASSUME NEW c \in Conns, TargetUnavailable(c) PROVE Rest'
  <2> USE <1>7
  <2>1. /\ pc[c] = "finding" /\ pc' = [pc EXCEPT ![c] = "top"] /\ peer[c] = None
        /\ want' = [want EXCEPT ![c] = None]
        /\ UNCHANGED << reg, peer, channel, devices >>
    BY DEF TargetUnavailable, Goto, IInv, ThreadState
  <2>2. ThreadState'
    BY <2>1 DEF IInv, TypeOK, ThreadState, Listens
  <2>3. MatchState' /\ AtMostOneInitiator' /\ GivenIsBusy'
    BY <2>1 DEF IInv, MatchState, AtMostOneInitiator, GivenIsBusy, Listens, EntryOf
  <2>4. NoGhostEntry'
    BY <2>1 DEF IInv, TypeOK, DeviceEntry, NoGhostEntry
  <2>5. PairsAgree'
    BY <2>1 DEF IInv, TypeOK, PairsAgree, Listens
  <2> QED
    BY <2>2, <2>3, <2>4, <2>5
<1>8. ASSUME NEW c \in Conns, SendOffer(c) PROVE Rest'
  <2> USE <1>8
  <2>1. /\ pc[c] = "found" /\ pc' = [pc EXCEPT ![c] = "leaving"]
        /\ channel' = [channel EXCEPT ![peer[c]] = c]
        /\ UNCHANGED << reg, want, peer, devices >>
    BY DEF SendOffer, Goto
  <2>2. ~Listens(c) /\ peer[c] \in Conns /\ Listens(peer[c])
    BY <2>1 DEF IInv, TypeOK, ThreadState, PairsAgree
  <2>3. ThreadState'
    BY <2>1, <2>2 DEF IInv, TypeOK, ThreadState, Listens
  <2>4. MatchState'
    BY <2>1, <2>2 DEF IInv, TypeOK, MatchState, Listens
  <2>5. NoGhostEntry'
    BY <2>1 DEF IInv, TypeOK, DeviceEntry, NoGhostEntry
  <2>6. PairsAgree' /\ GivenIsBusy' /\ AtMostOneInitiator'
    BY <2>1 DEF IInv, PairsAgree, GivenIsBusy, AtMostOneInitiator, Listens, EntryOf
  <2> QED
    BY <2>3, <2>4, <2>5, <2>6
<1> QED
  BY <1>1, <1>2, <1>3, <1>4, <1>5, <1>6, <1>7, <1>8 DEF Next, Thread

-----------------------------------------------------------------------------
(* The invariant, and the properties it carries *)

LEMMA InitIInv == Init => IInv
<1> SUFFICES ASSUME Init PROVE IInv
  OBVIOUS
<1>1. TypeOK
  BY ConstantsAssumption DEF Init, TypeOK, PcState, SocketState
<1>2. ThreadState /\ MatchState
  BY DEF Init, ThreadState, MatchState, Before, Unmatched, InLoop, Connecting, Relaying, Listens
<1>3. NoGhostEntry /\ PairsAgree /\ GivenIsBusy /\ AtMostOneInitiator
  BY DEF Init, NoGhostEntry, PairsAgree, GivenIsBusy, AtMostOneInitiator
<1> QED
  BY <1>1, <1>2, <1>3 DEF IInv

LEMMA StepIInv == IInv /\ [Next]_vars => IInv'
BY TypeStep, RestStep DEF IInv

\* IInv holds in every state of the server: accept loop, threads and directory.
THEOREM InductiveInvariant == Spec => []IInv
BY InitIInv, StepIInv, PTL DEF Spec

\* Every variable of the server keeps its type, for any set of connections.
THEOREM TypeCorrect == Spec => []TypeOK
<1>1. IInv => TypeOK
  BY DEF IInv
<1> QED
  BY <1>1, InductiveInvariant, PTL

\* An entry is answered for by a live thread that registered what it says.
THEOREM EntriesAreTrue == Spec => []NoGhostEntry
<1>1. IInv => NoGhostEntry
  BY DEF IInv
<1> QED
  BY <1>1, InductiveInvariant, PTL

\* An initiator is only ever matched with the device and key it asked for.
THEOREM MatchesAgree == Spec => []PairsAgree
<1>1. IInv => PairsAgree
  BY DEF IInv
<1> QED
  BY <1>1, InductiveInvariant, PTL

\* The directory is true of its threads, and initiators meet whom they asked for.
THEOREM DirectoryCorrect == Spec => []DirectoryIsTrue
BY EntriesAreTrue, MatchesAgree, PTL DEF DirectoryIsTrue

\* No registration is handed to two initiators.
THEOREM MatchesAreExclusive == Spec => []AtMostOneInitiator
<1>1. IInv => AtMostOneInitiator
  BY DEF IInv
<1> QED
  BY <1>1, InductiveInvariant, PTL

-----------------------------------------------------------------------------
(* What a step does to a fresh entry *)

LEMMA FreshStays ==
    ASSUME TypeOK, NEW c \in Conns,
           devices' \in {devices, Expired(devices), Touched(c), Expired(Touched(c))}
    PROVE  DirectoryStep
<1> SUFFICES ASSUME NEW d \in Ids, devices[d] # None, devices[d].age < PresenceTtl
             PROVE  devices'[d] # None /\ devices'[d].key = devices[d].key
  BY DEF DirectoryStep
<1>1. devices[d] \in DeviceEntry /\ devices[d].age \in 0 .. PresenceTtl
  BY DEF TypeOK, DeviceEntry
<1>2. Touched(c)[d] # None /\ Touched(c)[d].key = devices[d].key /\ Touched(c)[d].age < PresenceTtl
  <2>1. CASE d = reg[c].id /\ EntryOf(d, c)
    <3>1. Touched(c)[d] = [devices[d] EXCEPT !.age = 0]
      BY <2>1 DEF Touched
    <3>2. 0 < PresenceTtl /\ 0 \in 0 .. PresenceTtl
      BY ConstantsAssumption
    <3>3. [devices[d] EXCEPT !.age = 0] \in DeviceEntry
      BY <1>1, <3>2 DEF DeviceEntry
    <3> QED
      BY <1>1, <3>1, <3>2, <3>3, ConstantsAssumption DEF DeviceEntry
  <2>2. CASE ~(d = reg[c].id /\ EntryOf(d, c))
    BY <2>2 DEF Touched
  <2> QED
    BY <2>1, <2>2
<1>3. ~(devices[d].age >= PresenceTtl) /\ ~(Touched(c)[d].age >= PresenceTtl)
  <2>1. Touched(c)[d].age \in Nat
    BY <1>1 DEF Touched
  <2> QED
    BY <1>1, <1>2, <2>1, ConstantsAssumption
<1>4. Expired(devices)[d] = devices[d] /\ Expired(Touched(c))[d] = Touched(c)[d]
  BY <1>3 DEF Expired
<1> QED
  BY <1>2, <1>4

LEMMA DisciplineStep == IInv /\ [Next]_vars => [DirectoryStep]_vars
<1> SUFFICES ASSUME IInv, Next PROVE DirectoryStep
  OBVIOUS
<1>1. ASSUME NEW c \in Conns,
             \/ Accept(c) \/ ServeHttp(c) \/ TurnAway(c) \/ Challenge(c) \/ SendRegistered(c)
             \/ AbandonRegistration(c) \/ CheckPresence(c) \/ EndLoop(c) \/ ReceiveOffer(c)
             \/ NoOffer(c) \/ ReadNothing(c) \/ Heartbeat(c) \/ (\E w \in Request : Connect(c, w))
             \/ TargetUnavailable(c) \/ SendOffer(c) \/ SendOfferFails(c) \/ SendPeerReady(c)
             \/ RelayEnds(c)
      PROVE  DirectoryStep
  <2>1. devices' \in {devices, Expired(devices), Touched(c), Expired(Touched(c))}
    BY <1>1 DEF Accept, ServeHttp, TurnAway, Challenge, SendRegistered, AbandonRegistration,
       CheckPresence, EndLoop, ReceiveOffer, NoOffer, ReadNothing, Heartbeat, Connect,
       TargetUnavailable, SendOffer, SendOfferFails, SendPeerReady, RelayEnds
  <2> QED
    BY <2>1, FreshStays DEF IInv
<1>2. ASSUME NEW c \in Conns, SendRegisteredFails(c) \/ RemoveDevice(c) PROVE DirectoryStep
  <2>1. devices' = Removed(c) /\ pc[c] \in {"inserted", "leaving"}
    BY <1>2 DEF SendRegisteredFails, RemoveDevice
  <2> QED
    BY <2>1 DEF Removed, EntryOf, DirectoryStep
<1>3. ASSUME NEW c \in Conns, NEW r \in Claims[c], Register(c, r) PROVE DirectoryStep
  <2>1. CASE ~r.listen
    BY <1>3, <2>1 DEF Register, DirectoryStep
  <2>2. CASE r.listen
    <3> SUFFICES ASSUME NEW d \in Ids, devices[d] # None
                 PROVE  devices'[d] # None /\ devices'[d].key = devices[d].key
      BY DEF DirectoryStep
    <3>1. MayRegister(r) /\ devices' = Inserted(c, r)
      BY <1>3, <2>2 DEF Register
    <3>2. CASE d # r.id
      BY <3>1, <3>2 DEF Inserted, IInv, TypeOK
    <3>3. CASE d = r.id
      <4> DEFINE e == [conn |-> c, key |-> r.key, busy |-> FALSE, age |-> 0]
      <4>1. devices'[d] = e /\ e.key = r.key
        BY <3>1, <3>3 DEF Inserted, IInv, TypeOK
      <4>2. devices[d].key = r.key
        BY <3>1, <3>3 DEF MayRegister
      <4>3. r \in Registration
        BY ConstantsAssumption
      <4>4. e \in DeviceEntry
        BY <4>3, ConstantsAssumption DEF DeviceEntry, Registration
      <4> QED
        BY <4>1, <4>2, <4>4, ConstantsAssumption
    <3> QED
      BY <3>2, <3>3
  <2> QED
    BY <2>1, <2>2
<1>4. ASSUME NEW c \in Conns, FindTarget(c) PROVE DirectoryStep
  <2> SUFFICES ASSUME NEW d \in Ids, devices[d] # None
               PROVE  devices'[d] # None /\ devices'[d].key = devices[d].key
    BY DEF DirectoryStep
  <2>1. devices[d] \in DeviceEntry
    BY DEF IInv, TypeOK
  <2>2. devices'[d] \in {devices[d], [devices[d] EXCEPT !.busy = TRUE]}
    BY <1>4 DEF FindTarget, IInv, TypeOK
  <2>3. [devices[d] EXCEPT !.busy = TRUE] \in DeviceEntry
    BY <2>1 DEF DeviceEntry
  <2> QED
    BY <2>1, <2>2, <2>3, ConstantsAssumption DEF DeviceEntry
<1>5. ASSUME Refuse PROVE DirectoryStep
  BY <1>5 DEF Refuse, DirectoryStep
<1>6. ASSUME Tick PROVE DirectoryStep
  <2> SUFFICES ASSUME NEW d \in Ids, devices[d] # None
               PROVE  devices'[d] # None /\ devices'[d].key = devices[d].key
    BY DEF DirectoryStep
  <2>1. devices[d] \in DeviceEntry
    BY DEF IInv, TypeOK
  <2>2. CASE devices[d].age < PresenceTtl
    <3>1. devices'[d] = [devices[d] EXCEPT !.age = @ + 1]
      BY <1>6, <2>2 DEF Tick
    <3>2. [devices[d] EXCEPT !.age = @ + 1] \in DeviceEntry
      BY <2>1, <2>2, ConstantsAssumption DEF DeviceEntry
    <3> QED
      BY <2>1, <3>1, <3>2, ConstantsAssumption DEF DeviceEntry
  <2>3. CASE ~(devices[d].age < PresenceTtl)
    BY <1>6, <2>3 DEF Tick
  <2> QED
    BY <2>2, <2>3
<1> QED
  BY <1>1, <1>2, <1>3, <1>4, <1>5, <1>6 DEF Next, Thread

\* An entry that is not due changes hands only to a newer registration of the same key, and only
\* its own thread removes it, whoever else looks (remove_device, register).
THEOREM Discipline == Spec => DirectoryDiscipline
BY InductiveInvariant, DisciplineStep, PTL DEF Spec, DirectoryDiscipline

-----------------------------------------------------------------------------
(* Sockets, guards and counters *)

\* A thread at one of these has its own socket
Owning == {"request", "challenge", "inserted", "unsent"} \cup InLoop \cup Connecting \cup Relaying

\* Where a socket is, by where its thread and the thread it was handed to are
SocketPlaces ==
    \A c \in Conns :
        /\ pc[c] = "idle" <=> sock[c] = "none"
        /\ pc[c] \in Owning <=> sock[c] = "open"
        /\ sock[c] = "offered" => peer[c] # None /\ channel[peer[c]] = c
        /\ sock[c] = "paired" =>
             peer[c] # None /\ pc[peer[c]] \in Relaying /\ ~Listens(c)
        /\ channel[c] # None => sock[channel[c]] = "offered" /\ ReceiverAlive(c)
        /\ pc[c] \in Relaying => sock[peer[c]] = "paired" /\ channel[c] = None

Relays == {c \in Conns : pc[c] \in Relaying}

\* The counters are what there is
Counted ==
    /\ IsFiniteSet(HoldsGuard) /\ IsFiniteSet(Relays)
    /\ connections = Cardinality(HoldsGuard) + (IF acceptor = "refusing" THEN 1 ELSE 0)
    /\ Cardinality(HoldsGuard) <= MaxConnections
    /\ active = Cardinality(Relays)

SocketsInv == IInv /\ SocketPlaces /\ Counted /\ BusyExplained

-----------------------------------------------------------------------------
LEMMA SocketsInit == Init => SocketsInv
<1> SUFFICES ASSUME Init PROVE SocketsInv
  OBVIOUS
<1>1. IInv
  BY InitIInv
<1>2. SocketPlaces
  BY DEF Init, SocketPlaces, Owning, InLoop, Connecting, Relaying, ReceiverAlive, Listens
<1>3. HoldsGuard = {} /\ Relays = {}
  BY DEF Init, HoldsGuard, Relays, Relaying
<1>4. Counted
  BY <1>3, FS_EmptySet, ConstantsAssumption DEF Counted, Init
<1>5. BusyExplained
  BY DEF Init, BusyExplained
<1> QED
  BY <1>1, <1>2, <1>4, <1>5 DEF SocketsInv

\* Of the two ends of a match one listens.
LEMMA Matched ==
    ASSUME SocketsInv
    PROVE  /\ \A c \in Conns : channel[c] # None =>
                /\ channel[c] \in Conns /\ channel[c] # c /\ Listens(c) /\ ~Listens(channel[c])
                /\ peer[channel[c]] = c
           /\ \A c \in Conns : pc[c] \in Relaying =>
                /\ peer[c] \in Conns /\ peer[c] # c /\ Listens(c) /\ ~Listens(peer[c])
                /\ peer[peer[c]] = c
           /\ \A c \in Conns : peer[c] # None => peer[c] \in Conns
           /\ \A c \in Conns : pc[c] \in Connecting => ~Listens(c) /\ channel[c] = None
           /\ \A i, j \in Conns : peer[i] = peer[j] /\ peer[i] # None => i = j
<1> USE DEF SocketsInv, IInv
<1>1. \A c \in Conns : channel[c] # None =>
                /\ channel[c] \in Conns /\ channel[c] # c /\ Listens(c) /\ ~Listens(channel[c])
                /\ peer[channel[c]] = c
  BY DEF TypeOK, MatchState
<1>2. \A c \in Conns : pc[c] \in Relaying =>
                /\ peer[c] \in Conns /\ peer[c] # c /\ Listens(c) /\ ~Listens(peer[c])
                /\ peer[peer[c]] = c
  BY DEF TypeOK, MatchState, ThreadState
<1>3. \A c \in Conns : peer[c] # None => peer[c] \in Conns
  BY DEF TypeOK
<1>4. \A c \in Conns : pc[c] \in Connecting => ~Listens(c) /\ channel[c] = None
  BY <1>1 DEF ThreadState
<1> QED
  BY <1>1, <1>2, <1>3, <1>4 DEF AtMostOneInitiator

\* Sockets that are dropped are no longer counted, one by one.
LEMMA ClosedOnce ==
    ASSUME SocketsInv, NEW S \in SUBSET HoldsGuard, Close(S)
    PROVE  /\ IsFiniteSet(HoldsGuard') /\ connections' \in Int /\ Cardinality(HoldsGuard') <= MaxConnections
           /\ connections - Cardinality(HoldsGuard) = connections' - Cardinality(HoldsGuard')
           /\ Cardinality(HoldsGuard) \in Nat /\ Cardinality(HoldsGuard') \in Nat
<1>1. HoldsGuard' = HoldsGuard \ S
  BY DEF HoldsGuard, Close, SocketsInv, IInv, TypeOK
<1>2. IsFiniteSet(HoldsGuard) /\ IsFiniteSet(S) /\ HoldsGuard \cap S = S
  BY FS_Subset DEF SocketsInv, Counted
<1>3. IsFiniteSet(HoldsGuard') /\ Cardinality(HoldsGuard') = Cardinality(HoldsGuard) - Cardinality(S)
  BY <1>1, <1>2, FS_Difference
<1>4. Cardinality(HoldsGuard) \in Nat /\ Cardinality(S) \in Nat /\ Cardinality(HoldsGuard') \in Nat
  BY <1>2, <1>3, FS_CardinalityType
<1>5. connections' = connections - Cardinality(S) /\ connections \in Int
  BY DEF Close, SocketsInv, IInv, TypeOK
<1>6. Cardinality(HoldsGuard) <= MaxConnections /\ MaxConnections \in Nat
  BY ConstantsAssumption DEF SocketsInv, Counted
<1> QED
  BY <1>3, <1>4, <1>5, <1>6

LEMMA CloseCounts ==
    ASSUME SocketsInv, NEW S \in SUBSET HoldsGuard, Close(S), UNCHANGED << active, acceptor >>,
           Relays' = Relays
    PROVE  Counted'
<1> DEFINE more == IF acceptor = "refusing" THEN 1 ELSE 0
<1>1. /\ connections = Cardinality(HoldsGuard) + more
      /\ IsFiniteSet(Relays) /\ active = Cardinality(Relays)
  BY DEF SocketsInv, Counted
<1>2. /\ connections \in Int /\ connections' \in Int /\ more \in Int
      /\ more' = more
  BY ClosedOnce DEF SocketsInv, IInv, TypeOK
<1> HIDE DEF more
<1>3. connections' = Cardinality(HoldsGuard') + more
  BY <1>1, <1>2, ClosedOnce
<1>4. connections' = Cardinality(HoldsGuard') + (IF acceptor' = "refusing" THEN 1 ELSE 0)
  BY <1>2, <1>3 DEF more
<1> QED
  BY <1>1, <1>4, ClosedOnce DEF Counted

LEMMA NothingCounts ==
    ASSUME SocketsInv, HoldsGuard' = HoldsGuard, UNCHANGED << connections, active, acceptor >>,
           Relays' = Relays
    PROVE  Counted'
BY DEF SocketsInv, Counted

\* While pairs stay as they are, a flag that was explained still is, unless the thread lost its offer
\* on the way to something else.
LEMMA BusyStays ==
    ASSUME SocketsInv, SameOrGone, UNCHANGED peer,
           \A i \in Conns : pc[i] = "found" => pc'[i] = "found" \/ channel'[peer[i]] # None
                                                 \/ pc'[peer[i]] \in Relaying \cup {"leaving"}
                                                 \/ \A d \in Ids : devices'[d] # None
                                                      => devices[d].conn # peer[i],
           \A t \in Conns : channel[t] # None
             => \/ channel'[t] # None \/ pc'[t] \in Relaying \cup {"leaving"}
                \/ \A d \in Ids : devices'[d] # None => devices[d].conn # t,
           \A t \in Conns : pc[t] \in Relaying \cup {"leaving"}
             => \/ pc'[t] \in Relaying \cup {"leaving"}
                \/ \A d \in Ids : devices'[d] # None => devices[d].conn # t
    PROVE  BusyExplained'
<1> SUFFICES ASSUME NEW d \in Ids, devices'[d] # None, devices'[d].busy
             PROVE  LET t == devices'[d].conn
                    IN  \/ \E i \in Conns : pc'[i] = "found" /\ peer'[i] = t
                        \/ channel'[t] # None
                        \/ pc'[t] \in Relaying \cup {"leaving"}
  BY DEF BusyExplained
<1> DEFINE t == devices[d].conn
<1>1. devices[d] # None /\ devices'[d].conn = t /\ devices[d].busy
  BY DEF SameOrGone
<1>2. t \in Conns
  BY <1>1, EntryFacts DEF SocketsInv
<1>3. \/ \E i \in Conns : pc[i] = "found" /\ peer[i] = t
      \/ channel[t] # None
      \/ pc[t] \in Relaying \cup {"leaving"}
  BY <1>1 DEF SocketsInv, BusyExplained
<1> QED
  BY <1>1, <1>2, <1>3

-----------------------------------------------------------------------------
\* Where one thread moves, and everything else stays.
LEMMA PlacesStay ==
    ASSUME SocketsInv, NEW c \in Conns, UNCHANGED << sock, channel, peer >>,
           \A x \in Conns : x # c => pc'[x] = pc[x] /\ Listens(x)' = Listens(x),
           pc[c] \in Owning => Listens(c)' = Listens(c) \/ peer[c] = None,
           \/ pc[c] \in Owning /\ pc'[c] \in Owning
           \/ /\ pc[c] \notin Owning \cup {"idle"} /\ pc'[c] \notin Owning \cup {"idle"}
              /\ Listens(c)' = Listens(c),
           pc[c] \in Relaying <=> pc'[c] \in Relaying,
           channel[c] # None => ReceiverAlive(c)'
    PROVE  SocketPlaces' /\ HoldsGuard' = HoldsGuard /\ Relays' = Relays
<1> USE DEF SocketsInv
<1>1. HoldsGuard' = HoldsGuard /\ Relays' = Relays
  BY DEF HoldsGuard, Relays
<1>2. SocketPlaces'
  <2> SUFFICES ASSUME NEW x \in Conns
               PROVE /\ pc'[x] = "idle" <=> sock[x] = "none"
                     /\ pc'[x] \in Owning <=> sock[x] = "open"
                     /\ sock[x] = "offered" => peer[x] # None /\ channel[peer[x]] = x
                     /\ sock[x] = "paired" =>
                          peer[x] # None /\ pc'[peer[x]] \in Relaying /\ ~Listens(x)'
                     /\ channel[x] # None => sock[channel[x]] = "offered" /\ ReceiverAlive(x)'
                     /\ pc'[x] \in Relaying => sock[peer[x]] = "paired" /\ channel[x] = None
    BY DEF SocketPlaces
  <2>1. /\ pc'[x] = "idle" <=> sock[x] = "none"
        /\ pc'[x] \in Owning <=> sock[x] = "open"
    BY DEF SocketPlaces, Owning, InLoop, Connecting, Relaying
  <2>2. sock[x] = "offered" => peer[x] # None /\ channel[peer[x]] = x
    BY DEF SocketPlaces
  <2>3. sock[x] = "paired" => peer[x] # None /\ pc'[peer[x]] \in Relaying /\ ~Listens(x)'
    BY Matched DEF SocketPlaces
  <2>4. channel[x] # None => sock[channel[x]] = "offered" /\ ReceiverAlive(x)'
    BY DEF SocketPlaces, ReceiverAlive
  <2>5. pc'[x] \in Relaying => sock[peer[x]] = "paired" /\ channel[x] = None
    BY DEF SocketPlaces
  <2> QED
    BY <2>1, <2>2, <2>3, <2>4, <2>5
<1> QED
  BY <1>1, <1>2

\* A thread that drops its socket, and with its receiver the offer nobody took.
LEMMA PlacesDrop ==
    ASSUME SocketsInv, NEW c \in Conns, pc[c] \in Owning \ Relaying, DropEndpoint(c),
           UNCHANGED << reg, peer >>, NEW end \in {"leaving", "done"}, Goto(c, end)
    PROVE  /\ SocketPlaces' /\ {c} \cup Queued(c) \in SUBSET HoldsGuard /\ Relays' = Relays
<1> USE DEF SocketsInv
<1> DEFINE S == {c} \cup Queued(c)
<1>1. /\ pc' = [pc EXCEPT ![c] = end] /\ channel' = [channel EXCEPT ![c] = None]
      /\ sock' = [x \in Conns |-> IF x \in S THEN "closed" ELSE sock[x]]
      /\ pc \in [Conns -> PcState] /\ channel \in [Conns -> Conns \cup {None}]
  BY DEF DropEndpoint, Close, Goto, IInv, TypeOK
<1>2. \A x \in Conns : x \in S <=> x = c \/ channel[c] = x
  BY DEF Queued
<1>3. sock[c] = "open"
  BY DEF SocketPlaces
<1>4. \A x \in Conns : channel[c] = x => sock[x] = "offered" /\ x # c
  BY <1>3, ConstantsAssumption DEF SocketPlaces
<1>5. S \in SUBSET HoldsGuard
  BY <1>2, <1>3, <1>4 DEF HoldsGuard, Queued
<1>6. Relays' = Relays
  BY <1>1 DEF Relays, Relaying
<1>7. SocketPlaces'
  <2> SUFFICES ASSUME NEW x \in Conns
               PROVE /\ pc'[x] = "idle" <=> sock'[x] = "none"
                     /\ pc'[x] \in Owning <=> sock'[x] = "open"
                     /\ sock'[x] = "offered" => peer[x] # None /\ channel'[peer[x]] = x
                     /\ sock'[x] = "paired" =>
                          peer[x] # None /\ pc'[peer[x]] \in Relaying /\ ~Listens(x)
                     /\ channel'[x] # None => sock'[channel'[x]] = "offered" /\ ReceiverAlive(x)'
                     /\ pc'[x] \in Relaying => sock'[peer[x]] = "paired" /\ channel'[x] = None
    BY DEF SocketPlaces, Listens
  <2>1. /\ pc'[x] = "idle" <=> sock'[x] = "none"
        /\ pc'[x] \in Owning <=> sock'[x] = "open"
    BY <1>1, <1>2, <1>3, <1>4 DEF SocketPlaces, Owning, InLoop, Connecting, Relaying
  <2>2. sock'[x] = "offered" => peer[x] # None /\ channel'[peer[x]] = x
    BY <1>1, <1>2, Matched DEF SocketPlaces
  <2>3. sock'[x] = "paired" => peer[x] # None /\ pc'[peer[x]] \in Relaying /\ ~Listens(x)
    BY <1>1, <1>2, Matched DEF SocketPlaces
  <2>4. channel'[x] # None => sock'[channel'[x]] = "offered" /\ ReceiverAlive(x)'
    <3> HAVE channel'[x] # None
    <3>1. x # c /\ channel'[x] = channel[x] /\ pc'[x] = pc[x]
      BY <1>1
    <3>2. sock[channel[x]] = "offered" /\ ReceiverAlive(x) /\ channel[x] \in Conns
           /\ peer[channel[x]] = x
      BY <3>1, Matched DEF SocketPlaces
    <3>3. channel[x] # c
      BY <1>3, <3>2
    <3>4. channel[c] # channel[x]
      BY <3>1, <3>2, Matched, ConstantsAssumption
    <3> QED
      BY <1>1, <1>2, <3>1, <3>2, <3>3, <3>4 DEF ReceiverAlive
  <2>5. pc'[x] \in Relaying => sock'[peer[x]] = "paired" /\ channel'[x] = None
    <3> HAVE pc'[x] \in Relaying
    <3>1. x # c /\ pc[x] \in Relaying
      BY <1>1 DEF Relaying
    <3>2. sock[peer[x]] = "paired" /\ peer[x] \in Conns /\ channel[x] = None
      BY <3>1, Matched DEF SocketPlaces
    <3> QED
      BY <1>1, <1>2, <1>3, <1>4, <3>1, <3>2
  <2> QED
    BY <2>1, <2>2, <2>3, <2>4, <2>5
<1> QED
  BY <1>5, <1>6, <1>7

\* A step of a thread after which its socket and everybody's match are what they were.
LEMMA StaySteps ==
    ASSUME SocketsInv, NEW c \in Conns,
           \/ Challenge(c) \/ SendRegistered(c) \/ SendRegisteredFails(c) \/ CheckPresence(c)
           \/ NoOffer(c) \/ ReadNothing(c) \/ Heartbeat(c) \/ (\E w \in Request : Connect(c, w))
           \/ TargetUnavailable(c) \/ SendPeerReady(c) \/ RemoveDevice(c)
    PROVE  SocketPlaces' /\ Counted' /\ BusyExplained'
<1> USE DEF Challenge, SendRegistered, SendRegisteredFails, CheckPresence, NoOffer, ReadNothing,
            Heartbeat, Connect, TargetUnavailable, SendPeerReady, RemoveDevice, Goto
<1>1. /\ UNCHANGED << sock, reg, peer, channel, connections, active, acceptor >>
      /\ \E l \in PcState : pc' = [pc EXCEPT ![c] = l]
      /\ pc \in [Conns -> PcState]
  BY DEF SocketsInv, IInv, TypeOK, PcState, InLoop, Connecting, Relaying
<1>2. \A x \in Conns : Listens(x)' = Listens(x) /\ (x # c => pc'[x] = pc[x])
  BY <1>1 DEF Listens
<1>3. /\ \/ pc[c] \in Owning /\ pc'[c] \in Owning
         \/ pc[c] \notin Owning \cup {"idle"} /\ pc'[c] \notin Owning \cup {"idle"}
      /\ pc[c] \in Relaying <=> pc'[c] \in Relaying
  <2>1. CASE RemoveDevice(c)
    <3>1. pc[c] = "leaving" /\ pc'[c] = "done"
      BY <1>1, <2>1
    <3> QED
      BY <3>1 DEF Owning, InLoop, Connecting, Relaying
  <2>2. CASE SendPeerReady(c)
    <3>1. pc[c] = "pairing" /\ pc'[c] = "relay"
      BY <1>1, <2>2
    <3> QED
      BY <3>1 DEF Owning, InLoop, Connecting, Relaying
  <2>3. CASE ~RemoveDevice(c) /\ ~SendPeerReady(c)
    <3>1. /\ pc[c] \in {"request", "inserted", "top", "recv", "read", "finding"}
          /\ pc'[c] \in {"challenge", "top", "unsent", "recv", "read", "finding"}
      BY <1>1, <2>3
    <3> QED
      BY <3>1 DEF Owning, InLoop, Connecting, Relaying
  <2> QED
    BY <2>1, <2>2, <2>3
<1>4. channel[c] # None => ReceiverAlive(c)'
  <2> HAVE channel[c] # None
  <2>1. ReceiverAlive(c) /\ pc[c] \notin Connecting
    BY Matched DEF SocketsInv, SocketPlaces
  <2> QED
    BY <1>1, <2>1, Matched DEF ReceiverAlive, InLoop, Connecting, Relaying, SocketsInv, SocketPlaces
<1>5. SocketPlaces' /\ HoldsGuard' = HoldsGuard /\ Relays' = Relays
  BY <1>1, <1>2, <1>3, <1>4, PlacesStay
<1>6. Counted'
  BY <1>1, <1>5, NothingCounts
<1>7. SameOrGone
  <2>1. devices' \in {devices, Expired(devices), Removed(c), Touched(c), Expired(Touched(c))}
    OBVIOUS
  <2> QED
    BY <2>1, DirectorySameOrGone DEF SocketsInv, IInv
<1>8. pc[c] # "found"
  OBVIOUS
<1>9. pc[c] \in Relaying \cup {"leaving"}
        => \/ pc'[c] \in Relaying \cup {"leaving"}
           \/ \A d \in Ids : devices'[d] # None => devices[d].conn # c
  <2>1. CASE RemoveDevice(c)
    <3>1. ASSUME NEW d \in Ids, devices'[d] # None PROVE devices[d].conn # c
      <4>1. devices[d] # None /\ (devices[d].conn = c => d = reg[c].id)
        BY <1>7, <3>1, EntryFacts DEF SameOrGone, SocketsInv
      <4>2. devices' = Removed(c)
        BY <2>1
      <4> QED
        BY <3>1, <4>1, <4>2 DEF Removed, EntryOf
    <3> QED
      BY <3>1
  <2>2. CASE ~RemoveDevice(c)
    BY <1>1, <2>2 DEF Relaying, InLoop, Connecting
  <2> QED
    BY <2>1, <2>2
<1>10. BusyExplained'
  BY <1>1, <1>2, <1>7, <1>8, <1>9, BusyStays
<1> QED
  BY <1>5, <1>6, <1>10

\* A step of a thread that drops its socket before it was handed on.
LEMMA DropSteps ==
    ASSUME SocketsInv, NEW c \in Conns,
           ServeHttp(c) \/ TurnAway(c) \/ AbandonRegistration(c) \/ EndLoop(c) \/ SendOfferFails(c)
    PROVE  SocketPlaces' /\ Counted' /\ BusyExplained'
<1> USE DEF ServeHttp, TurnAway, AbandonRegistration, EndLoop, SendOfferFails
<1>1. /\ UNCHANGED << reg, peer, active, acceptor >>
      /\ pc[c] \in Owning \ Relaying
  BY DEF Owning, InLoop, Connecting, Relaying
<1>2. PICK end \in {"leaving", "done"} : Goto(c, end)
  OBVIOUS
<1>3. DropEndpoint(c)
  <2>1. CASE ServeHttp(c) \/ TurnAway(c)
    <3>1. channel[c] = None /\ Close({c}) /\ channel' = channel
      BY <2>1, Matched DEF SocketsInv, IInv, ThreadState, Before, Listens
    <3>2. channel' = [channel EXCEPT ![c] = None]
      BY <3>1 DEF SocketsInv, IInv, TypeOK
    <3>3. {c} \cup Queued(c) = {c}
      BY <3>1, ConstantsAssumption DEF Queued
    <3> QED
      BY <3>1, <3>2, <3>3 DEF DropEndpoint
  <2>2. CASE ~(ServeHttp(c) \/ TurnAway(c))
    BY <2>2
  <2> QED
    BY <2>1, <2>2
<1>4. /\ SocketPlaces' /\ {c} \cup Queued(c) \in SUBSET HoldsGuard /\ Relays' = Relays
  BY <1>1, <1>2, <1>3, PlacesDrop
<1>5. Counted'
  BY <1>1, <1>3, <1>4, CloseCounts DEF DropEndpoint
<1>6. SameOrGone
  <2>1. devices' \in {devices, Expired(devices), Removed(c), Touched(c), Expired(Touched(c))}
    OBVIOUS
  <2> QED
    BY <2>1, DirectorySameOrGone DEF SocketsInv, IInv
<1>7. /\ pc' = [pc EXCEPT ![c] = end] /\ pc \in [Conns -> PcState]
      /\ channel' = [channel EXCEPT ![c] = None] /\ channel \in [Conns -> Conns \cup {None}]
  BY <1>2, <1>3 DEF Goto, DropEndpoint, SocketsInv, IInv, TypeOK
\* whoever was on its way to a listener that no longer takes offers leaves it to itself
<1>8. pc[c] = "found" => channel'[peer[c]] # None \/ pc'[peer[c]] \in Relaying \cup {"leaving"}
                           \/ \A d \in Ids : devices'[d] # None => devices[d].conn # peer[c]
  <2> HAVE pc[c] = "found"
  <2>1. peer[c] \in Conns /\ peer[c] # c /\ SendOfferFails(c)
    BY Matched DEF SocketsInv, IInv, ThreadState, PairsAgree, Connecting
  <2>2. CASE channel[peer[c]] # None
    BY <1>7, <2>1, <2>2
  <2>3. CASE ~ReceiverAlive(peer[c])
    <3>1. pc'[peer[c]] = pc[peer[c]]
      BY <1>7, <2>1
    <3>2. ASSUME NEW d \in Ids, devices'[d] # None, devices[d].conn = peer[c]
          PROVE  pc[peer[c]] = "leaving"
      <4>1. devices[d] # None /\ IInv
        BY <1>6, <3>2 DEF SameOrGone, SocketsInv
      <4>2. pc[devices[d].conn] \in InLoop \cup Relaying \cup {"inserted", "leaving"}
        BY <4>1, EntryFacts
      <4> QED
        BY <2>3, <3>2, <4>2 DEF ReceiverAlive
    <3> QED
      BY <3>1, <3>2
  <2> QED
    BY <2>1, <2>2, <2>3
<1>9. channel[c] # None
        => \/ pc'[c] = "leaving"
           \/ \A d \in Ids : devices'[d] # None => devices[d].conn # c
  <2> HAVE channel[c] # None
  <2>1. CASE AbandonRegistration(c)
    BY <1>6, <2>1, EntryFacts DEF SameOrGone, SocketsInv, InLoop, Relaying
  <2>2. CASE ServeHttp(c) \/ TurnAway(c)
    BY <2>2, Matched DEF SocketsInv, IInv, ThreadState, Before, Listens
  <2>3. CASE EndLoop(c) \/ SendOfferFails(c)
    BY <2>3, <1>7 DEF Goto
  <2> QED
    BY <2>1, <2>2, <2>3
<1>10. pc[c] \notin Relaying \cup {"leaving"}
  BY <1>1 DEF Owning, InLoop, Connecting, Relaying
<1>11. BusyExplained'
  BY <1>1, <1>6, <1>7, <1>8, <1>9, <1>10, BusyStays
<1> QED
  BY <1>4, <1>5, <1>11

LEMMA AcceptStep ==
    ASSUME SocketsInv, NEW c \in Conns, Accept(c)
    PROVE  SocketPlaces' /\ Counted' /\ BusyExplained'
<1>1. /\ pc[c] = "idle" /\ sock[c] = "none" /\ reg[c] = None /\ peer[c] = None
      /\ channel[c] = None
      /\ UNCHANGED << reg, peer, channel, devices, active >> /\ acceptor = "ready"
  BY Matched DEF Accept, SocketsInv, SocketPlaces, IInv, ThreadState, Before, Unmatched, Listens
<1>2. /\ pc \in [Conns -> PcState] /\ sock \in [Conns -> SocketState] /\ connections \in Int
      /\ connections' = connections + 1
  BY DEF Accept, SocketsInv, IInv, TypeOK
<1>3. \/ /\ connections >= MaxConnections /\ acceptor' = "refusing"
         /\ pc' = [pc EXCEPT ![c] = "done"] /\ sock' = [sock EXCEPT ![c] = "closed"]
      \/ /\ connections < MaxConnections /\ acceptor' = "ready"
         /\ pc' = [pc EXCEPT ![c] = "request"] /\ sock' = [sock EXCEPT ![c] = "open"]
  BY DEF Accept, Goto
<1>4. \A x \in Conns : x # c => pc'[x] = pc[x] /\ sock'[x] = sock[x]
  BY <1>2, <1>3
<1>5. \/ pc'[c] = "done" /\ sock'[c] = "closed"
      \/ pc'[c] = "request" /\ sock'[c] = "open"
  BY <1>2, <1>3
<1>6. Relays' = Relays
  BY <1>1, <1>4, <1>5 DEF Relays, Relaying
\* nothing is in a channel or a relay that is not open yet
<1>7. SocketPlaces'
  <2> SUFFICES ASSUME NEW x \in Conns
               PROVE /\ pc'[x] = "idle" <=> sock'[x] = "none"
                     /\ pc'[x] \in Owning <=> sock'[x] = "open"
                     /\ sock'[x] = "offered" => peer[x] # None /\ channel[peer[x]] = x
                     /\ sock'[x] = "paired" =>
                          peer[x] # None /\ pc'[peer[x]] \in Relaying /\ ~Listens(x)
                     /\ channel[x] # None => sock'[channel[x]] = "offered" /\ ReceiverAlive(x)'
                     /\ pc'[x] \in Relaying => sock'[peer[x]] = "paired" /\ channel[x] = None
    BY <1>1 DEF SocketPlaces, Listens
  <2>1. CASE x = c
    BY <1>1, <1>5, <2>1 DEF Owning, InLoop, Connecting, Relaying
  <2>2. CASE x # c
    <3>1. pc'[x] = pc[x] /\ sock'[x] = sock[x]
      BY <1>4, <2>2
    <3>2. channel[x] # c /\ (pc[x] \in Relaying => peer[x] # c)
      <4>1. c # None
        BY ConstantsAssumption
      <4>2. channel[x] # None => sock[channel[x]] = "offered"
        BY DEF SocketsInv, SocketPlaces
      <4>3. pc[x] \in Relaying => sock[peer[x]] = "paired"
        BY DEF SocketsInv, SocketPlaces
      <4> QED
        BY <1>1, <4>1, <4>2, <4>3
    <3>3. sock[x] = "paired" => peer[x] \in Conns \ {c}
      BY <1>1, Matched DEF SocketsInv, SocketPlaces, Relaying
    <3>4. channel[x] # None => channel[x] \in Conns \ {c}
      BY <3>2, Matched
    <3>5. pc[x] \in Relaying => peer[x] \in Conns \ {c}
      BY <3>2, Matched
    <3> QED
      BY <1>4, <3>1, <3>3, <3>4, <3>5 DEF SocketsInv, SocketPlaces, ReceiverAlive
  <2> QED
    BY <2>1, <2>2
<1>8. Counted'
  <2>1. /\ IsFiniteSet(HoldsGuard) /\ c \notin HoldsGuard /\ Cardinality(HoldsGuard) \in Nat
        /\ connections = Cardinality(HoldsGuard) /\ Cardinality(HoldsGuard) <= MaxConnections
        /\ IsFiniteSet(Relays') /\ active' = Cardinality(Relays')
    <3>1. connections = Cardinality(HoldsGuard) + 0 /\ IsFiniteSet(HoldsGuard)
      BY <1>1 DEF SocketsInv, Counted
    <3>2. Cardinality(HoldsGuard) \in Nat
      BY <3>1, FS_CardinalityType
    <3>3. c \notin HoldsGuard
      BY <1>1 DEF HoldsGuard
    <3> QED
      BY <1>1, <1>6, <3>1, <3>2, <3>3 DEF SocketsInv, Counted
  <2>2. CASE sock'[c] = "closed"
    <3>1. HoldsGuard' = HoldsGuard /\ acceptor' = "refusing"
      <4>1. acceptor' = "refusing"
        BY <1>2, <1>3, <2>2
      <4> QED
        BY <1>1, <1>4, <2>2, <4>1 DEF HoldsGuard
    <3> QED
      BY <1>2, <2>1, <3>1 DEF Counted
  <2>3. CASE sock'[c] = "open"
    <3>1. /\ HoldsGuard' = HoldsGuard \cup {c} /\ acceptor' = "ready"
          /\ connections < MaxConnections
      BY <1>1, <1>2, <1>3, <1>4, <2>3 DEF HoldsGuard
    <3>2. IsFiniteSet(HoldsGuard') /\ Cardinality(HoldsGuard') = Cardinality(HoldsGuard) + 1
      BY <2>1, <3>1, FS_AddElement
    <3> QED
      BY <1>2, <2>1, <3>1, <3>2, ConstantsAssumption DEF Counted
  <2> QED
    BY <1>5, <2>2, <2>3
<1>9. BusyExplained'
  <2>1. SameOrGone
    BY <1>1 DEF SameOrGone
  <2>2. pc[c] # "found" /\ pc[c] \notin Relaying \cup {"leaving"}
    BY <1>1 DEF Relaying
  <2> QED
    BY <1>1, <1>4, <2>1, <2>2, BusyStays
<1> QED
  BY <1>7, <1>8, <1>9

LEMMA RegisterStep ==
    ASSUME SocketsInv, NEW c \in Conns, NEW r \in Claims[c], Register(c, r)
    PROVE  SocketPlaces' /\ Counted' /\ BusyExplained'
<1>1. /\ pc[c] = "challenge" /\ reg[c] = None /\ peer[c] = None /\ channel[c] = None
      /\ pc' = [pc EXCEPT ![c] = "inserted"] /\ pc \in [Conns -> PcState]
      /\ reg' = [reg EXCEPT ![c] = r] /\ reg \in [Conns -> Registration \cup {None}]
      /\ UNCHANGED << sock, peer, channel, connections, active, acceptor >>
  BY Matched DEF Register, Goto, SocketsInv, IInv, TypeOK, ThreadState, Before, Unmatched, Listens
<1>2. \A x \in Conns : x # c => pc'[x] = pc[x] /\ Listens(x)' = Listens(x)
  BY <1>1 DEF Listens
<1>3. pc[c] \in Owning /\ pc'[c] \in Owning /\ pc[c] \notin Relaying /\ pc'[c] \notin Relaying
  BY <1>1 DEF Owning, InLoop, Connecting, Relaying
<1>4. SocketPlaces' /\ HoldsGuard' = HoldsGuard /\ Relays' = Relays
  BY <1>1, <1>2, <1>3, PlacesStay
<1>5. Counted'
  BY <1>1, <1>4, NothingCounts
<1>6. BusyExplained'
  <2> SUFFICES ASSUME NEW d \in Ids, devices'[d] # None, devices'[d].busy
               PROVE  LET t == devices'[d].conn
                      IN  \/ \E i \in Conns : pc'[i] = "found" /\ peer[i] = t
                          \/ channel[t] # None
                          \/ pc'[t] \in Relaying \cup {"leaving"}
    BY <1>1 DEF BusyExplained
  <2>1. devices'[d] = devices[d]
    <3>1. CASE ~r.listen
      BY <3>1 DEF Register
    <3>2. CASE r.listen
      <4>1. devices' = Inserted(c, r)
        BY <3>2 DEF Register
      <4>2. d # r.id
        BY <4>1 DEF Inserted, SocketsInv, IInv, TypeOK
      <4> QED
        BY <4>1, <4>2 DEF Inserted, SocketsInv, IInv, TypeOK
    <3> QED
      BY <3>1, <3>2
  <2>2. devices[d].conn \in Conns /\ devices[d].conn # c
    BY <1>1, <2>1, EntryFacts DEF SocketsInv, InLoop, Relaying
  <2>3. \/ \E i \in Conns : pc[i] = "found" /\ peer[i] = devices[d].conn
        \/ channel[devices[d].conn] # None
        \/ pc[devices[d].conn] \in Relaying \cup {"leaving"}
    BY <2>1 DEF SocketsInv, BusyExplained
  <2> QED
    BY <1>1, <1>2, <2>1, <2>2, <2>3
<1> QED
  BY <1>4, <1>5, <1>6

LEMMA FindStep ==
    ASSUME SocketsInv, NEW c \in Conns, FindTarget(c)
    PROVE  SocketPlaces' /\ Counted' /\ BusyExplained'
<1> DEFINE id == want[c].id
           t  == devices[id].conn
<1>1. /\ pc[c] = "finding" /\ peer[c] = None /\ channel[c] = None /\ sock[c] = "open"
      /\ pc' = [pc EXCEPT ![c] = "found"] /\ pc \in [Conns -> PcState]
      /\ peer' = [peer EXCEPT ![c] = t] /\ peer \in [Conns -> Conns \cup {None}]
      /\ UNCHANGED << sock, reg, channel, connections, active, acceptor >>
  BY Matched DEF FindTarget, Goto, SocketsInv, IInv, TypeOK, ThreadState, Unmatched, SocketPlaces,
     Owning, Connecting
<1>2. /\ id \in Ids /\ devices[id] # None /\ t \in Conns
      /\ \A d \in Ids : d # id => devices'[d] = devices[d]
      /\ devices'[id].conn = t
  <2>1. want[c] \in Request /\ devices[id] # None
    BY <1>1 DEF FindTarget, Available, SocketsInv, IInv, TypeOK, ThreadState, Connecting
  <2>2. id \in Ids
    BY <2>1 DEF Request
  <2>3. devices[id] \in DeviceEntry /\ devices' = [devices EXCEPT ![id].busy = TRUE]
    BY <2>1, <2>2 DEF FindTarget, SocketsInv, IInv, TypeOK
  <2> QED
    BY <2>1, <2>2, <2>3 DEF DeviceEntry, SocketsInv, IInv, TypeOK
<1> HIDE DEF t, id
<1>3. \A x \in Conns : x # c => pc'[x] = pc[x] /\ peer'[x] = peer[x]
  BY <1>1
<1>4. pc'[c] = "found" /\ peer'[c] = t /\ \A x \in Conns : Listens(x)' = Listens(x)
  BY <1>1 DEF Listens
<1>5. \A x \in Conns : pc'[x] \in Relaying <=> pc[x] \in Relaying
  BY <1>1, <1>3, <1>4 DEF Relaying
<1>6. \A x \in Conns : ReceiverAlive(x) <=> ReceiverAlive(x)'
  BY <1>1, <1>3, <1>4, Matched DEF ReceiverAlive, InLoop, Relaying
<1>7. SocketPlaces'
  BY <1>1, <1>3, <1>4, <1>5, <1>6 DEF SocketsInv, SocketPlaces, Owning, Relaying, Connecting, InLoop
<1>8. HoldsGuard' = HoldsGuard /\ Relays' = Relays
  BY <1>1, <1>5 DEF HoldsGuard, Relays
<1>9. Counted'
  BY <1>1, <1>8, NothingCounts
<1>10. BusyExplained'
  <2> SUFFICES ASSUME NEW d \in Ids, devices'[d] # None, devices'[d].busy
               PROVE  LET s == devices'[d].conn
                      IN  \/ \E i \in Conns : pc'[i] = "found" /\ peer'[i] = s
                          \/ channel[s] # None
                          \/ pc'[s] \in Relaying \cup {"leaving"}
    BY <1>1 DEF BusyExplained
  <2>1. CASE d = id
    BY <1>2, <1>4, <2>1
  <2>2. CASE d # id
    <3>1. devices'[d] = devices[d] /\ devices[d].conn \in Conns
      BY <1>2, <2>2, EntryFacts DEF SocketsInv
    <3>2. \/ \E i \in Conns : pc[i] = "found" /\ peer[i] = devices[d].conn
          \/ channel[devices[d].conn] # None
          \/ pc[devices[d].conn] \in Relaying \cup {"leaving"}
      BY <3>1 DEF SocketsInv, BusyExplained
    <3>3. \A x \in Conns : pc[x] \in {"found", "leaving"} => x # c
      BY <1>1
    <3> QED
      BY <1>3, <1>5, <3>1, <3>2, <3>3
  <2> QED
    BY <2>1, <2>2
<1> QED
  BY <1>7, <1>9, <1>10

LEMMA OfferStep ==
    ASSUME SocketsInv, NEW c \in Conns, SendOffer(c)
    PROVE  SocketPlaces' /\ Counted' /\ BusyExplained'
<1> DEFINE t == peer[c]
<1>1. /\ pc[c] = "found" /\ channel[c] = None /\ sock[c] = "open" /\ ~Listens(c)
      /\ t \in Conns /\ t # c /\ c # None /\ channel[t] = None /\ ReceiverAlive(t)
      /\ pc' = [pc EXCEPT ![c] = "leaving"] /\ pc \in [Conns -> PcState]
      /\ sock' = [sock EXCEPT ![c] = "offered"] /\ sock \in [Conns -> SocketState]
      /\ channel' = [channel EXCEPT ![t] = c] /\ channel \in [Conns -> Conns \cup {None}]
      /\ UNCHANGED << reg, peer, devices, connections, active, acceptor >>
  <2>1. t \in Conns /\ Listens(t) /\ ~Listens(c)
    BY Matched DEF SendOffer, SocketsInv, IInv, ThreadState, PairsAgree, Connecting
  <2> QED
    BY <2>1, Matched, ConstantsAssumption
       DEF SendOffer, Goto, SocketsInv, IInv, TypeOK, SocketPlaces, Owning, Connecting
<1>2. \A x \in Conns : x # c => pc'[x] = pc[x] /\ sock'[x] = sock[x]
  BY <1>1
<1>3. \A x \in Conns : x # t => channel'[x] = channel[x]
  BY <1>1
<1>4. pc'[c] = "leaving" /\ sock'[c] = "offered" /\ channel'[t] = c
  BY <1>1
<1>5. \A x \in Conns : pc'[x] \in Relaying <=> pc[x] \in Relaying
  BY <1>1, <1>2, <1>4 DEF Relaying
\* the listener is not relaying: whom it relays asked for it, and is not c
<1>6. pc[t] \notin Relaying
  <2> SUFFICES ASSUME pc[t] \in Relaying PROVE FALSE
    OBVIOUS
  <2>1. peer[t] \in Conns /\ peer[peer[t]] = t /\ sock[peer[t]] = "paired"
    BY <1>1, Matched DEF SocketsInv, SocketPlaces
  <2>2. peer[t] = c
    BY <1>1, <2>1, Matched, ConstantsAssumption
  <2> QED
    BY <1>1, <2>1, <2>2
<1> HIDE DEF t
<1>7. SocketPlaces'
  <2> SUFFICES ASSUME NEW x \in Conns
               PROVE /\ pc'[x] = "idle" <=> sock'[x] = "none"
                     /\ pc'[x] \in Owning <=> sock'[x] = "open"
                     /\ sock'[x] = "offered" => peer[x] # None /\ channel'[peer[x]] = x
                     /\ sock'[x] = "paired" =>
                          peer[x] # None /\ pc'[peer[x]] \in Relaying /\ ~Listens(x)
                     /\ channel'[x] # None => sock'[channel'[x]] = "offered" /\ ReceiverAlive(x)'
                     /\ pc'[x] \in Relaying => sock'[peer[x]] = "paired" /\ channel'[x] = None
    BY <1>1 DEF SocketPlaces, Listens
  <2>1. /\ pc'[x] = "idle" <=> sock'[x] = "none"
        /\ pc'[x] \in Owning <=> sock'[x] = "open"
    BY <1>2, <1>4 DEF SocketsInv, SocketPlaces, Owning, InLoop, Connecting, Relaying
  <2>2. sock'[x] = "offered" => peer[x] # None /\ channel'[peer[x]] = x
    <3> HAVE sock'[x] = "offered"
    <3>1. CASE x = c
      BY <1>1, <1>4, <3>1, ConstantsAssumption DEF t
    <3>2. CASE x # c
      <4>1. sock[x] = "offered" /\ peer[x] \in Conns /\ peer[x] # None /\ channel[peer[x]] = x
        BY <1>2, <3>2, Matched DEF SocketsInv, SocketPlaces
      <4>2. peer[x] # t
        BY <1>1, <4>1, ConstantsAssumption
      <4> QED
        BY <1>3, <4>1, <4>2
    <3> QED
      BY <3>1, <3>2
  <2>3. sock'[x] = "paired" => peer[x] # None /\ pc'[peer[x]] \in Relaying /\ ~Listens(x)
    <3> HAVE sock'[x] = "paired"
    <3>1. x # c /\ sock[x] = "paired"
      BY <1>2, <1>4
    <3> QED
      BY <1>5, <3>1, Matched DEF SocketsInv, SocketPlaces
  <2>4. channel'[x] # None => sock'[channel'[x]] = "offered" /\ ReceiverAlive(x)'
    <3> HAVE channel'[x] # None
    <3>1. CASE x = t
      BY <1>1, <1>2, <1>4, <3>1 DEF ReceiverAlive, InLoop, Relaying
    <3>2. CASE x # t
      <4>1. /\ channel'[x] = channel[x] /\ channel[x] \in Conns /\ sock[channel[x]] = "offered"
            /\ ReceiverAlive(x)
        BY <1>3, <3>2, Matched DEF SocketsInv, SocketPlaces
      <4>2. channel[x] # c /\ x # c
        BY <1>1, <1>3, <3>2, <4>1
      <4> QED
        BY <1>2, <4>1, <4>2 DEF ReceiverAlive
    <3> QED
      BY <3>1, <3>2
  <2>5. pc'[x] \in Relaying => sock'[peer[x]] = "paired" /\ channel'[x] = None
    <3> HAVE pc'[x] \in Relaying
    <3>1. pc[x] \in Relaying /\ peer[x] \in Conns /\ sock[peer[x]] = "paired" /\ channel[x] = None
      BY <1>5, Matched DEF SocketsInv, SocketPlaces
    <3>2. peer[x] # c /\ x # t
      BY <1>1, <1>6, <3>1
    <3> QED
      BY <1>2, <1>3, <3>1, <3>2
  <2> QED
    BY <2>1, <2>2, <2>3, <2>4, <2>5
<1>8. HoldsGuard' = HoldsGuard /\ Relays' = Relays
  BY <1>1, <1>2, <1>4, <1>5 DEF HoldsGuard, Relays
<1>9. Counted'
  BY <1>1, <1>8, NothingCounts
<1>10. BusyExplained'
  <2>1. SameOrGone
    BY <1>1 DEF SameOrGone
  <2>2. \A x \in Conns : channel[x] # None => channel'[x] # None
    BY <1>1, <1>3
  <2>3. \A x \in Conns : pc[x] = "found" => pc'[x] = "found" \/ channel'[peer[x]] # None
    BY <1>1, <1>2, <1>4 DEF t
  <2>4. \A x \in Conns : pc[x] \in Relaying \cup {"leaving"} => pc'[x] \in Relaying \cup {"leaving"}
    BY <1>1, <1>2, <1>5
  <2> QED
    BY <1>1, <2>1, <2>2, <2>3, <2>4, BusyStays
<1> QED
  BY <1>7, <1>9, <1>10

LEMMA ReceiveStep ==
    ASSUME SocketsInv, NEW t \in Conns, ReceiveOffer(t)
    PROVE  SocketPlaces' /\ Counted' /\ BusyExplained'
<1>1. PICK i \in Conns : /\ channel[t] = i
                         /\ peer' = [peer EXCEPT ![t] = i] /\ sock' = [sock EXCEPT ![i] = "paired"]
  BY DEF ReceiveOffer, Queued
<1>2. /\ pc[t] = "recv" /\ peer[t] = None /\ sock[t] = "open" /\ sock[i] = "offered"
      /\ i # t /\ i # None /\ peer[i] = t /\ ~Listens(i)
      /\ pc' = [pc EXCEPT ![t] = "pairing"] /\ pc \in [Conns -> PcState]
      /\ channel' = [channel EXCEPT ![t] = None] /\ channel \in [Conns -> Conns \cup {None}]
      /\ peer \in [Conns -> Conns \cup {None}] /\ sock \in [Conns -> SocketState]
      /\ UNCHANGED << reg, devices, connections, acceptor >> /\ active' = active + 1
  BY <1>1, Matched, ConstantsAssumption DEF ReceiveOffer, Goto, SocketsInv, IInv, TypeOK,
     ThreadState, Unmatched, InLoop, SocketPlaces, Owning
<1>3. /\ \A x \in Conns : x # t => /\ pc'[x] = pc[x] /\ channel'[x] = channel[x]
                                   /\ peer'[x] = peer[x]
      /\ \A x \in Conns : x # i => sock'[x] = sock[x]
      /\ pc'[t] = "pairing" /\ channel'[t] = None /\ peer'[t] = i /\ sock'[i] = "paired"
  BY <1>1, <1>2
<1>4. pc[i] \notin Owning \cup {"idle"} /\ pc'[i] = pc[i]
  BY <1>2, <1>3 DEF SocketsInv, SocketPlaces
<1>5. SocketPlaces'
  <2> SUFFICES ASSUME NEW x \in Conns
               PROVE /\ pc'[x] = "idle" <=> sock'[x] = "none"
                     /\ pc'[x] \in Owning <=> sock'[x] = "open"
                     /\ sock'[x] = "offered" => peer'[x] # None /\ channel'[peer'[x]] = x
                     /\ sock'[x] = "paired" =>
                          peer'[x] # None /\ pc'[peer'[x]] \in Relaying /\ ~Listens(x)
                     /\ channel'[x] # None => sock'[channel'[x]] = "offered" /\ ReceiverAlive(x)'
                     /\ pc'[x] \in Relaying => sock'[peer'[x]] = "paired" /\ channel'[x] = None
    BY <1>2 DEF SocketPlaces, Listens
  <2>1. /\ pc'[x] = "idle" <=> sock'[x] = "none"
        /\ pc'[x] \in Owning <=> sock'[x] = "open"
    <3>1. CASE x = t
      BY <1>2, <1>3, <3>1 DEF Owning, Relaying
    <3>2. CASE x = i
      BY <1>3, <1>4, <3>2
    <3>3. CASE x # t /\ x # i
      BY <1>3, <3>3 DEF SocketsInv, SocketPlaces
    <3> QED
      BY <3>1, <3>2, <3>3
  <2>2. sock'[x] = "offered" => peer'[x] # None /\ channel'[peer'[x]] = x
    <3> HAVE sock'[x] = "offered"
    <3>1. x # i /\ sock[x] = "offered" /\ x # t
      BY <1>2, <1>3
    <3>2. peer[x] \in Conns /\ peer[x] # None /\ channel[peer[x]] = x
      BY <3>1, Matched DEF SocketsInv, SocketPlaces
    <3>3. peer[x] # t
      BY <1>1, <3>1, <3>2
    <3> QED
      BY <1>3, <3>1, <3>2, <3>3
  <2>3. sock'[x] = "paired" => peer'[x] # None /\ pc'[peer'[x]] \in Relaying /\ ~Listens(x)
    <3> HAVE sock'[x] = "paired"
    <3>1. CASE x = i
      BY <1>2, <1>3, <3>1, ConstantsAssumption DEF Relaying
    <3>2. CASE x # i
      <4>1. sock[x] = "paired" /\ x # t
        BY <1>2, <1>3, <3>2
      <4>2. peer[x] \in Conns /\ peer[x] # None /\ pc[peer[x]] \in Relaying /\ ~Listens(x)
        BY <4>1, Matched DEF SocketsInv, SocketPlaces
      <4>3. peer[x] # t
        BY <1>2, <4>2 DEF Relaying
      <4> QED
        BY <1>3, <4>1, <4>2, <4>3
    <3> QED
      BY <3>1, <3>2
  <2>4. channel'[x] # None => sock'[channel'[x]] = "offered" /\ ReceiverAlive(x)'
    <3> HAVE channel'[x] # None
    <3>1. x # t /\ channel'[x] = channel[x]
      BY <1>3
    <3>2. /\ channel[x] \in Conns /\ peer[channel[x]] = x /\ sock[channel[x]] = "offered"
          /\ ReceiverAlive(x)
      BY <3>1, Matched DEF SocketsInv, SocketPlaces
    <3>3. channel[x] # i
      BY <1>2, <3>1, <3>2
    <3> QED
      BY <1>3, <3>1, <3>2, <3>3 DEF ReceiverAlive
  <2>5. pc'[x] \in Relaying => sock'[peer'[x]] = "paired" /\ channel'[x] = None
    <3> HAVE pc'[x] \in Relaying
    <3>1. CASE x = t
      BY <1>3, <3>1
    <3>2. CASE x # t
      <4>1. pc[x] \in Relaying /\ peer[x] \in Conns /\ sock[peer[x]] = "paired" /\ channel[x] = None
        BY <1>3, <3>2, Matched DEF SocketsInv, SocketPlaces
      <4> QED
        BY <1>2, <1>3, <3>2, <4>1
    <3> QED
      BY <3>1, <3>2
  <2> QED
    BY <2>1, <2>2, <2>3, <2>4, <2>5
<1>6. Counted'
  <2>1. HoldsGuard' = HoldsGuard
    BY <1>2, <1>3 DEF HoldsGuard
  <2>2. Relays' = Relays \cup {t} /\ t \notin Relays
    BY <1>2, <1>3 DEF Relays, Relaying
  <2>3. IsFiniteSet(Relays) /\ active = Cardinality(Relays)
    BY DEF SocketsInv, Counted
  <2>4. IsFiniteSet(Relays') /\ Cardinality(Relays') = Cardinality(Relays) + 1
    BY <2>2, <2>3, FS_AddElement
  <2>5. active' = Cardinality(Relays')
    BY <1>2, <2>3, <2>4
  <2> QED
    BY <1>2, <2>1, <2>4, <2>5 DEF SocketsInv, Counted
<1>7. BusyExplained'
  <2> SUFFICES ASSUME NEW d \in Ids, devices[d] # None, devices[d].busy
               PROVE  LET s == devices[d].conn
                      IN  \/ \E j \in Conns : pc'[j] = "found" /\ peer'[j] = s
                          \/ channel'[s] # None
                          \/ pc'[s] \in Relaying \cup {"leaving"}
    BY <1>2 DEF BusyExplained
  <2>1. devices[d].conn \in Conns
    BY EntryFacts DEF SocketsInv
  <2>2. \/ \E j \in Conns : pc[j] = "found" /\ peer[j] = devices[d].conn
        \/ channel[devices[d].conn] # None
        \/ pc[devices[d].conn] \in Relaying \cup {"leaving"}
    BY DEF SocketsInv, BusyExplained
  <2>3. CASE devices[d].conn = t
    BY <1>3, <2>3 DEF Relaying
  <2>4. CASE devices[d].conn # t
    BY <1>2, <1>3, <2>1, <2>2, <2>4
  <2> QED
    BY <2>3, <2>4
<1> QED
  BY <1>5, <1>6, <1>7

LEMMA RelayEndStep ==
    ASSUME SocketsInv, NEW t \in Conns, RelayEnds(t)
    PROVE  SocketPlaces' /\ Counted' /\ BusyExplained'
<1> DEFINE i == peer[t]
           S == {t, i} \cup Queued(t)
<1>1. /\ pc[t] \in Relaying /\ i \in Conns /\ i # t /\ i # None /\ peer[i] = t
      /\ sock[t] = "open" /\ sock[i] = "paired" /\ channel[t] = None
      /\ pc' = [pc EXCEPT ![t] = "leaving"] /\ pc \in [Conns -> PcState]
      /\ channel' = [channel EXCEPT ![t] = None] /\ channel \in [Conns -> Conns \cup {None}]
      /\ Close(S) /\ UNCHANGED << reg, peer, devices, acceptor >> /\ active' = active - 1
  BY Matched, ConstantsAssumption DEF RelayEnds, Goto, SocketsInv, IInv, TypeOK, SocketPlaces, Owning
<1> HIDE DEF i
<1>2. S = {t, i}
  BY <1>1, ConstantsAssumption DEF Queued
<1>3. \A x \in Conns : sock'[x] = IF x = t \/ x = i THEN "closed" ELSE sock[x]
  BY <1>1, <1>2 DEF Close
<1>4. /\ \A x \in Conns : x # t => pc'[x] = pc[x]
      /\ pc'[t] = "leaving" /\ channel' = channel
  BY <1>1
<1>5. pc[i] \notin Owning \cup {"idle"} /\ pc'[i] = pc[i]
  BY <1>1, <1>4 DEF SocketsInv, SocketPlaces
<1>6. SocketPlaces'
  <2> SUFFICES ASSUME NEW x \in Conns
               PROVE /\ pc'[x] = "idle" <=> sock'[x] = "none"
                     /\ pc'[x] \in Owning <=> sock'[x] = "open"
                     /\ sock'[x] = "offered" => peer[x] # None /\ channel[peer[x]] = x
                     /\ sock'[x] = "paired" =>
                          peer[x] # None /\ pc'[peer[x]] \in Relaying /\ ~Listens(x)
                     /\ channel[x] # None => sock'[channel[x]] = "offered" /\ ReceiverAlive(x)'
                     /\ pc'[x] \in Relaying => sock'[peer[x]] = "paired" /\ channel[x] = None
    BY <1>1, <1>4 DEF SocketPlaces, Listens
  <2>1. /\ pc'[x] = "idle" <=> sock'[x] = "none"
        /\ pc'[x] \in Owning <=> sock'[x] = "open"
    <3>1. CASE x = t
      BY <1>3, <1>4, <3>1 DEF Owning, InLoop, Connecting, Relaying
    <3>2. CASE x = i
      BY <1>3, <1>5, <3>2
    <3>3. CASE x # t /\ x # i
      BY <1>3, <1>4, <3>3 DEF SocketsInv, SocketPlaces
    <3> QED
      BY <3>1, <3>2, <3>3
  <2>2. sock'[x] = "offered" => peer[x] # None /\ channel[peer[x]] = x
    BY <1>3 DEF SocketsInv, SocketPlaces
  <2>3. sock'[x] = "paired" => peer[x] # None /\ pc'[peer[x]] \in Relaying /\ ~Listens(x)
    <3> HAVE sock'[x] = "paired"
    <3>1. x # i /\ sock[x] = "paired"
      BY <1>3
    <3>2. peer[x] \in Conns /\ peer[x] # None /\ pc[peer[x]] \in Relaying /\ ~Listens(x)
      BY <3>1, Matched DEF SocketsInv, SocketPlaces
    <3>3. peer[x] # t
      BY <1>1, <3>1, <3>2, Matched
    <3> QED
      BY <1>4, <3>2, <3>3
  <2>4. channel[x] # None => sock'[channel[x]] = "offered" /\ ReceiverAlive(x)'
    <3> HAVE channel[x] # None
    <3>1. x # t /\ channel[x] \in Conns /\ sock[channel[x]] = "offered" /\ ReceiverAlive(x)
      BY <1>1, Matched DEF SocketsInv, SocketPlaces
    <3>2. channel[x] # t /\ channel[x] # i
      BY <1>1, <3>1
    <3> QED
      BY <1>3, <1>4, <3>1, <3>2 DEF ReceiverAlive
  <2>5. pc'[x] \in Relaying => sock'[peer[x]] = "paired" /\ channel[x] = None
    <3> HAVE pc'[x] \in Relaying
    <3>1. x # t
      BY <1>4 DEF Relaying
    <3>2. /\ pc[x] \in Relaying /\ peer[x] \in Conns /\ sock[peer[x]] = "paired"
          /\ channel[x] = None /\ peer[peer[x]] = x
      BY <1>4, <3>1, Matched DEF SocketsInv, SocketPlaces
    <3>3. peer[x] # t /\ peer[x] # i
      BY <1>1, <3>1, <3>2
    <3> QED
      BY <1>3, <3>2, <3>3
  <2> QED
    BY <2>1, <2>2, <2>3, <2>4, <2>5
<1>7. Counted'
  <2>1. S \in SUBSET HoldsGuard
    BY <1>1, <1>2 DEF HoldsGuard
  <2>2. Relays' = Relays \ {t} /\ t \in Relays
    BY <1>1, <1>4 DEF Relays, Relaying
  <2>3. IsFiniteSet(Relays) /\ active = Cardinality(Relays)
    BY DEF SocketsInv, Counted
  <2>4. IsFiniteSet(Relays') /\ Cardinality(Relays') = Cardinality(Relays) - 1
    BY <2>2, <2>3, FS_RemoveElement
  <2>5. active' = Cardinality(Relays')
    BY <1>1, <2>3, <2>4
  <2> DEFINE more == IF acceptor = "refusing" THEN 1 ELSE 0
  <2>6. connections = Cardinality(HoldsGuard) + more /\ more \in Int /\ connections \in Int
    BY DEF SocketsInv, Counted, IInv, TypeOK
  <2>7. more' = more
    BY <1>1
  <2> HIDE DEF more, S
  <2>8. connections' = Cardinality(HoldsGuard') + more
    BY <1>1, <2>1, <2>6, ClosedOnce
  <2>9. connections' = Cardinality(HoldsGuard') + (IF acceptor' = "refusing" THEN 1 ELSE 0)
    BY <2>7, <2>8 DEF more
  <2> QED
    BY <1>1, <2>1, <2>4, <2>5, <2>9, ClosedOnce DEF Counted
<1>8. BusyExplained'
  <2>1. SameOrGone
    BY <1>1 DEF SameOrGone
  <2>2. \A x \in Conns : pc[x] = "found" => pc'[x] = "found"
    BY <1>1, <1>4 DEF Relaying
  <2>3. \A x \in Conns : pc[x] \in Relaying \cup {"leaving"} => pc'[x] \in Relaying \cup {"leaving"}
    BY <1>4
  <2> QED
    BY <1>1, <1>4, <2>1, <2>2, <2>3, BusyStays
<1> QED
  BY <1>6, <1>7, <1>8

LEMMA ClockSteps ==
    ASSUME SocketsInv, Refuse \/ Tick \/ UNCHANGED vars
    PROVE  SocketPlaces' /\ Counted' /\ BusyExplained'
<1>1. UNCHANGED << pc, sock, reg, peer, channel, active >>
  BY DEF Refuse, Tick, vars
<1>2. SocketPlaces'
  BY <1>1 DEF SocketsInv, SocketPlaces, ReceiverAlive, Listens
<1>3. HoldsGuard' = HoldsGuard /\ Relays' = Relays
  BY <1>1 DEF HoldsGuard, Relays
<1>4. Counted'
  <2>1. CASE Tick \/ UNCHANGED vars
    BY <1>1, <1>3, <2>1, NothingCounts DEF Tick, vars
  <2>2. CASE Refuse
    <3>1. /\ acceptor = "refusing" /\ acceptor' = "ready" /\ connections' = connections - 1
          /\ connections = Cardinality(HoldsGuard) + 1 /\ IsFiniteSet(HoldsGuard)
      BY <2>2 DEF Refuse, SocketsInv, Counted
    <3>2. Cardinality(HoldsGuard) \in Nat
      BY <3>1, FS_CardinalityType
    <3>3. connections' = Cardinality(HoldsGuard) + 0
      BY <3>1, <3>2
    <3> QED
      BY <1>1, <1>3, <3>1, <3>3 DEF SocketsInv, Counted
  <2> QED
    BY <2>1, <2>2
<1>5. SameOrGone
  BY DEF Refuse, Tick, vars, SocketsInv, IInv, TypeOK, DeviceEntry, SameOrGone
<1>6. BusyExplained'
  BY <1>1, <1>5, BusyStays
<1> QED
  BY <1>2, <1>4, <1>6

LEMMA SocketsStep == SocketsInv /\ [Next]_vars => SocketsInv'
<1> SUFFICES ASSUME SocketsInv, [Next]_vars PROVE SocketsInv'
  OBVIOUS
<1>1. IInv'
  BY StepIInv DEF SocketsInv
<1>2. SocketPlaces' /\ Counted' /\ BusyExplained'
  BY StaySteps, DropSteps, AcceptStep, RegisterStep, FindStep, OfferStep, ReceiveStep, RelayEndStep,
     ClockSteps DEF Next, Thread
<1> QED
  BY <1>1, <1>2 DEF SocketsInv

\* Wherever a socket and its guard travel (PeerOffer, ConnectionGuard) they have one owner; the
\* connections and the sessions are counted until they are dropped, never above the limit; and a
\* busy listener is busy for somebody: for any number of connections.
THEOREM EverySocketAccounted == Spec => []SocketsAccounted
<1>1. SocketsInv => SocketsAccounted
  <2> SUFFICES ASSUME SocketsInv PROVE SoleOwner /\ Accounting /\ BusyExplained
    BY DEF SocketsAccounted
  <2>1. ASSUME NEW i \in Conns, sock[i] = "offered"
        PROVE  \E t \in Conns : channel[t] = i /\ ReceiverAlive(t)
    <3>1. peer[i] \in Conns /\ channel[peer[i]] = i /\ i # None
      BY <2>1, Matched, ConstantsAssumption DEF SocketsInv, SocketPlaces
    <3> QED
      BY <3>1 DEF SocketsInv, SocketPlaces
  <2>2. ASSUME NEW i \in Conns, sock[i] = "paired"
        PROVE  \E t \in Conns : pc[t] \in Relaying /\ peer[t] = i
    <3>1. peer[i] \in Conns /\ peer[i] # None /\ pc[peer[i]] \in Relaying
      BY <2>2, Matched DEF SocketsInv, SocketPlaces
    <3>2. peer[peer[i]] \in Conns /\ peer[peer[peer[i]]] = peer[i]
      BY <3>1, Matched
    <3>3. peer[peer[i]] = i
      BY <3>1, <3>2, Matched
    <3> QED
      BY <3>1, <3>3
  <2>3. \A t \in Conns : /\ channel[t] # None => sock[channel[t]] = "offered"
                         /\ pc[t] \in Relaying => sock[peer[t]] = "paired" /\ sock[t] = "open"
    BY DEF SocketsInv, SocketPlaces, Owning
  <2>4. \A s, t \in Conns : channel[s] = channel[t] /\ channel[s] # None => s = t
    BY Matched
  <2>5. SoleOwner
    BY <2>1, <2>2, <2>3, <2>4 DEF SoleOwner
  <2>6. Accounting
    BY DEF SocketsInv, Counted, Relays, Accounting
  <2> QED
    BY <2>5, <2>6 DEF SocketsInv
<1> QED
  BY <1>1, SocketsInit, SocketsStep, PTL DEF Spec

-----------------------------------------------------------------------------
(* The server implements Matchmaking *)

LEMMA ListedConns == Listed \subseteq Conns
BY DEF Listed

\* A step that registers nobody and matches nobody only takes entries off the list
LEMMA QuietUnlists ==
    ASSUME TypeOK, UNCHANGED reg, SameOrGone,
           \A c \in Conns : ~Listens(c) => peer'[c] = peer[c]
    PROVE  Matchmaker!Unlist(Listed \ Listed')
<1>1. Spent' = Spent /\ Given' = Given
  BY DEF Spent, Given, Listens
<1>2. Listed' \subseteq Listed
  BY DEF Listed, EntryOf, SameOrGone
<1> QED
  BY <1>1, <1>2 DEF Matchmaker!Unlist

LEMMA RegisterLists ==
    ASSUME IInv, NEW c \in Conns, NEW r \in Claims[c], Register(c, r)
    PROVE  Matchmaker!Next
<1>1. /\ r \in Registration /\ r # None /\ r.id \in Ids /\ ~Listens(c) /\ peer[c] = None
      /\ reg' = [reg EXCEPT ![c] = r] /\ peer' = peer
      /\ IF r.listen THEN devices' = Inserted(c, r) ELSE devices' = devices
  <2>1. r \in Registration /\ r # None
    BY ConstantsAssumption
  <2> QED
    BY <2>1 DEF IInv, ThreadState, Unmatched, Before, Register, Registration, Listens
<1>2. reg'[c] = r /\ \A x \in Conns : x # c => Listens(x)' = Listens(x)
  BY <1>1 DEF IInv, TypeOK, Listens
<1>3. Given' = Given
  BY <1>1, <1>2 DEF Given, Listens
<1>4. CASE r.listen
  <2>1. Listens(c)'
    BY <1>1, <1>2, <1>4 DEF Listens
  <2>2. Spent' = Spent \cup {c} /\ c \notin Spent
    BY <1>1, <1>2, <2>1 DEF Spent
  <2>3. /\ \A d \in Ids : d # r.id => devices'[d] = devices[d]
        /\ devices'[r.id] = [conn |-> c, key |-> r.key, busy |-> FALSE, age |-> 0]
    BY <1>1, <1>4 DEF Inserted, IInv, TypeOK
  <2>4. /\ devices'[r.id] # None /\ devices'[r.id].conn = c /\ ~devices'[r.id].busy
    <3>1. devices'[r.id].conn = c /\ ~devices'[r.id].busy
      BY <2>3
    <3>2. devices'[r.id] \in DeviceEntry
      BY <1>1, <2>3, ConstantsAssumption DEF DeviceEntry, Registration
    <3> QED
      BY <3>1, <3>2, ConstantsAssumption
  <2>5. c \in Listed'
    BY <1>1, <2>4 DEF Listed, EntryOf
  <2>6. Listed' \subseteq Listed \cup {c}
    BY <2>3, <2>4 DEF Listed, EntryOf
  <2>7. Matchmaker!List(c, Listed \ Listed')
    BY <1>3, <2>2, <2>5, <2>6 DEF Matchmaker!List
  <2>8. Listed \ Listed' \in SUBSET Conns
    BY ListedConns
  <2> QED
    BY <2>7, <2>8 DEF Matchmaker!Next
<1>5. CASE ~r.listen
  <2>1. ~Listens(c)'
    BY <1>1, <1>2, <1>5 DEF Listens
  <2>2. Spent' = Spent
    BY <1>1, <1>2, <2>1 DEF Spent
  <2>3. Listed' = Listed
    BY <1>1, <1>5 DEF Listed, EntryOf
  <2>4. Matchmaker!Unlist({})
    BY <1>3, <2>2, <2>3 DEF Matchmaker!Unlist
  <2> QED
    BY <2>4 DEF Matchmaker!Next
<1> QED
  BY <1>4, <1>5

LEMMA FindTargetMatches ==
    ASSUME IInv, NEW c \in Conns, FindTarget(c)
    PROVE  Matchmaker!Next
<1> DEFINE id == want[c].id
           t  == devices[id].conn
<1>1. /\ ~Listens(c) /\ peer[c] = None /\ id \in Ids
      /\ devices[id] # None /\ ~devices[id].busy
      /\ peer' = [peer EXCEPT ![c] = t]
      /\ devices' = [devices EXCEPT ![id].busy = TRUE]
      /\ reg' = reg
  BY DEF FindTarget, Available, IInv, TypeOK, ThreadState, Unmatched, Connecting, Request
<1>2. t \in Conns /\ \A d \in Ids : EntryOf(d, t) => d = id
  <2>1. t \in Conns /\ reg[t].id = id
    BY <1>1, EntryFacts
  <2>2. ASSUME NEW d \in Ids, EntryOf(d, t) PROVE reg[t].id = d
    BY <2>2, EntryFacts DEF EntryOf
  <2> QED
    BY <2>1, <2>2
<1>3. /\ \A d \in Ids : d # id => devices'[d] = devices[d]
      /\ devices'[id].conn = t /\ devices'[id].busy
  BY <1>1, EntryFacts DEF IInv, TypeOK, DeviceEntry
<1>4. t \in Listed /\ Given[c] = None
  BY <1>1, <1>2 DEF Listed, EntryOf, Given
<1>5. Listed' = Listed \ {t}
  BY <1>1, <1>2, <1>3 DEF Listed, EntryOf
<1>6. Spent' = Spent /\ Given' = [Given EXCEPT ![c] = t]
  BY <1>1 DEF Spent, Given, Listens, IInv, TypeOK
<1>7. Matchmaker!Match(c, t)
  BY <1>4, <1>5, <1>6 DEF Matchmaker!Match
<1> QED
  BY <1>2, <1>7 DEF Matchmaker!Next

LEMMA StepRefines == IInv /\ [Next]_vars => [Matchmaker!Next]_(Matchmaker!vars)
<1> SUFFICES ASSUME IInv, [Next]_vars PROVE Matchmaker!Next
  OBVIOUS
<1>1. ASSUME Matchmaker!Unlist(Listed \ Listed') PROVE Matchmaker!Next
  BY <1>1, ListedConns DEF Matchmaker!Next
<1>2. ASSUME NEW c \in Conns,
             \/ Accept(c) \/ ServeHttp(c) \/ TurnAway(c) \/ Challenge(c)
             \/ SendRegistered(c) \/ SendRegisteredFails(c) \/ AbandonRegistration(c)
             \/ CheckPresence(c) \/ EndLoop(c) \/ NoOffer(c) \/ ReadNothing(c) \/ Heartbeat(c)
             \/ SendOffer(c) \/ TargetUnavailable(c)
             \/ SendOfferFails(c) \/ SendPeerReady(c) \/ RelayEnds(c) \/ RemoveDevice(c)
      PROVE  Matchmaker!Next
  <2> USE <1>2 DEF Accept, ServeHttp, TurnAway, Challenge, SendRegistered, SendRegisteredFails,
                   AbandonRegistration, CheckPresence, EndLoop, NoOffer, ReadNothing, Heartbeat,
                   SendOffer, TargetUnavailable, SendOfferFails, SendPeerReady, RelayEnds,
                   RemoveDevice
  <2>1. UNCHANGED << reg, peer >> /\ devices' \in {devices, Expired(devices), Removed(c), Touched(c)}
    OBVIOUS
  <2> QED
    BY <1>1, <2>1, DirectorySameOrGone, QuietUnlists DEF IInv
<1>3. ASSUME NEW c \in Conns, NEW w \in Request, Connect(c, w) PROVE Matchmaker!Next
  <2>1. UNCHANGED << reg, peer >> /\ devices' = Expired(Touched(c))
    BY <1>3 DEF Connect
  <2> QED
    BY <1>1, <2>1, DirectorySameOrGone, QuietUnlists DEF IInv
<1>4. ASSUME NEW c \in Conns, ReceiveOffer(c) PROVE Matchmaker!Next
  <2>1. /\ UNCHANGED << reg, devices >> /\ Listens(c)
        /\ \A x \in Conns : x # c => peer'[x] = peer[x]
    BY <1>4, ConstantsAssumption DEF ReceiveOffer, Queued, IInv, MatchState, TypeOK
  <2>2. SameOrGone
    BY <2>1, DirectorySameOrGone DEF IInv
  <2> QED
    BY <1>1, <2>1, <2>2, QuietUnlists DEF IInv
<1>5. ASSUME Refuse \/ Tick \/ UNCHANGED vars PROVE Matchmaker!Next
  <2>1. UNCHANGED << reg, peer >>
    BY <1>5 DEF Refuse, Tick, vars
  <2>2. SameOrGone
    BY <1>5 DEF Refuse, Tick, vars, IInv, TypeOK, DeviceEntry, SameOrGone
  <2> QED
    BY <1>1, <2>1, <2>2, QuietUnlists DEF IInv
<1> QED
  BY <1>2, <1>3, <1>4, <1>5, RegisterLists, FindTargetMatches DEF Next, Thread

\* Threads, directory and channels together never give a registration away twice
\* nor list it again: the server implements the abstract match-maker.
THEOREM Implementation == Spec => ImplementsMatchmaking
<1>1. Init => Matchmaker!Init
  BY DEF Init, Matchmaker!Init, Listed, Spent, Given, EntryOf, Listens
<1> QED
  BY <1>1, StepRefines, InductiveInvariant, PTL
     DEF Spec, ImplementsMatchmaking, Matchmaker!Spec
-----------------------------------------------------------------------------
(* What the abstract match-maker guarantees, and the server with it *)

MatchInv == Matchmaker!TypeOK /\ Matchmaker!GivenIsSpent /\ Matchmaker!NeverGivenTwice

LEMMA MatchmakerStep == MatchInv /\ [Matchmaker!Next]_(Matchmaker!vars) => MatchInv'
<1> SUFFICES ASSUME MatchInv, [Matchmaker!Next]_(Matchmaker!vars) PROVE MatchInv'
  OBVIOUS
<1> USE DEF MatchInv, Matchmaker!TypeOK, Matchmaker!GivenIsSpent, Matchmaker!NeverGivenTwice
<1>1. ASSUME NEW t \in Conns, NEW gone \in SUBSET Conns, Matchmaker!List(t, gone) PROVE MatchInv'
  BY <1>1 DEF Matchmaker!List
<1>2. ASSUME NEW i \in Conns, NEW t \in Conns, Matchmaker!Match(i, t) PROVE MatchInv'
  BY <1>2 DEF Matchmaker!Match
<1>3. ASSUME NEW gone \in SUBSET Conns, Matchmaker!Unlist(gone) PROVE MatchInv'
  BY <1>3 DEF Matchmaker!Unlist
<1>4. CASE UNCHANGED Matchmaker!vars
  BY <1>4 DEF Matchmaker!vars
<1> QED
  BY <1>1, <1>2, <1>3, <1>4 DEF Matchmaker!Next

\* Whoever keeps the promise of Matchmaking gives no registration to two initiators; the
\* server keeps it (find_target).
THEOREM Exclusive ==
    /\ Matchmaker!Spec => []Matchmaker!NeverGivenTwice
    /\ Spec => []Matchmaker!NeverGivenTwice
<1>1. Matchmaker!Init => MatchInv
  BY DEF Matchmaker!Init, MatchInv, Matchmaker!TypeOK, Matchmaker!GivenIsSpent,
         Matchmaker!NeverGivenTwice
<1>2. MatchInv => Matchmaker!NeverGivenTwice
  BY DEF MatchInv
<1>3. Matchmaker!Spec => []Matchmaker!NeverGivenTwice
  BY <1>1, <1>2, MatchmakerStep, PTL DEF Matchmaker!Spec
<1> QED
  BY <1>3, Implementation, PTL DEF ImplementsMatchmaking
=============================================================================
