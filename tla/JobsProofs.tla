----------------------------- MODULE JobsProofs ------------------------------
(***************************************************************************)
(* Proofs about Jobs, for any tasks, kinds, connections and sizes.          *)
(*                                                                          *)
(* The listener, the viewer and the window have an invariant each           *)
(* (ListenerInv, ViewerInv, AppInv), lemmas that their steps keep it, and   *)
(* one that says what it means for their properties.  The theorems about    *)
(* all three are at the end.                                                *)
(***************************************************************************)
EXTENDS Jobs, FiniteSetTheorems, TLAPS

-----------------------------------------------------------------------------
(* The listener *)

Waiting == {"start", "accept", "backoff"}

\* A listener for anybody does not answer by itself, or it is over at once
Attended == listener \notin {"start", "finished"} => ~(auto /\ any)

\* The connections so far, those that were verified, and the one that is about to be served
Numbered ==
    /\ verified \subseteq 1 .. count
    /\ current # None => current \in 1 .. count
    /\ \A c \in verified : any \/ pinned[c]
    /\ listener \in {"request", "prompt", "serve"} => current \in verified
    /\ listener \in {"register", "handshake", "refuse", "request", "prompt"}
         => current \notin served

\* Whoever waits has closed what was before, and the handle is on the socket that is refused
Closed ==
    /\ listener \in Waiting => \A c \in Listener!Connections : sockets[c] # "open"
    /\ listener \in Waiting \cup {"register"} => handle = None
    /\ listener \in {"handshake", "refuse"} /\ sockets[current] = "open" => handle = current

ListenerInv ==
    Listener!TypeOK /\ Listener!OwnAnswer /\ Listener!RefusedIsClosed /\ Listener!KeepsListening
      /\ Attended /\ Numbered /\ Closed
-----------------------------------------------------------------------------
LEMMA ListenerInit == Listener!ConstantsAssumption /\ Listener!Init => ListenerInv
<1> SUFFICES ASSUME Listener!ConstantsAssumption, Listener!Init PROVE ListenerInv
  OBVIOUS
<1>1. Listener!TypeOK
  <2>1. 0 \in 0 .. MaxConnections /\ 0 \in 0 .. MaxRetries
    BY DEF Listener!ConstantsAssumption
  <2>2. sockets \in [Listener!Connections -> {"none", "open", "shut"}]
    BY DEF Listener!Init
  <2>3. prompt \in [Listener!Connections -> {"none", "asked", "yes", "no"}]
    BY DEF Listener!Init
  <2> QED
    BY <2>1, <2>2, <2>3 DEF Listener!Init, Listener!TypeOK
<1> QED
  BY <1>1 DEF Listener!ConstantsAssumption, Listener!Connections, Listener!Init, ListenerInv,
     Listener!OwnAnswer, Listener!RefusedIsClosed, Listener!KeepsListening, Attended, Numbered,
     Closed, Waiting

\* A step that leaves the connections alone, and the worker where it is.
LEMMA ListenerStays ==
    ASSUME Listener!ConstantsAssumption, ListenerInv, Listener!Stop \/ Listener!Abort
             \/ Listener!Answer \/ UNCHANGED Listener!vars
    PROVE  ListenerInv'
<1> USE DEF Listener!ConstantsAssumption, Listener!Connections
<1>1. CASE Listener!Stop
  BY <1>1 DEF Listener!Stop, ListenerInv, Listener!TypeOK, Listener!OwnAnswer,
     Listener!RefusedIsClosed, Listener!KeepsListening, Attended, Numbered, Closed, Waiting,
     Listener!settings
<1>2. CASE Listener!Abort
  <2>t. Listener!TypeOK'
    <3>1. /\ route' \in {"direct", "relay", "render"} /\ auto' \in BOOLEAN /\ any' \in BOOLEAN
          /\ stopper' \in {"idle", "cancel", "close"}
          /\ aborted' \in BOOLEAN /\ stopped' \in BOOLEAN /\ broken' \in BOOLEAN
      BY <1>2 DEF Listener!Abort, Listener!Shut, ListenerInv, Listener!TypeOK, Listener!settings
    <3>2. /\ listener' \in {"start", "accept", "backoff", "register", "handshake", "refuse",
             "request",
                         "prompt", "serve", "finished"}
          /\ current' \in Listener!Connections \cup {None}
               /\ handle' \in Listener!Connections \cup {None}
      BY <1>2 DEF Listener!Abort, Listener!Shut, ListenerInv, Listener!TypeOK, Listener!settings
    <3>3. /\ listener' \in {"register", "handshake", "refuse", "request", "prompt", "serve"}
               => current' # None
          /\ handle' # None => handle' = current'
      BY <1>2 DEF Listener!Abort, Listener!Shut, ListenerInv, Listener!TypeOK, Listener!settings
    <3>4. count' \in 0 .. MaxConnections /\ retries' \in 0 .. MaxRetries
      BY <1>2 DEF Listener!Abort, Listener!Shut, ListenerInv, Listener!TypeOK, Listener!settings
    <3>5. pinned' \in [Listener!Connections -> BOOLEAN] /\ served' \subseteq verified'
      BY <1>2 DEF Listener!Abort, Listener!Shut, ListenerInv, Listener!TypeOK, Listener!settings
    <3>6. sockets' \in [Listener!Connections -> {"none", "open", "shut"}]
      BY <1>2 DEF Listener!Abort, Listener!Shut, ListenerInv, Listener!TypeOK, Listener!settings
    <3>7. prompt' \in [Listener!Connections -> {"none", "asked", "yes", "no"}]
      BY <1>2 DEF Listener!Abort, Listener!Shut, ListenerInv, Listener!TypeOK, Listener!settings
    <3> QED
      BY <3>1, <3>2, <3>3, <3>4, <3>5, <3>6, <3>7 DEF Listener!TypeOK
  <2>1. Listener!OwnAnswer'
    BY <1>2 DEF Listener!Abort, Listener!Shut, ListenerInv, Listener!TypeOK, Listener!OwnAnswer,
       Attended, Numbered, Listener!settings
  <2>2. Listener!RefusedIsClosed'
    BY <1>2 DEF Listener!Abort, Listener!Shut, ListenerInv, Listener!TypeOK,
       Listener!RefusedIsClosed, Closed, Waiting, Listener!settings
  <2>3. Listener!KeepsListening'
    BY <1>2 DEF Listener!Abort, Listener!Shut, ListenerInv, Listener!TypeOK,
       Listener!KeepsListening, Listener!settings
  <2>4. Attended'
    BY <1>2 DEF Listener!Abort, Listener!Shut, ListenerInv, Listener!TypeOK, Attended,
       Listener!settings
  <2>5. Numbered'
    BY <1>2 DEF Listener!Abort, Listener!Shut, ListenerInv, Listener!TypeOK, Numbered,
       Listener!settings
  <2>6. Closed'
    BY <1>2 DEF Listener!Abort, Listener!Shut, ListenerInv, Listener!TypeOK, Closed, Waiting,
       Listener!RefusedIsClosed, Listener!settings
  <2> QED
    BY <2>t, <2>1, <2>2, <2>3, <2>4, <2>5, <2>6 DEF ListenerInv
<1>3. CASE Listener!Answer
  BY <1>3 DEF Listener!Answer, ListenerInv, Listener!TypeOK, Listener!OwnAnswer,
     Listener!RefusedIsClosed, Listener!KeepsListening, Attended, Numbered, Closed, Waiting,
     Listener!settings
<1>4. CASE UNCHANGED Listener!vars
  BY <1>4 DEF Listener!vars, ListenerInv, Listener!TypeOK, Listener!OwnAnswer,
     Listener!RefusedIsClosed, Listener!KeepsListening, Attended, Numbered, Closed, Waiting,
     Listener!settings
<1> QED
  BY <1>1, <1>2, <1>3, <1>4

LEMMA ListenerWaits ==
    ASSUME Listener!ConstantsAssumption, ListenerInv, Listener!Start \/ Listener!StopWaiting
             \/ Listener!AcceptFails \/ Listener!Retry \/ Listener!Arrive
    PROVE  ListenerInv'
<1> USE DEF Listener!ConstantsAssumption, Listener!Connections
<1>1. CASE Listener!Start
  <2>0. /\ listener = "start" /\ UNCHANGED << aborted, stopped, stopper >>
        /\ UNCHANGED << route, auto, any, current, count, retries, pinned, sockets, handle, prompt,
                        verified, served >>
        /\ \/ auto /\ any /\ listener' = "finished" /\ UNCHANGED broken
           \/ ~(auto /\ any) /\ listener' = "accept" /\ UNCHANGED broken
           \/ ~(auto /\ any) /\ listener' = "finished" /\ broken' = TRUE
    BY <1>1 DEF Listener!Start, Listener!WorkerOnly, Listener!settings
  <2>1. Listener!TypeOK'
    <3>1. /\ pinned' \in [Listener!Connections -> BOOLEAN] /\ served' \subseteq verified'
          /\ sockets' \in [Listener!Connections -> {"none", "open", "shut"}]
          /\ prompt' \in [Listener!Connections -> {"none", "asked", "yes", "no"}]
      BY <2>0 DEF ListenerInv, Listener!TypeOK
    <3>2. /\ listener' \in {"accept", "finished"} /\ broken' \in BOOLEAN
          /\ handle' = handle /\ current' = current
          /\ handle \in Listener!Connections \cup {None} /\ (handle # None => handle = current)
      BY <2>0 DEF ListenerInv, Listener!TypeOK
    <3>3. /\ route' \in {"direct", "relay", "render"} /\ auto' \in BOOLEAN /\ any' \in BOOLEAN
          /\ current' \in Listener!Connections \cup {None}
          /\ count' \in 0 .. MaxConnections /\ retries' \in 0 .. MaxRetries
          /\ aborted' \in BOOLEAN /\ stopped' \in BOOLEAN
          /\ stopper' \in {"idle", "cancel", "close"}
      BY <2>0 DEF ListenerInv, Listener!TypeOK
    <3> QED
      BY <3>1, <3>2, <3>3 DEF Listener!TypeOK
  <2>2. Listener!OwnAnswer' /\ Listener!RefusedIsClosed' /\ Listener!KeepsListening'
    BY <2>0 DEF ListenerInv, Listener!OwnAnswer, Listener!RefusedIsClosed,
       Listener!KeepsListening, Closed, Waiting
  <2>3. Attended' /\ Numbered' /\ Closed'
    BY <2>0 DEF ListenerInv, Attended, Numbered, Closed, Waiting
  <2> QED
    BY <2>1, <2>2, <2>3 DEF ListenerInv
<1>2. CASE Listener!StopWaiting
  BY <1>2 DEF Listener!StopWaiting, Listener!WorkerOnly, ListenerInv, Listener!TypeOK,
     Listener!OwnAnswer, Listener!RefusedIsClosed, Listener!KeepsListening, Attended, Numbered,
     Closed, Waiting, Listener!settings
<1>3. CASE Listener!AcceptFails
  <2>t. Listener!TypeOK'
    <3>1. /\ route' \in {"direct", "relay", "render"} /\ auto' \in BOOLEAN /\ any' \in BOOLEAN
          /\ stopper' \in {"idle", "cancel", "close"}
          /\ aborted' \in BOOLEAN /\ stopped' \in BOOLEAN /\ broken' \in BOOLEAN
      BY <1>3 DEF Listener!AcceptFails, ListenerInv, Listener!TypeOK, Listener!settings
    <3>2. /\ listener' \in {"start", "accept", "backoff", "register", "handshake", "refuse",
             "request",
                         "prompt", "serve", "finished"}
          /\ current' \in Listener!Connections \cup {None}
               /\ handle' \in Listener!Connections \cup {None}
      BY <1>3 DEF Listener!AcceptFails, ListenerInv, Listener!TypeOK, Listener!settings
    <3>3. /\ listener' \in {"register", "handshake", "refuse", "request", "prompt", "serve"}
               => current' # None
          /\ handle' # None => handle' = current'
      BY <1>3 DEF Listener!AcceptFails, ListenerInv, Listener!TypeOK, Listener!settings
    <3>4. count' \in 0 .. MaxConnections /\ retries' \in 0 .. MaxRetries
      BY <1>3 DEF Listener!AcceptFails, ListenerInv, Listener!TypeOK, Listener!settings
    <3>5. pinned' \in [Listener!Connections -> BOOLEAN] /\ served' \subseteq verified'
      BY <1>3 DEF Listener!AcceptFails, ListenerInv, Listener!TypeOK, Listener!settings
    <3>6. sockets' \in [Listener!Connections -> {"none", "open", "shut"}]
      BY <1>3 DEF Listener!AcceptFails, ListenerInv, Listener!TypeOK, Listener!settings
    <3>7. prompt' \in [Listener!Connections -> {"none", "asked", "yes", "no"}]
      BY <1>3 DEF Listener!AcceptFails, ListenerInv, Listener!TypeOK, Listener!settings
    <3> QED
      BY <3>1, <3>2, <3>3, <3>4, <3>5, <3>6, <3>7 DEF Listener!TypeOK
  <2>1. Listener!OwnAnswer'
    BY <1>3 DEF Listener!AcceptFails, ListenerInv, Listener!TypeOK, Listener!OwnAnswer, Attended,
       Numbered, Listener!settings
  <2>2. Listener!RefusedIsClosed'
    BY <1>3 DEF Listener!AcceptFails, ListenerInv, Listener!TypeOK, Listener!RefusedIsClosed,
       Closed, Waiting, Listener!settings
  <2>3. Listener!KeepsListening'
    BY <1>3 DEF Listener!AcceptFails, ListenerInv, Listener!TypeOK, Listener!KeepsListening,
       Listener!settings
  <2>4. Attended'
    BY <1>3 DEF Listener!AcceptFails, ListenerInv, Listener!TypeOK, Attended, Listener!settings
  <2>5. Numbered'
    BY <1>3 DEF Listener!AcceptFails, ListenerInv, Listener!TypeOK, Numbered, Listener!settings
  <2>6. Closed'
    BY <1>3 DEF Listener!AcceptFails, ListenerInv, Listener!TypeOK, Closed, Waiting,
       Listener!RefusedIsClosed, Listener!settings
  <2> QED
    BY <2>t, <2>1, <2>2, <2>3, <2>4, <2>5, <2>6 DEF ListenerInv
<1>4. CASE Listener!Retry
  BY <1>4 DEF Listener!Retry, Listener!WorkerOnly, ListenerInv, Listener!TypeOK, Listener!OwnAnswer,
     Listener!RefusedIsClosed, Listener!KeepsListening, Attended, Numbered, Closed, Waiting,
     Listener!settings
<1>5. CASE Listener!Arrive
  BY <1>5 DEF Listener!Arrive, ListenerInv, Listener!TypeOK, Listener!OwnAnswer,
     Listener!RefusedIsClosed, Listener!KeepsListening, Attended, Numbered, Closed, Waiting,
     Listener!settings
<1> QED
  BY <1>1, <1>2, <1>3, <1>4, <1>5

LEMMA ListenerServes ==
    ASSUME Listener!ConstantsAssumption, ListenerInv,
           Listener!Register \/ Listener!Verify \/ Listener!Refuse \/ Listener!Refused
             \/ Listener!Ask \/ Listener!Accepted \/ Listener!Rejected \/ Listener!SessionEnds
    PROVE  ListenerInv'
<1> USE DEF Listener!ConstantsAssumption, Listener!Connections
<1>1. CASE Listener!Register
  BY <1>1 DEF Listener!Register, Listener!Shut, ListenerInv, Listener!TypeOK, Listener!OwnAnswer,
     Listener!RefusedIsClosed, Listener!KeepsListening, Attended, Numbered, Closed, Waiting,
     Listener!settings
<1>2. CASE Listener!Verify
  BY <1>2 DEF Listener!Verify, ListenerInv, Listener!TypeOK, Listener!OwnAnswer,
     Listener!RefusedIsClosed, Listener!KeepsListening, Attended, Numbered, Closed, Waiting,
     Listener!settings
<1>3. CASE Listener!Refuse
  BY <1>3 DEF Listener!Refuse, Listener!WorkerOnly, ListenerInv, Listener!TypeOK,
     Listener!OwnAnswer, Listener!RefusedIsClosed, Listener!KeepsListening, Attended, Numbered,
     Closed, Waiting, Listener!settings
<1>4. CASE Listener!Refused
  BY <1>4 DEF Listener!Refused, Listener!Shut, ListenerInv, Listener!TypeOK, Listener!OwnAnswer,
     Listener!RefusedIsClosed, Listener!KeepsListening, Attended, Numbered, Closed, Waiting,
     Listener!settings
<1>5. CASE Listener!Ask
  <2>t. Listener!TypeOK'
    <3>1. /\ route' \in {"direct", "relay", "render"} /\ auto' \in BOOLEAN /\ any' \in BOOLEAN
          /\ stopper' \in {"idle", "cancel", "close"}
          /\ aborted' \in BOOLEAN /\ stopped' \in BOOLEAN /\ broken' \in BOOLEAN
      BY <1>5 DEF Listener!Ask, ListenerInv, Listener!TypeOK, Listener!settings
    <3>2. /\ listener' \in {"start", "accept", "backoff", "register", "handshake", "refuse",
             "request",
                         "prompt", "serve", "finished"}
          /\ current' \in Listener!Connections \cup {None}
               /\ handle' \in Listener!Connections \cup {None}
      BY <1>5 DEF Listener!Ask, ListenerInv, Listener!TypeOK, Listener!settings
    <3>3. /\ listener' \in {"register", "handshake", "refuse", "request", "prompt", "serve"}
               => current' # None
          /\ handle' # None => handle' = current'
      BY <1>5 DEF Listener!Ask, ListenerInv, Listener!TypeOK, Listener!settings
    <3>4. count' \in 0 .. MaxConnections /\ retries' \in 0 .. MaxRetries
      BY <1>5 DEF Listener!Ask, ListenerInv, Listener!TypeOK, Listener!settings
    <3>5. pinned' \in [Listener!Connections -> BOOLEAN] /\ served' \subseteq verified'
      <4>1. current \in verified /\ UNCHANGED << pinned, verified >>
        BY <1>5 DEF Listener!Ask, ListenerInv, Numbered
      <4>2. served' \subseteq served \cup {current}
        BY <1>5 DEF Listener!Ask
      <4> QED
        BY <4>1, <4>2 DEF ListenerInv, Listener!TypeOK
    <3>6. sockets' \in [Listener!Connections -> {"none", "open", "shut"}]
      BY <1>5 DEF Listener!Ask, ListenerInv, Listener!TypeOK, Listener!settings
    <3>7. prompt' \in [Listener!Connections -> {"none", "asked", "yes", "no"}]
      BY <1>5 DEF Listener!Ask, ListenerInv, Listener!TypeOK, Listener!settings
    <3> QED
      BY <3>1, <3>2, <3>3, <3>4, <3>5, <3>6, <3>7 DEF Listener!TypeOK
  <2>1. Listener!OwnAnswer'
    <3>1. current \in Listener!Connections /\ current \in verified /\ current \notin served
      BY <1>5 DEF Listener!Ask, ListenerInv, Listener!TypeOK, Numbered
    <3>2. any \/ pinned[current]
      BY <3>1 DEF ListenerInv, Numbered
    <3>3. CASE auto
      <4>1. ~any /\ served' = served \cup {current} /\ UNCHANGED << auto, any, pinned, prompt >>
        BY <1>5, <3>3 DEF Listener!Ask, ListenerInv, Attended, Listener!settings
      <4> QED
        BY <3>2, <3>3, <4>1 DEF ListenerInv, Listener!OwnAnswer
    <3>4. CASE ~auto
      <4>1. /\ prompt' = [prompt EXCEPT ![current] = "asked"]
            /\ UNCHANGED << auto, any, pinned, served >>
        BY <1>5, <3>4 DEF Listener!Ask, Listener!settings
      <4>2. \A c \in served : prompt'[c] = prompt[c]
        BY <3>1, <4>1 DEF ListenerInv, Listener!TypeOK
      <4> QED
        BY <4>1, <4>2 DEF ListenerInv, Listener!OwnAnswer
    <3> QED
      BY <3>3, <3>4
  <2>2. Listener!RefusedIsClosed'
    BY <1>5 DEF Listener!Ask, ListenerInv, Listener!TypeOK, Listener!RefusedIsClosed, Closed,
       Waiting, Listener!settings
  <2>3. Listener!KeepsListening'
    BY <1>5 DEF Listener!Ask, ListenerInv, Listener!TypeOK, Listener!KeepsListening,
       Listener!settings
  <2>4. Attended'
    BY <1>5 DEF Listener!Ask, ListenerInv, Listener!TypeOK, Attended, Listener!settings
  <2>5. Numbered'
    BY <1>5 DEF Listener!Ask, ListenerInv, Listener!TypeOK, Numbered, Listener!settings
  <2>6. Closed'
    BY <1>5 DEF Listener!Ask, ListenerInv, Listener!TypeOK, Closed, Waiting,
       Listener!RefusedIsClosed, Listener!settings
  <2> QED
    BY <2>t, <2>1, <2>2, <2>3, <2>4, <2>5, <2>6 DEF ListenerInv
<1>6. CASE Listener!Accepted
  BY <1>6 DEF Listener!Accepted, ListenerInv, Listener!TypeOK, Listener!OwnAnswer,
     Listener!RefusedIsClosed, Listener!KeepsListening, Attended, Numbered, Closed, Waiting,
     Listener!settings
<1>7. CASE Listener!Rejected
  BY <1>7 DEF Listener!Rejected, Listener!Shut, ListenerInv, Listener!TypeOK, Listener!OwnAnswer,
     Listener!RefusedIsClosed, Listener!KeepsListening, Attended, Numbered, Closed, Waiting,
     Listener!settings
<1>8. CASE Listener!SessionEnds
  BY <1>8 DEF Listener!SessionEnds, Listener!Shut, ListenerInv, Listener!TypeOK, Listener!OwnAnswer,
     Listener!RefusedIsClosed, Listener!KeepsListening, Attended, Numbered, Closed, Waiting,
     Listener!settings
<1> QED
  BY <1>1, <1>2, <1>3, <1>4, <1>5, <1>6, <1>7, <1>8

LEMMA ListenerStep ==
    Listener!ConstantsAssumption /\ ListenerInv /\ [Listener!Next]_(Listener!vars) => ListenerInv'
BY ListenerStays, ListenerWaits, ListenerServes DEF Listener!Next, Listener!WorkerStep

LEMMA ListenerIsSafe ==
    ListenerInv => Listener!TypeOK /\ Listener!OwnAnswer /\ Listener!RefusedIsClosed
      /\ Listener!KeepsListening
BY DEF ListenerInv

-----------------------------------------------------------------------------
(* Sequences *)

LEMMA Appended ==
    ASSUME NEW S, NEW s \in Seq(S), NEW x \in S
    PROVE  /\ Append(s, x) \in Seq(S) /\ Append(s, x) # << >>
           /\ DOMAIN s = 1 .. Len(s) /\ Len(s) \in Nat
           /\ DOMAIN Append(s, x) = 1 .. Len(s) + 1 /\ Len(Append(s, x)) = Len(s) + 1
           /\ \A k \in 1 .. Len(s) : Append(s, x)[k] = s[k]
           /\ Append(s, x)[Len(s) + 1] = x
OBVIOUS

LEMMA Taken ==
    ASSUME NEW S, NEW s \in Seq(S), s # << >>
    PROVE  /\ Tail(s) \in Seq(S) /\ Head(s) = s[1] /\ s[1] \in S
           /\ DOMAIN s = 1 .. Len(s) /\ Len(s) \in Nat /\ Len(s) >= 1
           /\ DOMAIN Tail(s) = 1 .. Len(s) - 1 /\ Len(Tail(s)) = Len(s) - 1
           /\ \A k \in 1 .. Len(s) - 1 : Tail(s)[k] = s[k + 1]
OBVIOUS

-----------------------------------------------------------------------------
(* The viewer *)

Early == {"connect", "register", "handshake", "request", "answer", "split"}

\* Who has a stream, a writer and a sender
Places ==
    /\ stream = "none" => viewer \in {"connect", "register", "finished"}
    /\ viewer \in {"connect", "register"} => stream = "none"
    /\ viewer \in Early => writer = "none"
    /\ viewer \notin Early \cup {"finished"} => writer # "none"
    /\ writer = "none" => /\ queue = << >> /\ toPeer = << >> /\ ~pressed /\ ~sender
                          /\ watchdog = "none"
    /\ viewer \in {"cancel", "close", "join", "finished"} => ~sender
    /\ writer = "sending" => queue # << >>
    /\ viewer = "finished" => writer \in {"none", "ended"}

\* A stop and an abort leave their marks, and the socket is there while the stream is
Marks ==
    /\ Viewer!AbortedBeforeConnecting
    /\ tooLate => cancelled
    /\ window = "take" => localStop
    /\ window = "close" => cancelled
    /\ stream = "open" => socket
    /\ viewer = "join" => stream # "open"
    /\ viewer = "finished" /\ writer # "none" => stream # "open"
    /\ dropped /\ window = "idle" => watchdog # "none" \/ (cancelled /\ stream # "open")

\* Close is the last, on the wire and in the channel
CloseIsLast ==
    /\ \A k \in DOMAIN queue : queue[k] = "close" =>
        localStop /\ \A l \in k + 1 .. Len(queue) : queue[l] \notin Viewer!Input
    /\ \A k \in DOMAIN toPeer : toPeer[k] = "close" =>
        localStop /\ \A l \in DOMAIN queue : queue[l] \notin Viewer!Input

\* Input goes on in the channel where it stopped on the wire, and ends with the key as it is
NoInput(j, k) == \A l \in j .. k : queue[l] \notin Viewer!Input
Queues == ~localStop /\ ~cancelled /\ sender
InTurn ==
    writer \in {"idle", "sending"} =>
        /\ \A k \in DOMAIN queue : queue[k] \in Viewer!Input =>
            /\ NoInput(1, k - 1) => queue[k] = Viewer!Turn(Len(toPeer) + 1)
            /\ \A j \in 1 .. k - 1 : queue[j] \in Viewer!Input /\ NoInput(j + 1, k - 1)
                 => queue[j] # queue[k]
            /\ Queues /\ NoInput(k + 1, Len(queue)) => (queue[k] = "press") = pressed
        /\ Queues /\ NoInput(1, Len(queue)) => (Viewer!Turn(Len(toPeer) + 1) = "release") = pressed

ViewerInv ==
    /\ Viewer!TypeOK /\ Viewer!NoInputAfterClose /\ Viewer!InputAlternates
    /\ Places /\ Marks /\ CloseIsLast /\ InTurn
-----------------------------------------------------------------------------
LEMMA TurnsAlternate ==
    \A n \in Nat : Viewer!Turn(n) \in Viewer!Input /\ Viewer!Turn(n + 1) \in Viewer!Input
      /\ Viewer!Turn(n + 1) # Viewer!Turn(n)
BY DEF Viewer!Turn, Viewer!Input

\* What the sequences say of each other
Sequenced == Viewer!NoInputAfterClose /\ Viewer!InputAlternates /\ CloseIsLast /\ InTurn

\* A step that leaves the sequences as they are.
LEMMA SequencesStay ==
    ASSUME ViewerInv, UNCHANGED << queue, toPeer >>, localStop => localStop',
           writer' \in {"idle", "sending"} =>
               writer \in {"idle", "sending"} /\ (Queues' => Queues /\ pressed' = pressed)
    PROVE  Sequenced'
<1>i. Viewer!NoInputAfterClose /\ Viewer!InputAlternates /\ CloseIsLast /\ InTurn
  BY DEF ViewerInv
<1>1. Viewer!NoInputAfterClose' /\ Viewer!InputAlternates'
  BY <1>i DEF Viewer!NoInputAfterClose, Viewer!InputAlternates
<1>2. CloseIsLast'
  BY <1>i DEF CloseIsLast
<1>3. InTurn'
  BY <1>i DEF InTurn, NoInput
<1> QED
  BY <1>1, <1>2, <1>3 DEF Sequenced

\* A step that queues something that is not input.
LEMMA SequencesGrow ==
    ASSUME ViewerInv, NEW m \in Viewer!Messages \ Viewer!Input, queue' = Append(queue, m),
           UNCHANGED << toPeer, pressed, localStop, writer >>,
           Queues' => Queues, m = "close" => localStop
    PROVE  Sequenced'
<1>i. Viewer!NoInputAfterClose /\ Viewer!InputAlternates /\ CloseIsLast /\ InTurn
  BY DEF ViewerInv
<1>q. queue \in Seq(Viewer!Messages)
  BY DEF ViewerInv, Viewer!TypeOK
<1>a. /\ DOMAIN queue = 1 .. Len(queue) /\ Len(queue) \in Nat
      /\ DOMAIN queue' = 1 .. Len(queue) + 1 /\ Len(queue') = Len(queue) + 1
      /\ \A k \in 1 .. Len(queue) : queue'[k] = queue[k]
      /\ queue'[Len(queue) + 1] = m
  BY <1>q, Appended
<1>1. Viewer!NoInputAfterClose' /\ Viewer!InputAlternates'
  BY <1>i DEF Viewer!NoInputAfterClose, Viewer!InputAlternates
<1>2. CloseIsLast'
  <2>1. ASSUME NEW k \in DOMAIN queue', queue'[k] = "close"
        PROVE  localStop' /\ \A l \in k + 1 .. Len(queue') : queue'[l] \notin Viewer!Input
    <3>1. CASE k = Len(queue) + 1
      BY <1>a, <2>1, <3>1
    <3>2. CASE k # Len(queue) + 1
      BY <1>a, <1>i, <2>1, <3>2 DEF CloseIsLast
    <3> QED
      BY <3>1, <3>2
  <2>2. ASSUME NEW k \in DOMAIN toPeer, toPeer[k] = "close"
        PROVE  localStop' /\ \A l \in DOMAIN queue' : queue'[l] \notin Viewer!Input
    BY <1>a, <1>i, <2>2 DEF CloseIsLast
  <2> QED
    BY <2>1, <2>2 DEF CloseIsLast
<1>3. InTurn'
  <2> SUFFICES ASSUME writer \in {"idle", "sending"} PROVE InTurn'
    BY DEF InTurn
  <2>1. ASSUME NEW k \in DOMAIN queue', queue'[k] \in Viewer!Input
        PROVE  /\ k \in DOMAIN queue /\ queue[k] \in Viewer!Input
               /\ NoInput(1, k - 1)' => queue'[k] = Viewer!Turn(Len(toPeer) + 1)
               /\ \A j \in 1 .. k - 1 : queue'[j] \in Viewer!Input /\ NoInput(j + 1, k - 1)'
                    => queue'[j] # queue'[k]
               /\ Queues' /\ NoInput(k + 1, Len(queue))' => (queue'[k] = "press") = pressed
    <3>1. k \in 1 .. Len(queue) /\ queue'[k] = queue[k]
      BY <1>a, <2>1
    <3>2. NoInput(1, k - 1)' => NoInput(1, k - 1)
      BY <1>a, <3>1 DEF NoInput
    <3>3. \A j \in 1 .. k - 1 : queue'[j] = queue[j]
            /\ (NoInput(j + 1, k - 1)' => NoInput(j + 1, k - 1))
      BY <1>a, <3>1 DEF NoInput
    <3>4. NoInput(k + 1, Len(queue))' => NoInput(k + 1, Len(queue))
      BY <1>a, <3>1 DEF NoInput
    <3> QED
      BY <1>a, <1>i, <2>1, <3>1, <3>2, <3>3, <3>4 DEF InTurn
  <2>2. NoInput(1, Len(queue))' => NoInput(1, Len(queue))
    BY <1>a DEF NoInput
  <2> QED
    BY <1>i, <2>1, <2>2 DEF InTurn
<1> QED
  BY <1>1, <1>2, <1>3 DEF Sequenced

\* A key that is queued.
LEMMA SequencesTakeInput ==
    ASSUME ViewerInv, queue' = Append(queue, IF pressed THEN "release" ELSE "press"),
           pressed' = ~pressed, Queues, UNCHANGED << toPeer, localStop, writer >>
    PROVE  Sequenced'
<1> DEFINE m == IF pressed THEN "release" ELSE "press"
<1>i. Viewer!NoInputAfterClose /\ Viewer!InputAlternates /\ CloseIsLast /\ InTurn
  BY DEF ViewerInv
<1>q. queue \in Seq(Viewer!Messages) /\ m \in Viewer!Messages /\ m \in Viewer!Input
        /\ pressed \in BOOLEAN
  BY DEF ViewerInv, Viewer!TypeOK, Viewer!Messages, Viewer!Input
<1>a. /\ DOMAIN queue = 1 .. Len(queue) /\ Len(queue) \in Nat
      /\ DOMAIN queue' = 1 .. Len(queue) + 1 /\ Len(queue') = Len(queue) + 1
      /\ \A k \in 1 .. Len(queue) : queue'[k] = queue[k]
      /\ queue'[Len(queue) + 1] = m
  BY <1>q, Appended
<1>p. m # "close" /\ (m = "press") = ~pressed /\ (m = "release") = pressed
  BY <1>q
<1>t. Viewer!Turn(Len(toPeer) + 1) \in Viewer!Input
  <2>1. Len(toPeer) \in Nat
    BY DEF ViewerInv, Viewer!TypeOK
  <2> QED
    BY <2>1, TurnsAlternate
<1> HIDE DEF m
<1>1. Viewer!NoInputAfterClose' /\ Viewer!InputAlternates'
  BY <1>i DEF Viewer!NoInputAfterClose, Viewer!InputAlternates
<1>2. CloseIsLast'
  <2>1. \A k \in DOMAIN queue' : queue'[k] # "close"
    BY <1>a, <1>i, <1>p DEF CloseIsLast, Queues
  <2>2. \A k \in DOMAIN toPeer : toPeer[k] # "close"
    BY <1>i DEF CloseIsLast, Queues
  <2> QED
    BY <2>1, <2>2 DEF CloseIsLast
<1>3. InTurn'
  <2> SUFFICES ASSUME writer \in {"idle", "sending"} PROVE InTurn'
    BY DEF InTurn
  <2>1. ASSUME NEW k \in DOMAIN queue', queue'[k] \in Viewer!Input
        PROVE  /\ NoInput(1, k - 1)' => queue'[k] = Viewer!Turn(Len(toPeer) + 1)
               /\ \A j \in 1 .. k - 1 : queue'[j] \in Viewer!Input /\ NoInput(j + 1, k - 1)'
                    => queue'[j] # queue'[k]
               /\ NoInput(k + 1, Len(queue))' => (queue'[k] = "press") = pressed'
    <3>2. NoInput(1, k - 1)' => NoInput(1, k - 1)
      BY <1>a, <2>1 DEF NoInput
    <3>3. \A j \in 1 .. k - 1 : queue'[j] = queue[j]
            /\ (NoInput(j + 1, k - 1)' => NoInput(j + 1, k - 1))
      BY <1>a, <2>1 DEF NoInput
    <3>4. CASE k \in 1 .. Len(queue)
      <4>1. queue'[k] = queue[k]
        BY <1>a, <3>4
      <4>2. ~NoInput(k + 1, Len(queue))'
        BY <1>a, <1>q, <3>4 DEF NoInput
      <4> QED
        BY <1>a, <1>i, <2>1, <3>2, <3>3, <3>4, <4>1, <4>2 DEF InTurn
    <3>5. CASE k = Len(queue) + 1
      <4>1. queue'[k] = m
        BY <1>a, <3>5
      <4>2. NoInput(1, k - 1) => m = Viewer!Turn(Len(toPeer) + 1)
        BY <1>a, <1>i, <1>p, <1>q, <1>t, <3>5 DEF InTurn, Viewer!Input
      <4>3. ASSUME NEW j \in 1 .. k - 1, queue[j] \in Viewer!Input, NoInput(j + 1, k - 1)
            PROVE  queue[j] # m
        <5>1. (queue[j] = "press") = pressed
          BY <1>a, <1>i, <3>5, <4>3 DEF InTurn
        <5> QED
          BY <1>p, <1>q, <4>3, <5>1 DEF Viewer!Input
      <4> QED
        BY <1>p, <3>2, <3>3, <4>1, <4>2, <4>3
    <3> QED
      BY <1>a, <3>4, <3>5
  <2>2. ~NoInput(1, Len(queue))'
    BY <1>a, <1>q DEF NoInput
  <2> QED
    BY <2>1, <2>2 DEF InTurn
<1> QED
  BY <1>1, <1>2, <1>3 DEF Sequenced

\* The message in hand is not written, or it is and no input.
LEMMA SequencesSkip ==
    ASSUME ViewerInv, queue # << >>, queue' = Tail(queue), UNCHANGED << pressed, localStop >>,
           Queues' => Queues,
           \/ toPeer' = toPeer /\ (queue[1] \in {"ack", "pong"} \/ writer' = "cancel")
           \/ toPeer' = Append(toPeer, queue[1]) /\ queue[1] = "close",
           writer = "sending"
    PROVE  Sequenced'
<1>i. Viewer!NoInputAfterClose /\ Viewer!InputAlternates /\ CloseIsLast /\ InTurn
  BY DEF ViewerInv
<1>q. queue \in Seq(Viewer!Messages)
  BY DEF ViewerInv, Viewer!TypeOK
<1>a. /\ DOMAIN queue = 1 .. Len(queue) /\ Len(queue) \in Nat /\ Len(queue) >= 1
      /\ DOMAIN queue' = 1 .. Len(queue) - 1 /\ Len(queue') = Len(queue) - 1
      /\ \A k \in 1 .. Len(queue) - 1 : queue'[k] = queue[k + 1]
  BY <1>q, Taken
<1>b. /\ DOMAIN toPeer = 1 .. Len(toPeer) /\ Len(toPeer) \in Nat
      /\ \A k \in DOMAIN toPeer : k \in DOMAIN toPeer' /\ toPeer'[k] = toPeer[k]
      /\ \A k \in DOMAIN toPeer' : \/ k \in DOMAIN toPeer
                                   \/ k = Len(toPeer) + 1 /\ toPeer'[k] = "close"
                                        /\ queue[1] = "close"
      /\ toPeer' = toPeer \/ queue[1] = "close"
  <2> DEFINE S == Viewer!Input \cup {"close"}
  <2>1. toPeer \in Seq(S) /\ "close" \in S
    BY DEF ViewerInv, Viewer!TypeOK
  <2> HIDE DEF S
  <2>2. DOMAIN toPeer = 1 .. Len(toPeer) /\ Len(toPeer) \in Nat
    BY <2>1
  <2>3. CASE toPeer' = toPeer
    BY <2>2, <2>3
  <2>4. CASE toPeer' = Append(toPeer, "close") /\ queue[1] = "close"
    BY <2>1, <2>4, Appended
  <2> QED
    BY <2>2, <2>3, <2>4
<1>1. Viewer!NoInputAfterClose'
  <2> SUFFICES ASSUME NEW k \in DOMAIN toPeer', toPeer'[k] = "close",
                      NEW l \in k + 1 .. Len(toPeer'), toPeer'[l] \in Viewer!Input
               PROVE  FALSE
    BY DEF Viewer!NoInputAfterClose
  <2>1. l \in DOMAIN toPeer'
    <3>1. DOMAIN toPeer' = 1 .. Len(toPeer') /\ Len(toPeer') \in Nat
      <4> DEFINE S == Viewer!Input \cup {"close"}
      <4>1. toPeer \in Seq(S) /\ "close" \in S
        BY DEF ViewerInv, Viewer!TypeOK
      <4> HIDE DEF S
      <4> QED
        BY <4>1, Appended
    <3>2. k \in Nat /\ k >= 1
      BY <1>b
    <3>3. l \in 1 .. Len(toPeer')
      <4>1. Len(toPeer') \in Nat
        BY <3>1
      <4> QED
        BY <3>2, <4>1
    <3> QED
      BY <3>1, <3>3
  <2>2. l \in DOMAIN toPeer /\ toPeer[l] \in Viewer!Input
    BY <1>b, <2>1 DEF Viewer!Input
  <2>3. k \in DOMAIN toPeer /\ toPeer[k] = "close" /\ l \in k + 1 .. Len(toPeer)
    BY <1>b, <2>2
  <2> QED
    BY <1>i, <2>2, <2>3 DEF Viewer!NoInputAfterClose
<1>2. Viewer!InputAlternates'
  BY <1>b, <1>i DEF Viewer!InputAlternates, Viewer!Input
<1>3. CloseIsLast'
  <2>1. ASSUME NEW k \in DOMAIN queue', queue'[k] = "close"
        PROVE  localStop' /\ \A l \in k + 1 .. Len(queue') : queue'[l] \notin Viewer!Input
    <3>1. queue[k + 1] = "close" /\ k + 1 \in DOMAIN queue
      BY <1>a, <2>1
    <3> QED
      BY <1>a, <1>i, <3>1 DEF CloseIsLast
  <2>2. ASSUME NEW k \in DOMAIN toPeer', toPeer'[k] = "close"
        PROVE  localStop' /\ \A l \in DOMAIN queue' : queue'[l] \notin Viewer!Input
    <3>1. CASE queue[1] = "close"
      BY <1>a, <1>i, <3>1 DEF CloseIsLast
    <3>2. CASE queue[1] # "close"
      <4>1. k \in DOMAIN toPeer /\ toPeer[k] = "close"
        BY <1>b, <2>2, <3>2
      <4> QED
        BY <1>a, <1>i, <4>1 DEF CloseIsLast
    <3> QED
      BY <3>1, <3>2
  <2> QED
    BY <2>1, <2>2 DEF CloseIsLast
<1>4. InTurn'
  <2>1. CASE writer' = "cancel"
    BY <2>1 DEF InTurn
  <2>2. CASE queue[1] = "close"
    <3>1. localStop /\ \A k \in DOMAIN queue' : queue'[k] \notin Viewer!Input
      BY <1>a, <1>i, <2>2 DEF CloseIsLast
    <3> QED
      BY <3>1 DEF InTurn, Queues
  <2>3. CASE queue[1] \in {"ack", "pong"} /\ toPeer' = toPeer
    <3>1. queue[1] \notin Viewer!Input
      BY <2>3 DEF Viewer!Input
    <3>2. ASSUME NEW k \in DOMAIN queue', queue'[k] \in Viewer!Input
          PROVE  /\ NoInput(1, k - 1)' => queue'[k] = Viewer!Turn(Len(toPeer) + 1)
                 /\ \A j \in 1 .. k - 1 : queue'[j] \in Viewer!Input /\ NoInput(j + 1, k - 1)'
                      => queue'[j] # queue'[k]
                 /\ Queues' /\ NoInput(k + 1, Len(queue))' => (queue'[k] = "press") = pressed
      <4>1. k + 1 \in DOMAIN queue /\ queue[k + 1] = queue'[k]
        BY <1>a, <3>2
      <4>2. NoInput(1, k - 1)' => NoInput(1, k)
        <5> SUFFICES ASSUME NoInput(1, k - 1)', NEW l \in 1 .. k PROVE queue[l] \notin Viewer!Input
          BY DEF NoInput
        <5>1. CASE l = 1
          BY <3>1, <5>1
        <5>2. CASE l # 1
          <6>1. l - 1 \in 1 .. k - 1 /\ queue'[l - 1] = queue[l]
            BY <1>a, <5>2
          <6> QED
            BY <6>1 DEF NoInput
        <5> QED
          BY <5>1, <5>2
      <4>3. \A j \in 1 .. k - 1 : queue'[j] = queue[j + 1]
              /\ (NoInput(j + 1, k - 1)' => NoInput(j + 2, k))
        <5> SUFFICES ASSUME NEW j \in 1 .. k - 1, NoInput(j + 1, k - 1)', NEW l \in j + 2 .. k
                     PROVE  queue[l] \notin Viewer!Input
          BY <1>a DEF NoInput
        <5>1. l - 1 \in j + 1 .. k - 1 /\ queue'[l - 1] = queue[l]
          BY <1>a
        <5> QED
          BY <5>1 DEF NoInput
      <4>4. NoInput(k + 1, Len(queue))' => NoInput(k + 2, Len(queue))
        <5> SUFFICES ASSUME NoInput(k + 1, Len(queue))', NEW l \in k + 2 .. Len(queue)
                     PROVE  queue[l] \notin Viewer!Input
          BY <1>a DEF NoInput
        <5>1. l - 1 \in k + 1 .. Len(queue') /\ queue'[l - 1] = queue[l]
          BY <1>a
        <5> QED
          BY <5>1 DEF NoInput
      <4>5. /\ NoInput(1, (k + 1) - 1) => queue[k + 1] = Viewer!Turn(Len(toPeer) + 1)
            /\ \A j \in 1 .. (k + 1) - 1 :
                queue[j] \in Viewer!Input /\ NoInput(j + 1, (k + 1) - 1) => queue[j] # queue[k + 1]
            /\ Queues /\ NoInput((k + 1) + 1, Len(queue)) => (queue[k + 1] = "press") = pressed
        BY <1>i, <3>2, <4>1 DEF InTurn
      <4>6. (k + 1) - 1 = k /\ (k + 1) + 1 = k + 2
        BY <1>a
      <4>7. ASSUME NEW j \in 1 .. k - 1, queue'[j] \in Viewer!Input, NoInput(j + 1, k - 1)'
            PROVE  queue'[j] # queue'[k]
        <5>1. j + 1 \in 1 .. k /\ queue[j + 1] = queue'[j] /\ NoInput((j + 1) + 1, k)
          <6>1. j + 1 \in 1 .. k /\ (j + 1) + 1 = j + 2
            OBVIOUS
          <6> QED
            BY <4>3, <4>7, <6>1
        <5> QED
          BY <4>1, <4>5, <4>6, <4>7, <5>1
      <4> QED
        BY <4>1, <4>2, <4>4, <4>5, <4>6, <4>7
    <3>3. NoInput(1, Len(queue))' => NoInput(1, Len(queue))
      <4> SUFFICES ASSUME NoInput(1, Len(queue))',
      NEW l \in 1 .. Len(queue) PROVE queue[l] \notin Viewer!Input
        BY DEF NoInput
      <4>1. CASE l = 1
        BY <3>1, <4>1
      <4>2. CASE l # 1
        <5>1. l - 1 \in 1 .. Len(queue') /\ queue'[l - 1] = queue[l]
          BY <1>a, <4>2
        <5> QED
          BY <5>1 DEF NoInput
      <4> QED
        BY <4>1, <4>2
    <3> QED
      BY <1>i, <2>3, <3>2, <3>3 DEF InTurn
  <2> QED
    BY <2>1, <2>2, <2>3
<1> QED
  BY <1>1, <1>2, <1>3, <1>4 DEF Sequenced

\* A key is written.
LEMMA SequencesWriteInput ==
    ASSUME ViewerInv, queue # << >>, queue' = Tail(queue), UNCHANGED << pressed, localStop >>,
           Queues' => Queues, toPeer' = Append(toPeer, queue[1]), queue[1] \in Viewer!Input,
           writer = "sending"
    PROVE  Sequenced'
<1>i. Viewer!NoInputAfterClose /\ Viewer!InputAlternates /\ CloseIsLast /\ InTurn
  BY DEF ViewerInv
<1>q. queue \in Seq(Viewer!Messages)
  BY DEF ViewerInv, Viewer!TypeOK
<1>a. /\ DOMAIN queue = 1 .. Len(queue) /\ Len(queue) \in Nat /\ Len(queue) >= 1
      /\ DOMAIN queue' = 1 .. Len(queue) - 1 /\ Len(queue') = Len(queue) - 1
      /\ \A k \in 1 .. Len(queue) - 1 : queue'[k] = queue[k + 1]
  BY <1>q, Taken
<1>b. /\ DOMAIN toPeer = 1 .. Len(toPeer) /\ Len(toPeer) \in Nat
      /\ DOMAIN toPeer' = 1 .. Len(toPeer) + 1 /\ Len(toPeer') = Len(toPeer) + 1
      /\ \A k \in 1 .. Len(toPeer) : toPeer'[k] = toPeer[k]
      /\ toPeer'[Len(toPeer) + 1] = queue[1]
  <2> DEFINE S == Viewer!Input \cup {"close"}
  <2>1. toPeer \in Seq(S) /\ queue[1] \in S
    BY DEF ViewerInv, Viewer!TypeOK
  <2> HIDE DEF S
  <2> QED
    BY <2>1, Appended
<1>n. \A k \in DOMAIN toPeer : toPeer[k] # "close"
  BY <1>a, <1>i DEF CloseIsLast
<1>c. queue[1] # "close"
  BY DEF Viewer!Input
<1>t. queue[1] = Viewer!Turn(Len(toPeer) + 1)
  <2>1. NoInput(1, 1 - 1)
    BY DEF NoInput
  <2> QED
    BY <1>a, <1>i, <2>1 DEF InTurn
<1>u. Viewer!Turn(Len(toPeer') + 1) \in Viewer!Input /\ Viewer!Turn(Len(toPeer') + 1) # queue[1]
  <2>1. Len(toPeer) + 1 \in Nat
    BY <1>b
  <2> QED
    BY <1>b, <1>t, <2>1, TurnsAlternate
<1>1. Viewer!NoInputAfterClose' /\ Viewer!InputAlternates'
  BY <1>b, <1>c, <1>i, <1>n, <1>t DEF Viewer!NoInputAfterClose, Viewer!InputAlternates
<1>2. CloseIsLast'
  <2>1. ASSUME NEW k \in DOMAIN queue', queue'[k] = "close"
        PROVE  localStop' /\ \A l \in k + 1 .. Len(queue') : queue'[l] \notin Viewer!Input
    <3>1. queue[k + 1] = "close" /\ k + 1 \in DOMAIN queue
      BY <1>a, <2>1
    <3> QED
      BY <1>a, <1>i, <3>1 DEF CloseIsLast
  <2>2. \A k \in DOMAIN toPeer' : toPeer'[k] # "close"
    BY <1>b, <1>c, <1>n
  <2> QED
    BY <2>1, <2>2 DEF CloseIsLast
<1>3. InTurn'
  <2>1. ASSUME NEW k \in DOMAIN queue', queue'[k] \in Viewer!Input
        PROVE  /\ NoInput(1, k - 1)' => queue'[k] = Viewer!Turn(Len(toPeer') + 1)
               /\ \A j \in 1 .. k - 1 : queue'[j] \in Viewer!Input /\ NoInput(j + 1, k - 1)'
                    => queue'[j] # queue'[k]
               /\ Queues' /\ NoInput(k + 1, Len(queue))' => (queue'[k] = "press") = pressed
    <3>1. k + 1 \in DOMAIN queue /\ queue[k + 1] = queue'[k]
      BY <1>a, <2>1
    <3>2. NoInput(1, k - 1)' => NoInput(2, k)
      <4> SUFFICES ASSUME NoInput(1, k - 1)', NEW l \in 2 .. k PROVE queue[l] \notin Viewer!Input
        BY DEF NoInput
      <4>1. l - 1 \in 1 .. k - 1 /\ queue'[l - 1] = queue[l]
        BY <1>a
      <4> QED
        BY <4>1 DEF NoInput
    <3>3. \A j \in 1 .. k - 1 : queue'[j] = queue[j + 1]
            /\ (NoInput(j + 1, k - 1)' => NoInput(j + 2, k))
      <4> SUFFICES ASSUME NEW j \in 1 .. k - 1, NoInput(j + 1, k - 1)', NEW l \in j + 2 .. k
                   PROVE  queue[l] \notin Viewer!Input
        BY <1>a DEF NoInput
      <4>1. l - 1 \in j + 1 .. k - 1 /\ queue'[l - 1] = queue[l]
        BY <1>a
      <4> QED
        BY <4>1 DEF NoInput
    <3>4. NoInput(k + 1, Len(queue))' => NoInput(k + 2, Len(queue))
      <4> SUFFICES ASSUME NoInput(k + 1, Len(queue))', NEW l \in k + 2 .. Len(queue)
                   PROVE  queue[l] \notin Viewer!Input
        BY <1>a DEF NoInput
      <4>1. l - 1 \in k + 1 .. Len(queue') /\ queue'[l - 1] = queue[l]
        BY <1>a
      <4> QED
        BY <4>1 DEF NoInput
    <3>5. /\ \A j \in 1 .. (k + 1) - 1 :
              queue[j] \in Viewer!Input /\ NoInput(j + 1, (k + 1) - 1) => queue[j] # queue[k + 1]
          /\ Queues /\ NoInput((k + 1) + 1, Len(queue)) => (queue[k + 1] = "press") = pressed
      BY <1>i, <2>1, <3>1 DEF InTurn
    <3>6. (k + 1) - 1 = k /\ (k + 1) + 1 = k + 2 /\ 1 \in 1 .. k /\ 1 + 1 = 2
      BY <1>a
    <3>7. NoInput(1, k - 1)' => queue'[k] = Viewer!Turn(Len(toPeer') + 1)
      <4>1. NoInput(1, k - 1)' => queue[1] # queue'[k]
        BY <3>1, <3>2, <3>5, <3>6
      <4> QED
        BY <1>u, <2>1, <4>1 DEF Viewer!Input
    <3>8. ASSUME NEW j \in 1 .. k - 1, queue'[j] \in Viewer!Input, NoInput(j + 1, k - 1)'
          PROVE  queue'[j] # queue'[k]
      <4>1. j + 1 \in 1 .. k /\ queue[j + 1] = queue'[j] /\ NoInput((j + 1) + 1, k)
        <5>1. j + 1 \in 1 .. k /\ (j + 1) + 1 = j + 2
          OBVIOUS
        <5> QED
          BY <3>3, <3>8, <5>1
      <4> QED
        BY <3>1, <3>5, <3>6, <3>8, <4>1
    <3> QED
      BY <3>1, <3>4, <3>5, <3>6, <3>7, <3>8
  <2>2. Queues' /\ NoInput(1, Len(queue))' => (Viewer!Turn(Len(toPeer') + 1) = "release") = pressed
    <3> SUFFICES ASSUME Queues', NoInput(1, Len(queue))'
                 PROVE  (Viewer!Turn(Len(toPeer') + 1) = "release") = pressed
      OBVIOUS
    <3>1. NoInput(1 + 1, Len(queue))
      <4> SUFFICES ASSUME NEW l \in 1 + 1 .. Len(queue) PROVE queue[l] \notin Viewer!Input
        BY DEF NoInput
      <4>1. l - 1 \in 1 .. Len(queue') /\ queue'[l - 1] = queue[l]
        BY <1>a
      <4> QED
        BY <4>1 DEF NoInput
    <3>2. (queue[1] = "press") = pressed
      BY <1>a, <1>i, <3>1 DEF InTurn
    <3> QED
      BY <1>u, <3>2 DEF Viewer!Input
  <2> QED
    BY <1>i, <2>1, <2>2 DEF InTurn
<1> QED
  BY <1>1, <1>2, <1>3 DEF Sequenced

-----------------------------------------------------------------------------
\* A step of whoever stops the session, and of the peer.
LEMMA ViewerStopped ==
    ASSUME Viewer!ConstantsAssumption, ViewerInv,
           Viewer!BeginStop \/ Viewer!DropJob \/ Viewer!WindowAborts \/ Viewer!WatchdogEnds
             \/ Viewer!PeerSends \/ Viewer!PeerCloses \/ UNCHANGED Viewer!vars
    PROVE  ViewerInv'
<1>1. CASE Viewer!BeginStop
  <2>1. Viewer!TypeOK'
    BY <1>1 DEF Viewer!BeginStop, Viewer!user, Viewer!control, ViewerInv, Viewer!TypeOK,
       Viewer!ConstantsAssumption, Viewer!WorkerState
  <2>2. Places'
    BY <1>1 DEF Viewer!BeginStop, Viewer!user, Viewer!control, ViewerInv, Viewer!TypeOK, Places,
       Early, Viewer!WorkerState
  <2>3. Marks'
    BY <1>1 DEF Viewer!BeginStop, Viewer!user, Viewer!control, ViewerInv, Viewer!TypeOK, Places,
       Marks, Viewer!AbortedBeforeConnecting, Early, Viewer!WorkerState
  <2>4. Sequenced'
    <3>1. /\ UNCHANGED << queue, toPeer >>
          /\ localStop => localStop'
          /\ writer' \in {"idle", "sending"} =>
                writer \in {"idle", "sending"} /\ (Queues' => Queues /\ pressed' = pressed)
      BY <1>1 DEF Viewer!BeginStop, Viewer!user, Viewer!control, Queues, ViewerInv, Viewer!TypeOK
    <3> QED
      BY <3>1, SequencesStay
  <2> QED
    BY <2>1, <2>2, <2>3, <2>4 DEF ViewerInv, Sequenced
<1>2. CASE Viewer!DropJob
  <2>1. Viewer!TypeOK'
    BY <1>2 DEF Viewer!DropJob, Viewer!user, Viewer!control, ViewerInv, Viewer!TypeOK,
       Viewer!ConstantsAssumption, Viewer!WorkerState
  <2>2. Places'
    BY <1>2 DEF Viewer!DropJob, Viewer!user, Viewer!control, ViewerInv, Viewer!TypeOK, Places,
       Early, Viewer!WorkerState
  <2>3. Marks'
    BY <1>2 DEF Viewer!DropJob, Viewer!user, Viewer!control, ViewerInv, Viewer!TypeOK, Places,
       Marks, Viewer!AbortedBeforeConnecting, Early, Viewer!WorkerState
  <2>4. Sequenced'
    <3>1. /\ UNCHANGED << queue, toPeer >>
          /\ localStop => localStop'
          /\ writer' \in {"idle", "sending"} =>
                writer \in {"idle", "sending"} /\ (Queues' => Queues /\ pressed' = pressed)
      BY <1>2 DEF Viewer!DropJob, Viewer!user, Viewer!control, Queues, ViewerInv, Viewer!TypeOK
    <3> QED
      BY <3>1, SequencesStay
  <2> QED
    BY <2>1, <2>2, <2>3, <2>4 DEF ViewerInv, Sequenced
<1>3. CASE Viewer!WindowAborts
  <2>1. Viewer!TypeOK'
    <3>1. UNCHANGED << pressed, inputs, dropped, localStop, viewer, writer, watchdog, queue, toPeer,
          arrived, frames >>
      BY <1>3 DEF Viewer!WindowAborts, Viewer!Cancel, Viewer!CloseSocket, Viewer!user,
         Viewer!control
    <3>2. window' \in {"idle", "take", "cancel", "close"} /\ sender' \in BOOLEAN
      BY <1>3 DEF Viewer!WindowAborts, Viewer!Cancel, Viewer!CloseSocket, Viewer!user,
         Viewer!control, ViewerInv, Viewer!TypeOK, Viewer!WorkerState
    <3>3. cancelled' \in BOOLEAN /\ tooLate' \in BOOLEAN
      BY <1>3 DEF Viewer!WindowAborts, Viewer!Cancel, Viewer!CloseSocket, Viewer!user,
         Viewer!control, ViewerInv, Viewer!TypeOK
    <3>4. /\ socket' \in BOOLEAN /\ stream' \in {"none", "open", "shut"}
          /\ socket' => stream' # "none"
      <4>1. (socket' = socket /\ stream' = stream)
              \/ (socket' = FALSE /\ stream' \in {stream, "shut"})
        BY <1>3 DEF Viewer!WindowAborts, Viewer!Cancel, Viewer!CloseSocket, Viewer!user,
           Viewer!control
      <4>2. /\ socket \in BOOLEAN /\ stream \in {"none", "open", "shut"}
            /\ socket => stream # "none"
        BY DEF ViewerInv, Viewer!TypeOK
      <4>3. CASE socket' = socket /\ stream' = stream
        BY <4>2, <4>3
      <4>4. CASE socket' = FALSE /\ stream' \in {stream, "shut"}
        BY <4>2, <4>4
      <4> QED
        BY <4>1, <4>3, <4>4
    <3> QED
      BY <3>1, <3>2, <3>3, <3>4 DEF ViewerInv, Viewer!TypeOK
  <2>2. Places'
    BY <1>3 DEF Viewer!WindowAborts, Viewer!Cancel, Viewer!CloseSocket, Viewer!user, Viewer!control,
       ViewerInv, Viewer!TypeOK, Places, Early, Viewer!WorkerState
  <2>3. Marks'
    BY <1>3 DEF Viewer!WindowAborts, Viewer!Cancel, Viewer!CloseSocket, Viewer!user, Viewer!control,
       ViewerInv, Viewer!TypeOK, Places, Marks, Viewer!AbortedBeforeConnecting, Early,
       Viewer!WorkerState
  <2>4. Sequenced'
    <3>1. /\ UNCHANGED << queue, toPeer >>
          /\ localStop => localStop'
          /\ writer' \in {"idle", "sending"} =>
                writer \in {"idle", "sending"} /\ (Queues' => Queues /\ pressed' = pressed)
      BY <1>3 DEF Viewer!WindowAborts, Viewer!Cancel, Viewer!CloseSocket, Viewer!user,
         Viewer!control, Queues, ViewerInv, Viewer!TypeOK
    <3> QED
      BY <3>1, SequencesStay
  <2> QED
    BY <2>1, <2>2, <2>3, <2>4 DEF ViewerInv, Sequenced
<1>4. CASE Viewer!WatchdogEnds
  <2>1. Viewer!TypeOK'
    <3>1. UNCHANGED << window, pressed, inputs, dropped, localStop, viewer, writer, queue, toPeer,
          arrived, frames >>
      BY <1>4 DEF Viewer!WatchdogEnds, Viewer!Cancel, Viewer!CloseSocket, Viewer!control,
         Viewer!user
    <3>2. watchdog' \in {"none", "waiting", "cancel", "close", "ended"} /\ sender' \in BOOLEAN
      BY <1>4 DEF Viewer!WatchdogEnds, Viewer!Cancel, Viewer!CloseSocket, Viewer!control,
         Viewer!user, ViewerInv, Viewer!TypeOK, Viewer!WorkerState
    <3>3. cancelled' \in BOOLEAN /\ tooLate' \in BOOLEAN
      BY <1>4 DEF Viewer!WatchdogEnds, Viewer!Cancel, Viewer!CloseSocket, Viewer!control,
         Viewer!user, ViewerInv, Viewer!TypeOK
    <3>4. /\ socket' \in BOOLEAN /\ stream' \in {"none", "open", "shut"}
          /\ socket' => stream' # "none"
      <4>1. (socket' = socket /\ stream' = stream)
              \/ (socket' = FALSE /\ stream' \in {stream, "shut"})
        BY <1>4 DEF Viewer!WatchdogEnds, Viewer!Cancel, Viewer!CloseSocket, Viewer!control,
           Viewer!user
      <4>2. /\ socket \in BOOLEAN /\ stream \in {"none", "open", "shut"}
            /\ socket => stream # "none"
        BY DEF ViewerInv, Viewer!TypeOK
      <4>3. CASE socket' = socket /\ stream' = stream
        BY <4>2, <4>3
      <4>4. CASE socket' = FALSE /\ stream' \in {stream, "shut"}
        BY <4>2, <4>4
      <4> QED
        BY <4>1, <4>3, <4>4
    <3> QED
      BY <3>1, <3>2, <3>3, <3>4 DEF ViewerInv, Viewer!TypeOK
  <2>2. Places'
    BY <1>4 DEF Viewer!WatchdogEnds, Viewer!Cancel, Viewer!CloseSocket, Viewer!control, Viewer!user,
       ViewerInv, Viewer!TypeOK, Places, Early, Viewer!WorkerState
  <2>3. Marks'
    BY <1>4 DEF Viewer!WatchdogEnds, Viewer!Cancel, Viewer!CloseSocket, Viewer!control, Viewer!user,
       ViewerInv, Viewer!TypeOK, Places, Marks, Viewer!AbortedBeforeConnecting, Early,
       Viewer!WorkerState
  <2>4. Sequenced'
    <3>1. /\ UNCHANGED << queue, toPeer >>
          /\ localStop => localStop'
          /\ writer' \in {"idle", "sending"} =>
                writer \in {"idle", "sending"} /\ (Queues' => Queues /\ pressed' = pressed)
      BY <1>4 DEF Viewer!WatchdogEnds, Viewer!Cancel, Viewer!CloseSocket, Viewer!control,
         Viewer!user, Queues, ViewerInv, Viewer!TypeOK
    <3> QED
      BY <3>1, SequencesStay
  <2> QED
    BY <2>1, <2>2, <2>3, <2>4 DEF ViewerInv, Sequenced
<1>5. CASE Viewer!PeerSends
  <2>1. Viewer!TypeOK'
    BY <1>5 DEF Viewer!PeerSends, Viewer!user, Viewer!control, ViewerInv, Viewer!TypeOK,
       Viewer!ConstantsAssumption, Viewer!WorkerState
  <2>2. Places'
    BY <1>5 DEF Viewer!PeerSends, Viewer!user, Viewer!control, ViewerInv, Viewer!TypeOK, Places,
       Early, Viewer!WorkerState
  <2>3. Marks'
    BY <1>5 DEF Viewer!PeerSends, Viewer!user, Viewer!control, ViewerInv, Viewer!TypeOK, Places,
       Marks, Viewer!AbortedBeforeConnecting, Early, Viewer!WorkerState
  <2>4. Sequenced'
    <3>1. /\ UNCHANGED << queue, toPeer >>
          /\ localStop => localStop'
          /\ writer' \in {"idle", "sending"} =>
                writer \in {"idle", "sending"} /\ (Queues' => Queues /\ pressed' = pressed)
      BY <1>5 DEF Viewer!PeerSends, Viewer!user, Viewer!control, Queues, ViewerInv, Viewer!TypeOK
    <3> QED
      BY <3>1, SequencesStay
  <2> QED
    BY <2>1, <2>2, <2>3, <2>4 DEF ViewerInv, Sequenced
<1>6. CASE Viewer!PeerCloses
  <2>1. Viewer!TypeOK'
    BY <1>6 DEF Viewer!PeerCloses, Viewer!user, Viewer!control, ViewerInv, Viewer!TypeOK,
       Viewer!ConstantsAssumption, Viewer!WorkerState
  <2>2. Places'
    BY <1>6 DEF Viewer!PeerCloses, Viewer!user, Viewer!control, ViewerInv, Viewer!TypeOK, Places,
       Early, Viewer!WorkerState
  <2>3. Marks'
    BY <1>6 DEF Viewer!PeerCloses, Viewer!user, Viewer!control, ViewerInv, Viewer!TypeOK, Places,
       Marks, Viewer!AbortedBeforeConnecting, Early, Viewer!WorkerState
  <2>4. Sequenced'
    <3>1. /\ UNCHANGED << queue, toPeer >>
          /\ localStop => localStop'
          /\ writer' \in {"idle", "sending"} =>
                writer \in {"idle", "sending"} /\ (Queues' => Queues /\ pressed' = pressed)
      BY <1>6 DEF Viewer!PeerCloses, Viewer!user, Viewer!control, Queues, ViewerInv, Viewer!TypeOK
    <3> QED
      BY <3>1, SequencesStay
  <2> QED
    BY <2>1, <2>2, <2>3, <2>4 DEF ViewerInv, Sequenced
<1>7. CASE UNCHANGED Viewer!vars
  <2>1. Viewer!TypeOK'
    BY <1>7 DEF Viewer!vars, Viewer!user, Viewer!control, ViewerInv, Viewer!TypeOK,
       Viewer!ConstantsAssumption, Viewer!WorkerState
  <2>2. Places'
    BY <1>7 DEF Viewer!vars, Viewer!user, Viewer!control, ViewerInv, Viewer!TypeOK, Places, Early,
       Viewer!WorkerState
  <2>3. Marks'
    BY <1>7 DEF Viewer!vars, Viewer!user, Viewer!control, ViewerInv, Viewer!TypeOK, Places, Marks,
       Viewer!AbortedBeforeConnecting, Early, Viewer!WorkerState
  <2>4. Sequenced'
    <3>1. /\ UNCHANGED << queue, toPeer >>
          /\ localStop => localStop'
          /\ writer' \in {"idle", "sending"} =>
                writer \in {"idle", "sending"} /\ (Queues' => Queues /\ pressed' = pressed)
      BY <1>7 DEF Viewer!vars, Viewer!user, Viewer!control, Queues, ViewerInv, Viewer!TypeOK
    <3> QED
      BY <3>1, SequencesStay
  <2> QED
    BY <2>1, <2>2, <2>3, <2>4 DEF ViewerInv, Sequenced
<1> QED
  BY <1>1, <1>2, <1>3, <1>4, <1>5, <1>6, <1>7

\* A step of the worker before it is connected.
LEMMA ViewerConnects ==
    ASSUME Viewer!ConstantsAssumption, ViewerInv,
           Viewer!Connect \/ Viewer!Register \/ Viewer!Handshake \/ Viewer!Request
             \/ Viewer!Answered
    PROVE  ViewerInv'
<1>1. CASE Viewer!Connect
  <2>1. Viewer!TypeOK'
    BY <1>1 DEF Viewer!Connect, Viewer!WorkerOnly, Viewer!user, Viewer!control, ViewerInv,
       Viewer!TypeOK, Viewer!ConstantsAssumption, Viewer!WorkerState
  <2>2. Places'
    BY <1>1 DEF Viewer!Connect, Viewer!WorkerOnly, Viewer!user, Viewer!control, ViewerInv,
       Viewer!TypeOK, Places, Early, Viewer!WorkerState
  <2>3. Marks'
    BY <1>1 DEF Viewer!Connect, Viewer!WorkerOnly, Viewer!user, Viewer!control, ViewerInv,
       Viewer!TypeOK, Places, Marks, Viewer!AbortedBeforeConnecting, Early, Viewer!WorkerState
  <2>4. Sequenced'
    <3>1. /\ UNCHANGED << queue, toPeer >>
          /\ localStop => localStop'
          /\ writer' \in {"idle", "sending"} =>
                writer \in {"idle", "sending"} /\ (Queues' => Queues /\ pressed' = pressed)
      BY <1>1 DEF Viewer!Connect, Viewer!WorkerOnly, Viewer!user, Viewer!control, Queues, ViewerInv,
         Viewer!TypeOK
    <3> QED
      BY <3>1, SequencesStay
  <2> QED
    BY <2>1, <2>2, <2>3, <2>4 DEF ViewerInv, Sequenced
<1>2. CASE Viewer!Register
  <2>1. Viewer!TypeOK'
    <3>1. /\ UNCHANGED << Viewer!user, cancelled, localStop, sender, writer, watchdog, queue, toPeer,
                         arrived, frames, tooLate >>
          /\ viewer' \in {"finished", "handshake"} /\ stream' \in {"shut", "open"}
          /\ socket' \in {socket, TRUE}
      BY <1>2 DEF Viewer!Register
    <3>2. /\ socket' \in BOOLEAN /\ stream' \in {"none", "open", "shut"}
          /\ socket' => stream' # "none"
      BY <3>1 DEF ViewerInv, Viewer!TypeOK
    <3>3. viewer' \in Viewer!WorkerState
      BY <3>1 DEF Viewer!WorkerState
    <3> QED
      BY <3>1, <3>2, <3>3 DEF Viewer!user, ViewerInv, Viewer!TypeOK
  <2>2. Places'
    BY <1>2 DEF Viewer!Register, Viewer!user, Viewer!control, ViewerInv, Viewer!TypeOK, Places,
       Early, Viewer!WorkerState
  <2>3. Marks'
    BY <1>2 DEF Viewer!Register, Viewer!user, Viewer!control, ViewerInv, Viewer!TypeOK, Places,
       Marks, Viewer!AbortedBeforeConnecting, Early, Viewer!WorkerState
  <2>4. Sequenced'
    <3>1. /\ UNCHANGED << queue, toPeer >>
          /\ localStop => localStop'
          /\ writer' \in {"idle", "sending"} =>
                writer \in {"idle", "sending"} /\ (Queues' => Queues /\ pressed' = pressed)
      BY <1>2 DEF Viewer!Register, Viewer!user, Viewer!control, Queues, ViewerInv, Viewer!TypeOK
    <3> QED
      BY <3>1, SequencesStay
  <2> QED
    BY <2>1, <2>2, <2>3, <2>4 DEF ViewerInv, Sequenced
<1>3. CASE Viewer!Handshake
  <2>1. Viewer!TypeOK'
    BY <1>3 DEF Viewer!Handshake, Viewer!WorkerOnly, Viewer!user, Viewer!control, ViewerInv,
       Viewer!TypeOK, Viewer!ConstantsAssumption, Viewer!WorkerState
  <2>2. Places'
    BY <1>3 DEF Viewer!Handshake, Viewer!WorkerOnly, Viewer!user, Viewer!control, ViewerInv,
       Viewer!TypeOK, Places, Early, Viewer!WorkerState
  <2>3. Marks'
    BY <1>3 DEF Viewer!Handshake, Viewer!WorkerOnly, Viewer!user, Viewer!control, ViewerInv,
       Viewer!TypeOK, Places, Marks, Viewer!AbortedBeforeConnecting, Early, Viewer!WorkerState
  <2>4. Sequenced'
    <3>1. /\ UNCHANGED << queue, toPeer >>
          /\ localStop => localStop'
          /\ writer' \in {"idle", "sending"} =>
                writer \in {"idle", "sending"} /\ (Queues' => Queues /\ pressed' = pressed)
      BY <1>3 DEF Viewer!Handshake, Viewer!WorkerOnly, Viewer!user, Viewer!control, Queues,
         ViewerInv, Viewer!TypeOK
    <3> QED
      BY <3>1, SequencesStay
  <2> QED
    BY <2>1, <2>2, <2>3, <2>4 DEF ViewerInv, Sequenced
<1>4. CASE Viewer!Request
  <2>1. Viewer!TypeOK'
    BY <1>4 DEF Viewer!Request, Viewer!WorkerOnly, Viewer!user, Viewer!control, ViewerInv,
       Viewer!TypeOK, Viewer!ConstantsAssumption, Viewer!WorkerState
  <2>2. Places'
    BY <1>4 DEF Viewer!Request, Viewer!WorkerOnly, Viewer!user, Viewer!control, ViewerInv,
       Viewer!TypeOK, Places, Early, Viewer!WorkerState
  <2>3. Marks'
    BY <1>4 DEF Viewer!Request, Viewer!WorkerOnly, Viewer!user, Viewer!control, ViewerInv,
       Viewer!TypeOK, Places, Marks, Viewer!AbortedBeforeConnecting, Early, Viewer!WorkerState
  <2>4. Sequenced'
    <3>1. /\ UNCHANGED << queue, toPeer >>
          /\ localStop => localStop'
          /\ writer' \in {"idle", "sending"} =>
                writer \in {"idle", "sending"} /\ (Queues' => Queues /\ pressed' = pressed)
      BY <1>4 DEF Viewer!Request, Viewer!WorkerOnly, Viewer!user, Viewer!control, Queues, ViewerInv,
         Viewer!TypeOK
    <3> QED
      BY <3>1, SequencesStay
  <2> QED
    BY <2>1, <2>2, <2>3, <2>4 DEF ViewerInv, Sequenced
<1>5. CASE Viewer!Answered
  <2>1. Viewer!TypeOK'
    BY <1>5 DEF Viewer!Answered, Viewer!WorkerOnly, Viewer!user, Viewer!control, ViewerInv,
       Viewer!TypeOK, Viewer!ConstantsAssumption, Viewer!WorkerState
  <2>2. Places'
    BY <1>5 DEF Viewer!Answered, Viewer!WorkerOnly, Viewer!user, Viewer!control, ViewerInv,
       Viewer!TypeOK, Places, Early, Viewer!WorkerState
  <2>3. Marks'
    BY <1>5 DEF Viewer!Answered, Viewer!WorkerOnly, Viewer!user, Viewer!control, ViewerInv,
       Viewer!TypeOK, Places, Marks, Viewer!AbortedBeforeConnecting, Early, Viewer!WorkerState
  <2>4. Sequenced'
    <3>1. /\ UNCHANGED << queue, toPeer >>
          /\ localStop => localStop'
          /\ writer' \in {"idle", "sending"} =>
                writer \in {"idle", "sending"} /\ (Queues' => Queues /\ pressed' = pressed)
      BY <1>5 DEF Viewer!Answered, Viewer!WorkerOnly, Viewer!user, Viewer!control, Queues,
         ViewerInv, Viewer!TypeOK
    <3> QED
      BY <3>1, SequencesStay
  <2> QED
    BY <2>1, <2>2, <2>3, <2>4 DEF ViewerInv, Sequenced
<1> QED
  BY <1>1, <1>2, <1>3, <1>4, <1>5

\* A step of the worker on its way out.
LEMMA ViewerLeaves ==
    ASSUME Viewer!ConstantsAssumption, ViewerInv,
           Viewer!ReceiveFails \/ Viewer!Leave \/ Viewer!Join
    PROVE  ViewerInv'
<1>1. CASE Viewer!ReceiveFails
  <2>1. Viewer!TypeOK'
    BY <1>1 DEF Viewer!ReceiveFails, Viewer!WorkerOnly, Viewer!user, Viewer!control, ViewerInv,
       Viewer!TypeOK, Viewer!ConstantsAssumption, Viewer!WorkerState
  <2>2. Places'
    BY <1>1 DEF Viewer!ReceiveFails, Viewer!WorkerOnly, Viewer!user, Viewer!control, ViewerInv,
       Viewer!TypeOK, Places, Early, Viewer!WorkerState
  <2>3. Marks'
    BY <1>1 DEF Viewer!ReceiveFails, Viewer!WorkerOnly, Viewer!user, Viewer!control, ViewerInv,
       Viewer!TypeOK, Places, Marks, Viewer!AbortedBeforeConnecting, Early, Viewer!WorkerState
  <2>4. Sequenced'
    <3>1. /\ UNCHANGED << queue, toPeer >>
          /\ localStop => localStop'
          /\ writer' \in {"idle", "sending"} =>
                writer \in {"idle", "sending"} /\ (Queues' => Queues /\ pressed' = pressed)
      BY <1>1 DEF Viewer!ReceiveFails, Viewer!WorkerOnly, Viewer!user, Viewer!control, Queues,
         ViewerInv, Viewer!TypeOK
    <3> QED
      BY <3>1, SequencesStay
  <2> QED
    BY <2>1, <2>2, <2>3, <2>4 DEF ViewerInv, Sequenced
<1>2. CASE Viewer!Leave
  <2>1. Viewer!TypeOK'
    <3>1. UNCHANGED << window, pressed, inputs, dropped, localStop, writer, watchdog, queue, toPeer,
          arrived, frames >>
      BY <1>2 DEF Viewer!Leave, Viewer!Cancel, Viewer!CloseSocket, Viewer!user, Viewer!control
    <3>2. viewer' \in Viewer!WorkerState /\ sender' \in BOOLEAN
      BY <1>2 DEF Viewer!Leave, Viewer!Cancel, Viewer!CloseSocket, Viewer!user, Viewer!control,
         ViewerInv, Viewer!TypeOK, Viewer!WorkerState
    <3>3. cancelled' \in BOOLEAN /\ tooLate' \in BOOLEAN
      BY <1>2 DEF Viewer!Leave, Viewer!Cancel, Viewer!CloseSocket, Viewer!user, Viewer!control,
         ViewerInv, Viewer!TypeOK
    <3>4. /\ socket' \in BOOLEAN /\ stream' \in {"none", "open", "shut"}
          /\ socket' => stream' # "none"
      <4>1. (socket' = socket /\ stream' = stream)
              \/ (socket' = FALSE /\ stream' \in {stream, "shut"})
        BY <1>2 DEF Viewer!Leave, Viewer!Cancel, Viewer!CloseSocket, Viewer!user, Viewer!control
      <4>2. /\ socket \in BOOLEAN /\ stream \in {"none", "open", "shut"}
            /\ socket => stream # "none"
        BY DEF ViewerInv, Viewer!TypeOK
      <4>3. CASE socket' = socket /\ stream' = stream
        BY <4>2, <4>3
      <4>4. CASE socket' = FALSE /\ stream' \in {stream, "shut"}
        BY <4>2, <4>4
      <4> QED
        BY <4>1, <4>3, <4>4
    <3> QED
      BY <3>1, <3>2, <3>3, <3>4 DEF ViewerInv, Viewer!TypeOK
  <2>2. Places'
    BY <1>2 DEF Viewer!Leave, Viewer!Cancel, Viewer!CloseSocket, Viewer!user, Viewer!control,
       ViewerInv, Viewer!TypeOK, Places, Early, Viewer!WorkerState
  <2>3. Marks'
    BY <1>2 DEF Viewer!Leave, Viewer!Cancel, Viewer!CloseSocket, Viewer!user, Viewer!control,
       ViewerInv, Viewer!TypeOK, Places, Marks, Viewer!AbortedBeforeConnecting, Early,
       Viewer!WorkerState
  <2>4. Sequenced'
    <3>1. /\ UNCHANGED << queue, toPeer >>
          /\ localStop => localStop'
          /\ writer' \in {"idle", "sending"} =>
                writer \in {"idle", "sending"} /\ (Queues' => Queues /\ pressed' = pressed)
      BY <1>2 DEF Viewer!Leave, Viewer!Cancel, Viewer!CloseSocket, Viewer!user, Viewer!control,
         Queues, ViewerInv, Viewer!TypeOK
    <3> QED
      BY <3>1, SequencesStay
  <2> QED
    BY <2>1, <2>2, <2>3, <2>4 DEF ViewerInv, Sequenced
<1>3. CASE Viewer!Join
  <2>1. Viewer!TypeOK'
    BY <1>3 DEF Viewer!Join, Viewer!WorkerOnly, Viewer!user, Viewer!control, ViewerInv,
       Viewer!TypeOK, Viewer!ConstantsAssumption, Viewer!WorkerState
  <2>2. Places'
    BY <1>3 DEF Viewer!Join, Viewer!WorkerOnly, Viewer!user, Viewer!control, ViewerInv,
       Viewer!TypeOK, Places, Early, Viewer!WorkerState
  <2>3. Marks'
    BY <1>3 DEF Viewer!Join, Viewer!WorkerOnly, Viewer!user, Viewer!control, ViewerInv,
       Viewer!TypeOK, Places, Marks, Viewer!AbortedBeforeConnecting, Early, Viewer!WorkerState
  <2>4. Sequenced'
    <3>1. /\ UNCHANGED << queue, toPeer >>
          /\ localStop => localStop'
          /\ writer' \in {"idle", "sending"} =>
                writer \in {"idle", "sending"} /\ (Queues' => Queues /\ pressed' = pressed)
      BY <1>3 DEF Viewer!Join, Viewer!WorkerOnly, Viewer!user, Viewer!control, Queues, ViewerInv,
         Viewer!TypeOK
    <3> QED
      BY <3>1, SequencesStay
  <2> QED
    BY <2>1, <2>2, <2>3, <2>4 DEF ViewerInv, Sequenced
<1> QED
  BY <1>1, <1>2, <1>3

\* A step of the writer thread that writes nothing.
LEMMA ViewerWriterGoes ==
    ASSUME Viewer!ConstantsAssumption, ViewerInv,
           Viewer!WriterStops \/ Viewer!WriterTakes \/ Viewer!WriterPings \/ Viewer!WriterAborts
    PROVE  ViewerInv'
<1>1. CASE Viewer!WriterStops
  <2>1. Viewer!TypeOK'
    BY <1>1 DEF Viewer!WriterStops, Viewer!user, Viewer!control, ViewerInv, Viewer!TypeOK,
       Viewer!ConstantsAssumption, Viewer!WorkerState
  <2>2. Places'
    BY <1>1 DEF Viewer!WriterStops, Viewer!user, Viewer!control, ViewerInv, Viewer!TypeOK, Places,
       Early, Viewer!WorkerState
  <2>3. Marks'
    BY <1>1 DEF Viewer!WriterStops, Viewer!user, Viewer!control, ViewerInv, Viewer!TypeOK, Places,
       Marks, Viewer!AbortedBeforeConnecting, Early, Viewer!WorkerState
  <2>4. Sequenced'
    <3>1. /\ UNCHANGED << queue, toPeer >>
          /\ localStop => localStop'
          /\ writer' \in {"idle", "sending"} =>
                writer \in {"idle", "sending"} /\ (Queues' => Queues /\ pressed' = pressed)
      BY <1>1 DEF Viewer!WriterStops, Viewer!user, Viewer!control, Queues, ViewerInv, Viewer!TypeOK
    <3> QED
      BY <3>1, SequencesStay
  <2> QED
    BY <2>1, <2>2, <2>3, <2>4 DEF ViewerInv, Sequenced
<1>2. CASE Viewer!WriterTakes
  <2>1. Viewer!TypeOK'
    BY <1>2 DEF Viewer!WriterTakes, Viewer!WriterOnly, Viewer!user, Viewer!control, ViewerInv,
       Viewer!TypeOK, Viewer!ConstantsAssumption, Viewer!WorkerState
  <2>2. Places'
    BY <1>2 DEF Viewer!WriterTakes, Viewer!WriterOnly, Viewer!user, Viewer!control, ViewerInv,
       Viewer!TypeOK, Places, Early, Viewer!WorkerState
  <2>3. Marks'
    BY <1>2 DEF Viewer!WriterTakes, Viewer!WriterOnly, Viewer!user, Viewer!control, ViewerInv,
       Viewer!TypeOK, Places, Marks, Viewer!AbortedBeforeConnecting, Early, Viewer!WorkerState
  <2>4. Sequenced'
    <3>1. /\ UNCHANGED << queue, toPeer >>
          /\ localStop => localStop'
          /\ writer' \in {"idle", "sending"} =>
                writer \in {"idle", "sending"} /\ (Queues' => Queues /\ pressed' = pressed)
      BY <1>2 DEF Viewer!WriterTakes, Viewer!WriterOnly, Viewer!user, Viewer!control, Queues,
         ViewerInv, Viewer!TypeOK
    <3> QED
      BY <3>1, SequencesStay
  <2> QED
    BY <2>1, <2>2, <2>3, <2>4 DEF ViewerInv, Sequenced
<1>3. CASE Viewer!WriterPings
  <2>1. Viewer!TypeOK'
    BY <1>3 DEF Viewer!WriterPings, Viewer!WriterOnly, Viewer!user, Viewer!control, ViewerInv,
       Viewer!TypeOK, Viewer!ConstantsAssumption, Viewer!WorkerState
  <2>2. Places'
    BY <1>3 DEF Viewer!WriterPings, Viewer!WriterOnly, Viewer!user, Viewer!control, ViewerInv,
       Viewer!TypeOK, Places, Early, Viewer!WorkerState
  <2>3. Marks'
    BY <1>3 DEF Viewer!WriterPings, Viewer!WriterOnly, Viewer!user, Viewer!control, ViewerInv,
       Viewer!TypeOK, Places, Marks, Viewer!AbortedBeforeConnecting, Early, Viewer!WorkerState
  <2>4. Sequenced'
    <3>1. /\ UNCHANGED << queue, toPeer >>
          /\ localStop => localStop'
          /\ writer' \in {"idle", "sending"} =>
                writer \in {"idle", "sending"} /\ (Queues' => Queues /\ pressed' = pressed)
      BY <1>3 DEF Viewer!WriterPings, Viewer!WriterOnly, Viewer!user, Viewer!control, Queues,
         ViewerInv, Viewer!TypeOK
    <3> QED
      BY <3>1, SequencesStay
  <2> QED
    BY <2>1, <2>2, <2>3, <2>4 DEF ViewerInv, Sequenced
<1>4. CASE Viewer!WriterAborts
  <2>1. Viewer!TypeOK'
    <3>1. UNCHANGED << window, pressed, inputs, dropped, localStop, viewer, watchdog, queue, toPeer,
          arrived, frames >>
      BY <1>4 DEF Viewer!WriterAborts, Viewer!Cancel, Viewer!CloseSocket, Viewer!user,
         Viewer!control
    <3>2. writer' \in {"none", "idle", "sending", "cancel", "close", "ended"} /\ sender' \in BOOLEAN
      BY <1>4 DEF Viewer!WriterAborts, Viewer!Cancel, Viewer!CloseSocket, Viewer!user,
         Viewer!control, ViewerInv, Viewer!TypeOK, Viewer!WorkerState
    <3>3. cancelled' \in BOOLEAN /\ tooLate' \in BOOLEAN
      BY <1>4 DEF Viewer!WriterAborts, Viewer!Cancel, Viewer!CloseSocket, Viewer!user,
         Viewer!control, ViewerInv, Viewer!TypeOK
    <3>4. /\ socket' \in BOOLEAN /\ stream' \in {"none", "open", "shut"}
          /\ socket' => stream' # "none"
      <4>1. (socket' = socket /\ stream' = stream)
              \/ (socket' = FALSE /\ stream' \in {stream, "shut"})
        BY <1>4 DEF Viewer!WriterAborts, Viewer!Cancel, Viewer!CloseSocket, Viewer!user,
           Viewer!control
      <4>2. /\ socket \in BOOLEAN /\ stream \in {"none", "open", "shut"}
            /\ socket => stream # "none"
        BY DEF ViewerInv, Viewer!TypeOK
      <4>3. CASE socket' = socket /\ stream' = stream
        BY <4>2, <4>3
      <4>4. CASE socket' = FALSE /\ stream' \in {stream, "shut"}
        BY <4>2, <4>4
      <4> QED
        BY <4>1, <4>3, <4>4
    <3> QED
      BY <3>1, <3>2, <3>3, <3>4 DEF ViewerInv, Viewer!TypeOK
  <2>2. Places'
    BY <1>4 DEF Viewer!WriterAborts, Viewer!Cancel, Viewer!CloseSocket, Viewer!user, Viewer!control,
       ViewerInv, Viewer!TypeOK, Places, Early, Viewer!WorkerState
  <2>3. Marks'
    BY <1>4 DEF Viewer!WriterAborts, Viewer!Cancel, Viewer!CloseSocket, Viewer!user, Viewer!control,
       ViewerInv, Viewer!TypeOK, Places, Marks, Viewer!AbortedBeforeConnecting, Early,
       Viewer!WorkerState
  <2>4. Sequenced'
    <3>1. /\ UNCHANGED << queue, toPeer >>
          /\ localStop => localStop'
          /\ writer' \in {"idle", "sending"} =>
                writer \in {"idle", "sending"} /\ (Queues' => Queues /\ pressed' = pressed)
      BY <1>4 DEF Viewer!WriterAborts, Viewer!Cancel, Viewer!CloseSocket, Viewer!user,
         Viewer!control, Queues, ViewerInv, Viewer!TypeOK
    <3> QED
      BY <3>1, SequencesStay
  <2> QED
    BY <2>1, <2>2, <2>3, <2>4 DEF ViewerInv, Sequenced
<1> QED
  BY <1>1, <1>2, <1>3, <1>4

LEMMA ViewerInit == Viewer!ConstantsAssumption /\ Viewer!Init => ViewerInv
<1> SUFFICES ASSUME Viewer!ConstantsAssumption, Viewer!Init PROVE ViewerInv
  OBVIOUS
<1>1. Viewer!TypeOK
  <2>1. 0 \in 0 .. MaxInputs /\ 0 \in 0 .. MaxFrames
    BY DEF Viewer!ConstantsAssumption
  <2>2. queue \in Seq(Viewer!Messages) /\ Len(queue) <= QueueSize
    BY DEF Viewer!Init, Viewer!ConstantsAssumption
  <2>3. toPeer \in Seq(Viewer!Input \cup {"close"})
    <3> DEFINE S == Viewer!Input \cup {"close"}
    <3> HIDE DEF S
    <3>1. toPeer \in Seq(S)
      BY DEF Viewer!Init
    <3> QED
      BY <3>1 DEF S
  <2> QED
    BY <2>1, <2>2, <2>3 DEF Viewer!Init, Viewer!TypeOK, Viewer!WorkerState
<1>2. Places /\ Marks
  BY DEF Viewer!Init, Places, Marks, Viewer!AbortedBeforeConnecting, Early
<1>3. DOMAIN queue = {} /\ DOMAIN toPeer = {}
  BY DEF Viewer!Init
<1>4. Viewer!NoInputAfterClose /\ Viewer!InputAlternates /\ CloseIsLast
  BY <1>3 DEF Viewer!NoInputAfterClose, Viewer!InputAlternates, CloseIsLast
<1>5. InTurn
  BY DEF Viewer!Init, InTurn
<1> QED
  BY <1>1, <1>2, <1>4, <1>5 DEF ViewerInv

\* The writer starts with nothing to write, and the key up.
LEMMA ViewerStartsWriter ==
    ASSUME Viewer!ConstantsAssumption, ViewerInv, Viewer!StartWriter
    PROVE  ViewerInv'
<1>0. /\ UNCHANGED << Viewer!user, cancelled, localStop, socket, watchdog, queue, stream, toPeer,
         arrived,
                      frames, tooLate >>
      /\ viewer = "split" /\ viewer' = "receive" /\ writer' = "idle" /\ sender' = TRUE
  BY DEF Viewer!StartWriter
<1>e. writer = "none" /\ queue = << >> /\ toPeer = << >> /\ ~pressed /\ watchdog = "none"
  BY <1>0 DEF ViewerInv, Places, Early
<1>1. Viewer!TypeOK'
  BY <1>0 DEF ViewerInv, Viewer!TypeOK, Viewer!WorkerState, Viewer!user
<1>2. Places'
  BY <1>0, <1>e DEF ViewerInv, Places, Early, Viewer!user
<1>3. Marks'
  BY <1>0, <1>e DEF ViewerInv, Viewer!TypeOK, Places, Marks, Viewer!AbortedBeforeConnecting,
     Viewer!user
<1>4. queue' = << >> /\ toPeer' = << >> /\ DOMAIN queue' = {} /\ DOMAIN toPeer' = {}
        /\ Len(toPeer') = 0
  BY <1>0, <1>e
<1>5. Viewer!NoInputAfterClose' /\ Viewer!InputAlternates' /\ CloseIsLast'
  BY <1>4 DEF Viewer!NoInputAfterClose, Viewer!InputAlternates, CloseIsLast
<1>6. InTurn'
  <2>1. Viewer!Turn(0 + 1) = "press"
    BY DEF Viewer!Turn
  <2>2. ~pressed'
    BY <1>0, <1>e DEF Viewer!user
  <2>3. pressed' \in BOOLEAN
    BY <1>1 DEF Viewer!TypeOK
  <2> QED
    BY <1>4, <2>1, <2>2, <2>3 DEF InTurn
<1> QED
  BY <1>1, <1>2, <1>3, <1>5, <1>6 DEF ViewerInv

LEMMA ViewerTakesSender ==
    ASSUME Viewer!ConstantsAssumption, ViewerInv, Viewer!TakeSender
    PROVE  ViewerInv'
<1>0. /\ UNCHANGED << pressed, inputs, dropped, cancelled, localStop, socket, viewer, writer,
                      stream, toPeer, arrived, frames, tooLate >>
      /\ window = "take" /\ sender' = FALSE
  BY DEF Viewer!TakeSender
<1>t. /\ pressed' \in BOOLEAN /\ dropped' \in BOOLEAN /\ cancelled' \in BOOLEAN
      /\ localStop' \in BOOLEAN /\ sender' \in BOOLEAN /\ socket' \in BOOLEAN
      /\ tooLate' \in BOOLEAN /\ inputs' \in 0 .. MaxInputs /\ frames' \in 0 .. MaxFrames
      /\ toPeer' \in Seq(Viewer!Input \cup {"close"})
  BY <1>0 DEF ViewerInv, Viewer!TypeOK
<1>u. /\ viewer' \in Viewer!WorkerState
      /\ writer' \in {"none", "idle", "sending", "cancel", "close", "ended"}
      /\ watchdog \in {"none", "waiting", "cancel", "close", "ended"}
      /\ stream' \in {"none", "open", "shut"} /\ (socket' => stream' # "none")
      /\ arrived' \in {"nothing", "accepted", "frame", "ping", "close"}
  BY <1>0 DEF ViewerInv, Viewer!TypeOK
<1>s. localStop
  BY <1>0 DEF ViewerInv, Marks, Viewer!AbortedBeforeConnecting
<1>q. queue \in Seq(Viewer!Messages) /\ "close" \in Viewer!Messages \ Viewer!Input
  BY DEF ViewerInv, Viewer!TypeOK, Viewer!Messages, Viewer!Input
<1>1. CASE sender /\ Viewer!CanQueue
  <2>1. queue' = Append(queue, "close") /\ watchdog' = "waiting" /\ window' = "idle"
    BY <1>1 DEF Viewer!TakeSender
  <2>2. queue' \in Seq(Viewer!Messages) /\ queue' # << >> /\ Len(queue') = Len(queue) + 1
    BY <1>q, <2>1, Appended
  <2>3. Len(queue') <= QueueSize
    BY <1>1, <1>q, <2>2 DEF Viewer!CanQueue, Viewer!ConstantsAssumption
  <2>4. Viewer!TypeOK'
    BY <1>0, <1>t, <1>u, <2>1, <2>2, <2>3 DEF Viewer!TypeOK
  <2>5. Places'
    BY <1>0, <1>1, <2>1, <2>2 DEF ViewerInv, Places, Early
  <2>6. Marks'
    BY <1>0, <2>1 DEF ViewerInv, Marks, Viewer!AbortedBeforeConnecting
  <2>7. Sequenced'
    BY <1>0, <1>q, <1>s, <2>1, SequencesGrow DEF Queues
  <2> QED
    BY <2>4, <2>5, <2>6, <2>7 DEF ViewerInv, Sequenced
<1>2. CASE ~(sender /\ Viewer!CanQueue)
  <2>1. queue' = queue /\ watchdog' = watchdog /\ window' = "cancel"
    BY <1>2 DEF Viewer!TakeSender
  <2>2. queue' \in Seq(Viewer!Messages) /\ Len(queue') <= QueueSize
    BY <2>1 DEF ViewerInv, Viewer!TypeOK
  <2>3. watchdog' \in {"none", "waiting", "cancel", "close", "ended"}
    BY <2>1 DEF ViewerInv, Viewer!TypeOK
  <2>4. Viewer!TypeOK'
    BY <1>0, <1>t, <1>u, <2>1, <2>2, <2>3 DEF Viewer!TypeOK
  <2>5. Places'
    BY <1>0, <2>1 DEF ViewerInv, Places, Early
  <2>6. Marks'
    BY <1>0, <2>1 DEF ViewerInv, Marks, Viewer!AbortedBeforeConnecting
  <2>7. Sequenced'
    BY <1>0, <2>1, SequencesStay DEF Queues
  <2> QED
    BY <2>4, <2>5, <2>6, <2>7 DEF ViewerInv, Sequenced
<1> QED
  BY <1>1, <1>2

LEMMA ViewerKey ==
    ASSUME Viewer!ConstantsAssumption, ViewerInv, Viewer!Key
    PROVE  ViewerInv'
<1>0. /\ UNCHANGED << window, dropped, localStop, sender, socket, viewer, writer, watchdog,
                      toPeer, arrived, frames >>
      /\ writer # "none" /\ window = "idle" /\ ~dropped
  BY DEF Viewer!Key
<1>p. pressed \in BOOLEAN /\ pressed' = ~pressed /\ inputs' \in 0 .. MaxInputs
  <2>1. inputs \in 0 .. MaxInputs /\ (pressed \/ inputs < MaxInputs)
    BY DEF Viewer!Key, ViewerInv, Viewer!TypeOK
  <2>2. inputs' = IF pressed THEN inputs ELSE inputs + 1
    BY DEF Viewer!Key
  <2>3. inputs' \in 0 .. MaxInputs
    BY <2>1, <2>2 DEF Viewer!ConstantsAssumption
  <2> QED
    BY <2>3 DEF Viewer!Key, ViewerInv, Viewer!TypeOK
<1> DEFINE m == IF pressed THEN "release" ELSE "press"
<1>m. m \in Viewer!Messages /\ Viewer!SendRemote(m)
  BY DEF Viewer!Key, Viewer!Messages
<1>q. queue \in Seq(Viewer!Messages)
  BY DEF ViewerInv, Viewer!TypeOK
<1>1. CASE queue' = Append(queue, m) /\ Queues /\ UNCHANGED << cancelled, tooLate, stream >>
           /\ Len(queue) < QueueSize
  <2>2. queue' \in Seq(Viewer!Messages) /\ queue' # << >> /\ Len(queue') = Len(queue) + 1
    BY <1>1, <1>m, <1>q, Appended
  <2>3. Len(queue') <= QueueSize
    BY <1>1, <1>q, <2>2 DEF Viewer!ConstantsAssumption
  <2>4. Viewer!TypeOK'
    BY <1>0, <1>1, <1>p, <2>2, <2>3 DEF ViewerInv, Viewer!TypeOK
  <2>5. Places'
    BY <1>0, <1>1, <2>2 DEF ViewerInv, Places, Early
  <2>6. Marks'
    BY <1>0, <1>1 DEF ViewerInv, Marks, Viewer!AbortedBeforeConnecting
  <2>7. Sequenced'
    BY <1>0, <1>1, <1>p, SequencesTakeInput
  <2> QED
    BY <2>4, <2>5, <2>6, <2>7 DEF ViewerInv, Sequenced
<1>2. CASE /\ queue' = queue
           /\ \/ UNCHANGED << cancelled, tooLate, stream >> /\ (~Queues \/ writer = "ended")
              \/ Viewer!Cancel /\ stream' = IF socket THEN "shut" ELSE stream
  <2>0. /\ cancelled' \in {cancelled, TRUE} /\ tooLate' \in BOOLEAN /\ (tooLate' => cancelled')
        /\ stream' \in {stream, "shut"} /\ (socket => stream' # "none")
        /\ stream # "open" => stream' # "open"
        /\ stream' = "none" => stream = "none"
        /\ tooLate' => tooLate \/ stream = "none"
        /\ cancelled' \in BOOLEAN
    <3>1. /\ cancelled \in BOOLEAN /\ tooLate \in BOOLEAN /\ (tooLate => cancelled)
          /\ socket => stream # "none"
      BY DEF ViewerInv, Viewer!TypeOK, Marks, Viewer!AbortedBeforeConnecting
    <3>2. CASE UNCHANGED << cancelled, tooLate, stream >>
      BY <3>1, <3>2
    <3>3. CASE Viewer!Cancel /\ stream' = IF socket THEN "shut" ELSE stream
      BY <3>1, <3>3 DEF Viewer!Cancel
    <3> QED
      BY <1>2, <3>2, <3>3
  <2>4. Viewer!TypeOK'
    <3>1. stream' \in {"none", "open", "shut"} /\ (socket' => stream' # "none")
      BY <1>0, <2>0 DEF ViewerInv, Viewer!TypeOK
    <3> QED
      BY <1>0, <1>2, <1>p, <2>0, <3>1 DEF ViewerInv, Viewer!TypeOK
  <2>5. Places'
    BY <1>0, <1>2, <2>0 DEF ViewerInv, Places, Early
  <2>6. Marks'
    BY <1>0, <1>2, <2>0 DEF ViewerInv, Viewer!TypeOK, Places, Marks, Viewer!AbortedBeforeConnecting
  <2>7. Sequenced'
    <3>1. writer = "ended" \/ ~Queues'
      BY <1>0, <1>2, <2>0 DEF Queues, Viewer!Cancel
    <3> QED
      BY <1>0, <1>2, <3>1, SequencesStay
  <2> QED
    BY <2>4, <2>5, <2>6, <2>7 DEF ViewerInv, Sequenced
<1> QED
  BY <1>1, <1>2, <1>m DEF Viewer!SendRemote, Queues

LEMMA ViewerReceives ==
    ASSUME Viewer!ConstantsAssumption, ViewerInv, Viewer!Receive \/ Viewer!Ack
    PROVE  ViewerInv'
<1>0. /\ UNCHANGED << Viewer!user, Viewer!control, writer, watchdog, stream, toPeer, frames,
         tooLate >>
      /\ viewer \in {"receive", "ack"} /\ viewer' \in {"receive", "ack", "clear"}
      /\ arrived' \in {arrived, "nothing"}
  BY DEF Viewer!Receive, Viewer!Ack
<1>w. writer # "none" /\ queue \in Seq(Viewer!Messages) /\ Len(queue) <= QueueSize
  BY <1>0 DEF ViewerInv, Viewer!TypeOK, Places, Early
<1>1. CASE Viewer!CanQueue /\ \E m \in {"ack", "pong"} : queue' = Append(queue, m)
  <2>1. PICK m \in {"ack", "pong"} : queue' = Append(queue, m)
    BY <1>1
  <2>m. m \in Viewer!Messages \ Viewer!Input /\ m # "close"
    BY DEF Viewer!Messages, Viewer!Input
  <2>2. queue' \in Seq(Viewer!Messages) /\ queue' # << >> /\ Len(queue') = Len(queue) + 1
    BY <1>w, <2>1, <2>m, Appended
  <2>3. Len(queue') <= QueueSize
    BY <1>1, <1>w, <2>2 DEF Viewer!CanQueue, Viewer!ConstantsAssumption
  <2>4. Viewer!TypeOK'
    BY <1>0, <2>2, <2>3 DEF ViewerInv, Viewer!TypeOK, Viewer!WorkerState, Viewer!user,
       Viewer!control
  <2>5. Places'
    BY <1>0, <1>w, <2>2 DEF ViewerInv, Places, Early, Viewer!user, Viewer!control
  <2>6. Marks'
    BY <1>0 DEF ViewerInv, Marks, Viewer!AbortedBeforeConnecting, Viewer!user, Viewer!control
  <2>7. Sequenced'
    BY <1>0, <2>1, <2>m, SequencesGrow DEF Queues, Viewer!user, Viewer!control
  <2> QED
    BY <2>4, <2>5, <2>6, <2>7 DEF ViewerInv, Sequenced
<1>2. CASE queue' = queue
  <2>1. queue' \in Seq(Viewer!Messages) /\ Len(queue') <= QueueSize
    BY <1>2, <1>w
  <2>4. Viewer!TypeOK'
    BY <1>0, <2>1 DEF ViewerInv, Viewer!TypeOK, Viewer!WorkerState, Viewer!user, Viewer!control
  <2>5. Places'
    BY <1>0, <1>w, <1>2 DEF ViewerInv, Places, Early, Viewer!user, Viewer!control
  <2>6. Marks'
    BY <1>0 DEF ViewerInv, Marks, Viewer!AbortedBeforeConnecting, Viewer!user, Viewer!control
  <2>7. Sequenced'
    BY <1>0, <1>2, SequencesStay DEF Queues, Viewer!user, Viewer!control
  <2> QED
    BY <2>4, <2>5, <2>6, <2>7 DEF ViewerInv, Sequenced
<1> QED
  BY <1>1, <1>2 DEF Viewer!Receive, Viewer!Ack

LEMMA ViewerWrites ==
    ASSUME Viewer!ConstantsAssumption, ViewerInv, Viewer!WriterSends
    PROVE  ViewerInv'
<1>0. /\ UNCHANGED << Viewer!user, Viewer!control, viewer, watchdog, arrived, frames, tooLate >>
      /\ writer = "sending" /\ queue' = Tail(queue)
      /\ \/ /\ stream = "open" /\ stream' = stream /\ writer' = "idle"
            /\ \/ toPeer' = toPeer /\ Head(queue) \in {"ack", "pong"}
               \/ toPeer' = Append(toPeer, Head(queue)) /\ Head(queue) \notin {"ack", "pong"}
         \/ writer' = "cancel" /\ stream' = "shut" /\ toPeer' = toPeer
  BY DEF Viewer!WriterSends
<1>w. queue # << >> /\ queue \in Seq(Viewer!Messages) /\ Len(queue) <= QueueSize
  BY <1>0 DEF ViewerInv, Viewer!TypeOK, Places
<1>q. /\ queue' \in Seq(Viewer!Messages) /\ Head(queue) = queue[1] /\ queue[1] \in Viewer!Messages
      /\ Len(queue') = Len(queue) - 1 /\ Len(queue) \in Nat
  BY <1>0, <1>w, Taken
<1>1. Viewer!TypeOK'
  <2>1. toPeer' \in Seq(Viewer!Input \cup {"close"})
    <3> DEFINE S == Viewer!Input \cup {"close"}
    <3>1. toPeer \in Seq(S)
      BY DEF ViewerInv, Viewer!TypeOK
    <3>2. queue[1] \in {"ack", "pong"} \/ queue[1] \in S
      BY <1>q DEF Viewer!Messages, Viewer!Input
    <3> HIDE DEF S
    <3>3. toPeer' \in Seq(S)
      BY <1>0, <1>q, <3>1, <3>2
    <3> QED
      BY <3>3 DEF S
  <2>2. Len(queue') <= QueueSize
    BY <1>w, <1>q DEF Viewer!ConstantsAssumption
  <2>3. stream' \in {"none", "open", "shut"} /\ stream' # "none"
    BY <1>0
  <2>4. writer' \in {"none", "idle", "sending", "cancel", "close", "ended"}
    BY <1>0
  <2> QED
    BY <1>0, <1>q, <2>1, <2>2, <2>3, <2>4 DEF ViewerInv, Viewer!TypeOK, Viewer!user, Viewer!control
<1>2. Places'
  BY <1>0 DEF ViewerInv, Viewer!TypeOK, Places, Early, Viewer!user, Viewer!control
<1>3. Marks'
  BY <1>0 DEF ViewerInv, Marks, Viewer!AbortedBeforeConnecting, Viewer!user, Viewer!control
<1>4. Sequenced'
  <2>0. UNCHANGED << pressed, localStop >> /\ (Queues' => Queues)
    BY <1>0 DEF Queues, Viewer!user, Viewer!control
  <2>1. CASE queue[1] \in Viewer!Input /\ toPeer' = Append(toPeer, queue[1])
    BY <1>0, <1>w, <2>0, <2>1, SequencesWriteInput
  <2>2. CASE ~(queue[1] \in Viewer!Input /\ toPeer' = Append(toPeer, queue[1]))
    <3>1. \/ toPeer' = toPeer /\ (queue[1] \in {"ack", "pong"} \/ writer' = "cancel")
          \/ toPeer' = Append(toPeer, queue[1]) /\ queue[1] = "close"
      BY <1>0, <1>q, <2>2 DEF Viewer!Messages, Viewer!Input
    <3> QED
      BY <1>0, <1>w, <2>0, <3>1, SequencesSkip
  <2> QED
    BY <2>1, <2>2
<1> QED
  BY <1>1, <1>2, <1>3, <1>4 DEF ViewerInv, Sequenced

LEMMA ViewerStep ==
    Viewer!ConstantsAssumption /\ ViewerInv /\ [Viewer!Next]_(Viewer!vars) => ViewerInv'
BY ViewerStopped, ViewerConnects, ViewerLeaves, ViewerWriterGoes, ViewerStartsWriter,
   ViewerTakesSender, ViewerKey, ViewerReceives, ViewerWrites
   DEF Viewer!Next, Viewer!WindowStep, Viewer!WorkerStep, Viewer!WriterLoops, Viewer!WriterWrites

LEMMA ViewerIsSafe ==
    ViewerInv => /\ Viewer!TypeOK /\ Viewer!AbortedBeforeConnecting /\ Viewer!NoInputAfterClose
                      /\ Viewer!InputAlternates
                 /\ Viewer!NothingLeft
<1> SUFFICES ASSUME ViewerInv
             PROVE  /\ Viewer!TypeOK /\ Viewer!AbortedBeforeConnecting /\ Viewer!NoInputAfterClose
                      /\ Viewer!InputAlternates
                    /\ Viewer!NothingLeft
  OBVIOUS
<1>1. Viewer!AbortedBeforeConnecting
  BY DEF ViewerInv, Marks
<1>2. Viewer!NothingLeft
  BY DEF ViewerInv, Viewer!TypeOK, Places, Marks, Viewer!AbortedBeforeConnecting, Viewer!NothingLeft
<1> QED
  BY <1>1, <1>2 DEF ViewerInv

-----------------------------------------------------------------------------
(* The window *)

\* What a worker has sent: the window has taken a part of it
Given(r, e)  == \E k \in DOMAIN batch : batch[k] = [role |-> r, event |-> e]
Coming(r, e) == \E k \in DOMAIN events[r] : events[r][k] = e

\* An event comes from the worker there is
Sent ==
    \A r \in App!Roles :
        /\ \A e \in App!Events : Given(r, e) \/ Coming(r, e) => workers[r] # None
        /\ Given(r, "consent") \/ Coming(r, "consent") => workers[r].kind # None
        /\ Given(r, "format") \/ Coming(r, "format") => r = "job"

\* A worker that has ended says nothing any more
Over(r) == workers[r].phase = "done" /\ events[r] = << >>
EndIsLast ==
    /\ \A k \in DOMAIN batch : batch[k].event = "finished" =>
        Over(batch[k].role) /\ \A l \in k + 1 .. Len(batch) : batch[l].role # batch[k].role
    /\ \A r \in App!Roles : \A k \in DOMAIN events[r] : events[r][k] = "finished" =>
        workers[r].phase = "done" /\ k = Len(events[r])
    /\ \A r \in App!Roles : lost[r] => workers[r] = None \/ Over(r)
    /\ ~polling => batch = << >> /\ \A r \in App!Roles : ~lost[r]

\* The listener is busy from its prompt on, and the device is then in no session of its own
Busy ==
    /\ busy => workers["job"] = None
    /\ consent = "listener" => busy
    /\ workers["listener"] # None =>
        /\ workers["listener"].task = "listen"
        /\ workers["listener"].reply = "yes" \/ workers["listener"].phase = "session" => busy

\* The view is of the job whose close is due
Viewed == closing => source = "job" /\ workers["job"] # None /\ workers["job"].closed

\* A listener that is to be there is
Kept == enabled => workers["listener"] # None /\ ~workers["listener"].stopped

AppInv ==
    /\ App!TypeOK /\ App!PromptOfItsWorker /\ App!RevokedSessionsStop /\ App!ViewKept
    /\ Sent /\ EndIsLast /\ Busy /\ Viewed /\ Kept
-----------------------------------------------------------------------------
\* Worker, field by field.
LEMMA WorkerFields ==
    ASSUME NEW w \in App!Worker
    PROVE  /\ w.task \in Tasks \cup {"listen"} /\ w.phase \in App!Phases /\ w.stopped \in BOOLEAN
           /\ w.kind \in Kinds \cup {None} /\ w.reply \in {"none", "yes", "no"}
           /\ w.by \in {"none", "user", "grant"} /\ w.drawn \in BOOLEAN /\ w.closed \in BOOLEAN
BY DEF App!Worker

LEMMA FreshWorker ==
    ASSUME NEW t \in Tasks \cup {"listen"}
    PROVE  /\ App!Fresh(t) \in App!Worker
           /\ App!Fresh(t).task = t /\ App!Fresh(t).phase = "begun" /\ App!Fresh(t).kind = None
           /\ App!Fresh(t).reply = "none" /\ App!Fresh(t).by = "none"
           /\ ~App!Fresh(t).stopped /\ ~App!Fresh(t).drawn /\ ~App!Fresh(t).closed
BY DEF App!Fresh, App!Worker, App!Phases

\* The workers after a step that replaces that of role r.
OnlyOf(r) ==
    /\ workers' \in [App!Roles -> App!Worker \cup {None}]
    /\ \A o \in App!Roles : o # r => workers'[o] = workers[o]

LEMMA AppBasics ==
    ASSUME App!KindsAssumption, AppInv
    PROVE  /\ workers \in [App!Roles -> App!Worker \cup {None}]
           /\ events \in [App!Roles -> Seq(App!Events)] /\ lost \in [App!Roles -> BOOLEAN]
           /\ None \notin App!Worker /\ None \notin App!Roles /\ None \notin Kinds
           /\ \A r \in App!Roles : workers[r] # None => workers[r] \in App!Worker
           /\ "job" \in App!Roles /\ "listener" \in App!Roles /\ App!Roles = {"job", "listener"}
BY DEF App!KindsAssumption, AppInv, App!TypeOK, App!Roles

\* A step that takes the first of the batch, or nothing.
LEMMA BatchTaken ==
    ASSUME AppInv, batch' = batch \/ (batch # << >> /\ batch' = Tail(batch))
    PROVE  /\ batch' \in Seq([role : App!Roles, event : App!Events])
           /\ \A r, e : Given(r, e)' => Given(r, e)
           /\ \A k \in DOMAIN batch' :
                /\ batch'[k].role \in App!Roles
                /\ batch'[k].event = "finished" =>
                    /\ Over(batch'[k].role)
                    /\ \A l \in k + 1 .. Len(batch') : batch'[l].role # batch'[k].role
<1> DEFINE Notes == [role : App!Roles, event : App!Events]
<1>b. batch \in Seq(Notes)
  BY DEF AppInv, App!TypeOK
<1> HIDE DEF Notes
<1>1. batch' \in Seq(Notes) /\ Len(batch) \in Nat /\ DOMAIN batch = 1 .. Len(batch)
  BY <1>b, Taken
<1>2. PICK d \in {0, 1} : /\ DOMAIN batch' = 1 .. Len(batch) - d /\ Len(batch') = Len(batch) - d
                          /\ \A k \in DOMAIN batch' : batch'[k] = batch[k + d]
                               /\ k + d \in DOMAIN batch
  <2>2. CASE batch' = batch
    <3>1. /\ DOMAIN batch' = 1 .. Len(batch) - 0 /\ Len(batch') = Len(batch) - 0
          /\ \A k \in DOMAIN batch' : batch'[k] = batch[k + 0] /\ k + 0 \in DOMAIN batch
      BY <1>1, <2>2
    <3> QED
      BY <3>1
  <2>3. CASE batch # << >> /\ batch' = Tail(batch)
    <3>1. /\ DOMAIN batch' = 1 .. Len(batch) - 1 /\ Len(batch') = Len(batch) - 1
          /\ \A k \in 1 .. Len(batch) - 1 : batch'[k] = batch[k + 1]
      BY <1>b, <2>3, Taken
    <3>2. \A k \in DOMAIN batch' : batch'[k] = batch[k + 1] /\ k + 1 \in DOMAIN batch
      BY <1>1, <3>1
    <3> QED
      BY <3>1, <3>2
  <2> QED
    BY <2>2, <2>3
<1>3. \A r, e : Given(r, e)' => Given(r, e)
  BY <1>2 DEF Given
<1>4. ASSUME NEW k \in DOMAIN batch'
      PROVE  /\ batch'[k].role \in App!Roles
             /\ batch'[k].event = "finished" =>
                 /\ Over(batch'[k].role)
                 /\ \A l \in k + 1 .. Len(batch') : batch'[l].role # batch'[k].role
  <2>1. k + d \in DOMAIN batch /\ batch'[k] = batch[k + d] /\ k \in Nat
    BY <1>1, <1>2
  <2>2. batch[k + d] \in Notes
    BY <1>b, <2>1
  <2>3. ASSUME batch'[k].event = "finished", NEW l \in k + 1 .. Len(batch')
        PROVE  batch'[l].role # batch'[k].role
    <3>1. \A m \in (k + d) + 1 .. Len(batch) : batch[m].role # batch[k + d].role
      BY <2>1, <2>3 DEF AppInv, EndIsLast
    <3>2. l \in DOMAIN batch' /\ l + d \in (k + d) + 1 .. Len(batch)
      BY <1>1, <1>2, <2>1
    <3> QED
      BY <1>2, <2>1, <3>1, <3>2
  <2>4. batch'[k].event = "finished" => Over(batch'[k].role)
    BY <2>1 DEF AppInv, EndIsLast
  <2> QED
    BY <2>1, <2>2, <2>3, <2>4 DEF Notes
<1> QED
  BY <1>1, <1>3, <1>4 DEF Notes

\* A step that leaves the queues, or takes the first of the batch, and no worker begins or ends.
LEMMA QueuesStay ==
    ASSUME App!KindsAssumption, AppInv, UNCHANGED << events, lost >>,
           batch' = batch \/ (batch # << >> /\ batch' = Tail(batch)),
           polling' = polling \/ (batch = << >> /\ batch' = << >> /\ \A r \in App!Roles : ~lost[r]),
           \A r \in App!Roles : /\ (workers'[r] = None) = (workers[r] = None)
                                /\ workers'[r].phase = workers[r].phase
                                /\ workers'[r].kind = workers[r].kind
    PROVE  Sent' /\ EndIsLast' /\ batch' \in Seq([role : App!Roles, event : App!Events])
<1>1. Sent'
  BY BatchTaken DEF AppInv, Sent, Coming
<1>2. \A r \in App!Roles : Over(r)' <=> Over(r)
  BY DEF Over
<1>3. EndIsLast'
  <2>1. \A r \in App!Roles : \A k \in DOMAIN events[r] : events[r][k] = "finished" =>
            workers'[r].phase = "done" /\ k = Len(events[r])
    BY DEF AppInv, EndIsLast
  <2>2. \A r \in App!Roles : lost[r] => workers'[r] = None \/ Over(r)'
    BY <1>2 DEF AppInv, EndIsLast
  <2>3. ~polling' => batch' = << >> /\ \A r \in App!Roles : ~lost[r]
    <3>1. ~polling => batch = << >> /\ \A r \in App!Roles : ~lost[r]
      BY DEF AppInv, EndIsLast
    <3> QED
      BY <3>1
  <2> QED
    BY <1>2, <2>1, <2>2, <2>3, BatchTaken DEF EndIsLast
<1> QED
  BY <1>1, <1>3, BatchTaken

\* A worker that lives has neither ended in a queue nor lost its channel.
LEMMA LivingSaysMore ==
    ASSUME App!KindsAssumption, AppInv, NEW r \in App!Roles, App!Lives(r)
    PROVE  /\ \A k \in DOMAIN batch : batch[k].event = "finished" => batch[k].role # r
           /\ \A k \in DOMAIN events[r] : events[r][k] # "finished"
           /\ ~lost[r]
BY DEF AppInv, EndIsLast, Over, App!Lives

\* A step of a worker, with or without an event.
LEMMA QueuesGrow ==
    ASSUME App!KindsAssumption, AppInv, NEW r \in App!Roles, App!Lives(r), OnlyOf(r),
           workers'[r] # None,
           workers'[r].kind = workers[r].kind \/ workers'[r].kind # None,
           UNCHANGED << batch, lost, polling >>,
           \/ events' = events
           \/ \E e \in App!Events : /\ events' = [events EXCEPT ![r] = Append(@, e)]
                                    /\ e = "consent" => workers'[r].kind # None
                                    /\ e = "format" => r = "job"
                                    /\ e = "finished" => workers'[r].phase = "done"
    PROVE  Sent' /\ EndIsLast' /\ events' \in [App!Roles -> Seq(App!Events)]
<1>t. events \in [App!Roles -> Seq(App!Events)] /\ workers[r] # None
  BY AppBasics DEF App!Lives
<1>l. /\ \A k \in DOMAIN batch : batch[k].event = "finished" => batch[k].role # r
      /\ \A k \in DOMAIN events[r] : events[r][k] # "finished"
      /\ ~lost[r]
  BY LivingSaysMore
<1>1. events' \in [App!Roles -> Seq(App!Events)] /\ \A o \in App!Roles : o # r
        => events'[o] = events[o]
  <2>1. ASSUME NEW e \in App!Events, events' = [events EXCEPT ![r] = Append(@, e)]
        PROVE  events' \in [App!Roles -> Seq(App!Events)] /\ \A o \in App!Roles : o # r
                 => events'[o] = events[o]
    <3>1. Append(events[r], e) \in Seq(App!Events)
      BY <1>t
    <3> QED
      BY <1>t, <2>1, <3>1
  <2> QED
    BY <1>t, <2>1
<1>2. \/ events'[r] = events[r]
      \/ \E e \in App!Events : /\ events'[r] = Append(events[r], e)
                               /\ e = "consent" => workers'[r].kind # None
                               /\ e = "format" => r = "job"
                               /\ e = "finished" => workers'[r].phase = "done"
  BY <1>t
<1>3. \A e : Coming(r, e)' => \/ Coming(r, e)
                              \/ /\ e = "consent" => workers'[r].kind # None
                                 /\ e = "format" => r = "job"
                                 /\ e = "finished" => workers'[r].phase = "done"
  <2>1. CASE events'[r] = events[r]
    BY <2>1 DEF Coming
  <2>2. ASSUME NEW e \in App!Events, events'[r] = Append(events[r], e),
               e = "consent" => workers'[r].kind # None, e = "format" => r = "job",
               e = "finished" => workers'[r].phase = "done",
               NEW x, Coming(r, x)'
        PROVE  Coming(r, x) \/ x = e
    <3>1. events[r] \in Seq(App!Events)
      BY <1>t
    <3>2. PICK k \in DOMAIN events'[r] : events'[r][k] = x
      BY <2>2 DEF Coming
    <3>3. (k \in DOMAIN events[r] /\ events'[r][k] = events[r][k]) \/ events'[r][k] = e
      BY <2>2, <3>1, <3>2, Appended
    <3> QED
      BY <3>2, <3>3 DEF Coming
  <2> QED
    BY <1>2, <2>1, <2>2
<1>4. \A o, e : Given(o, e)' <=> Given(o, e)
  BY DEF Given
<1>5. Sent'
  <2>1. ASSUME NEW o \in App!Roles
        PROVE  /\ \A e \in App!Events : Given(o, e)' \/ Coming(o, e)' => workers'[o] # None
               /\ Given(o, "consent")' \/ Coming(o, "consent")' => workers'[o].kind # None
               /\ Given(o, "format")' \/ Coming(o, "format")' => o = "job"
    <3>1. CASE o = r
      <4>1. /\ Given(r, "consent") \/ Coming(r, "consent") => workers[r].kind # None
            /\ Given(r, "format") \/ Coming(r, "format") => r = "job"
        BY DEF AppInv, Sent
      <4> QED
        BY <1>3, <1>4, <3>1, <4>1
    <3>2. CASE o # r
      <4>1. workers'[o] = workers[o] /\ \A e : Coming(o, e)' <=> Coming(o, e)
        BY <1>1, <3>2 DEF OnlyOf, Coming
      <4> QED
        BY <1>4, <4>1 DEF AppInv, Sent
    <3> QED
      BY <3>1, <3>2
  <2> QED
    BY <2>1 DEF Sent
<1>6. EndIsLast'
  <2>1. \A o \in App!Roles : o # r => (Over(o)' <=> Over(o)) /\ workers'[o] = workers[o]
    BY <1>1 DEF Over, OnlyOf
  <2>2. ASSUME NEW k \in DOMAIN batch, batch[k].event = "finished"
        PROVE  Over(batch[k].role)' /\ \A l \in k + 1 .. Len(batch) : batch[l].role # batch[k].role
    <3>1. batch[k].role \in App!Roles
      <4> DEFINE Notes == [role : App!Roles, event : App!Events]
      <4>1. batch \in Seq(Notes)
        BY DEF AppInv, App!TypeOK
      <4> HIDE DEF Notes
      <4>2. batch[k] \in Notes
        BY <4>1
      <4> QED
        BY <4>2 DEF Notes
    <3>2. /\ Over(batch[k].role)
          /\ \A l \in k + 1 .. Len(batch) : batch[l].role # batch[k].role
      BY <2>2 DEF AppInv, EndIsLast
    <3> QED
      BY <1>l, <2>1, <2>2, <3>1, <3>2
  <2>3. ASSUME NEW o \in App!Roles, NEW k \in DOMAIN events'[o], events'[o][k] = "finished"
        PROVE  workers'[o].phase = "done" /\ k = Len(events'[o])
    <3>1. CASE o # r
      BY <1>1, <2>1, <2>3, <3>1 DEF AppInv, EndIsLast
    <3>2. CASE o = r
      <4>1. events[r] \in Seq(App!Events)
        BY <1>t
      <4>2. PICK e \in App!Events : events'[r] = Append(events[r], e)
              /\ (e = "finished" => workers'[r].phase = "done")
        BY <1>2, <1>l, <2>3, <3>2
      <4>3. k = Len(events[r]) + 1 /\ e = "finished" /\ Len(events'[r]) = Len(events[r]) + 1
        BY <1>l, <2>3, <3>2, <4>1, <4>2, Appended
      <4> QED
        BY <3>2, <4>2, <4>3
    <3> QED
      BY <3>1, <3>2
  <2>4. \A o \in App!Roles : lost[o] => workers'[o] = None \/ Over(o)'
    BY <1>l, <2>1 DEF AppInv, EndIsLast
  <2>5. ~polling => batch = << >> /\ \A o \in App!Roles : ~lost[o]
    BY DEF AppInv, EndIsLast
  <2> QED
    BY <2>2, <2>3, <2>4, <2>5 DEF EndIsLast
<1> QED
  BY <1>1, <1>5, <1>6

\* A step that replaces a worker of which nothing waits any more.
LEMMA QueuesClear ==
    ASSUME App!KindsAssumption, AppInv, NEW r \in App!Roles, OnlyOf(r),
           events' \in [App!Roles -> Seq(App!Events)], events'[r] = << >>,
           \A o \in App!Roles : o # r => events'[o] = events[o] /\ lost'[o] = lost[o],
           lost'[r] => workers'[r] = None,
           batch' = batch \/ (batch # << >> /\ batch' = Tail(batch)),
           \A k \in DOMAIN batch' : batch'[k].role # r,
           UNCHANGED polling, lost' \in [App!Roles -> BOOLEAN], \A o \in App!Roles : lost'[o]
             => lost[o]
    PROVE  Sent' /\ EndIsLast' /\ batch' \in Seq([role : App!Roles, event : App!Events])
<1>1. \A k \in DOMAIN batch' : batch'[k].role # r
  OBVIOUS
<1>2. \A o, e : Given(o, e)' => Given(o, e) /\ o # r
  <2> SUFFICES ASSUME NEW o, NEW e, Given(o, e)' PROVE Given(o, e) /\ o # r
    OBVIOUS
  <2>1. PICK k \in DOMAIN batch' : batch'[k] = [role |-> o, event |-> e]
    BY DEF Given
  <2>2. batch'[k].role = o
    BY <2>1
  <2> QED
    BY <2>1, <2>2, BatchTaken
<1>3. \A o \in App!Roles : \A e : Coming(o, e)' => Coming(o, e) /\ o # r
  BY DEF Coming
<1>4. Sent'
  BY <1>2, <1>3 DEF AppInv, Sent, OnlyOf
<1>5. \A o \in App!Roles : o # r => workers'[o] = workers[o] /\ (Over(o)' <=> Over(o))
  BY DEF Over, OnlyOf
<1>6. EndIsLast'
  <2>1. \A k \in DOMAIN batch' : batch'[k].event = "finished" =>
            Over(batch[k].role)' /\ \A l \in k + 1 .. Len(batch') : batch'[l].role # batch'[k].role
    BY <1>1, <1>5, BatchTaken
  <2>2. ASSUME NEW o \in App!Roles, NEW k \in DOMAIN events'[o], events'[o][k] = "finished"
        PROVE  workers'[o].phase = "done" /\ k = Len(events'[o])
    <3>1. o # r
      BY <2>2
    <3>2. events'[o] = events[o] /\ workers'[o] = workers[o]
      BY <1>5, <3>1
    <3> QED
      BY <2>2, <3>2 DEF AppInv, EndIsLast
  <2>3. \A o \in App!Roles : lost'[o] => workers'[o] = None \/ Over(o)'
    BY <1>5 DEF AppInv, EndIsLast
  <2>4. ~polling' => batch' = << >> /\ \A o \in App!Roles : ~lost'[o]
    <3>1. ~polling => batch = << >> /\ \A o \in App!Roles : ~lost[o]
      BY DEF AppInv, EndIsLast
    <3> QED
      BY <3>1
  <2> QED
    BY <2>1, <2>2, <2>3, <2>4 DEF EndIsLast
<1> QED
  BY <1>4, <1>6, BatchTaken

\* A step of a worker is one of what it is doing, and perhaps of its kind.
LEMMA WorkerMoves ==
    ASSUME App!KindsAssumption, AppInv, NEW r \in App!Roles, App!Lives(r), OnlyOf(r),
           workers'[r] \in App!Worker,
           workers'[r].task = workers[r].task, workers'[r].stopped = workers[r].stopped,
           workers'[r].reply = workers[r].reply, workers'[r].by = workers[r].by,
           workers'[r].drawn = workers[r].drawn, workers'[r].closed = workers[r].closed,
           workers'[r].kind = workers[r].kind \/ workers'[r].kind # None,
           workers'[r].phase = "session" => workers[r].phase = "session" \/ workers[r].reply = "yes"
                                             \/ workers[r].task # "listen",
           UNCHANGED << batch, lost, polling, enabled, busy, grant, App!shown >>,
           \/ events' = events
           \/ \E e \in App!Events : /\ events' = [events EXCEPT ![r] = Append(@, e)]
                                    /\ e = "consent" => workers'[r].kind # None
                                    /\ e = "format" => r = "job"
                                    /\ e = "finished" => workers'[r].phase = "done"
    PROVE  AppInv'
<1>0. workers[r] # None /\ workers'[r] # None /\ workers[r] \in App!Worker
  BY AppBasics DEF App!Lives
<1>o. \A o \in App!Roles : o # r => workers'[o] = workers[o]
  BY DEF OnlyOf
<1>u. UNCHANGED << batch, lost, polling, enabled, busy, grant, consent, compose, source, view,
      closing >>
  BY DEF App!shown
<1>1. Sent' /\ EndIsLast' /\ events' \in [App!Roles -> Seq(App!Events)]
  BY <1>0, <1>u, QueuesGrow
<1>2. App!TypeOK'
  BY <1>0, <1>o, <1>u, <1>1, AppBasics DEF AppInv, App!TypeOK, OnlyOf
<1>3. App!PromptOfItsWorker'
  BY <1>0, <1>o, <1>u DEF AppInv, App!TypeOK, App!PromptOfItsWorker
<1>4. App!RevokedSessionsStop'
  BY <1>0, <1>o, <1>u DEF AppInv, App!RevokedSessionsStop, App!Lives
<1>5. App!ViewKept'
  BY <1>0, <1>o, <1>u, AppBasics DEF AppInv, App!ViewKept
<1>c. Busy /\ Viewed /\ Kept
  BY DEF AppInv
<1>6. Busy' /\ Viewed' /\ Kept'
  <2>1. CASE r = "job"
    <3>1. workers'["listener"] = workers["listener"]
      BY <1>o, <2>1, AppBasics
    <3>2. ~busy /\ workers["job"] # None /\ workers'["job"] # None
      BY <1>0, <1>c, <2>1 DEF Busy
    <3>3. workers'["job"].closed = workers["job"].closed
      BY <2>1
    <3>4. Busy'
      BY <1>c, <1>u, <3>1, <3>2 DEF Busy
    <3>5. Viewed'
      BY <1>c, <1>u, <3>2, <3>3 DEF Viewed
    <3> QED
      BY <1>c, <1>u, <3>1, <3>4, <3>5 DEF Kept
  <2>2. CASE r = "listener"
    <3>1. workers'["job"] = workers["job"]
      BY <1>o, <2>2, AppBasics
    <3>2. /\ workers["listener"] # None /\ workers'["listener"] # None
          /\ workers'["listener"].task = workers["listener"].task
          /\ workers'["listener"].reply = workers["listener"].reply
          /\ workers'["listener"].stopped = workers["listener"].stopped
          /\ workers'["listener"].phase = "session" =>
                workers["listener"].phase = "session" \/ workers["listener"].reply = "yes"
                    \/ workers["listener"].task # "listen"
      BY <1>0, <2>2
    <3>4. Busy'
      BY <1>c, <1>u, <3>1, <3>2 DEF Busy
    <3>5. Viewed'
      BY <1>c, <1>u, <3>1 DEF Viewed
    <3> QED
      BY <1>c, <1>u, <3>2, <3>4, <3>5 DEF Kept
  <2> QED
    BY <2>1, <2>2, AppBasics
<1> QED
  BY <1>1, <1>2, <1>3, <1>4, <1>5, <1>6 DEF AppInv

LEMMA WorkerActs ==
    ASSUME App!KindsAssumption, AppInv, NEW r \in App!Roles,
           App!Asks(r) \/ App!SessionStarts(r) \/ App!SessionEmits(r) \/ App!Ends(r)
             \/ App!Panics(r)
    PROVE  AppInv'
<1>0. App!Lives(r) /\ workers[r] # None /\ workers[r] \in App!Worker
        /\ workers \in [App!Roles -> App!Worker \cup {None}]
      /\ None \notin App!Worker /\ None \notin Kinds
  BY AppBasics DEF App!Asks, App!SessionStarts, App!SessionEmits, App!Ends, App!Panics, App!Lives
<1>e. "consent" \in App!Events /\ "compose" \in App!Events /\ "format" \in App!Events
        /\ "finished" \in App!Events
  BY DEF App!Events
<1>1. CASE App!Asks(r)
  <2>1. PICK k \in Kinds : workers' = [workers EXCEPT ![r].phase = "asking", ![r].kind = k]
    BY <1>1 DEF App!Asks
  <2>2. workers' = [workers EXCEPT ![r] = [workers[r] EXCEPT !.phase = "asking", !.kind = k]]
    BY <1>0, <2>1
  <2>3. [workers[r] EXCEPT !.phase = "asking", !.kind = k] \in App!Worker
    BY <1>0 DEF App!Worker, App!Phases
  <2>4. OnlyOf(r) /\ workers'[r] = [workers[r] EXCEPT !.phase = "asking", !.kind = k]
          /\ workers'[r] \in App!Worker
    BY <1>0, <2>2, <2>3 DEF OnlyOf
  <2>5. /\ workers'[r].task = workers[r].task /\ workers'[r].stopped = workers[r].stopped
        /\ workers'[r].reply = workers[r].reply /\ workers'[r].by = workers[r].by
        /\ workers'[r].drawn = workers[r].drawn /\ workers'[r].closed = workers[r].closed
        /\ workers'[r].kind # None /\ workers'[r].phase = "asking"
    BY <1>0, <2>4 DEF App!Worker
  <2>6. events' = [events EXCEPT ![r] = Append(@, "consent")]
    BY <1>1 DEF App!Asks, App!Emits
  <2>7. UNCHANGED << batch, lost, polling, enabled, busy, grant, App!shown >>
    BY <1>1 DEF App!Asks
  <2> QED
    BY <1>0, <1>e, <2>4, <2>5, <2>6, <2>7, WorkerMoves
<1>2. ASSUME NEW p \in {"session", "done"}, workers' = [workers EXCEPT ![r].phase = p]
      PROVE  /\ OnlyOf(r) /\ workers'[r] \in App!Worker
             /\ workers'[r].task = workers[r].task /\ workers'[r].stopped = workers[r].stopped
             /\ workers'[r].reply = workers[r].reply /\ workers'[r].by = workers[r].by
             /\ workers'[r].drawn = workers[r].drawn /\ workers'[r].closed = workers[r].closed
             /\ workers'[r].kind = workers[r].kind /\ workers'[r].phase = p
  <2>1. workers' = [workers EXCEPT ![r] = [workers[r] EXCEPT !.phase = p]]
    BY <1>0, <1>2
  <2>2. [workers[r] EXCEPT !.phase = p] \in App!Worker
    BY <1>0 DEF App!Worker, App!Phases
  <2>3. OnlyOf(r) /\ workers'[r] = [workers[r] EXCEPT !.phase = p] /\ workers'[r] \in App!Worker
    BY <1>0, <2>1, <2>2 DEF OnlyOf
  <2> QED
    BY <1>0, <2>3 DEF App!Worker
<1>3. CASE App!SessionStarts(r)
  <2>1. /\ workers' = [workers EXCEPT ![r].phase = "session"] /\ events' = events
        /\ workers[r].reply = "yes" \/ workers[r].task # "listen"
        /\ UNCHANGED << batch, lost, polling, enabled, busy, grant, App!shown >>
    BY <1>3 DEF App!SessionStarts
  <2> QED
    BY <1>0, <1>2, <2>1, WorkerMoves
<1>4. CASE App!SessionEmits(r)
  <2>1. /\ workers' = workers
             /\ UNCHANGED << batch, lost, polling, enabled, busy, grant, App!shown >>
        /\ workers[r].phase = "session"
        /\ \/ events' = [events EXCEPT ![r] = Append(@, "format")] /\ workers[r].task = "remote"
           \/ events' = [events EXCEPT ![r] = Append(@, "compose")]
    BY <1>4 DEF App!SessionEmits, App!Emits
  <2>2. workers[r].task = "remote" => r = "job"
    BY <1>0 DEF AppInv, Busy, App!Roles
  <2>3. OnlyOf(r) /\ workers'[r] = workers[r]
    BY <1>0, <2>1 DEF OnlyOf
  <2>4. \E e \in App!Events : /\ events' = [events EXCEPT ![r] = Append(@, e)]
                              /\ e = "consent" => workers'[r].kind # None
                              /\ e = "format" => r = "job"
                              /\ e = "finished" => workers'[r].phase = "done"
    <3>1. CASE events' = [events EXCEPT ![r] = Append(@, "format")] /\ workers[r].task = "remote"
      BY <1>e, <2>2, <3>1
    <3>2. CASE events' = [events EXCEPT ![r] = Append(@, "compose")]
      BY <1>e, <3>2
    <3> QED
      BY <2>1, <3>1, <3>2
  <2> QED
    BY <1>0, <2>1, <2>3, <2>4, WorkerMoves
<1>5. CASE App!Ends(r)
  <2>1. /\ workers' = [workers EXCEPT ![r].phase = "done"]
        /\ events' = [events EXCEPT ![r] = Append(@, "finished")]
        /\ UNCHANGED << batch, lost, polling, enabled, busy, grant, App!shown >>
    BY <1>5 DEF App!Ends, App!Emits
  <2> QED
    BY <1>0, <1>2, <1>e, <2>1, WorkerMoves
<1>6. CASE App!Panics(r)
  <2>1. /\ workers' = [workers EXCEPT ![r].phase = "done"] /\ events' = events
        /\ UNCHANGED << batch, lost, polling, enabled, busy, grant, App!shown >>
    BY <1>6 DEF App!Panics
  <2> QED
    BY <1>0, <1>2, <2>1, WorkerMoves
<1> QED
  BY <1>1, <1>3, <1>4, <1>5, <1>6

\* A worker is the same in all but the answer it was given, the stop, and the two histories.
SameWork(o) ==
    /\ (workers'[o] = None) = (workers[o] = None)
    /\ workers'[o].phase = workers[o].phase /\ workers'[o].kind = workers[o].kind
    /\ workers'[o].task = workers[o].task

LEMMA Replies ==
    ASSUME App!KindsAssumption, AppInv, NEW r \in App!Roles, NEW a \in {"yes", "no"},
           NEW by \in {"none", "user", "grant"}, workers' = App!Replied(r, a, by)
    PROVE  /\ workers' \in [App!Roles -> App!Worker \cup {None}]
           /\ \A o \in App!Roles : /\ SameWork(o)
                                   /\ workers'[o].stopped = workers[o].stopped
                                   /\ workers'[o].drawn = workers[o].drawn
                                   /\ workers'[o].closed = workers[o].closed
                                   /\ \/ workers'[o].reply = workers[o].reply
                                           /\ workers'[o].by = workers[o].by
                                      \/ o = r /\ workers'[o].reply = a /\ workers'[o].by = by
<1>1. CASE workers' = workers
  BY <1>1, AppBasics DEF SameWork
<1>2. CASE workers[r] # None /\ workers' = [workers EXCEPT ![r].reply = a, ![r].by = by]
  <2>0. workers[r] \in App!Worker /\ workers \in [App!Roles -> App!Worker \cup {None}]
          /\ None \notin App!Worker
    BY <1>2, AppBasics
  <2>1. workers' = [workers EXCEPT ![r] = [workers[r] EXCEPT !.reply = a, !.by = by]]
    BY <1>2, <2>0
  <2>2. [workers[r] EXCEPT !.reply = a, !.by = by] \in App!Worker
    BY <2>0 DEF App!Worker
  <2>3. /\ workers' \in [App!Roles -> App!Worker \cup {None}]
        /\ workers'[r] = [workers[r] EXCEPT !.reply = a, !.by = by] /\ workers'[r] \in App!Worker
        /\ \A o \in App!Roles : o # r => workers'[o] = workers[o]
    BY <2>0, <2>1, <2>2
  <2>4. /\ workers'[r].phase = workers[r].phase /\ workers'[r].kind = workers[r].kind
        /\ workers'[r].task = workers[r].task /\ workers'[r].stopped = workers[r].stopped
        /\ workers'[r].drawn = workers[r].drawn /\ workers'[r].closed = workers[r].closed
        /\ workers'[r].reply = a /\ workers'[r].by = by
    BY <2>0, <2>3 DEF App!Worker
  <2>5. SameWork(r)
    BY <1>2, <2>0, <2>3, <2>4 DEF SameWork
  <2>6. \A o \in App!Roles : o # r => workers'[o] = workers[o] /\ SameWork(o)
    BY <2>3 DEF SameWork
  <2> QED
    BY <2>3, <2>4, <2>5, <2>6
<1> QED
  BY <1>1, <1>2 DEF App!Replied

LEMMA Stops ==
    ASSUME App!KindsAssumption, AppInv, NEW S \in SUBSET App!Roles,
           workers' = [o \in App!Roles |-> IF o \in S THEN App!Stopped(workers, o) ELSE workers[o]]
    PROVE  /\ workers' \in [App!Roles -> App!Worker \cup {None}]
           /\ \A o \in App!Roles : /\ SameWork(o)
                                   /\ workers'[o].stopped = workers[o].stopped \/ o \in S
                                   /\ o \in S /\ workers[o] # None => workers'[o].stopped
                                   /\ workers'[o].drawn = workers[o].drawn
                                   /\ workers'[o].closed = workers[o].closed
                                   /\ workers'[o].reply = workers[o].reply
                                   /\ workers'[o].by = workers[o].by
<1>1. ASSUME NEW o \in App!Roles
      PROVE  /\ workers'[o] \in App!Worker \cup {None} /\ SameWork(o)
             /\ workers'[o].stopped = workers[o].stopped \/ o \in S
             /\ o \in S /\ workers[o] # None => workers'[o].stopped
             /\ workers'[o].drawn = workers[o].drawn /\ workers'[o].closed = workers[o].closed
             /\ workers'[o].reply = workers[o].reply /\ workers'[o].by = workers[o].by
  <2>1. CASE workers'[o] = workers[o] /\ (o \in S => workers[o] = None)
    BY <2>1, AppBasics DEF SameWork
  <2>2. CASE o \in S /\ workers[o] # None
    <3>1. workers[o] \in App!Worker /\ None \notin App!Worker
      BY <2>2, AppBasics
    <3>2. workers'[o] = [workers[o] EXCEPT !.stopped = TRUE]
      BY <2>2 DEF App!Stopped
    <3>3. workers'[o] \in App!Worker
      BY <3>1, <3>2 DEF App!Worker
    <3>4. /\ workers'[o].phase = workers[o].phase /\ workers'[o].kind = workers[o].kind
          /\ workers'[o].task = workers[o].task /\ workers'[o].stopped = TRUE
          /\ workers'[o].drawn = workers[o].drawn /\ workers'[o].closed = workers[o].closed
          /\ workers'[o].reply = workers[o].reply /\ workers'[o].by = workers[o].by
      BY <3>1, <3>2 DEF App!Worker
    <3> QED
      BY <2>2, <3>1, <3>3, <3>4 DEF SameWork
  <2> QED
    BY <2>1, <2>2 DEF App!Stopped
<1>2. workers' \in [App!Roles -> App!Worker \cup {None}]
  BY <1>1
<1> QED
  BY <1>1, <1>2

LEMMA WorkStays ==
    ASSUME App!KindsAssumption, AppInv, UNCHANGED workers
    PROVE  /\ workers' \in [App!Roles -> App!Worker \cup {None}]
           /\ \A o \in App!Roles : SameWork(o)
BY AppBasics DEF SameWork

\* A step in which every worker goes on with its work.
LEMMA WorkGoesOn ==
    ASSUME App!KindsAssumption, AppInv, workers' \in [App!Roles -> App!Worker \cup {None}],
           \A o \in App!Roles : SameWork(o),
           UNCHANGED << events, lost >>, batch' = batch \/ (batch # << >> /\ batch' = Tail(batch)),
           polling' \in BOOLEAN,
           polling' = polling \/ (batch = << >> /\ batch' = << >> /\ \A r \in App!Roles : ~lost[r]),
           enabled' \in BOOLEAN, busy' \in BOOLEAN, grant' \in BOOLEAN, closing' \in BOOLEAN,
           consent' \in App!Roles \cup {None}, compose' \in App!Roles \cup {None},
           source' \in App!Roles, view' \in App!Roles \cup {None},
           busy' => workers["listener"] # None,
           consent' = consent \/ consent' = None
               \/ (consent' \in App!Roles /\ workers[consent'] # None
                    /\ workers[consent'].kind # None)
    PROVE  App!TypeOK' /\ App!PromptOfItsWorker' /\ Sent' /\ EndIsLast'
<1>1. Sent' /\ EndIsLast' /\ batch' \in Seq([role : App!Roles, event : App!Events])
  BY QueuesStay DEF SameWork
<1>2. workers'["listener"] = None => workers["listener"] = None
  BY AppBasics DEF SameWork
<1>3. App!TypeOK'
  BY <1>1, <1>2, AppBasics DEF App!TypeOK
<1>4. App!PromptOfItsWorker'
  <2>1. \A o \in App!Roles : (workers'[o] = None) = (workers[o] = None)
          /\ workers'[o].kind = workers[o].kind
    BY DEF SameWork
  <2>2. consent \in App!Roles \cup {None}
    BY DEF AppInv, App!TypeOK
  <2> QED
    BY <2>1, <2>2 DEF AppInv, App!PromptOfItsWorker
<1> QED
  BY <1>1, <1>3, <1>4

\* The first event of the batch is of a worker there is.
LEMMA EventOfWorker ==
    ASSUME App!KindsAssumption, AppInv, NEW kind \in App!Events, App!Takes(kind)
    PROVE  /\ polling /\ batch # << >> /\ batch' = Tail(batch)
           /\ App!Event.role \in App!Roles /\ workers[App!Event.role] \in App!Worker
                /\ workers[App!Event.role] # None
           /\ kind = "consent" => workers[App!Event.role].kind # None
           /\ kind = "format" => App!Event.role = "job"
           /\ kind = "finished" =>
                Over(App!Event.role) /\ \A k \in DOMAIN batch' : batch'[k].role # App!Event.role
<1> DEFINE Notes == [role : App!Roles, event : App!Events]
<1>b. batch \in Seq(Notes) /\ polling /\ batch # << >> /\ batch' = Tail(batch)
        /\ App!Event.event = kind
  BY DEF AppInv, App!TypeOK, App!Takes
<1> HIDE DEF Notes
<1>1. /\ App!Event = batch[1] /\ batch[1] \in Notes /\ 1 \in DOMAIN batch /\ Len(batch) \in Nat
      /\ DOMAIN batch' = 1 .. Len(batch) - 1
      /\ \A k \in 1 .. Len(batch) - 1 : batch'[k] = batch[k + 1]
  BY <1>b, Taken DEF App!Event
<1>2. App!Event.role \in App!Roles /\ App!Event = [role |-> App!Event.role, event |-> kind]
  BY <1>b, <1>1 DEF Notes
<1>3. Given(App!Event.role, kind)
  BY <1>1, <1>2 DEF Given
<1>4. /\ workers[App!Event.role] # None
      /\ kind = "consent" => workers[App!Event.role].kind # None
      /\ kind = "format" => App!Event.role = "job"
  BY <1>2, <1>3 DEF AppInv, Sent
<1>5. ASSUME kind = "finished", NEW k \in DOMAIN batch'
      PROVE  batch'[k].role # App!Event.role
  <2>1. \A l \in 1 + 1 .. Len(batch) : batch[l].role # App!Event.role
    BY <1>b, <1>1, <1>5 DEF AppInv, EndIsLast
  <2>2. batch'[k] = batch[k + 1] /\ k + 1 \in 1 + 1 .. Len(batch)
    BY <1>1
  <2> QED
    BY <2>1, <2>2
<1>6. kind = "finished" => Over(App!Event.role)
  BY <1>b, <1>1 DEF AppInv, EndIsLast
<1> QED
  BY <1>b, <1>2, <1>4, <1>5, <1>6, AppBasics

LEMMA AppConsents ==
    ASSUME App!KindsAssumption, AppInv, App!Consent
    PROVE  AppInv'
<1> DEFINE r == App!Event.role
           k == workers[r].kind
<1>1. /\ UNCHANGED << events, lost, polling, enabled, grant, compose, view, closing >>
      /\ App!Takes("consent") /\ "consent" \in App!Events
  BY DEF App!Consent, App!Events
<1>2. /\ polling /\ batch # << >> /\ batch' = Tail(batch)
      /\ r \in App!Roles /\ workers[r] \in App!Worker /\ workers[r] # None /\ k # None
  BY <1>1, EventOfWorker
<1>t. App!TypeOK /\ Busy /\ Viewed /\ Kept /\ App!ViewKept /\ App!RevokedSessionsStop
  BY DEF AppInv
<1>3. CASE workers' = App!Replied(r, "no", "none") /\ UNCHANGED << busy, consent, source >>
  <2>1. /\ workers' \in [App!Roles -> App!Worker \cup {None}]
        /\ \A o \in App!Roles : /\ SameWork(o)
                                /\ workers'[o].stopped = workers[o].stopped
                                /\ workers'[o].drawn = workers[o].drawn
                                /\ workers'[o].closed = workers[o].closed
                                /\ \/ workers'[o].reply = workers[o].reply
                                        /\ workers'[o].by = workers[o].by
                                   \/ o = r /\ workers'[o].reply = "no" /\ workers'[o].by = "none"
    BY <1>2, <1>3, Replies
  <2>2. App!TypeOK' /\ App!PromptOfItsWorker' /\ Sent' /\ EndIsLast'
    BY <1>1, <1>2, <1>3, <1>t, <2>1, WorkGoesOn DEF App!TypeOK
  <2>3. App!RevokedSessionsStop'
    BY <1>1, <1>t, <2>1 DEF App!RevokedSessionsStop, App!Lives, SameWork
  <2>4. App!ViewKept' /\ Viewed' /\ Kept'
    BY <1>1, <1>3, <1>t, <2>1, AppBasics DEF App!ViewKept, Viewed, Kept, SameWork
  <2>5. Busy'
    BY <1>1, <1>3, <1>t, <2>1, AppBasics DEF Busy, SameWork
  <2> QED
    BY <2>2, <2>3, <2>4, <2>5 DEF AppInv
<1>4. CASE ~(k = "mismatch" \/ consent # None
        \/ (r = "listener" /\ (workers["job"] # None \/ busy)))
  <2>0. /\ busy' = (busy \/ r = "listener")
        /\ source' \in {r, source}
        /\ \/ r = "listener" /\ grant /\ workers' = App!Replied(r, "yes", "grant")
                /\ consent' = consent
           \/ consent' = r /\ workers' = workers
        /\ r = "listener" => workers["job"] = None
    BY <1>4 DEF App!Consent
  <2>1. /\ workers' \in [App!Roles -> App!Worker \cup {None}]
        /\ \A o \in App!Roles : /\ SameWork(o)
                                /\ workers'[o].stopped = workers[o].stopped
                                /\ workers'[o].drawn = workers[o].drawn
                                /\ workers'[o].closed = workers[o].closed
                                /\ \/ workers'[o].reply = workers[o].reply
                                        /\ workers'[o].by = workers[o].by
                                   \/ o = r /\ r = "listener" /\ grant
    <3>1. CASE r = "listener" /\ grant /\ workers' = App!Replied(r, "yes", "grant")
      BY <1>2, <3>1, Replies
    <3>2. CASE workers' = workers
      BY <3>2, WorkStays
    <3> QED
      BY <2>0, <3>1, <3>2
  <2>2. App!TypeOK' /\ App!PromptOfItsWorker' /\ Sent' /\ EndIsLast'
    <3>1. /\ busy' \in BOOLEAN /\ (busy' => workers["listener"] # None) /\ source' \in App!Roles
          /\ consent' \in App!Roles \cup {None}
          /\ consent' = consent
               \/ (consent' \in App!Roles /\ workers[consent'] # None
                    /\ workers[consent'].kind # None)
      BY <1>2, <1>t, <2>0 DEF App!TypeOK
    <3> QED
      BY <1>1, <1>2, <1>t, <2>1, <3>1, WorkGoesOn DEF App!TypeOK
  <2>3. App!RevokedSessionsStop'
    BY <1>1, <1>t, <2>1 DEF App!RevokedSessionsStop, App!Lives, SameWork
  <2>j. workers["job"] # None => r = "job"
    BY <1>2, <2>0 DEF App!Roles
  <2>4. App!ViewKept' /\ Viewed' /\ Kept'
    BY <1>1, <1>t, <2>0, <2>1, <2>j, AppBasics DEF App!ViewKept, Viewed, Kept, SameWork
  <2>5. Busy'
    BY <1>1, <1>2, <1>t, <2>0, <2>1, <2>j, AppBasics DEF Busy, SameWork
  <2> QED
    BY <2>2, <2>3, <2>4, <2>5 DEF AppInv
<1> QED
  BY <1>3, <1>4 DEF App!Consent

LEMMA AppComposes ==
    ASSUME App!KindsAssumption, AppInv, App!Compose \/ App!PollEnds \/ App!SendMessage \/ App!Grant
             \/ UNCHANGED App!vars
    PROVE  AppInv'
<1>1. /\ UNCHANGED << workers, events, lost, enabled, busy, consent, source, view, closing >>
      /\ grant' \in {grant, TRUE} /\ compose' \in App!Roles \cup {None}
      /\ batch' = batch \/ (batch # << >> /\ batch' = Tail(batch))
      /\ polling' \in BOOLEAN
      /\ polling' = polling \/ (batch = << >> /\ batch' = << >> /\ \A r \in App!Roles : ~lost[r])
  <2>t. App!TypeOK
    BY DEF AppInv
  <2>1. CASE App!Compose
    <3>1. App!Event.role \in App!Roles
      BY <2>1, EventOfWorker DEF App!Compose, App!Events
    <3> QED
      BY <2>1, <2>t, <3>1 DEF App!Compose, App!Takes, App!TypeOK
  <2>2. CASE App!PollEnds
    BY <2>2, <2>t DEF App!PollEnds, App!shown, App!TypeOK
  <2>3. CASE App!SendMessage \/ App!Grant \/ UNCHANGED App!vars
    BY <2>3, <2>t DEF App!SendMessage, App!Grant, App!vars, App!shown, App!TypeOK
  <2> QED
    BY <2>1, <2>2, <2>3
<1>t. App!TypeOK /\ Busy /\ Viewed /\ Kept /\ App!ViewKept /\ App!RevokedSessionsStop
  BY DEF AppInv
<1>2. App!TypeOK' /\ App!PromptOfItsWorker' /\ Sent' /\ EndIsLast'
  BY <1>1, <1>t, WorkStays, WorkGoesOn DEF App!TypeOK
<1>3. App!RevokedSessionsStop' /\ App!ViewKept' /\ Viewed' /\ Kept' /\ Busy'
  BY <1>1, <1>t DEF App!RevokedSessionsStop, App!Lives, App!ViewKept, Viewed, Kept, Busy, App!TypeOK
<1> QED
  BY <1>2, <1>3 DEF AppInv

LEMMA AppFormats ==
    ASSUME App!KindsAssumption, AppInv, App!Format
    PROVE  AppInv'
<1>1. /\ UNCHANGED << events, lost, polling, enabled, busy, grant, consent, compose, closing >>
      /\ App!Takes("format") /\ "format" \in App!Events
      /\ source' = App!Event.role /\ view' = App!Event.role
      /\ workers' = [workers EXCEPT ![App!Event.role].drawn = TRUE]
  BY DEF App!Format, App!Events
<1>2. /\ polling /\ batch # << >> /\ batch' = Tail(batch)
      /\ App!Event.role = "job" /\ workers["job"] \in App!Worker /\ workers["job"] # None
  BY <1>1, EventOfWorker
<1>t. App!TypeOK /\ Busy /\ Viewed /\ Kept /\ App!ViewKept /\ App!RevokedSessionsStop
  BY DEF AppInv
<1>b. /\ workers \in [App!Roles -> App!Worker \cup {None}] /\ None \notin App!Worker
           /\ App!Roles = {"job", "listener"}
      /\ "job" \in App!Roles /\ "listener" \in App!Roles
  BY AppBasics
<1>3. /\ workers' \in [App!Roles -> App!Worker \cup {None}]
      /\ workers'["listener"] = workers["listener"]
      /\ workers'["job"] \in App!Worker /\ workers'["job"] = [workers["job"] EXCEPT !.drawn = TRUE]
  <2>1. workers' = [workers EXCEPT !["job"] = [workers["job"] EXCEPT !.drawn = TRUE]]
    BY <1>1, <1>2, <1>b
  <2>2. [workers["job"] EXCEPT !.drawn = TRUE] \in App!Worker
    BY <1>2 DEF App!Worker
  <2> QED
    BY <1>b, <2>1, <2>2
<1>4. /\ workers'["job"].phase = workers["job"].phase /\ workers'["job"].kind = workers["job"].kind
      /\ workers'["job"].task = workers["job"].task
           /\ workers'["job"].stopped = workers["job"].stopped
      /\ workers'["job"].closed = workers["job"].closed /\ workers'["job"].by = workers["job"].by
      /\ workers'["job"] # None
  BY <1>2, <1>3, <1>b DEF App!Worker
<1>5. \A o \in App!Roles : SameWork(o)
  BY <1>2, <1>3, <1>4, <1>b DEF SameWork
<1>6. App!TypeOK' /\ App!PromptOfItsWorker' /\ Sent' /\ EndIsLast'
  BY <1>1, <1>2, <1>3, <1>5, <1>b, <1>t, WorkGoesOn DEF App!TypeOK
<1>7. App!RevokedSessionsStop'
  BY <1>1, <1>2, <1>3, <1>4, <1>b, <1>t DEF App!RevokedSessionsStop, App!Lives
<1>8. App!ViewKept' /\ Viewed' /\ Kept' /\ Busy'
  BY <1>1, <1>2, <1>3, <1>4, <1>t DEF App!ViewKept, Viewed, Kept, Busy
<1> QED
  BY <1>6, <1>7, <1>8 DEF AppInv

\* A worker leaves the window, and the listener comes back.
LEMMA WorkerLeaves ==
    ASSUME App!KindsAssumption, AppInv, NEW r \in App!Roles, workers[r] # None,
           \/ workers' = [workers EXCEPT ![r] = IF r = "listener"
                /\ enabled THEN App!Fresh("listen") ELSE None]
           \/ workers' = [workers EXCEPT ![r] = None] /\ workers[r].stopped,
           events[r] = << >>, App!Clear(r), busy' = (busy /\ r # "listener"),
           UNCHANGED << events, polling, enabled, grant >>,
           batch' = batch \/ (batch # << >> /\ batch' = Tail(batch)),
           \A k \in DOMAIN batch' : batch'[k].role # r,
           lost' = lost \/ lost' = [lost EXCEPT ![r] = FALSE],
           r = "listener" => ~lost'[r]
    PROVE  AppInv'
<1>t. App!TypeOK /\ Busy /\ Viewed /\ Kept /\ App!ViewKept /\ App!RevokedSessionsStop
        /\ App!PromptOfItsWorker
  BY DEF AppInv
<1>b. /\ workers \in [App!Roles -> App!Worker \cup {None}] /\ None \notin App!Worker
           /\ App!Roles = {"job", "listener"}
      /\ events \in [App!Roles -> Seq(App!Events)] /\ lost \in [App!Roles -> BOOLEAN]
      /\ "job" \in App!Roles /\ "listener" \in App!Roles /\ None \notin App!Roles
  BY AppBasics
<1>f. /\ App!Fresh("listen") \in App!Worker /\ App!Fresh("listen").task = "listen"
      /\ App!Fresh("listen").phase = "begun" /\ App!Fresh("listen").reply = "none"
      /\ App!Fresh("listen").by = "none" /\ ~App!Fresh("listen").stopped
           /\ ~App!Fresh("listen").drawn
  BY FreshWorker
<1>1. /\ OnlyOf(r) /\ workers'[r] \in {App!Fresh("listen"), None}
           /\ (r = "job" => workers'[r] = None)
      /\ r = "listener" /\ enabled => workers'[r] = App!Fresh("listen")
  <2>1. r = "listener" /\ enabled => ~workers[r].stopped
    BY <1>t DEF Kept
  <2> QED
    BY <1>b, <1>f, <2>1 DEF OnlyOf
<1>2. /\ lost' \in [App!Roles -> BOOLEAN] /\ \A o \in App!Roles : (lost'[o] => lost[o])
      /\ \A o \in App!Roles : o # r => lost'[o] = lost[o]
      /\ lost'[r] => workers'[r] = None
  BY <1>b, <1>1
<1>3. Sent' /\ EndIsLast' /\ batch' \in Seq([role : App!Roles, event : App!Events])
  BY <1>1, <1>2, <1>b, QueuesClear
<1>c. /\ consent' \in {consent, None} /\ compose' \in {compose, None} /\ view' \in {view, None}
      /\ source' \in {source, "job"} /\ closing' \in {closing, FALSE} /\ consent' # r
      /\ source = r => view' = None /\ closing' = FALSE /\ source' = "job"
      /\ source # r => UNCHANGED << view, closing, source >>
  BY <1>b DEF App!Clear
<1>4. App!TypeOK'
  <2>1. busy' => workers'["listener"] # None
    <3>1. busy' => busy /\ r # "listener"
      OBVIOUS
    <3> QED
      BY <1>1, <1>b, <1>t, <3>1 DEF App!TypeOK, OnlyOf
  <2>2. busy' \in BOOLEAN
    OBVIOUS
  <2> QED
    BY <1>1, <1>2, <1>3, <1>b, <1>c, <1>t, <2>1, <2>2 DEF App!TypeOK, OnlyOf
<1>5. App!PromptOfItsWorker'
  BY <1>1, <1>b, <1>c, <1>t DEF App!PromptOfItsWorker, App!TypeOK, OnlyOf
<1>6. App!RevokedSessionsStop'
  BY <1>1, <1>b, <1>f, <1>t DEF App!RevokedSessionsStop, App!Lives, OnlyOf
<1>7. CASE r = "job"
  <2>1. workers'["job"] = None /\ workers'["listener"] = workers["listener"] /\ busy' = busy
    BY <1>1, <1>7, <1>b, <1>t DEF OnlyOf, App!TypeOK
  <2>2. Busy'
    BY <1>7, <1>b, <1>c, <1>t, <2>1 DEF Busy
  <2>3. App!ViewKept' /\ Viewed' /\ Kept'
    BY <1>7, <1>c, <1>t, <2>1 DEF App!ViewKept, Viewed, Kept
  <2> QED
    BY <1>3, <1>4, <1>5, <1>6, <2>2, <2>3 DEF AppInv
<1>8. CASE r = "listener"
  <2>1. workers'["job"] = workers["job"] /\ ~busy'
          /\ workers'["listener"] \in {App!Fresh("listen"), None}
    BY <1>1, <1>8, <1>b DEF OnlyOf
  <2>2. Busy'
    BY <1>8, <1>b, <1>c, <1>f, <1>t, <2>1 DEF Busy
  <2>3. App!ViewKept' /\ Viewed'
    BY <1>8, <1>c, <1>t, <2>1 DEF App!ViewKept, Viewed
  <2>4. Kept'
    BY <1>1, <1>8, <1>b, <1>f DEF Kept
  <2> QED
    BY <1>3, <1>4, <1>5, <1>6, <2>2, <2>3, <2>4 DEF AppInv
<1> QED
  BY <1>7, <1>8, <1>b

LEMMA AppFinishes ==
    ASSUME App!KindsAssumption, AppInv, App!Finished
    PROVE  AppInv'
<1> DEFINE r == App!Event.role
<1>1. /\ App!Takes("finished") /\ "finished" \in App!Events
      /\ workers' = [workers EXCEPT ![r] =
                       IF r = "listener" /\ enabled /\ ~workers[r].stopped THEN App!Fresh("listen")
                         ELSE None]
      /\ App!Clear(r) /\ busy' = (busy /\ r # "listener")
      /\ lost' = IF r = "listener" THEN [lost EXCEPT ![r] = FALSE] ELSE lost
      /\ UNCHANGED << events, polling, enabled, grant >>
  BY DEF App!Finished, App!Events
<1>2. /\ batch # << >> /\ batch' = Tail(batch) /\ r \in App!Roles /\ workers[r] # None
      /\ Over(r) /\ \A k \in DOMAIN batch' : batch'[k].role # r
  BY <1>1, EventOfWorker
<1>3. events[r] = << >> /\ lost \in [App!Roles -> BOOLEAN]
  BY <1>2, AppBasics DEF Over
<1>4. \/ workers' = [workers EXCEPT ![r] = IF r = "listener" /\ enabled THEN App!Fresh("listen")
           ELSE None]
      \/ workers' = [workers EXCEPT ![r] = None] /\ workers[r].stopped
  <2>1. workers[r].stopped \in BOOLEAN
    BY <1>2, AppBasics, WorkerFields
  <2> QED
    BY <1>1, <2>1
<1>5. (lost' = lost \/ lost' = [lost EXCEPT ![r] = FALSE]) /\ (r = "listener" => ~lost'[r])
  BY <1>1, <1>2, <1>3
<1> HIDE DEF r
<1> QED
  BY <1>1, <1>2, <1>3, <1>4, <1>5, WorkerLeaves

LEMMA AppLoses ==
    ASSUME App!KindsAssumption, AppInv, NEW r \in App!Roles, App!Lost(r)
    PROVE  AppInv'
<1>1. /\ polling /\ batch = << >> /\ lost[r] /\ lost' = [lost EXCEPT ![r] = FALSE]
      /\ UNCHANGED << events, batch, polling, enabled, grant >>
  BY DEF App!Lost
<1>2. CASE workers[r] # None
  <2>1. /\ workers' = [workers EXCEPT ![r] = IF r = "listener" /\ enabled THEN App!Fresh("listen")
             ELSE None]
        /\ App!Clear(r) /\ busy' = (busy /\ r # "listener")
    BY <1>2 DEF App!Lost
  <2>2. events[r] = << >> /\ ~lost'[r] /\ DOMAIN batch' = {}
    <3>1. Over(r)
      BY <1>1, <1>2 DEF AppInv, EndIsLast
    <3> QED
      BY <1>1, <3>1, AppBasics DEF Over
  <2> QED
    BY <1>1, <1>2, <2>1, <2>2, WorkerLeaves
<1>3. CASE workers[r] = None
  <2>1. UNCHANGED << workers, busy, consent, compose, source, view, closing >>
    BY <1>3 DEF App!Lost, App!shown
  <2>t. App!TypeOK /\ Busy /\ Viewed /\ Kept /\ App!ViewKept /\ App!RevokedSessionsStop
          /\ App!PromptOfItsWorker
        /\ Sent /\ EndIsLast
    BY DEF AppInv
  <2>2. lost' \in [App!Roles -> BOOLEAN] /\ \A o \in App!Roles : lost'[o] => lost[o]
    BY <1>1, AppBasics
  <2>3. App!TypeOK' /\ App!PromptOfItsWorker' /\ App!RevokedSessionsStop' /\ App!ViewKept' /\ Busy'
          /\ Viewed' /\ Kept'
    BY <1>1, <2>1, <2>2, <2>t DEF App!TypeOK, App!PromptOfItsWorker, App!RevokedSessionsStop,
       App!Lives, App!ViewKept, Busy, Viewed, Kept
  <2>4. Sent'
    BY <1>1, <2>1, <2>t DEF Sent, Given, Coming
  <2>5. EndIsLast'
    BY <1>1, <2>1, <2>2, <2>t DEF EndIsLast, Over
  <2> QED
    BY <2>3, <2>4, <2>5 DEF AppInv
<1> QED
  BY <1>2, <1>3

\* The window takes all that waits, the job's first.
LEMMA AppCollects ==
    ASSUME App!KindsAssumption, AppInv, App!Collect
    PROVE  AppInv'
<1> DEFINE Notes == [role : App!Roles, event : App!Events]
           J == events["job"]
           L == events["listener"]
           NJ == [k \in DOMAIN J |-> [role |-> "job", event |-> J[k]]]
           NL == [k \in DOMAIN L |-> [role |-> "listener", event |-> L[k]]]
<1>0. /\ ~polling /\ polling' = TRUE /\ batch' = NJ \o NL
      /\ UNCHANGED << workers, enabled, busy, grant, consent, compose, source, view, closing >>
      /\ events' = [r \in App!Roles |-> << >>]
      /\ lost' \in [App!Roles -> BOOLEAN]
      /\ \A r \in App!Roles : lost'[r] => workers[r] # None /\ workers[r].phase = "done"
  BY DEF App!Collect, App!shown
<1>b. "job" \in App!Roles /\ "listener" \in App!Roles /\ App!Roles = {"job", "listener"}
        /\ "job" # "listener"
  BY AppBasics
<1>t. App!TypeOK /\ Busy /\ Viewed /\ Kept /\ App!ViewKept /\ App!RevokedSessionsStop
        /\ App!PromptOfItsWorker
      /\ Sent /\ EndIsLast
  BY DEF AppInv
<1>q. J \in Seq(App!Events) /\ L \in Seq(App!Events)
  BY <1>b, <1>t DEF App!TypeOK
<1>e. /\ Len(J) \in Nat /\ Len(L) \in Nat /\ DOMAIN J = 1 .. Len(J) /\ DOMAIN L = 1 .. Len(L)
      /\ \A k \in 1 .. Len(J) : J[k] \in App!Events
      /\ \A k \in 1 .. Len(L) : L[k] \in App!Events
  BY <1>q
<1>n. /\ \A x \in App!Events : [role |-> "job", event |-> x] \in Notes
      /\ \A x \in App!Events : [role |-> "listener", event |-> x] \in Notes
  BY <1>b
<1> HIDE DEF Notes
<1>j. /\ NJ \in Seq(Notes) /\ Len(NJ) = Len(J)
      /\ \A k \in 1 .. Len(J) : NJ[k] = [role |-> "job", event |-> J[k]]
  <2>1. NJ \in [1 .. Len(J) -> Notes]
    BY <1>e, <1>n
  <2> QED
    BY <1>e, <2>1
<1>l. /\ NL \in Seq(Notes) /\ Len(NL) = Len(L)
      /\ \A k \in 1 .. Len(L) : NL[k] = [role |-> "listener", event |-> L[k]]
  <2>1. NL \in [1 .. Len(L) -> Notes]
    BY <1>e, <1>n
  <2> QED
    BY <1>e, <2>1
<1> HIDE DEF NJ, NL, J, L
<1>1. /\ batch' \in Seq(Notes)
      /\ Len(batch') = Len(J) + Len(L) /\ DOMAIN batch' = 1 .. Len(J) + Len(L)
      /\ \A k \in 1 .. Len(J) : batch'[k] = [role |-> "job", event |-> J[k]]
      /\ \A k \in Len(J) + 1 .. Len(J) + Len(L) :
            batch'[k] = [role |-> "listener", event |-> L[k - Len(J)]]
  <2>1. /\ NJ \o NL \in Seq(Notes) /\ Len(NJ \o NL) = Len(J) + Len(L)
        /\ \A k \in 1 .. Len(J) : (NJ \o NL)[k] = NJ[k]
        /\ \A k \in Len(J) + 1 .. Len(J) + Len(L) : (NJ \o NL)[k] = NL[k - Len(J)]
    BY <1>e, <1>j, <1>l
  <2>2. batch' = NJ \o NL
    BY <1>0
  <2>3. batch' \in Seq(Notes) /\ Len(batch') = Len(J) + Len(L)
    BY <2>1, <2>2
  <2>4. DOMAIN batch' = 1 .. Len(J) + Len(L)
    BY <2>3
  <2>5. \A k \in 1 .. Len(J) : batch'[k] = [role |-> "job", event |-> J[k]]
    BY <1>j, <2>1, <2>2
  <2>6. ASSUME NEW k \in Len(J) + 1 .. Len(J) + Len(L)
        PROVE  batch'[k] = [role |-> "listener", event |-> L[k - Len(J)]]
    <3>1. k - Len(J) \in 1 .. Len(L)
      BY <1>e
    <3>2. batch'[k] = NL[k - Len(J)]
      BY <2>1, <2>2
    <3> QED
      BY <1>l, <3>1, <3>2
  <2> QED
    BY <2>3, <2>4, <2>5, <2>6
<1>2. ASSUME NEW k \in DOMAIN batch'
      PROVE  \/ /\ k \in DOMAIN events["job"] /\ batch'[k].role = "job"
                /\ batch'[k].event = events["job"][k]
             \/ /\ k \in Len(J) + 1 .. Len(J) + Len(L)
                /\ k - Len(J) \in DOMAIN events["listener"] /\ batch'[k].role = "listener"
                /\ batch'[k].event = events["listener"][k - Len(J)]
  <2>1. CASE k \in 1 .. Len(J)
    <3>1. batch'[k] = [role |-> "job", event |-> J[k]] /\ k \in DOMAIN J
      BY <1>1, <1>e, <2>1
    <3>2. batch'[k].role = "job" /\ batch'[k].event = J[k]
      BY <3>1
    <3> QED
      BY <3>1, <3>2 DEF J
  <2>2. CASE k \in Len(J) + 1 .. Len(J) + Len(L)
    <3>1. k - Len(J) \in 1 .. Len(L)
      BY <1>e, <2>2
    <3>2. batch'[k] = [role |-> "listener", event |-> L[k - Len(J)]] /\ k - Len(J) \in DOMAIN L
      BY <1>1, <1>e, <2>2, <3>1
    <3>3. batch'[k].role = "listener" /\ batch'[k].event = L[k - Len(J)]
      BY <3>2
    <3> QED
      BY <2>2, <3>2, <3>3 DEF L
  <2> QED
    BY <1>1, <1>e, <2>1, <2>2
<1>3. \A r \in App!Roles : \A x : (Given(r, x)' => Coming(r, x)) /\ ~Coming(r, x)'
  <2>1. ASSUME NEW r \in App!Roles, NEW x, Given(r, x)' PROVE Coming(r, x)
    <3>1. PICK k \in DOMAIN batch' : batch'[k] = [role |-> r, event |-> x]
      BY <2>1 DEF Given
    <3>2. batch'[k].role = r /\ batch'[k].event = x
      BY <3>1
    <3> QED
      BY <1>2, <1>b, <3>2 DEF Coming
  <2>2. \A r \in App!Roles : DOMAIN events'[r] = {}
    BY <1>0
  <2> QED
    BY <2>1, <2>2 DEF Coming
<1>4. Sent'
  BY <1>0, <1>3, <1>t DEF Sent
<1>5. \A r \in App!Roles : workers[r].phase = "done" => Over(r)'
  BY <1>0 DEF Over
<1>6. EndIsLast'
  <2>1. ASSUME NEW k \in DOMAIN batch', batch'[k].event = "finished"
        PROVE  /\ batch'[k].role \in App!Roles /\ workers[batch'[k].role].phase = "done"
               /\ \A l \in k + 1 .. Len(batch') : batch'[l].role # batch'[k].role
    <3>1. CASE /\ k \in DOMAIN events["job"] /\ batch'[k].role = "job"
               /\ batch'[k].event = events["job"][k]
      <4>1. workers["job"].phase = "done" /\ k = Len(J)
        BY <1>b, <1>t, <2>1, <3>1 DEF EndIsLast, J
      <4>2. ASSUME NEW l \in k + 1 .. Len(batch') PROVE batch'[l].role = "listener"
        <5>1. l \in Len(J) + 1 .. Len(J) + Len(L)
          BY <1>1, <4>1
        <5>2. batch'[l] = [role |-> "listener", event |-> L[l - Len(J)]]
          BY <1>1, <5>1
        <5> QED
          BY <5>2
      <4> QED
        BY <1>b, <3>1, <4>1, <4>2
    <3>2. CASE /\ k \in Len(J) + 1 .. Len(J) + Len(L)
               /\ k - Len(J) \in DOMAIN events["listener"] /\ batch'[k].role = "listener"
               /\ batch'[k].event = events["listener"][k - Len(J)]
      <4>1. workers["listener"].phase = "done" /\ k - Len(J) = Len(L)
        BY <1>b, <1>t, <2>1, <3>2 DEF EndIsLast, L
      <4>2. k + 1 .. Len(batch') = {}
        BY <1>1, <1>e, <3>2, <4>1
      <4> QED
        BY <1>b, <3>2, <4>1, <4>2
    <3> QED
      BY <1>2, <3>1, <3>2
  <2>2. \A r \in App!Roles : DOMAIN events'[r] = {}
    BY <1>0
  <2> QED
    BY <1>0, <1>5, <2>1, <2>2 DEF EndIsLast
<1>7. App!TypeOK'
  <2>1. events' \in [App!Roles -> Seq(App!Events)]
    <3>1. << >> \in Seq(App!Events)
      OBVIOUS
    <3> QED
      BY <1>0, <3>1
  <2> QED
    BY <1>0, <1>1, <1>t, <2>1 DEF App!TypeOK, Notes
<1>8. App!PromptOfItsWorker' /\ App!RevokedSessionsStop' /\ App!ViewKept' /\ Busy' /\ Viewed'
        /\ Kept'
  BY <1>0, <1>t DEF App!PromptOfItsWorker, App!RevokedSessionsStop, App!Lives, App!ViewKept, Busy,
     Viewed, Kept
<1> QED
  BY <1>4, <1>6, <1>7, <1>8 DEF AppInv

LEMMA AppStarts ==
    ASSUME App!KindsAssumption, AppInv, App!Begin \/ App!StartListener
    PROVE  AppInv'
<1>t. App!TypeOK /\ Busy /\ Viewed /\ Kept /\ App!ViewKept /\ App!RevokedSessionsStop
        /\ App!PromptOfItsWorker
  BY DEF AppInv
<1>b. /\ workers \in [App!Roles -> App!Worker \cup {None}] /\ None \notin App!Worker
           /\ App!Roles = {"job", "listener"}
      /\ events \in [App!Roles -> Seq(App!Events)] /\ lost \in [App!Roles -> BOOLEAN]
      /\ "job" \in App!Roles /\ "listener" \in App!Roles /\ << >> \in Seq(App!Events)
  BY AppBasics
<1>0. ~polling /\ consent = None /\ batch = << >> /\ \A o \in App!Roles : ~lost[o]
  BY DEF App!Begin, App!StartListener, App!Free, App!Idle, AppInv, EndIsLast
<1>1. ASSUME NEW r \in App!Roles, NEW t \in Tasks \cup {"listen"},
             workers' = [workers EXCEPT ![r] = App!Fresh(t)],
             workers[r] = None, events' = [events EXCEPT ![r] = << >>],
             UNCHANGED << batch, lost, polling, busy, grant, consent, compose >>
      PROVE  /\ Sent' /\ EndIsLast' /\ App!PromptOfItsWorker' /\ App!RevokedSessionsStop'
             /\ workers' \in [App!Roles -> App!Worker \cup {None}]
                  /\ events' \in [App!Roles -> Seq(App!Events)]
             /\ workers'[r] = App!Fresh(t) /\ workers'[r] # None
             /\ \A o \in App!Roles : o # r => workers'[o] = workers[o]
  <2>f. App!Fresh(t) \in App!Worker /\ App!Fresh(t).by = "none"
    BY FreshWorker
  <2>1. /\ OnlyOf(r) /\ workers'[r] = App!Fresh(t) /\ workers'[r] # None
        /\ events' \in [App!Roles -> Seq(App!Events)] /\ events'[r] = << >>
        /\ \A o \in App!Roles : o # r => events'[o] = events[o]
    BY <1>1, <1>b, <2>f DEF OnlyOf
  <2>2. DOMAIN batch' = {}
    BY <1>0, <1>1
  <2>3. Sent' /\ EndIsLast'
    BY <1>0, <1>1, <1>b, <2>1, <2>2, QueuesClear
  <2>4. App!PromptOfItsWorker'
    BY <1>0, <1>1 DEF App!PromptOfItsWorker
  <2>5. App!RevokedSessionsStop'
    BY <1>1, <1>t, <2>1, <2>f DEF App!RevokedSessionsStop, App!Lives, OnlyOf
  <2> QED
    BY <2>1, <2>3, <2>4, <2>5 DEF OnlyOf
<1>2. CASE App!Begin
  <2>1. PICK t \in Tasks : /\ workers' = [workers EXCEPT !["job"] = App!Fresh(t)]
                           /\ \/ source' = "job" /\ view' = None /\ closing' = FALSE
                              \/ UNCHANGED << source, view, closing >>
    BY <1>2 DEF App!Begin
  <2>2. /\ workers["job"] = None /\ ~busy /\ events' = [events EXCEPT !["job"] = << >>]
        /\ UNCHANGED << batch, lost, polling, enabled, busy, grant, consent, compose >>
    BY <1>2 DEF App!Begin, App!Ready
  <2>3. /\ Sent' /\ EndIsLast' /\ App!PromptOfItsWorker' /\ App!RevokedSessionsStop'
        /\ workers' \in [App!Roles -> App!Worker \cup {None}]
             /\ events' \in [App!Roles -> Seq(App!Events)]
        /\ workers'["job"] = App!Fresh(t) /\ workers'["listener"] = workers["listener"]
    BY <1>1, <1>b, <2>1, <2>2
  <2>4. ~App!Fresh(t).drawn
    BY FreshWorker
  <2>5. ~closing /\ ~closing'
    BY <1>t, <2>1, <2>2 DEF Viewed
  <2>6. App!TypeOK'
    BY <1>0, <1>b, <1>t, <2>1, <2>2, <2>3 DEF App!TypeOK
  <2>7. Busy' /\ Viewed' /\ Kept' /\ App!ViewKept'
    BY <1>0, <1>t, <2>2, <2>3, <2>4, <2>5 DEF Busy, Viewed, Kept, App!ViewKept
  <2> QED
    BY <2>3, <2>6, <2>7 DEF AppInv
<1>3. CASE App!StartListener
  <2>1. /\ workers["listener"] = None /\ enabled' = TRUE
        /\ workers' = [workers EXCEPT !["listener"] = App!Fresh("listen")]
        /\ events' = [events EXCEPT !["listener"] = << >>]
        /\ UNCHANGED << batch, lost, polling, busy, grant, consent, compose, source, view,
           closing >>
    BY <1>3 DEF App!StartListener, App!shown
  <2>2. "listen" \in Tasks \cup {"listen"}
    OBVIOUS
  <2>3. /\ Sent' /\ EndIsLast' /\ App!PromptOfItsWorker' /\ App!RevokedSessionsStop'
        /\ workers' \in [App!Roles -> App!Worker \cup {None}]
             /\ events' \in [App!Roles -> Seq(App!Events)]
        /\ workers'["listener"] = App!Fresh("listen") /\ workers'["job"] = workers["job"]
        /\ workers'["listener"] # None
    BY <1>1, <1>b, <2>1, <2>2
  <2>4. /\ App!Fresh("listen").task = "listen" /\ ~App!Fresh("listen").stopped
        /\ App!Fresh("listen").reply = "none" /\ App!Fresh("listen").phase = "begun"
    BY FreshWorker
  <2>5. ~busy
    BY <1>t, <2>1 DEF App!TypeOK
  <2>6. App!TypeOK'
    BY <1>b, <1>t, <2>1, <2>3 DEF App!TypeOK
  <2>7. Busy' /\ Viewed' /\ Kept' /\ App!ViewKept'
    BY <1>0, <1>t, <2>1, <2>3, <2>4, <2>5 DEF Busy, Viewed, Kept, App!ViewKept
  <2> QED
    BY <2>3, <2>6, <2>7 DEF AppInv
<1> QED
  BY <1>2, <1>3

LEMMA AppStops ==
    ASSUME App!KindsAssumption, AppInv,
           App!PressStop \/ App!Answer \/ App!Disconnect \/ App!CloseTakesTooLong \/ App!Revoke
    PROVE  AppInv'
<1>t. App!TypeOK /\ Busy /\ Viewed /\ Kept /\ App!ViewKept /\ App!RevokedSessionsStop
  BY DEF AppInv
<1>b. /\ workers \in [App!Roles -> App!Worker \cup {None}] /\ None \notin App!Worker
           /\ App!Roles = {"job", "listener"}
      /\ "job" \in App!Roles /\ "listener" \in App!Roles /\ None # "listener"
      /\ \A o \in App!Roles : workers[o] # None => workers[o] \in App!Worker
  BY AppBasics
<1>0. UNCHANGED << events, batch, lost, polling, busy, source, view >>
  BY DEF App!PressStop, App!Answer, App!Disconnect, App!CloseTakesTooLong, App!Revoke
<1>1. ASSUME App!Stop, closing' = closing, grant' \in BOOLEAN
      PROVE  AppInv'
  <2>1. workers' = [o \in App!Roles |-> IF o \in App!Roles THEN App!Stopped(workers, o)
          ELSE workers[o]]
    BY <1>1 DEF App!Stop
  <2>2. /\ workers' \in [App!Roles -> App!Worker \cup {None}]
        /\ \A o \in App!Roles : /\ SameWork(o)
                                /\ workers[o] # None => workers'[o].stopped
                                /\ workers'[o].drawn = workers[o].drawn
                                /\ workers'[o].closed = workers[o].closed
                                /\ workers'[o].reply = workers[o].reply
                                /\ workers'[o].by = workers[o].by
    BY <2>1, Stops
  <2>3. consent' = None /\ compose' = None /\ enabled' = FALSE
    BY <1>1 DEF App!Stop
  <2>4. App!TypeOK' /\ App!PromptOfItsWorker' /\ Sent' /\ EndIsLast'
    BY <1>0, <1>1, <1>t, <2>2, <2>3, WorkGoesOn DEF App!TypeOK
  <2>5. App!RevokedSessionsStop'
    BY <2>2 DEF App!RevokedSessionsStop, App!Lives, SameWork
  <2>6. Busy'
    BY <1>0, <1>b, <1>t, <2>2, <2>3 DEF Busy, SameWork, App!TypeOK
  <2>7. Viewed' /\ Kept' /\ App!ViewKept'
    BY <1>0, <1>1, <1>b, <1>t, <2>2, <2>3 DEF Viewed, Kept, App!ViewKept, SameWork
  <2> QED
    BY <2>4, <2>5, <2>6, <2>7 DEF AppInv
<1>2. ASSUME workers' = [workers EXCEPT !["job"] = App!Stopped(workers, "job")],
             closing' \in {closing, FALSE},
             UNCHANGED << enabled, grant, consent, compose >>
      PROVE  AppInv'
  <2>1. workers' = [o \in App!Roles |-> IF o \in {"job"} THEN App!Stopped(workers, o)
          ELSE workers[o]]
    BY <1>2, <1>b
  <2>2. /\ workers' \in [App!Roles -> App!Worker \cup {None}]
        /\ \A o \in App!Roles : /\ SameWork(o)
                                /\ workers'[o].stopped = workers[o].stopped \/ o = "job"
                                /\ o = "job" /\ workers[o] # None => workers'[o].stopped
                                /\ workers'[o].drawn = workers[o].drawn
                                /\ workers'[o].closed = workers[o].closed
                                /\ workers'[o].reply = workers[o].reply
                                /\ workers'[o].by = workers[o].by
    <3>1. {"job"} \in SUBSET App!Roles
      BY <1>b
    <3> QED
      BY <2>1, <3>1, Stops
  <2>4. App!TypeOK' /\ App!PromptOfItsWorker' /\ Sent' /\ EndIsLast'
    BY <1>0, <1>2, <1>t, <2>2, WorkGoesOn DEF App!TypeOK
  <2>5. App!RevokedSessionsStop'
    BY <1>2, <1>t, <2>2 DEF App!RevokedSessionsStop, App!Lives, SameWork
  <2>6. Busy'
    BY <1>0, <1>2, <1>b, <1>t, <2>2 DEF Busy, SameWork
  <2>7. Viewed' /\ Kept' /\ App!ViewKept'
    <3>1. closing' => closing
      BY <1>2
    <3>2. Viewed'
      BY <1>0, <1>b, <1>t, <2>2, <3>1 DEF Viewed, SameWork
    <3>3. workers'["listener"].stopped = workers["listener"].stopped
      BY <1>b, <2>2
    <3>4. Kept'
      BY <1>2, <1>b, <1>t, <2>2, <3>3 DEF Kept, SameWork
    <3>5. App!ViewKept'
      BY <1>0, <1>b, <1>t, <2>2 DEF App!ViewKept, SameWork
    <3> QED
      BY <3>2, <3>4, <3>5
  <2> QED
    BY <2>4, <2>5, <2>6, <2>7 DEF AppInv
<1>3. ASSUME workers' = [workers EXCEPT !["job"].closed = TRUE], workers["job"] # None,
             closing' = TRUE,
             source # "listener", UNCHANGED << enabled, grant, consent, compose >>
      PROVE  AppInv'
  <2>0. workers["job"] \in App!Worker
    BY <1>3, <1>b
  <2>1. /\ workers' \in [App!Roles -> App!Worker \cup {None}]
        /\ workers'["listener"] = workers["listener"]
        /\ workers'["job"] \in App!Worker
             /\ workers'["job"] = [workers["job"] EXCEPT !.closed = TRUE]
    <3>1. workers' = [workers EXCEPT !["job"] = [workers["job"] EXCEPT !.closed = TRUE]]
      BY <1>3, <1>b
    <3>2. [workers["job"] EXCEPT !.closed = TRUE] \in App!Worker
      BY <2>0 DEF App!Worker
    <3> QED
      BY <1>b, <3>1, <3>2
  <2>2. /\ workers'["job"].phase = workers["job"].phase
             /\ workers'["job"].kind = workers["job"].kind
        /\ workers'["job"].task = workers["job"].task
             /\ workers'["job"].stopped = workers["job"].stopped
        /\ workers'["job"].drawn = workers["job"].drawn /\ workers'["job"].by = workers["job"].by
        /\ workers'["job"].closed /\ workers'["job"] # None
    BY <1>b, <2>0, <2>1 DEF App!Worker
  <2>3. \A o \in App!Roles : SameWork(o)
    BY <1>3, <1>b, <2>1, <2>2 DEF SameWork
  <2>4. App!TypeOK' /\ App!PromptOfItsWorker' /\ Sent' /\ EndIsLast'
    BY <1>0, <1>3, <1>t, <2>1, <2>3, WorkGoesOn DEF App!TypeOK
  <2>5. App!RevokedSessionsStop'
    BY <1>3, <1>b, <1>t, <2>1, <2>2 DEF App!RevokedSessionsStop, App!Lives
  <2>6. source = "job"
    BY <1>3, <1>b, <1>t DEF App!TypeOK
  <2>7. Busy' /\ Viewed' /\ Kept' /\ App!ViewKept'
    BY <1>0, <1>3, <1>t, <2>1, <2>2, <2>6 DEF Busy, Viewed, Kept, App!ViewKept
  <2> QED
    BY <2>4, <2>5, <2>7 DEF AppInv
<1>4. CASE App!PressStop
  <2>1. App!Stop /\ closing' = closing /\ grant' = grant
    BY <1>4 DEF App!PressStop
  <2> QED
    BY <1>1, <1>t, <2>1 DEF App!TypeOK
<1>5. CASE App!Revoke
  <2>1. App!Stop /\ closing' = closing /\ grant' = FALSE
    BY <1>5 DEF App!Revoke
  <2> QED
    BY <1>1, <2>1
<1>6. CASE App!CloseTakesTooLong
  BY <1>2, <1>6 DEF App!CloseTakesTooLong
<1>7. CASE App!Disconnect
  <2>1. grant' = grant
    BY <1>7 DEF App!Disconnect
  <2>2. CASE source = "listener"
    <3>1. App!Stop /\ closing' = closing
      BY <1>7, <2>2 DEF App!Disconnect
    <3> QED
      BY <1>1, <1>t, <2>1, <3>1 DEF App!TypeOK
  <2>3. CASE source # "listener"
    <3>1. /\ workers["job"] # None /\ UNCHANGED << enabled, consent, compose >>
          /\ \/ closing' = TRUE /\ workers' = [workers EXCEPT !["job"].closed = TRUE]
             \/ workers' = [workers EXCEPT !["job"] = App!Stopped(workers, "job")]
                  /\ closing' = closing
      BY <1>7, <2>3 DEF App!Disconnect
    <3> QED
      BY <1>2, <1>3, <2>1, <2>3, <3>1
  <2> QED
    BY <2>2, <2>3
<1>8. CASE App!Answer
  <2>1. PICK answer \in {"yes", "no"} : workers' = App!Replied(consent, answer, "user")
    BY <1>8 DEF App!Answer
  <2>2. /\ consent # None /\ consent' = None
        /\ UNCHANGED << enabled, grant, compose, closing >>
    BY <1>8 DEF App!Answer
  <2>3. consent \in App!Roles
    BY <1>t, <2>2 DEF App!TypeOK
  <2>4. /\ workers' \in [App!Roles -> App!Worker \cup {None}]
        /\ \A o \in App!Roles : /\ SameWork(o)
                                /\ workers'[o].stopped = workers[o].stopped
                                /\ workers'[o].drawn = workers[o].drawn
                                /\ workers'[o].closed = workers[o].closed
                                /\ \/ workers'[o].reply = workers[o].reply
                                        /\ workers'[o].by = workers[o].by
                                   \/ o = consent /\ workers'[o].reply = answer
                                        /\ workers'[o].by = "user"
    BY <2>1, <2>3, Replies
  <2>5. App!TypeOK' /\ App!PromptOfItsWorker' /\ Sent' /\ EndIsLast'
    BY <1>0, <1>t, <2>2, <2>4, WorkGoesOn DEF App!TypeOK
  <2>6. App!RevokedSessionsStop'
    BY <1>t, <2>2, <2>4 DEF App!RevokedSessionsStop, App!Lives, SameWork
  <2>7. Busy'
    BY <1>0, <1>b, <1>t, <2>2, <2>4 DEF Busy, SameWork
  <2>8. Viewed' /\ Kept' /\ App!ViewKept'
    BY <1>0, <1>b, <1>t, <2>2, <2>4 DEF Viewed, Kept, App!ViewKept, SameWork
  <2> QED
    BY <2>5, <2>6, <2>7, <2>8 DEF AppInv
<1> QED
  BY <1>4, <1>5, <1>6, <1>7, <1>8

LEMMA AppInit == App!KindsAssumption /\ App!Init => AppInv
<1> SUFFICES ASSUME App!KindsAssumption, App!Init PROVE AppInv
  OBVIOUS
<1>n. None \notin App!Worker /\ App!Roles = {"job", "listener"} /\ "job" \in App!Roles
        /\ "listener" \in App!Roles
      /\ "job" # "listener"
  BY DEF App!KindsAssumption, App!Roles
<1>f. /\ App!Fresh("listen") \in App!Worker /\ App!Fresh("listen").task = "listen"
      /\ App!Fresh("listen").phase = "begun" /\ App!Fresh("listen").reply = "none"
      /\ App!Fresh("listen").by = "none" /\ ~App!Fresh("listen").stopped
  BY FreshWorker
<1>1. /\ workers["job"] = None /\ workers["listener"] \in {App!Fresh("listen"), None}
      /\ enabled => workers["listener"] = App!Fresh("listen")
      /\ workers \in [App!Roles -> App!Worker \cup {None}]
  BY <1>n, <1>f DEF App!Init
<1>2. /\ events \in [App!Roles -> Seq(App!Events)] /\ \A r \in App!Roles : DOMAIN events[r] = {}
      /\ batch \in Seq([role : App!Roles, event : App!Events]) /\ DOMAIN batch = {} /\ batch = << >>
  <2> DEFINE Notes == [role : App!Roles, event : App!Events]
  <2> HIDE DEF Notes
  <2>1. << >> \in Seq(App!Events) /\ << >> \in Seq(Notes)
    OBVIOUS
  <2> QED
    BY <2>1 DEF App!Init, Notes
<1>3. App!TypeOK
  <2>1. source \in App!Roles
    BY <1>n DEF App!Init
  <2>2. lost \in [App!Roles -> BOOLEAN] /\ \A r \in App!Roles : ~lost[r]
    BY DEF App!Init
  <2> QED
    BY <1>1, <1>2, <2>1, <2>2 DEF App!Init, App!TypeOK
<1>4. App!PromptOfItsWorker /\ Viewed /\ App!ViewKept
  BY <1>1 DEF App!Init, App!PromptOfItsWorker, Viewed, App!ViewKept
<1>5. App!RevokedSessionsStop
  BY <1>1, <1>f, <1>n DEF App!RevokedSessionsStop, App!Lives
<1>6. Busy
  BY <1>1, <1>f, <1>n DEF App!Init, Busy, App!KindsAssumption
<1>7. Kept
  BY <1>1, <1>f, <1>n DEF Kept
<1>8. Sent
  BY <1>2 DEF Sent, Given, Coming
<1>9. EndIsLast
  BY <1>2 DEF App!Init, EndIsLast
<1> QED
  BY <1>3, <1>4, <1>5, <1>6, <1>7, <1>8, <1>9 DEF AppInv

LEMMA AppStep == App!KindsAssumption /\ AppInv /\ [App!Next]_(App!vars) => AppInv'
BY WorkerActs, AppConsents, AppComposes, AppFormats, AppFinishes, AppLoses, AppCollects, AppStarts,
   AppStops DEF App!Next, App!Poll, App!User

LEMMA AppIsSafe ==
    App!KindsAssumption /\ AppInv =>
        /\ App!TypeOK /\ App!OneSession /\ App!PromptOfItsWorker /\ App!RevokedSessionsStop
             /\ App!ListenerKept
        /\ App!CloseOfItsJob /\ App!ViewKept
<1> SUFFICES ASSUME App!KindsAssumption, AppInv
             PROVE  /\ App!TypeOK /\ App!OneSession /\ App!PromptOfItsWorker
                      /\ App!RevokedSessionsStop /\ App!ListenerKept
                    /\ App!CloseOfItsJob /\ App!ViewKept
  OBVIOUS
<1>1. App!OneSession
  <2> DEFINE S == {r \in App!Roles : App!Lives(r) /\ workers[r].phase = "session"}
  <2>1. \E r \in App!Roles : S \subseteq {r}
    <3>1. "listener" \in S => "job" \notin S
      BY DEF AppInv, Busy, App!Lives
    <3> QED
      BY <3>1 DEF App!Roles
  <2>2. PICK r \in App!Roles : S \subseteq {r}
    BY <2>1
  <2> HIDE DEF S
  <2>3. IsFiniteSet({r}) /\ Cardinality({r}) = 1
    BY FS_Singleton
  <2>4. Cardinality(S) <= 1
    BY <2>2, <2>3, FS_Subset
  <2> QED
    BY <2>4 DEF App!OneSession, App!Cardinality, Cardinality, S
<1>2. App!ListenerKept /\ App!CloseOfItsJob
  BY DEF AppInv, Kept, Viewed, App!ListenerKept, App!CloseOfItsJob
<1> QED
  BY <1>1, <1>2 DEF AppInv

-----------------------------------------------------------------------------
(* All three in one program.  A behaviour moves one of them; the others keep *)
(* their invariants because none of their variables change.                  *)

JobsInv == AppInv /\ ListenerInv /\ ViewerInv

\* While one of them moves, the others stay as they are.
LEMMA OneMoves ==
    ASSUME [Next]_vars
    PROVE  /\ [App!Next]_(App!vars) /\ [Listener!Next]_(Listener!vars)
             /\ [Viewer!Next]_(Viewer!vars)
<1> USE DEF vars, appVars, listenerVars, viewerVars
<1>1. [App!Next]_(App!vars)
  BY DEF Next, App!vars, App!shown
<1>2. [Listener!Next]_(Listener!vars)
  BY DEF Next, Listener!vars, Listener!settings
<1>3. [Viewer!Next]_(Viewer!vars)
  BY DEF Next, Viewer!vars, Viewer!user, Viewer!control
<1> QED
  BY <1>1, <1>2, <1>3

\* Every state a behaviour reaches has a window, a listener and a viewer that agree with what
\* they have sent, taken and been told.
THEOREM JobsInvariant == Spec => []JobsInv
<1>a. App!KindsAssumption /\ Listener!ConstantsAssumption /\ Viewer!ConstantsAssumption
  BY InstanceAssumption
<1>1. Init => JobsInv
  BY <1>a, AppInit, ListenerInit, ViewerInit DEF Init, JobsInv
<1>2. JobsInv /\ [Next]_vars => JobsInv'
  BY <1>a, OneMoves, AppStep, ListenerStep, ViewerStep DEF JobsInv
<1> QED
  BY <1>1, <1>2, PTL DEF Spec

\* The device is in one session at a time, prompts, views and closes are of workers there are,
\* a listener comes back and a revoked grant ends what it let in, whatever events wait, are taken
\* late or never come (App::poll and the buttons).
THEOREM WindowAgreeing == Spec => []WindowAgrees
<1>1. JobsInv => WindowAgrees
  BY InstanceAssumption, AppIsSafe DEF JobsInv, WindowAgrees
<1> QED
  BY <1>1, JobsInvariant, PTL

\* A listener serves only whom it verified and was told to accept, closes whom it refused before
\* it waits again, and goes on listening, for any number of connections and with a stop at any
\* moment (the Host branch of execute).
THEOREM ListenerAnswering == Spec => []ListenerAnswers
<1>1. JobsInv => ListenerAnswers
  BY ListenerIsSafe DEF JobsInv, ListenerAnswers
<1> QED
  BY <1>1, JobsInvariant, PTL

\* With a channel of any size and any number of keys: a viewer that was stopped asks nobody,
\* writes no input behind Close, keeps presses and releases in turn, and leaves nothing behind
\* (execute_remote, Control).
THEOREM ViewerSound == Spec => []ViewerIsSound
<1>1. JobsInv => ViewerIsSound
  BY ViewerIsSafe DEF JobsInv, ViewerIsSound
<1> QED
  BY <1>1, JobsInvariant, PTL

=============================================================================
