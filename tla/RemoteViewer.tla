---------------------------- MODULE RemoteViewer ----------------------------
(***************************************************************************)
(* The viewer side of a remote desktop session and the way it is stopped    *)
(* (Control, Job and execute_remote, crates/sensor-desktop/src/worker.rs).  *)
(*                                                                          *)
(* Four threads share a Control: the window thread sends input and stops    *)
(* the session, the worker connects and then reads, the writer thread sends *)
(* what the other two queue, and a watchdog ends a session whose peer does  *)
(* not answer Close.  Each of them can abort: it sets cancelled, and then,  *)
(* in a step of its own, takes the registered socket and shuts it down.     *)
(*                                                                          *)
(* The peer is free: it answers, sends frames, or says nothing for ever.    *)
(* Input is a key that is pressed and released.  Frames, displays, the      *)
(* clipboard and the texts of events are left out.                          *)
(*                                                                          *)
(* A definition marked "Mutation" is not the code: it is a plausible wrong  *)
(* version of the definition below it, used to see a property fail.         *)
(***************************************************************************)
EXTENDS Naturals, Sequences

CONSTANTS
    QueueSize, \* the 256 of the command channel
    MaxInputs, \* bound on the presses of the key
    MaxFrames  \* bound on the frames and pings of the peer

ConstantsAssumption ==
    /\ QueueSize \in Nat \ {0}
    /\ MaxInputs \in Nat
    /\ MaxFrames \in Nat

Messages == {"press", "release", "ack", "pong", "close"}
Input    == {"press", "release"}

VARIABLES
    window,     \* where the window thread is in stop
    pressed,    \* the key is down on the keyboard
    inputs,     \* presses so far
    dropped,    \* the Job was dropped
    cancelled,  \* Control.cancelled
    localStop,  \* Control.local_stop
    sender,     \* Control.remote_sender is Some
    socket,     \* Control.socket is Some
    worker,     \* where execute_remote is
    writer,     \* where the writer thread is
    watchdog,   \* where the thread started by stop is
    queue,      \* the command channel
    stream,     \* the connection: "none", "open" or "shut"
    toPeer,     \* the input and the Close that were written to it
    arrived,    \* the message the peer has sent and the worker has not taken
    frames,     \* messages of the peer so far
    tooLate     \* history: cancelled was set before a socket was registered

control == << cancelled, localStop, sender, socket >>
user    == << window, pressed, inputs, dropped >>
vars == << user, control, worker, writer, watchdog, queue, stream, toPeer, arrived, frames, tooLate >>

WorkerState == {"connect", "register", "handshake", "request", "answer", "split", "receive",
                "ack", "clear", "cancel", "close", "join", "finished"}

TypeOK ==
    /\ window \in {"idle", "take", "cancel", "close"}
    /\ pressed \in BOOLEAN /\ dropped \in BOOLEAN
    /\ inputs \in 0 .. MaxInputs
    /\ cancelled \in BOOLEAN /\ localStop \in BOOLEAN /\ sender \in BOOLEAN /\ socket \in BOOLEAN
    /\ worker \in WorkerState
    /\ writer \in {"none", "idle", "sending", "cancel", "close", "ended"}
    /\ watchdog \in {"none", "waiting", "cancel", "close", "ended"}
    /\ queue \in Seq(Messages) /\ Len(queue) <= QueueSize
    /\ stream \in {"none", "open", "shut"}
    /\ socket => stream # "none"
    /\ toPeer \in Seq(Input \cup {"close"})
    /\ arrived \in {"nothing", "accepted", "frame", "ping", "close"}
    /\ frames \in 0 .. MaxFrames
    /\ tooLate \in BOOLEAN

Init ==
    /\ window = "idle" /\ pressed = FALSE /\ inputs = 0 /\ dropped = FALSE
    /\ cancelled = FALSE /\ localStop = FALSE /\ sender = FALSE /\ socket = FALSE
    /\ worker = "connect"
    /\ writer = "none"
    /\ watchdog = "none"
    /\ queue = << >>
    /\ stream = "none"
    /\ toPeer = << >>
    /\ arrived = "nothing"
    /\ frames = 0
    /\ tooLate = FALSE

-----------------------------------------------------------------------------
(* Control *)

\* abort sets the flag ...
Cancel ==
    /\ cancelled' = TRUE
    /\ tooLate' = (tooLate \/ stream = "none")

\* ... and close_socket takes the socket and shuts it down under its lock
CloseSocket ==
    /\ socket' = FALSE
    /\ stream' = IF socket THEN "shut" ELSE stream

\* the receiver of the channel lives as long as the writer thread
CanQueue == writer # "ended" /\ Len(queue) < QueueSize

\* stop: the flag first, so that no input follows
BeginStop ==
    /\ window = "idle" /\ ~dropped
    /\ localStop' = TRUE
    /\ window' = IF localStop THEN "cancel" ELSE "take"
    /\ UNCHANGED << pressed, inputs, dropped, cancelled, sender, socket, worker, writer, watchdog,
                    queue, stream, toPeer, arrived, frames, tooLate >>

\* the sender is taken; if Close can be queued a watchdog waits for the end, else abort
TakeSender ==
    /\ window = "take"
    /\ sender' = FALSE
    /\ IF sender /\ CanQueue
       THEN queue' = Append(queue, "close") /\ watchdog' = "waiting" /\ window' = "idle"
       ELSE UNCHANGED << queue, watchdog >> /\ window' = "cancel"
    /\ UNCHANGED << pressed, inputs, dropped, cancelled, localStop, socket, worker, writer,
                    stream, toPeer, arrived, frames, tooLate >>

WindowAborts ==
    \/ /\ window = "cancel"
       /\ Cancel
       /\ window' = "close"
       /\ UNCHANGED << pressed, inputs, dropped, localStop, sender, socket, worker, writer, watchdog,
                       queue, stream, toPeer, arrived, frames >>
    \/ /\ window = "close"
       /\ CloseSocket
       /\ window' = "idle"
       /\ UNCHANGED << pressed, inputs, dropped, cancelled, localStop, sender, worker, writer, watchdog,
                       queue, toPeer, arrived, frames, tooLate >>

\* 750 ms at most, less when something else cancels the session
WatchdogEnds ==
    \/ /\ watchdog \in {"waiting", "cancel"}
       /\ Cancel
       /\ watchdog' = "close"
       /\ UNCHANGED << user, localStop, sender, socket, worker, writer, queue, stream, toPeer, arrived, frames >>
    \/ /\ watchdog = "close"
       /\ CloseSocket
       /\ watchdog' = "ended"
       /\ UNCHANGED << user, cancelled, localStop, sender, worker, writer, queue, toPeer, arrived, frames, tooLate >>

\* Mutation: input that finds the channel full is left out
SendRemoteLossy(message) ==
    IF localStop \/ cancelled \/ ~sender \/ ~CanQueue
    THEN UNCHANGED << queue, cancelled, tooLate, stream >>
    ELSE queue' = Append(queue, message) /\ UNCHANGED << cancelled, tooLate, stream >>

\* Mutation: input is queued as long as there is a channel
SendRemoteAfterStop(message) ==
    IF writer = "none" \/ ~CanQueue
    THEN UNCHANGED << queue, cancelled, tooLate, stream >>
    ELSE queue' = Append(queue, message) /\ UNCHANGED << cancelled, tooLate, stream >>

\* send_remote: a full channel ends the session rather than lose a release
SendRemote(message) ==
    IF localStop \/ cancelled \/ ~sender \/ writer = "ended"
    THEN UNCHANGED << queue, cancelled, tooLate, stream >>
    ELSE IF Len(queue) < QueueSize
    THEN queue' = Append(queue, message) /\ UNCHANGED << cancelled, tooLate, stream >>
    ELSE Cancel /\ stream' = (IF socket THEN "shut" ELSE stream) /\ UNCHANGED queue

\* the user presses or releases the key while the session is shown
Key ==
    /\ window = "idle" /\ ~dropped
    /\ writer # "none"
    /\ ~pressed => inputs < MaxInputs
    /\ pressed' = ~pressed
    /\ inputs' = IF pressed THEN inputs ELSE inputs + 1
    /\ SendRemote(IF pressed THEN "release" ELSE "press")
    /\ UNCHANGED << window, dropped, localStop, sender, socket, worker, writer, watchdog,
                    toPeer, arrived, frames >>

\* Drop for Job: stop once more, and never a wait
DropJob ==
    /\ window = "idle" /\ ~dropped
    /\ dropped' = TRUE
    /\ localStop' = TRUE
    /\ window' = IF localStop THEN "cancel" ELSE "take"
    /\ UNCHANGED << pressed, inputs, cancelled, sender, socket, worker, writer, watchdog,
                    queue, stream, toPeer, arrived, frames, tooLate >>

-----------------------------------------------------------------------------
(* The worker: execute_remote *)

WorkerOnly(state) ==
    /\ worker' = state
    /\ UNCHANGED << user, control, writer, watchdog, queue, stream, toPeer, arrived, frames, tooLate >>

\* connect_route: a Render connection gives up when it sees the flag, a direct one does not
Connect ==
    /\ worker = "connect"
    /\ WorkerOnly("register") \/ WorkerOnly("finished")

\* Control::socket: under the lock that close_socket takes
Register ==
    /\ worker = "register"
    /\ IF cancelled
       THEN worker' = "finished" /\ stream' = "shut" /\ UNCHANGED socket
       ELSE worker' = "handshake" /\ stream' = "open" /\ socket' = TRUE
    /\ UNCHANGED << user, cancelled, localStop, sender, writer, watchdog, queue, toPeer, arrived, frames, tooLate >>

\* SecureConnection::initiate and request, each with a deadline
Handshake ==
    /\ worker = "handshake"
    /\ \/ stream = "open" /\ WorkerOnly("request")
       \/ WorkerOnly("finished")

Request ==
    /\ worker = "request"
    /\ \/ stream = "open" /\ WorkerOnly("answer")
       \/ WorkerOnly("finished")

Answered ==
    /\ worker = "answer"
    /\ \/ /\ arrived = "accepted"
          /\ arrived' = "nothing"
          /\ worker' = IF dropped THEN "finished" ELSE "split"
          /\ UNCHANGED << user, control, writer, watchdog, queue, stream, toPeer, frames, tooLate >>
       \/ WorkerOnly("finished")

\* the connection is split, the sender published, the writer started
StartWriter ==
    /\ worker = "split"
    /\ sender' = TRUE
    /\ writer' = "idle"
    /\ worker' = "receive"
    /\ UNCHANGED << user, cancelled, localStop, socket, watchdog, queue, stream, toPeer, arrived, frames, tooLate >>

\* a frame is decoded and answered, a ping is answered if there is room
Receive ==
    /\ worker = "receive"
    /\ arrived # "nothing"
    /\ arrived' = "nothing"
    /\ worker' = CASE arrived = "frame" -> "ack" [] arrived = "ping" -> "receive" [] OTHER -> "clear"
    /\ queue' = IF arrived = "ping" /\ CanQueue THEN Append(queue, "pong") ELSE queue
    /\ UNCHANGED << user, control, writer, watchdog, stream, toPeer, frames, tooLate >>

\* the stream ends, a deadline passes, a message is not valid, the window is gone
ReceiveFails ==
    /\ worker = "receive"
    /\ stream = "shut" \/ dropped \/ arrived # "nothing"
    /\ WorkerOnly("clear")

\* a full channel ends the session
Ack ==
    /\ worker = "ack"
    /\ IF CanQueue THEN queue' = Append(queue, "ack") /\ worker' = "receive"
                   ELSE UNCHANGED queue /\ worker' = "clear"
    /\ UNCHANGED << user, control, writer, watchdog, stream, toPeer, arrived, frames, tooLate >>

\* clear_remote_sender, abort, drop(commands)
Leave ==
    \/ /\ worker = "clear"
       /\ sender' = FALSE
       /\ worker' = "cancel"
       /\ UNCHANGED << user, cancelled, localStop, socket, writer, watchdog, queue, stream, toPeer, arrived, frames, tooLate >>
    \/ /\ worker = "cancel"
       /\ Cancel
       /\ worker' = "close"
       /\ UNCHANGED << user, localStop, sender, socket, writer, watchdog, queue, stream, toPeer, arrived, frames >>
    \/ /\ worker = "close"
       /\ CloseSocket
       /\ worker' = "join"
       /\ UNCHANGED << user, cancelled, localStop, sender, writer, watchdog, queue, toPeer, arrived, frames, tooLate >>

Join ==
    /\ worker = "join"
    /\ writer = "ended"
    /\ WorkerOnly("finished")

-----------------------------------------------------------------------------
(* The writer thread *)

WriterOnly(state) ==
    /\ writer' = state
    /\ UNCHANGED << user, control, worker, watchdog, queue, stream, toPeer, arrived, frames, tooLate >>

\* the flag is read once a round; dropping SecureWriter shuts the stream down
WriterStops ==
    /\ writer = "idle"
    /\ cancelled
    /\ writer' = "ended"
    /\ stream' = "shut"
    /\ UNCHANGED << user, control, worker, watchdog, queue, toPeer, arrived, frames, tooLate >>

WriterTakes ==
    /\ writer = "idle"
    /\ queue # << >>
    /\ WriterOnly("sending")

\* the message goes out, or the write fails and the writer aborts the session
WriterSends ==
    /\ writer = "sending"
    /\ \/ /\ stream = "open"
          /\ toPeer' = IF Head(queue) \in {"ack", "pong"} THEN toPeer ELSE Append(toPeer, Head(queue))
          /\ queue' = Tail(queue)
          /\ writer' = "idle"
          /\ UNCHANGED << user, control, worker, watchdog, stream, arrived, frames, tooLate >>
       \/ /\ queue' = Tail(queue)
          /\ stream' = "shut"
          /\ writer' = "cancel"
          /\ UNCHANGED << user, control, worker, watchdog, toPeer, arrived, frames, tooLate >>

\* the ping of every two seconds notices that the stream is gone
WriterPings ==
    /\ writer = "idle"
    /\ stream = "shut"
    /\ WriterOnly("cancel")

WriterAborts ==
    \/ /\ writer = "cancel"
       /\ Cancel
       /\ writer' = "close"
       /\ UNCHANGED << user, localStop, sender, socket, worker, watchdog, queue, stream, toPeer, arrived, frames >>
    \/ /\ writer = "close"
       /\ CloseSocket
       /\ writer' = "ended"
       /\ UNCHANGED << user, cancelled, localStop, sender, worker, watchdog, queue, toPeer, arrived, frames, tooLate >>

-----------------------------------------------------------------------------
(* The peer *)

PeerSends ==
    /\ stream = "open"
    /\ arrived = "nothing"
    /\ frames < MaxFrames
    /\ \/ worker = "answer" /\ arrived' = "accepted"
       \/ worker \in {"receive", "ack"} /\ arrived' \in {"frame", "ping", "close"}
    /\ frames' = frames + 1
    /\ UNCHANGED << user, control, worker, writer, watchdog, queue, stream, toPeer, tooLate >>

PeerCloses ==
    /\ stream = "open"
    /\ stream' = "shut"
    /\ UNCHANGED << user, control, worker, writer, watchdog, queue, toPeer, arrived, frames, tooLate >>

-----------------------------------------------------------------------------
WindowStep == TakeSender \/ WindowAborts
WorkerStep ==
    Connect \/ Register \/ Handshake \/ Request \/ Answered \/ StartWriter \/ Receive
    \/ ReceiveFails \/ Ack \/ Leave \/ Join
WriterLoops  == WriterStops \/ WriterPings
WriterWrites == WriterTakes \/ WriterSends \/ WriterAborts

Next ==
    \/ BeginStop \/ Key \/ DropJob \/ WindowStep
    \/ WatchdogEnds \/ WorkerStep \/ WriterLoops \/ WriterWrites
    \/ PeerSends \/ PeerCloses

Spec == Init /\ [][Next]_vars

\* threads run; connecting, the handshake, the request and a write have deadlines, the
\* reading of an established session is not assumed to end by itself
FairSpec ==
    /\ Spec
    /\ WF_vars(WindowStep)
    /\ WF_vars(WatchdogEnds)
    /\ WF_vars(WorkerStep)
    /\ WF_vars(WriterLoops)
    /\ WF_vars(WriterWrites)

-----------------------------------------------------------------------------
(* Properties *)

\* stop ends the session whenever it is called, while connecting, before the socket or the
\* sender is registered, with a peer that never answers Close (stop, its watchdog, socket).
StopEnds == localStop ~> worker = "finished" /\ stream # "open"

\* A session that was aborted before it had a socket never sends anything: the other
\* person is not asked for a session that was already given up (Control::socket).
AbortedBeforeConnecting == tooLate => worker \in {"connect", "register", "finished"}

\* the input a user gives in place k, starting with a key that is up
Turn(k) == IF k % 2 = 1 THEN "press" ELSE "release"

\* No input is written behind Close, and none after the session has ended (stop, send_remote).
NoInputAfterClose ==
    \A k \in DOMAIN toPeer : toPeer[k] = "close" =>
        \A l \in k + 1 .. Len(toPeer) : toPeer[l] \notin Input

\* The input written, all of it before Close, is a press, its release, the next press: what is
\* left out at the end of a full channel is never a release with something behind it
\* (send_remote).
InputAlternates ==
    \A k \in DOMAIN toPeer : toPeer[k] \in Input => toPeer[k] = Turn(k)

\* The release of a key the user has let go is written to the peer, or the connection ends, on
\* which a host releases what is held (send_remote on a full channel).  What the host does with
\* a release that is written is RemoteInput's.
ReleasedOrEnded ==
    ~pressed ~> \/ pressed
                \/ stream = "shut"
                \/ Len(SelectSeq(toPeer, LAMBDA m : m = "press"))
                    = Len(SelectSeq(toPeer, LAMBDA m : m = "release"))

\* When the worker has finished, nothing of the session is left: the writer has ended, the
\* window has no sender, and once the job is dropped the stream is shut even where the
\* worker returned early and only the cancellation handle still held the socket.
NothingLeft ==
    worker = "finished" =>
        /\ writer \in {"none", "ended"}
        /\ ~sender
        /\ dropped /\ window = "idle" => stream # "open"
=============================================================================
