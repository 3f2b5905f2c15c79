---------------------------- MODULE HostListener ----------------------------
(***************************************************************************)
(* The job that waits for an incoming session (the Host branch of execute,  *)
(* Interaction::accept and wait_reply, crates/sensor-desktop/src/worker.rs).*)
(*                                                                          *)
(* Connections come one after the other.  The worker registers the socket   *)
(* of each so that a stop can shut it down, makes the handshake, receives   *)
(* the request and asks the window; an unverified connection is refused and *)
(* the worker waits again.  The window answers when it likes, also when     *)
(* nobody waits for the answer any more, and may stop the job at any time.  *)
(*                                                                          *)
(* The session that follows consent is one phase that ends at any time      *)
(* (EndpointSession and HostDesktop say what happens in it).                *)
(*                                                                          *)
(* A definition marked "Mutation" is not the code: it is a plausible wrong  *)
(* version of the definition below it, used to see a property fail.         *)
(***************************************************************************)
EXTENDS Naturals

CONSTANTS
    None,
    MaxConnections, \* bound on the connections of a behaviour
    MaxRetries      \* bound on the failed attempts to reach the rendezvous

ConstantsAssumption ==
    /\ MaxConnections \in Nat
    /\ MaxRetries \in Nat
    /\ None \notin Nat

Connections == 1 .. MaxConnections

VARIABLES
    route,     \* "direct", "relay" or "render"
    auto,      \* auto_accept
    any,       \* accept_any
    worker,    \* where execute is
    current,   \* the connection it works on
    count,     \* connections so far
    retries,   \* failed attempts so far
    pinned,    \* pinned[c]: c comes from the permitted peer
    socket,    \* socket[c]: "none", "open" or "shut"
    handle,    \* Control.socket: the registered connection
    cancelled, \* Control.cancelled
    localStop, \* Control.local_stop
    window,    \* where the window thread is in stop
    prompt,    \* prompt[c]: "none", "asked", "yes" or "no"
    broken,    \* the listening socket failed
    verified,  \* history: connections whose handshake succeeded
    served     \* history: connections a session was opened for

settings == << route, auto, any >>
vars == << settings, worker, current, count, retries, pinned, socket, handle, cancelled,
           localStop, window, prompt, broken, verified, served >>

TypeOK ==
    /\ route \in {"direct", "relay", "render"} /\ auto \in BOOLEAN /\ any \in BOOLEAN
    /\ worker \in {"start", "accept", "backoff", "register", "handshake", "refuse", "request",
                   "prompt", "serve", "finished"}
    /\ current \in Connections \cup {None}
    /\ worker \in {"register", "handshake", "refuse", "request", "prompt", "serve"} => current # None
    /\ count \in 0 .. MaxConnections /\ retries \in 0 .. MaxRetries
    /\ pinned \in [Connections -> BOOLEAN]
    /\ socket \in [Connections -> {"none", "open", "shut"}]
    /\ handle \in Connections \cup {None}
    /\ handle # None => handle = current
    /\ cancelled \in BOOLEAN /\ localStop \in BOOLEAN /\ broken \in BOOLEAN
    /\ window \in {"idle", "cancel", "close"}
    /\ prompt \in [Connections -> {"none", "asked", "yes", "no"}]
    /\ served \subseteq verified

Init ==
    /\ route \in {"direct", "relay", "render"}
    /\ auto \in BOOLEAN /\ any \in BOOLEAN
    /\ worker = "start"
    /\ current = None
    /\ count = 0 /\ retries = 0
    /\ pinned \in [Connections -> BOOLEAN]
    /\ socket = [c \in Connections |-> "none"]
    /\ handle = None
    /\ cancelled = FALSE /\ localStop = FALSE
    /\ window = "idle"
    /\ prompt = [c \in Connections |-> "none"]
    /\ broken = FALSE
    /\ verified = {} /\ served = {}

-----------------------------------------------------------------------------
(* Control: a host has no remote sender, so that stop aborts at once *)

Stop ==
    /\ window = "idle"
    /\ localStop' = TRUE
    /\ window' = "cancel"
    /\ UNCHANGED << settings, worker, current, count, retries, pinned, socket, handle, cancelled,
                    prompt, broken, verified, served >>

Shut(c)     == socket' = IF c = None THEN socket ELSE [socket EXCEPT ![c] = "shut"]

\* abort: the flag, and then close_socket
Abort ==
    \/ /\ window = "cancel"
       /\ cancelled' = TRUE
       /\ window' = "close"
       /\ UNCHANGED << settings, worker, current, count, retries, pinned, socket, handle, localStop,
                       prompt, broken, verified, served >>
    \/ /\ window = "close"
       /\ Shut(handle) /\ handle' = None
       /\ window' = "idle"
       /\ UNCHANGED << settings, worker, current, count, retries, pinned, cancelled, localStop,
                       prompt, broken, verified, served >>

\* the user answers the dialogue, or closes it
Answer ==
    /\ \E c \in Connections :
        /\ prompt[c] = "asked"
        /\ \E reply \in {"yes", "no"} : prompt' = [prompt EXCEPT ![c] = reply]
    /\ UNCHANGED << settings, worker, current, count, retries, pinned, socket, handle, cancelled,
                    localStop, window, broken, verified, served >>

-----------------------------------------------------------------------------
(* The worker: execute, Task::Host *)

WorkerOnly(state) ==
    /\ worker' = state
    /\ UNCHANGED << settings, current, count, retries, pinned, socket, handle, cancelled, localStop,
                    window, prompt, broken, verified, served >>

\* an unattended listener needs one pinned peer; the directory, the log and the port may fail
Start ==
    /\ worker = "start"
    /\ IF auto /\ any
       THEN WorkerOnly("finished")
       ELSE \/ WorkerOnly("accept")
            \/ /\ broken' = TRUE
               /\ worker' = "finished"
               /\ UNCHANGED << settings, current, count, retries, pinned, socket, handle, cancelled,
                               localStop, window, prompt, verified, served >>

\* a connection arrives at the listening socket, the relay or the rendezvous
Arrive ==
    /\ worker = "accept"
    /\ count < MaxConnections
    /\ count' = count + 1
    /\ current' = count + 1
    /\ socket' = [socket EXCEPT ![count + 1] = "open"]
    /\ worker' = "register"
    /\ UNCHANGED << settings, retries, pinned, handle, cancelled, localStop, window, prompt, broken,
                    verified, served >>

\* accept and accept_render look at the flag while they wait, and the pause between attempts
\* does; join_relay does not, but its timeouts bound it, and then Register looks at the flag
\* or AcceptFails ends the worker
StopWaiting ==
    /\ worker \in {"accept", "backoff"}
    /\ cancelled
    /\ WorkerOnly("finished")

\* accept fails for good, join_relay fails, or accept_render fails and is tried again
AcceptFails ==
    /\ worker = "accept"
    /\ IF route = "render" THEN retries < MaxRetries ELSE TRUE
    /\ IF route = "render"
       THEN retries' = retries + 1 /\ worker' = "backoff" /\ UNCHANGED broken
       ELSE broken' = TRUE /\ worker' = "finished" /\ UNCHANGED retries
    /\ UNCHANGED << settings, current, count, pinned, socket, handle, cancelled, localStop, window,
                    prompt, verified, served >>

Retry ==
    /\ worker = "backoff"
    /\ ~cancelled
    /\ WorkerOnly("accept")

\* Mutation: the flag is not looked at when the socket is registered
RegisterUnchecked ==
    /\ worker = "register"
    /\ handle' = current /\ worker' = "handshake" /\ UNCHANGED socket
    /\ UNCHANGED << settings, current, count, retries, pinned, cancelled, localStop, window, prompt,
                    broken, verified, served >>

\* Control::socket
Register ==
    /\ worker = "register"
    /\ IF cancelled
       THEN Shut(current) /\ worker' = "finished" /\ UNCHANGED handle
       ELSE handle' = current /\ worker' = "handshake" /\ UNCHANGED socket
    /\ UNCHANGED << settings, current, count, retries, pinned, cancelled, localStop, window, prompt,
                    broken, verified, served >>

\* SecureConnection::accept or accept_unpinned; it also fails when the connection is lost
Verify ==
    /\ worker = "handshake"
    /\ socket[current] = "open"
    /\ any \/ pinned[current]
    /\ verified' = verified \cup {current}
    /\ worker' = "request"
    /\ UNCHANGED << settings, current, count, retries, pinned, socket, handle, cancelled, localStop,
                    window, prompt, broken, served >>

Refuse ==
    /\ worker = "handshake"
    /\ WorkerOnly(IF route \in {"direct", "render"} /\ ~cancelled THEN "refuse" ELSE "finished")

\* the cancellation handle still owns the socket of the refused connection
Refused ==
    /\ worker = "refuse"
    /\ Shut(handle) /\ handle' = None
    /\ worker' = "accept"
    /\ UNCHANGED << settings, current, count, retries, pinned, cancelled, localStop, window, prompt,
                    broken, verified, served >>

\* serve receives the request and asks, unless the profile accepts by itself
Ask ==
    /\ worker = "request"
    /\ socket[current] = "open"
    /\ IF auto
       THEN served' = served \cup {current} /\ worker' = "serve" /\ UNCHANGED prompt
       ELSE prompt' = [prompt EXCEPT ![current] = "asked"] /\ worker' = "prompt" /\ UNCHANGED served
    /\ UNCHANGED << settings, current, count, retries, pinned, socket, handle, cancelled, localStop,
                    window, broken, verified >>

\* Mutation: no answer in time counts as consent
AcceptedBySilence ==
    /\ worker = "prompt"
    /\ prompt[current] # "no"
    /\ served' = served \cup {current}
    /\ worker' = "serve"
    /\ UNCHANGED << settings, current, count, retries, pinned, socket, handle, cancelled, localStop,
                    window, prompt, broken, verified >>

\* the answer on this connection's own channel
Accepted ==
    /\ worker = "prompt"
    /\ prompt[current] = "yes"
    /\ served' = served \cup {current}
    /\ worker' = "serve"
    /\ UNCHANGED << settings, current, count, retries, pinned, socket, handle, cancelled, localStop,
                    window, prompt, broken, verified >>

\* a refusal, 120 seconds without an answer, or a stop
Rejected ==
    /\ worker = "prompt"
    /\ prompt[current] # "yes" \/ cancelled
    /\ Shut(current)
    /\ worker' = "finished"
    /\ UNCHANGED << settings, current, count, retries, pinned, handle, cancelled, localStop, window,
                    prompt, broken, verified, served >>

\* the request does not come, or the session ends: serve closes the connection or drops it
SessionEnds ==
    /\ worker \in {"request", "serve"}
    /\ Shut(current)
    /\ worker' = "finished"
    /\ UNCHANGED << settings, current, count, retries, pinned, handle, cancelled, localStop, window,
                    prompt, broken, verified, served >>

-----------------------------------------------------------------------------
WorkerStep ==
    \/ Start \/ StopWaiting \/ Retry \/ Register \/ Verify \/ Refuse \/ Refused
    \/ Ask \/ Accepted \/ Rejected \/ SessionEnds

Next == Stop \/ Abort \/ Answer \/ Arrive \/ AcceptFails \/ WorkerStep

Spec == Init /\ [][Next]_vars

\* what the thread does by itself, what the person at the dialogue has decided, and a session
\* whose socket is shut
Waits           == Start \/ StopWaiting \/ Retry \/ Register \/ Refused \/ Verify \/ Refuse
Decided         == Accepted \/ Rejected
ShutSessionEnds == current # None /\ socket[current] = "shut" /\ SessionEnds

\* threads run; the handshake, the request, a dialogue and a session whose socket is shut end
FairSpec == Spec /\ WF_vars(Abort) /\ WF_vars(Waits) /\ WF_vars(Decided) /\ WF_vars(ShutSessionEnds)

-----------------------------------------------------------------------------
(* Properties *)

\* A session is only opened for a connection that was verified and whose own question was
\* answered with yes, or, unattended, for the one pinned peer: not by a deadline that
\* passes, a stop or a dialogue that is closed (Interaction::accept, wait_reply).
OwnAnswer ==
    \A c \in served :
        /\ any \/ pinned[c]
        /\ prompt[c] = "yes" \/ (auto /\ ~any)

\* No earlier connection is left open when the next one is awaited: the peer that was
\* refused is not kept waiting (close_socket after a refused handshake).
RefusedIsClosed ==
    \A c \in Connections : socket[c] = "open" => c = current /\ worker # "accept"

\* A connection that is not verified does not end the listener; only a stop, a verified
\* connection or a failure of the listening socket or of the relay does (execute).
KeepsListening ==
    worker = "finished" /\ route # "relay" =>
        cancelled \/ verified # {} \/ broken \/ (auto /\ any)

\* A stop ends the job and the connection it was working on, wherever it was: before the
\* socket was registered, in the handshake, at the dialogue, in the session (stop, socket).
StopEnds ==
    localStop ~> worker = "finished" /\ \A c \in Connections : socket[c] # "open"
=============================================================================
