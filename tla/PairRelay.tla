----------------------------- MODULE PairRelay -----------------------------
(***************************************************************************)
(* The provisioned relay (crates/sensor-relay/src/lib.rs): serve_forever    *)
(* runs one serve_pair after another.  An attempt accepts and authenticates *)
(* connections one at a time until each of its two roles has a stream, says *)
(* "ready" to both and copies bytes in both directions, one direction in a  *)
(* thread of its own, until both copies have returned.                      *)
(*                                                                          *)
(* A client is one TCP connection to the relay; Presents[c] is the role its *)
(* key is provisioned for, or "unknown".  end[c] is what the client has     *)
(* done with its side of the connection, which the relay only learns by     *)
(* reading or writing.  Bytes are counted, not named.                       *)
(*                                                                          *)
(* A definition marked "Mutation" is not the code: it is a plausible wrong  *)
(* version of the definition below it, used to see a property fail.         *)
(***************************************************************************)
EXTENDS Naturals, FiniteSets

CONSTANTS
    Clients,     \* connections; each is used once
    None,        \* no stream, no client being authenticated
    Presents,    \* Presents[c]: the role of the key c proves
    MaxRejected, \* the 16 rejections an attempt survives one short of
    MaxSent      \* bound: bytes a client sends after "ready"

Roles == {"left", "right"}

ASSUME ConstantsAssumption ==
    /\ None \notin Clients
    /\ Presents \in [Clients -> Roles \cup {"unknown"}]
    /\ MaxRejected \in Nat \ {0}
    /\ MaxSent \in Nat

VARIABLES
    relay,    \* where serve_forever is
    handling, \* the client in authenticate()
    streams,  \* serve_pair's streams
    rejected, \* serve_pair's rejected
    late,     \* the pairing deadline of this attempt has passed
    conn,     \* conn[c]: the relay's end of the connection
    end,      \* end[c]: the client's end of it
    inbox,    \* inbox[c]: bytes c sent that the relay has not read
    copy,     \* copy[r]: the io::copy that reads from streams[r]
    cut       \* a failed copy shut both sockets down

vars == << relay, handling, streams, rejected, late, conn, end, inbox, copy, cut >>

Other(r) == IF r = "left" THEN "right" ELSE "left"

TypeOK ==
    /\ relay \in {"accepting", "authenticating", "left", "right", "copying", "stopped", "broken"}
    /\ handling \in Clients \cup {None}
    /\ streams \in [Roles -> Clients \cup {None}]
    /\ rejected \in 0 .. MaxRejected - 1
    /\ late \in BOOLEAN
    /\ conn \in [Clients -> {"away", "queued", "held", "ready", "closed"}]
    /\ end \in [Clients -> {"open", "half", "closed", "reset"}]
    /\ inbox \in [Clients -> 0 .. MaxSent]
    /\ copy \in [Roles -> {"running", "eof", "failed"}]
    /\ cut \in BOOLEAN

Init ==
    /\ relay = "accepting"
    /\ handling = None
    /\ streams = [r \in Roles |-> None]
    /\ rejected = 0
    /\ late = FALSE
    /\ conn = [c \in Clients |-> "away"]
    /\ end = [c \in Clients |-> "open"]
    /\ inbox = [c \in Clients |-> 0]
    /\ copy = [r \in Roles |-> "running"]
    /\ cut = FALSE

Held == {c \in Clients : conn[c] \in {"held", "ready"}}

\* serve_pair returns: its streams are dropped, and with them its other locals
EndAttempt(next) ==
    /\ relay' = next
    /\ handling' = None
    /\ streams' = [r \in Roles |-> None]
    /\ rejected' = 0
    /\ late' = FALSE
    /\ conn' = [c \in Clients |-> IF c \in Held THEN "closed" ELSE conn[c]]
    /\ copy' = [r \in Roles |-> "running"]
    /\ cut' = FALSE
    /\ UNCHANGED << end, inbox >>

-----------------------------------------------------------------------------
(* The clients and the clock *)

Dial(c) ==
    /\ conn[c] = "away"
    /\ conn' = [conn EXCEPT ![c] = "queued"]
    /\ UNCHANGED << relay, handling, streams, rejected, late, end, inbox, copy, cut >>

\* Shuts its writing side, closes, or vanishes with a reset
HangUp(c, how) ==
    /\ conn[c] \in {"queued", "held", "ready"}
    /\ << end[c], how >> \in {"open"} \X {"half", "closed", "reset"}
                         \cup {"half"} \X {"closed", "reset"}
    /\ end' = [end EXCEPT ![c] = how]
    /\ UNCHANGED << relay, handling, streams, rejected, late, conn, inbox, copy, cut >>

Send(c) ==
    /\ conn[c] = "ready"
    /\ end[c] = "open"
    /\ inbox[c] < MaxSent
    /\ inbox' = [inbox EXCEPT ![c] = @ + 1]
    /\ UNCHANGED << relay, handling, streams, rejected, late, conn, end, copy, cut >>

DeadlinePasses ==
    /\ relay \in {"accepting", "authenticating"}
    /\ ~late
    /\ late' = TRUE
    /\ UNCHANGED << relay, handling, streams, rejected, conn, end, inbox, copy, cut >>

-----------------------------------------------------------------------------
(* Pairing *)

Accept(c) ==
    /\ relay = "accepting"
    /\ ~late
    /\ conn[c] = "queued"
    /\ conn' = [conn EXCEPT ![c] = "held"]
    /\ handling' = c
    /\ relay' = "authenticating"
    /\ UNCHANGED << streams, rejected, late, end, inbox, copy, cut >>

AcceptFails ==
    /\ relay = "accepting"
    /\ EndAttempt("broken")

\* Mutation: the deadline is only looked at while nobody waits
TimeOutWhenEmpty ==
    /\ relay = "accepting"
    /\ late
    /\ \A r \in Roles : streams[r] = None
    /\ EndAttempt("accepting")

\* deadline_left fails: serve_forever starts the next attempt
TimeOut ==
    /\ relay = "accepting"
    /\ late
    /\ EndAttempt("accepting")

\* Mutation: the first free slot is taken, not the slot of the role
AuthenticateInFreeSlot(r) ==
    /\ relay = "authenticating"
    /\ Presents[handling] \in Roles
    /\ end[handling] # "reset"
    /\ streams[r] = None
    /\ streams' = [streams EXCEPT ![r] = handling]
    /\ handling' = None
    /\ relay' = IF streams[Other(r)] = None THEN "accepting" ELSE "left"
    /\ UNCHANGED << rejected, late, conn, end, inbox, copy, cut >>

\* A key of the pair, proved, whose role is still free
Authenticate(r) ==
    /\ relay = "authenticating"
    /\ Presents[handling] = r
    /\ end[handling] # "reset"
    /\ streams[r] = None
    /\ streams' = [streams EXCEPT ![r] = handling]
    /\ handling' = None
    /\ relay' = IF streams[Other(r)] = None THEN "accepting" ELSE "left"
    /\ UNCHANGED << rejected, late, conn, end, inbox, copy, cut >>

\* Any other key, a role already taken, a bad signature, a client that closes or
\* takes more than 5 s; the last rejection ends the attempt
Reject ==
    /\ relay = "authenticating"
    /\ IF rejected + 1 >= MaxRejected
         THEN EndAttempt("accepting")
         ELSE /\ rejected' = rejected + 1
              /\ conn' = [conn EXCEPT ![handling] = "closed"]
              /\ handling' = None
              /\ relay' = "accepting"
              /\ UNCHANGED << streams, late, end, inbox, copy, cut >>

-----------------------------------------------------------------------------
(* "Ready", and copying *)

\* A write to c: one that no longer reads takes it, and answers with a reset
Written(c) == end' = [end EXCEPT ![c] = IF @ = "closed" THEN "reset" ELSE @]

\* The ready byte of role r is written: left first, then right
Ready(r) ==
    /\ relay = r
    /\ end[streams[r]] # "reset"
    /\ Written(streams[r])
    /\ conn' = [conn EXCEPT ![streams[r]] = "ready"]
    /\ relay' = IF r = "left" THEN "right" ELSE "copying"
    /\ UNCHANGED << handling, streams, rejected, late, inbox, copy, cut >>

\* The stream died while it waited: an I/O error, which serve_forever returns
ReadyFails(r) ==
    /\ relay = r
    /\ end[streams[r]] = "reset"
    /\ EndAttempt("stopped")

\* One read from r and one write to the other side
Forward(r) ==
    /\ relay = "copying"
    /\ copy[r] = "running"
    /\ ~cut
    /\ end[streams[r]] # "reset"
    /\ inbox[streams[r]] > 0
    /\ end[streams[Other(r)]] # "reset"
    /\ Written(streams[Other(r)])
    /\ inbox' = [inbox EXCEPT ![streams[r]] = @ - 1]
    /\ UNCHANGED << relay, handling, streams, rejected, late, conn, copy, cut >>

\* Mutation: a clean end of one direction shuts the reverse direction too
ForwardEofCuttingBoth(r) ==
    /\ relay = "copying"
    /\ copy[r] = "running"
    /\ cut \/ (end[streams[r]] \in {"half", "closed"} /\ inbox[streams[r]] = 0)
    /\ copy' = [copy EXCEPT ![r] = "eof"]
    /\ cut' = TRUE
    /\ UNCHANGED << relay, handling, streams, rejected, late, conn, end, inbox >>

\* Reads the end of the stream, the client's own or a shutdown's: only the
\* writing side towards the other endpoint is shut
ForwardEof(r) ==
    /\ relay = "copying"
    /\ copy[r] = "running"
    /\ cut \/ (end[streams[r]] \in {"half", "closed"} /\ inbox[streams[r]] = 0)
    /\ copy' = [copy EXCEPT ![r] = "eof"]
    /\ UNCHANGED << relay, handling, streams, rejected, late, conn, end, inbox, cut >>

\* A reset, an idle timeout, or a write to a side that no longer reads: both
\* sockets are shut down, which ends the other copy
ForwardFails(r) ==
    /\ relay = "copying"
    /\ copy[r] = "running"
    /\ \/ cut
       \/ end[streams[r]] = "reset"
       \/ end[streams[r]] = "open" /\ inbox[streams[r]] = 0
       \/ inbox[streams[r]] > 0 /\ end[streams[Other(r)]] = "reset"
    /\ copy' = [copy EXCEPT ![r] = "failed"]
    /\ cut' = TRUE
    /\ UNCHANGED << relay, handling, streams, rejected, late, conn, end, inbox >>

\* Both copies have returned: the worker is joined, and an error of either is the
\* error of serve_pair
PairEnds ==
    /\ relay = "copying"
    /\ \A r \in Roles : copy[r] # "running"
    /\ EndAttempt(IF \E r \in Roles : copy[r] = "failed" THEN "stopped" ELSE "accepting")

-----------------------------------------------------------------------------
Copying(r) == Forward(r) \/ ForwardEof(r) \/ ForwardFails(r)

Relay ==
    \/ \E c \in Clients : Accept(c)
    \/ TimeOut
    \/ \E r \in Roles : Authenticate(r) \/ Ready(r) \/ ReadyFails(r)
    \/ Reject
    \/ PairEnds

Next ==
    \/ \E c \in Clients :
         Dial(c) \/ Send(c) \/ \E how \in {"half", "closed", "reset"} : HangUp(c, how)
    \/ DeadlinePasses
    \/ AcceptFails
    \/ Relay
    \/ \E r \in Roles : Copying(r)

Spec == Init /\ [][Next]_vars

\* The clock advances, the two threads run, and every read and write has a
\* timeout; what the clients do is up to them
FairSpec ==
    /\ Spec
    /\ WF_vars(DeadlinePasses)
    /\ WF_vars(Relay)
    /\ \A r \in Roles : WF_vars(Copying(r))

-----------------------------------------------------------------------------
(* Properties *)

\* Every socket the relay holds is one it still uses: an attempt that ends, in
\* whatever way, leaves none behind, and no socket serves both roles.
NothingLeaked ==
    /\ Held = ({streams["left"], streams["right"], handling} \ {None})
    /\ \A r \in Roles : streams[r] # None => Presents[streams[r]] = r

\* Between attempts the relay is as it was before the first one, whatever they held
\* (serve_pair and the drop of its locals).
AttemptsLeaveNothing == TypeOK /\ NothingLeaked

\* A pair that ends without an error has lost nothing: whatever either endpoint
\* sent before it closed was read and written on ("Preserve pending traffic in
\* the reverse direction after a clean EOF").
LosslessStep ==
    relay = "copying" /\ relay' = "accepting" =>
        \A r \in Roles : inbox[streams[r]] = 0
CleanEndIsLossless == [][LosslessStep]_vars

\* "Closing either endpoint terminates the pair", however the other behaves.
ClosingEndsThePair ==
    relay = "copying" /\ (\E r \in Roles : end[streams[r]] \in {"closed", "reset"}) ~>
        relay # "copying"

\* Nobody waits in a half-made pair past its deadline: a stream that was
\* authenticated is told that its peer is there or is closed.
WaitingIsBounded ==
    \A c \in Clients : conn[c] = "held" ~> conn[c] # "held"

\* An attempt ends: a pair whose endpoint has gone, and the wait for one that never comes
\* (the deadlines and idle timeouts of serve_pair).
AttemptsEnd == ClosingEndsThePair /\ WaitingIsBounded

\* "A bad or abandoned attempt must not take down a long-lived provisioned relay":
\* only a failing listener ends serve_forever.
SurvivesAbandonedAttempts == relay # "stopped"
=============================================================================
