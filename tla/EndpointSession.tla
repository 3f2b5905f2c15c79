--------------------------- MODULE EndpointSession ---------------------------
(***************************************************************************)
(* One session of a host with the audit log it writes: serve and operate in *)
(* crates/sensor-client/src/lib.rs over AuditLog, with the consent of       *)
(* crates/sensor-session/src/permissions.rs.                                *)
(*                                                                          *)
(* A run of a host serves one connection, of an authenticated peer, and     *)
(* ends.  Runs may overlap: two programs of the same user, or a listener    *)
(* that is started again before the last one is gone.  A transfer is here   *)
(* what it is to the protocol: begun, published or discarded, and owned by  *)
(* a peer; it is what the session has done, and whether the name of a file  *)
(* outlasts a power loss is a matter of FileTransfer.  Every record is a    *)
(* write and a sync, and the session waits for both.                        *)
(*                                                                          *)
(* A definition marked "Mutation" is not the code: it is a plausible wrong  *)
(* version of the definition below it, used to see a property fail.         *)
(***************************************************************************)
EXTENDS AuditLog, FiniteSets

CONSTANTS
    Peers,
    PeerOf,    \* PeerOf[r]: the peer that connects to run r
    Transfers  \* transfer IDs, random in the code

Actions == {"ConnectionRequested", "SessionAccepted", "SessionRejected",
            "SessionDisconnected", "FileOffered", "FileCompleted", "FileCancelled"}

ASSUME SessionAssumption ==
    /\ PeerOf \in [Runs -> Peers]
    /\ Events = [actor : Peers, action : Actions]
    /\ None \notin Transfers \cup [owner : Peers, state : {"part", "published", "gone"}]

\* the modes that permit files, and those that permit chat or the desktop only
Modes == {"file", "other"}

VARIABLES
    phase,     \* phase[r]: where serve and operate are
    mode,      \* mode[r]: the mode the peer asked for
    consent,   \* consent[r]: Consent.state; granted is all of the mode while it is active
    incoming,  \* incoming[r]: the transfer operate works on
    files      \* files[t]: the transfer on disk, None if it was never begun

sessionVars == << phase, mode, consent, incoming >>
vars == << logVars, sessionVars, files >>

\* the phases that end in a record, and where the session goes once it is synced
Recording ==
    [requesting    |-> "prompt",
     rejecting     |-> "ended",
     accepting     |-> "answering",
     offering      |-> "beginning",
     completing    |-> "closing",
     cancelling    |-> "closing",
     disconnecting |-> "ended"]
Phases    == DOMAIN Recording \cup {"starting", "waiting", "prompt", "answering", "operating",
                                    "beginning", "finished", "discarded", "closing", "ended"}
Operating == {"operating", "offering", "beginning", "finished", "completing", "discarded",
              "cancelling"}

SessionTypeOK ==
    /\ TypeOK
    /\ phase \in [Runs -> Phases]
    /\ mode \in [Runs -> Modes \cup {None}]
    /\ consent \in [Runs -> {"pending", "active", "rejected", "closed"}]
    /\ incoming \in [Runs -> Transfers \cup {None}]
    /\ files \in [Transfers -> [owner : Peers, state : {"part", "published", "gone"}] \cup {None}]

Init ==
    /\ LogInit
    /\ phase = [r \in Runs |-> "starting"]
    /\ mode = [r \in Runs |-> None]
    /\ consent = [r \in Runs |-> "pending"]
    /\ incoming = [r \in Runs |-> None]
    /\ files = [t \in Transfers |-> None]

PhaseTo(r, p)    == phase' = [phase EXCEPT ![r] = p]
Consent(r, c)    == consent' = [consent EXCEPT ![r] = c]
Works(r, t)      == incoming' = [incoming EXCEPT ![r] = t]
File(t, state)   == files' = [files EXCEPT ![t].state = state]
Entry(r, action) == [actor |-> PeerOf[r], action |-> action]
May(r, m)        == consent[r] = "active" /\ mode[r] = m

-----------------------------------------------------------------------------
(* The log as the session uses it *)

Start(r) ==
    /\ phase[r] = "starting"
    /\ Open(r)
    /\ PhaseTo(r, "waiting")
    /\ UNCHANGED << mode, consent, incoming, files >>

StartFails(r) ==
    /\ phase[r] = "starting"
    /\ OpenFails(r)
    /\ PhaseTo(r, "ended")
    /\ UNCHANGED << mode, consent, incoming, files >>

\* audit, up to the write
Note(r, action, p) ==
    /\ Write(r, Entry(r, action))
    /\ PhaseTo(r, p)

Logged(r) ==
    /\ phase[r] \in DOMAIN Recording
    /\ Sync(r)
    /\ PhaseTo(r, Recording[phase[r]])
    /\ UNCHANGED << mode, consent, incoming, files >>

\* an error inside operate ends the session, one outside of it ends serve
AfterError(r) == IF phase[r] \in Operating THEN "closing" ELSE "ended"

NotLogged(r) ==
    /\ phase[r] \in DOMAIN Recording
    /\ SyncFails(r)
    /\ PhaseTo(r, AfterError(r))
    /\ UNCHANGED << mode, consent, incoming, files >>

\* the phases in which the next thing the code does is to append
Appends == {"waiting", "prompt", "operating", "finished", "discarded", "closing"}

NotWritten(r) ==
    /\ phase[r] \in Appends
    /\ WriteFails(r)
    /\ PhaseTo(r, AfterError(r))
    /\ UNCHANGED << mode, consent, incoming, files >>

-----------------------------------------------------------------------------
(* serve *)

Request(r) ==
    /\ phase[r] = "waiting"
    /\ \E m \in Modes : mode' = [mode EXCEPT ![r] = m]
    /\ Note(r, "ConnectionRequested", "requesting")
    /\ UNCHANGED << consent, incoming, files >>

Reject(r) ==
    /\ phase[r] = "prompt"
    /\ Consent(r, "rejected")
    /\ Note(r, "SessionRejected", "rejecting")
    /\ UNCHANGED << mode, incoming, files >>

Accept(r) ==
    /\ phase[r] = "prompt"
    /\ Consent(r, "active")
    /\ Note(r, "SessionAccepted", "accepting")
    /\ UNCHANGED << mode, incoming, files >>

Answer(r) ==
    /\ phase[r] = "answering"
    /\ PhaseTo(r, "operating")
    /\ UNCHANGED << logVars, mode, consent, incoming, files >>

\* the connection fails, times out, or brings something else, before operate
Breaks(r) ==
    /\ phase[r] \in {"waiting", "answering"}
    /\ PhaseTo(r, "ended")
    /\ UNCHANGED << logVars, mode, consent, incoming, files >>

\* serve after operate: the consent is closed, then the connection, then the record
Disconnect(r) ==
    /\ phase[r] = "closing"
    /\ Consent(r, "closed")
    /\ Works(r, None)
    /\ Note(r, "SessionDisconnected", "disconnecting")
    /\ UNCHANGED << mode, files >>

-----------------------------------------------------------------------------
(* operate, and the desktop in its place *)

\* Close, Pause, a chat without reply, a desktop session that is over, a message that is
\* not permitted or not expected, one too many, or an error of the connection
Leave(r) ==
    /\ phase[r] = "operating"
    /\ PhaseTo(r, "closing")
    /\ UNCHANGED << logVars, mode, consent, incoming, files >>

FileOffer(r) ==
    /\ phase[r] = "operating"
    /\ May(r, "file")
    /\ incoming[r] = None
    /\ Note(r, "FileOffered", "offering")
    /\ UNCHANGED << mode, consent, incoming, files >>

\* Receiver::begin, and the answer; not recorded when it fails
Begin(r) ==
    /\ phase[r] = "beginning"
    /\ \/ \E t \in Transfers :
            /\ files[t] = None
            /\ files' = [files EXCEPT ![t] = [owner |-> PeerOf[r], state |-> "part"]]
            /\ Works(r, t)
            /\ PhaseTo(r, "operating")
       \/ PhaseTo(r, "closing") /\ UNCHANGED << incoming, files >>
    /\ UNCHANGED << logVars, mode, consent >>

Held(t) == \E r \in Runs : incoming[r] = t /\ phase[r] \in Operating

\* a transfer of an earlier session of the same peer: no record
Resume(r) ==
    /\ phase[r] = "operating"
    /\ May(r, "file")
    /\ incoming[r] = None
    /\ \E t \in Transfers :
        /\ files[t] # None /\ files[t].state = "part" /\ ~Held(t)
        /\ files[t].owner = PeerOf[r]
        /\ Works(r, t)
    /\ UNCHANGED << logVars, phase, mode, consent, files >>

\* Mutation: the record is written before the file is published
CommitRecordedFirst(r) ==
    /\ phase[r] = "operating"
    /\ May(r, "file")
    /\ incoming[r] # None
    /\ Note(r, "FileCompleted", "completing")
    /\ UNCHANGED << mode, consent, incoming, files >>

\* finish: the file is published or is not, and operate has let go of it either way
Commit(r) ==
    /\ phase[r] = "operating"
    /\ May(r, "file")
    /\ incoming[r] # None
    /\ \/ File(incoming[r], "published") /\ PhaseTo(r, "finished")
       \/ files' \in {files, [files EXCEPT ![incoming[r]].state = "published"]}
          /\ PhaseTo(r, "closing")
    /\ Works(r, None)
    /\ UNCHANGED << logVars, mode, consent >>

Completed(r) ==
    /\ phase[r] = "finished"
    /\ Note(r, "FileCompleted", "completing")
    /\ UNCHANGED << mode, consent, incoming, files >>

Cancel(r) ==
    /\ phase[r] = "operating"
    /\ May(r, "file")
    /\ incoming[r] # None
    /\ \/ File(incoming[r], "gone") /\ PhaseTo(r, "discarded")
       \/ files' \in {files, [files EXCEPT ![incoming[r]].state = "gone"]} /\ PhaseTo(r, "closing")
    /\ Works(r, None)
    /\ UNCHANGED << logVars, mode, consent >>

Cancelled(r) ==
    /\ phase[r] = "discarded"
    /\ Note(r, "FileCancelled", "cancelling")
    /\ UNCHANGED << mode, consent, incoming, files >>

-----------------------------------------------------------------------------
(* Ends *)

\* the run returns from serve, or dies in the middle of it
Ends(r) ==
    /\ Close(r)
    /\ PhaseTo(r, "ended")
    /\ UNCHANGED << mode, consent, incoming, files >>

PowerOff ==
    /\ PowerFails
    /\ phase' = [r \in Runs |-> IF phase[r] = "starting" THEN "starting" ELSE "ended"]
    /\ UNCHANGED << mode, consent, incoming, files >>

Serve(r) ==
    Request(r) \/ Reject(r) \/ Accept(r) \/ Answer(r) \/ Breaks(r) \/ Disconnect(r)

Operate(r) ==
    \/ Leave(r) \/ FileOffer(r) \/ Begin(r) \/ Resume(r)
    \/ Commit(r) \/ Completed(r) \/ Cancel(r) \/ Cancelled(r)

Next ==
    \/ \E r \in Runs :
        \/ Start(r) \/ StartFails(r) \/ Logged(r) \/ NotLogged(r) \/ NotWritten(r)
        \/ Serve(r) \/ Operate(r) \/ Ends(r)
    \/ PowerOff

Spec == Init /\ [][Next]_vars

-----------------------------------------------------------------------------
(* Properties *)

\* The records of peer p for an action, and the transfers of p that were published
Entries(p, action) ==
    {k \in 1 .. Len(file) : file[k] # Torn /\ file[k].event = [actor |-> p, action |-> action]}
Published(p) ==
    {t \in Transfers : files[t] # None /\ files[t].owner = p /\ files[t].state = "published"}

\* What serve and operate write a record after, within a session
Follows ==
    [SessionAccepted     |-> {"ConnectionRequested"},
     SessionRejected     |-> {"ConnectionRequested"},
     FileOffered         |-> {"SessionAccepted"},
     FileCompleted       |-> {"SessionAccepted", "FileOffered"},
     FileCancelled       |-> {"SessionAccepted", "FileOffered"},
     SessionDisconnected |-> {"SessionAccepted", "FileOffered", "FileCompleted", "FileCancelled"}]

\* The log reads as one session after the other: a record follows one it may follow, of the
\* same peer, and only ConnectionRequested begins anew, after a death or an error anywhere
\* (serve, and the file lock that keeps overlapping runs apart).
LogReadsAsSessions ==
    \A k \in 1 .. Len(file) :
        LET e == file[k].event IN
        (file[k] # Torn /\ e.action # "ConnectionRequested") =>
            /\ k > 1 /\ file[k - 1] # Torn
            /\ file[k - 1].event.actor = e.actor
            /\ file[k - 1].event.action \in Follows[e.action]

\* Sessions in their phases, and the log that they leave (serve).
SessionsAreSound == SessionTypeOK /\ LogReadsAsSessions

\* What operate does for a peer, it does on a record of the acceptance that a power loss
\* does not take: the last session in the synced part of the log is this one, accepted.
OperatesOnRecord ==
    \A r \in Runs : phase[r] \in Operating =>
        \E k \in 1 .. durable :
            /\ file[k].event = Entry(r, "SessionAccepted")
            /\ \A j \in k + 1 .. Len(file) :
                file[j] # Torn => file[j].event.action # "ConnectionRequested"

\* Every file of a peer in the directory was offered by that peer in the log, also when it
\* was resumed in a later session, and after every failure (Resume writes no record).
PublishedWasOffered ==
    \A p \in Peers : Cardinality(Published(p)) <= Cardinality(Entries(p, "FileOffered"))

\* A file the log calls completed was published before: a death in between leaves a file
\* without the record and never the record without the file.
CompletedWasPublished ==
    \A p \in Peers : Cardinality(Entries(p, "FileCompleted")) <= Cardinality(Published(p))

\* The log accounts for what was done: by whom it was accepted, that it was offered, and
\* that what it calls complete was published (serve and operate).
LogAccountsForWork == OperatesOnRecord /\ PublishedWasOffered /\ CompletedWasPublished
=============================================================================
