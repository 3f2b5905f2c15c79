----------------------------- MODULE DesktopApp -----------------------------
(***************************************************************************)
(* The window of the program: one foreground job and one Internet listener, *)
(* the prompt that asks for consent, the chat composer, the unattended      *)
(* grant and the view of the remote desktop (crates/sensor-desktop/src/     *)
(* ui.rs).  The window polls the events of both workers in batches and then *)
(* lets the user act; the workers go on meanwhile.                          *)
(*                                                                          *)
(* A worker is seen from the window: its task, whether it asks, serves or   *)
(* has ended, and its queue of events.  It may end, or panic, at any time.  *)
(* What a stop does inside a worker is in HostListener and RemoteViewer.    *)
(*                                                                          *)
(* A definition marked "Mutation" is not the code: it is a plausible wrong  *)
(* version of the definition below it, used to see a property fail.         *)
(***************************************************************************)
EXTENDS Naturals, Sequences, FiniteSets

CONSTANTS
    None,
    Tasks,    \* of the foreground job: a subset of {"host", "auto", "remote", "chat"}
    Kinds,    \* of requests: a subset of that in KindsAssumption
    MaxEvents \* bound on the events of a worker that wait

Roles == {"job", "listener"}

VARIABLES
    worker,   \* of each role: job and listener of App
    events,   \* what each worker has sent and the window has not taken
    batch,    \* events the window has taken: [role, event]
    lost,     \* a channel was found disconnected in this poll
    polling,  \* the window is in poll
    enabled,  \* listener_enabled
    busy,     \* listener_busy
    consent,  \* the role whose request is shown, or None
    compose,  \* the role whose chat waits for a message, or None
    grant,    \* there is an unattended grant
    source,   \* remote_source_listener, as a role
    view,     \* the role whose remote desktop is shown, or None
    closing   \* remote_close_at is set

shown == << consent, compose, source, view, closing >>
vars  == << worker, events, batch, lost, polling, enabled, busy, grant, shown >>

Phases == {"begun", "asking", "session", "done"}
Worker == [task : Tasks \cup {"listen"}, phase : Phases, stopped : BOOLEAN,
           kind : Kinds \cup {None}, reply : {"none", "yes", "no"},
           by : {"none", "user", "grant"},
           drawn : BOOLEAN,   \* history: its picture format has been taken over
           closed : BOOLEAN]  \* history: the user has disconnected it
Fresh(task) == [task |-> task, phase |-> "begun", stopped |-> FALSE, kind |-> None, reply |-> "none",
                by |-> "none", drawn |-> FALSE, closed |-> FALSE]
Events == {"consent", "compose", "format", "finished"}

\* "granted": view or control by the device of the unattended grant; "mismatch": its key is not
\* the one that is pinned
KindsAssumption ==
    /\ Tasks \subseteq {"host", "auto", "remote", "chat"}
    /\ Kinds \subseteq {"granted", "desktop", "other", "mismatch"}
    /\ MaxEvents \in Nat \ {0}
    /\ None \notin Roles \cup Kinds \cup Worker

TypeOK ==
    /\ worker \in [Roles -> Worker \cup {None}]
    /\ events \in [Roles -> Seq(Events)]
    /\ batch \in Seq([role : Roles, event : Events])
    /\ lost \in [Roles -> BOOLEAN]
    /\ polling \in BOOLEAN /\ enabled \in BOOLEAN /\ busy \in BOOLEAN /\ grant \in BOOLEAN /\ closing \in BOOLEAN
    /\ consent \in Roles \cup {None} /\ compose \in Roles \cup {None}
    /\ source \in Roles /\ view \in Roles \cup {None}
    /\ busy => worker["listener"] # None

\* with a network configured the listener starts with the window
Init ==
    /\ enabled \in BOOLEAN
    /\ worker = [r \in Roles |-> IF r = "listener" /\ enabled THEN Fresh("listen") ELSE None]
    /\ events = [r \in Roles |-> << >>]
    /\ batch = << >> /\ lost = [r \in Roles |-> FALSE] /\ polling = FALSE
    /\ busy = FALSE /\ grant \in BOOLEAN
    /\ consent = None /\ compose = None
    /\ source = "job" /\ view = None /\ closing = FALSE

-----------------------------------------------------------------------------
(* The workers *)

Lives(r) == worker[r] # None /\ worker[r].phase # "done"
Emits(r, e) == events' = [events EXCEPT ![r] = Append(@, e)]
MayEmit(r) == Len(events[r]) < MaxEvents

\* a verified peer asks; a pinned one is accepted without asking by a host told so
Asks(r) ==
    /\ Lives(r) /\ worker[r].phase = "begun" /\ worker[r].task \in {"listen", "host"} /\ MayEmit(r)
    /\ \E k \in Kinds : worker' = [worker EXCEPT ![r].phase = "asking", ![r].kind = k]
    /\ Emits(r, "consent")
    /\ UNCHANGED << batch, lost, polling, enabled, busy, grant, shown >>

SessionStarts(r) ==
    /\ Lives(r) /\ ~worker[r].stopped
    /\ \/ worker[r].phase = "begun" /\ worker[r].task \in {"auto", "remote", "chat"}
       \/ worker[r].phase = "asking" /\ worker[r].reply = "yes"
    /\ worker' = [worker EXCEPT ![r].phase = "session"]
    /\ UNCHANGED << events, batch, lost, polling, enabled, busy, grant, shown >>

SessionEmits(r) ==
    /\ Lives(r) /\ worker[r].phase = "session" /\ MayEmit(r)
    /\ Emits(r, IF worker[r].task = "remote" THEN "format" ELSE "compose")
    /\ UNCHANGED << worker, batch, lost, polling, enabled, busy, grant, shown >>

\* whatever the reason: a refusal, the end of the session, a failure, a stop
Ends(r) ==
    /\ Lives(r) /\ MayEmit(r)
    /\ worker' = [worker EXCEPT ![r].phase = "done"]
    /\ Emits(r, "finished")
    /\ UNCHANGED << batch, lost, polling, enabled, busy, grant, shown >>

\* the thread is gone and nothing was said
Panics(r) ==
    /\ Lives(r)
    /\ worker' = [worker EXCEPT ![r].phase = "done"]
    /\ UNCHANGED << events, batch, lost, polling, enabled, busy, grant, shown >>

-----------------------------------------------------------------------------
(* poll *)

\* a reply on the channel of a request; nobody reads it once the worker has ended
Replied(r, answer, by) ==
    IF worker[r] # None /\ worker[r].phase = "asking"
    THEN [worker EXCEPT ![r].reply = answer, ![r].by = by]
    ELSE worker

Collect ==
    /\ ~polling
    /\ \E r \in Roles : events[r] # << >> \/ (worker[r] # None /\ worker[r].phase = "done")
    /\ batch' = [k \in DOMAIN events["job"] |-> [role |-> "job", event |-> events["job"][k]]]
                \o [k \in DOMAIN events["listener"] |-> [role |-> "listener", event |-> events["listener"][k]]]
    /\ events' = [r \in Roles |-> << >>]
    /\ lost' \in {l \in [Roles -> BOOLEAN] : \A r \in Roles :
            IF worker[r] = None \/ worker[r].phase # "done" THEN ~l[r]
            ELSE l[r] \/ \E k \in DOMAIN events[r] : events[r][k] = "finished"}
    /\ polling' = TRUE
    /\ UNCHANGED << worker, enabled, busy, grant, shown >>

Event == Head(batch)
Takes(kind) == polling /\ batch # << >> /\ Event.event = kind /\ batch' = Tail(batch)

\* Mutation: the window forgets that it may be in a session of its own
ConsentUnlessPrompting ==
    /\ Takes("consent")
    /\ LET r == Event.role  k == worker[r].kind IN
       IF k = "mismatch" \/ consent # None
       THEN worker' = Replied(r, "no", "none") /\ UNCHANGED << busy, consent, source >>
       ELSE /\ busy' = (busy \/ r = "listener")
            /\ source' = IF k \in {"granted", "desktop"} THEN r ELSE source
            /\ IF r = "listener" /\ grant /\ k = "granted"
               THEN worker' = Replied(r, "yes", "grant") /\ UNCHANGED consent
               ELSE consent' = r /\ UNCHANGED worker
    /\ UNCHANGED << events, lost, polling, enabled, grant, compose, view, closing >>

Consent ==
    /\ Takes("consent")
    /\ LET r == Event.role  k == worker[r].kind IN
       IF k = "mismatch" \/ consent # None \/ (r = "listener" /\ (worker["job"] # None \/ busy))
       THEN worker' = Replied(r, "no", "none") /\ UNCHANGED << busy, consent, source >>
       ELSE /\ busy' = (busy \/ r = "listener")
            /\ source' = IF k \in {"granted", "desktop"} THEN r ELSE source
            /\ IF r = "listener" /\ grant /\ k = "granted"
               THEN worker' = Replied(r, "yes", "grant") /\ UNCHANGED consent
               ELSE consent' = r /\ UNCHANGED worker
    /\ UNCHANGED << events, lost, polling, enabled, grant, compose, view, closing >>

\* one composer; a foreground job goes first
Compose ==
    /\ Takes("compose")
    /\ compose' = IF compose = None /\ ~(Event.role = "listener" /\ worker["job"] # None)
                  THEN Event.role ELSE compose
    /\ UNCHANGED << worker, events, lost, polling, enabled, busy, grant, consent, source, view, closing >>

\* RemoteFormat, and with it RemoteDisplays and RemoteCursor
Format ==
    /\ Takes("format")
    /\ source' = Event.role /\ view' = Event.role
    /\ worker' = [worker EXCEPT ![Event.role].drawn = TRUE]
    /\ UNCHANGED << events, lost, polling, enabled, busy, grant, consent, compose, closing >>

\* clear_session_state
Clear(r) ==
    /\ consent' = IF consent = r THEN None ELSE consent
    /\ compose' = IF compose = r THEN None ELSE compose
    /\ IF source = r THEN view' = None /\ closing' = FALSE /\ source' = "job"
       ELSE UNCHANGED << view, closing, source >>

\* a listener that was not stopped listens again
Finished ==
    /\ Takes("finished")
    /\ LET r == Event.role IN
       /\ worker' = [worker EXCEPT ![r] =
                        IF r = "listener" /\ enabled /\ ~worker[r].stopped THEN Fresh("listen") ELSE None]
       /\ Clear(r)
       /\ busy' = (busy /\ r # "listener")
       /\ lost' = IF r = "listener" THEN [lost EXCEPT ![r] = FALSE] ELSE lost
    /\ UNCHANGED << events, polling, enabled, grant >>

\* disconnected_job and disconnected_listener, after the events; the job first
Lost(r) ==
    /\ polling /\ batch = << >> /\ lost[r]
    /\ r = "listener" => ~lost["job"]
    /\ lost' = [lost EXCEPT ![r] = FALSE]
    /\ IF worker[r] = None
       THEN UNCHANGED << worker, busy, shown >>
       ELSE /\ worker' = [worker EXCEPT ![r] = IF r = "listener" /\ enabled THEN Fresh("listen") ELSE None]
            /\ Clear(r)
            /\ busy' = (busy /\ r # "listener")
    /\ UNCHANGED << events, batch, polling, enabled, grant >>

PollEnds ==
    /\ polling /\ batch = << >> /\ \A r \in Roles : ~lost[r]
    /\ polling' = FALSE
    /\ UNCHANGED << worker, events, batch, lost, enabled, busy, grant, shown >>

-----------------------------------------------------------------------------
(* The user; while a request is shown only it can be answered, and a stop pressed *)

Idle == ~polling
Free == Idle /\ consent = None

Ready == worker["job"] = None /\ ~busy

\* begin; a listener that listens for anybody excludes a host
Begin ==
    /\ Free /\ Ready
    /\ \E t \in Tasks :
        /\ t \in {"host", "auto"} => worker["listener"] = None
        /\ worker' = [worker EXCEPT !["job"] = Fresh(t)]
        /\ IF t = "remote" THEN source' = "job" /\ view' = None /\ closing' = FALSE
           ELSE UNCHANGED << source, view, closing >>
    /\ events' = [events EXCEPT !["job"] = << >>]
    /\ UNCHANGED << batch, lost, polling, enabled, busy, grant, consent, compose >>

\* start_render_listener, offered while there is none
StartListener ==
    /\ Free /\ worker["listener"] = None
    /\ enabled' = TRUE
    /\ worker' = [worker EXCEPT !["listener"] = Fresh("listen")]
    /\ events' = [events EXCEPT !["listener"] = << >>]
    /\ UNCHANGED << batch, lost, polling, busy, grant, shown >>

\* of a worker there is
Stopped(w, r) == IF w[r] = None THEN w[r] ELSE [w[r] EXCEPT !.stopped = TRUE]

\* stop: the open request is refused, both workers are stopped, the listener stays off
Stop ==
    /\ worker' = [r \in Roles |-> Stopped(worker, r)]
    /\ consent' = None /\ compose' = None
    /\ enabled' = FALSE

PressStop ==
    /\ Idle /\ \E r \in Roles : worker[r] # None
    /\ Stop
    /\ UNCHANGED << events, batch, lost, polling, busy, grant, source, view, closing >>

Answer ==
    /\ Idle /\ consent # None
    /\ \E answer \in {"yes", "no"} : worker' = Replied(consent, answer, "user")
    /\ consent' = None
    /\ UNCHANGED << events, batch, lost, polling, enabled, busy, grant, compose, source, view, closing >>

\* the message goes to the worker that asked for it
SendMessage ==
    /\ Free /\ compose # None
    /\ compose' = None
    /\ UNCHANGED << worker, events, batch, lost, polling, enabled, busy, grant, consent, source, view, closing >>

\* Disconnect of the remote page: Close to the peer of an outbound session, else a stop
Disconnect ==
    /\ Free /\ ~closing
    /\ IF source = "listener"
       THEN Stop /\ UNCHANGED << closing >>
       ELSE /\ worker["job"] # None
            /\ \/ /\ closing' = TRUE
                  /\ worker' = [worker EXCEPT !["job"].closed = TRUE]
               \/ /\ worker' = [worker EXCEPT !["job"] = Stopped(worker, "job")]
                  /\ UNCHANGED closing
            /\ UNCHANGED << enabled, consent, compose >>
    /\ UNCHANGED << events, batch, lost, polling, busy, grant, source, view >>

\* two seconds after Disconnect
CloseTakesTooLong ==
    /\ Idle /\ closing
    /\ closing' = FALSE
    /\ worker' = [worker EXCEPT !["job"] = Stopped(worker, "job")]
    /\ UNCHANGED << events, batch, lost, polling, enabled, busy, grant, consent, compose, source, view >>

\* for a verified contact; not during a session
Grant ==
    /\ Free /\ ~busy /\ worker["job"] = None
    /\ grant' = TRUE
    /\ UNCHANGED << worker, events, batch, lost, polling, enabled, busy, shown >>

\* the grant, then everything that runs; saving comes last and may fail
Revoke ==
    /\ Free /\ grant
    /\ grant' = FALSE
    /\ Stop
    /\ UNCHANGED << events, batch, lost, polling, busy, source, view, closing >>

-----------------------------------------------------------------------------
Poll == Collect \/ Consent \/ Compose \/ Format \/ Finished \/ (\E r \in Roles : Lost(r)) \/ PollEnds
User == Begin \/ StartListener \/ PressStop \/ Answer \/ SendMessage \/ Disconnect \/ Grant \/ Revoke
StoppedEnds(r) == worker[r] # None /\ worker[r].stopped /\ (Ends(r) \/ Panics(r))

Next ==
    \/ Poll \/ User \/ CloseTakesTooLong
    \/ \E r \in Roles : Asks(r) \/ SessionStarts(r) \/ SessionEmits(r) \/ Ends(r) \/ Panics(r)

Spec == Init /\ [][Next]_vars

\* the window is redrawn while there is a worker, and each frame polls once and then looks at the
\* clock; a stopped worker ends (StopEnds of HostListener and RemoteViewer) or panics; the users
\* and the peers need do nothing
FairSpec ==
    /\ Spec
    /\ WF_vars(Poll) /\ SF_vars(CloseTakesTooLong)
    /\ \A r \in Roles : WF_vars(StoppedEnds(r))

-----------------------------------------------------------------------------
(* Properties *)

\* The device is never in two sessions at once: an incoming one and one of its own exclude each
\* other, although listener and job are started and end independently (ready, Event::Consent).
OneSession == Cardinality({r \in Roles : Lives(r) /\ worker[r].phase = "session"}) <= 1

\* What the prompt shows is a request of a worker there still is, so that an answer never goes to
\* another connection (clear_session_state).
PromptOfItsWorker == consent # None => worker[consent] # None /\ worker[consent].kind # None

\* Without a grant no session that a grant let in goes on: it has been told to stop
\* ("Revoke unattended access and stop sessions").
RevokedSessionsStop ==
    ~grant => \A r \in Roles : Lives(r) /\ worker[r].by = "grant" => worker[r].stopped

\* Between two polls a device that is to listen has a listener nobody stopped: whatever ended the
\* one before, a refused request, a session, an error or a panic, it is listening again.
ListenerKept == Idle /\ enabled => worker["listener"] # None /\ ~worker["listener"].stopped

\* The two seconds after Disconnect end the session they were started for, and no later one
\* (remote_close_at).
CloseOfItsJob == closing => worker["job"] # None /\ worker["job"].closed

\* The view and the input of an outbound session stay with it, whatever becomes of the listener
\* meanwhile (remote_source_listener).
ViewKept ==
    worker["job"] # None /\ worker["job"].drawn => view = "job" /\ source = "job"

\* Stop ends both workers, and they leave the window, whether they end or panic.
StopEnds == \A r \in Roles : (worker[r] # None /\ worker[r].stopped) ~> worker[r] = None \/ ~worker[r].stopped

\* Disconnect ends an outbound session, whether its peer answers the close or not.
DisconnectEnds == closing ~> worker["job"] = None
=============================================================================
