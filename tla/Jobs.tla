-------------------------------- MODULE Jobs --------------------------------
(***************************************************************************)
(* The threads of the desktop program: the window with its two workers      *)
(* (DesktopApp), a job that listens (HostListener) and a job that shows a   *)
(* remote desktop (RemoteViewer).                                           *)
(*                                                                          *)
(* DesktopApp has of its workers that they ask, open a session and end, in  *)
(* any way; HostListener and RemoteViewer have of the window that it stops  *)
(* them, at any moment.  They share no more than that, so a behaviour moves *)
(* one of them (part) and the others stay as they began.                    *)
(***************************************************************************)
EXTENDS Naturals, Sequences, FiniteSets

CONSTANTS
    Tasks, Kinds, MaxEvents,         \* of DesktopApp
    MaxConnections, MaxRetries,      \* of HostListener
    QueueSize, MaxInputs, MaxFrames, \* of RemoteViewer
    None

VARIABLES
    part,
    workers, events, batch, lost, polling, enabled, busy, consent, compose, grant, source, view,
    closing,
    route, auto, any, listener, current, count, retries, pinned, sockets, handle, aborted, stopped,
    stopper, prompt, broken, verified, served,
    window, pressed, inputs, dropped, cancelled, localStop, sender, socket, viewer, writer, watchdog,
    queue, stream, toPeer, arrived, frames, tooLate

appVars      == << workers, events, batch, lost, polling, enabled, busy, consent, compose, grant,
                   source, view, closing >>
listenerVars == << route, auto, any, listener, current, count, retries, pinned, sockets, handle,
                   aborted, stopped, stopper, prompt, broken, verified, served >>
viewerVars   == << window, pressed, inputs, dropped, cancelled, localStop, sender, socket, viewer,
                   writer, watchdog, queue, stream, toPeer, arrived, frames, tooLate >>
vars         == << part, appVars, listenerVars, viewerVars >>

App      == INSTANCE DesktopApp WITH worker <- workers
Listener == INSTANCE HostListener WITH
    worker <- listener, socket <- sockets, cancelled <- aborted, localStop <- stopped,
    window <- stopper
Viewer   == INSTANCE RemoteViewer WITH worker <- viewer

ASSUME InstanceAssumption ==
    /\ App!KindsAssumption
    /\ Listener!ConstantsAssumption
    /\ Viewer!ConstantsAssumption

Init ==
    /\ part \in {"app", "listener", "viewer"}
    /\ App!Init /\ Listener!Init /\ Viewer!Init

Next ==
    \/ part = "app" /\ App!Next /\ UNCHANGED << part, listenerVars, viewerVars >>
    \/ part = "listener" /\ Listener!Next /\ UNCHANGED << part, appVars, viewerVars >>
    \/ part = "viewer" /\ Viewer!Next /\ UNCHANGED << part, appVars, listenerVars >>

Spec == Init /\ [][Next]_vars

\* the fairness of the three modules, of the part that moves
Fairness ==
    /\ WF_appVars(part = "app" /\ App!Poll) /\ SF_appVars(part = "app" /\ App!CloseTakesTooLong)
    /\ \A r \in {"job", "listener"} : WF_appVars(part = "app" /\ App!StoppedEnds(r))
    /\ WF_listenerVars(part = "listener" /\ Listener!Abort)
    /\ WF_listenerVars(part = "listener" /\ Listener!Waits)
    /\ WF_listenerVars(part = "listener" /\ Listener!Decided)
    /\ WF_listenerVars(part = "listener" /\ Listener!ShutSessionEnds)
    /\ WF_viewerVars(part = "viewer" /\ Viewer!WindowStep)
    /\ WF_viewerVars(part = "viewer" /\ Viewer!WatchdogEnds)
    /\ WF_viewerVars(part = "viewer" /\ Viewer!WorkerStep)
    /\ WF_viewerVars(part = "viewer" /\ Viewer!WriterLoops)
    /\ WF_viewerVars(part = "viewer" /\ Viewer!WriterWrites)

FairSpec == Spec /\ Fairness

-----------------------------------------------------------------------------
(* Properties *)

\* One session at a time, prompts and views of workers there are, a listener that comes back, a
\* grant that is really revoked, a close of the right job (App::poll and the buttons).
WindowAgrees ==
    /\ App!TypeOK
    /\ App!OneSession /\ App!PromptOfItsWorker /\ App!RevokedSessionsStop
    /\ App!ListenerKept /\ App!CloseOfItsJob /\ App!ViewKept

\* A listener serves whom it verified and was told to accept, closes whom it refused, and goes on
\* listening (the Host branch of execute).
ListenerAnswers ==
    /\ Listener!TypeOK
    /\ Listener!OwnAnswer /\ Listener!RefusedIsClosed /\ Listener!KeepsListening

\* A viewer that was stopped asks nobody, writes no input behind Close, keeps presses and releases
\* in turn, and leaves nothing behind (execute_remote, Control).
ViewerIsSound ==
    /\ Viewer!TypeOK
    /\ Viewer!AbortedBeforeConnecting /\ Viewer!NoInputAfterClose
    /\ Viewer!InputAlternates /\ Viewer!NothingLeft

\* The release of a key the user has let go is written to the peer, or the connection ends
\* (send_remote).
ReleasedOrEnded == Viewer!ReleasedOrEnded

\* Whoever is stopped ends, wherever it was: the workers of the window, the listener and its
\* connection, the viewer, and after Disconnect the session (stop, remote_close_at).
StopEnds ==
    /\ App!StopEnds /\ App!DisconnectEnds
    /\ Listener!StopEnds
    /\ Viewer!StopEnds
=============================================================================
