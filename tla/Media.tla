------------------------------- MODULE Media --------------------------------
(***************************************************************************)
(* What a desktop session exchanges: pictures (VideoPipe), the rate they    *)
(* are encoded at (Congestion), texts (ClipboardSync) and input             *)
(* (RemoteInput).                                                           *)
(*                                                                          *)
(* They share the connection, on which each model takes any delay, and      *)
(* nothing else, so a behaviour moves one of them (part) and the others     *)
(* stay as they began.                                                      *)
(***************************************************************************)
EXTENDS Naturals, Sequences, FiniteSets

CONSTANTS
    Monitors, First, Window, Budget, MaxSize, MaxPictures, MaxGeneration,  \* of VideoPipe
    Asked, Deliveries, Works, Grain,                                       \* of Congestion
    Texts, Copiers, MaxCopies, MaxToggles, MaxBusy,                        \* of ClipboardSync
    MaxEvents, MaxMessages, MaxFormats,                                    \* of RemoteInput
    None

VARIABLES
    part,
    generation, monitorOf, switching, encoder, sending, flight, bytes, pictures, stream, acks,
    decoding, assembly, slot, formats, window, format, shown, over, produced, decoded,
    bitrate, ceiling, baseline, healthy, congested, fps, faster, profile, target, calm, paid, quick,
    last,
    clip, owner, fingerprint, enabled, wire, inbox, owed, copies, toggles, busy, sent,
    pressed, focus, events, settled, step, next, modifiers, button, focused, known, messages,
    advertised, pending, accepted, injected, held

videoVars == << generation, monitorOf, switching, encoder, sending, flight, bytes, pictures, stream,
                acks, decoding, assembly, slot, formats, window, format, shown, over, produced,
                decoded >>
rateVars  == << bitrate, ceiling, baseline, healthy, congested, fps, faster, profile, target, calm,
                paid, quick, last >>
clipVars  == << clip, owner, fingerprint, enabled, wire, inbox, owed, copies, toggles, busy, sent >>
inputVars == << pressed, focus, events, settled, step, next, modifiers, button, focused, known,
                messages, advertised, pending, accepted, injected, held >>
vars      == << part, videoVars, rateVars, clipVars, inputVars >>

Video      == INSTANCE VideoPipe WITH wire <- stream, events <- formats
Rates      == INSTANCE Congestion
Clipboards == INSTANCE ClipboardSync
Input      == INSTANCE RemoteInput

ASSUME InstanceAssumption ==
    /\ Video!ConstantsAssumption
    /\ Rates!ConstantsAssumption
    /\ Clipboards!ConstantsAssumption

Init ==
    /\ part \in {"video", "rates", "clipboards", "input"}
    /\ Video!Init /\ Rates!Init /\ Clipboards!Init /\ Input!Init

VideoMoves     == part = "video" /\ Video!Next /\ UNCHANGED << part, rateVars, clipVars, inputVars >>
RatesMove      == part = "rates" /\ Rates!Next /\ UNCHANGED << part, videoVars, clipVars, inputVars >>
ClipboardsMove == part = "clipboards" /\ Clipboards!Next
                  /\ UNCHANGED << part, videoVars, rateVars, inputVars >>
InputMoves     == part = "input" /\ Input!Next /\ UNCHANGED << part, videoVars, rateVars, clipVars >>

Next == VideoMoves \/ RatesMove \/ ClipboardsMove \/ InputMoves

Spec == Init /\ [][Next]_vars

\* the fairness of VideoPipe and ClipboardSync, of the part that moves
Fairness ==
    /\ WF_videoVars(part = "video" /\ Video!TakeAck) /\ WF_videoVars(part = "video" /\ Video!Switch)
    /\ WF_videoVars(part = "video" /\ Video!Yield) /\ WF_videoVars(part = "video" /\ Video!SendFragment)
    /\ WF_videoVars(part = "video" /\ Video!TakeFormat) /\ WF_videoVars(part = "video" /\ Video!TakeFragment)
    /\ WF_videoVars(part = "video" /\ Video!Decode)
    /\ \A s \in {"host", "viewer"} :
        /\ WF_clipVars(part = "clipboards" /\ Clipboards!Forget(s))
        /\ WF_clipVars(part = "clipboards" /\ Clipboards!Observe(s))
        /\ WF_clipVars(part = "clipboards" /\ Clipboards!Receive(s))
        /\ WF_clipVars(part = "clipboards" /\ Clipboards!Apply(s))

FairSpec == Spec /\ Fairness

-----------------------------------------------------------------------------
(* Properties *)

\* Every decoder gets what its encoder put out, from the first frame on, no fragment is refused,
\* the window holds what is under way, and no more is asked for than both sides can do
\* (send_video_packets, FlightWindow, Assembler, Adaptive::target).
StreamIsSound ==
    /\ Video!TypeOK /\ Video!ReferencesComplete /\ Video!NothingRefused /\ Video!FlightIsUnderway
    /\ Rates!TypeOK /\ Rates!WithinCapacity

\* Rate and frame rate grow only after the healthy windows that pay for it (Adaptive::observe).
RatesAreEarned == Rates!RatesAreEarned

\* Of the generation the window sends, the host holds down nothing the window does not believe it
\* holds, no key the picture has lost with the focus, and nothing but a text key that the user has
\* let go of; in an undisturbed session it holds exactly the buttons and modifiers the window
\* believes (App::remote, spawn_host_reader, the Injector).
MirrorsHost ==
    /\ Input!TypeOK
    /\ Input!MirrorsHost /\ Input!UnfocusedHoldsNoKey /\ Input!HeldIsPressed

\* Two clipboards send one message for a copy and not one text to and fro (poll, observe).
OncePerCopy == Clipboards!TypeOK /\ Clipboards!OncePerCopy

\* Neither what the peer sent nor what was there before the session or the switch is sent
\* (TextClipboard.fingerprint).
NoEcho == Clipboards!NoEcho /\ Clipboards!NothingFromBefore
=============================================================================
