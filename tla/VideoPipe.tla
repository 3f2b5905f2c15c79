----------------------------- MODULE VideoPipe ------------------------------
(***************************************************************************)
(* The way of a picture from the host's encoder to the viewer's window, and *)
(* of its acknowledgement back (host_desktop, send_video_packets and        *)
(* execute_remote in crates/sensor-desktop/src/worker.rs; FlightWindow and  *)
(* Assembler in crates/sensor-media/src; App::poll and App::remote in       *)
(* ui.rs).                                                                  *)
(*                                                                          *)
(* The host submits pictures to an encoder that returns them later, cuts    *)
(* what comes out into fragments and counts in its FlightWindow what the    *)
(* viewer has not acknowledged.  A change of monitor, size or encoder       *)
(* starts a generation: a new encoder, a new window, a Format.  The viewer  *)
(* makes a decoder for each Format, puts the fragments together, decodes,   *)
(* acknowledges, and publishes the picture; the window thread takes the     *)
(* Formats from a channel of events and the picture from a shared slot.     *)
(*                                                                          *)
(* A picture is a number, its sequence; bytes are counted in fragments.     *)
(* The connection keeps the order (SecureChannel).  Input is in HostDesktop *)
(* and RemoteInput; here it is only what the user would hit.                *)
(*                                                                          *)
(* A definition marked "Mutation" is not the code: it is a plausible wrong  *)
(* version of the definition below it, used to see a property fail.         *)
(***************************************************************************)
EXTENDS Naturals, Sequences, SequencesExt

CONSTANTS
    Monitors,
    First,         \* the monitor of the first generation
    None,          \* nothing to switch to, nothing shown
    Window,        \* the 16 submissions of can_submit
    Budget,        \* the bytes can_submit waits below
    MaxSize,       \* the largest frame, in fragments
    MaxPictures,   \* bound on the pictures of a behaviour
    MaxGeneration  \* bound on its generations

ConstantsAssumption ==
    /\ First \in Monitors /\ None \notin Monitors
    /\ {Window, Budget, MaxSize, MaxGeneration} \subseteq Nat \ {0}
    /\ MaxPictures \in Nat

VARIABLES
    generation, \* of the host
    monitorOf,  \* monitorOf[g]: what generation g captures
    switching,  \* reconfigure
    encoder,    \* the pictures in the encoder, in order
    sending,    \* the frame whose fragments are being sent, or none
    flight,     \* FlightWindow.frames
    bytes,      \* FlightWindow.bytes
    pictures,   \* submitted so far
    wire,       \* from the host to the viewer
    acks,       \* FrameAcks on their way to the host's main loop
    decoding,   \* generation and decoder of the viewer
    assembly,   \* Assembler.frame, or none
    slot,       \* Control.remote_frame: the generation of the picture, or None
    events,     \* the generations of the RemoteFormats the window has not taken
    window,     \* where the window thread is
    format,     \* remote_generation
    shown,      \* remote_frame
    over,       \* the session has ended, and why
    produced,   \* history: produced[g]: what the encoder of g has put out
    decoded     \* history: decoded[g]: what the decoder of g was given

host   == << generation, monitorOf, switching, encoder, sending, flight, bytes, pictures, produced >>
viewer == << decoding, assembly, slot, decoded >>
screen == << window, format, shown >>
vars   == << host, wire, acks, viewer, events, screen, over >>

Generations == 1 .. MaxGeneration
Pictures    == 1 .. MaxPictures
Sizes       == 1 .. MaxSize
Packet      == [picture : Pictures, size : Sizes, at : 0 .. MaxSize]
NoPacket    == [picture |-> 0, size |-> 0, at |-> 0]
\* late: for more than 500 ms
InFlight    == [picture : Pictures, size : 0 .. MaxSize, late : BOOLEAN]
Message     == [generation : Generations, packet : Packet \cup {NoPacket}]
Ack         == [generation : Generations, picture : Pictures]

TypeOK ==
    /\ generation \in Generations
    /\ monitorOf \in [Generations -> Monitors \cup {None}]
    /\ switching \in Monitors \cup {None}
    /\ encoder \in Seq(Pictures)
    /\ sending \in Packet \cup {NoPacket} /\ assembly \in Packet \cup {NoPacket}
    /\ flight \in Seq(InFlight) /\ Len(flight) <= Window
    /\ bytes \in Nat
    /\ pictures \in 0 .. MaxPictures
    /\ wire \in Seq(Message) /\ acks \in Seq(Ack)
    /\ decoding \in 0 .. MaxGeneration
    /\ slot \in Generations \cup {None} /\ shown \in Generations \cup {None}
    /\ events \in Seq(Generations) /\ format \in 0 .. MaxGeneration
    /\ window \in {"events", "frame", "draw"}
    /\ over \in {"", "stopped", "stalled"}
    /\ produced \in [Generations -> Seq(Pictures)] /\ decoded \in [Generations -> Seq(Pictures)]

Format(g) == [generation |-> g, packet |-> NoPacket]

Init ==
    /\ generation = 1
    /\ monitorOf = [g \in Generations |-> IF g = 1 THEN First ELSE None]
    /\ switching = None
    /\ encoder = << >> /\ sending = NoPacket /\ flight = << >> /\ bytes = 0 /\ pictures = 0
    /\ wire = << Format(1) >> /\ acks = << >>
    /\ decoding = 0 /\ assembly = NoPacket /\ slot = None
    /\ events = << >> /\ window = "events" /\ format = 0 /\ shown = None
    /\ over = ""
    /\ produced = [g \in Generations |-> << >>] /\ decoded = [g \in Generations |-> << >>]

-----------------------------------------------------------------------------
(* FlightWindow *)

Position(p) == { k \in DOMAIN flight : flight[k].picture = p }
IsFirst(k, ks) == k \in ks /\ \A j \in ks : k <= j

CanSubmit ==
    /\ Len(flight) < Window
    /\ bytes < Budget
    /\ flight # << >> => ~flight[1].late

\* acknowledge: an unknown picture changes nothing
Acknowledge(p) ==
    \/ Position(p) = {} /\ UNCHANGED << flight, bytes >>
    \/ \E k \in DOMAIN flight :
        /\ IsFirst(k, Position(p))
        /\ flight' = RemoveAt(flight, k)
        /\ bytes' = bytes - flight[k].size

\* encoded: as unknown as before, or the size of its frame
Encoded(p, size) ==
    \/ Position(p) = {} /\ UNCHANGED << flight, bytes >>
    \/ \E k \in DOMAIN flight :
        /\ IsFirst(k, Position(p))
        /\ flight' = [flight EXCEPT ![k].size = size]
        /\ bytes' = bytes - flight[k].size + size

-----------------------------------------------------------------------------
(* The main loop of the host *)

Running == over = "" /\ sending = NoPacket

TakeAck ==
    /\ Running /\ acks # << >>
    /\ acks' = Tail(acks)
    /\ IF Head(acks).generation = generation THEN Acknowledge(Head(acks).picture)
       ELSE UNCHANGED << flight, bytes >>
    /\ UNCHANGED << generation, monitorOf, switching, encoder, sending, pictures, produced, wire,
                    viewer, events, screen, over >>

\* a Select, a new target of Adaptive or an encoder that failed
Reconfigure(m) ==
    /\ Running /\ generation < MaxGeneration
    /\ switching' = m
    /\ UNCHANGED << generation, monitorOf, encoder, sending, flight, bytes, pictures, produced, wire,
                    acks, viewer, events, screen, over >>

\* Mutation: the acknowledgements of the old encoder are awaited by the new window
SwitchKeepingFlight ==
    /\ Running /\ switching # None
    /\ generation' = generation + 1
    /\ monitorOf' = [monitorOf EXCEPT ![generation + 1] = switching]
    /\ switching' = None
    /\ encoder' = << >>
    /\ wire' = Append(wire, Format(generation + 1))
    /\ UNCHANGED << sending, flight, bytes, pictures, produced, acks, viewer, events, screen, over >>

Switch ==
    /\ Running /\ switching # None
    /\ generation' = generation + 1
    /\ monitorOf' = [monitorOf EXCEPT ![generation + 1] = switching]
    /\ switching' = None
    /\ encoder' = << >> /\ flight' = << >> /\ bytes' = 0
    /\ wire' = Append(wire, Format(generation + 1))
    /\ UNCHANGED << sending, pictures, produced, acks, viewer, events, screen, over >>

\* capture and encode: a full window skips the capture, never a frame that depends on another
Submit ==
    /\ Running /\ switching = None /\ pictures < MaxPictures /\ CanSubmit
    /\ pictures' = pictures + 1
    /\ encoder' = Append(encoder, pictures + 1)
    /\ flight' = Append(flight, [picture |-> pictures + 1, size |-> 0, late |-> FALSE])
    /\ UNCHANGED << generation, monitorOf, switching, sending, bytes, produced, wire, acks, viewer,
                    events, screen, over >>

\* available or encode returns a frame: its bytes are counted, its fragments are sent
Yield ==
    /\ Running /\ switching = None /\ encoder # << >>
    /\ \E size \in Sizes :
        LET p == Head(encoder) IN
        /\ sending' = [picture |-> p, size |-> size, at |-> 0]
        /\ Encoded(p, size)
        /\ produced' = [produced EXCEPT ![generation] = Append(@, p)]
    /\ encoder' = Tail(encoder)
    /\ UNCHANGED << generation, monitorOf, switching, pictures, wire, acks, viewer, events, screen, over >>

SendFragment ==
    /\ over = "" /\ sending # NoPacket
    /\ wire' = Append(wire, [generation |-> generation, packet |-> sending])
    /\ sending' = IF sending.at + 1 = sending.size THEN NoPacket ELSE [sending EXCEPT !.at = @ + 1]
    /\ UNCHANGED << generation, monitorOf, switching, encoder, flight, bytes, pictures, produced, acks,
                    viewer, events, screen, over >>

\* time passes: the oldest submission gets old, too old
GrowLate ==
    /\ over = ""
    /\ \E k \in DOMAIN flight :
        /\ ~flight[k].late /\ \A j \in 1 .. k - 1 : flight[j].late
        /\ flight' = [flight EXCEPT ![k].late = TRUE]
    /\ UNCHANGED << generation, monitorOf, switching, encoder, sending, bytes, pictures, produced, wire,
                    acks, viewer, events, screen, over >>

Stalled ==
    /\ Running /\ flight # << >> /\ flight[1].late
    /\ over' = "stalled"
    /\ UNCHANGED << host, wire, acks, viewer, events, screen >>

-----------------------------------------------------------------------------
(* The worker of the viewer *)

\* push_inner: the first fragment starts a frame, every other one must continue it
Continues(f) ==
    IF assembly = NoPacket THEN f.at = 0
    ELSE f.picture = assembly.picture /\ f.size = assembly.size /\ f.at = assembly.at

Complete(f) == f.at + 1 = f.size

TakeFormat ==
    /\ over = "" /\ wire # << >> /\ Head(wire).packet = NoPacket
    /\ wire' = Tail(wire)
    /\ decoding' = Head(wire).generation
    /\ assembly' = NoPacket
    /\ events' = Append(events, Head(wire).generation)
    /\ UNCHANGED << host, acks, slot, decoded, screen, over >>

TakeFragment ==
    /\ over = "" /\ wire # << >> /\ Head(wire).packet # NoPacket
    /\ Continues(Head(wire).packet) /\ ~Complete(Head(wire).packet)
    /\ wire' = Tail(wire)
    /\ assembly' = [Head(wire).packet EXCEPT !.at = @ + 1]
    /\ UNCHANGED << host, acks, decoding, slot, decoded, events, screen, over >>

\* a frame is whole: the decoder gives the picture or keeps it for the next one
Decode ==
    /\ over = "" /\ wire # << >> /\ Head(wire).packet # NoPacket
    /\ Continues(Head(wire).packet) /\ Complete(Head(wire).packet) /\ decoding # 0
    /\ wire' = Tail(wire)
    /\ assembly' = NoPacket
    /\ LET p == Head(wire).packet.picture IN
       /\ decoded' = [decoded EXCEPT ![decoding] = Append(@, p)]
       /\ acks' = Append(acks, [generation |-> decoding, picture |-> p])
    /\ slot' \in {slot, decoding}
    /\ UNCHANGED << host, decoding, events, screen, over >>

-----------------------------------------------------------------------------
(* The window thread *)

PollEvents ==
    /\ window = "events"
    /\ events' = << >>
    /\ format' = IF events = << >> THEN format ELSE Last(events)
    /\ window' = "frame"
    /\ UNCHANGED << host, wire, acks, viewer, shown, over >>

PollFrame ==
    /\ window = "frame"
    /\ shown' = IF slot = None THEN shown ELSE slot
    /\ window' = "draw"
    /\ UNCHANGED << host, wire, acks, viewer, events, format, over >>

Draw ==
    /\ window = "draw"
    /\ window' = "events"
    /\ UNCHANGED << host, wire, acks, viewer, events, format, shown, over >>

-----------------------------------------------------------------------------
\* either side stops, a write fails or takes too long
Stop ==
    /\ over = ""
    /\ over' = "stopped"
    /\ UNCHANGED << host, wire, acks, viewer, events, screen >>

Host == TakeAck \/ (\E m \in Monitors : Reconfigure(m)) \/ Switch \/ Submit \/ Yield \/ SendFragment
        \/ GrowLate \/ Stalled
Viewer == TakeFormat \/ TakeFragment \/ Decode
Screen == PollEvents \/ PollFrame \/ Draw

Next == Host \/ Viewer \/ Screen \/ Stop

Spec == Init /\ [][Next]_vars

\* the loops of host and viewer run, and the encoder gives back what it was given
Fairness ==
    /\ WF_vars(TakeAck) /\ WF_vars(Switch) /\ WF_vars(Yield) /\ WF_vars(SendFragment)
    /\ WF_vars(TakeFormat) /\ WF_vars(TakeFragment) /\ WF_vars(Decode)

FairSpec == Spec /\ Fairness

-----------------------------------------------------------------------------
(* Properties *)

\* No frame a later one depends on is missing, out of order or given to the decoder of another
\* generation: each decoder is given what its encoder put out, from the first frame on (the
\* comment "Never drop encoded P-frames" in host_desktop).
ReferencesComplete ==
    \A g \in Generations :
        /\ Len(decoded[g]) <= Len(produced[g])
        /\ \A k \in DOMAIN decoded[g] : decoded[g][k] = produced[g][k]

\* The viewer never refuses a fragment of a host that follows the protocol, as it would end the
\* session: generations change between frames, never inside one, and every frame finds the decoder
\* of its own generation (Assembler::push, send_video_packets).
NothingRefused ==
    wire # << >> /\ Head(wire).packet # NoPacket =>
        Continues(Head(wire).packet) /\ (Complete(Head(wire).packet) => decoding = Head(wire).generation)

\* the bytes of the first k frames in the window
Counted[k \in 0 .. Len(flight)] == IF k = 0 THEN 0 ELSE Counted[k - 1] + flight[k].size

\* What is in the window is on its way: in the encoder, being sent, on the wire or acknowledged by
\* a FrameAck that the host will count; and the bytes are those of the frames in it.  Nothing fills
\* the window for ever (FlightWindow, the generation in FrameAck).
FlightIsUnderway ==
    /\ bytes = Counted[Len(flight)]
    /\ over = "" => \A k \in DOMAIN flight :
        LET p == flight[k].picture IN
        \/ \E j \in DOMAIN encoder : encoder[j] = p
        \/ sending.picture = p
        \/ \E j \in DOMAIN wire : wire[j].generation = generation /\ wire[j].packet.picture = p
        \/ \E j \in DOMAIN acks : acks[j] = [generation |-> generation, picture |-> p]

\* The same as seen by the capture: the window has room again, without the five-second limit having
\* to end the session.
WindowDrains == \A p \in Pictures : Position(p) # {} ~> Position(p) = {} \/ over # ""

=============================================================================
