---------------------------- MODULE HostDesktop ----------------------------
(***************************************************************************)
(* The host side of a remote desktop session (host_desktop and              *)
(* spawn_host_reader, crates/sensor-desktop/src/worker.rs, with the         *)
(* Injector of crates/sensor-windows/src/input.rs).                         *)
(*                                                                          *)
(* The reader thread receives the viewer's messages: it injects input under *)
(* the lock of the InputTarget and passes everything else to the main loop  *)
(* through a bounded channel.  The main loop captures, encodes and sends;   *)
(* when monitor, profile or encoder change it starts a new generation:      *)
(* it advertises a Format and then lets the reader accept input for it.     *)
(*                                                                          *)
(* A key stands for a key or a mouse button.  Pixels, packets, the flight   *)
(* window, telemetry and the clipboard are left out; where they may fail,   *)
(* the session may fail.                                                    *)
(*                                                                          *)
(* A definition marked "Mutation" is not the code: it is a plausible wrong  *)
(* version of the definition below it, used to see a property fail.         *)
(***************************************************************************)
EXTENDS Naturals, Sequences

CONSTANTS
    Displays,      \* the monitors enumerated when the session starts
    First,         \* displays[0]
    None,          \* nothing to reconfigure, nothing to deliver, not advertised
    Keys,          \* keys and buttons
    QueueSize,     \* the 64 of sync_channel
    DrainLimit,    \* the 64 commands one pass takes at most
    MaxGeneration  \* bound on the generations of a behaviour

Requests    == Displays \cup {"profile"}  \* SelectDisplay(d), SelectVideoProfile
Commands    == Requests \cup {"other", "close", "failed"}
Generations == 1 .. MaxGeneration

ASSUME ConstantsAssumption ==
    /\ First \in Displays
    /\ None \notin Commands
    /\ Displays \cap {"profile", "other", "close", "failed"} = {}
    /\ QueueSize \in Nat \ {0}
    /\ DrainLimit \in Nat \ {0}
    /\ MaxGeneration \in Nat \ {0}

VARIABLES
    main,       \* where the main loop is
    commands,   \* the channel to it
    drained,    \* commands taken in this pass
    generation, \* its generation
    format,     \* the monitor and the kind of encoder of its VideoFormat
    advertised, \* advertised[g]: the monitor of the Format sent for g
    reconfigure,
    preferHardware,
    reader,     \* where the reader thread is
    delivering, \* the Select it is about to pass on
    target,     \* the InputTarget both threads lock
    down,       \* down[k]: the generation of the input holding k, 0 if k is up
    held,       \* the keys the Injector remembers
    injected,   \* injected_generation
    refused,    \* Windows refused to release keys
    stopped,    \* control.is_stopped()
    chosen,     \* history: the monitor of the last SelectDisplay main took
    cut         \* history: the last generation a Select was received in

mainVars   == << drained, generation, format, advertised, reconfigure, preferHardware, chosen >>
readerVars == << delivering, down, held, injected, refused, cut >>
vars == << main, reader, commands, target, stopped, mainVars, readerVars >>

InLoop      == {"top", "drain", "observe", "configure", "advertise", "activate", "encode"}
MainState   == InLoop \cup {"setup", "joining", "done"}
ReaderState == {"top", "receive", "zero", "send", "closing", "leaving", "done"}

TypeOK ==
    /\ main \in MainState
    /\ commands \in Seq(Commands) /\ Len(commands) <= QueueSize
    /\ drained \in 0 .. DrainLimit
    /\ generation \in Generations
    /\ format \in [display : Displays, hardware : BOOLEAN]
    /\ advertised \in [Generations -> Displays \cup {None}]
    /\ reconfigure \in Displays \cup {None}
    /\ preferHardware \in BOOLEAN
    /\ reader \in ReaderState
    /\ delivering \in Requests \cup {None}
    /\ target \in [generation : 0 .. MaxGeneration, display : Displays]
    /\ down \in [Keys -> 0 .. MaxGeneration]
    /\ held \in SUBSET Keys
    /\ injected \in 0 .. MaxGeneration
    /\ refused \in BOOLEAN
    /\ stopped \in BOOLEAN
    /\ chosen \in Displays
    /\ cut \in 0 .. MaxGeneration

Init ==
    /\ main = "setup"
    /\ commands = << >>
    /\ drained = 0
    /\ generation = 1
    /\ format = [display |-> First, hardware |-> FALSE]
    /\ advertised = [g \in Generations |-> None]
    /\ reconfigure = None
    /\ preferHardware = TRUE
    /\ reader = "top"
    /\ delivering = None
    /\ target = [generation |-> 1, display |-> First]
    /\ down = [k \in Keys |-> 0]
    /\ held = {}
    /\ injected = 0
    /\ refused = FALSE
    /\ stopped = FALSE
    /\ chosen = First
    /\ cut = 0

-----------------------------------------------------------------------------
(* The channel and the injector *)

\* Mutation: the channel has no bound
CanPostAlways == main \in InLoop \cup {"setup"}
CanPost == main \in InLoop \cup {"setup"} /\ Len(commands) < QueueSize

\* HostCommands::send, and where the reader is after it: a full or closed channel
\* aborts the session
Post(command, next) ==
    IF CanPost
      THEN /\ commands' = Append(commands, command)
           /\ reader' = next
           /\ UNCHANGED stopped
      ELSE /\ stopped' = TRUE
           /\ reader' = "leaving"
           /\ UNCHANGED commands

\* The injector, the keyboard it acts on, and whether Windows ever refused
Injector == [down |-> down, held |-> held, refused |-> refused]
Becomes(i) == down' = i.down /\ held' = i.held /\ refused' = i.refused

\* Injector::release: what it remembers is forgotten even if Windows refuses it
Lifted(i)  == [i EXCEPT !.down = [k \in Keys |-> IF k \in i.held THEN 0 ELSE i.down[k]],
                        !.held = {}]
Refused(i) == [i EXCEPT !.held = {}, !.refused = TRUE]
Released   == {Lifted(Injector)} \cup IF held # {} THEN {Refused(Injector)} ELSE {}

-----------------------------------------------------------------------------
(* The reader *)

CheckStop ==
    /\ reader = "top"
    /\ reader' = IF stopped THEN "leaving" ELSE "receive"
    /\ UNCHANGED << main, commands, target, stopped, mainVars, readerVars >>

\* The socket fails or was aborted, the message is none a viewer may send, or
\* Windows refuses the input
ReceiveFails ==
    /\ reader = "receive"
    /\ \/ Post("failed", "leaving")
       \/ stopped /\ reader' = "leaving" /\ UNCHANGED << commands, stopped >>
    /\ UNCHANGED << main, target, mainVars, readerVars >>

\* ... or refuses to release keys, for a ReleaseAll or before a Select
ReleaseRefused ==
    /\ reader = "receive"
    /\ held # {}
    /\ Becomes(Refused(Injector))
    /\ Post("failed", "leaving")
    /\ UNCHANGED << main, target, mainVars, delivering, injected, cut >>

\* Input of any generation but the target's is dropped
IgnoreInput(g) ==
    /\ reader = "receive"
    /\ advertised[g] # None
    /\ g # target.generation
    /\ reader' = "top"
    /\ UNCHANGED << main, commands, target, stopped, mainVars, readerVars >>

\* Mutation: keys stay held across generations
BeforeInputKeeping == {Injector}
\* The first input of a generation releases what an older one holds
BeforeInput == IF injected # target.generation THEN Released ELSE {Injector}

\* Injector::apply, with the target locked
InjectKey(g, k, press) ==
    /\ reader = "receive"
    /\ advertised[g] # None
    /\ g = target.generation
    /\ \E i \in BeforeInput :
         Becomes([i EXCEPT !.down[k] = IF press THEN g ELSE 0,
                           !.held = IF press THEN @ \cup {k} ELSE @ \ {k}])
    /\ injected' = g
    /\ reader' = "top"
    /\ UNCHANGED << main, commands, target, stopped, mainVars, delivering, cut >>

InjectReleaseAll(g) ==
    /\ reader = "receive"
    /\ advertised[g] # None
    /\ g = target.generation
    /\ \E i \in BeforeInput : Becomes(Lifted(i))
    /\ injected' = g
    /\ reader' = "top"
    /\ UNCHANGED << main, commands, target, stopped, mainVars, delivering, cut >>

\* A known monitor or a profile: held keys are released first ...
ReceiveSelect(request) ==
    /\ reader = "receive"
    /\ Becomes(Lifted(Injector))
    /\ delivering' = request
    /\ reader' = "zero"
    /\ UNCHANGED << main, commands, target, stopped, mainVars, injected, cut >>

\* Mutation: the target is left as it is
LeaveTarget ==
    /\ reader = "zero"
    /\ cut' = IF target.generation > cut THEN target.generation ELSE cut
    /\ reader' = "send"
    /\ UNCHANGED << main, commands, target, stopped, mainVars, delivering, down, held,
                    injected, refused >>
\* ... then input is turned off until main has switched ...
ZeroTarget ==
    /\ reader = "zero"
    /\ target' = [target EXCEPT !.generation = 0]
    /\ cut' = IF target.generation > cut THEN target.generation ELSE cut
    /\ reader' = "send"
    /\ UNCHANGED << main, commands, stopped, mainVars, delivering, down, held,
                    injected, refused >>

\* Mutation: a full channel is shrugged off
SendSelectOrDrop ==
    /\ reader = "send"
    /\ delivering' = None
    /\ reader' = "top"
    /\ commands' = IF CanPost THEN Append(commands, delivering) ELSE commands
    /\ UNCHANGED << main, target, stopped, mainVars, down, held, injected, refused, cut >>
\* ... and only then is main asked to
SendSelect ==
    /\ reader = "send"
    /\ delivering' = None
    /\ Post(delivering, "top")
    /\ UNCHANGED << main, target, mainVars, down, held, injected, refused, cut >>

\* Ping, FrameAck, ClipboardText
ReceiveOther ==
    /\ reader = "receive"
    /\ Post("other", "top")
    /\ UNCHANGED << main, target, mainVars, readerVars >>

ReceiveClose ==
    /\ reader = "receive"
    /\ \E i \in Released : Becomes(i)
    /\ Post("close", "closing")
    /\ UNCHANGED << main, target, mainVars, delivering, injected, cut >>

\* The reader's half of the connection lives until main has answered Close
StopWaiting ==
    /\ reader = "closing"
    /\ stopped
    /\ reader' = "leaving"
    /\ UNCHANGED << main, commands, target, stopped, mainVars, readerVars >>

Leave ==
    /\ reader = "leaving"
    /\ \E i \in Released : Becomes(i)
    /\ reader' = "done"
    /\ UNCHANGED << main, commands, target, stopped, mainVars, delivering, injected, cut >>

-----------------------------------------------------------------------------
(* The main loop *)

\* Mutation: nobody aborts the session, so a blocked reader stays blocked
EndWithoutAbort ==
    /\ main' = "joining"
    /\ UNCHANGED << reader, commands, target, stopped, mainVars, readerVars >>
\* The closure returns: control.abort(), writer and receiver are dropped
End ==
    /\ main' = "joining"
    /\ stopped' = TRUE
    /\ UNCHANGED << reader, commands, target, mainVars, readerVars >>

\* The first Format; its encoder may or may not be a hardware one
Start ==
    /\ main = "setup"
    /\ main' = "top"
    /\ advertised' = [advertised EXCEPT ![1] = First]
    /\ \E h \in BOOLEAN : format' = [format EXCEPT !.hardware = h]
    /\ UNCHANGED << reader, commands, target, stopped, drained, generation, reconfigure,
                    preferHardware, chosen, readerVars >>

\* An early return: DesktopStop aborts, nobody joins the reader
StartFails ==
    /\ main = "setup"
    /\ main' = "done"
    /\ stopped' = TRUE
    /\ UNCHANGED << reader, commands, target, mainVars, readerVars >>

BeginPass ==
    /\ main = "top"
    /\ ~stopped
    /\ main' = "drain"
    /\ drained' = 0
    /\ UNCHANGED << reader, commands, target, stopped, generation, format, advertised,
                    reconfigure, preferHardware, chosen, readerVars >>

\* Any error of a pass, a stop seen at its beginning, a stalled delivery
EndLoop ==
    /\ \/ main = "top" /\ stopped
       \/ main \in InLoop \ {"top", "activate"}
    /\ End

TakeRequest ==
    /\ main = "drain"
    /\ drained < DrainLimit
    /\ commands # << >>
    /\ Head(commands) \in Requests
    /\ commands' = Tail(commands)
    /\ drained' = drained + 1
    /\ IF Head(commands) = "profile"
         THEN reconfigure' = format.display /\ UNCHANGED chosen
         ELSE reconfigure' = Head(commands) /\ chosen' = Head(commands)
    /\ UNCHANGED << main, reader, target, stopped, generation, format, advertised,
                    preferHardware, readerVars >>

TakeOther ==
    /\ main = "drain"
    /\ drained < DrainLimit
    /\ commands # << >>
    /\ Head(commands) = "other"
    /\ commands' = Tail(commands)
    /\ drained' = drained + 1
    /\ UNCHANGED << main, reader, target, stopped, generation, format, advertised,
                    reconfigure, preferHardware, chosen, readerVars >>

\* Close is answered, Failed is returned
TakeEnd ==
    /\ main = "drain"
    /\ drained < DrainLimit
    /\ commands # << >>
    /\ Head(commands) \in {"close", "failed"}
    /\ End

StopDraining ==
    /\ main = "drain"
    /\ drained = DrainLimit \/ commands = << >>
    /\ main' = "observe"
    /\ UNCHANGED << reader, commands, target, stopped, mainVars, readerVars >>

\* Once a second the adaptive controller may want another size, rate or bitrate
Observe ==
    /\ main = "observe"
    /\ reconfigure' \in {reconfigure, format.display}
    /\ main' = IF reconfigure' = None THEN "encode" ELSE "configure"
    /\ UNCHANGED << reader, commands, target, stopped, drained, generation, format,
                    advertised, preferHardware, chosen, readerVars >>

\* The next generation: capture and encoder are set up
Configure ==
    /\ main = "configure"
    /\ generation < MaxGeneration
    /\ generation' = generation + 1
    /\ \E h \in {FALSE, preferHardware} :
         format' = [display |-> reconfigure, hardware |-> h]
    /\ reconfigure' = None
    /\ main' = "advertise"
    /\ UNCHANGED << reader, commands, target, stopped, drained, advertised,
                    preferHardware, chosen, readerVars >>

Advertise ==
    /\ main = "advertise"
    /\ advertised' = [advertised EXCEPT ![generation] = format.display]
    /\ main' = "activate"
    /\ UNCHANGED << reader, commands, target, stopped, drained, generation, format,
                    reconfigure, preferHardware, chosen, readerVars >>

\* Input is accepted for the Format just sent
Activate ==
    /\ main = "activate"
    /\ target' = [generation |-> generation, display |-> format.display]
    /\ main' = "encode"
    /\ UNCHANGED << reader, commands, stopped, mainVars, readerVars >>

\* Frames are captured, encoded and sent, or there is nothing to do
Encode ==
    /\ main = "encode"
    /\ main' = "top"
    /\ UNCHANGED << reader, commands, target, stopped, mainVars, readerVars >>

\* A hardware encoder fails: a software one replaces it in the next pass
FallBack ==
    /\ main = "encode"
    /\ preferHardware /\ format.hardware
    /\ preferHardware' = FALSE
    /\ reconfigure' = format.display
    /\ main' = "top"
    /\ UNCHANGED << reader, commands, target, stopped, drained, generation, format,
                    advertised, chosen, readerVars >>

Join ==
    /\ main = "joining"
    /\ reader = "done"
    /\ main' = "done"
    /\ UNCHANGED << reader, commands, target, stopped, mainVars, readerVars >>

-----------------------------------------------------------------------------
\* The user or the watchdog aborts the session at any time
Abort ==
    /\ ~stopped
    /\ stopped' = TRUE
    /\ UNCHANGED << main, reader, commands, target, mainVars, readerVars >>

\* What the reader does with a message of the viewer
Receive ==
    \/ \E g \in Generations :
         \/ IgnoreInput(g) \/ InjectReleaseAll(g)
         \/ \E k \in Keys, press \in BOOLEAN : InjectKey(g, k, press)
    \/ \E request \in Requests : ReceiveSelect(request)
    \/ ReceiveOther \/ ReceiveClose \/ ReleaseRefused

\* What it does by itself
Read == CheckStop \/ ZeroTarget \/ SendSelect \/ StopWaiting \/ Leave

Main ==
    \/ Start \/ StartFails \/ BeginPass \/ EndLoop
    \/ TakeRequest \/ TakeOther \/ TakeEnd \/ StopDraining
    \/ Observe \/ Configure \/ Advertise \/ Activate \/ Encode \/ FallBack \/ Join

Next == Abort \/ Receive \/ ReceiveFails \/ Read \/ Main

Spec == Init /\ [][Next]_vars

\* Both threads run; an aborted socket fails a blocked receive.  The viewer owes
\* nothing.
FairSpec ==
    /\ Spec
    /\ WF_vars(Main)
    /\ WF_vars(Read)
    /\ WF_vars(stopped /\ ReceiveFails)

-----------------------------------------------------------------------------
(* Safety *)

Pressed(k) == down[k] = 0 /\ down'[k] # 0

\* A key pressed now is injected for the monitor that the Format of its generation
\* advertised ("generation and coordinates must always describe the same selected
\* display").
PressesMatchTheirFormat ==
    [][\A k \in Keys : Pressed(k) => advertised[down'[k]] = target.display]_vars

\* Nothing sent before a Select is injected after it, whatever main was doing when
\* it arrived ("ignore in-flight coordinates until capture and the advertised
\* format have switched together").
NoPressFromBeforeASelect == [][\A k \in Keys : Pressed(k) => down'[k] > cut]_vars

\* Input is injected as it was meant: on the monitor its Format advertised, and not after a
\* Select that followed it (the reader's loop and InputTarget).
InputIsMeant == PressesMatchTheirFormat /\ NoPressFromBeforeASelect

\* What is held down was pressed in one generation: a Format never carries a
\* button or a modifier from one monitor or one size into the next.
HeldInOneGeneration ==
    ~refused => \A k \in Keys : down[k] # 0 => k \in held /\ down[k] = injected

\* Input that a Select turned off is always on its way back: the request is in
\* the channel or in main's hands, or the session is ending.
InputComesBack ==
    target.generation = 0 /\ main \in InLoop \cup {"setup"} =>
        \/ reader = "send"
        \/ \E i \in 1 .. Len(commands) : commands[i] \in Requests
        \/ reconfigure # None
        \/ main \in {"advertise", "activate"}
        \/ stopped

\* The monitor the viewer selected is the one main goes on with, once it has taken
\* the request.
SelectionHonoured == main = "encode" => format.display = chosen

-----------------------------------------------------------------------------
(* Liveness, under FairSpec *)

\* A viewer that selects and then waits gets its input back, or the session ends.
InputResumes == target.generation = 0 ~> target.generation # 0 \/ main = "done"

\* "Every return path must abort the blocking reader and release held input": an
\* aborted session ends, in both threads, with every key up.
EndsReleased ==
    stopped ~> /\ main = "done"
               /\ reader = "done"
               /\ refused \/ \A k \in Keys : down[k] = 0

\* The reader that waits for the answer to Close does not wait for ever.
CloseIsAnswered == reader = "closing" ~> main = "done" /\ reader = "done"

\* Whatever the session waits for comes to an end: input that is off, an abort, a Close
\* (spawn_host_reader and host_desktop).
HostResolves == InputResumes /\ EndsReleased /\ CloseIsAnswered
=============================================================================
