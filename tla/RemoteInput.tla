---------------------------- MODULE RemoteInput -----------------------------
(***************************************************************************)
(* How what the user presses over the remote picture becomes input on the   *)
(* host (App::remote, crates/sensor-desktop/src/ui.rs, remote_input.rs, the *)
(* host's reader in worker.rs, and the Injector of                          *)
(* crates/sensor-windows/src/input.rs).                                     *)
(*                                                                          *)
(* The toolkit collects the events between two frames; a frame handles them *)
(* all: first the pointer buttons, then a paste or the modifiers, which are *)
(* not events but a state that is polled, then text and keys, then the loss *)
(* of the focus.  Each message carries the generation of the Format the     *)
(* window took last.  The host drops input of another generation than the   *)
(* one it accepts, and at the first of a new one lets everything go.        *)
(*                                                                          *)
(* Generations come at any time: of a selected monitor or profile, of the   *)
(* adaptive rate, of a fallback to another encoder (HostDesktop).  Ctrl     *)
(* stands for the modifiers, "letter" for the keys that also produce text,  *)
(* "arrow" for those that do not.  What holds nothing down (a move, with    *)
(* which the wheel comes, and text, put down and up at once) is "passing".  *)
(* Sending succeeds: a send that fails ends the session, see RemoteViewer.  *)
(* The picture is there, so that the first Format has been taken.           *)
(*                                                                          *)
(* A definition marked "Mutation" is not the code: it is a plausible wrong  *)
(* version of the definition below it, used to see a property fail.         *)
(***************************************************************************)
EXTENDS Naturals, Sequences

CONSTANTS
    MaxEvents,    \* bound on the events between two frames
    MaxMessages,  \* bound on the messages on their way
    MaxFormats    \* bound on the generations

VARIABLES
    pressed,    \* what the user holds down
    focus,      \* the picture has the keyboard focus
    events,     \* since the last frame
    settled,    \* history: the user has done nothing since the last frame
    step,       \* where the frame is
    next,       \* the event it handles next
    modifiers,  \* remote_modifiers
    button,     \* remote_buttons
    focused,    \* remote_focused
    known,      \* remote_generation
    messages,   \* on their way to the host
    advertised, \* the generation of the host's last Format
    pending,    \* its input is not accepted yet
    accepted,   \* InputTarget.generation
    injected,   \* injected_generation
    held        \* what the host's Injector holds down

user   == << pressed, focus, events, settled >>
frame  == << step, next >>
belief == << modifiers, button, focused >>
window == << frame, belief, known >>
host   == << advertised, pending, accepted, injected, held >>
vars   == << user, window, messages, host >>

Keys   == {"letter", "arrow"}
Things == Keys \cup {"ctrl", "button"}
\* of a button: whether the pointer is over the visible picture; of a key: whether Ctrl is down
Event  == [what : {"letter", "arrow", "button"}, down : BOOLEAN, with : BOOLEAN]
          \cup [what : {"text", "paste"}]
Message == [what : Things \cup {"passing", "all", "select"}, down : BOOLEAN, generation : Nat]

TypeOK ==
    /\ pressed \subseteq Things /\ focus \in BOOLEAN /\ events \in Seq(Event) /\ settled \in BOOLEAN
    /\ step \in {"idle", "buttons", "keys"} /\ next \in 1 .. Len(events) + 1
    /\ modifiers \in BOOLEAN /\ button \in BOOLEAN /\ focused \in BOOLEAN
    /\ messages \in Seq(Message)
    /\ {known, advertised, accepted, injected} \subseteq Nat /\ pending \in BOOLEAN
    /\ held \subseteq Things

Init ==
    /\ pressed = {} /\ focus = FALSE /\ events = << >> /\ settled = TRUE
    /\ step = "idle" /\ next = 1
    /\ modifiers = FALSE /\ button = FALSE /\ focused = FALSE
    /\ known = 1 /\ messages = << >>
    /\ advertised = 1 /\ pending = FALSE /\ accepted = 1
    /\ injected = 0 /\ held = {}

-----------------------------------------------------------------------------
(* The user; what happens during a frame is there for the next one *)

Happens(new) ==
    /\ step = "idle"
    /\ Len(events) + Len(new) <= MaxEvents
    /\ events' = events \o new
    /\ settled' = FALSE
    /\ UNCHANGED << window, messages, host >>

\* a letter without Ctrl also arrives as text
Press(k) ==
    /\ k \notin pressed
    /\ pressed' = pressed \cup {k}
    /\ LET ctrl == "ctrl" \in pressed IN
       Happens(<< [what |-> k, down |-> TRUE, with |-> ctrl] >>
               \o IF k = "letter" /\ ~ctrl THEN << [what |-> "text"] >> ELSE << >>)
    /\ UNCHANGED focus

Release(k) ==
    /\ k \in pressed
    /\ pressed' = pressed \ {k}
    /\ Happens(<< [what |-> k, down |-> FALSE, with |-> "ctrl" \in pressed] >>)
    /\ UNCHANGED focus

Modify ==
    /\ pressed' = IF "ctrl" \in pressed THEN pressed \ {"ctrl"} ELSE pressed \cup {"ctrl"}
    /\ Happens(<< >>)
    /\ UNCHANGED focus

\* Ctrl+V, which the toolkit turns into Paste
Paste ==
    /\ "ctrl" \in pressed
    /\ Happens(<< [what |-> "paste"] >>)
    /\ UNCHANGED << pressed, focus >>

Click(down) ==
    /\ down # ("button" \in pressed)
    /\ pressed' = IF down THEN pressed \cup {"button"} ELSE pressed \ {"button"}
    /\ \E inside \in BOOLEAN : Happens(<< [what |-> "button", down |-> down, with |-> inside] >>)
    /\ UNCHANGED focus

\* a click on the picture or elsewhere, the Tab key of the toolkit
MoveFocus ==
    /\ focus' = ~focus
    /\ Happens(<< >>)
    /\ UNCHANGED pressed

-----------------------------------------------------------------------------
(* The window: a frame, and what happens between two frames *)

\* send_remote
Send(m) ==
    /\ Len(messages) < MaxMessages
    /\ messages' = Append(messages, m)

Input(x, down) == [what |-> x, down |-> down, generation |-> known]
ReleaseAll == Input("all", FALSE)
Passing    == Input("passing", FALSE)
Select     == [what |-> "select", down |-> FALSE, generation |-> 0]

\* the pointer may be over the picture
FrameBegins ==
    /\ step = "idle"
    /\ step' = "buttons"
    /\ Send(Passing) \/ UNCHANGED messages
    /\ UNCHANGED << user, next, belief, known, host >>

\* pointer_button: a change, over the picture unless it ends what was begun there
PointerButton(e) == e.what = "button" /\ e.down # button /\ (e.with \/ (~e.down /\ button))

HandleButton ==
    /\ step = "buttons" /\ next <= Len(events)
    /\ LET e == events[next] IN
       \/ PointerButton(e) /\ Send(Input("button", e.down)) /\ button' = e.down
       \/ ~PointerButton(e) /\ UNCHANGED << messages, button >>
    /\ next' = next + 1
    /\ UNCHANGED << user, step, modifiers, focused, known, host >>

Pasting == focus /\ \E k \in DOMAIN events : events[k].what = "paste"

\* before a paste everything is let go; else, with the focus, a changed modifier is told
PollModifiers ==
    /\ step = "buttons" /\ next = Len(events) + 1
    /\ LET ctrl == "ctrl" \in pressed
           tell == ~Pasting /\ focus /\ ctrl # modifiers
       IN  \/ Pasting /\ Send(ReleaseAll) /\ button' = FALSE /\ modifiers' = FALSE
           \/ tell /\ Send(Input("ctrl", ctrl)) /\ modifiers' = ctrl /\ UNCHANGED button
           \/ ~Pasting /\ ~tell /\ UNCHANGED << messages, button, modifiers >>
    /\ step' = "keys" /\ next' = 1
    /\ UNCHANGED << user, focused, known, host >>

\* text keys go as text unless Ctrl turns them into a command
SendsKey(e) == e.what \in Keys /\ (e.what # "letter" \/ e.with)
Writes(e)   == e.what \in {"text", "paste"}

HandleKey ==
    /\ step = "keys" /\ focus /\ next <= Len(events)
    /\ LET e == events[next] IN
       \/ Writes(e) /\ Send(Passing)
       \/ SendsKey(e) /\ Send(Input(e.what, e.down))
       \/ ~Writes(e) /\ ~SendsKey(e) /\ UNCHANGED messages
    /\ next' = next + 1
    /\ UNCHANGED << user, step, belief, known, host >>

FrameEnds ==
    /\ step = "keys" /\ (focus => next = Len(events) + 1)
    /\ LET leaves == focused /\ ~focus IN
       \/ leaves /\ Send(ReleaseAll) /\ button' = FALSE /\ modifiers' = FALSE
       \/ ~leaves /\ UNCHANGED << messages, button, modifiers >>
    /\ focused' = focus /\ events' = << >> /\ settled' = TRUE
    /\ step' = "idle" /\ next' = 1
    /\ UNCHANGED << pressed, focus, known, host >>

\* release_remote_input: full screen, another page, Disconnect, Stop
LetGo ==
    /\ step = "idle"
    /\ Send(ReleaseAll)
    /\ button' = FALSE /\ modifiers' = FALSE /\ focused' = FALSE
    /\ UNCHANGED << user, frame, known, host >>

\* a profile is selected with everything let go, a monitor without
SelectProfile ==
    /\ step = "idle"
    /\ Len(messages) < MaxMessages
    /\ messages' = Append(Append(messages, ReleaseAll), Select)
    /\ button' = FALSE /\ modifiers' = FALSE /\ focused' = FALSE
    /\ UNCHANGED << user, frame, known, host >>

SelectMonitor ==
    /\ step = "idle"
    /\ Send(Select)
    /\ UNCHANGED << user, window, host >>

\* poll takes Formats; what is believed held stays believed
TakeFormats ==
    /\ step = "idle"
    /\ known' \in known + 1 .. advertised
    /\ UNCHANGED << user, frame, belief, messages, host >>

-----------------------------------------------------------------------------
(* The host *)

\* Injector::apply
Applied(hold, m) ==
    IF m.what = "all" THEN {}
    ELSE IF m.what = "passing" THEN hold
    ELSE IF m.down THEN hold \cup {m.what} ELSE hold \ {m.what}

\* Mutation: the first input of a generation joins what is held of an earlier one
TakeInputJoining(m) ==
    /\ m.generation = accepted
    /\ held' = Applied(held, m)
    /\ injected' = accepted
    /\ UNCHANGED accepted

\* input for what is shown; the first of a generation finds nothing held
TakeInput(m) ==
    /\ m.generation = accepted
    /\ held' = Applied(IF injected = accepted THEN held ELSE {}, m)
    /\ injected' = accepted
    /\ UNCHANGED accepted

\* input for what is shown no longer, or not yet
DropInput(m) ==
    /\ m.generation # accepted
    /\ UNCHANGED << held, injected, accepted >>

\* no input until the selected monitor or profile is shown
TakeSelect ==
    /\ held' = {}
    /\ accepted' = 0
    /\ UNCHANGED injected

Receive ==
    /\ messages # << >>
    /\ LET m == Head(messages) IN
       \/ m.what = "select" /\ TakeSelect
       \/ m.what # "select" /\ (TakeInput(m) \/ DropInput(m))
    /\ messages' = Tail(messages)
    /\ UNCHANGED << user, window, advertised, pending >>

\* a new encoder: its Format is sent, then its input is accepted
Advertise ==
    /\ ~pending /\ advertised < MaxFormats
    /\ advertised' = advertised + 1
    /\ pending' = TRUE
    /\ UNCHANGED << user, window, messages, accepted, injected, held >>

Activate ==
    /\ pending
    /\ accepted' = advertised
    /\ pending' = FALSE
    /\ UNCHANGED << user, window, messages, advertised, injected, held >>

-----------------------------------------------------------------------------
User ==
    \/ \E k \in Keys : Press(k) \/ Release(k)
    \/ Modify \/ Paste \/ MoveFocus
    \/ \E down \in BOOLEAN : Click(down)

WindowSteps ==
    \/ FrameBegins \/ HandleButton \/ PollModifiers \/ HandleKey \/ FrameEnds
    \/ LetGo \/ SelectProfile \/ SelectMonitor \/ TakeFormats

Host == Receive \/ Advertise \/ Activate

Next == User \/ WindowSteps \/ Host

Spec == Init /\ [][Next]_vars

-----------------------------------------------------------------------------
(* Properties *)

\* The host accepts what the window sends, and has had some of it
Agreed == known = accepted /\ known = injected

\* The first generation, with nothing selected
Undisturbed ==
    /\ advertised = 1 /\ accepted = 1
    /\ \A k \in 1 .. Len(messages) : messages[k].what # "select"

\* The host has handled everything
Quiet == step = "idle" /\ messages = << >>

\* The host holds no button and no modifier the window does not know of, through rapid clicks,
\* pastes, focus changes, releases and generations in any order (remote_buttons,
\* remote_modifiers); in an undisturbed session it holds exactly those the window believes, so
\* that no press is sent twice and no release withheld.
MirrorsHost ==
    Quiet =>
      /\ Agreed => ("button" \in held => button) /\ ("ctrl" \in held => modifiers)
      /\ Undisturbed => button = ("button" \in held) /\ modifiers = ("ctrl" \in held)

\* Without the focus the host holds no key of the generation the window sends, and what it still
\* holds of it is a button pressed since (remote_focused).
UnfocusedHoldsNoKey == Quiet /\ Agreed /\ ~focused => held \subseteq {"button"}

\* Nor does it hold what the user has let go of once the frame has been handled: buttons wherever
\* they are released, modifiers, and keys that are not text (a letter pressed with Ctrl is not
\* released after it, see SendsKey).
HeldIsPressed == Quiet /\ Agreed /\ settled => held \ {"letter"} \subseteq pressed

\* "Leaving the viewport releases held keys and buttons" (App::remote): without the focus no key
\* is held, whatever generation it is of, when the host accepts what the window sends.
LeavingReleases == Quiet /\ known = accepted /\ settled /\ ~focused => held \cap (Keys \cup {"ctrl"}) = {}
=============================================================================
