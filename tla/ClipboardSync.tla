--------------------------- MODULE ClipboardSync ----------------------------
(***************************************************************************)
(* The text clipboards of host and viewer during a session (TextClipboard,  *)
(* crates/sensor-windows/src/clipboard.rs, and its use in host_desktop and  *)
(* execute_remote, crates/sensor-desktop/src/worker.rs).                    *)
(*                                                                          *)
(* Each side polls its clipboard four times a second and sends what has     *)
(* changed since the last look; what arrives is put on the clipboard.  A    *)
(* fingerprint of the last text seen or applied tells a change from the     *)
(* first look and from the echo of what the peer sent.                      *)
(*                                                                          *)
(* The session grants the clipboard; without the permission both poll and   *)
(* apply return before they look.  A fingerprint is the text itself.        *)
(*                                                                          *)
(* A definition marked "Mutation" is not the code: it is a plausible wrong  *)
(* version of the definition below it, used to see a property fail.         *)
(***************************************************************************)
EXTENDS Naturals, Sequences

CONSTANTS
    Texts,
    None,       \* no fingerprint
    Copiers,    \* the sides whose user copies during the session
    MaxCopies,  \* bound on what they copy
    MaxToggles, \* bound on the clicks on the clipboard switches
    MaxBusy     \* bound on the times Windows refuses the clipboard

ConstantsAssumption ==
    /\ None \notin Texts
    /\ Copiers \subseteq {"host", "viewer"}
    /\ {MaxCopies, MaxToggles, MaxBusy} \subseteq Nat

Sides == {"host", "viewer"}
Peer(s) == IF s = "host" THEN "viewer" ELSE "host"

VARIABLES
    clip,        \* the clipboard of Windows
    owner,       \* history: who put it there, and when
    fingerprint,
    enabled,     \* clipboard_enabled
    wire,        \* wire[s]: ClipboardText on its way to s
    inbox,       \* inbox[s]: between the thread of s that receives and the one that applies
    owed,        \* history: a change after the first look, for the peer to get
    copies, toggles, busy,
    sent         \* history: messages sent

counters == << copies, toggles, busy >>
vars == << clip, owner, fingerprint, enabled, wire, inbox, owed, counters, sent >>

Owners == {"before", "on", "off", "peer"}

TypeOK ==
    /\ clip \in [Sides -> Texts] /\ owner \in [Sides -> Owners]
    /\ fingerprint \in [Sides -> Texts \cup {None}] /\ owed \in [Sides -> Texts \cup {None}]
    /\ enabled \in [Sides -> BOOLEAN]
    /\ wire \in [Sides -> Seq(Texts)]
    /\ inbox \in [Sides -> Seq(Texts)] /\ Len(inbox["viewer"]) <= 1
    /\ copies \in 0 .. MaxCopies /\ toggles \in 0 .. MaxToggles /\ busy \in 0 .. MaxBusy
    /\ sent \in Nat

Init ==
    /\ clip \in [Sides -> Texts] /\ owner = [s \in Sides |-> "before"]
    /\ fingerprint = [s \in Sides |-> None] /\ owed = [s \in Sides |-> None]
    /\ enabled = [s \in Sides |-> TRUE]
    /\ wire = [s \in Sides |-> << >>] /\ inbox = [s \in Sides |-> << >>]
    /\ copies = 0 /\ toggles = 0 /\ busy = 0 /\ sent = 0

-----------------------------------------------------------------------------
(* The users *)

Copy(s, t) ==
    /\ copies < MaxCopies
    /\ copies' = copies + 1
    /\ clip' = [clip EXCEPT ![s] = t]
    /\ owner' = [owner EXCEPT ![s] = IF enabled[s] THEN "on" ELSE "off"]
    /\ owed' = [owed EXCEPT ![s] = IF enabled[s] /\ fingerprint[s] \notin {None, t} THEN t ELSE None]
    /\ UNCHANGED << fingerprint, enabled, wire, inbox, toggles, busy, sent >>

\* set_clipboard_enabled
Toggle(s) ==
    /\ toggles < MaxToggles
    /\ toggles' = toggles + 1
    /\ enabled' = [enabled EXCEPT ![s] = ~@]
    /\ UNCHANGED << clip, owner, fingerprint, wire, inbox, owed, copies, busy, sent >>

-----------------------------------------------------------------------------
(* poll *)

\* disabled: the next look is the first one again
Forget(s) ==
    /\ ~enabled[s]
    /\ fingerprint' = [fingerprint EXCEPT ![s] = None]
    /\ UNCHANGED << clip, owner, enabled, wire, inbox, owed, counters, sent >>

\* Mutation: what was sent is not remembered
ObserveForgetting(s) ==
    /\ enabled[s] /\ clip[s] # fingerprint[s]
    /\ IF fingerprint[s] = None
       THEN fingerprint' = [fingerprint EXCEPT ![s] = clip[s]] /\ UNCHANGED << wire, sent >>
       ELSE /\ wire' = [wire EXCEPT ![Peer(s)] = Append(@, clip[s])]
            /\ sent' = sent + 1 /\ UNCHANGED fingerprint
    /\ UNCHANGED << clip, owner, enabled, inbox, owed, counters >>

\* a text other than the last one: sent, unless this is the first look
Observe(s) ==
    /\ enabled[s] /\ clip[s] # fingerprint[s]
    /\ fingerprint' = [fingerprint EXCEPT ![s] = clip[s]]
    /\ IF fingerprint[s] = None THEN UNCHANGED << wire, sent >>
       ELSE wire' = [wire EXCEPT ![Peer(s)] = Append(@, clip[s])] /\ sent' = sent + 1
    /\ UNCHANGED << clip, owner, enabled, inbox, owed, counters >>

-----------------------------------------------------------------------------
(* The receiving thread and apply *)

\* the host's commands; the viewer's channel of one, sent to without waiting
Room(s) == s = "host" \/ inbox[s] = << >>

\* the viewer looks at its switch here already
Receive(s) ==
    /\ wire[s] # << >>
    /\ wire' = [wire EXCEPT ![s] = Tail(@)]
    /\ inbox' = IF Room(s) /\ (s = "host" \/ enabled[s])
                THEN [inbox EXCEPT ![s] = Append(@, Head(wire[s]))] ELSE inbox
    /\ UNCHANGED << clip, owner, fingerprint, enabled, owed, counters, sent >>

\* Mutation: what was applied is not remembered
ApplyUnmarked(s) ==
    /\ inbox[s] # << >>
    /\ inbox' = [inbox EXCEPT ![s] = Tail(@)]
    /\ IF enabled[s]
       THEN clip' = [clip EXCEPT ![s] = Head(inbox[s])] /\ owner' = [owner EXCEPT ![s] = "peer"]
       ELSE UNCHANGED << clip, owner >>
    /\ UNCHANGED << fingerprint, enabled, wire, owed, counters, sent >>

Apply(s) ==
    /\ inbox[s] # << >>
    /\ inbox' = [inbox EXCEPT ![s] = Tail(@)]
    /\ IF enabled[s]
       THEN /\ clip' = [clip EXCEPT ![s] = Head(inbox[s])]
            /\ owner' = [owner EXCEPT ![s] = "peer"]
            /\ fingerprint' = [fingerprint EXCEPT ![s] = Head(inbox[s])]
       ELSE UNCHANGED << clip, owner, fingerprint >>
    /\ UNCHANGED << enabled, wire, owed, counters, sent >>

\* set_text fails: the text is given up
ApplyBusy(s) ==
    /\ inbox[s] # << >> /\ enabled[s] /\ busy < MaxBusy
    /\ busy' = busy + 1
    /\ inbox' = [inbox EXCEPT ![s] = Tail(@)]
    /\ UNCHANGED << clip, owner, fingerprint, enabled, wire, owed, copies, toggles, sent >>

-----------------------------------------------------------------------------
Endpoint(s) == Forget(s) \/ Observe(s) \/ Receive(s) \/ Apply(s) \/ ApplyBusy(s)

User(s) == (s \in Copiers /\ \E t \in Texts : Copy(s, t)) \/ Toggle(s)

Next == \E s \in Sides : User(s) \/ Endpoint(s)

Spec == Init /\ [][Next]_vars

\* the loops of both sides run while the session does
Fairness == \A s \in Sides :
    WF_vars(Forget(s)) /\ WF_vars(Observe(s)) /\ WF_vars(Receive(s)) /\ WF_vars(Apply(s))

FairSpec == Spec /\ Fairness

-----------------------------------------------------------------------------
(* Properties *)

Sends(s) == sent' > sent /\ wire'[Peer(s)] # wire[Peer(s)]

\* "Echo prevention": what the peer put on the clipboard is never sent back to it, whatever is
\* applied, disabled and enabled in between (TextClipboard.fingerprint).
NoEcho == [][\A s \in Sides : Sends(s) => owner[s] # "peer"]_vars

\* "Pre-session contents are not sent" (the baseline in poll), nor again after the switch was used.
NothingFromBefore == [][\A s \in Sides : Sends(s) => owner[s] # "before"]_vars

\* Two clipboards do not send one text to and fro: every message is for a copy of its own.
OncePerCopy == sent <= copies

Arrives(s) == \A t \in Texts : owed[s] = t ~> clip[Peer(s)] = t \/ owed[s] # t

\* "Text clipboard synchronization": when only one of the users copies, the other side gets the
\* last text, as long as Windows gives access and nobody uses the switches.
ViewerCopiesArrive == Arrives("viewer")

=============================================================================
