---------------------------- MODULE Publication ----------------------------
(***************************************************************************)
(* What a file transfer promises, without messages, partial files, deaths   *)
(* or resumption: a name in the receiving directory gets a file at most     *)
(* once, whole, and keeps it; a sender is told that its file arrived only   *)
(* when the directory holds exactly that file under that name.              *)
(*                                                                          *)
(* The disk learns of a name some time after it is there, and nobody waits  *)
(* for that.  A power loss takes the names it does not know, that of a file *)
(* a sender was told of among them, and such a name is free again.          *)
(***************************************************************************)
CONSTANTS Names, Contents, Sessions, None

VARIABLES
    published,    \* published[n]: the content of file n, or None
    kept,         \* the names the disk has
    acknowledged  \* acknowledged[s]: the file session s was told is there, or None

vars == << published, kept, acknowledged >>

Init ==
    /\ published = [n \in Names |-> None]
    /\ kept = {}
    /\ acknowledged = [s \in Sessions |-> None]

Publish(n) ==
    /\ published[n] = None
    /\ \E data \in Contents : published' = [published EXCEPT ![n] = data]
    /\ UNCHANGED << kept, acknowledged >>

Acknowledge(s) ==
    /\ acknowledged[s] = None
    /\ \E n \in Names :
        /\ published[n] # None
        /\ acknowledged' = [acknowledged EXCEPT ![s] = [name |-> n, data |-> published[n]]]
    /\ UNCHANGED << published, kept >>

Keep ==
    /\ kept' = {n \in Names : published[n] # None}
    /\ UNCHANGED << published, acknowledged >>

PowerFails ==
    /\ published' = [n \in Names |-> IF n \in kept THEN published[n] ELSE None]
    /\ UNCHANGED << kept, acknowledged >>

Next ==
    \/ \E n \in Names : Publish(n)
    \/ \E s \in Sessions : Acknowledge(s)
    \/ Keep \/ PowerFails

Spec == Init /\ [][Next]_vars
=============================================================================
