---------------------------- MODULE MCRendezvous ----------------------------
(* Small instances of Rendezvous for TLC *)
EXTENDS Rendezvous, TLC

CONSTANTS c1, c2, c3, c4, d1, d2, k1, k2

\* c1 and c2 listen as one device, c2 perhaps with another key; c3 and c4 are two viewers
RivalListeners == [c \in Conns |->
    IF c = c1 THEN {[id |-> d1, key |-> k1, listen |-> TRUE]}
    ELSE IF c = c2 THEN [id : {d1}, key : {k1, k2}, listen : {TRUE}]
    ELSE {[id |-> d2, key |-> k2, listen |-> FALSE]}]

\* One listener that may restart, or call a device itself, and a viewer
ListenerAndViewer == [c \in Conns |->
    IF c = c1 THEN {[id |-> d1, key |-> k1, listen |-> TRUE]}
    ELSE IF c = c2 THEN {[id |-> d1, key |-> k1, listen |-> TRUE],
                         [id |-> d2, key |-> k2, listen |-> FALSE]}
    ELSE {[id |-> d2, key |-> k2, listen |-> FALSE]}]

\* The two viewers are interchangeable
ViewerSymmetry == Permutations({c3, c4})
=============================================================================
