----------------------------- MODULE Matchmaking ----------------------------
(***************************************************************************)
(* What the rendezvous server promises, without threads, sockets, locks or  *)
(* clocks: a registration of a listener is listed at most once, and a       *)
(* listed registration is given to at most one initiator, which takes it    *)
(* off the list for good.                                                   *)
(***************************************************************************)
CONSTANTS Conns, None

VARIABLES
    listed,  \* registrations an initiator may be given now
    spent,   \* registrations that have been listed
    partner  \* partner[i]: the registration initiator i was given

vars == << listed, spent, partner >>

TypeOK ==
    /\ listed \subseteq Conns
    /\ spent \subseteq Conns
    /\ partner \in [Conns -> Conns \cup {None}]

Init ==
    /\ listed = {}
    /\ spent = {}
    /\ partner = [c \in Conns |-> None]

\* A listener registers; older registrations may give way to it
List(t, gone) ==
    /\ t \notin spent
    /\ listed' = (listed \ gone) \cup {t}
    /\ spent' = spent \cup {t}
    /\ UNCHANGED partner

\* An initiator is given a listed registration
Match(i, t) ==
    /\ t \in listed
    /\ partner[i] = None
    /\ listed' = listed \ {t}
    /\ partner' = [partner EXCEPT ![i] = t]
    /\ UNCHANGED spent

\* Registrations expire or unregister
Unlist(gone) ==
    /\ listed' = listed \ gone
    /\ UNCHANGED << spent, partner >>

Next ==
    \/ \E t \in Conns, gone \in SUBSET Conns : List(t, gone)
    \/ \E i, t \in Conns : Match(i, t)
    \/ \E gone \in SUBSET Conns : Unlist(gone)

Spec == Init /\ [][Next]_vars

\* No registration is given to two initiators.
NeverGivenTwice ==
    \A i, j \in Conns : partner[i] = partner[j] /\ partner[i] # None => i = j

\* What makes it inductive: a given registration is spent and off the list.
GivenIsSpent ==
    /\ listed \subseteq spent
    /\ \A i \in Conns : partner[i] # None => partner[i] \in spent \ listed
=============================================================================
