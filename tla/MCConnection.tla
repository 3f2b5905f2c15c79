---------------------------- MODULE MCConnection ----------------------------
(***************************************************************************)
(* Connection for TLC: a listener and a viewer that compete for two         *)
(* resolver slots, one of them run again beside the resolver thread of its  *)
(* first run, so that the slots run out, and a service that says more than  *)
(* it should to a job alone; ends of any identity with any expectation of   *)
(* each other up to the end of the handshake, and ends that talk when they  *)
(* expect each other.                                                       *)
(***************************************************************************)
EXTENDS Connection

CONSTANTS a, b, k1, k2,
    MaxQuestions, MaxAnswers  \* bounds on the messages of the initiator and the responder

Reruns == \E j \in Jobs : runs[j] > 1

\* the service says one message to each of several runs, or several to one job that runs alone
OneTalks ==
    \/ \A j \in Jobs : Len(heard[j]) + Len(mail[j]) <= IF Reruns THEN 0 ELSE 1
    \/ ~Reruns /\ \E j \in Jobs : runs[j] = 1 /\ \A i \in Jobs \ {j} : runs[i] = 0

\* a job is run a second time beside the resolver thread its first run left over
OneReruns ==
    \A j \in Jobs : runs'[j] = 2 /\ runs[j] = 1 => leftover > 0 /\ \A i \in Jobs : runs[i] <= 1

\* an end talks when each is told to expect the other, of one identity
First == [id |-> 1, key |-> k1]
Known == \A e \in SC!Ends : me[e] = First /\ expected[e] = First
FewTalk ==
    /\ Len(sent["initiator"]) <= IF Known THEN MaxQuestions ELSE 0
    /\ Len(sent["responder"]) <= IF Known THEN MaxAnswers ELSE 0

\* what the ends of a channel are matters to the channel only, and names are only compared
MCInit == Init /\ me["initiator"] = First /\ (part = "channel" \/ Known)

MCSpec == MCInit /\ [][Next /\ OneTalks' /\ OneReruns /\ FewTalk']_vars /\ Fairness
=============================================================================
