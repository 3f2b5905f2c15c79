-------------------------------- MODULE Pipe --------------------------------
(***************************************************************************)
(* What a secure connection promises to the two programs that use it, in    *)
(* each direction: messages arrive whole, once and in the order they were   *)
(* sent, or not at all, and then nothing that was sent after them arrives.  *)
(***************************************************************************)
EXTENDS Naturals, Sequences

CONSTANTS Ends, Messages

VARIABLES sent, delivered

vars == << sent, delivered >>

Other(e) == CHOOSE f \in Ends : f # e

Init ==
    /\ sent = [e \in Ends |-> << >>]
    /\ delivered = [e \in Ends |-> << >>]

Send(e) ==
    /\ \E m \in Messages : sent' = [sent EXCEPT ![e] = Append(@, m)]
    /\ UNCHANGED delivered

Deliver(e) ==
    /\ Len(delivered[e]) < Len(sent[Other(e)])
    /\ delivered' = [delivered EXCEPT ![e] = Append(@, sent[Other(e)][Len(@) + 1])]
    /\ UNCHANGED sent

Next == \E e \in Ends : Send(e) \/ Deliver(e)

Spec == Init /\ [][Next]_vars
=============================================================================
