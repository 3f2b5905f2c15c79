------------------------------- MODULE Ledger -------------------------------
(***************************************************************************)
(* What an audit log promises to whoever appends to it: entries are only    *)
(* ever added at the end, and an entry that was promised stays where it is, *)
(* through every later failure.  An entry that was not promised may be      *)
(* there or not.                                                            *)
(***************************************************************************)
EXTENDS Naturals, Sequences

CONSTANT Events

VARIABLES
    entries,   \* what a reader of the ledger finds
    promised   \* how many of them were promised

Init ==
    /\ entries = << >>
    /\ promised = 0

Enter ==
    /\ \E e \in Events : entries' = Append(entries, e)
    /\ UNCHANGED promised

Promise ==
    /\ promised' = Len(entries)
    /\ UNCHANGED entries

Lose ==
    /\ \E n \in promised .. Len(entries) : entries' = SubSeq(entries, 1, n)
    /\ UNCHANGED promised

Next == Enter \/ Promise \/ Lose

Spec == Init /\ [][Next]_<< entries, promised >>
=============================================================================
