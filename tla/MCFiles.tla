------------------------------ MODULE MCFiles -------------------------------
(***************************************************************************)
(* Files for TLC: two sessions of one peer, whose one file may change in    *)
(* its last block, one chunk long, and two programs and two relays of one   *)
(* configuration.                                                           *)
(*                                                                          *)
(* Sessions, transfer IDs and the two last blocks are interchangeable, in   *)
(* the specification and in every property.                                 *)
(***************************************************************************)
EXTENDS Files, TLC

CONSTANTS a, b, c  \* blocks

MCOwner    == [s \in Sessions |-> CHOOSE p \in Peers : TRUE]
MCNameOf   == [p \in Peers |-> CHOOSE n \in Names : TRUE]
MCContents == {<< a, b >>, << a, c >>}

Interchangeable ==
    Permutations(Sessions) \cup Permutations(Ids) \cup Permutations({b, c})
=============================================================================
