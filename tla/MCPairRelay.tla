---------------------------- MODULE MCPairRelay ----------------------------
(* Instances of PairRelay for TLC: two endpoints of the pair, a second       *)
(* connection of the left one (a retry) and a stranger.                      *)
EXTENDS PairRelay

CONSTANTS l1, l2, r1, x

MCClients == {l1, l2, r1, x}
MCPresents == [c \in Clients |->
    IF c \in {l1, l2} THEN "left" ELSE IF c = r1 THEN "right" ELSE "unknown"]
=============================================================================
