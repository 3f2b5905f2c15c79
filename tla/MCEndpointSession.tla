-------------------------- MODULE MCEndpointSession --------------------------
(* Instances of EndpointSession for TLC. *)
EXTENDS EndpointSession, TLC

CONSTANTS r1, r2, r3, p1, p2, t1, t2

MCRuns      == {r1, r2, r3}
MCPeers     == {p1, p2}
MCTransfers == {t1, t2}
MCEvents    == [actor : MCPeers, action : Actions]
\* two runs serve one peer, the third another
MCPeerOf    == r1 :> p1 @@ r2 :> p1 @@ r3 :> p2
Renamed     == Permutations(MCTransfers) \cup Permutations({r1, r2})
=============================================================================
