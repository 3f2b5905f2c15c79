--------------------------- MODULE MCHostDesktop ---------------------------
(* Instances of HostDesktop for TLC: two monitors, two keys. *)
EXTENDS HostDesktop

CONSTANTS d0, d1, k1, k2

MCDisplays == {d0, d1}
MCKeys     == {k1, k2}
MCOneKey   == {k1}
=============================================================================
