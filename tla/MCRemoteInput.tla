---------------------------- MODULE MCRemoteInput ---------------------------
(* An instance of RemoteInput for TLC: three events between two frames, one *)
(* message on its way and two generations.                                  *)
EXTENDS RemoteInput
=============================================================================
