----------------------------- MODULE MCListener -----------------------------
(* Instances of RealtimeListener for TLC.                                   *)
EXTENDS RealtimeListener, TLC

CONSTANTS g1, g2
=============================================================================
