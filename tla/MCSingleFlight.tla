--------------------------- MODULE MCSingleFlight ---------------------------
(* Three tasks on two keys: a leader, followers and a later caller.         *)
EXTENDS SingleFlight, TLC

CONSTANTS c1, c2, c3, k1, k2
=============================================================================
