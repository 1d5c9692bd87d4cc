-------------------------- MODULE MCRealtimeResume --------------------------
(* Instances of RealtimeResume for TLC: one hook, a few connections.        *)
EXTENDS RealtimeResume, TLC

CONSTANTS p1, p2, s1, s2, k1, ca

MCChannelOf == k1 :> ca
=============================================================================
