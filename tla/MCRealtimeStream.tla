-------------------------- MODULE MCRealtimeStream --------------------------
(* Instances of RealtimeStream for TLC: processes, SSE and WebSocket        *)
(* connections and channels are model values.                               *)
EXTENDS RealtimeStream, TLC

CONSTANTS p1, p2, s1, s2, w1, w2, ca, cb
=============================================================================
