--------------------------- MODULE MCGameLifecycle ---------------------------
(* Instances of GameLifecycle for TLC.                                      *)
EXTENDS GameLifecycle

CONSTANTS u1, p1, f1, t1
=============================================================================
