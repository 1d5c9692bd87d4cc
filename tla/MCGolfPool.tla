----------------------------- MODULE MCGolfPool -----------------------------
(* Instances of GolfPool for TLC.                                           *)
EXTENDS GolfPool

CONSTANTS r1, r2, a1, s1, s2, m1

Row(status, deadline, limit) ==
    [status |-> status, deadline |-> deadline, starts |-> 1, scoring |-> FALSE, limit |-> limit]

NewPools == {Row("draft", Never, None), Row("locked", 1, 1)}
=============================================================================
