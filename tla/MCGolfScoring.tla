---------------------------- MODULE MCGolfScoring ----------------------------
(* Instances of GolfScoring for TLC.                                        *)
EXTENDS GolfScoring

CONSTANTS g1, g2, g3, g4

Flat == [pick_count |-> 3, count_best |-> 2, min_cuts_to_qualify |-> 2, uses_buckets |-> FALSE]
Bucketed == [Flat EXCEPT !.uses_buckets = TRUE]
MCRules == {Flat, Bucketed}
MCBuckets == <<{g1, g2}, {g2, g3}, {g3, g4}>>
P(g, b) == [golfer |-> g, bucket |-> b]
L1 == <<P(g1, 1), P(g2, 2), P(g3, 3)>>
L2 == <<P(g1, 1), P(g2, 2), P(g4, 3)>>
L3 == <<P(g4, 3), P(g3, 2), P(g2, 2)>>  \* a bucket twice
L4 == <<P(g1, 1), P(g3, 2), P(g3, 3)>>  \* a golfer twice
L5 == <<P(g2, 2), P(g3, 3)>>            \* too short
MCSubmitted == {<<L1, L2, L3>>, <<L1, L2, L2>>, <<L1, L2, L4>>, <<L1, L2, L5>>}
MCTotals == {-1, 0, 2}
=============================================================================
