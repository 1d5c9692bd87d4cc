\* Three entries, two of three golfers count, any leaderboard.
SPECIFICATION Spec
CONSTANTS
    g1 = g1
    g2 = g2
    g3 = g3
    g4 = g4
    None = None
    Golfers = {g1, g2, g3, g4}
    Entries = {1, 2, 3}
    Rules <- MCRules
    Buckets <- MCBuckets
    Submitted <- MCSubmitted
    Statuses = {"active", "cut"}
    Totals <- MCTotals
INVARIANTS
    BestScoresCount
    RanksFair
PROPERTIES
    OutStaysOut
