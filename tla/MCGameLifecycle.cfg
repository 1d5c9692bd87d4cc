\* The updater, a poller or repair, a feed and the trigger, on one game.
SPECIFICATION FairSpec
CONSTANTS
    u1 = u1
    p1 = p1
    f1 = f1
    t1 = t1
    None = None
    Updaters = {u1}
    Pollers = {p1}
    Feeds = {f1}
    Repairs = {p1}
    Trigger = t1
    FeedStatuses = {"scheduled", "live", "final", "postponed", "cancelled"}
    MaxReads = 1
    MaxFaults = 1
INVARIANTS
    GameTypeOK
PROPERTIES
    FinalHolds
    GameEnds
    PhantomsGo
CHECK_DEADLOCK FALSE
