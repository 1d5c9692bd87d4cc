\* One process that crashes and restarts, with reliable reads.
SPECIFICATION LiveSpec
CONSTANTS
    p1 = p1
    p2 = p2
    s1 = s1
    s2 = s2
    w1 = w1
    w2 = w2
    ca = ca
    cb = cb
    None = None
    Procs = {p1}
    Channels = {ca}
    CatchupChannels = {ca}
    SSEConns = {s1}
    WSConns = {w1}
    SSEQueueMax = 1
    MaxChannels = 1
    ReadCount = 2
    ScanLimit = 2
    Incidents = {"send_error","crash","trim"}
    MaxEvents = 2
    MaxBoots = 3
INVARIANTS
    NoGapWhileSubscribed
PROPERTIES
    SubscriberServed
    FirstSubscriberCaughtUp
    EveryProcessReadsTheLog
CHECK_DEADLOCK FALSE
