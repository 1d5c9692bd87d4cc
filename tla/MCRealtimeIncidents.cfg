\* One process that restarts, two channels, a limit of one, and everything that may go wrong.
SPECIFICATION Spec
CONSTANTS
    p1 = p1
    p2 = p2
    s1 = s1
    s2 = s2
    w1 = w1
    w2 = w2
    ca = ca
    cb = cb
    None = None
    Procs = {p1}
    Channels = {ca, cb}
    CatchupChannels = {ca}
    SSEConns = {s1}
    WSConns = {w1}
    SSEQueueMax = 1
    MaxChannels = 1
    ReadCount = 2
    ScanLimit = 2
    Incidents = {"crash", "publish_error", "lost_reply", "reused_group", "send_error",
                 "catchup_error", "late_reader", "trim", "ws_replay"}
    MaxEvents = 1
    MaxBoots = 2
INVARIANTS
    RegistryConsistent
    InStreamOrder
    ReplayLeavesNoGap
CHECK_DEADLOCK FALSE
