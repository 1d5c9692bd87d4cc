\* One process that may restart; a hook that connects twice.
SPECIFICATION ResumeSpec
CONSTANTS
    p1 = p1
    p2 = p2
    s1 = s1
    s2 = s2
    k1 = k1
    ca = ca
    None = None
    Procs = {p1}
    Channels = {ca}
    CatchupChannels = {ca}
    SSEConns = {s1, s2}
    WSConns = {}
    SSEQueueMax = 2
    MaxChannels = 1
    ReadCount = 2
    Incidents = {"crash", "trim", "publish_error"}
    MaxEvents = 3
    MaxBoots = 2
    Clients = {k1}
    channelOf <- MCChannelOf
    ScanLimit = 3
    ClientIncidents = {"refetch_error"}
INVARIANTS
    ResumeComplete
PROPERTIES
    RestartRefetched
CHECK_DEADLOCK FALSE
