\* One game, every kind of write, failures.
SPECIFICATION Spec
CONSTANTS
    g1 = g1
    g2 = g2
    None = None
    Games = {g1}
    Writes = {"score", "plays", "odds", "flow"}
    Statuses = {"live"}
    PbpBatchMax = 2
    CacheMax = 1
    Incidents = {"listen_lost", "query_error", "publish_error"}
    MaxWrites = 2
    MaxSubscriptions = 2
INVARIANTS
    NoPlaySkipped
    PlaysAnnounced
    NotifiedRowServed
CHECK_DEADLOCK FALSE
