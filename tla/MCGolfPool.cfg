\* One pool, with a limit, 0 or none; two requests, an administrator, two passes.
SPECIFICATION FairSpec
CONSTANTS
    r1 = r1
    r2 = r2
    a1 = a1
    s1 = s1
    s2 = s2
    m1 = m1
    None = None
    Never = Never
    Requests = {r1, r2}
    Admins = {a1}
    Scorers = {s1}
    Rescorers = {s2}
    Emails = {m1}
    Created <- NewPools
    Limits = {None, 0, 1}
    DefaultMax = 1
    UploadRows = 2
    MaxIds = 2
    MaxClock = 1
    MaxRounds = 1
    MaxFaults = 1
INVARIANTS
    GolfTypeOK
    EntriesPerEmailBounded
PROPERTIES
    FinalStays
    ScoringStarts
    BoardCatchesUp
CHECK_DEADLOCK FALSE
