\* A manual and a scheduled run, the worker of their queue and another one.
SPECIFICATION FairSpec
CONSTANTS
    m1 = m1
    s1 = s1
    main = main
    social = social
    None = None
    Manual = {m1}
    Scheduled = {s1}
    Main = main
    Others = {social}
    MaxIncidents = 1
INVARIANTS
    HeldWhileIngesting
PROPERTIES
    CanceledStays
    RowsSettle
CHECK_DEADLOCK FALSE
