\* One event whose first delivery meets a database error.
SPECIFICATION Spec
CONSTANTS
    k1 = k1
    k2 = k2
    w1 = w1
    w2 = w2
    KnownContacts = {k1}
    None = None
    Workers = {w1, w2}
    Claims = {k1}
    Plans = {"pro"}
    Slugs = {"club"}
    SlugOf <- SameSlug
    MaxRetries = 1
    EventTypes = {"checkout.session.completed"}
    Reported = {"active"}
    Incidents = {"db_error"}
    MaxEvents = 1
    MaxDeliveries = 1
    MaxIncidents = 1
SYMMETRY Symmetry
INVARIANTS
    RetryApplies
CHECK_DEADLOCK FALSE
