\* Two claims of one slug, every kind of event and every incident.
SPECIFICATION Spec
CONSTANTS
    k1 = k1
    k2 = k2
    w1 = w1
    w2 = w2
    KnownContacts = {k1}
    None = None
    Workers = {w1, w2}
    Claims = {k1, k2}
    Plans = {"pro"}
    Slugs = {"club"}
    SlugOf <- SameSlug
    MaxRetries = 1
    EventTypes = {"checkout.session.completed", "customer.subscription.updated", "customer.subscription.deleted", "invoice.payment_failed"}
    Reported = {"active"}
    Incidents = {"db_error", "commit_fails", "broker_down", "redelivery", "worker_lost", "record_fails"}
    MaxEvents = 2
    MaxDeliveries = 3
    MaxIncidents = 3
SYMMETRY Symmetry
INVARIANTS
    AppliedOnce
    ClaimedOnce
    
    PaymentShows
    ClubsPaidFor
PROPERTIES
    ClaimedStays
CHECK_DEADLOCK FALSE
