SPECIFICATION BillingFairSpec
CONSTANTS
    Request = {r1, r2}
    SessionId = {s1}
    Model = {m1}
    NoModel = NoModel
    DefaultModel = m1
    MaxMessages = 2
    MaxRestarts = 1
    Faults = {"database", "restart"}
    MaxRetries = 1
INVARIANTS
    BillingTypeOK
    LastAttemptDecides
    SilenceWasRetried
    BilledHasQuestion
PROPERTIES
    ServiceStaysFair
    EveryCallAnswered
