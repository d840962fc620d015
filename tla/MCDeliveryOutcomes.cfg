CONSTANTS
    m1 = m1
    m2 = m2
    none = none
    Msgs = {m1}
    NoMsg = none
    Events = {"senderStops", "peerStops", "noResponse", "noBundle", "redelivery", "restore"}
    Outcomes = {"ack", "refuse", "ignore", "defer", "fail", "permanent"}
    MaxReceipts = 2
    MaxEnvelopes = 2
    MaxSessions = 2
    MaxEvents = 2
    MaxFailures = 2
    MaxAttempts = 2
SPECIFICATION Spec
INVARIANTS
    TypeOK
    OutboxHoldsUndelivered
    DeliveredIsDecided
    HandledOnce
PROPERTIES
    KeepsPromise
    AckedIsDurable
CHECK_DEADLOCK FALSE
