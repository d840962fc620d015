CONSTANTS
    m1 = m1
    m2 = m2
    none = none
    Msgs = {m1}
    NoMsg = none
    Events = {"ratchetGap"}
    Outcomes = {"ack"}
    MaxReceipts = 1
    MaxEnvelopes = 1
    MaxSessions = 1
    MaxEvents = 1
    MaxFailures = 1
    MaxAttempts = 2
SPECIFICATION Spec
INVARIANTS
    DeliveredIsDecided
CHECK_DEADLOCK FALSE
