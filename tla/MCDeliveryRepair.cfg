CONSTANTS
    m1 = m1
    m2 = m2
    none = none
    Msgs = {m1}
    NoMsg = none
    Events = {"restore", "noResponse", "peerStops", "redelivery", "ratchetGap", "sendAgain", "peerWrites"}
    Outcomes = {"ack", "fail", "ignore"}
    MaxReceipts = 3
    MaxEnvelopes = 2
    MaxSessions = 5
    MaxEvents = 1
    MaxFailures = 3
    MaxAttempts = 2
SPECIFICATION FairSpec
PROPERTIES
    EveryMessageIsSettled
    ParkedIsReleased
CHECK_DEADLOCK FALSE
