CONSTANTS
    e1 = e1
    e2 = e2
    w1 = w1
    w2 = w2
    Callers <- MCCallers
    Waiting <- MCWaiting
    MaxAborts = 2
SPECIFICATION Spec
INVARIANTS
    OneFlush
    NoLostRequest
    NoLostWakeup
PROPERTIES
    WorkIsRead
    SleeperWakes
