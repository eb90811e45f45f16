CONSTANTS
    e1 = e1
    e2 = e2
    k1 = k1
    k2 = k2
    Events <- TwoEvents
    Calls <- TwoCalls
    Sessions <- TwoSessions
    MaxMessages = 2
    MaxFaults = 1
SPECIFICATION Spec
INVARIANTS
    TypeOK
    FirstCallIsHeard
    OnceWithoutFaults
    NotDeafByItself
PROPERTIES
    DeliveryPromise
    QueueDrains
CHECK_DEADLOCK FALSE
