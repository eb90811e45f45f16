CONSTANTS
    o1 = o1
    o2 = o2
    b1 = b1
    b2 = b2
    h1 = h1
    h2 = h2
    c1 = c1
    c2 = c2
    x1 = x1
    s1 = s1
    NoOrder = NoOrder
    NoRequest = NoRequest
    Orders <- OneOrder
    BusWorkers <- RabbitMQ
    HttpWorkers <- NoClient
    CreateRequests <- Checkout
    CancelRequests <- Cancellation
    ShipRequests <- Shipping
    MaxFaults = 3
    MaxCancelled = 1
SPECIFICATION Spec
INVARIANTS
    AnnouncedOnce
    OutboxAgreesWithBus
