CONSTANTS
    p1 = p1
    p2 = p2
    a1 = a1
    a2 = a2
    c1 = c1
    r1 = r1
    NoOrder = NoOrder
    Products <- BothProducts
    Seeded <- OneProduct
    Prices <- FinePrices
    Stocks <- SomeStock
    Orders <- OneOrder
    Units <- BothItems
    Admins <- OneAdmin
    Consumers <- OneConsumer
    MaxEvents = 2
    MaxFaults = 2
SPECIFICATION Spec
INVARIANTS
    TypeOK
    EventsChain
    StockAllOrNothing
PROPERTIES
    OutboxPromise
CHECK_DEADLOCK FALSE
