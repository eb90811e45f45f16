CONSTANTS
    p1 = p1
    p2 = p2
    a1 = a1
    a2 = a2
    c1 = c1
    r1 = r1
    NoOrder = NoOrder
    Products <- OneProduct
    Seeded <- OneProduct
    Prices <- TwoPrices
    Stocks <- SomeStock
    Orders <- None
    Units <- NoUnits
    Admins <- TwoAdmins
    Consumers <- None
    MaxEvents = 2
    MaxFaults = 0
SPECIFICATION Spec
PROPERTIES
    PriceChangesAreSaved
CHECK_DEADLOCK FALSE
