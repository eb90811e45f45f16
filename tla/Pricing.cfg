CONSTANTS
    p1 = p1
    a1 = a1
    u1 = u1
    i1 = i1
    i2 = i2
    r1 = r1
    NoOrder = NoOrder
    NoUser = NoUser
    NoProduct = NoProduct
    NoId = NoId
    Products <- OneProduct
    Seeded <- OneProduct
    Prices <- FinePrices
    Stocks <- NoStock
    Orders <- None
    Units <- NoUnits
    Admins <- OneAdmin
    Consumers <- None
    Users <- OneUser
    Ids <- TwoLines
    LineIds <- TwoLines
    Requests <- OneRequest
    MaxEvents = 2
    MaxFaults = 0
    MaxFailures = 1
    Writers = {w1, w2}
    Forms = {f1, f2}
    MaxAttempts = 2
SPECIFICATION BasketsSpec
INVARIANTS
    PricingTypeOK
    PricesAgree
    PricesAreGenuine
    NothingVanishes
    OrderedOnce
CHECK_DEADLOCK FALSE
