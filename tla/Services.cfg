CONSTANTS
    e1 = e1
    e2 = e2
    w1 = w1
    w2 = w2
    u1 = u1
    u2 = u2
    k1 = k1
    k2 = k2
    k3 = k3
    p1 = p1
    s1 = s1
    s2 = s2
    s3 = s3
    s4 = s4
    n1 = n1
    n2 = n2
    n3 = n3
    Events <- TwoEvents
    Calls <- FirstEvent
    Workers <- TwoWorkers
    Users <- TwoUsers
    Cards <- TwoCards
    Checkouts <- FourCheckouts
    Orders <- TwoOrders
    Connections <- ThreeConnections
    UserOf <- TwoTabs
    Posts <- OnePost
    Subscriptions <- FourSubscriptions
    Unsendable <- OneUnsendable
    WrongToken <- OneWrongToken
    Names <- ThreeNames
    Number <- OneNumber
    Prices <- TwoPrices
    Units <- OneOrTwo
    MaxDeliveryCount = 3
    MaxMessages = 1
    MaxRestarts = 2
    MaxFailures = 1
    MaxLosses = 1
    MaxErrors = 2
    MaxStatus = 3
    MaxNotices = 3
    MaxTimeouts = 2
    MaxEvents = 1
    MaxItems = 3
SPECIFICATION ServicesSpec
INVARIANTS
    ServicesTypeOK
    RepeatsAreCaused
    CardsPerHandler
    KeptHooksAreListed
    OrderIsItsBasket
PROPERTIES
    DeliveryPromise
    MessagesSettle
    CheckoutsSettle
    DueIsConfirmed
    DoneReachesAll
    PageCatchesUp
    KeepsChannel
    StartSettles
    HooksArrive
CHECK_DEADLOCK FALSE
