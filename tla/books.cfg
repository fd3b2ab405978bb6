SPECIFICATION GroupSpec
CONSTANTS
    p1 = p1  o1 = o1  o2 = o2  o3 = o3  o4 = o4  g1 = g1  g2 = g2
    none = none
    Products <- MCProducts
    Orders <- MCFourOrders
    CodOrders = {o3, o4}
    Groups = {"cash", "giveUp", "race", "reviews", "payments", "reports"}
    Items <- MCItems
    InitialStock <- MCInitialStock
    GatewayOrders = {g1, g2}
    NoGatewayOrder = none
    Workers = {"w1", "w2"}
    Handlers = {"checkout", "initiate", "verify", "captured", "sweep", "failPayment", "cancel", "assign", "deliver"}
    Amount = 2
    Prompt = TRUE
    Authors = {"u1", "u2"}
    ReviewIds = {"v1", "v2"}
    ReviewRequests = {"q1", "q2"}
    Payments = {"p1", "p2"}
    MaxTries = 2
    MaxRows = 1
    Purchases = {"b1", "b2"}
    Shoppers = {"u1", "u2"}
    Horizon = 1
    MaxBuckets = 2
    TopLimit = 1
    Windows <- MCWindows
    Zones = {0, 1}
CHECK_DEADLOCK FALSE
INVARIANTS CountersMatchOrders ReviewsHold ReconciliationHolds ReportsAddUp
PROPERTIES KeepsStockPromise
