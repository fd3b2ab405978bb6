SPECIFICATION FairGroupSpec
CONSTANTS
    p1 = p1  o1 = o1  o2 = o2  g1 = g1  g2 = g2
    none = none
    Products <- MCProducts
    Orders <- MCOneOrder
    CodOrders = {}
    Items <- MCItems
    InitialStock <- MCInitialStock
    GatewayOrders = {g1, g2}
    NoGatewayOrder = none
    w1 = "w1"
    Groups = {"race", "restock", "serial"}
    Workers = {"w1", "w2"}
    Handlers = {"checkout", "initiate", "verify", "badSignature", "captured", "failed", "refund", "failPayment", "cancel", "sweep", "adminStatus","transition", "assign", "deliver"}
    Amount = 2
    Prompt = FALSE
CHECK_DEADLOCK FALSE
INVARIANTS MoneyIsBacked
PROPERTIES CreditedOncePerLook MoneyIsRecorded HoldsAreReleased
