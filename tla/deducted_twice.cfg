SPECIFICATION GroupSpec
CONSTANTS
    p1 = p1  o1 = o1  o2 = o2  g1 = g1  g2 = g2
    none = none
    Products <- MCProducts
    Orders <- MCOrders
    CodOrders = {}
    Items <- MCItems
    InitialStock <- MCInitialStock
    GatewayOrders = {g1}
    NoGatewayOrder = none
    w1 = "w1"
    Groups = {"free"}
    Workers = {"w1", "w2"}
    Handlers = {"checkout", "initiate", "verify", "captured", "refund"}
    Amount = 2
    Prompt = FALSE
CHECK_DEADLOCK FALSE
INVARIANTS NoSecondDeduction
