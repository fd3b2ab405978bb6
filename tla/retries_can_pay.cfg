SPECIFICATION Spec
CONSTANTS
    u1 = u1  g1 = g1  k1 = k1  k2 = k2  k3 = k3  k4 = k4  p1 = p1  p2 = p2  none = none
    Parts = {"orders"}
    Customers = {u1}
    Accounts = {u1}
    Guests = {g1}
    Pages = {k1, k2, k3, k4}
    CustomerOf <- MCCustomerOf
    ItemsOf <- MCItemsOf
    CartOf <- MCCartOf
    CashPages = {k2, k3, k4}
    CouponPages = {k3, k4}
    Requests = {"r1", "r2"}
    CartRequests = {"c1", "c2"}
    Products = {p1}
    InitialShelf <- MCShelf
    LineCap = 2
    Limits = {1, 2}
    UserLimits = {1, 2}
    MaxAddresses = 4
    AddressRequests = {"a1"}
    Goods = {p1, p2}
    Prices = {33, 24950, 49899}
    MaxUnits = 2
    Coupons <- MCCoupons
    Cats = {"k1", "k2", "k3"}
    Wares = {"w1"}
    Editors = {"x1", "x2"}
    Views = {"productList", "productDetail"}
    Ttl <- MCTtl
    Visitors = {"v1", "v2"}
    Desks = {"k1", "k2"}
    MaxChanges = 3
    Keys = {"o1", "o2"}
    Shoppers = {"s1"}
    PromoRequests = {"e1", "e2"}
    MaxRemovals = 1
    Clerks = {"y1", "y2"}
    Processes = {"n1", "n2"}
    Consoles = {"c1"}
    Changes = {"x1", "x2"}
    MaxCalls = 2
    MaxLine = 2
    QuotedFrom = 2
    Operators = {"u1", "u2"}
    ConsoleCalls = {"c1", "c2", "c3"}
    MaxToken = 2
    Nobody = "nobody"
    NoReading = "none"
CHECK_DEADLOCK FALSE
PROPERTIES RetriesCanPay
