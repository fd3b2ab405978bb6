SPECIFICATION MCSpec
CONSTANTS
    p1 = p1  o1 = o1  o2 = o2  m1 = m1  m2 = m2  m3 = m3  k1 = k1  none = none
    Parts = {"ledger", "mail", "backups"}
    Products = {p1}
    Orders = {o1, o2}
    Items <- MCItems
    InitialStock <- MCInitialStock
    Quantity = {1, 2}
    Thresholds = {1, 10}
    MaxQuantity = 3
    MaxUnits = 3
    MaxRestockers = 1
    Desks = {"settings", "catalogue"}
    Messages = {m1, m2, m3}
    KeyOf <- MCKeyOf
    NoKey = none
    Workers = {"w1", "w2"}
    MaxAttempts = 2
    BatchSize = 2
    MaxFaults = 1
    Nightly = {1, 2, 3}
    Retentions = {0, 1}
    LastNight = 3
INVARIANTS NoUnitLost OneHandOneRow RepeatsNeedFaults BackupRemains
PROPERTIES MovesAreShown EndedStaysEnded EveryMessageEnds
