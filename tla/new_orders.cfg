SPECIFICATION PlacingSpec
CONSTANTS
    Processes = {"n1"}
    Consoles = {"c1"}
    Changes = {"x1"}
CHECK_DEADLOCK FALSE
INVARIANTS NewOrderAppears
