SPECIFICATION Spec
CONSTANTS
    None = None
    o1 = o1
    o2 = o2
    p = p
    q = q
    x = x
    y = y
    c1 = c1
    c2 = c2
    Calls = {c1, c2}
    Owners = {o1, o2}
    Addresses = {x, y}
    MAX_ENTRIES = 1
    MaxSlot = 3
    MaxAddresses = 1
    MaxTables = 2
    Requests <- RequestsDef
    Limit = 3
INVARIANTS LandsAsWritten
PROPERTIES NeverReactivated MovedUpOverMissing
SYMMETRY Symmetry
CHECK_DEADLOCK FALSE
