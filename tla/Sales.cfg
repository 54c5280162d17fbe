CONSTANTS
    None = None
    Branches = {b1, b2}
    Devices = {d1, d2}
    Clients = {c1, c2}
    MaxTransfers = 1
    MaxSales = 2
    Opening = 0
    MaxQuantity = 0
SYMMETRY MCSymmetry
CHECK_DEADLOCK FALSE
SPECIFICATION Spec
INVARIANT SoldOnOneBill
