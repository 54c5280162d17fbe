CONSTANTS
    None = None
    Branches = {b1, b2}
    Devices = {d1}
    Clients = {c1, c2}
    MaxTransfers = 2
    MaxSales = 0
    Opening = 1
    MaxQuantity = 1
SYMMETRY MCSymmetry
CHECK_DEADLOCK FALSE
SPECIFICATION Spec
INVARIANTS
    TypeOK
    InTransitOnOneTransfer
    LedgerTellsTheTransfer
PROPERTY TransferLifecycle
