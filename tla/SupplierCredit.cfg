CONSTANTS
    None = None
    Purchases = {1, 2}
    Suppliers = {"one", "other"}
    SupplierOf <- MCSupplierOf
    Total <- MCTotal
    Pieces <- MCPieces
    Payments = {m1, m2}
    Amounts = {1, 2}
    Clients = {c1, c2, c3}
    MaxSold = 2
SYMMETRY MCSymmetry
CHECK_DEADLOCK FALSE
SPECIFICATION Spec
INVARIANTS
    TypeOK
    NeverOverpaid
    RowsAddUp
    NoCircle
PROPERTY ReversedIsFinal
