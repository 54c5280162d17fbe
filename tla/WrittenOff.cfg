CONSTANTS
    None = None
    WalkIn = WalkIn
    Bills = {1, 2}
    Total <- MCTotal
    Pieces <- MCPieces
    Customers = {k}
    TradeIns = {t1}
    Value <- MCValue
    Receipts = {p1, p2}
    CounterPayments = {0, 1}
    Collections = {1, 2}
    Deductions = {0, 1}
    Plans <- MCPlans
    Clients = {c1, c2}
SYMMETRY MCSymmetry
CHECK_DEADLOCK FALSE
SPECIFICATION Spec
INVARIANTS
    OnlyKeptGoodsAreOwed
