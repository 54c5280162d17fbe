CONSTANTS
    None = None
    Branches = {b1}
    LastDay = 3
    Clients = {c1, c2}
    Amounts <- MCAmounts
    Counts = {3}
    MaxClosings = 2
    MaxExpenses = 0
    MaxPosts = 1
    Ops = {"post", "opening", "close", "reopen"}
CHECK_DEADLOCK FALSE
SPECIFICATION Spec
INVARIANTS
    TypeOK
    OneLiveClosing
    SealedIffSigned
    OpeningIsACount
PROPERTY ClosingNeverRewritten
