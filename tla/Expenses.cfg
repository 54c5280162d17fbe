CONSTANTS
    None = None
    Branches = {b1}
    LastDay = 2
    Clients = {c1, c2}
    Amounts <- MCAmounts
    Counts = {3}
    MaxClosings = 1
    MaxExpenses = 2
    MaxPosts = 0
    Ops = {"expense", "voidExpense", "close", "reopen"}
CHECK_DEADLOCK FALSE
SPECIFICATION Spec
INVARIANT VoidedExpenseNetsToZero
