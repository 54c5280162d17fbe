CONSTANTS
    None = None
    Shelves = {x1}
    Minimum = 0
    MaxQuantity = 1
    Bills = {s1}
    Total <- MCTotal
    AtCounter <- MCAtCounter
    Evaluators = {worker, button}
    Worker = worker
    Switched = {"LOW_STOCK"}
    MaxFailures = 1
    MaxRows = 5
SPECIFICATION FairSpec
INVARIANTS
    TypeOK
    OncePerEvaluation
PROPERTIES
    LastingIsShown
    ClearedIsClosed
