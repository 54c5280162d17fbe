CONSTANTS
    None = None
    Jobs = {j1}
    NumRows = 3
    Mappings = {"whole", "partial"}
    Readable <- MCReadable
    Refused = {3}
    Unique = {2}
    Calls = {c1, c2, c3}
    MaxChecks = 2
SYMMETRY MCSymmetry
CHECK_DEADLOCK FALSE
SPECIFICATION Spec
INVARIANTS
    TypeOK
    OnlyALateCheckReopens
    EveryRowAccounted
