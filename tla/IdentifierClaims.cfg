CONSTANTS
    None = None
    Devices = {d1, d2}
    Numbers = {n1, n2}
    Purchases = {p1, p2}
    Clients = {c1, c2}
SYMMETRY MCSymmetry
CHECK_DEADLOCK FALSE
SPECIFICATION Spec
INVARIANTS
    TypeOK
    ClaimsAreInTheShop
    StaysClaimed
PROPERTY RegistrySpec
