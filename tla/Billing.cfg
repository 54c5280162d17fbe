CONSTANTS
    None = None
    r1 = r1
    r2 = r2
    r3 = r3
    s1 = s1
    s2 = s2
    Requests <- MCRequests
    Keyed <- MCKeyed
    Series <- MCSeries
    SeriesOf <- MCSeriesOf
    Clients = {c1, c2}
    MaxSends = 2
CHECK_DEADLOCK FALSE
SPECIFICATION FairSpec
INVARIANTS
    TypeOK
    Gapless
    OneAnswerPerKey
PROPERTIES
    RegisterSpec
    EveryRequestEnds
