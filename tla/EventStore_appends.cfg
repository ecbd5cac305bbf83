\* Three concurrent calls that may carry the same id, on one stream or two.
CONSTANTS
    Calls = {c1, c2, c3}
    i2 = i2
    s1 = s1
    Ids = {i1, i2}
    Tenants = {t1}
    Streams = {s1, s2}
    Requests <- MCRequests
    NoEvent = NoEvent
SPECIFICATION FairSpec
INVARIANTS
    TypeOK
    VersionsContiguous
    RetryOfStoredSucceeds
    ContentionHasAWinner
    
PROPERTIES
    NewRowExtendsStream
    StatementAdvances
    ImplementsEventLog
    EveryStatementEnds
\* Every call ends; the model makes no others.
CHECK_DEADLOCK FALSE
