\* Two concurrent requests, on one stream or two; up to four deliveries on a
\* stream, so that a batch of both can be delivered twice; two crashes.
CONSTANTS
    Requests = {r1, r2}
    Tenants = {t1}
    Streams = {s1, s2}
    NoEvent = NoEvent
    MaxDeliveries = 4
    MaxCrashes = 2

SPECIFICATION FairSpec
INVARIANTS
    TypeOK
    PublishedIsStored
    CreatedIsDurable
    UnpublishedIsExplained
    WaitingIsHeld
PROPERTIES
    EveryRequestEnds
\* Every request is settled in the end; the model sends no others.
CHECK_DEADLOCK FALSE
