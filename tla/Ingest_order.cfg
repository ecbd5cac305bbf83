\* Two concurrent requests on one stream; nothing fails.
CONSTANTS
    Requests = {r1, r2}
    Tenants = {t1}
    Streams = {s1}
    NoEvent = NoEvent
    MaxDeliveries = 2
    MaxCrashes = 0
SYMMETRY Symmetry
SPECIFICATION Spec
INVARIANT
    DeliveredInOrder
CHECK_DEADLOCK FALSE
