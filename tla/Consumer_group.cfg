\* Two instances that share a partition, faults of every kind, messages of
\* which some do not decode.
CONSTANTS
    Instances = {c1, c2}
    Events = {e1}
    Poison = Poison
    None = None
    MaxMessages = 3
    Outages = TRUE
    MaxFaults = 2

SPECIFICATION FairSpec
INVARIANTS
    TypeOK
    NothingUnseen
    OwnerLeavesNothing
PROPERTIES
    EveryOffsetPassed
\* The partition is full and every instance waits or is restarted in vain.
CHECK_DEADLOCK FALSE
