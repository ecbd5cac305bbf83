\* Three events, pages of one or two, a result window of three.
CONSTANTS
    Events <- ThreeEvents
    Times <- ThreeEvents
    DefaultLimit = 1
    MaxLimit = 2
    Window = 3

SPECIFICATION Spec
INVARIANTS
    TypeOK
    NothingMissed
\* All events are stored and the reader is done.
CHECK_DEADLOCK FALSE
