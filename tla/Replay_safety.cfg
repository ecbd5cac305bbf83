\* Two events of two tenants and two replays of up to two, and a crash.
CONSTANTS
    Originals = {o1, o2}
    Batches = {b1, b2}
    MaxLimit = 2
    Tenants = {t1, t2}
    Streams = {s1}
    AnyStream = AnyStream
    NoEvent = NoEvent
    MaxCrashes = 1
SYMMETRY Symmetry
SPECIFICATION Spec
INVARIANTS
    TypeOK
    CopiesArePrefix
    CopyFollowsSource
    PublishedBatchIsStored
PROPERTIES
    NothingCutOff
\* All requests are answered in the end; the model sends no others.
CHECK_DEADLOCK FALSE
