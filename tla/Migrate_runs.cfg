\* Three runs that overlap or follow each other; three files.
CONSTANTS
    Runs <- ThreeRuns
    Last = 3

SPECIFICATION FairSpec
INVARIANTS
    TypeOK
    ExecutedOnce
    AppliedInOrder
PROPERTIES
    ImplementsSchema
    EveryRunEnds
\* Every run has ended.
CHECK_DEADLOCK FALSE
