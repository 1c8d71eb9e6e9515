SPECIFICATION Spec
CONSTANTS
    Word = 32
    MinReserve = 4
    Unset = Unset
    MaxCapacity = 16
    InitialShapes <- MCInitialShapes
INVARIANTS
    QueueConsistent
PROPERTIES
    IsIndexedFifo
\* an aborted program takes no further step
CHECK_DEADLOCK FALSE
