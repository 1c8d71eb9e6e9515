SPECIFICATION Spec
CONSTANTS
    Word = 16
    MinReserve = 4
    Unset = Unset
    None = None
    Sockets = {s1, s2}
    Handles <- TwoHandles
    ChannelCapacity = 1
    SlotCapacity = 1
    MaxAttempts = 2
    MaxIds = 3
    MaxPending = 2
    EarlySend = FALSE
    Failures <- OneFailure
SYMMETRY Symmetry
INVARIANTS
    TablesConsistent
    JoinMeansConnected
    PendingIsWatched
PROPERTIES
    IdsAreForLife
\* the bounds on the ids may leave nothing to do
CHECK_DEADLOCK FALSE
