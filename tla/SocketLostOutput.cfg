SPECIFICATION Spec
CONSTANTS
    Word = 16
    MinReserve = 4
    Unset = Unset
    None = None
    Sockets = {s1}
    Handles <- TwoHandles
    ChannelCapacity = 1
    SlotCapacity = 1
    MaxAttempts = 2
    MaxIds = 3
    MaxPending = 1
    EarlySend = TRUE
    Failures <- OneFailure
INVARIANT
    PendingIsWatched
\* the bounds on the ids may leave nothing to do
CHECK_DEADLOCK FALSE
