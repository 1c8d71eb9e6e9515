\* Two items of one id each, a pipe of two bytes, a timer of 2 or 3 ticks,
\* two ticks to the millisecond, rounds of at most one tick.
CONSTANTS
    a = a  b = b
    Items <- TwoItems
    Ids <- TwoIds
    Owner <- OneEach
    Polls <- BothPolls
    Periods <- TwoPeriods
    TicksPerMs = 2
    PipeSize = 2
    MaxRound = 1
    MaxLate = 3
    MaxSyncs = 1
SPECIFICATION LoopSpec
INVARIANTS
    LoopConsistent
    TimerKeepsPhase
PROPERTIES
    TimerToldOnce
    EverythingIsReported
