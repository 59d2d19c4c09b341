\* Both threads may leave, and the engine thread may panic; threads are scheduled fairly.
CONSTANTS
    window = window
    watcher = watcher
    UiThread = window
    MaxSteps = 2
    MaxTurns = 2
    MaxConvs = 2
    MaxLoads = 2
    MaxTokens = 1
    MaxCalls = 2
    Exiters = {window, watcher}
    EnginePanics = TRUE
SPECIFICATION FairSpec
INVARIANTS
    LoadFlagTruth
    ShutdownIsFinal
    WipedStaysWiped
    RoundsEnd
PROPERTIES
    ShutdownReturns
    TurnsEnd
\* The process ends.
CHECK_DEADLOCK FALSE
