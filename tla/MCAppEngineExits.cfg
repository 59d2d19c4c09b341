\* The window is closed and a signal arrives.
CONSTANTS
    window = window
    watcher = watcher
    UiThread = window
    MaxSteps = 2
    MaxTurns = 2
    MaxConvs = 2
    MaxLoads = 2
    MaxTokens = 1
    MaxCalls = 2
    Exiters = {window, watcher}
    EnginePanics = FALSE
SPECIFICATION Spec
INVARIANTS
    ExitIsWiped
\* The process ends.
CHECK_DEADLOCK FALSE
