\* Any forward call may fail.  Smaller prompts: a failed turn can leave any
\* mismatch between the session and its backend for the next ones to meet.
CONSTANTS
    a = a
    b = b
    stop = stop
    Embed = Embed
    MaxLen = 3
    Tokens <- MCTokens
    Eog = {stop}
    Prompts <- MCPrompts
    NCtx = 5
    Headroom = 1
    MaxBatch = 2
    MaxTokens = {2}
    CanFail = TRUE
SPECIFICATION FairSpec
INVARIANTS
    FreshTurnExact
PROPERTIES
    CallReturns
