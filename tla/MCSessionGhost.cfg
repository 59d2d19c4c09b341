\* A failed forward call, and what the next prompt is then read on top of.
CONSTANTS
    a = a
    b = b
    stop = stop
    Embed = Embed
    MaxLen = 3
    Tokens <- MCTokens
    Eog = {stop}
    Prompts <- MCPrompts
    NCtx = 5
    Headroom = 1
    MaxBatch = 2
    MaxTokens = {2}
    CanFail = TRUE
SPECIFICATION Spec
INVARIANTS
    PrefillOnPrompt
