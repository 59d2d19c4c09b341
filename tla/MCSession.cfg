\* Prompts up to 4 positions in batches of 2 over a context of 6, so prompts
\* are refused for length, chunks split runs, and the budget meets the end of
\* the context.
CONSTANTS
    a = a
    b = b
    stop = stop
    Embed = Embed
    MaxLen = 4
    Tokens <- MCTokens
    Eog = {stop}
    Prompts <- MCPrompts
    NCtx = 6
    Headroom = 1
    MaxBatch = 2
    MaxTokens = {0, 2, 5}
    CanFail = FALSE
SPECIFICATION Spec
INVARIANTS
    CachedIsResident
    PrefillOnPrompt
    SamplesOwnContext
    CallsFit
PROPERTIES
    ImplementsConversation
