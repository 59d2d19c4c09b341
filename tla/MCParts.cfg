SPECIFICATION AllSpec
CONSTANTS
    Parts = {"mirror", "device", "workgroup", "upload", "shape", "text", "none"}
    Models <- Plain
    Files <- Tensors
    N = 8
    RowLanes = 4
    Rounds = 2
    Target = 16
    Align = 4
    Chunk = 5
    Sample = 2
    DeviceCtx = 4
    DeviceBatch = 2
    DeviceWindow = 2
    DeviceConvs = 3
    Shapes <- MCShapes
    Tile = 2
    BM = 4
    BN = 2
    Suite = {"ui", "repl", "read", "secret", "wasm", "lab", "none"}
    MaxConv = 2
    UiTurns = 4
    MaxPicks = 2
    ReplTurns = 3
    ReplTokens = 2
    TurnBudget = 3
    Suffix = 1
    MaxText = 4
    MaxNames = 2
    MaxDepth = 2
    MaxFiles = 2
    MaxCalls = 3
    Page = 4
    Size = 3
    MinCap = 2
    MaxLen = 5
    Values = {1, 2}
    Tokens = {1, 2, 3}
    Eog = 3
    WasmCtx = 7
    MaxBatch = 2
    WasmHeadroom = 1
    MaxNew = 2
    WasmPrompt = 5
    MaxReplies = 2
    HeaderNeed = 3
    FileSize = 5
    ChatCtx = 5
    ProbeCtx = 3
    LabHeadroom = 1
    LabPrompt = 4
    MaxOps = 4
INVARIANTS
    StepForStep
    PlansRun
    LogitsAreOwn
    WipedIsClean
    ReductionsAreSafe
    ResidentAsFiled
    KernelsIndexAlike
    ForgottenIsGone
    HistoriesAlternate
    SettlesOnLast
    CutsOwnTurn
    ReadsPrivately
    SecretsAreZeroed
    BrowserCachesAreOwn
    TextAsReference
\* Each module stops at its bounds.
CHECK_DEADLOCK FALSE
