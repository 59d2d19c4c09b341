\* Two fetches of the same file into the same directory.
CONSTANTS
    p1 = p1
    p2 = p2
    Fetchers = {p1, p2}
    Versions = {1}
    Size <- MCSize
    SizeSent = {TRUE}
    PublishesHash = TRUE
    Options <- MCAlways
    TwinVersion = 0
    Files = {1, 2, 3, 4}
    TwinFile = 1
    PowerFails = FALSE
    MaxFaults = 1
SPECIFICATION Spec
INVARIANTS
    FinishedIsWhole
