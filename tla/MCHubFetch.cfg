\* One fetch at a time: kills, replaced files and power failures.
CONSTANTS
    p1 = p1
    p2 = p2
    Fetchers = {p1}
    Versions = {1, 2, 3}
    Size <- MCSize
    SizeSent = {TRUE, FALSE}
    PublishesHash = TRUE
    Options <- MCVerified
    TwinVersion = 2
    Files = {1, 2, 3, 4}
    TwinFile = 1
    PowerFails = TRUE
    MaxFaults = 3
SPECIFICATION FairSpec
INVARIANTS
    FinishedIsWhole
    HashedIsWritten
PROPERTIES
    ImplementsDownload
    RetriesFinish
