SPECIFICATION Spec
CONSTANTS
    Parts = {"device"}
    Models <- PerLayer
    Files <- Tensors
    N = 4
    RowLanes = 2
    Rounds = 2
    Target = 16
    Align = 4
    Chunk = 5
    Sample = 2
    DeviceCtx = 4
    DeviceBatch = 2
    DeviceWindow = 2
    DeviceConvs = 3
    Shapes <- MCShapes
    Tile = 2
    BM = 4
    BN = 2
INVARIANTS
    WipedIsClean
CHECK_DEADLOCK FALSE
