\* Batches of up to 3 rows over a ring of 3 slots and a context of 7: the
\* ring wraps twice, inside a batch and between batches.
CONSTANTS
    NCtx = 7
    MaxBatch = 3
    NLayers = 3
    MaxEpoch = 2
    LayerWindow <- MCLayerWindow
    KvSource <- MCKvSource
SPECIFICATION Spec
INVARIANTS
    ResidentWindow
    LastRowExact
    UnwrappedExact
    OverrunStaysInBatch
    ScoresFitStride
\* The context and the number of conversations are bounded: a full cache in
\* the last conversation has no next step.
CHECK_DEADLOCK FALSE
