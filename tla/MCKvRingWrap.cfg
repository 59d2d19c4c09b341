\* A batch that wraps the ring: earlier rows read slots later rows took.
CONSTANTS
    NCtx = 7
    MaxBatch = 3
    NLayers = 3
    MaxEpoch = 2
    LayerWindow <- MCLayerWindow
    KvSource <- MCKvSource
SPECIFICATION Spec
INVARIANTS
    ReadsLastWindow
\* The context and the number of conversations are bounded: a full cache in
\* the last conversation has no next step.
CHECK_DEADLOCK FALSE
