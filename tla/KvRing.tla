------------------------------- MODULE KvRing -------------------------------
(***************************************************************************)
(* The attention cache of the gemma4 backends: model::KvCache with the     *)
(* CPU forward pass, and GpuModel's cache buffers with its kernels.        *)
(*                                                                         *)
(* A layer that owns its keys and values keeps them in Slots(l) rows.  A   *)
(* sliding-window layer uses its rows as a ring (position modulo window),  *)
(* a global layer addresses them directly.  A layer past the sharing       *)
(* boundary owns nothing and reads the rows of KvSource[l].                *)
(*                                                                         *)
(* forward(batch) runs the layers in order.  At each owning layer it first *)
(* stores the rows of the WHOLE batch and only then attends, every row of  *)
(* the batch reading the cache as the stores left it.  The stores of one   *)
(* layer are one GPU dispatch, so the model takes them in any order; the   *)
(* CPU's loop is one of these orders.                                      *)
(*                                                                         *)
(* A key/value row is abstracted to where it came from: the position it    *)
(* was computed for, and the conversation (epoch) it belongs to.           *)
(***************************************************************************)
EXTENDS Integers, FiniteSets

CONSTANTS
    NCtx,         \* context length the cache was sized for
    MaxBatch,     \* largest number of rows one forward call may carry
    NLayers,      \* number of blocks
    LayerWindow,  \* layer -> attention window, 0 for a global layer
    KvSource,     \* layer -> layer whose cache it attends into
    MaxEpoch      \* bound: conversations per behaviour

Layers == 0..(NLayers - 1)
Owners == {l \in Layers : KvSource[l] = l}

ASSUME SizesAssumption ==
    /\ NCtx \in Nat \ {0}
    /\ MaxBatch \in Nat \ {0}
    /\ NLayers \in Nat \ {0}
    /\ MaxEpoch \in Nat \ {0}

\* Config::from_gguf: a shared layer reads an earlier, owning layer of the
\* same attention type.
ASSUME LayersAssumption ==
    /\ LayerWindow \in [Layers -> Nat]
    /\ KvSource \in [Layers -> Layers]
    /\ \A l \in Layers : /\ KvSource[l] <= l
                         /\ KvSource[l] \in Owners
                         /\ LayerWindow[KvSource[l]] = LayerWindow[l]

VARIABLES
    len,    \* KvCache::len / GpuModel::pos, the next position to write
    kv,     \* owning layer -> slot -> the row it holds
    epoch,  \* which conversation is running; every rewind starts a new one
    batch,  \* the forward call in progress: base position, rows, bidirectional
    layer,  \* the layer that call has reached
    todo    \* rows of the batch not yet stored at that layer

vars == <<len, kv, epoch, batch, layer, todo>>

AtMost(a, b) == IF a <= b THEN a ELSE b
Positions == 0..(NCtx - 1)
Row == [epoch : 0..MaxEpoch, pos : Positions]
Zero == [epoch |-> 0, pos |-> 0]     \* a row that was never written, or wiped
Idle == [base |-> 0, t |-> 0, bidi |-> FALSE]

-----------------------------------------------------------------------------
\* Config::kv_slots: rows a layer needs to serve NCtx positions.
Slots(l) == IF LayerWindow[l] = 0 THEN NCtx ELSE AtMost(LayerWindow[l], NCtx)

\* LayerCache::slot, cache_slot in attn.wgsl.
Slot(l, pos) == IF LayerWindow[l] = 0 THEN pos ELSE pos % Slots(l)

FirstVisibleOffByOne(l, pos) ==
    IF LayerWindow[l] = 0 \/ pos <= Slots(l) THEN 0 ELSE pos - Slots(l)

\* LayerCache::visible, first_visible in attn.wgsl.
FirstVisible(l, pos) ==
    IF LayerWindow[l] = 0 \/ pos + 1 <= Slots(l) THEN 0 ELSE pos + 1 - Slots(l)

LastVisiblePastBatch(l, b, pos) ==
    IF ~b.bidi THEN pos
    ELSE IF LayerWindow[l] = 0 THEN b.base + b.t
    ELSE AtMost(b.base + b.t, pos + Slots(l) - 1)

\* Causally a row sees up to itself.  An embedding span sees the rest of its
\* own batch too, within the window measured forward.
LastVisible(l, b, pos) ==
    IF ~b.bidi THEN pos
    ELSE IF LayerWindow[l] = 0 THEN b.base + b.t - 1
    ELSE AtMost(b.base + b.t - 1, pos + Slots(l) - 1)

Visible(l, b, i) ==
    FirstVisible(l, b.base + i)..LastVisible(l, b, b.base + i)

\* What attention at layer l actually loads for position p.
Load(l, p) == kv[KvSource[l]][Slot(l, p)]

MaxVisCausal(l, b) ==
    IF LayerWindow[l] = 0 THEN b.base + b.t ELSE AtMost(Slots(l), b.base + b.t)

\* Slot::Attention::emit: the stride between two rows' scores.
MaxVis(l, b) ==
    LET end == b.base + b.t
    IN  IF LayerWindow[l] = 0 THEN end
        ELSE IF ~b.bidi THEN AtMost(Slots(l), end)
        ELSE AtMost(Slots(l) + b.t - 1, end)

RowsAtButLast(l, t) == IF l \in Owners THEN 0..(t - 2) ELSE {}

\* Rows a forward call stores on reaching layer l: none on a shared layer.
RowsAt(l, t) == IF l \in Owners THEN 0..(t - 1) ELSE {}

-----------------------------------------------------------------------------
Init ==
    /\ len = 0
    /\ kv = [l \in Owners |-> [s \in 0..(Slots(l) - 1) |-> Zero]]
    /\ epoch = 1
    /\ batch = Idle
    /\ layer = 0
    /\ todo = {}

\* A forward call the backend accepts: begin() refuses an empty batch, one
\* larger than the scratch buffers, and one that would pass the context.
Begin(t, bidi) ==
    /\ batch = Idle
    /\ t \in 1..MaxBatch
    /\ len + t <= NCtx
    /\ batch' = [base |-> len, t |-> t, bidi |-> bidi]
    /\ layer' = 0
    /\ todo' = RowsAt(0, t)
    /\ UNCHANGED <<len, kv, epoch>>

StoreRowStaleBase(i) ==
    /\ i \in todo
    /\ kv' = [kv EXCEPT ![layer][Slot(layer, i)] = [epoch |-> epoch, pos |-> i]]
    /\ todo' = todo \ {i}
    /\ UNCHANGED <<len, epoch, batch, layer>>

\* write_cache, LayerCache::store: one row lands in its slot.
StoreRow(i) ==
    /\ i \in todo
    /\ LET p == batch.base + i
       IN  kv' = [kv EXCEPT ![layer][Slot(layer, p)] =
                      [epoch |-> epoch, pos |-> p]]
    /\ todo' = todo \ {i}
    /\ UNCHANGED <<len, epoch, batch, layer>>

\* Every row of the batch attends; then the next layer, or the call returns
\* and the position advances.
Attend ==
    /\ batch # Idle
    /\ todo = {}
    /\ IF layer < NLayers - 1
       THEN /\ layer' = layer + 1
            /\ todo' = RowsAt(layer + 1, batch.t)
            /\ UNCHANGED <<len, batch>>
       ELSE /\ len' = batch.base + batch.t
            /\ batch' = Idle
            /\ layer' = 0
            /\ todo' = {}
    /\ UNCHANGED <<kv, epoch>>

\* KvCache::clear, GpuModel::reset: rewind and leave the rows in place.
Clear ==
    /\ batch = Idle
    /\ epoch < MaxEpoch
    /\ len' = 0
    /\ epoch' = epoch + 1
    /\ UNCHANGED <<kv, batch, layer, todo>>

\* KvCache::wipe, and the cache part of GpuModel::wipe.
Wipe ==
    /\ batch = Idle
    /\ epoch < MaxEpoch
    /\ len' = 0
    /\ kv' = [l \in Owners |-> [s \in 0..(Slots(l) - 1) |-> Zero]]
    /\ epoch' = epoch + 1
    /\ UNCHANGED <<batch, layer, todo>>

Next ==
    \/ \E t \in 1..MaxBatch, bidi \in BOOLEAN : Begin(t, bidi)
    \/ \E i \in 0..(MaxBatch - 1) : StoreRow(i)
    \/ Attend
    \/ Clear
    \/ Wipe

Spec == Init /\ [][Next]_vars

-----------------------------------------------------------------------------
\* The rows of layer `layer` are stored and attention may read them.
Attending == batch # Idle /\ todo = {}

Here(p) == [epoch |-> epoch, pos |-> p]
Exact(i) == \A p \in Visible(layer, batch, i) : Load(layer, p) = Here(p)

\* No batch is wider than a sliding window (256 rows against windows of 512
\* and 1024 as shipped), so the rows of one store pass have distinct slots.
BatchFits == \A l \in Layers : MaxBatch <= Slots(l)

\* Every variable stays within its declared range; in particular the
\* position never passes the context the buffers were sized for.
TypeOK ==
    /\ len \in 0..NCtx
    /\ epoch \in 1..MaxEpoch
    /\ layer \in Layers
    /\ batch \in [base : 0..NCtx, t : 0..MaxBatch, bidi : BOOLEAN]
    /\ todo \in SUBSET (0..(MaxBatch - 1))
    /\ DOMAIN kv = Owners
    /\ \A l \in Owners : kv[l] \in [0..(Slots(l) - 1) -> Row]

\* Between forward calls the newest Slots(l) positions of the running
\* conversation are all in place, so the next call finds its window however
\* often the ring has wrapped (LayerCache::store under LayerCache::slot).
ResidentWindow ==
    batch = Idle =>
        \A l \in Owners : \A p \in Positions :
            (p < len /\ len <= p + Slots(l)) => kv[l][Slot(l, p)] = Here(p)

\* The last row of a causal batch, the one whose logits are returned, and so
\* every decode step, attends to exactly its own window at every layer,
\* shared ones included.
LastRowExact ==
    (Attending /\ ~batch.bidi) => Exact(batch.t - 1)

\* As long as a batch ends inside the window, every row of it, causal or
\* bidirectional, attends to exactly the positions it may see.
UnwrappedExact ==
    (Attending /\ batch.base + batch.t <= Slots(layer)) =>
        \A i \in 0..(batch.t - 1) : Exact(i)

\* Whatever row is loaded in place of a visible position belongs to the
\* running conversation, and if it is not that position it is a later row of
\* this very batch: rewinding without overwriting (KvCache::clear) never lets
\* a row of an earlier conversation through.
OverrunStaysInBatch ==
    Attending =>
        \A i \in 0..(batch.t - 1) : \A p \in Visible(layer, batch, i) :
            LET r == Load(layer, p)
            IN  /\ r.epoch = epoch
                /\ \/ r.pos = p
                   \/ r.pos \in batch.base..(batch.base + batch.t - 1) /\ r.pos > p

\* A row's scores fit the stride between rows, and the stride fits the scratch
\* sized for NCtx, so no row's scores overwrite the next row's
\* (Slot::Attention::emit against scores_pass).
ScoresFitStride ==
    Attending =>
        /\ MaxVis(layer, batch) <= NCtx
        /\ \A i \in 0..(batch.t - 1) :
              LastVisible(layer, batch, batch.base + i)
                - FirstVisible(layer, batch.base + i) + 1 <= MaxVis(layer, batch)

\* What cache.rs says of the ring: a sliding-window layer only reads the last
\* `window` positions, whichever row of a causal batch does the reading.
ReadsLastWindow ==
    (Attending /\ ~batch.bidi) => \A i \in 0..(batch.t - 1) : Exact(i)

=============================================================================
