---------------------------- MODULE KvRingProof ----------------------------
(***************************************************************************)
(* Proofs about KvRing for every context length, batch size, stack of      *)
(* layers and number of conversations.                                     *)
(*                                                                         *)
(* The argument rests on one strengthening, Newest: of all the positions   *)
(* that share a slot and have been written, the slot holds the newest.     *)
(* It needs the rows of one store pass to have distinct slots (BatchFits), *)
(* since the stores of a pass are unordered.                               *)
(***************************************************************************)
EXTENDS KvRing, TLAPS

\* Position p of the running conversation has been stored at layer l.
Written(l, p) ==
    \/ p < len
    \/ /\ batch # Idle
       /\ p < len + batch.t
       /\ \/ l < layer
          \/ l = layer /\ (p - len) \notin todo

\* A slot holds the newest written position that maps to it.
Newest ==
    \A l \in Owners : \A p \in Positions :
        (Written(l, p) /\ ~Written(l, p + Slots(l))) => kv[l][Slot(l, p)] = Here(p)

\* The call in progress starts at the current position and fits the context,
\* and only owning layers have rows to store.
CallOK ==
    /\ batch = Idle => (todo = {} /\ layer = 0)
    /\ batch # Idle => /\ batch.base = len
                       /\ batch.t \in 1..MaxBatch
                       /\ len + batch.t <= NCtx
                       /\ todo \subseteq 0..(batch.t - 1)
    /\ todo # {} => layer \in Owners

IInv == TypeOK /\ CallOK /\ Newest

-----------------------------------------------------------------------------
\* Arithmetic of the ring.

LEMMA DivMod ==
    ASSUME NEW w \in Nat \ {0}, NEW a \in Nat
    PROVE  /\ a = w * (a \div w) + (a % w)
           /\ a \div w \in Nat
           /\ a % w \in 0..(w - 1)
OBVIOUS

LEMMA MulStep ==
    ASSUME NEW w \in Nat \ {0}, NEW d \in Int, d >= 1
    PROVE  w * d >= w
OBVIOUS

\* Moving a whole window ahead comes back to the same slot.
LEMMA ModShift ==
    ASSUME NEW w \in Nat \ {0}, NEW a \in Nat, NEW c \in Nat, c = a + w
    PROVE  c % w = a % w
<1> DEFINE q == a \div w
           r == a % w
           q2 == c \div w
           r2 == c % w
<1>1. a = w * q + r /\ q \in Nat /\ r \in 0..(w - 1)
  BY DivMod
<1>2. c = w * q2 + r2 /\ q2 \in Nat /\ r2 \in 0..(w - 1)
  BY DivMod
<1> HIDE DEF q, r, q2, r2
<1>3. /\ w * (q2 - (q + 1)) = r - r2
      /\ w * ((q + 1) - q2) = r2 - r
  BY <1>1, <1>2
<1>4. ~(q2 - (q + 1) >= 1) /\ ~((q + 1) - q2 >= 1)
  BY <1>1, <1>2, <1>3, MulStep
<1>5. r = r2
  BY <1>1, <1>2, <1>3, <1>4
<1> QED
  BY <1>5 DEF r, r2

\* Two positions less than a window apart never share a slot.
LEMMA ModApart ==
    ASSUME NEW w \in Nat \ {0}, NEW a \in Nat, NEW b \in Nat, a < b, b < a + w
    PROVE  a % w # b % w
<1> SUFFICES ASSUME a % w = b % w PROVE FALSE
  OBVIOUS
<1>1. /\ a = w * (a \div w) + (a % w)
      /\ a \div w \in Nat /\ a % w \in 0..(w - 1)
  BY DivMod
<1>2. b = w * (b \div w) + (b % w) /\ b \div w \in Nat
  BY DivMod
<1>3. w * ((b \div w) - (a \div w)) = b - a
  BY <1>1, <1>2
<1>4. (b \div w) - (a \div w) >= 1
  BY <1>1, <1>2, <1>3
<1> QED
  BY <1>1, <1>2, <1>3, <1>4, MulStep

LEMMA ModSmall ==
    ASSUME NEW w \in Nat \ {0}, NEW a \in Nat, a < w
    PROVE  a % w = a
OBVIOUS

LEMMA SlotsType ==
    ASSUME NEW l \in Layers
    PROVE  Slots(l) \in Nat \ {0} /\ Slots(l) <= NCtx
BY SizesAssumption, LayersAssumption DEF Slots, AtMost, Layers

LEMMA SlotIsMod ==
    ASSUME NEW l \in Layers, NEW p \in Positions
    PROVE  Slot(l, p) = p % Slots(l) /\ Slot(l, p) \in 0..(Slots(l) - 1)
<1>1. Slots(l) \in Nat \ {0} /\ p \in Nat
  BY SlotsType, SizesAssumption DEF Positions
<1>2. CASE LayerWindow[l] = 0
  <2>1. Slots(l) = NCtx /\ p < NCtx /\ Slot(l, p) = p
    BY <1>2, SizesAssumption DEF Slots, Slot, Positions
  <2> QED
    BY <1>1, <2>1, ModSmall
<1>3. CASE LayerWindow[l] # 0
  BY <1>1, <1>3, DivMod DEF Slot
<1> QED
  BY <1>2, <1>3

LEMMA SlotShift ==
    ASSUME NEW l \in Layers, NEW p \in Positions, NEW c \in Positions,
           c = p + Slots(l)
    PROVE  Slot(l, c) = Slot(l, p)
<1>1. p \in Nat /\ c \in Nat /\ Slots(l) \in Nat \ {0}
  BY SlotsType, SizesAssumption DEF Positions
<1>2. c % Slots(l) = p % Slots(l)
  BY <1>1, ModShift
<1> QED
  BY <1>2, SlotIsMod

LEMMA SlotApart ==
    ASSUME NEW l \in Layers, NEW p \in Positions, NEW q \in Positions,
           p < q, q < p + Slots(l)
    PROVE  Slot(l, p) # Slot(l, q)
<1>1. p \in Nat /\ q \in Nat /\ Slots(l) \in Nat \ {0}
  BY SlotsType, SizesAssumption DEF Positions
<1>2. p % Slots(l) # q % Slots(l)
  BY <1>1, ModApart
<1> QED
  BY <1>2, SlotIsMod

LEMMA OwnersAreLayers == Owners \subseteq Layers
BY DEF Owners

-----------------------------------------------------------------------------
\* The inductive invariant.

LEMMA InitIInv == Init => IInv
<1> SUFFICES ASSUME Init PROVE IInv
  OBVIOUS
<1>1. \A l \in Owners : Slots(l) \in Nat \ {0}
  BY SlotsType, OwnersAreLayers
<1>2. Zero \in Row
  BY SizesAssumption DEF Zero, Row, Positions
<1>3. TypeOK
  BY <1>1, <1>2, SizesAssumption DEF Init, TypeOK, Idle, Layers
<1>4. CallOK
  BY DEF Init, CallOK
<1>5. Newest
  <2>1. \A l \in Owners : \A p \in Positions : ~Written(l, p)
    BY DEF Init, Written, Positions
  <2> QED
    BY <2>1 DEF Newest
<1> QED
  BY <1>3, <1>4, <1>5 DEF IInv

LEMMA BeginIInv ==
    ASSUME IInv, NEW t \in 1..MaxBatch, NEW bidi \in BOOLEAN, Begin(t, bidi)
    PROVE  IInv'
<1> USE SizesAssumption
<1>1. /\ batch = Idle /\ len + t <= NCtx
      /\ batch' = [base |-> len, t |-> t, bidi |-> bidi]
      /\ layer' = 0 /\ todo' = RowsAt(0, t)
      /\ len' = len /\ kv' = kv /\ epoch' = epoch
      /\ len \in 0..NCtx
  BY DEF Begin, IInv, TypeOK
<1>2. todo' \subseteq 0..(t - 1) /\ (todo' # {} => layer' \in Owners)
  BY <1>1 DEF RowsAt
<1>3. batch' # Idle
  BY <1>1 DEF Idle
<1>4. TypeOK'
  BY <1>1, <1>2 DEF IInv, TypeOK, Layers
<1>5. CallOK'
  BY <1>1, <1>2, <1>3 DEF CallOK
<1>6. ASSUME NEW l \in Owners, NEW p \in Nat
      PROVE  Written(l, p)' <=> Written(l, p)
  <2>1. l \in Layers
    BY OwnersAreLayers
  <2>2. l \in Nat
    BY <2>1 DEF Layers
  <2>3. (l = 0 /\ ~(p < len) /\ p < len + t) => (p - len) \in todo'
    BY <1>1 DEF RowsAt
  <2> QED
    BY <1>1, <1>3, <2>2, <2>3 DEF Written
<1>7. Newest'
  <2> SUFFICES ASSUME NEW l \in Owners, NEW p \in Positions,
                      Written(l, p)', ~Written(l, p + Slots(l))'
               PROVE  (kv[l][Slot(l, p)] = Here(p))'
    BY DEF Newest
  <2>1. p \in Nat /\ p + Slots(l) \in Nat
    BY SlotsType, OwnersAreLayers DEF Positions
  <2>2. Written(l, p) /\ ~Written(l, p + Slots(l))
    BY <1>6, <2>1
  <2>3. kv[l][Slot(l, p)] = Here(p)
    BY <2>2 DEF IInv, Newest
  <2> QED
    BY <2>3, <1>1 DEF Here
<1> QED
  BY <1>4, <1>5, <1>7 DEF IInv

LEMMA StoreRowIInv ==
    ASSUME IInv, BatchFits, NEW i \in 0..(MaxBatch - 1), StoreRow(i)
    PROVE  IInv'
<1> USE SizesAssumption
<1> DEFINE q == len + i
<1>1. /\ i \in todo /\ batch # Idle /\ batch.base = len
      /\ layer \in Owners /\ layer \in Layers
      /\ batch.t \in 1..MaxBatch /\ len + batch.t <= NCtx
      /\ i \in 0..(batch.t - 1) /\ len \in Nat
      /\ todo \subseteq 0..(batch.t - 1)
  BY OwnersAreLayers DEF StoreRow, IInv, TypeOK, CallOK
<1>2. q \in Positions
  BY <1>1 DEF Positions
<1>3. /\ kv' = [kv EXCEPT ![layer][Slot(layer, q)] = Here(q)]
      /\ todo' = todo \ {i}
      /\ len' = len /\ epoch' = epoch /\ batch' = batch /\ layer' = layer
  BY <1>1 DEF StoreRow, Here
<1>4. Slot(layer, q) \in 0..(Slots(layer) - 1)
  BY <1>1, <1>2, SlotIsMod
<1>5. TypeOK'
  <2>1. Here(q) \in Row
    BY <1>2 DEF Here, Row, IInv, TypeOK
  <2>2. DOMAIN kv' = Owners
    BY <1>3 DEF IInv, TypeOK
  <2>3. ASSUME NEW l \in Owners
        PROVE  kv'[l] \in [0..(Slots(l) - 1) -> Row]
    BY <2>1, <1>1, <1>3, <1>4 DEF IInv, TypeOK
  <2> QED
    BY <2>2, <2>3, <1>3 DEF IInv, TypeOK
<1>6. CallOK'
  BY <1>1, <1>3 DEF IInv, CallOK
<1>7. /\ DOMAIN kv = Owners
      /\ DOMAIN kv[layer] = 0..(Slots(layer) - 1)
  BY <1>1 DEF IInv, TypeOK
<1>8. kv'[layer][Slot(layer, q)] = Here(q)
  BY <1>1, <1>3, <1>4, <1>7
<1>9. ASSUME NEW l \in Owners, NEW s \in 0..(Slots(l) - 1),
             l # layer \/ s # Slot(layer, q)
      PROVE  kv'[l][s] = kv[l][s]
  BY <1>1, <1>3, <1>7, <1>9
<1>10. ASSUME NEW l \in Owners, NEW p \in Nat
       PROVE  Written(l, p)' <=> (Written(l, p) \/ (l = layer /\ p = q))
  BY <1>1, <1>3 DEF Written
<1>11. Newest'
  <2> SUFFICES ASSUME NEW l \in Owners, NEW p \in Positions,
                      Written(l, p)', ~Written(l, p + Slots(l))'
               PROVE  (kv[l][Slot(l, p)] = Here(p))'
    BY DEF Newest
  <2>1. /\ p \in Nat /\ p + Slots(l) \in Nat /\ l \in Layers
        /\ Slots(l) \in Nat \ {0} /\ MaxBatch <= Slots(l)
    BY SlotsType, OwnersAreLayers DEF Positions, BatchFits
  <2>2. ~Written(l, p + Slots(l))
    BY <1>10, <2>1
  <2>3. Slot(l, p) \in 0..(Slots(l) - 1)
    BY <2>1, SlotIsMod
  <2>4. CASE l = layer /\ p = q
    BY <2>4, <1>8, <1>3 DEF Here
  <2>5. CASE ~(l = layer /\ p = q)
    <3>1. Written(l, p)
      BY <2>5, <1>10, <2>1
    <3>2. kv[l][Slot(l, p)] = Here(p)
      BY <3>1, <2>2 DEF IInv, Newest
    <3>3. CASE l # layer
      BY <3>2, <3>3, <1>9, <1>3, <2>3 DEF Here
    <3>4. CASE l = layer
      <4>1. p # q
        BY <2>5, <3>4
      <4>2. p < len + batch.t
        BY <3>1, <2>1, <1>1 DEF Written
      <4>3. Slot(l, p) # Slot(layer, q)
        <5>1. CASE q < p
          <6>1. p < q + Slots(l)
            BY <4>2, <2>1, <1>1
          <6> QED
            BY <5>1, <6>1, <1>2, <2>1, <3>4, SlotApart
        <5>2. CASE p < q /\ q < p + Slots(l)
          BY <5>2, <1>2, <2>1, <3>4, SlotApart
        <5>3. CASE p < q /\ ~(q < p + Slots(l))
          <6> DEFINE c == p + Slots(l)
          <6>1. c # q
            BY <1>10, <2>1, <3>4
          <6>2. c < q /\ c \in Positions
            BY <6>1, <5>3, <1>2, <2>1 DEF Positions
          <6>3. ~(c < len)
            BY <2>2 DEF Written
          <6>4. q < c + Slots(l)
            BY <6>3, <1>1, <2>1
          <6>5. Slot(l, c) # Slot(l, q)
            BY <6>2, <6>4, <1>2, <2>1, SlotApart
          <6>6. Slot(l, c) = Slot(l, p)
            BY <6>2, <2>1, SlotShift
          <6> QED
            BY <6>5, <6>6, <3>4
        <5> QED
          BY <5>1, <5>2, <5>3, <4>1, <2>1, <1>1
      <4>4. kv'[l][Slot(l, p)] = kv[l][Slot(l, p)]
        BY <4>3, <1>9, <2>3
      <4> QED
        BY <4>4, <3>2, <1>3 DEF Here
    <3> QED
      BY <3>3, <3>4
  <2> QED
    BY <2>4, <2>5
<1> QED
  BY <1>5, <1>6, <1>11 DEF IInv

LEMMA AttendIInv ==
    ASSUME IInv, Attend
    PROVE  IInv'
<1> USE SizesAssumption
<1>1. /\ batch # Idle /\ todo = {} /\ batch.base = len
      /\ batch.t \in 1..MaxBatch /\ len + batch.t <= NCtx
      /\ len \in Nat /\ layer \in Layers
      /\ kv' = kv /\ epoch' = epoch
  BY DEF Attend, IInv, TypeOK, CallOK
<1>2. \A l \in Owners : l \in 0..(NLayers - 1)
  BY OwnersAreLayers DEF Layers
<1>3. CASE layer < NLayers - 1
  <2>1. /\ layer' = layer + 1 /\ layer' \in Layers
        /\ todo' = RowsAt(layer + 1, batch.t)
        /\ len' = len /\ batch' = batch
    BY <1>1, <1>3 DEF Attend, Layers
  <2>2. todo' \subseteq 0..(batch.t - 1) /\ (todo' # {} => layer' \in Owners)
    BY <2>1 DEF RowsAt
  <2>3. TypeOK' /\ CallOK'
    BY <1>1, <2>1, <2>2 DEF IInv, TypeOK, CallOK
  <2>4. ASSUME NEW l \in Owners, NEW p \in Nat
        PROVE  Written(l, p)' <=> Written(l, p)
    <3>1. (l = layer + 1 /\ ~(p < len) /\ p < len + batch.t) => (p - len) \in todo'
      BY <1>1, <2>1 DEF RowsAt
    <3>2. l \in Nat /\ layer \in Nat
      BY <1>1, <1>2 DEF Layers
    <3> QED
      BY <1>1, <2>1, <3>1, <3>2 DEF Written
  <2>5. Newest'
    <3> SUFFICES ASSUME NEW l \in Owners, NEW p \in Positions,
                        Written(l, p)', ~Written(l, p + Slots(l))'
                 PROVE  (kv[l][Slot(l, p)] = Here(p))'
      BY DEF Newest
    <3>1. p \in Nat /\ p + Slots(l) \in Nat
      BY SlotsType, OwnersAreLayers DEF Positions
    <3>2. kv[l][Slot(l, p)] = Here(p)
      BY <2>4, <3>1 DEF IInv, Newest
    <3> QED
      BY <3>2, <1>1 DEF Here
  <2> QED
    BY <2>3, <2>5 DEF IInv
<1>4. CASE ~(layer < NLayers - 1)
  <2>1. /\ layer' = 0 /\ layer' \in Layers /\ todo' = {} /\ batch' = Idle
        /\ len' = len + batch.t
    BY <1>1, <1>4 DEF Attend, Layers
  <2>2. TypeOK' /\ CallOK'
    BY <1>1, <2>1 DEF IInv, TypeOK, CallOK, Idle
  <2>3. ASSUME NEW l \in Owners, NEW p \in Nat
        PROVE  Written(l, p)' <=> Written(l, p)
    <3>1. l < layer \/ l = layer
      BY <1>1, <1>2, <1>4 DEF Layers
    <3> QED
      BY <1>1, <2>1, <3>1 DEF Written
  <2>4. Newest'
    <3> SUFFICES ASSUME NEW l \in Owners, NEW p \in Positions,
                        Written(l, p)', ~Written(l, p + Slots(l))'
                 PROVE  (kv[l][Slot(l, p)] = Here(p))'
      BY DEF Newest
    <3>1. p \in Nat /\ p + Slots(l) \in Nat
      BY SlotsType, OwnersAreLayers DEF Positions
    <3>2. kv[l][Slot(l, p)] = Here(p)
      BY <2>3, <3>1 DEF IInv, Newest
    <3> QED
      BY <3>2, <1>1 DEF Here
  <2> QED
    BY <2>2, <2>4 DEF IInv
<1> QED
  BY <1>3, <1>4

LEMMA RewindIInv ==
    ASSUME IInv, Clear \/ Wipe
    PROVE  IInv'
<1> USE SizesAssumption
<1>1. /\ len' = 0 /\ batch' = Idle /\ todo' = {} /\ layer' = 0
      /\ epoch' \in 1..MaxEpoch
  BY DEF Clear, Wipe, IInv, TypeOK, CallOK
<1>2. \A l \in Owners : Slots(l) \in Nat \ {0}
  BY SlotsType, OwnersAreLayers
<1>3. Zero \in Row
  BY DEF Zero, Row, Positions
<1>4. DOMAIN kv' = Owners /\ \A l \in Owners : kv'[l] \in [0..(Slots(l) - 1) -> Row]
  BY <1>2, <1>3 DEF Clear, Wipe, IInv, TypeOK
<1>5. TypeOK'
  BY <1>1, <1>4 DEF TypeOK, Idle, Layers
<1>6. CallOK'
  BY <1>1 DEF CallOK
<1>7. \A l \in Owners : \A p \in Positions : ~Written(l, p)'
  BY <1>1 DEF Written, Positions
<1>8. Newest'
  BY <1>7 DEF Newest
<1> QED
  BY <1>5, <1>6, <1>8 DEF IInv

LEMMA NextIInv ==
    ASSUME IInv, BatchFits, [Next]_vars
    PROVE  IInv'
<1>1. CASE Next
  BY <1>1, BeginIInv, StoreRowIInv, AttendIInv, RewindIInv DEF Next
<1>2. CASE UNCHANGED vars
  BY <1>2 DEF vars, IInv, TypeOK, CallOK, Newest, Written, Here
<1> QED
  BY <1>1, <1>2

-----------------------------------------------------------------------------
\* What the invariant gives an attending row: the newest written position of
\* a slot is either the one looked for or one window later, in this batch.
LEMMA LoadFacts ==
    ASSUME IInv, BatchFits, Attending,
           NEW i \in 0..(batch.t - 1), NEW p \in Visible(layer, batch, i)
    PROVE  /\ p \in Nat /\ p < len + batch.t
           /\ ~(p + Slots(layer) < len + batch.t) => Load(layer, p) = Here(p)
           /\ (p + Slots(layer) < len + batch.t) =>
                  /\ Load(layer, p) = Here(p + Slots(layer))
                  /\ p + Slots(layer) >= len
<1> USE SizesAssumption
<1> DEFINE o == KvSource[layer]
           s == Slots(layer)
<1>1. /\ batch # Idle /\ todo = {} /\ batch.base = len
      /\ batch.t \in 1..MaxBatch /\ len + batch.t <= NCtx
      /\ len \in Nat /\ layer \in Layers
  BY DEF Attending, IInv, TypeOK, CallOK
<1>2. /\ o \in Owners /\ o \in Layers /\ LayerWindow[o] = LayerWindow[layer]
      /\ o <= layer /\ o \in Nat /\ layer \in Nat
  BY <1>1, LayersAssumption, OwnersAreLayers DEF Layers
<1>3. /\ Slots(o) = s /\ s \in Nat \ {0} /\ batch.t <= s
      /\ \A x : Slot(o, x) = Slot(layer, x)
  BY <1>1, <1>2, SlotsType DEF Slots, Slot, BatchFits
<1>4. /\ p \in Nat /\ p < len + batch.t /\ p + s > len + i
  <2>1. LayerWindow[layer] = 0 => s = NCtx
    BY DEF Slots
  <2> QED
    BY <1>1, <1>3, <2>1 DEF Visible, FirstVisible, LastVisible, AtMost
<1>5. ASSUME NEW x \in Nat
      PROVE  Written(o, x) <=> x < len + batch.t
  BY <1>1, <1>2 DEF Written
<1>6. ASSUME NEW x \in Positions, x < len + batch.t, ~(x + s < len + batch.t)
      PROVE  kv[o][Slot(o, x)] = Here(x)
  <2>1. Written(o, x) /\ ~Written(o, x + Slots(o))
    BY <1>3, <1>5, <1>6 DEF Positions
  <2> QED
    BY <2>1, <1>2 DEF IInv, Newest
<1>7. p \in Positions
  BY <1>1, <1>4 DEF Positions
<1>8. ~(p + s < len + batch.t) => Load(layer, p) = Here(p)
  BY <1>3, <1>4, <1>6, <1>7 DEF Load
<1>9. ASSUME p + s < len + batch.t
      PROVE  Load(layer, p) = Here(p + s) /\ p + s >= len
  <2>1. p + s \in Positions /\ ~(p + s + s < len + batch.t)
    BY <1>1, <1>3, <1>4, <1>9 DEF Positions
  <2>2. kv[o][Slot(o, p + s)] = Here(p + s)
    BY <1>6, <1>9, <2>1
  <2>3. Slot(o, p + s) = Slot(o, p)
    BY <1>2, <1>3, <1>7, <2>1, SlotShift
  <2> QED
    BY <1>1, <1>3, <1>4, <2>2, <2>3 DEF Load
<1> QED
  BY <1>4, <1>8, <1>9

-----------------------------------------------------------------------------
\* The theorems.

LEMMA IInvHolds == ASSUME BatchFits PROVE Spec => []IInv
<1>1. Init => IInv
  BY InitIInv
<1>2. IInv /\ [Next]_vars => IInv'
  BY NextIInv
<1> QED
  BY <1>1, <1>2, PTL DEF Spec

\* Every variable keeps its type; the position never passes NCtx and every
\* store lands in a row that was allocated.
THEOREM TypeCorrect == ASSUME BatchFits PROVE Spec => []TypeOK
<1>1. IInv => TypeOK
  BY DEF IInv
<1> QED
  BY <1>1, IInvHolds, PTL

\* Between forward calls each ring holds exactly the newest Slots(l) positions.
THEOREM ResidentWindowHolds == ASSUME BatchFits PROVE Spec => []ResidentWindow
<1>1. IInv => ResidentWindow
  <2> SUFFICES ASSUME IInv, batch = Idle,
                      NEW l \in Owners, NEW p \in Positions,
                      p < len, len <= p + Slots(l)
               PROVE  kv[l][Slot(l, p)] = Here(p)
    BY DEF ResidentWindow
  <2>1. Slots(l) \in Nat /\ p \in Nat /\ len \in Nat
    BY SlotsType, OwnersAreLayers, SizesAssumption DEF IInv, TypeOK, Positions
  <2>2. Written(l, p) /\ ~Written(l, p + Slots(l))
    BY <2>1 DEF Written
  <2> QED
    BY <2>2 DEF IInv, Newest
<1> QED
  BY <1>1, IInvHolds, PTL

\* The row whose logits a causal forward call returns attends to exactly its
\* own window, at every layer, for every window and every batch that fits it.
THEOREM LastRowExactHolds == ASSUME BatchFits PROVE Spec => []LastRowExact
<1>1. IInv => LastRowExact
  <2> SUFFICES ASSUME IInv, Attending, ~batch.bidi,
                      NEW p \in Visible(layer, batch, batch.t - 1)
               PROVE  Load(layer, p) = Here(p)
    BY DEF LastRowExact, Exact
  <2>1. /\ batch.base = len /\ batch.t \in 1..MaxBatch
        /\ len \in Nat /\ layer \in Layers /\ len + batch.t <= NCtx
    BY DEF Attending, IInv, TypeOK, CallOK
  <2>2. batch.t - 1 \in 0..(batch.t - 1) /\ Slots(layer) \in Nat \ {0}
    BY <2>1, SlotsType, SizesAssumption
  <2>3. p + Slots(layer) >= len + batch.t
    BY <2>1, <2>2 DEF Visible, FirstVisible, LastVisible, Slots
  <2>4. ~(p + Slots(layer) < len + batch.t)
    BY <2>1, <2>2, <2>3, LoadFacts
  <2> QED
    BY <2>2, <2>4, LoadFacts
<1> QED
  BY <1>1, IInvHolds, PTL

\* A batch that ends inside the window attends exactly, row by row, causal or
\* bidirectional.
THEOREM UnwrappedExactHolds == ASSUME BatchFits PROVE Spec => []UnwrappedExact
<1>1. IInv => UnwrappedExact
  <2> SUFFICES ASSUME IInv, Attending, batch.base + batch.t <= Slots(layer),
                      NEW i \in 0..(batch.t - 1),
                      NEW p \in Visible(layer, batch, i)
               PROVE  Load(layer, p) = Here(p)
    BY DEF UnwrappedExact, Exact
  <2>1. batch.base = len /\ len \in Nat /\ batch.t \in Nat /\ layer \in Layers
    BY SizesAssumption DEF Attending, IInv, TypeOK, CallOK
  <2>2. Slots(layer) \in Nat /\ p \in Nat
    BY <2>1, SlotsType, LoadFacts
  <2>3. ~(p + Slots(layer) < len + batch.t)
    BY <2>1, <2>2
  <2> QED
    BY <2>3, LoadFacts
<1> QED
  BY <1>1, IInvHolds, PTL

\* A batch that wraps the ring may read a later row of its own in place of an
\* overwritten one, and nothing else: never a row of another conversation.
THEOREM OverrunStaysInBatchHolds == ASSUME BatchFits PROVE Spec => []OverrunStaysInBatch
<1>1. IInv => OverrunStaysInBatch
  <2> SUFFICES ASSUME IInv, Attending,
                      NEW i \in 0..(batch.t - 1),
                      NEW p \in Visible(layer, batch, i)
               PROVE  LET r == Load(layer, p)
                      IN  /\ r.epoch = epoch
                          /\ \/ r.pos = p
                             \/ /\ r.pos \in batch.base..(batch.base + batch.t - 1)
                                /\ r.pos > p
    BY DEF OverrunStaysInBatch
  <2>1. batch.base = len /\ len \in Nat /\ batch.t \in Nat /\ layer \in Layers
    BY SizesAssumption DEF Attending, IInv, TypeOK, CallOK
  <2>2. Slots(layer) \in Nat \ {0} /\ p \in Nat
    BY <2>1, SlotsType, LoadFacts
  <2>3. CASE ~(p + Slots(layer) < len + batch.t)
    BY <2>3, LoadFacts DEF Here
  <2>4. CASE p + Slots(layer) < len + batch.t
    <3>1. Load(layer, p) = Here(p + Slots(layer)) /\ p + Slots(layer) >= len
      BY <2>4, LoadFacts
    <3> QED
      BY <2>1, <2>2, <2>4, <3>1 DEF Here
  <2> QED
    BY <2>3, <2>4
<1> QED
  BY <1>1, IInvHolds, PTL

\* No row's scores reach the next row's, whatever the window, the position and
\* the batch.
THEOREM ScoresFitStrideHolds == ASSUME BatchFits PROVE Spec => []ScoresFitStride
<1>1. IInv => ScoresFitStride
  <2> SUFFICES ASSUME IInv, Attending
               PROVE  /\ MaxVis(layer, batch) <= NCtx
                      /\ \A i \in 0..(batch.t - 1) :
                            LastVisible(layer, batch, batch.base + i)
                              - FirstVisible(layer, batch.base + i) + 1
                                <= MaxVis(layer, batch)
    BY DEF ScoresFitStride
  <2>1. /\ batch.base = len /\ len \in Nat /\ batch.t \in Nat \ {0}
        /\ layer \in Layers /\ len + batch.t <= NCtx /\ NCtx \in Nat
    BY SizesAssumption DEF Attending, IInv, TypeOK, CallOK
  <2>2. Slots(layer) \in Nat \ {0}
    BY <2>1, SlotsType
  <2> QED
    BY <2>1, <2>2 DEF MaxVis, AtMost, FirstVisible, LastVisible
<1> QED
  BY <1>1, IInvHolds, PTL

=============================================================================
