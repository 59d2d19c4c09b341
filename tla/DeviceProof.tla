---------------------------- MODULE DeviceProof ----------------------------
(***************************************************************************)
(* Why the logits of a pass come from nothing but the conversation that    *)
(* the device serves, and a wipe leaves nothing of any conversation, for   *)
(* every model that may be loaded, size of its caches and of a batch, and  *)
(* number of conversations.                                                *)
(*                                                                         *)
(* A buffer is sound when what it holds is of this conversation, and of    *)
(* the positions and the layers it stands for.  Each kernel leads from     *)
(* sound sources to a sound target; a plan is a chain of kernels, by       *)
(* layers; and what a pass leaves is sound for the pass that follows.      *)
(***************************************************************************)
EXTENDS ComputeProof

-----------------------------------------------------------------------------
(* Buffers and what they are for.                                          *)

Name(w, i) == Device!Of(w, i)
Bound(m) == Device!Scratch(m) \cup Device!Caches(m) \cup {Device!ZERO}

\* The attention caches, and the kind of the layers that share one.
Attending(m) == Device!Caches(m) \ Device!Recurrent(m)
Sliding(m) == {Name(w, i) : w \in {"k", "v"}, i \in Device!SlidingLayers(m)}
KindOf(m, b) == IF b \in Sliding(m) THEN "window" ELSE "all"

\* What no dispatch of the model writes.
Still(m) == {Device!ZERO} \cup (IF Device!Gemma(m) /\ ~m.c.ple THEN Device!PleBuffers ELSE {})

LEMMA NamesAlike ==
    ASSUME NEW w, NEW i
    PROVE  Device!G!Of(w, i) = Name(w, i) /\ Device!Q!Of(w, i) = Name(w, i)
BY DEF Name, Device!Of, Device!G!Of, Device!Q!Of

\* The layers with an attention cache, and those with recurrent state.
Rings(m) == IF Device!Gemma(m) THEN {i \in 1..Device!Layers(m) : Device!Owns(m, i)}
            ELSE {i \in 1..Device!Layers(m) : ~m.c.recurrent[i]}
Loops(m) == IF Device!Gemma(m) THEN {} ELSE {i \in 1..Device!Layers(m) : m.c.recurrent[i]}

LEMMA CachesAre ==
    ASSUME NEW m, Device!Loadable(m)
    PROVE  /\ Device!Caches(m) = {Name(w, i) : w \in {"k", "v"}, i \in Rings(m)}
                                 \cup {Name(w, i) : w \in {"conv_state", "s"}, i \in Loops(m)}
           /\ Device!Recurrent(m) = {Name(w, i) : w \in {"conv_state", "s"}, i \in Loops(m)}
<1>1. CASE Device!Gemma(m)
  <2>1. DOMAIN m.c.layers = 1..Device!Layers(m)
    BY <1>1 DEF Device!Loadable
  <2>2. Device!G!Caches(m.c) = UNION {{Name("k", i), Name("v", i)} : i \in Rings(m)}
    BY <1>1, <2>1, NamesAlike DEF Rings, Device!G!Caches, Device!G!Owns, Device!Owns
  <2>3. ASSUME NEW b
        PROVE  b \in Device!Caches(m) <=> \E i \in Rings(m) : b \in {Name("k", i), Name("v", i)}
    BY <1>1, <2>2 DEF Device!Caches
  <2> QED
    BY <1>1, <2>3 DEF Device!Recurrent, Loops
<1>2. CASE ~Device!Gemma(m)
  <2>1. Device!Q!Layers(m.c) = 1..Device!Layers(m)
    BY <1>2 DEF Device!Q!Layers, Device!Layers, Device!Loadable
  <2>2. \A i \in 1..Device!Layers(m) :
            Device!Q!State(m.c, i) = IF m.c.recurrent[i] THEN {Name("conv_state", i), Name("s", i)}
                                     ELSE {Name("k", i), Name("v", i)}
    BY NamesAlike DEF Device!Q!State
  <2>3. ASSUME NEW b PROVE b \in Device!Recurrent(m) <=> \E i \in Loops(m) : b \in {Name("conv_state", i), Name("s", i)}
    BY <1>2, <2>1, <2>2 DEF Device!Recurrent, Loops
  <2>4. ASSUME NEW b
        PROVE  b \in Device!Caches(m) <=> \/ \E i \in Loops(m) : b \in {Name("conv_state", i), Name("s", i)}
                                         \/ \E i \in Rings(m) : b \in {Name("k", i), Name("v", i)}
    BY <1>2, <2>1, <2>2 DEF Device!Caches, Loops, Rings
  <2> QED
    BY <2>3, <2>4
<1> QED
  BY <1>1, <1>2

LEMMA Apart ==
    ASSUME NEW m, Device!Loadable(m)
    PROVE  /\ \A b \in Device!Caches(m) : b \notin Device!Scratch(m) \cup {Device!ZERO}
           /\ \A w \in {"k", "v"}, i \in Rings(m) : Name(w, i) \in Attending(m)
           /\ \A w \in {"conv_state", "s"}, i \in Loops(m) : Name(w, i) \in Device!Recurrent(m)
           /\ Device!Recurrent(m) \subseteq Device!Caches(m)
<1>1. Rings(m) \subseteq 1..Device!Layers(m) /\ Loops(m) \subseteq 1..Device!Layers(m)
  BY DEF Rings, Loops
<1>2. \A w, v \in Device!Kinds, i, j \in 1..Device!Layers(m) :
          /\ Name(w, i) = Name(v, j) => w = v /\ i = j
          /\ Name(w, i) \notin Device!Scratch(m) \cup {Device!ZERO}
  BY DEF Device!Loadable, Name
<1>3. {"k", "v", "conv_state", "s"} = Device!Kinds
  BY DEF Device!Kinds
<1>4. ASSUME NEW w \in {"k", "v"}, NEW i \in Rings(m) PROVE Name(w, i) \notin Device!Recurrent(m)
  BY <1>1, <1>2, <1>3, CachesAre
<1> QED
  BY <1>1, <1>2, <1>3, <1>4, CachesAre DEF Attending

LEMMA RowsAre ==
    ASSUME NEW m, Device!Loadable(m), NEW b \in Bound(m)
    PROVE  /\ b \in Device!Recurrent(m) => Device!Rows(m, b) = 1
           /\ b \in Attending(m) => Device!Rows(m, b) = Device!Slots(KindOf(m, b))
           /\ b \notin Device!Caches(m) => Device!Rows(m, b) = DeviceBatch
<1>1. Device!Slots("all") = DeviceCtx
  BY DEF Device!Slots
<1>2. {Device!Of(w, i) : w \in {"k", "v"}, i \in Device!SlidingLayers(m)} = Sliding(m)
  BY DEF Sliding, Name
<1>3. b \in Device!Recurrent(m) => b \in Device!Caches(m)
  BY Apart
<1>4. b \in Sliding(m) => b \notin Device!Recurrent(m) /\ b \in Device!Caches(m)
  <2>1. Loops(m) \subseteq 1..Device!Layers(m) /\ Device!SlidingLayers(m) \subseteq 1..Device!Layers(m)
    BY DEF Loops, Device!SlidingLayers, Device!Loadable
  <2>2. \A w, v \in Device!Kinds, i, j \in 1..Device!Layers(m) :
            /\ Name(w, i) = Name(v, j) => w = v /\ i = j
            /\ Name(w, i) \notin Device!Scratch(m) \cup {Device!ZERO}
    BY DEF Device!Loadable, Name
  <2>3. {"k", "v", "conv_state", "s"} = Device!Kinds
    BY DEF Device!Kinds
  <2>4. b \in Sliding(m) => b \notin Device!Recurrent(m)
    BY <2>1, <2>2, <2>3, CachesAre DEF Sliding
  <2>5. b \in Sliding(m) => b \notin Device!Scratch(m) \cup {Device!ZERO}
    BY <2>1, <2>2, <2>3 DEF Sliding
  <2> QED
    BY <2>4, <2>5 DEF Bound
<1>5. CASE b \in Device!Recurrent(m)
  BY <1>2, <1>3, <1>4, <1>5 DEF Device!Rows, Attending
<1>6. CASE b \notin Device!Caches(m)
  BY <1>2, <1>3, <1>4, <1>6 DEF Device!Rows, Attending
<1>7. CASE b \in Attending(m) /\ b \in Sliding(m)
  BY <1>2, <1>7 DEF Device!Rows, Attending, KindOf
<1>8. CASE b \in Attending(m) /\ b \notin Sliding(m)
  BY <1>1, <1>2, <1>8 DEF Device!Rows, Attending, KindOf
<1> QED
  BY <1>5, <1>6, <1>7, <1>8 DEF Attending

LEMMA KindIs ==
    ASSUME NEW m, Device!Loadable(m), NEW w \in {"k", "v"}, NEW i \in Rings(m)
    PROVE  KindOf(m, Name(w, i)) = IF Device!Gemma(m) THEN m.c.layers[i].window ELSE "all"
<1>1. \A v \in {"k", "v"}, j \in 1..Device!Layers(m) : Name(w, i) = Name(v, j) => i = j
  BY DEF Rings, Device!Loadable, Device!Kinds, Name
<1>2. CASE Device!Gemma(m)
  <2>1. Device!SlidingLayers(m) = {j \in 1..Device!Layers(m) : m.c.layers[j].swa}
    BY <1>2 DEF Device!SlidingLayers, Device!Loadable
  <2>2. i \in 1..Device!Layers(m)
    BY DEF Rings
  <2>3. Name(w, i) \in Sliding(m) <=> m.c.layers[i].swa
    BY <1>1, <2>1, <2>2 DEF Sliding
  <2>4. m.c.layers[i].window = (IF m.c.layers[i].swa THEN "window" ELSE "all")
    BY <1>2, <2>2 DEF Device!Loadable
  <2> QED
    BY <1>2, <2>3, <2>4 DEF KindOf
<1>3. CASE ~Device!Gemma(m)
  <2>1. Sliding(m) = {}
    BY <1>3 DEF Sliding, Device!SlidingLayers
  <2> QED
    BY <1>3, <2>1 DEF KindOf
<1> QED
  BY <1>2, <1>3

-----------------------------------------------------------------------------
(* A forward pass of v.t tokens from position v.p, for conversation v.c.   *)
(* Before position v.k the caches hold nothing else.  v.e tells a batch of *)
(* embedding rows.                                                         *)

IsPass(v) ==
    /\ v.m \in Models /\ v.p \in Nat /\ v.t \in 1..DeviceBatch /\ v.k \in Nat
    /\ v.p + v.t <= DeviceCtx

\* The rows of a buffer that the pass looks at, and those an earlier pass left for it.
SlotsBefore(m, b, n) == {Device!Slot(KindOf(m, b), q) : q \in 0..(n - 1)}
Area(v, b) ==
    IF b \in Attending(v.m) THEN SlotsBefore(v.m, b, v.p + v.t)
    ELSE IF b \in Device!Recurrent(v.m) \cup {"conv_scratch"} THEN {1} ELSE 1..v.t
Left(v, b) == IF b \in Device!Recurrent(v.m) THEN {1} ELSE SlotsBefore(v.m, b, v.k)

\* Buffers that may hold nothing at all; the others have the conversation in every row.
Faint(v) == {"ple", "ple_cur", "conv_scratch"} \cup Device!Caches(v.m)
            \cup (IF v.e THEN {"tokens"} ELSE {})

Holds(v, m, b) == \A r \in Area(v, b) : /\ m[b][r] \subseteq {v.c}
                                        /\ b \notin Faint(v) => m[b][r] = {v.c}
Shaped(w, m) == /\ DOMAIN m = Bound(w)
                /\ \A b \in Bound(w) : DOMAIN m[b] = 1..Device!Rows(w, b)
Pure(w, m) == \A b \in Still(w) \cap Bound(w) : \A r \in 1..Device!Rows(w, b) : m[b][r] = {}
OwnBefore(v, m) == \A b \in Device!Caches(v.m) : \A r \in Left(v, b) : m[b][r] \subseteq {v.c}
Sound(v, m, S) == /\ Shaped(v.m, m) /\ Pure(v.m, m) /\ OwnBefore(v, m)
                  /\ \A b \in S : Holds(v, m, b)

LEMMA SlotIs ==
    ASSUME NEW w, NEW q \in Nat
    PROVE  /\ Device!Slots(w) \in Nat \ {0} /\ Device!Slot(w, q) \in 1..Device!Slots(w)
<1>1. Device!Slots(w) \in Nat \ {0}
  BY DeviceAssumption DEF Device!Slots
<1> QED
  BY <1>1 DEF Device!Slot

LEMMA SlotsBeforeAre ==
    ASSUME NEW m, NEW b, NEW n, NEW s
    PROVE  s \in SlotsBefore(m, b, n) <=> \E q \in 0..(n - 1) : s = Device!Slot(KindOf(m, b), q)
BY DEF SlotsBefore

LEMMA AreaInside ==
    ASSUME NEW v, IsPass(v), NEW b \in Bound(v.m)
    PROVE  /\ Area(v, b) \subseteq 1..Device!Rows(v.m, b)
           /\ b \in Device!Caches(v.m) => Left(v, b) \subseteq 1..Device!Rows(v.m, b)
<1>1. Device!Loadable(v.m)
  BY DeviceAssumption DEF IsPass
<1>2. ASSUME b \in Attending(v.m), NEW n \in Nat
      PROVE  SlotsBefore(v.m, b, n) \subseteq 1..Device!Rows(v.m, b)
  <2>1. Device!Rows(v.m, b) = Device!Slots(KindOf(v.m, b))
    BY <1>1, <1>2, RowsAre
  <2>2. \A q \in 0..(n - 1) : q \in Nat
    OBVIOUS
  <2> QED
    BY <2>1, <2>2, SlotIs DEF SlotsBefore
<1>3. CASE b \in Device!Recurrent(v.m)
  BY <1>1, <1>3, RowsAre DEF Area, Left, Attending
<1>4. CASE b \in Attending(v.m)
  <2>1. v.k \in Nat /\ v.p + v.t \in Nat
    BY DEF IsPass
  <2> QED
    BY <1>2, <1>4, <2>1 DEF Left, Area, Attending
<1>5. CASE b \notin Device!Caches(v.m)
  <2>1. Device!Rows(v.m, b) = DeviceBatch /\ DeviceBatch \in Nat \ {0}
    BY <1>1, <1>5, RowsAre, DeviceAssumption
  <2>2. v.t \in 1..DeviceBatch
    BY DEF IsPass
  <2>3. b \notin Device!Recurrent(v.m)
    BY <1>1, <1>5, Apart
  <2> QED
    BY <1>5, <2>1, <2>2, <2>3 DEF Area, Attending
<1> QED
  BY <1>3, <1>4, <1>5 DEF Attending

\* A buffer that gets a new content which is sound leaves everything else sound.
LEMMA ChangeSound ==
    ASSUME NEW v, NEW m, NEW S, Sound(v, m, S), NEW b \in Bound(v.m) \ Still(v.m), NEW f,
           DOMAIN f = DOMAIN m[b], Holds(v, [m EXCEPT ![b] = f], b),
           b \in Device!Caches(v.m) => \A r \in Left(v, b) : f[r] \subseteq {v.c}
    PROVE  Sound(v, [m EXCEPT ![b] = f], S \cup {b})
<1> DEFINE n == [m EXCEPT ![b] = f]
<1>1. DOMAIN n = DOMAIN m /\ (\A a \in DOMAIN m : n[a] = IF a = b THEN f ELSE m[a]) /\ b \in DOMAIN m
  BY DEF Sound, Shaped
<1> HIDE DEF n
<1>2. \A a : a # b => m[a] = n[a] \/ a \notin DOMAIN m
  BY <1>1
<1>3. Shaped(v.m, n)
  BY <1>1 DEF Sound, Shaped
<1>4. Pure(v.m, n)
  <2>1. \A a \in Still(v.m) \cap Bound(v.m) : n[a] = m[a]
    BY <1>1 DEF Sound, Shaped
  <2> QED
    BY <2>1 DEF Sound, Pure
<1>5. OwnBefore(v, n)
  <2>1. \A a \in Device!Caches(v.m) : a \in DOMAIN m
    BY DEF Sound, Shaped, Bound
  <2> QED
    BY <1>1, <2>1 DEF Sound, OwnBefore
<1>6. ASSUME NEW a \in S, a # b PROVE Holds(v, n, a)
  BY <1>1, <1>6 DEF Sound, Holds, n
<1> QED
  BY <1>3, <1>4, <1>5, <1>6 DEF Sound, n

\* The first rows of a buffer overwritten.
Over(m, b, n, row) ==
    [m EXCEPT ![b] = [r \in DOMAIN m[b] |-> IF r \in 1..n THEN row[r] ELSE m[b][r]]]

LEMMA OverSound ==
    ASSUME NEW v, IsPass(v), NEW m, NEW S, Sound(v, m, S), NEW b \in Bound(v.m) \ Still(v.m),
           b \notin Attending(v.m), NEW n \in Nat, Area(v, b) \subseteq 1..n, NEW row,
           \A r \in 1..n : row[r] \subseteq {v.c} /\ (b \notin Faint(v) => row[r] = {v.c})
    PROVE  Sound(v, Over(m, b, n, row), S \cup {b})
<1> DEFINE f == [r \in DOMAIN m[b] |-> IF r \in 1..n THEN row[r] ELSE m[b][r]]
<1>1. DOMAIN f = DOMAIN m[b] /\ b \in DOMAIN m
  BY DEF Sound, Shaped
<1>2. \A r \in Area(v, b) : f[r] = row[r] /\ r \in 1..n
  BY AreaInside DEF Sound, Shaped
<1> HIDE DEF f
<1>3. [m EXCEPT ![b] = f][b] = f
  BY <1>1
<1>4. Holds(v, [m EXCEPT ![b] = f], b)
  BY <1>2, <1>3 DEF Holds
<1>5. b \in Device!Caches(v.m) => Left(v, b) = {1} /\ Area(v, b) = {1}
  BY DEF Attending, Left, Area
<1>6. b \in Device!Caches(v.m) => \A r \in Left(v, b) : f[r] \subseteq {v.c}
  BY <1>2, <1>5
<1>7. Sound(v, [m EXCEPT ![b] = f], S \cup {b})
  BY <1>1, <1>4, <1>6, ChangeSound
<1> QED
  BY <1>7 DEF Over, f

-----------------------------------------------------------------------------
(* What one dispatch does.                                                 *)

Leads(v, d, S, T) == \A m : Sound(v, m, S) => Sound(v, Device!Touch(d, m, v.p, v.t), T)

\* The scratch of a row a token, and what of it a dispatch may write.
Plain(v) == Device!Scratch(v.m) \ {"conv_scratch"}
Open(v) == Plain(v) \ Still(v.m)

RowWise == {"embed", "matvec", "copy", "copy_rows", "split_half"}
ByRow == RowWise \cup Device!Blended

LEMMA PlainIs ==
    ASSUME NEW v, IsPass(v), NEW b \in Plain(v)
    PROVE  /\ Area(v, b) = 1..v.t /\ b \in Bound(v.m) /\ b \notin Device!Caches(v.m)
           /\ b \notin Attending(v.m)
           /\ b \notin Faint(v) <=> b \notin {"ple", "ple_cur"} \cup (IF v.e THEN {"tokens"} ELSE {})
<1>1. Device!Loadable(v.m)
  BY DeviceAssumption DEF IsPass
<1>2. b \in Device!Scratch(v.m) /\ b # "conv_scratch"
  BY DEF Plain
<1>3. b \notin Device!Caches(v.m) /\ b \notin Device!Recurrent(v.m)
  BY <1>1, <1>2, Apart
<1> QED
  BY <1>2, <1>3 DEF Area, Bound, Attending, Faint

LEMMA PlainRow ==
    ASSUME NEW v, IsPass(v), NEW m, NEW S, Sound(v, m, S), NEW b \in Plain(v), b \in S,
           NEW r \in 1..v.t
    PROVE  m[b][r] \subseteq {v.c} /\ (b \notin Faint(v) => m[b][r] = {v.c})
<1>1. Holds(v, m, b) /\ Area(v, b) = 1..v.t
  BY PlainIs DEF Sound
<1> QED
  BY <1>1 DEF Holds

LEMMA OpenSound ==
    ASSUME NEW v, IsPass(v), NEW m, NEW S, Sound(v, m, S), NEW b \in Open(v), NEW row,
           \A r \in 1..v.t : row[r] \subseteq {v.c} /\ (b \notin Faint(v) => row[r] = {v.c})
    PROVE  Sound(v, Over(m, b, v.t, row), S \cup {b})
<1>1. b \in Plain(v) /\ b \notin Still(v.m) /\ v.t \in Nat
  BY DEF Open, IsPass
<1>2. Area(v, b) \subseteq 1..v.t /\ b \in Bound(v.m) \ Still(v.m) /\ b \notin Attending(v.m)
  BY <1>1, PlainIs
<1> QED
  BY <1>1, <1>2, OverSound

\* In place, within a row: the data stay those of the row.
LEMMA InPlaceLeads ==
    ASSUME NEW v, NEW d, d.kernel \in Device!InPlace1, NEW S
    PROVE  Leads(v, d, S, S)
<1>1. d.kernel \notin {"write_cache", "scores", "weighted_v", "conv_shift", "conv_commit", "delta_recur"}
  BY DEF Device!InPlace1
<1>2. ASSUME NEW m PROVE Device!Touch(d, m, v.p, v.t) = m
  BY <1>1 DEF Device!Touch
<1> QED
  BY <1>2 DEF Leads

LEMMA TouchByRow ==
    ASSUME NEW d, d.kernel \in ByRow \cup {"conv_silu"}, NEW y, d.writes[Len(d.writes)] = y,
           NEW m, NEW p, NEW t
    PROVE  Device!Touch(d, m, p, t) = Over(m, y, t, [r \in 1..t |-> Device!Reads(d, m, r)])
<1> DEFINE row == [r \in 1..t |-> Device!Reads(d, m, r)]
<1>1. d.kernel \notin Device!InPlace1
      /\ d.kernel \notin {"write_cache", "scores", "weighted_v", "conv_shift", "conv_commit", "delta_recur"}
  BY DEF ByRow, RowWise, Device!InPlace1, Device!Blended
<1>2. Device!Touch(d, m, p, t)
      = [m EXCEPT ![y] = [r \in DOMAIN m[y] |-> IF r \in 1..t THEN Device!Reads(d, m, r) ELSE m[y][r]]]
  BY <1>1 DEF Device!Touch, Device!Put
<1>3. [r \in DOMAIN m[y] |-> IF r \in 1..t THEN Device!Reads(d, m, r) ELSE m[y][r]]
      = [r \in DOMAIN m[y] |-> IF r \in 1..t THEN row[r] ELSE m[y][r]]
  OBVIOUS
<1> QED
  BY <1>2, <1>3 DEF Over

LEMMA RowsLead ==
    ASSUME NEW v, IsPass(v), NEW d, d.kernel \in ByRow \cup {"conv_silu"}, NEW y \in Open(v),
           d.writes[Len(d.writes)] = y, NEW S,
           \A m : Sound(v, m, S) =>
               \A r \in 1..v.t : /\ Device!Reads(d, m, r) \subseteq {v.c}
                                 /\ y \notin Faint(v) => Device!Reads(d, m, r) = {v.c}
    PROVE  Leads(v, d, S, S \cup {y})
<1> SUFFICES ASSUME NEW m, Sound(v, m, S)
             PROVE  Sound(v, Device!Touch(d, m, v.p, v.t), S \cup {y})
  BY DEF Leads
<1> DEFINE row == [r \in 1..v.t |-> Device!Reads(d, m, r)]
<1>1. \A r \in 1..v.t : row[r] \subseteq {v.c} /\ (y \notin Faint(v) => row[r] = {v.c})
  OBVIOUS
<1>2. Device!Touch(d, m, v.p, v.t) = Over(m, y, v.t, row)
  BY TouchByRow
<1> HIDE DEF row
<1>3. Sound(v, Over(m, y, v.t, row), S \cup {y})
  BY <1>1, OpenSound
<1> QED
  BY <1>2, <1>3

LEMMA RowWiseLeads ==
    ASSUME NEW v, IsPass(v), NEW d, d.kernel \in RowWise, NEW S, NEW x \in Plain(v), NEW y \in Open(v),
           x = (IF d.kernel = "embed" THEN "tokens" ELSE d.reads[1]), d.writes[Len(d.writes)] = y,
           x \in S, x \in Faint(v) => y \in Faint(v)
    PROVE  Leads(v, d, S, S \cup {y})
<1>1. ASSUME NEW m, NEW r PROVE Device!Reads(d, m, r) = m[x][r]
  BY DEF RowWise, Device!Reads, Device!Blended
<1> QED
  BY <1>1, PlainRow, RowsLead DEF ByRow

LEMMA BlendedLeads ==
    ASSUME NEW v, IsPass(v), NEW d, d.kernel \in Device!Blended, NEW S, NEW x \in Plain(v),
           NEW y \in Open(v), x = d.reads[2], d.writes[Len(d.writes)] = y, d.writes[1] = y,
           x \in S, y \in S
    PROVE  Leads(v, d, S, S)
<1>1. ASSUME NEW m, NEW r PROVE Device!Reads(d, m, r) = m[x][r] \cup m[y][r]
  BY DEF Device!Blended, Device!Reads
<1>2. y \in Plain(v)
  BY DEF Open
<1>3. Leads(v, d, S, S \cup {y})
  BY <1>1, <1>2, PlainRow, RowsLead DEF ByRow
<1> QED
  BY <1>3, S \cup {y} = S

\* A query sees slots of positions up to the end of the batch only.
LEMMA SeenIsOwn ==
    ASSUME NEW v, IsPass(v), NEW m, NEW S, Sound(v, m, S), NEW b \in S, b \in Attending(v.m),
           NEW how, how[1] = KindOf(v.m, b), NEW r \in 1..v.t
    PROVE  UNION {m[b][s] : s \in Device!Visible(how, v.p, r, v.t)} \subseteq {v.c}
<1>1. v.p \in Nat /\ v.t \in Nat /\ DeviceWindow \in Nat \ {0}
  BY DeviceAssumption DEF IsPass
<1>2. Device!Visible(how, v.p, r, v.t) \subseteq SlotsBefore(v.m, b, v.p + v.t)
  <2> DEFINE q == v.p + r - 1
             first == IF how[1] = "window" /\ q >= DeviceWindow THEN q - DeviceWindow + 1 ELSE 0
             last == IF how[2] THEN v.p + v.t - 1 ELSE q
  <2>1. first \in Nat /\ last \in Int /\ last <= v.p + v.t - 1
    BY <1>1
  <2>2. Device!Visible(how, v.p, r, v.t) = {Device!Slot(how[1], i) : i \in first..last}
    BY DEF Device!Visible
  <2> HIDE DEF first, last
  <2>3. first..last \subseteq 0..(v.p + v.t - 1)
    BY <1>1, <2>1
  <2>4. \A i \in first..last : Device!Slot(how[1], i) \in SlotsBefore(v.m, b, v.p + v.t)
    BY <1>1, <2>1, <2>3, SlotsBeforeAre
  <2> QED
    BY <2>2, <2>4
<1>3. \A s \in SlotsBefore(v.m, b, v.p + v.t) : m[b][s] \subseteq {v.c}
  BY DEF Sound, Holds, Area
<1> QED
  BY <1>2, <1>3

LEMMA ScoresLead ==
    ASSUME NEW v, IsPass(v), NEW d, d.kernel = "scores", NEW S, "q" \in S, "q" \in Plain(v),
           NEW b \in S, b \in Attending(v.m), d.reads[2] = b, d.arg[1] = KindOf(v.m, b),
           "scores" \in Open(v)
    PROVE  Leads(v, d, S, S \cup {"scores"})
<1> SUFFICES ASSUME NEW m, Sound(v, m, S)
             PROVE  Sound(v, Device!Touch(d, m, v.p, v.t), S \cup {"scores"})
  BY DEF Leads
<1> DEFINE seen(r) == UNION {m[b][s] : s \in Device!Visible(d.arg, v.p, r, v.t)}
           row == [r \in 1..v.t |-> m["q"][r] \cup seen(r)]
<1>1. \A r \in 1..v.t : row[r] = {v.c}
  <2> SUFFICES ASSUME NEW r \in 1..v.t PROVE m["q"][r] \cup seen(r) = {v.c}
    OBVIOUS
  <2>1. seen(r) \subseteq {v.c}
    BY SeenIsOwn
  <2> HIDE DEF seen
  <2>2. m["q"][r] = {v.c}
    BY PlainIs, PlainRow
  <2> QED
    BY <2>1, <2>2
<1>2. Device!Touch(d, m, v.p, v.t)
      = [m EXCEPT !["scores"] = [r \in DOMAIN m["scores"] |->
             IF r \in 1..v.t THEN m["q"][r] \cup seen(r) ELSE m["scores"][r]]]
  BY DEF Device!Touch, Device!Put, Device!InPlace1
<1> HIDE DEF seen
<1>3. [r \in DOMAIN m["scores"] |-> IF r \in 1..v.t THEN m["q"][r] \cup seen(r) ELSE m["scores"][r]]
      = [r \in DOMAIN m["scores"] |-> IF r \in 1..v.t THEN row[r] ELSE m["scores"][r]]
  OBVIOUS
<1>4. Device!Touch(d, m, v.p, v.t) = Over(m, "scores", v.t, row)
  BY <1>2, <1>3 DEF Over
<1> HIDE DEF row
<1>5. Sound(v, Over(m, "scores", v.t, row), S \cup {"scores"})
  BY <1>1, OpenSound
<1> QED
  BY <1>4, <1>5

LEMMA WeightedLead ==
    ASSUME NEW v, IsPass(v), NEW d, d.kernel = "weighted_v", NEW S, "scores" \in S,
           "scores" \in Plain(v), NEW b \in S, b \in Attending(v.m), d.reads[3] = b,
           d.arg[1] = KindOf(v.m, b), "attn" \in Open(v)
    PROVE  Leads(v, d, S, S \cup {"attn"})
<1> SUFFICES ASSUME NEW m, Sound(v, m, S)
             PROVE  Sound(v, Device!Touch(d, m, v.p, v.t), S \cup {"attn"})
  BY DEF Leads
<1> DEFINE seen(r) == UNION {m[b][s] : s \in Device!Visible(d.arg, v.p, r, v.t)}
           row == [r \in 1..v.t |-> m["scores"][r] \cup seen(r)]
<1>1. \A r \in 1..v.t : row[r] = {v.c}
  <2> SUFFICES ASSUME NEW r \in 1..v.t PROVE m["scores"][r] \cup seen(r) = {v.c}
    OBVIOUS
  <2>1. seen(r) \subseteq {v.c}
    BY SeenIsOwn
  <2> HIDE DEF seen
  <2>2. m["scores"][r] = {v.c}
    BY PlainIs, PlainRow
  <2> QED
    BY <2>1, <2>2
<1>2. Device!Touch(d, m, v.p, v.t)
      = [m EXCEPT !["attn"] = [r \in DOMAIN m["attn"] |->
             IF r \in 1..v.t THEN m["scores"][r] \cup seen(r) ELSE m["attn"][r]]]
  BY DEF Device!Touch, Device!Put, Device!InPlace1
<1> HIDE DEF seen
<1>3. [r \in DOMAIN m["attn"] |-> IF r \in 1..v.t THEN m["scores"][r] \cup seen(r) ELSE m["attn"][r]]
      = [r \in DOMAIN m["attn"] |-> IF r \in 1..v.t THEN row[r] ELSE m["attn"][r]]
  OBVIOUS
<1>4. Device!Touch(d, m, v.p, v.t) = Over(m, "attn", v.t, row)
  BY <1>2, <1>3 DEF Over
<1> HIDE DEF row
<1>5. Sound(v, Over(m, "attn", v.t, row), S \cup {"attn"})
  BY <1>1, OpenSound
<1> QED
  BY <1>4, <1>5

\* A cache holds the batch as well once its keys or values are stored.
LEMMA WriteLeads ==
    ASSUME NEW v, IsPass(v), v.k = v.p, NEW d, d.kernel = "write_cache", NEW S, NEW x \in S,
           x \in Plain(v), d.reads[1] = x, NEW b \in Attending(v.m), d.writes[Len(d.writes)] = b,
           d.arg = KindOf(v.m, b)
    PROVE  Leads(v, d, S, S \cup {b})
<1> SUFFICES ASSUME NEW m, Sound(v, m, S)
             PROVE  Sound(v, Device!Touch(d, m, v.p, v.t), S \cup {b})
  BY DEF Leads
<1> DEFINE mine(s) == {r \in 1..v.t : Device!Slot(KindOf(v.m, b), v.p + r - 1) = s}
           f == [s \in DOMAIN m[b] |-> IF mine(s) = {} THEN m[b][s] ELSE UNION {m[x][r] : r \in mine(s)}]
<1>1. Device!Touch(d, m, v.p, v.t) = [m EXCEPT ![b] = f]
  BY DEF Device!Touch, Device!InPlace1
<1>2. Device!Loadable(v.m) /\ v.p \in Nat /\ v.t \in Nat
  BY DeviceAssumption DEF IsPass
<1>3. b \in Bound(v.m) /\ b \in Device!Caches(v.m) /\ b \notin Device!Recurrent(v.m)
      /\ b \notin Device!Scratch(v.m) \cup {Device!ZERO}
  BY <1>2, Apart DEF Attending, Bound
<1>4. b \notin Still(v.m)
  BY <1>3 DEF Still, Device!Scratch, Device!G!Scratch, Device!PleBuffers
<1>5. b \in DOMAIN m /\ DOMAIN f = DOMAIN m[b] /\ DOMAIN m[b] = 1..Device!Rows(v.m, b)
  BY <1>3 DEF Sound, Shaped
<1>6. \A r \in 1..v.t : m[x][r] \subseteq {v.c}
  BY PlainRow
<1>7. ASSUME NEW q \in 0..(v.p + v.t - 1), NEW s, s = Device!Slot(KindOf(v.m, b), q), s \in DOMAIN m[b]
      PROVE  f[s] \subseteq {v.c}
  <2>1. CASE mine(s) = {}
    <3>1. q < v.p
      <4> SUFFICES ASSUME q >= v.p PROVE FALSE
        BY <1>2
      <4>1. q - v.p + 1 \in 1..v.t /\ v.p + (q - v.p + 1) - 1 = q
        BY <1>2
      <4>2. q - v.p + 1 \in mine(s)
        BY <1>7, <4>1
      <4> QED
        BY <2>1, <4>2
    <3>2. s \in Left(v, b)
      BY <1>2, <1>3, <1>7, <3>1 DEF Left, SlotsBefore
    <3>3. m[b][s] \subseteq {v.c}
      BY <1>3, <3>2 DEF Sound, OwnBefore
    <3> QED
      BY <1>7, <2>1, <3>3
  <2>2. CASE mine(s) # {}
    <3>1. \A r \in mine(s) : m[x][r] \subseteq {v.c}
      BY <1>6
    <3>2. f[s] = UNION {m[x][r] : r \in mine(s)}
      BY <1>7, <2>2
    <3> HIDE DEF mine, f
    <3> QED
      BY <3>1, <3>2
  <2> QED
    BY <2>1, <2>2
<1> HIDE DEF f
<1>8. Area(v, b) = SlotsBefore(v.m, b, v.p + v.t) /\ Left(v, b) = SlotsBefore(v.m, b, v.p)
  BY <1>3 DEF Area, Left
<1>9. \A r \in Area(v, b) \cup Left(v, b) : r \in DOMAIN m[b]
  BY <1>3, <1>5, AreaInside
<1>10. \A r \in Area(v, b) \cup Left(v, b) : f[r] \subseteq {v.c}
  <2> SUFFICES ASSUME NEW r \in Area(v, b) \cup Left(v, b) PROVE f[r] \subseteq {v.c}
    OBVIOUS
  <2>1. PICK n \in {v.p + v.t, v.p} : r \in SlotsBefore(v.m, b, n)
    BY <1>8
  <2>2. PICK q \in 0..(n - 1) : r = Device!Slot(KindOf(v.m, b), q)
    BY <2>1, SlotsBeforeAre
  <2>3. q \in 0..(v.p + v.t - 1)
    BY <1>2
  <2> QED
    BY <1>7, <1>9, <2>2, <2>3
<1>11. [m EXCEPT ![b] = f][b] = f
  BY <1>5
<1>12. b \in Faint(v)
  BY <1>3 DEF Faint
<1>13. Holds(v, [m EXCEPT ![b] = f], b)
  BY <1>10, <1>11, <1>12 DEF Holds
<1>14. Sound(v, [m EXCEPT ![b] = f], S \cup {b})
  BY <1>3, <1>4, <1>5, <1>10, <1>13, ChangeSound
<1> QED
  BY <1>1, <1>14

-----------------------------------------------------------------------------
(* The kernels of linear attention, which keep their state in one row.     *)

LEMMA StateRow ==
    ASSUME NEW v, NEW m, NEW S, Sound(v, m, S), NEW b \in Device!Recurrent(v.m), IsPass(v)
    PROVE  /\ m[b][1] \subseteq {v.c} /\ b \in Bound(v.m) \ Still(v.m) /\ b \notin Attending(v.m)
           /\ Area(v, b) = {1} /\ b \in Faint(v)
<1>1. Device!Loadable(v.m)
  BY DeviceAssumption DEF IsPass
<1>2. b \in Device!Caches(v.m) /\ b \notin Device!Scratch(v.m) \cup {Device!ZERO}
  BY <1>1, Apart
<1>3. m[b][1] \subseteq {v.c}
  BY <1>2 DEF Sound, OwnBefore, Left
<1> QED
  BY <1>2, <1>3 DEF Bound, Attending, Area, Faint, Still, Device!Scratch, Device!G!Scratch, Device!PleBuffers

LEMMA ConvLeads ==
    ASSUME NEW v, IsPass(v), NEW d, d.kernel = "conv_silu", NEW S, NEW b \in Device!Recurrent(v.m),
           d.writes[1] = b, NEW x \in Plain(v) \ Faint(v), d.reads[1] = x, x \in S,
           NEW y \in Open(v), d.writes[Len(d.writes)] = y
    PROVE  Leads(v, d, S, S \cup {y})
<1> SUFFICES ASSUME NEW m, Sound(v, m, S), NEW r \in 1..v.t
             PROVE  Device!Reads(d, m, r) = {v.c}
  BY RowsLead
<1>1. Device!Reads(d, m, r) = m[b][1] \cup UNION {m[x][i] : i \in 1..r}
  BY DEF Device!Reads, Device!Blended
<1>2. 1..r \subseteq 1..v.t /\ r \in 1..r
  BY DEF IsPass
<1>3. \A i \in 1..r : m[x][i] = {v.c}
  BY <1>2, PlainRow
<1>4. UNION {m[x][i] : i \in 1..r} = {v.c}
  BY <1>2, <1>3
<1> QED
  BY <1>1, <1>4, StateRow

LEMMA ShiftLeads ==
    ASSUME NEW v, IsPass(v), NEW d, d.kernel = "conv_shift", NEW S, NEW b \in Device!Recurrent(v.m),
           d.writes[1] = b, NEW x \in Plain(v), d.reads[1] = x, x \in S,
           "conv_scratch" \in Device!Scratch(v.m) \ Still(v.m), d.writes[Len(d.writes)] = "conv_scratch"
    PROVE  Leads(v, d, S, S \cup {"conv_scratch"})
<1> SUFFICES ASSUME NEW m, Sound(v, m, S)
             PROVE  Sound(v, Device!Touch(d, m, v.p, v.t), S \cup {"conv_scratch"})
  BY DEF Leads
<1> DEFINE shifted == m[b][1] \cup UNION {m[x][i] : i \in 1..v.t}
           row == [r \in 1..1 |-> shifted]
<1>1. shifted \subseteq {v.c}
  <2>1. \A i \in 1..v.t : m[x][i] \subseteq {v.c}
    BY PlainRow
  <2> QED
    BY <2>1, StateRow
<1>2. Device!Touch(d, m, v.p, v.t)
      = [m EXCEPT !["conv_scratch"] = [r \in DOMAIN m["conv_scratch"] |->
             IF r \in 1..1 THEN shifted ELSE m["conv_scratch"][r]]]
  BY DEF Device!Touch, Device!Put, Device!InPlace1
<1> HIDE DEF shifted
<1>3. [r \in DOMAIN m["conv_scratch"] |-> IF r \in 1..1 THEN shifted ELSE m["conv_scratch"][r]]
      = [r \in DOMAIN m["conv_scratch"] |-> IF r \in 1..1 THEN row[r] ELSE m["conv_scratch"][r]]
  OBVIOUS
<1>4. Device!Touch(d, m, v.p, v.t) = Over(m, "conv_scratch", 1, row)
  BY <1>2, <1>3 DEF Over
<1>5. \A r \in 1..1 : row[r] \subseteq {v.c}
  BY <1>1
<1> HIDE DEF row
<1>6. Device!Loadable(v.m)
  BY DeviceAssumption DEF IsPass
<1>7. "conv_scratch" \notin Device!Caches(v.m)
  BY <1>6, Apart
<1>8. /\ "conv_scratch" \in Bound(v.m) \ Still(v.m) /\ "conv_scratch" \notin Attending(v.m)
      /\ Area(v, "conv_scratch") \subseteq 1..1 /\ "conv_scratch" \in Faint(v)
  BY <1>7 DEF Bound, Attending, Area, Faint
<1>9. Sound(v, Over(m, "conv_scratch", 1, row), S \cup {"conv_scratch"})
  BY <1>5, <1>8, OverSound
<1> QED
  BY <1>4, <1>9

LEMMA CommitLeads ==
    ASSUME NEW v, IsPass(v), NEW d, d.kernel = "conv_commit", NEW S, NEW b \in Device!Recurrent(v.m),
           d.writes[1] = b, d.reads[1] = "conv_scratch", "conv_scratch" \in S,
           "conv_scratch" \in Device!Scratch(v.m)
    PROVE  Leads(v, d, S, S)
<1> SUFFICES ASSUME NEW m, Sound(v, m, S) PROVE Sound(v, Device!Touch(d, m, v.p, v.t), S)
  BY DEF Leads
<1> DEFINE row == [r \in 1..1 |-> m["conv_scratch"][1]]
<1>1. m["conv_scratch"][1] \subseteq {v.c}
  <2>1. Device!Loadable(v.m)
    BY DeviceAssumption DEF IsPass
  <2>2. "conv_scratch" \notin Attending(v.m)
    BY <2>1, Apart DEF Attending
  <2> QED
    BY <2>2 DEF Sound, Holds, Area
<1>2. Device!Touch(d, m, v.p, v.t)
      = [m EXCEPT ![b] = [r \in DOMAIN m[b] |-> IF r \in 1..1 THEN m["conv_scratch"][1] ELSE m[b][r]]]
  BY DEF Device!Touch, Device!Put, Device!InPlace1
<1>3. [r \in DOMAIN m[b] |-> IF r \in 1..1 THEN m["conv_scratch"][1] ELSE m[b][r]]
      = [r \in DOMAIN m[b] |-> IF r \in 1..1 THEN row[r] ELSE m[b][r]]
  OBVIOUS
<1>4. Device!Touch(d, m, v.p, v.t) = Over(m, b, 1, row)
  BY <1>2, <1>3 DEF Over
<1>5. \A r \in 1..1 : row[r] \subseteq {v.c}
  BY <1>1
<1> HIDE DEF row
<1>6. Sound(v, Over(m, b, 1, row), S \cup {b})
  BY <1>5, StateRow, OverSound
<1> QED
  BY <1>4, <1>6 DEF Sound

LEMMA RecurLeads ==
    ASSUME NEW v, IsPass(v), NEW d, d.kernel = "delta_recur", NEW S, NEW b \in Device!Recurrent(v.m),
           d.writes[1] = b, \A j \in 1..3 : d.reads[j] \in S \cap (Plain(v) \ Faint(v)),
           NEW y \in Open(v), d.writes[Len(d.writes)] = y
    PROVE  Leads(v, d, S, S \cup {y})
<1> SUFFICES ASSUME NEW m, Sound(v, m, S)
             PROVE  Sound(v, Device!Touch(d, m, v.p, v.t), S \cup {y})
  BY DEF Leads
<1>1. ASSUME NEW r \in 1..v.t PROVE Device!Reads(d, m, r) = {v.c}
  <2> DEFINE data == {m[d.reads[j]][i] : i \in 1..r, j \in 1..3}
  <2>1. Device!Reads(d, m, r) = m[b][1] \cup UNION data
    BY DEF Device!Reads, Device!Blended
  <2>2. \A i \in 1..r, j \in 1..3 : m[d.reads[j]][i] = {v.c}
    <3>1. 1..r \subseteq 1..v.t
      BY DEF IsPass
    <3> QED
      BY <3>1, PlainRow
  <2>3. data = {{v.c}}
    <3>1. r \in 1..r /\ 1 \in 1..3
      BY DEF IsPass
    <3>2. m[d.reads[1]][r] \in data
      BY <3>1
    <3>3. m[d.reads[1]][r] = {v.c}
      BY <2>2, <3>1
    <3>4. \A x \in data : x = {v.c}
      BY <2>2
    <3> HIDE DEF data
    <3> QED
      BY <3>2, <3>3, <3>4
  <2> HIDE DEF data
  <2>4. UNION data = {v.c}
    BY <2>3
  <2>5. m[b][1] \subseteq {v.c}
    BY StateRow
  <2> QED
    BY <2>1, <2>4, <2>5
<1> DEFINE out == [r \in 1..v.t |-> Device!Reads(d, m, r)]
           state == [r \in 1..1 |-> Device!Reads(d, m, v.t)]
           n == Over(m, y, v.t, out)
<1>2. Device!Touch(d, m, v.p, v.t) = Over(n, b, 1, state)
  <2> DEFINE f == [r \in DOMAIN m[y] |-> IF r \in 1..v.t THEN Device!Reads(d, m, r) ELSE m[y][r]]
             k == [m EXCEPT ![y] = f]
  <2>1. Device!Touch(d, m, v.p, v.t)
        = [k EXCEPT ![b] = [r \in DOMAIN k[b] |-> IF r \in 1..1 THEN Device!Reads(d, m, v.t) ELSE k[b][r]]]
    BY DEF Device!Touch, Device!Put, Device!InPlace1
  <2>2. f = [r \in DOMAIN m[y] |-> IF r \in 1..v.t THEN out[r] ELSE m[y][r]]
    OBVIOUS
  <2>3. k = n
    BY <2>2 DEF Over
  <2> HIDE DEF k, n
  <2>4. [r \in DOMAIN n[b] |-> IF r \in 1..1 THEN Device!Reads(d, m, v.t) ELSE n[b][r]]
        = [r \in DOMAIN n[b] |-> IF r \in 1..1 THEN state[r] ELSE n[b][r]]
    OBVIOUS
  <2> QED
    BY <2>1, <2>3, <2>4 DEF Over
<1>3. \A r \in 1..v.t : out[r] = {v.c}
  BY <1>1
<1>4. \A r \in 1..1 : state[r] = {v.c}
  <2>1. v.t \in 1..v.t
    BY DEF IsPass
  <2> QED
    BY <1>1, <2>1
<1> HIDE DEF out, state
<1>5. Sound(v, n, S \cup {y})
  BY <1>3, OpenSound
<1> HIDE DEF n
<1>6. Sound(v, Over(n, b, 1, state), S \cup {y} \cup {b})
  BY <1>4, <1>5, StateRow, OverSound
<1> QED
  BY <1>2, <1>6 DEF Sound

-----------------------------------------------------------------------------
(* Plans: a plan flows from S to T if, played when the buffers of S are    *)
(* sound, it leaves those of T sound.                                      *)

IsPlayTo(f, plan, m, p, t, n) ==
    f = [i \in 0..n |-> IF i = 0 THEN m ELSE Device!Touch(plan[i], f[i - 1], p, t)]
IsPlay(f, plan, m, p, t) == IsPlayTo(f, plan, m, p, t, Len(plan))
IsList(plan) == \E D : plan \in Seq(D)
Flows(v, plan, S, T) ==
    /\ IsList(plan)
    /\ \A m, f : Sound(v, m, S) /\ IsPlay(f, plan, m, v.p, v.t) => Sound(v, f[Len(plan)], T)

LEMMA FlowsNone == ASSUME NEW v, NEW S PROVE Flows(v, <<>>, S, S)
<1>1. IsList(<<>>)
  <2>1. <<>> \in Seq({})
    OBVIOUS
  <2> QED
    BY <2>1 DEF IsList
<1>2. ASSUME NEW m, NEW f, IsPlay(f, <<>>, m, v.p, v.t) PROVE f[Len(<<>>)] = m
  BY <1>2 DEF IsPlay, IsPlayTo
<1> QED
  BY <1>1, <1>2 DEF Flows

LEMMA FlowsOne == ASSUME NEW v, NEW d, NEW S, NEW T, Leads(v, d, S, T) PROVE Flows(v, <<d>>, S, T)
<1>1. IsList(<<d>>)
  <2>1. <<d>> \in Seq({d})
    OBVIOUS
  <2> QED
    BY <2>1 DEF IsList
<1>2. ASSUME NEW m, NEW f, IsPlay(f, <<d>>, m, v.p, v.t)
      PROVE  f[Len(<<d>>)] = Device!Touch(d, m, v.p, v.t)
  <2>1. Len(<<d>>) = 1 /\ <<d>>[1] = d
    OBVIOUS
  <2>2. f[0] = m /\ f[1] = Device!Touch(<<d>>[1], f[1 - 1], v.p, v.t)
    BY <1>2, <2>1 DEF IsPlay, IsPlayTo
  <2> QED
    BY <2>1, <2>2
<1> QED
  BY <1>1, <1>2 DEF Flows, Leads

LEMMA ListsJoin ==
    ASSUME NEW a, IsList(a), NEW b, IsList(b)
    PROVE  /\ IsList(a \o b) /\ Len(a) \in Nat /\ Len(b) \in Nat /\ Len(a \o b) = Len(a) + Len(b)
           /\ \A i \in 1..Len(a) : (a \o b)[i] = a[i]
           /\ \A i \in 1..Len(b) : (a \o b)[Len(a) + i] = b[i]
<1>1. PICK D : a \in Seq(D)
  BY DEF IsList
<1>2. PICK E : b \in Seq(E)
  BY DEF IsList
<1>3. a \in Seq(D \cup E) /\ b \in Seq(D \cup E)
  BY <1>1, <1>2
<1>4. a \o b \in Seq(D \cup E)
  BY <1>3
<1>5. IsList(a \o b)
  BY <1>4 DEF IsList
<1> QED
  BY <1>3, <1>5, Joined

LEMMA FlowsJoin ==
    ASSUME NEW v, NEW a, NEW b, NEW S, NEW T, NEW U, Flows(v, a, S, T), Flows(v, b, T, U)
    PROVE  Flows(v, a \o b, S, U)
<1>1. /\ IsList(a \o b) /\ Len(a) \in Nat /\ Len(b) \in Nat /\ Len(a \o b) = Len(a) + Len(b)
      /\ \A i \in 1..Len(a) : (a \o b)[i] = a[i]
      /\ \A i \in 1..Len(b) : (a \o b)[Len(a) + i] = b[i]
  BY ListsJoin DEF Flows
<1> DEFINE c == a \o b
<1>2. c = a \o b
  OBVIOUS
<1> HIDE DEF c
<1> SUFFICES ASSUME NEW m, NEW f, Sound(v, m, S), IsPlay(f, c, m, v.p, v.t)
             PROVE  Sound(v, f[Len(c)], U)
  BY <1>1, <1>2 DEF Flows
<1>3. /\ f[0] = m
      /\ \A i \in 1..(Len(a) + Len(b)) : f[i] = Device!Touch(c[i], f[i - 1], v.p, v.t)
  BY <1>1, <1>2 DEF IsPlay, IsPlayTo
<1> DEFINE first == [i \in 0..Len(a) |-> f[i]]
           then == [i \in 0..Len(b) |-> f[Len(a) + i]]
<1>4. IsPlay(first, a, m, v.p, v.t)
  <2>1. \A i \in 1..Len(a) : i - 1 \in 0..Len(a) /\ i \in 1..(Len(a) + Len(b))
    BY <1>1
  <2>2. \A i \in 1..Len(a) : f[i] = Device!Touch(a[i], first[i - 1], v.p, v.t)
    BY <1>1, <1>2, <1>3, <2>1
  <2>3. first = [i \in 0..Len(a) |-> IF i = 0 THEN m ELSE Device!Touch(a[i], first[i - 1], v.p, v.t)]
    BY <1>1, <1>3, <2>2
  <2> HIDE DEF first
  <2> QED
    BY <2>3 DEF IsPlay, IsPlayTo
<1>5. first[Len(a)] = f[Len(a)] /\ then[0] = f[Len(a)]
  BY <1>1
<1>6. Sound(v, f[Len(a)], T)
  BY <1>4, <1>5 DEF Flows
<1>7. IsPlay(then, b, f[Len(a)], v.p, v.t)
  <2>1. \A i \in 1..Len(b) : /\ i - 1 \in 0..Len(b) /\ Len(a) + i \in 1..(Len(a) + Len(b))
                             /\ Len(a) + i - 1 = Len(a) + (i - 1)
    BY <1>1
  <2>2. \A i \in 1..Len(b) : then[i - 1] = f[Len(a) + i - 1]
    BY <2>1
  <2>3. \A i \in 1..Len(b) : f[Len(a) + i] = Device!Touch(c[Len(a) + i], f[Len(a) + i - 1], v.p, v.t)
    BY <1>3, <2>1
  <2>4. \A i \in 1..Len(b) : f[Len(a) + i] = Device!Touch(b[i], then[i - 1], v.p, v.t)
    BY <1>1, <1>2, <2>2, <2>3
  <2> DEFINE next(i) == IF i = 0 THEN f[Len(a)] ELSE Device!Touch(b[i], then[i - 1], v.p, v.t)
  <2>a. ASSUME NEW i \in 0..Len(b) PROVE f[Len(a) + i] = next(i)
    <3>1. CASE i = 0
      BY <1>1, <3>1
    <3>2. CASE i # 0
      <4>1. i \in 1..Len(b)
        BY <1>1, <3>2
      <4> QED
        BY <2>4, <3>2, <4>1
    <3> QED
      BY <3>1, <3>2
  <2> HIDE DEF next
  <2>b. then = [i \in 0..Len(b) |-> next(i)]
    BY <2>a
  <2>5. then = [i \in 0..Len(b) |-> IF i = 0 THEN f[Len(a)] ELSE Device!Touch(b[i], then[i - 1], v.p, v.t)]
    BY <2>b DEF next
  <2> HIDE DEF then
  <2> QED
    BY <2>5 DEF IsPlay, IsPlayTo
<1>8. then[Len(b)] = f[Len(c)]
  BY <1>1, <1>2
<1> QED
  BY <1>6, <1>7, <1>8 DEF Flows

LEMMA FlowsWeaker ==
    ASSUME NEW v, NEW plan, NEW S, NEW R, S \subseteq R, NEW T, NEW U, U \subseteq T, Flows(v, plan, S, T)
    PROVE  Flows(v, plan, R, U)
BY DEF Flows, Sound

LEMMA PlayExists ==
    ASSUME NEW plan, NEW m, NEW p, NEW t, NEW n \in Nat
    PROVE  \E f : IsPlayTo(f, plan, m, p, t, n)
<1> DEFINE Is(f, k) == IsPlayTo(f, plan, m, p, t, k)
           Missing == {k \in Nat : ~\E f : Is(f, k)}
<1>1. 0 \notin Missing
  <2> DEFINE f == [i \in 0..0 |-> m]
  <2>1. Is(f, 0)
    BY DEF IsPlayTo
  <2> QED
    BY <2>1
<1>2. ASSUME NEW k \in Missing PROVE k - 1 \in Missing
  <2> SUFFICES ASSUME k - 1 \notin Missing PROVE FALSE
    OBVIOUS
  <2>1. k \in Nat /\ k - 1 \in Nat
    BY <1>1
  <2>2. PICK f : Is(f, k - 1)
    BY <2>1
  <2> DEFINE g == [i \in 0..k |-> IF i = k THEN Device!Touch(plan[k], f[k - 1], p, t) ELSE f[i]]
  <2>3. \A i \in 0..(k - 1) : g[i] = f[i]
    BY <2>1
  <2>4. \A i \in 1..(k - 1) : i - 1 \in 0..(k - 1) /\ f[i] = Device!Touch(plan[i], f[i - 1], p, t)
    BY <2>1, <2>2 DEF IsPlayTo
  <2>5. f[0] = m
    BY <2>1, <2>2 DEF IsPlayTo
  <2>6. \A i \in 0..k : g[i] = IF i = 0 THEN m ELSE Device!Touch(plan[i], g[i - 1], p, t)
    BY <2>1, <2>3, <2>4, <2>5
  <2>7. Is(g, k)
    BY <2>6 DEF IsPlayTo
  <2> QED
    BY <2>7
<1>3. Missing = {}
  <2> HIDE DEF Is
  <2> QED
    BY <1>1, <1>2, LeastNumber
<1> QED
  BY <1>3

LEMMA PlaySound ==
    ASSUME NEW v, NEW plan, NEW S, NEW T, Flows(v, plan, S, T), NEW m, Sound(v, m, S)
    PROVE  Sound(v, Device!Play(plan, m, v.p, v.t), T)
<1>1. PICK D : plan \in Seq(D)
  BY DEF Flows, IsList
<1>2. Len(plan) \in Nat
  BY <1>1
<1> DEFINE g == CHOOSE f : IsPlay(f, plan, m, v.p, v.t)
<1>3. IsPlay(g, plan, m, v.p, v.t)
  <2>1. \E f : IsPlay(f, plan, m, v.p, v.t)
    BY <1>2, PlayExists DEF IsPlay
  <2> QED
    BY <2>1
<1>4. Device!Play(plan, m, v.p, v.t) = g[Len(plan)]
  BY DEF Device!Play, IsPlay, IsPlayTo
<1> HIDE DEF g
<1> QED
  BY <1>3, <1>4 DEF Flows


-----------------------------------------------------------------------------
(* Dispatches by their constructors.                                       *)

Full(v) == Open(v) \ Faint(v)

LEMMA FullIs == ASSUME NEW v PROVE Full(v) \subseteq Plain(v) /\ Full(v) \subseteq Open(v) /\ Open(v) \subseteq Plain(v)
BY DEF Full, Open

LEMMA MarkLeads ==
    ASSUME NEW v, NEW S, NEW x, NEW y
    PROVE  Leads(v, Device!G!Mark(x, y), S, S) /\ Leads(v, Device!Q!Mark(x, y), S, S)
<1>1. Device!G!Mark(x, y).kernel = "mark" /\ Device!Q!Mark(x, y).kernel = "mark"
  BY DEF Device!G!Mark, Device!Q!Mark
<1> QED
  BY <1>1, InPlaceLeads DEF Device!InPlace1

LEMMA PlaceLeads ==
    ASSUME NEW v, NEW S, NEW kernel0 \in Device!InPlace1, NEW arg, NEW y, NEW n
    PROVE  /\ Leads(v, Device!G!InPlace(kernel0, arg, y, n), S, S)
           /\ Leads(v, Device!Q!InPlace(kernel0, arg, y, n), S, S)
<1>1. Device!G!InPlace(kernel0, arg, y, n).kernel = kernel0 /\ Device!Q!InPlace(kernel0, arg, y, n).kernel = kernel0
  BY DEF Device!G!InPlace, Device!Q!InPlace, Device!G!Op, Device!Q!Op
<1> QED
  BY <1>1, InPlaceLeads

LEMMA NormLeads ==
    ASSUME NEW v, NEW S, NEW gain, NEW per, NEW y, NEW n
    PROVE  Leads(v, Device!G!Norm(gain, per, y, n), S, S) /\ Leads(v, Device!Q!Norm(gain, per, y, n), S, S)
<1>1. /\ Device!G!Norm(gain, per, y, n).kernel = "rms_norm"
      /\ Device!Q!Norm(gain, per, y, n).kernel = "rms_norm"
  BY DEF Device!G!Norm, Device!Q!Norm, Device!G!Op, Device!Q!Op
<1> QED
  BY <1>1, InPlaceLeads DEF Device!InPlace1

LEMMA MatVecLeads ==
    ASSUME NEW v, IsPass(v), NEW S, NEW x \in S, x \in Full(v), NEW y \in Full(v), NEW w, NEW n
    PROVE  /\ Leads(v, Device!G!MatVec(w, x, y, n), S, S \cup {y})
           /\ Leads(v, Device!Q!MatVec(w, x, y, n), S, S \cup {y})
<1>1. x \in Plain(v) /\ y \in Open(v) /\ x \notin Faint(v)
  BY FullIs DEF Full
<1>2. ASSUME NEW d, d = Device!G!MatVec(w, x, y, n) \/ d = Device!Q!MatVec(w, x, y, n)
      PROVE  Leads(v, d, S, S \cup {y})
  <2>1. d.kernel = "matvec" /\ d.reads[1] = x /\ d.writes = <<y>>
    BY <1>2 DEF Device!G!MatVec, Device!Q!MatVec
  <2>2. d.kernel \in RowWise /\ d.kernel # "embed" /\ d.writes[Len(d.writes)] = y
    BY <2>1 DEF RowWise
  <2> QED
    BY <1>1, <2>1, <2>2, RowWiseLeads
<1> QED
  BY <1>2

LEMMA LookupLeads ==
    ASSUME NEW v, IsPass(v), NEW S, "tokens" \in S, "tokens" \in Plain(v), NEW y \in Open(v),
           "tokens" \in Faint(v) => y \in Faint(v), NEW w, NEW n
    PROVE  /\ Leads(v, Device!G!Lookup(w, y, n), S, S \cup {y})
           /\ Leads(v, Device!Q!Lookup(w, y, n), S, S \cup {y})
<1>1. ASSUME NEW d \in {Device!G!Lookup(w, y, n), Device!Q!Lookup(w, y, n)}
      PROVE  Leads(v, d, S, S \cup {y})
  <2>1. d.kernel = "embed" /\ d.writes = <<y>>
    BY <1>1 DEF Device!G!Lookup, Device!Q!Lookup, Device!G!MatVec, Device!Q!MatVec
  <2>2. d.kernel \in RowWise /\ d.writes[Len(d.writes)] = y
    BY <2>1 DEF RowWise
  <2> QED
    BY <2>1, <2>2, RowWiseLeads
<1> QED
  BY <1>1

LEMMA RowOpLeads ==
    ASSUME NEW v, IsPass(v), NEW S, NEW x \in S, x \in Plain(v), NEW y \in Open(v),
           x \in Faint(v) => y \in Faint(v), NEW kernel0 \in {"copy", "copy_rows", "split_half"}, NEW arg, NEW z, NEW n
    PROVE  /\ Leads(v, Device!G!Op(kernel0, arg, x, z, y, n), S, S \cup {y})
           /\ Leads(v, Device!Q!Op(kernel0, arg, x, z, y, n), S, S \cup {y})
<1>1. ASSUME NEW d \in {Device!G!Op(kernel0, arg, x, z, y, n), Device!Q!Op(kernel0, arg, x, z, y, n)}
      PROVE  Leads(v, d, S, S \cup {y})
  <2>1. d.kernel = kernel0 /\ d.reads = <<x, z>> /\ d.writes = <<y>>
    BY <1>1 DEF Device!G!Op, Device!Q!Op
  <2>2. d.kernel \in RowWise /\ d.kernel # "embed" /\ d.reads[1] = x /\ d.writes[Len(d.writes)] = y
    BY <2>1 DEF RowWise
  <2> QED
    BY <2>2, RowWiseLeads
<1> QED
  BY <1>1

LEMMA CopyLeads ==
    ASSUME NEW v, IsPass(v), NEW S, NEW x \in S, x \in Full(v), NEW y \in Full(v), NEW n
    PROVE  /\ Leads(v, Device!G!Copy(x, y, n), S, S \cup {y})
           /\ Leads(v, Device!Q!Copy(x, y, n), S, S \cup {y})
<1>1. ASSUME NEW arg, NEW z
      PROVE  /\ Leads(v, Device!G!Op("copy", arg, x, z, y, n), S, S \cup {y})
             /\ Leads(v, Device!Q!Op("copy", arg, x, z, y, n), S, S \cup {y})
  <2>1. x \in Plain(v) /\ y \in Open(v) /\ x \notin Faint(v)
    BY FullIs DEF Full
  <2> QED
    BY <2>1, RowOpLeads
<1> QED
  BY <1>1, Zenon DEF Device!G!Copy, Device!Q!Copy

LEMMA BlendOpLeads ==
    ASSUME NEW v, IsPass(v), NEW S, NEW x \in S, x \in Plain(v), NEW y \in S, y \in Open(v),
           NEW kernel0 \in Device!Blended, NEW arg, NEW z, NEW n
    PROVE  /\ Leads(v, Device!G!Op(kernel0, arg, z, x, y, n), S, S)
           /\ Leads(v, Device!Q!Op(kernel0, arg, z, x, y, n), S, S)
<1>1. ASSUME NEW d \in {Device!G!Op(kernel0, arg, z, x, y, n), Device!Q!Op(kernel0, arg, z, x, y, n)}
      PROVE  Leads(v, d, S, S)
  <2>1. d.kernel \in Device!Blended /\ d.reads[2] = x /\ d.writes = <<y>>
    BY <1>1 DEF Device!G!Op, Device!Q!Op
  <2>2. d.writes[Len(d.writes)] = y /\ d.writes[1] = y
    BY <2>1
  <2> QED
    BY <2>1, <2>2, BlendedLeads
<1> QED
  BY <1>1

LEMMA AddScaleLeads ==
    ASSUME NEW v, IsPass(v), NEW S, NEW x \in S, x \in Plain(v), NEW y \in S, y \in Open(v), NEW f, NEW n
    PROVE  Leads(v, Device!G!AddScale(f, x, y, n), S, S) /\ Leads(v, Device!Q!AddScale(f, x, y, n), S, S)
<1>1. "add_scale" \in Device!Blended
  BY DEF Device!Blended
<1>2. /\ Device!G!AddScale(f, x, y, n) = Device!G!Op("add_scale", f, Device!G!ZERO, x, y, n)
      /\ Device!Q!AddScale(f, x, y, n) = Device!Q!Op("add_scale", f, Device!Q!ZERO, x, y, n)
  BY DEF Device!G!AddScale, Device!Q!AddScale
<1> QED
  BY <1>1, <1>2, BlendOpLeads

LEMMA WriteOpLeads ==
    ASSUME NEW v, IsPass(v), v.k = v.p, NEW S, NEW x \in S, x \in Plain(v), NEW b \in Attending(v.m), NEW z, NEW n,
           NEW w, w = KindOf(v.m, b)
    PROVE  /\ Leads(v, Device!G!Op("write_cache", w, x, z, b, n), S, S \cup {b})
           /\ Leads(v, Device!Q!Op("write_cache", w, x, z, b, n), S, S \cup {b})
<1>1. ASSUME NEW d \in {Device!G!Op("write_cache", w, x, z, b, n), Device!Q!Op("write_cache", w, x, z, b, n)}
      PROVE  Leads(v, d, S, S \cup {b})
  <2>1. d.kernel = "write_cache" /\ d.arg = KindOf(v.m, b) /\ d.reads = <<x, z>> /\ d.writes = <<b>>
    BY <1>1 DEF Device!G!Op, Device!Q!Op
  <2>2. d.reads[1] = x /\ d.writes[Len(d.writes)] = b
    BY <2>1
  <2> QED
    BY <2>1, <2>2, WriteLeads
<1> QED
  BY <1>1

\* The five kernels over a recurrent state b.
LEMMA DeltaLeads ==
    ASSUME NEW v, IsPass(v), NEW S, NEW b \in Device!Recurrent(v.m), NEW x \in S, x \in Full(v),
           NEW y \in Full(v), NEW z, NEW w, NEW u, NEW arg, NEW n,
           "conv_scratch" \in Device!Scratch(v.m) \ Still(v.m)
    PROVE  /\ Leads(v, Device!Q!Delta("conv_silu", arg, x, z, w, b, y, n), S, S \cup {y})
           /\ Leads(v, Device!Q!Delta("conv_shift", arg, x, z, w, b, "conv_scratch", n), S, S \cup {"conv_scratch"})
           /\ "conv_scratch" \in S =>
                  Leads(v, Device!Q!Delta("conv_commit", arg, "conv_scratch", z, w, b, u, n), S, S)
           /\ Leads(v, Device!Q!Delta("l2norm_qk", arg, z, z, z, u, w, n), S, S)
           /\ {z, w} \subseteq S \cap Full(v) =>
                  Leads(v, Device!Q!Delta("delta_recur", arg, x, z, w, b, y, n), S, S \cup {y})
<1>1. ASSUME NEW kernel0, NEW a1, NEW a2, NEW a3, NEW s, NEW o, NEW d,
             d = Device!Q!Delta(kernel0, arg, a1, a2, a3, s, o, n)
      PROVE  /\ d.kernel = kernel0 /\ d.reads = <<a1, a2, a3>> /\ d.reads[1] = a1 /\ d.writes[1] = s
             /\ d.writes[Len(d.writes)] = o
  BY <1>1 DEF Device!Q!Delta
<1>2. x \in Plain(v) \ Faint(v) /\ x \in Plain(v) /\ y \in Open(v)
  BY FullIs DEF Full
<1>3. Leads(v, Device!Q!Delta("conv_silu", arg, x, z, w, b, y, n), S, S \cup {y})
  <2> DEFINE d == Device!Q!Delta("conv_silu", arg, x, z, w, b, y, n)
  <2>1. d.kernel = "conv_silu" /\ d.reads[1] = x /\ d.writes[1] = b /\ d.writes[Len(d.writes)] = y
    BY <1>1
  <2> HIDE DEF d
  <2> QED
    BY <1>2, <2>1, ConvLeads DEF d
<1>4. Leads(v, Device!Q!Delta("conv_shift", arg, x, z, w, b, "conv_scratch", n), S, S \cup {"conv_scratch"})
  <2> DEFINE d == Device!Q!Delta("conv_shift", arg, x, z, w, b, "conv_scratch", n)
  <2>1. d.kernel = "conv_shift" /\ d.reads[1] = x /\ d.writes[1] = b /\ d.writes[Len(d.writes)] = "conv_scratch"
    BY <1>1
  <2> HIDE DEF d
  <2> QED
    BY <1>2, <2>1, ShiftLeads DEF d
<1>5. ASSUME "conv_scratch" \in S
      PROVE  Leads(v, Device!Q!Delta("conv_commit", arg, "conv_scratch", z, w, b, u, n), S, S)
  <2> DEFINE d == Device!Q!Delta("conv_commit", arg, "conv_scratch", z, w, b, u, n)
  <2>1. d.kernel = "conv_commit" /\ d.reads[1] = "conv_scratch" /\ d.writes[1] = b
    BY <1>1
  <2> HIDE DEF d
  <2> QED
    BY <1>5, <2>1, CommitLeads DEF d
<1>6. Leads(v, Device!Q!Delta("l2norm_qk", arg, z, z, z, u, w, n), S, S)
  <2> DEFINE d == Device!Q!Delta("l2norm_qk", arg, z, z, z, u, w, n)
  <2>1. d.kernel = "l2norm_qk"
    BY <1>1
  <2> HIDE DEF d
  <2> QED
    BY <2>1, InPlaceLeads DEF d, Device!InPlace1
<1>7. ASSUME {z, w} \subseteq S \cap Full(v)
      PROVE  Leads(v, Device!Q!Delta("delta_recur", arg, x, z, w, b, y, n), S, S \cup {y})
  <2> DEFINE d == Device!Q!Delta("delta_recur", arg, x, z, w, b, y, n)
  <2>1. d.kernel = "delta_recur" /\ d.reads = <<x, z, w>> /\ d.writes[1] = b /\ d.writes[Len(d.writes)] = y
    BY <1>1
  <2> HIDE DEF d
  <2>2. \A j \in 1..3 : d.reads[j] \in {x, z, w}
    BY <2>1
  <2>3. {x, z, w} \subseteq S \cap (Plain(v) \ Faint(v))
    BY <1>7, FullIs DEF Full
  <2>4. \A j \in 1..3 : d.reads[j] \in S \cap (Plain(v) \ Faint(v))
    BY <2>2, <2>3
  <2> QED
    BY <1>2, <2>1, <2>4, RecurLeads DEF d
<1> QED
  BY <1>3, <1>4, <1>5, <1>6, <1>7

\* A plan in which every dispatch leads on from where the one before it led.
LEMMA FlowsChain ==
    ASSUME NEW v, NEW plan, IsList(plan), NEW g, \A i \in 1..Len(plan) : Leads(v, plan[i], g[i], g[i + 1])
    PROVE  Flows(v, plan, g[1], g[Len(plan) + 1])
<1> SUFFICES ASSUME NEW m, NEW f, Sound(v, m, g[1]), IsPlay(f, plan, m, v.p, v.t)
             PROVE  Sound(v, f[Len(plan)], g[Len(plan) + 1])
  BY DEF Flows
<1>1. Len(plan) \in Nat
  BY DEF IsList
<1>2. f[0] = m /\ \A i \in 1..Len(plan) : f[i] = Device!Touch(plan[i], f[i - 1], v.p, v.t)
  BY <1>1 DEF IsPlay, IsPlayTo
<1> DEFINE Missing == {k \in Nat : k <= Len(plan) /\ ~Sound(v, f[k], g[k + 1])}
<1>3. 0 \notin Missing
  BY <1>2
<1>4. ASSUME NEW k \in Missing PROVE k - 1 \in Missing
  <2>1. k \in 1..Len(plan) /\ k - 1 \in Nat /\ k - 1 <= Len(plan) /\ (k - 1) + 1 = k
    BY <1>1, <1>3
  <2>2. f[k] = Device!Touch(plan[k], f[k - 1], v.p, v.t)
    BY <1>2, <2>1
  <2>3. Leads(v, plan[k], g[k], g[k + 1])
    BY <2>1
  <2>4. ~Sound(v, f[k - 1], g[k])
    BY <2>2, <2>3 DEF Leads
  <2> QED
    BY <2>1, <2>4
<1>5. Missing = {}
  <2>1. Missing \subseteq Nat
    OBVIOUS
  <2> HIDE DEF Missing
  <2> QED
    BY <1>3, <1>4, <2>1, LeastNumber
<1> QED
  BY <1>1, <1>5

LEMMA Three ==
    ASSUME NEW f, f = [i \in 1..3 |-> f[i]]
    PROVE  IsList(f) /\ Len(f) = 3
<1>1. f = <<f[1], f[2], f[3]>>
  OBVIOUS
<1>2. <<f[1], f[2], f[3]>> \in Seq({f[1], f[2], f[3]})
  OBVIOUS
<1> QED
  BY <1>1, <1>2 DEF IsList

LEMMA AttendFlows ==
    ASSUME NEW v, IsPass(v), NEW S, "q" \in S, {"q", "scores", "attn"} \subseteq Full(v),
           NEW a \in S, a \in Attending(v.m), NEW b \in S, b \in Attending(v.m),
           NEW how, how[1] = KindOf(v.m, a), how[1] = KindOf(v.m, b), NEW n,
           NEW plan \in {Device!G!Attend(how, a, b, n), Device!Q!Attend(how, a, b, n)}
    PROVE  Flows(v, plan, S, S \cup {"scores", "attn"})
<1>1. plan = [i \in 1..3 |-> [kernel |-> <<"scores", "softmax", "weighted_v">>[i], arg |-> how,
                              reads |-> <<"q", a, b>>, writes |-> <<"scores", "attn">>, n |-> n]]
  BY DEF Device!G!Attend, Device!Q!Attend
<1>2. "q" \in Plain(v) /\ "scores" \in Plain(v) /\ "scores" \in Open(v) /\ "attn" \in Open(v)
  BY FullIs
<1>3. /\ plan[1].kernel = "scores" /\ plan[1].arg = how /\ plan[1].reads[2] = a
      /\ plan[2].kernel = "softmax"
      /\ plan[3].kernel = "weighted_v" /\ plan[3].arg = how /\ plan[3].reads[3] = b
  BY <1>1
<1>4. IsList(plan) /\ Len(plan) = 3
  BY <1>1, Three
<1> DEFINE T == S \cup {"scores"}
           g == <<S, T, T, T \cup {"attn"}>>
<1>5. g[1] = S /\ g[1 + 1] = T /\ g[2 + 1] = T /\ g[3 + 1] = T \cup {"attn"} /\ g[2] = T /\ g[3] = T
  OBVIOUS
<1>6. "scores" \in T /\ b \in T
  OBVIOUS
<1>7. T \cup {"attn"} = S \cup {"scores", "attn"}
  OBVIOUS
<1>8. Leads(v, plan[1], S, T)
  BY <1>2, <1>3, ScoresLead
<1>9. Leads(v, plan[2], T, T)
  BY <1>3, InPlaceLeads DEF Device!InPlace1
<1> HIDE DEF T
<1>10. Leads(v, plan[3], T, T \cup {"attn"})
  BY <1>2, <1>3, <1>6, WeightedLead
<1> HIDE DEF g
<1>11. \A i \in 1..3 : Leads(v, plan[i], g[i], g[i + 1])
  BY <1>5, <1>8, <1>9, <1>10
<1>12. Flows(v, plan, g[1], g[3 + 1])
  BY <1>4, <1>11, FlowsChain
<1> QED
  BY <1>5, <1>7, <1>12

-----------------------------------------------------------------------------
(* Plans written out.                                                      *)

LEMMA Chain2 ==
    ASSUME NEW v, NEW g, NEW a1, NEW a2, Leads(v, a1, g[1], g[2]), Leads(v, a2, g[2], g[3])
    PROVE  Flows(v, <<a1, a2>>, g[1], g[3])
<1> DEFINE plan == <<a1, a2>>
<1>1. plan \in Seq({a1, a2}) /\ Len(plan) = 2
  OBVIOUS
<1>2. plan[1] = a1 /\ plan[2] = a2
  OBVIOUS
<1> HIDE DEF plan
<1>3. \A i \in 1..2 : Leads(v, plan[i], g[i], g[i + 1])
  BY <1>2
<1>4. Flows(v, plan, g[1], g[Len(plan) + 1])
  BY <1>1, <1>3, FlowsChain DEF IsList
<1> QED
  BY <1>1, <1>4 DEF plan

LEMMA Chain3 ==
    ASSUME NEW v, NEW g, NEW a1, NEW a2, NEW a3, Leads(v, a1, g[1], g[2]),
           Leads(v, a2, g[2], g[3]), Leads(v, a3, g[3], g[4])
    PROVE  Flows(v, <<a1, a2, a3>>, g[1], g[4])
<1> DEFINE plan == <<a1, a2, a3>>
<1>1. plan \in Seq({a1, a2, a3}) /\ Len(plan) = 3
  OBVIOUS
<1>2. plan[1] = a1 /\ plan[2] = a2 /\ plan[3] = a3
  OBVIOUS
<1> HIDE DEF plan
<1>3. \A i \in 1..3 : Leads(v, plan[i], g[i], g[i + 1])
  BY <1>2
<1>4. Flows(v, plan, g[1], g[Len(plan) + 1])
  BY <1>1, <1>3, FlowsChain DEF IsList
<1> QED
  BY <1>1, <1>4 DEF plan

LEMMA Chain4 ==
    ASSUME NEW v, NEW g, NEW a1, NEW a2, NEW a3, NEW a4, Leads(v, a1, g[1], g[2]),
           Leads(v, a2, g[2], g[3]), Leads(v, a3, g[3], g[4]), Leads(v, a4, g[4], g[5])
    PROVE  Flows(v, <<a1, a2, a3, a4>>, g[1], g[5])
<1> DEFINE plan == <<a1, a2, a3, a4>>
<1>1. plan \in Seq({a1, a2, a3, a4}) /\ Len(plan) = 4
  OBVIOUS
<1>2. plan[1] = a1 /\ plan[2] = a2 /\ plan[3] = a3 /\ plan[4] = a4
  OBVIOUS
<1> HIDE DEF plan
<1>3. \A i \in 1..4 : Leads(v, plan[i], g[i], g[i + 1])
  BY <1>2
<1>4. Flows(v, plan, g[1], g[Len(plan) + 1])
  BY <1>1, <1>3, FlowsChain DEF IsList
<1> QED
  BY <1>1, <1>4 DEF plan

LEMMA Chain6 ==
    ASSUME NEW v, NEW g, NEW a1, NEW a2, NEW a3, NEW a4, NEW a5, NEW a6, Leads(v, a1, g[1], g[2]),
           Leads(v, a2, g[2], g[3]), Leads(v, a3, g[3], g[4]), Leads(v, a4, g[4], g[5]),
           Leads(v, a5, g[5], g[6]), Leads(v, a6, g[6], g[7])
    PROVE  Flows(v, <<a1, a2, a3, a4, a5, a6>>, g[1], g[7])
<1> DEFINE plan == <<a1, a2, a3, a4, a5, a6>>
<1>1. plan \in Seq({a1, a2, a3, a4, a5, a6}) /\ Len(plan) = 6
  OBVIOUS
<1>2. plan[1] = a1 /\ plan[2] = a2 /\ plan[3] = a3 /\ plan[4] = a4 /\ plan[5] = a5 /\ plan[6] = a6
  OBVIOUS
<1> HIDE DEF plan
<1>3. \A i \in 1..6 : Leads(v, plan[i], g[i], g[i + 1])
  BY <1>2
<1>4. Flows(v, plan, g[1], g[Len(plan) + 1])
  BY <1>1, <1>3, FlowsChain DEF IsList
<1> QED
  BY <1>1, <1>4 DEF plan

LEMMA Chain7 ==
    ASSUME NEW v, NEW g, NEW a1, NEW a2, NEW a3, NEW a4, NEW a5, NEW a6, NEW a7,
           Leads(v, a1, g[1], g[2]), Leads(v, a2, g[2], g[3]), Leads(v, a3, g[3], g[4]),
           Leads(v, a4, g[4], g[5]), Leads(v, a5, g[5], g[6]), Leads(v, a6, g[6], g[7]),
           Leads(v, a7, g[7], g[8])
    PROVE  Flows(v, <<a1, a2, a3, a4, a5, a6, a7>>, g[1], g[8])
<1> DEFINE plan == <<a1, a2, a3, a4, a5, a6, a7>>
<1>1. plan \in Seq({a1, a2, a3, a4, a5, a6, a7}) /\ Len(plan) = 7
  OBVIOUS
<1>2. plan[1] = a1 /\ plan[2] = a2 /\ plan[3] = a3 /\ plan[4] = a4 /\ plan[5] = a5 /\ plan[6] = a6
      /\ plan[7] = a7
  OBVIOUS
<1> HIDE DEF plan
<1>3. \A i \in 1..7 : Leads(v, plan[i], g[i], g[i + 1])
  BY <1>2
<1>4. Flows(v, plan, g[1], g[Len(plan) + 1])
  BY <1>1, <1>3, FlowsChain DEF IsList
<1> QED
  BY <1>1, <1>4 DEF plan

LEMMA Chain8 ==
    ASSUME NEW v, NEW g, NEW a1, NEW a2, NEW a3, NEW a4, NEW a5, NEW a6, NEW a7, NEW a8,
           Leads(v, a1, g[1], g[2]), Leads(v, a2, g[2], g[3]), Leads(v, a3, g[3], g[4]),
           Leads(v, a4, g[4], g[5]), Leads(v, a5, g[5], g[6]), Leads(v, a6, g[6], g[7]),
           Leads(v, a7, g[7], g[8]), Leads(v, a8, g[8], g[9])
    PROVE  Flows(v, <<a1, a2, a3, a4, a5, a6, a7, a8>>, g[1], g[9])
<1> DEFINE plan == <<a1, a2, a3, a4, a5, a6, a7, a8>>
<1>1. plan \in Seq({a1, a2, a3, a4, a5, a6, a7, a8}) /\ Len(plan) = 8
  OBVIOUS
<1>2. plan[1] = a1 /\ plan[2] = a2 /\ plan[3] = a3 /\ plan[4] = a4 /\ plan[5] = a5 /\ plan[6] = a6
      /\ plan[7] = a7 /\ plan[8] = a8
  OBVIOUS
<1> HIDE DEF plan
<1>3. \A i \in 1..8 : Leads(v, plan[i], g[i], g[i + 1])
  BY <1>2
<1>4. Flows(v, plan, g[1], g[Len(plan) + 1])
  BY <1>1, <1>3, FlowsChain DEF IsList
<1> QED
  BY <1>1, <1>4 DEF plan

LEMMA Chain12 ==
    ASSUME NEW v, NEW g, NEW a1, NEW a2, NEW a3, NEW a4, NEW a5, NEW a6, NEW a7, NEW a8, NEW a9,
           NEW a10, NEW a11, NEW a12, Leads(v, a1, g[1], g[2]), Leads(v, a2, g[2], g[3]),
           Leads(v, a3, g[3], g[4]), Leads(v, a4, g[4], g[5]), Leads(v, a5, g[5], g[6]),
           Leads(v, a6, g[6], g[7]), Leads(v, a7, g[7], g[8]), Leads(v, a8, g[8], g[9]),
           Leads(v, a9, g[9], g[10]), Leads(v, a10, g[10], g[11]), Leads(v, a11, g[11], g[12]),
           Leads(v, a12, g[12], g[13])
    PROVE  Flows(v, <<a1, a2, a3, a4, a5, a6, a7, a8, a9, a10, a11, a12>>, g[1], g[13])
<1> DEFINE plan == <<a1, a2, a3, a4, a5, a6, a7, a8, a9, a10, a11, a12>>
<1>1. plan \in Seq({a1, a2, a3, a4, a5, a6, a7, a8, a9, a10, a11, a12}) /\ Len(plan) = 12
  OBVIOUS
<1>2. plan[1] = a1 /\ plan[2] = a2 /\ plan[3] = a3 /\ plan[4] = a4 /\ plan[5] = a5 /\ plan[6] = a6
      /\ plan[7] = a7 /\ plan[8] = a8 /\ plan[9] = a9 /\ plan[10] = a10 /\ plan[11] = a11 /\ plan[12] = a12
  OBVIOUS
<1> HIDE DEF plan
<1>3. \A i \in 1..12 : Leads(v, plan[i], g[i], g[i + 1])
  BY <1>2
<1>4. Flows(v, plan, g[1], g[Len(plan) + 1])
  BY <1>1, <1>3, FlowsChain DEF IsList
<1> QED
  BY <1>1, <1>4 DEF plan

-----------------------------------------------------------------------------
(* The scratch of each architecture.                                       *)

LEMMA GemmaNames ==
    ASSUME NEW v, IsPass(v), Device!Gemma(v.m)
    PROVE  /\ {"h", "x", "q", "k", "v", "attn", "proj", "gate", "up", "scores", "logits"} \subseteq Full(v)
           /\ "tokens" \in Plain(v) /\ "tokens" \in Open(v) /\ "uniforms" \in Full(v)
           /\ v.m.c.ple => {"ple", "ple_cur"} \subseteq Open(v) /\ {"ple_proj", "ple_gate"} \subseteq Full(v)
           /\ "tokens" \in Faint(v) <=> v.e
<1>1. Device!Loadable(v.m)
  BY DeviceAssumption DEF IsPass
<1>2. \A b \in Device!Scratch(v.m) : b \notin Device!Caches(v.m)
  BY <1>1, Apart
<1>3. Device!Scratch(v.m) = Device!G!Scratch \cup {"uniforms"}
  BY DEF Device!Scratch
<1>4. Device!ZERO = "zero"
  BY DEF Device!ZERO
<1>5. {"h", "x", "q", "k", "v", "attn", "proj", "gate", "up", "scores", "logits", "uniforms"} \subseteq Full(v)
  BY <1>2, <1>3, <1>4 DEF Full, Open, Plain, Still, Faint, Device!PleBuffers, Device!G!Scratch
<1>6. "tokens" \in Plain(v) /\ "tokens" \in Open(v) /\ ("tokens" \in Faint(v) <=> v.e)
  BY <1>2, <1>3, <1>4 DEF Open, Plain, Still, Faint, Device!PleBuffers, Device!G!Scratch
<1>7. v.m.c.ple => {"ple", "ple_cur"} \subseteq Open(v) /\ {"ple_proj", "ple_gate"} \subseteq Full(v)
  BY <1>2, <1>3, <1>4 DEF Full, Open, Plain, Still, Faint, Device!G!Scratch
<1> QED
  BY <1>5, <1>6, <1>7

LEMMA QwenNames ==
    ASSUME NEW v, IsPass(v), ~Device!Gemma(v.m)
    PROVE  /\ {"h", "x", "fused", "conv", "z", "alpha", "beta", "q", "gate_a", "k", "v", "attn", "proj",
               "gate", "up", "scores", "logits"} \subseteq Full(v)
           /\ "tokens" \in Plain(v) /\ "tokens" \in Open(v) /\ "uniforms" \in Full(v)
           /\ "conv_scratch" \in Device!Scratch(v.m) \ Still(v.m)
           /\ "tokens" \in Faint(v) <=> v.e
<1>1. Device!Loadable(v.m)
  BY DeviceAssumption DEF IsPass
<1>2. \A b \in Device!Scratch(v.m) : b \notin Device!Caches(v.m)
  BY <1>1, Apart
<1>3. Device!Q!Scratch \cup {"uniforms"} \subseteq Device!Scratch(v.m)
  BY DEF Device!Scratch
<1>4. Still(v.m) = {"zero"}
  BY DEF Device!ZERO, Still
<1>5. {"h", "x", "fused", "conv", "z", "alpha", "beta", "q", "gate_a", "k", "v", "attn", "proj",
       "gate", "up", "scores", "logits", "uniforms"} \subseteq Full(v)
  BY <1>2, <1>3, <1>4 DEF Full, Open, Plain, Faint, Device!Q!Scratch
<1>6. "tokens" \in Plain(v) /\ "tokens" \in Open(v) /\ ("tokens" \in Faint(v) <=> v.e)
  BY <1>2, <1>3, <1>4 DEF Open, Plain, Faint, Device!Q!Scratch
<1>7. "conv_scratch" \in Device!Scratch(v.m) \ Still(v.m)
  BY <1>3, <1>4 DEF Device!Q!Scratch
<1> QED
  BY <1>5, <1>6, <1>7

-----------------------------------------------------------------------------
(* gemma4's plans.                                                         *)

LEMMA GemmaEmbedFlows ==
    ASSUME NEW v, IsPass(v), Device!Gemma(v.m), NEW S, IF v.e THEN "h" \in S ELSE "tokens" \in S
    PROVE  Flows(v, Device!G!EmbedPlan(v.m.c, v.e), S, S \cup {"h"})
<1> DEFINE T == S \cup {"h"}
           mark == Device!G!Mark("inp_scaled", "h")
           look == Device!G!Lookup("token_embd", "h", Device!G!D)
           scale == Device!G!InPlace("scale", "sqrt_d", "h", Device!G!D)
<1>1. Leads(v, mark, T, T)
  BY MarkLeads
<1>2. CASE v.e
  <2>1. Device!G!EmbedPlan(v.m.c, v.e) = <<>> \o <<mark>>
    BY <1>2 DEF Device!G!EmbedPlan
  <2>2. T = S
    BY <1>2
  <2> HIDE DEF T, mark
  <2>3. Flows(v, <<>> \o <<mark>>, S, T)
    BY <1>1, <2>2, FlowsNone, FlowsOne, FlowsJoin
  <2> QED
    BY <2>1, <2>3 DEF T
<1>3. CASE ~v.e
  <2>1. Device!G!EmbedPlan(v.m.c, v.e) = <<look, scale>> \o <<mark>>
    BY <1>3 DEF Device!G!EmbedPlan
  <2>2. Leads(v, look, S, T)
    BY <1>3, LookupLeads, GemmaNames DEF Full
  <2>3. Leads(v, scale, T, T)
    BY PlaceLeads DEF Device!InPlace1
  <2> DEFINE g == <<S, T, T>>
  <2>4. g[1] = S /\ g[2] = T /\ g[3] = T /\ g[2 + 1] = T
    OBVIOUS
  <2> HIDE DEF T, mark, look, scale, g
  <2>5. Flows(v, <<look, scale>>, g[1], g[3])
    BY <2>2, <2>3, <2>4, Chain2
  <2>6. Flows(v, <<look, scale>> \o <<mark>>, S, T)
    BY <1>1, <2>4, <2>5, FlowsOne, FlowsJoin
  <2> QED
    BY <2>1, <2>6 DEF T
<1> QED
  BY <1>2, <1>3

LEMMA GemmaPleFlows ==
    ASSUME NEW v, IsPass(v), Device!Gemma(v.m), NEW S, {"h", "tokens"} \subseteq S
    PROVE  Flows(v, Device!G!PlePlan(v.m.c), S, S \cup (IF v.m.c.ple THEN {"ple"} ELSE {}))
<1>1. CASE ~v.m.c.ple
  <2>1. Device!G!PlePlan(v.m.c) = <<>>
    BY <1>1 DEF Device!G!PlePlan
  <2> QED
    BY <1>1, <2>1, FlowsNone, S \cup {} = S
<1>2. CASE v.m.c.ple
  <2> DEFINE n == Device!G!Span(v.m.c)
             a1 == Device!G!Lookup("per_layer_token_embd", "ple", n)
             a2 == Device!G!InPlace("scale", "sqrt_ple", "ple", n)
             a3 == Device!G!MatVec("per_layer_model_proj", "h", "ple_proj", n)
             a4 == Device!G!InPlace("scale", "rsqrt_d", "ple_proj", n)
             a5 == Device!G!Norm("per_layer_proj_norm", "layer", "ple_proj", n)
             a6 == Device!G!AddScale("rsqrt_2", "ple_proj", "ple", n)
             a7 == Device!G!Mark("inp_per_layer", "ple")
             T == S \cup {"ple"}
             U == T \cup {"ple_proj"}
             g == <<S, T, T, U, U, U, U, U>>
  <2>1. Device!G!PlePlan(v.m.c) = <<a1, a2, a3, a4, a5, a6, a7>>
    BY <1>2 DEF Device!G!PlePlan
  <2>2. /\ g[1] = S /\ g[2] = T /\ g[3] = T /\ g[4] = U /\ g[5] = U /\ g[6] = U /\ g[7] = U /\ g[8] = U
    OBVIOUS
  <2>3. /\ "tokens" \in Plain(v) /\ "ple" \in Open(v) /\ "ple" \in Faint(v) /\ "ple_proj" \in Full(v)
        /\ "h" \in Full(v) /\ "ple_proj" \in Plain(v)
    BY <1>2, GemmaNames, FullIs DEF Faint
  <2>4. Leads(v, a1, S, T)
    BY <2>3, LookupLeads
  <2>5. Leads(v, a2, T, T) /\ Leads(v, a4, U, U)
    BY PlaceLeads DEF Device!InPlace1
  <2>6. Leads(v, a3, T, U)
    BY <2>3, MatVecLeads
  <2>7. Leads(v, a5, U, U)
    BY NormLeads
  <2>8. Leads(v, a6, U, U)
    <3>1. "ple_proj" \in U /\ "ple" \in U
      OBVIOUS
    <3> HIDE DEF U
    <3> QED
      BY <2>3, <3>1, AddScaleLeads
  <2>9. Leads(v, a7, U, U)
    BY MarkLeads
  <2>10. S \cup (IF v.m.c.ple THEN {"ple"} ELSE {}) \subseteq U
    OBVIOUS
  <2> HIDE DEF a1, a2, a3, a4, a5, a6, a7, T, U, g
  <2>11. Flows(v, <<a1, a2, a3, a4, a5, a6, a7>>, g[1], g[8])
    BY <2>2, <2>4, <2>5, <2>6, <2>7, <2>8, <2>9, Chain7
  <2> QED
    BY <2>1, <2>2, <2>10, <2>11, FlowsWeaker
<1> QED
  BY <1>1, <1>2

LEMMA GemmaNormedFlows ==
    ASSUME NEW v, IsPass(v), Device!Gemma(v.m), NEW S, "h" \in S, NEW gain
    PROVE  Flows(v, Device!G!Normed(gain), S, S \cup {"x"})
<1> DEFINE a1 == Device!G!Copy("h", "x", Device!G!D)
           a2 == Device!G!Norm(gain, "row", "x", Device!G!D)
           T == S \cup {"x"}
           g == <<S, T, T>>
<1>1. Device!G!Normed(gain) = <<a1, a2>>
  BY DEF Device!G!Normed
<1>2. g[1] = S /\ g[2] = T /\ g[3] = T
  OBVIOUS
<1>3. "h" \in Full(v) /\ "x" \in Full(v)
  BY GemmaNames
<1>4. Leads(v, a1, S, T)
  BY <1>3, CopyLeads
<1>5. Leads(v, a2, T, T)
  BY NormLeads
<1> HIDE DEF a1, a2, T, g
<1>6. Flows(v, <<a1, a2>>, g[1], g[3])
  BY <1>2, <1>4, <1>5, Chain2
<1> QED
  BY <1>1, <1>2, <1>6 DEF T

\* A layer that owns its cache goes through a part that others leave out.
LEMMA OwnFlows ==
    ASSUME NEW v, NEW i, NEW own, NEW S, NEW T, Device!Owns(v.m, i) => Flows(v, own, S, T),
           ~Device!Owns(v.m, i) => S = T
    PROVE  Flows(v, Device!G!OwnPlan(v.m.c, i, own), S, T)
<1>1. Device!G!Owns(v.m.c, i) <=> Device!Owns(v.m, i)
  BY DEF Device!G!Owns, Device!Owns
<1>2. CASE Device!Owns(v.m, i)
  BY <1>1, <1>2 DEF Device!G!OwnPlan
<1>3. CASE ~Device!Owns(v.m, i)
  <2>1. Device!G!OwnPlan(v.m.c, i, own) = <<>>
    BY <1>1, <1>3 DEF Device!G!OwnPlan
  <2> QED
    BY <1>3, <2>1, FlowsNone
<1> QED
  BY <1>2, <1>3

\* The rows a layer projects for the cache it owns.
Projected(m, i) == IF Device!Owns(m, i) THEN {"k", "v"} ELSE {}

LEMMA GemmaProjectFlows ==
    ASSUME NEW v, IsPass(v), Device!Gemma(v.m), NEW S, "x" \in S, NEW i
    PROVE  Flows(v, Device!G!ProjectPlan(v.m.c, i), S, S \cup {"q"} \cup Projected(v.m, i))
<1> DEFINE n == v.m.c.layers[i].kv_dim
           a1 == Device!G!MatVec(Device!G!Of("attn_q", i), "x", "q", Device!G!QDim(v.m.c, i))
           b1 == Device!G!MatVec(Device!G!Of("attn_k", i), "x", "k", n)
           b2 == IF v.m.c.layers[i].v_from_k THEN Device!G!Copy("k", "v", n)
                 ELSE Device!G!MatVec(Device!G!Of("attn_v", i), "x", "v", n)
           b3 == Device!G!Mark("Vcur", "v")
           a2 == Device!G!Mark("Qcur", "q")
           T == S \cup {"q"}
           T1 == T \cup {"k"}
           T2 == T1 \cup {"v"}
           U == T \cup Projected(v.m, i)
           g == <<T, T1, T2, T2>>
<1>1. Device!G!ProjectPlan(v.m.c, i) = <<a1>> \o Device!G!OwnPlan(v.m.c, i, <<b1, b2, b3>>) \o <<a2>>
  BY DEF Device!G!ProjectPlan
<1>2. g[1] = T /\ g[2] = T1 /\ g[3] = T2 /\ g[4] = T2
  OBVIOUS
<1>3. {"x", "q", "k", "v"} \subseteq Full(v)
  BY GemmaNames
<1>4. Leads(v, a1, S, T)
  BY <1>3, MatVecLeads
<1>5. "x" \in T /\ "x" \in T1 /\ "k" \in T1
  OBVIOUS
<1>6. Leads(v, a2, U, U)
  BY MarkLeads
<1>7. (Device!Owns(v.m, i) => U = T2) /\ (~Device!Owns(v.m, i) => U = T)
  BY DEF Projected
<1> HIDE DEF T
<1>8. Leads(v, b1, T, T1)
  BY <1>3, <1>5, MatVecLeads
<1> HIDE DEF T1
<1>9. Leads(v, b2, T1, T2)
  <2>1. Leads(v, Device!G!Copy("k", "v", n), T1, T2)
    BY <1>3, <1>5, CopyLeads
  <2>2. Leads(v, Device!G!MatVec(Device!G!Of("attn_v", i), "x", "v", n), T1, T2)
    BY <1>3, <1>5, MatVecLeads
  <2> QED
    BY <2>1, <2>2
<1>10. Leads(v, b3, T2, T2)
  BY MarkLeads
<1> HIDE DEF T2, U, a1, a2, b1, b2, b3, g
<1>11. Flows(v, <<b1, b2, b3>>, g[1], g[4])
  BY <1>2, <1>8, <1>9, <1>10, Chain3
<1>12. Flows(v, Device!G!OwnPlan(v.m.c, i, <<b1, b2, b3>>), T, U)
  BY <1>2, <1>7, <1>11, OwnFlows
<1>13. Flows(v, <<a1>> \o Device!G!OwnPlan(v.m.c, i, <<b1, b2, b3>>), S, U)
  BY <1>4, <1>12, FlowsOne, FlowsJoin
<1>14. Flows(v, (<<a1>> \o Device!G!OwnPlan(v.m.c, i, <<b1, b2, b3>>)) \o <<a2>>, S, U)
  BY <1>6, <1>13, FlowsOne, FlowsJoin
<1> QED
  BY <1>1, <1>14 DEF U, T

\* Normalised and rotated in place.
LEMMA GemmaRotateFlows ==
    ASSUME NEW v, NEW S, NEW i
    PROVE  Flows(v, Device!G!RotatePlan(v.m.c, i), S, S)
<1> DEFINE n == v.m.c.layers[i].kv_dim
           w == Device!G!QDim(v.m.c, i)
           r == Device!G!RopeArg(v.m.c, i)
           a1 == Device!G!Norm(Device!G!Of("attn_q_norm", i), "head", "q", w)
           b1 == Device!G!Norm(Device!G!Of("attn_k_norm", i), "head", "k", n)
           b2 == Device!G!Norm("unit", "head", "v", n)
           b3 == Device!G!Mark("Vcur_normed", "v")
           a2 == Device!G!Mark("Qcur_normed", "q")
           a3 == Device!G!InPlace("rope", r, "q", w)
           b4 == Device!G!InPlace("rope", r, "k", n)
           a4 == Device!G!Mark("Qcur_pos", "q")
           own1 == Device!G!OwnPlan(v.m.c, i, <<b1, b2, b3>>)
           own2 == Device!G!OwnPlan(v.m.c, i, <<b4>>)
           g == <<S, S, S, S>>
<1>1. Device!G!RotatePlan(v.m.c, i) = <<a1>> \o own1 \o <<a2, a3>> \o own2 \o <<a4>>
  BY DEF Device!G!RotatePlan
<1>2. g[1] = S /\ g[2] = S /\ g[3] = S /\ g[4] = S
  OBVIOUS
<1>3. Leads(v, a1, S, S) /\ Leads(v, b1, S, S) /\ Leads(v, b2, S, S)
  BY NormLeads
<1>4. Leads(v, a2, S, S) /\ Leads(v, b3, S, S) /\ Leads(v, a4, S, S)
  BY MarkLeads
<1>5. Leads(v, a3, S, S) /\ Leads(v, b4, S, S)
  BY PlaceLeads DEF Device!InPlace1
<1> HIDE DEF a1, a2, a3, a4, b1, b2, b3, b4, g
<1>6. Flows(v, <<b1, b2, b3>>, g[1], g[4])
  BY <1>2, <1>3, <1>4, Chain3
<1>7. Flows(v, own1, S, S)
  BY <1>2, <1>6, OwnFlows
<1>8. Flows(v, own2, S, S)
  BY <1>5, FlowsOne, OwnFlows
<1>9. Flows(v, <<a2, a3>>, g[1], g[3])
  BY <1>2, <1>4, <1>5, Chain2
<1> HIDE DEF own1, own2
<1>10. Flows(v, <<a1>> \o own1, S, S)
  BY <1>3, <1>7, FlowsOne, FlowsJoin
<1>11. Flows(v, (<<a1>> \o own1) \o <<a2, a3>>, S, S)
  BY <1>2, <1>9, <1>10, FlowsJoin
<1>12. Flows(v, ((<<a1>> \o own1) \o <<a2, a3>>) \o own2, S, S)
  BY <1>8, <1>11, FlowsJoin
<1>13. Flows(v, (((<<a1>> \o own1) \o <<a2, a3>>) \o own2) \o <<a4>>, S, S)
  BY <1>4, <1>12, FlowsOne, FlowsJoin
<1> QED
  BY <1>1, <1>13

\* The keys and the values that a layer reads.
Source(m, i) == {Name("k", m.c.layers[i].source), Name("v", m.c.layers[i].source)}

LEMMA SourceIs ==
    ASSUME NEW v, IsPass(v), Device!Gemma(v.m), NEW i \in 1..Device!Layers(v.m)
    PROVE  /\ v.m.c.layers[i].source \in 1..i /\ v.m.c.layers[i].source \in Rings(v.m)
           /\ \A w \in {"k", "v"} :
                  /\ Name(w, v.m.c.layers[i].source) \in Attending(v.m)
                  /\ KindOf(v.m, Name(w, v.m.c.layers[i].source)) = v.m.c.layers[i].window
<1> DEFINE s == v.m.c.layers[i].source
<1>1. Device!Loadable(v.m)
  BY DeviceAssumption DEF IsPass
<1>2. Device!Layers(v.m) \in Nat /\ s \in 1..i /\ Device!Owns(v.m, s)
  BY <1>1 DEF Device!Loadable
<1>3. s \in 1..Device!Layers(v.m)
  BY <1>2
<1>4. v.m.c.layers[s].window = v.m.c.layers[i].window
  BY <1>1, <1>3 DEF Device!Loadable
<1>5. s \in Rings(v.m)
  BY <1>2, <1>3 DEF Rings
<1> HIDE DEF s
<1>6. \A w \in {"k", "v"} : Name(w, s) \in Attending(v.m) /\ KindOf(v.m, Name(w, s)) = v.m.c.layers[s].window
  BY <1>1, <1>5, Apart, KindIs
<1> QED
  BY <1>2, <1>4, <1>5, <1>6 DEF s

LEMMA GemmaWriteFlows ==
    ASSUME NEW v, IsPass(v), Device!Gemma(v.m), v.k = v.p, NEW i \in 1..Device!Layers(v.m), NEW S,
           Projected(v.m, i) \subseteq S, ~Device!Owns(v.m, i) => Source(v.m, i) \subseteq S
    PROVE  Flows(v, Device!G!WritePlan(v.m.c, i), S, S \cup Source(v.m, i))
<1> DEFINE s == v.m.c.layers[i].source
           K == Name("k", s)
           V == Name("v", s)
           n == v.m.c.layers[i].kv_dim
           w == v.m.c.layers[i].window
           a1 == Device!G!Op("write_cache", w, "k", Device!G!ZERO, K, n)
           a2 == Device!G!Op("write_cache", w, "v", Device!G!ZERO, V, n)
           T == S \cup {K}
           U == T \cup {V}
           g == <<S, T, U>>
<1>1. Device!G!WritePlan(v.m.c, i) = Device!G!OwnPlan(v.m.c, i, <<a1, a2>>)
  BY NamesAlike DEF Device!G!WritePlan, Device!G!KOf, Device!G!VOf
<1>2. g[1] = S /\ g[2] = T /\ g[3] = U /\ U = S \cup Source(v.m, i)
  BY DEF Source
<1>3. K \in Attending(v.m) /\ V \in Attending(v.m) /\ KindOf(v.m, K) = w /\ KindOf(v.m, V) = w
  BY SourceIs
<1>4. "k" \in Plain(v) /\ "v" \in Plain(v)
  BY GemmaNames, FullIs
<1> HIDE DEF K, V, w
<1>5. ASSUME Device!Owns(v.m, i) PROVE Flows(v, <<a1, a2>>, S, U)
  <2>1. "k" \in S /\ "v" \in T
    BY <1>5 DEF Projected
  <2>2. Leads(v, a1, S, T)
    BY <1>3, <1>4, <2>1, WriteOpLeads
  <2> HIDE DEF T
  <2>3. Leads(v, a2, T, U)
    BY <1>3, <1>4, <2>1, WriteOpLeads
  <2> HIDE DEF a1, a2, U, g
  <2>4. Flows(v, <<a1, a2>>, g[1], g[3])
    BY <1>2, <2>2, <2>3, Chain2
  <2> QED
    BY <1>2, <2>4
<1>6. ~Device!Owns(v.m, i) => S = U
  BY <1>2
<1> HIDE DEF a1, a2, U, T
<1> QED
  BY <1>1, <1>2, <1>5, <1>6, OwnFlows

LEMMA GemmaReadFlows ==
    ASSUME NEW v, IsPass(v), Device!Gemma(v.m), NEW i \in 1..Device!Layers(v.m), NEW S,
           {"q"} \cup Source(v.m, i) \subseteq S
    PROVE  Flows(v, Device!G!ReadPlan(v.m.c, i, v.e), S, S \cup {"scores", "attn"})
<1> DEFINE s == v.m.c.layers[i].source
           K == Name("k", s)
           V == Name("v", s)
           how == <<v.m.c.layers[i].window, v.e>>
           read == Device!G!Attend(how, K, V, Device!G!QDim(v.m.c, i))
           mark == Device!G!Mark("kqv_out", "attn")
           T == S \cup {"scores", "attn"}
<1>1. Device!G!ReadPlan(v.m.c, i, v.e) = read \o <<mark>>
  BY NamesAlike DEF Device!G!ReadPlan, Device!G!KOf, Device!G!VOf
<1>2. {"q", "scores", "attn"} \subseteq Full(v)
  BY GemmaNames
<1>3. K \in Attending(v.m) /\ V \in Attending(v.m) /\ K \in S /\ V \in S
  BY SourceIs DEF Source
<1>4. how[1] = KindOf(v.m, K) /\ how[1] = KindOf(v.m, V)
  BY SourceIs
<1>5. "q" \in S
  OBVIOUS
<1>6. Leads(v, mark, T, T)
  BY MarkLeads
<1> HIDE DEF how, K, V, T, mark
<1>7. Flows(v, read, S, T)
  BY <1>2, <1>3, <1>4, <1>5, AttendFlows DEF T
<1> HIDE DEF read
<1>8. Flows(v, read \o <<mark>>, S, T)
  BY <1>6, <1>7, FlowsOne, FlowsJoin
<1> QED
  BY <1>1, <1>8 DEF T

\* After its attention a layer leaves h, and the keys and values it read.
LEMMA GemmaAttnFlows ==
    ASSUME NEW v, IsPass(v), Device!Gemma(v.m), v.k = v.p, NEW i \in 1..Device!Layers(v.m), NEW S,
           "h" \in S, ~Device!Owns(v.m, i) => Source(v.m, i) \subseteq S
    PROVE  Flows(v, Device!G!AttnPlan(v.m.c, i, v.e), S, S \cup Source(v.m, i))
<1> DEFINE w == Device!G!Of("attn_norm", i)
           p1 == Device!G!Normed(w)
           p2 == <<Device!G!Mark("attn_norm", "x")>>
           p3 == Device!G!ProjectPlan(v.m.c, i)
           p4 == Device!G!RotatePlan(v.m.c, i)
           p5 == Device!G!WritePlan(v.m.c, i)
           p6 == Device!G!ReadPlan(v.m.c, i, v.e)
           a1 == Device!G!MatVec(Device!G!Of("attn_output", i), "attn", "proj", Device!G!D)
           a2 == Device!G!Norm(Device!G!Of("post_attention_norm", i), "row", "proj", Device!G!D)
           a3 == Device!G!AddScale("one", "proj", "h", Device!G!D)
           a4 == Device!G!Mark("attn_out", "h")
           S1 == S \cup {"x"}
           S2 == S1 \cup {"q"} \cup Projected(v.m, i)
           S3 == S2 \cup Source(v.m, i)
           S4 == S3 \cup {"scores", "attn"}
           S5 == S4 \cup {"proj"}
           g == <<S4, S5, S5, S5, S5>>
<1>1. Device!G!AttnPlan(v.m.c, i, v.e) = p1 \o p2 \o p3 \o p4 \o p5 \o p6 \o <<a1, a2, a3, a4>>
  BY DEF Device!G!AttnPlan
<1>2. g[1] = S4 /\ g[2] = S5 /\ g[3] = S5 /\ g[4] = S5 /\ g[5] = S5
  OBVIOUS
<1>3. /\ "x" \in S1 /\ Projected(v.m, i) \subseteq S2 /\ {"q"} \cup Source(v.m, i) \subseteq S3
      /\ "attn" \in S4 /\ "proj" \in S5 /\ "h" \in S5 /\ S \cup Source(v.m, i) \subseteq S5
      /\ (~Device!Owns(v.m, i) => Source(v.m, i) \subseteq S2)
  OBVIOUS
<1>4. {"attn", "proj", "h"} \subseteq Full(v) /\ "proj" \in Plain(v) /\ "h" \in Open(v)
  BY GemmaNames, FullIs
<1>5. Flows(v, p1, S, S1)
  BY GemmaNormedFlows
<1>6. Flows(v, p2, S1, S1)
  BY MarkLeads, FlowsOne
<1> HIDE DEF S1
<1>7. Flows(v, p3, S1, S2)
  BY <1>3, GemmaProjectFlows
<1> HIDE DEF S2
<1>8. Flows(v, p4, S2, S2)
  BY GemmaRotateFlows
<1>9. Flows(v, p5, S2, S3)
  BY <1>3, GemmaWriteFlows
<1> HIDE DEF S3
<1>10. Flows(v, p6, S3, S4)
  BY <1>3, GemmaReadFlows
<1> HIDE DEF S4, p1, p2, p3, p4, p5, p6
<1>11. Leads(v, a1, S4, S5)
  BY <1>3, <1>4, MatVecLeads
<1> HIDE DEF S5
<1>12. Leads(v, a2, S5, S5)
  BY NormLeads
<1>13. Leads(v, a3, S5, S5)
  BY <1>3, <1>4, AddScaleLeads
<1>14. Leads(v, a4, S5, S5)
  BY MarkLeads
<1> HIDE DEF a1, a2, a3, a4, g
<1>15. Flows(v, <<a1, a2, a3, a4>>, g[1], g[5])
  BY <1>2, <1>11, <1>12, <1>13, <1>14, Chain4
<1>16. Flows(v, p1 \o p2 \o p3, S, S2)
  <2>1. Flows(v, p1 \o p2, S, S1)
    BY <1>5, <1>6, FlowsJoin
  <2> QED
    BY <1>7, <2>1, FlowsJoin
<1>17. Flows(v, p1 \o p2 \o p3 \o p4 \o p5, S, S3)
  <2>1. Flows(v, p1 \o p2 \o p3 \o p4, S, S2)
    BY <1>8, <1>16, FlowsJoin
  <2> QED
    BY <1>9, <2>1, FlowsJoin
<1>18. Flows(v, p1 \o p2 \o p3 \o p4 \o p5 \o p6 \o <<a1, a2, a3, a4>>, S, S5)
  <2>1. Flows(v, p1 \o p2 \o p3 \o p4 \o p5 \o p6, S, S4)
    BY <1>10, <1>17, FlowsJoin
  <2> QED
    BY <1>2, <1>15, <2>1, FlowsJoin
<1> QED
  BY <1>1, <1>3, <1>18, FlowsWeaker

LEMMA GemmaFfnFlows ==
    ASSUME NEW v, IsPass(v), Device!Gemma(v.m), NEW i, NEW S, "h" \in S
    PROVE  Flows(v, Device!G!FfnPlan(v.m.c, i), S, S)
<1> DEFINE p1 == Device!G!Normed(Device!G!Of("ffn_norm", i))
           a1 == Device!G!MatVec(Device!G!Of("ffn_gate", i), "x", "gate", Device!G!Ffn)
           a2 == Device!G!MatVec(Device!G!Of("ffn_up", i), "x", "up", Device!G!Ffn)
           a3 == Device!G!Op("geglu", "", Device!G!ZERO, "up", "gate", Device!G!Ffn)
           a4 == Device!G!Mark("ffn_geglu", "gate")
           a5 == Device!G!MatVec(Device!G!Of("ffn_down", i), "gate", "proj", Device!G!D)
           a6 == Device!G!Norm(Device!G!Of("post_ffw_norm", i), "row", "proj", Device!G!D)
           a7 == Device!G!AddScale(Device!G!Closes(v.m.c, i, ~v.m.c.ple), "proj", "h", Device!G!D)
           S1 == S \cup {"x"}
           S2 == S1 \cup {"gate"}
           S3 == S2 \cup {"up"}
           S4 == S3 \cup {"proj"}
           g == <<S1, S2, S3, S3, S3, S4, S4, S4>>
<1>1. Device!G!FfnPlan(v.m.c, i) = p1 \o <<a1, a2, a3, a4, a5, a6, a7>>
  BY DEF Device!G!FfnPlan
<1>2. g[1] = S1 /\ g[2] = S2 /\ g[3] = S3 /\ g[4] = S3 /\ g[5] = S3 /\ g[6] = S4 /\ g[7] = S4 /\ g[8] = S4
  OBVIOUS
<1>3. "x" \in S1 /\ "x" \in S2 /\ {"gate", "up"} \subseteq S3 /\ {"proj", "h"} \subseteq S4 /\ S \subseteq S4
  OBVIOUS
<1>4. /\ {"x", "gate", "up", "proj"} \subseteq Full(v) /\ "up" \in Plain(v) /\ "gate" \in Open(v)
      /\ "proj" \in Plain(v) /\ "h" \in Open(v)
  BY GemmaNames, FullIs
<1>5. Flows(v, p1, S, S1)
  BY GemmaNormedFlows
<1> HIDE DEF S1
<1>6. Leads(v, a1, S1, S2)
  BY <1>3, <1>4, MatVecLeads
<1> HIDE DEF S2
<1>7. Leads(v, a2, S2, S3)
  BY <1>3, <1>4, MatVecLeads
<1> HIDE DEF S3
<1>8. Leads(v, a3, S3, S3)
  <2>1. \A arg, z, n : Leads(v, Device!G!Op("geglu", arg, z, "up", "gate", n), S3, S3)
    BY <1>3, <1>4, BlendOpLeads DEF Device!Blended
  <2> QED
    BY <2>1, Zenon
<1>9. Leads(v, a4, S3, S3)
  BY MarkLeads
<1>10. Leads(v, a5, S3, S4)
  BY <1>3, <1>4, MatVecLeads
<1> HIDE DEF S4
<1>11. Leads(v, a6, S4, S4)
  BY NormLeads
<1>12. Leads(v, a7, S4, S4)
  BY <1>3, <1>4, AddScaleLeads
<1> HIDE DEF a1, a2, a3, a4, a5, a6, a7, g, p1
<1>13. Flows(v, <<a1, a2, a3, a4, a5, a6, a7>>, g[1], g[8])
  BY <1>2, <1>6, <1>7, <1>8, <1>9, <1>10, <1>11, <1>12, Chain7
<1>14. Flows(v, p1 \o <<a1, a2, a3, a4, a5, a6, a7>>, S, S4)
  BY <1>2, <1>5, <1>13, FlowsJoin
<1> QED
  BY <1>1, <1>3, <1>14, FlowsWeaker

\* What a layer adds from the per-layer embeddings.
LEMMA GemmaPleLayerFlows ==
    ASSUME NEW v, IsPass(v), Device!Gemma(v.m), NEW i, NEW S, "h" \in S, v.m.c.ple => "ple" \in S
    PROVE  Flows(v, Device!G!PleLayerPlan(v.m.c, i), S, S)
<1>1. CASE ~v.m.c.ple
  <2>1. Device!G!PleLayerPlan(v.m.c, i) = <<>>
    BY <1>1 DEF Device!G!PleLayerPlan
  <2> QED
    BY <2>1, FlowsNone
<1>2. CASE v.m.c.ple
  <2> DEFINE a1 == Device!G!Mark("pe_in", "h")
             a2 == Device!G!Op("copy_rows", i, "ple", Device!G!ZERO, "ple_cur", Device!G!PleWidth)
             a3 == Device!G!MatVec(Device!G!Of("inp_gate", i), "h", "ple_gate", Device!G!PleWidth)
             a4 == Device!G!Op("geglu", "", Device!G!ZERO, "ple_cur", "ple_gate", Device!G!PleWidth)
             a5 == Device!G!MatVec(Device!G!Of("proj", i), "ple_gate", "proj", Device!G!D)
             a6 == Device!G!Norm(Device!G!Of("post_norm", i), "row", "proj", Device!G!D)
             a7 == Device!G!Mark("per_layer_embd_out", "proj")
             a8 == Device!G!AddScale(Device!G!Closes(v.m.c, i, TRUE), "proj", "h", Device!G!D)
             S1 == S \cup {"ple_cur"}
             S2 == S1 \cup {"ple_gate"}
             S3 == S2 \cup {"proj"}
             g == <<S, S, S1, S2, S2, S3, S3, S3, S3>>
  <2>1. Device!G!PleLayerPlan(v.m.c, i) = <<a1, a2, a3, a4, a5, a6, a7, a8>>
    BY <1>2 DEF Device!G!PleLayerPlan
  <2>2. /\ g[1] = S /\ g[2] = S /\ g[3] = S1 /\ g[4] = S2 /\ g[5] = S2
        /\ g[6] = S3 /\ g[7] = S3 /\ g[8] = S3 /\ g[9] = S3
    OBVIOUS
  <2>3. "h" \in S1 /\ {"ple_cur", "ple_gate"} \subseteq S2 /\ {"proj", "h"} \subseteq S3 /\ S \subseteq S3
    OBVIOUS
  <2>4. /\ "ple" \in Plain(v) /\ "ple_cur" \in Open(v) /\ "ple_cur" \in Plain(v) /\ "ple_cur" \in Faint(v)
        /\ {"h", "ple_gate", "proj"} \subseteq Full(v) /\ "ple_gate" \in Open(v) /\ "proj" \in Plain(v)
        /\ "h" \in Open(v) /\ "ple" \in S
    BY <1>2, GemmaNames, FullIs DEF Faint
  <2>5. Leads(v, a1, S, S)
    BY MarkLeads
  <2>6. Leads(v, a2, S, S1)
    BY <2>4, RowOpLeads
  <2> HIDE DEF S1
  <2>7. Leads(v, a3, S1, S2)
    BY <2>3, <2>4, MatVecLeads
  <2> HIDE DEF S2
  <2>8. Leads(v, a4, S2, S2)
    <3>1. \A arg, z, n : Leads(v, Device!G!Op("geglu", arg, z, "ple_cur", "ple_gate", n), S2, S2)
      BY <2>3, <2>4, BlendOpLeads DEF Device!Blended
    <3> QED
      BY <3>1, Zenon
  <2>9. Leads(v, a5, S2, S3)
    BY <2>3, <2>4, MatVecLeads
  <2> HIDE DEF S3
  <2>10. Leads(v, a6, S3, S3)
    BY NormLeads
  <2>11. Leads(v, a7, S3, S3)
    BY MarkLeads
  <2>12. Leads(v, a8, S3, S3)
    BY <2>3, <2>4, AddScaleLeads
  <2> HIDE DEF a1, a2, a3, a4, a5, a6, a7, a8, g
  <2>13. Flows(v, <<a1, a2, a3, a4, a5, a6, a7, a8>>, g[1], g[9])
    BY <2>2, <2>5, <2>6, <2>7, <2>8, <2>9, <2>10, <2>11, <2>12, Chain8
  <2> QED
    BY <2>1, <2>2, <2>3, <2>13, FlowsWeaker
<1> QED
  BY <1>1, <1>2

\* Before layer i: h, the per-layer embeddings, and the caches of the layers before it.
Inputs(m, i) ==
    {"h"} \cup (IF Device!Gemma(m) THEN IF m.c.ple THEN {"ple"} ELSE {} ELSE {})
    \cup {Name(w, j) : w \in {"k", "v"}, j \in {r \in Rings(m) : r < i}}

LEMMA GemmaStartFlows ==
    ASSUME NEW v, IsPass(v), Device!Gemma(v.m), NEW S, "tokens" \in S, v.e => "h" \in S
    PROVE  Flows(v, Device!G!Plan(v.m.c, v.e, 0), S, Inputs(v.m, 1))
<1> DEFINE p1 == Device!G!EmbedPlan(v.m.c, v.e)
           p2 == Device!G!PlePlan(v.m.c)
           T == S \cup {"h"}
           U == T \cup (IF v.m.c.ple THEN {"ple"} ELSE {})
<1>1. Device!G!Plan(v.m.c, v.e, 0) = p1 \o p2
  <2>1. Device!Loadable(v.m)
    BY DeviceAssumption DEF IsPass
  <2>2. 0 \notin DOMAIN v.m.c.layers
    BY <2>1 DEF Device!Loadable
  <2> QED
    BY <2>2 DEF Device!G!Plan
<1>2. Flows(v, p1, S, T)
  BY GemmaEmbedFlows
<1>3. Flows(v, p2, T, U)
  BY GemmaPleFlows
<1>4. Inputs(v.m, 1) \subseteq U
  <2>1. \A r \in Rings(v.m) : ~(r < 1)
    BY DEF Rings
  <2> QED
    BY <2>1 DEF Inputs
<1> HIDE DEF p1, p2, T, U
<1>5. Flows(v, p1 \o p2, S, U)
  BY <1>2, <1>3, FlowsJoin
<1>6. Flows(v, p1 \o p2, S, Inputs(v.m, 1))
  BY <1>4, <1>5, FlowsWeaker
<1> QED
  BY <1>1, <1>6

LEMMA GemmaLayerFlows ==
    ASSUME NEW v, IsPass(v), Device!Gemma(v.m), v.k = v.p, NEW i \in 1..Device!Layers(v.m)
    PROVE  Flows(v, Device!G!Plan(v.m.c, v.e, i), Inputs(v.m, i), Inputs(v.m, i + 1))
<1> DEFINE p1 == Device!G!AttnPlan(v.m.c, i, v.e)
           p2 == Device!G!FfnPlan(v.m.c, i)
           p3 == Device!G!PleLayerPlan(v.m.c, i)
           p4 == <<Device!G!Mark("l_out", "h")>>
           S == Inputs(v.m, i)
           T == S \cup Source(v.m, i)
<1>1. Device!Loadable(v.m)
  BY DeviceAssumption DEF IsPass
<1>2. Device!G!Plan(v.m.c, v.e, i) = p1 \o p2 \o p3 \o p4
  <2>1. i \in DOMAIN v.m.c.layers /\ i # 0
    BY <1>1 DEF Device!Loadable
  <2> QED
    BY <2>1 DEF Device!G!Plan
<1>3. "h" \in S /\ "h" \in T /\ (v.m.c.ple => "ple" \in T)
  BY DEF Inputs
<1>4. ~Device!Owns(v.m, i) => Source(v.m, i) \subseteq S
  <2>1. v.m.c.layers[i].source \in 1..i /\ v.m.c.layers[i].source \in Rings(v.m)
    BY SourceIs
  <2>2. ~Device!Owns(v.m, i) => v.m.c.layers[i].source < i
    BY <2>1 DEF Device!Owns
  <2> QED
    BY <2>1, <2>2 DEF Inputs, Source
<1>5. Inputs(v.m, i + 1) \subseteq T
  <2>1. ASSUME NEW r \in Rings(v.m), r < i + 1, NEW w \in {"k", "v"} PROVE Name(w, r) \in T
    <3>1. CASE r < i
      BY <3>1 DEF Inputs
    <3>2. CASE r = i
      <4>1. v.m.c.layers[i].source = i
        BY <3>2 DEF Rings, Device!Owns
      <4> QED
        BY <3>2, <4>1 DEF Source
    <3> QED
      BY <2>1, <3>1, <3>2 DEF Rings
  <2> QED
    BY <1>3, <2>1 DEF Inputs
<1> HIDE DEF S
<1>6. Flows(v, p1, S, T)
  BY <1>3, <1>4, GemmaAttnFlows
<1> HIDE DEF T
<1>7. Flows(v, p2, T, T)
  BY <1>3, GemmaFfnFlows
<1>8. Flows(v, p3, T, T)
  BY <1>3, GemmaPleLayerFlows
<1>9. Flows(v, p4, T, T)
  BY MarkLeads, FlowsOne
<1> HIDE DEF p1, p2, p3, p4
<1>10. Flows(v, p1 \o p2, S, T)
  BY <1>6, <1>7, FlowsJoin
<1>11. Flows(v, p1 \o p2 \o p3, S, T)
  BY <1>8, <1>10, FlowsJoin
<1>12. Flows(v, p1 \o p2 \o p3 \o p4, S, T)
  BY <1>9, <1>11, FlowsJoin
<1> QED
  BY <1>2, <1>5, <1>12, FlowsWeaker DEF S

LEMMA GemmaHeadFlows ==
    ASSUME NEW v, NEW S
    PROVE  Flows(v, Device!G!HeadPlan, S, S)
<1> DEFINE a1 == Device!G!Norm("output_norm", "row", "h", Device!G!D)
           a2 == Device!G!Mark("h_nextn", "h")
           g == <<S, S, S>>
<1>1. Device!G!HeadPlan = <<a1, a2>>
  BY DEF Device!G!HeadPlan
<1>2. g[1] = S /\ g[2] = S /\ g[3] = S
  OBVIOUS
<1>3. Leads(v, a1, S, S) /\ Leads(v, a2, S, S)
  BY NormLeads, MarkLeads
<1> HIDE DEF a1, a2, g
<1>4. Flows(v, <<a1, a2>>, g[1], g[3])
  BY <1>2, <1>3, Chain2
<1> QED
  BY <1>1, <1>2, <1>4

LEMMA GemmaTailFlows ==
    ASSUME NEW v, IsPass(v), Device!Gemma(v.m), NEW S, "x" \in S
    PROVE  Flows(v, Device!G!TailPlan(v.m.c), S, S \cup {"logits"})
<1> DEFINE a1 == Device!G!MatVec("token_embd", "x", "logits", Device!G!Vocab)
           a2 == Device!G!InPlace("soft_cap", "", "logits", Device!G!Vocab)
           T == S \cup {"logits"}
           p == IF v.m.c.cap THEN <<a2>> ELSE <<>>
<1>1. Device!G!TailPlan(v.m.c) = <<a1>> \o p
  BY DEF Device!G!TailPlan
<1>2. "x" \in Full(v) /\ "logits" \in Full(v)
  BY GemmaNames
<1>3. Leads(v, a1, S, T)
  BY <1>2, MatVecLeads
<1>4. Leads(v, a2, T, T)
  <2>1. \A arg, n : Leads(v, Device!G!InPlace("soft_cap", arg, "logits", n), T, T)
    BY PlaceLeads DEF Device!InPlace1
  <2> QED
    BY <2>1, Zenon
<1> HIDE DEF a1, a2, T
<1>5. Flows(v, p, T, T)
  BY <1>4, FlowsOne, FlowsNone
<1> HIDE DEF p
<1>6. Flows(v, <<a1>> \o p, S, T)
  BY <1>3, <1>5, FlowsOne, FlowsJoin
<1> QED
  BY <1>1, <1>6 DEF T

-----------------------------------------------------------------------------
(* qwen35's plans.                                                         *)

LEMMA QwenProjectFlows ==
    ASSUME NEW v, IsPass(v), ~Device!Gemma(v.m), NEW S, "x" \in S, NEW i
    PROVE  Flows(v, <<Device!Q!MatVec(Device!Q!Of("attn_qkv", i), "x", "fused", Device!Q!ConvDim),
                      Device!Q!Mark("linear_attn_qkv_mixed", "fused"),
                      Device!Q!MatVec(Device!Q!Of("attn_gate", i), "x", "z", Device!Q!Inner),
                      Device!Q!Mark("z", "z"),
                      Device!Q!MatVec(Device!Q!Of("ssm_alpha", i), "x", "alpha", Device!Q!ValueHeads),
                      Device!Q!Mark("alpha", "alpha"),
                      Device!Q!MatVec(Device!Q!Of("ssm_beta", i), "x", "beta", Device!Q!ValueHeads),
                      Device!Q!Mark("beta", "beta")>>, S, S \cup {"fused", "z", "alpha", "beta"})
<1> DEFINE a1 == Device!Q!MatVec(Device!Q!Of("attn_qkv", i), "x", "fused", Device!Q!ConvDim)
           a2 == Device!Q!Mark("linear_attn_qkv_mixed", "fused")
           a3 == Device!Q!MatVec(Device!Q!Of("attn_gate", i), "x", "z", Device!Q!Inner)
           a4 == Device!Q!Mark("z", "z")
           a5 == Device!Q!MatVec(Device!Q!Of("ssm_alpha", i), "x", "alpha", Device!Q!ValueHeads)
           a6 == Device!Q!Mark("alpha", "alpha")
           a7 == Device!Q!MatVec(Device!Q!Of("ssm_beta", i), "x", "beta", Device!Q!ValueHeads)
           a8 == Device!Q!Mark("beta", "beta")
           S1 == S \cup {"fused"}
           S2 == S1 \cup {"z"}
           S3 == S2 \cup {"alpha"}
           S4 == S3 \cup {"beta"}
           g == <<S, S1, S1, S2, S2, S3, S3, S4, S4>>
<1>1. /\ g[1] = S /\ g[2] = S1 /\ g[3] = S1 /\ g[4] = S2 /\ g[5] = S2
      /\ g[6] = S3 /\ g[7] = S3 /\ g[8] = S4 /\ g[9] = S4
  OBVIOUS
<1>2. "x" \in S1 /\ "x" \in S2 /\ "x" \in S3 /\ S4 = S \cup {"fused", "z", "alpha", "beta"}
  OBVIOUS
<1>3. {"x", "fused", "z", "alpha", "beta"} \subseteq Full(v)
  BY QwenNames
<1>4. Leads(v, a2, S1, S1) /\ Leads(v, a4, S2, S2) /\ Leads(v, a6, S3, S3) /\ Leads(v, a8, S4, S4)
  BY MarkLeads
<1>5. Leads(v, a1, S, S1)
  BY <1>3, MatVecLeads
<1> HIDE DEF S1
<1>6. Leads(v, a3, S1, S2)
  BY <1>2, <1>3, MatVecLeads
<1> HIDE DEF S2
<1>7. Leads(v, a5, S2, S3)
  BY <1>2, <1>3, MatVecLeads
<1> HIDE DEF S3
<1>8. Leads(v, a7, S3, S4)
  BY <1>2, <1>3, MatVecLeads
<1> HIDE DEF S4, a1, a2, a3, a4, a5, a6, a7, a8, g
<1>9. Flows(v, <<a1, a2, a3, a4, a5, a6, a7, a8>>, g[1], g[9])
  BY <1>1, <1>4, <1>5, <1>6, <1>7, <1>8, Chain8
<1>10. Flows(v, <<a1, a2, a3, a4, a5, a6, a7, a8>>, S, S \cup {"fused", "z", "alpha", "beta"})
  BY <1>1, <1>2, <1>9
<1> QED
  BY <1>10 DEF a1, a2, a3, a4, a5, a6, a7, a8

LEMMA QwenConvFlows ==
    ASSUME NEW v, IsPass(v), ~Device!Gemma(v.m), NEW S, "fused" \in S, NEW i \in Loops(v.m)
    PROVE  Flows(v, Device!Q!ConvPlan(v.m.c, i), S, S \cup {"conv"})
<1> DEFINE b == Name("conv_state", i)
           w == Device!Q!Taps(v.m.c, i)
           zero == Device!Q!ZERO
           sink == Device!Q!SINK
           n == Device!Q!ConvDim
           a1 == Device!Q!Delta("conv_silu", w, "fused", zero, zero, b, "conv", n)
           a2 == Device!Q!Delta("conv_shift", "", "fused", zero, zero, b, "conv_scratch", n)
           a3 == Device!Q!Delta("conv_commit", "", "conv_scratch", zero, zero, b, sink, n)
           S1 == S \cup {"conv"}
           S2 == S1 \cup {"conv_scratch"}
           g == <<S, S1, S2, S2>>
<1>1. Device!Q!ConvPlan(v.m.c, i) = <<a1, a2, a3>>
  BY NamesAlike, Zenon DEF Device!Q!ConvPlan
<1>2. g[1] = S /\ g[2] = S1 /\ g[3] = S2 /\ g[4] = S2
  OBVIOUS
<1>3. Device!Loadable(v.m)
  BY DeviceAssumption DEF IsPass
<1>4. b \in Device!Recurrent(v.m)
  BY <1>3, Apart
<1>5. /\ "fused" \in Full(v) /\ "conv" \in Full(v)
      /\ "conv_scratch" \in Device!Scratch(v.m) \ Still(v.m)
  BY QwenNames
<1>6. "fused" \in S1 /\ "fused" \in S2 /\ "conv_scratch" \in S2 /\ S1 \subseteq S2
  OBVIOUS
<1> HIDE DEF b
<1>7. Leads(v, a1, S, S1)
  BY <1>4, <1>5, DeltaLeads
<1> HIDE DEF S1
<1>8. Leads(v, a2, S1, S2)
  <2>1. \A arg : Leads(v, Device!Q!Delta("conv_shift", arg, "fused", zero, zero, b, "conv_scratch", n), S1, S2)
    BY <1>4, <1>5, <1>6, DeltaLeads
  <2> QED
    BY <2>1, Zenon
<1> HIDE DEF S2
<1>9. Leads(v, a3, S2, S2)
  <2>1. \A arg : Leads(v, Device!Q!Delta("conv_commit", arg, "conv_scratch", zero, zero, b, sink, n), S2, S2)
    BY <1>4, <1>5, <1>6, DeltaLeads
  <2> QED
    BY <2>1, Zenon
<1> HIDE DEF a1, a2, a3, g
<1>10. Flows(v, <<a1, a2, a3>>, g[1], g[4])
  BY <1>2, <1>7, <1>8, <1>9, Chain3
<1>11. Flows(v, <<a1, a2, a3>>, S, S1)
  BY <1>2, <1>6, <1>10, FlowsWeaker
<1> QED
  BY <1>1, <1>11 DEF S1

LEMMA QwenRecurFlows ==
    ASSUME NEW v, IsPass(v), ~Device!Gemma(v.m), NEW S, {"alpha", "beta", "conv", "z"} \subseteq S,
           NEW i \in Loops(v.m)
    PROVE  Flows(v, <<Device!Q!Delta("l2norm_qk", "", Device!Q!ZERO, Device!Q!ZERO, Device!Q!ZERO,
                                     Device!Q!SINK, "conv", Device!Q!ConvDim),
                      Device!Q!Delta("delta_recur", Device!Q!Decay(v.m.c, i), "alpha", "beta", "conv",
                                     Device!Q!Of("s", i), "attn", Device!Q!Inner),
                      Device!Q!Mark("attn_output", "attn"),
                      Device!Q!Norm(Device!Q!Params(v.m.c)[Device!Q!Of("ssm_norm", i)], "head", "attn",
                                    Device!Q!Inner),
                      Device!Q!Op("mul_silu", "", Device!Q!ZERO, "z", "attn", Device!Q!Inner),
                      Device!Q!Mark("final_output", "attn"),
                      Device!Q!MatVec(Device!Q!Of("ssm_out", i), "attn", "proj", Device!Q!D),
                      Device!Q!Mark("linear_attn_out", "proj")>>, S, S \cup {"proj"})
<1> DEFINE b == Name("s", i)
           zero == Device!Q!ZERO
           sink == Device!Q!SINK
           n == Device!Q!Inner
           a1 == Device!Q!Delta("l2norm_qk", "", zero, zero, zero, sink, "conv", Device!Q!ConvDim)
           a2 == Device!Q!Delta("delta_recur", Device!Q!Decay(v.m.c, i), "alpha", "beta", "conv",
                                Device!Q!Of("s", i), "attn", n)
           a3 == Device!Q!Mark("attn_output", "attn")
           a4 == Device!Q!Norm(Device!Q!Params(v.m.c)[Device!Q!Of("ssm_norm", i)], "head", "attn", n)
           a5 == Device!Q!Op("mul_silu", "", zero, "z", "attn", n)
           a6 == Device!Q!Mark("final_output", "attn")
           a7 == Device!Q!MatVec(Device!Q!Of("ssm_out", i), "attn", "proj", Device!Q!D)
           a8 == Device!Q!Mark("linear_attn_out", "proj")
           S1 == S \cup {"attn"}
           S2 == S1 \cup {"proj"}
           g == <<S, S, S1, S1, S1, S1, S1, S2, S2>>
<1>2. /\ g[1] = S /\ g[2] = S /\ g[3] = S1 /\ g[4] = S1 /\ g[5] = S1
      /\ g[6] = S1 /\ g[7] = S1 /\ g[8] = S2 /\ g[9] = S2
  OBVIOUS
<1>3. Device!Loadable(v.m)
  BY DeviceAssumption DEF IsPass
<1>4. b \in Device!Recurrent(v.m) /\ Device!Q!Of("s", i) = b
  BY <1>3, Apart, NamesAlike
<1>5. /\ {"alpha", "beta", "conv", "z", "attn", "proj"} \subseteq Full(v) /\ "z" \in Plain(v)
      /\ "attn" \in Open(v) /\ "conv_scratch" \in Device!Scratch(v.m) \ Still(v.m)
  BY QwenNames, FullIs
<1>6. "attn" \in S1 /\ "z" \in S1 /\ S \cup {"proj"} \subseteq S2
  OBVIOUS
<1>7. Leads(v, a1, S, S)
  <2>1. \A arg : Leads(v, Device!Q!Delta("l2norm_qk", arg, zero, zero, zero, sink, "conv", Device!Q!ConvDim), S, S)
    BY <1>4, <1>5, DeltaLeads
  <2> QED
    BY <2>1, Zenon
<1>8. Leads(v, a2, S, S1)
  <2>1. "alpha" \in S /\ "alpha" \in Full(v) /\ "attn" \in Full(v) /\ {"beta", "conv"} \subseteq S \cap Full(v)
    BY <1>5
  <2> HIDE DEF b
  <2>2. \A arg : Leads(v, Device!Q!Delta("delta_recur", arg, "alpha", "beta", "conv", b, "attn", n), S, S \cup {"attn"})
    BY <1>4, <1>5, <2>1, DeltaLeads
  <2> QED
    BY <1>4, <2>2
<1> HIDE DEF S1
<1>9. Leads(v, a3, S1, S1) /\ Leads(v, a4, S1, S1) /\ Leads(v, a6, S1, S1)
  BY MarkLeads, NormLeads
<1>10. Leads(v, a5, S1, S1)
  <2>1. \A arg, z : Leads(v, Device!Q!Op("mul_silu", arg, z, "z", "attn", n), S1, S1)
    BY <1>5, <1>6, BlendOpLeads DEF Device!Blended
  <2> QED
    BY <2>1, Zenon
<1>11. Leads(v, a7, S1, S2)
  BY <1>5, <1>6, MatVecLeads
<1>12. Leads(v, a8, S2, S2)
  BY MarkLeads
<1> HIDE DEF S2, a1, a2, a3, a4, a5, a6, a7, a8, g
<1>13. Flows(v, <<a1, a2, a3, a4, a5, a6, a7, a8>>, g[1], g[9])
  BY <1>2, <1>7, <1>8, <1>9, <1>10, <1>11, <1>12, Chain8
<1>14. Flows(v, <<a1, a2, a3, a4, a5, a6, a7, a8>>, S, S \cup {"proj"})
  BY <1>2, <1>6, <1>13, FlowsWeaker
<1> QED
  BY <1>14 DEF a1, a2, a3, a4, a5, a6, a7, a8

LEMMA QwenLinearFlows ==
    ASSUME NEW v, IsPass(v), ~Device!Gemma(v.m), NEW S, "x" \in S, NEW i \in Loops(v.m)
    PROVE  Flows(v, Device!Q!LinearPlan(v.m.c, i), S, S \cup {"proj"})
<1> DEFINE p1 == <<Device!Q!MatVec(Device!Q!Of("attn_qkv", i), "x", "fused", Device!Q!ConvDim),
                   Device!Q!Mark("linear_attn_qkv_mixed", "fused"),
                   Device!Q!MatVec(Device!Q!Of("attn_gate", i), "x", "z", Device!Q!Inner),
                   Device!Q!Mark("z", "z"),
                   Device!Q!MatVec(Device!Q!Of("ssm_alpha", i), "x", "alpha", Device!Q!ValueHeads),
                   Device!Q!Mark("alpha", "alpha"),
                   Device!Q!MatVec(Device!Q!Of("ssm_beta", i), "x", "beta", Device!Q!ValueHeads),
                   Device!Q!Mark("beta", "beta")>>
           p2 == Device!Q!ConvPlan(v.m.c, i)
           p3 == <<Device!Q!Delta("l2norm_qk", "", Device!Q!ZERO, Device!Q!ZERO, Device!Q!ZERO,
                                  Device!Q!SINK, "conv", Device!Q!ConvDim),
                   Device!Q!Delta("delta_recur", Device!Q!Decay(v.m.c, i), "alpha", "beta", "conv",
                                  Device!Q!Of("s", i), "attn", Device!Q!Inner),
                   Device!Q!Mark("attn_output", "attn"),
                   Device!Q!Norm(Device!Q!Params(v.m.c)[Device!Q!Of("ssm_norm", i)], "head", "attn",
                                 Device!Q!Inner),
                   Device!Q!Op("mul_silu", "", Device!Q!ZERO, "z", "attn", Device!Q!Inner),
                   Device!Q!Mark("final_output", "attn"),
                   Device!Q!MatVec(Device!Q!Of("ssm_out", i), "attn", "proj", Device!Q!D),
                   Device!Q!Mark("linear_attn_out", "proj")>>
           S1 == S \cup {"fused", "z", "alpha", "beta"}
           S2 == S1 \cup {"conv"}
           S3 == S2 \cup {"proj"}
<1>1. Device!Q!LinearPlan(v.m.c, i) = p1 \o p2 \o p3
  BY Zenon DEF Device!Q!LinearPlan
<1>2. "fused" \in S1 /\ {"alpha", "beta", "conv", "z"} \subseteq S2 /\ S \cup {"proj"} \subseteq S3
  OBVIOUS
<1>3. Flows(v, p1, S, S1)
  BY QwenProjectFlows, Zenon
<1> HIDE DEF S1
<1>4. Flows(v, p2, S1, S2)
  BY <1>2, QwenConvFlows
<1> HIDE DEF S2
<1>5. Flows(v, p3, S2, S3)
  BY <1>2, QwenRecurFlows, Zenon
<1> HIDE DEF S3, p1, p2, p3
<1>6. Flows(v, p1 \o p2, S, S2)
  BY <1>3, <1>4, FlowsJoin
<1>7. Flows(v, p1 \o p2 \o p3, S, S3)
  BY <1>5, <1>6, FlowsJoin
<1>8. Flows(v, p1 \o p2 \o p3, S, S \cup {"proj"})
  BY <1>2, <1>7, FlowsWeaker
<1> QED
  BY <1>1, <1>8

\* The query, taken apart from its gate when there is one, the key and the value.
LEMMA QwenQueryFlows ==
    ASSUME NEW v, IsPass(v), ~Device!Gemma(v.m), NEW S, "x" \in S, NEW i
    PROVE  Flows(v, Device!Q!QueryPlan(v.m.c, i), S,
                 S \cup {"q", "k", "v"} \cup (IF v.m.c.gate THEN {"gate_a"} ELSE {}))
<1> DEFINE dst == IF v.m.c.gate THEN "fused" ELSE "q"
           a1 == Device!Q!MatVec(Device!Q!Of("attn_q", i), "x", dst,
                                 Device!Q!Heads * Device!Q!QStride(v.m.c))
           a2 == Device!Q!Mark("Qcur_full", dst)
           a3 == Device!Q!MatVec(Device!Q!Of("attn_k", i), "x", "k", Device!Q!KvDim)
           a4 == Device!Q!Mark("Kcur", "k")
           a5 == Device!Q!MatVec(Device!Q!Of("attn_v", i), "x", "v", Device!Q!KvDim)
           a6 == Device!Q!Mark("Vcur", "v")
           b1 == Device!Q!Op("split_half", "query", "fused", Device!Q!ZERO, "q", Device!Q!QDim)
           b2 == Device!Q!Op("split_half", "gate", "fused", Device!Q!ZERO, "gate_a", Device!Q!QDim)
           p == IF v.m.c.gate THEN <<b1, b2>> ELSE <<>>
           S1 == S \cup {dst}
           S2 == S1 \cup {"k"}
           S3 == S2 \cup {"v"}
           S4 == S3 \cup {"q"}
           S5 == S4 \cup {"gate_a"}
           T == S \cup {"q", "k", "v"} \cup (IF v.m.c.gate THEN {"gate_a"} ELSE {})
           g == <<S, S1, S1, S2, S2, S3, S3>>
           f == <<S3, S4, S5>>
<1>1. Device!Q!QueryPlan(v.m.c, i) = <<a1, a2, a3, a4, a5, a6>> \o p
  BY DEF Device!Q!QueryPlan
<1>2. g[1] = S /\ g[2] = S1 /\ g[3] = S1 /\ g[4] = S2 /\ g[5] = S2 /\ g[6] = S3 /\ g[7] = S3
  OBVIOUS
<1>a. f[1] = S3 /\ f[2] = S4 /\ f[3] = S5
  OBVIOUS
<1>3. "x" \in S1 /\ "x" \in S2 /\ (v.m.c.gate => "fused" \in S3 /\ "fused" \in S4 /\ T \subseteq S5)
      /\ (~v.m.c.gate => T \subseteq S3)
  OBVIOUS
<1>4. {"x", "fused", "q", "k", "v", "gate_a"} \subseteq Full(v) /\ dst \in Full(v)
  BY QwenNames
<1>5. "fused" \in Plain(v) /\ "fused" \notin Faint(v) /\ "q" \in Open(v) /\ "gate_a" \in Open(v)
  BY <1>4, FullIs DEF Full
<1> HIDE DEF dst, T
<1>6. Leads(v, a1, S, S1)
  BY <1>4, MatVecLeads
<1> HIDE DEF S1
<1>7. Leads(v, a2, S1, S1) /\ Leads(v, a4, S2, S2) /\ Leads(v, a6, S3, S3)
  BY MarkLeads
<1>8. Leads(v, a3, S1, S2)
  BY <1>3, <1>4, MatVecLeads
<1> HIDE DEF S2
<1>9. Leads(v, a5, S2, S3)
  BY <1>3, <1>4, MatVecLeads
<1> HIDE DEF S3
<1>10. v.m.c.gate => Leads(v, b1, S3, S4)
  BY <1>3, <1>5, RowOpLeads
<1> HIDE DEF S4
<1>11. v.m.c.gate => Leads(v, b2, S4, S5)
  BY <1>3, <1>5, RowOpLeads
<1> HIDE DEF S5, a1, a2, a3, a4, a5, a6, b1, b2, g, f
<1>12. Flows(v, <<a1, a2, a3, a4, a5, a6>>, g[1], g[7])
  BY <1>2, <1>6, <1>7, <1>8, <1>9, Chain6
<1>13. Flows(v, p, S3, T)
  <2>1. CASE v.m.c.gate
    <3>1. Flows(v, <<b1, b2>>, f[1], f[3])
      BY <1>10, <1>11, <1>a, <2>1, Chain2
    <3>2. Flows(v, <<b1, b2>>, S3, T)
      BY <1>3, <1>a, <2>1, <3>1, FlowsWeaker
    <3> QED
      BY <2>1, <3>2
  <2>2. CASE ~v.m.c.gate
    <3>1. Flows(v, <<>>, S3, S3)
      BY FlowsNone
    <3>2. Flows(v, <<>>, S3, T)
      BY <1>3, <2>2, <3>1, FlowsWeaker
    <3> QED
      BY <2>2, <3>2
  <2> QED
    BY <2>1, <2>2
<1> HIDE DEF p
<1>14. Flows(v, <<a1, a2, a3, a4, a5, a6>> \o p, S, T)
  BY <1>2, <1>12, <1>13, FlowsJoin
<1> QED
  BY <1>1, <1>14 DEF T

LEMMA QwenFullFlows ==
    ASSUME NEW v, IsPass(v), ~Device!Gemma(v.m), v.k = v.p, NEW S, "x" \in S, NEW i \in Rings(v.m)
    PROVE  Flows(v, Device!Q!FullAttnPlan(v.m.c, i), S, S \cup {"proj", Name("k", i), Name("v", i)})
<1> DEFINE K == Name("k", i)
           V == Name("v", i)
           a1 == Device!Q!Norm(Device!Q!Params(v.m.c)[Device!Q!Of("attn_q_norm", i)], "head", "q", Device!Q!QDim)
           a2 == Device!Q!InPlace("rope_partial", "rope", "q", Device!Q!QDim)
           a3 == Device!Q!Norm(Device!Q!Params(v.m.c)[Device!Q!Of("attn_k_norm", i)], "head", "k", Device!Q!KvDim)
           a4 == Device!Q!InPlace("rope_partial", "rope", "k", Device!Q!KvDim)
           a5 == Device!Q!Mark("Qcur", "q")
           a6 == Device!Q!Mark("Kcur_pos", "k")
           a7 == Device!Q!Op("write_cache", "all", "k", Device!Q!ZERO, K, Device!Q!KvDim)
           a8 == Device!Q!Op("write_cache", "all", "v", Device!Q!ZERO, V, Device!Q!KvDim)
           how == <<"all", FALSE>>
           b1 == Device!Q!Op("mul_sigmoid", "", Device!Q!ZERO, "gate_a", "attn", Device!Q!QDim)
           c1 == Device!Q!Mark("attn_gated", "attn")
           c2 == Device!Q!MatVec(Device!Q!Of("attn_output", i), "attn", "proj", Device!Q!D)
           c3 == Device!Q!Mark("attn_output", "proj")
           p1 == Device!Q!QueryPlan(v.m.c, i)
           p2 == <<a1, a2, a3, a4, a5, a6, a7, a8>>
           p3 == Device!Q!Attend(how, K, V, Device!Q!QDim)
           p4 == IF v.m.c.gate THEN <<b1>> ELSE <<>>
           p5 == <<c1, c2, c3>>
           S1 == S \cup {"q", "k", "v"} \cup (IF v.m.c.gate THEN {"gate_a"} ELSE {})
           S2 == S1 \cup {K}
           S3 == S2 \cup {V}
           S4 == S3 \cup {"scores", "attn"}
           S5 == S4 \cup {"proj"}
           g == <<S1, S1, S1, S1, S1, S1, S1, S2, S3>>
           f == <<S4, S4, S5, S5>>
<1>1. Device!Q!FullAttnPlan(v.m.c, i) = p1 \o p2 \o p3 \o p4 \o p5
  BY NamesAlike, Zenon DEF Device!Q!FullAttnPlan
<1>2. /\ g[1] = S1 /\ g[2] = S1 /\ g[3] = S1 /\ g[4] = S1 /\ g[5] = S1
      /\ g[6] = S1 /\ g[7] = S1 /\ g[8] = S2 /\ g[9] = S3
  OBVIOUS
<1>3. f[1] = S4 /\ f[2] = S4 /\ f[3] = S5 /\ f[4] = S5
  OBVIOUS
<1>4. /\ "k" \in S1 /\ "v" \in S2 /\ {"q", K, V} \subseteq S3 /\ "attn" \in S4
      /\ (v.m.c.gate => "gate_a" \in S4) /\ S \cup {"proj", K, V} \subseteq S5
  OBVIOUS
<1>5. /\ {"q", "scores", "attn", "proj"} \subseteq Full(v) /\ "k" \in Plain(v) /\ "v" \in Plain(v)
      /\ "gate_a" \in Plain(v) /\ "attn" \in Open(v)
  BY QwenNames, FullIs
<1>6. Device!Loadable(v.m)
  BY DeviceAssumption DEF IsPass
<1>7. K \in Attending(v.m) /\ V \in Attending(v.m) /\ KindOf(v.m, K) = "all" /\ KindOf(v.m, V) = "all"
  BY <1>6, Apart, KindIs
<1>8. how[1] = "all"
  OBVIOUS
<1>9. Flows(v, p1, S, S1)
  BY QwenQueryFlows
<1> HIDE DEF S1, K, V, how
<1>10. Leads(v, a1, S1, S1) /\ Leads(v, a3, S1, S1)
  BY NormLeads
<1>11. Leads(v, a2, S1, S1) /\ Leads(v, a4, S1, S1)
  BY PlaceLeads DEF Device!InPlace1
<1>12. Leads(v, a5, S1, S1) /\ Leads(v, a6, S1, S1) /\ Leads(v, c1, S4, S4) /\ Leads(v, c3, S5, S5)
  BY MarkLeads
<1>13. Leads(v, a7, S1, S2)
  BY <1>4, <1>5, <1>7, WriteOpLeads
<1> HIDE DEF S2
<1>14. Leads(v, a8, S2, S3)
  BY <1>4, <1>5, <1>7, WriteOpLeads
<1> HIDE DEF S3
<1>15. Flows(v, p3, S3, S4)
  BY <1>4, <1>5, <1>7, <1>8, AttendFlows
<1> HIDE DEF S4
<1>16. v.m.c.gate => Leads(v, b1, S4, S4)
  <2>1. v.m.c.gate => \A arg, z, n : Leads(v, Device!Q!Op("mul_sigmoid", arg, z, "gate_a", "attn", n), S4, S4)
    BY <1>4, <1>5, BlendOpLeads DEF Device!Blended
  <2> QED
    BY <2>1, Zenon
<1>17. Leads(v, c2, S4, S5)
  BY <1>4, <1>5, MatVecLeads
<1> HIDE DEF S5, a1, a2, a3, a4, a5, a6, a7, a8, b1, c1, c2, c3, g, f
<1>18. Flows(v, p2, g[1], g[9])
  BY <1>2, <1>10, <1>11, <1>12, <1>13, <1>14, Chain8
<1>19. Flows(v, p4, S4, S4)
  BY <1>16, FlowsOne, FlowsNone
<1>20. Flows(v, p5, f[1], f[4])
  BY <1>3, <1>12, <1>17, Chain3
<1> HIDE DEF p1, p2, p3, p4, p5
<1>21. Flows(v, p1 \o p2, S, S3)
  BY <1>2, <1>9, <1>18, FlowsJoin
<1>22. Flows(v, p1 \o p2 \o p3, S, S4)
  BY <1>15, <1>21, FlowsJoin
<1>23. Flows(v, p1 \o p2 \o p3 \o p4, S, S4)
  BY <1>19, <1>22, FlowsJoin
<1>24. Flows(v, p1 \o p2 \o p3 \o p4 \o p5, S, S5)
  BY <1>3, <1>20, <1>23, FlowsJoin
<1>25. Flows(v, p1 \o p2 \o p3 \o p4 \o p5, S, S \cup {"proj", K, V})
  BY <1>4, <1>24, FlowsWeaker
<1> QED
  BY <1>1, <1>25 DEF K, V

LEMMA QwenFfnFlows ==
    ASSUME NEW v, IsPass(v), ~Device!Gemma(v.m), NEW S, {"h", "proj"} \subseteq S, NEW i, NEW gain
    PROVE  Flows(v, <<Device!Q!AddScale("one", "proj", "h", Device!Q!D), Device!Q!Mark("attn_residual", "h"),
                      Device!Q!Copy("h", "x", Device!Q!D), Device!Q!Norm(gain, "row", "x", Device!Q!D),
                      Device!Q!Mark("attn_post_norm", "x"),
                      Device!Q!MatVec(Device!Q!Of("ffn_gate", i), "x", "gate", Device!Q!Ffn),
                      Device!Q!MatVec(Device!Q!Of("ffn_up", i), "x", "up", Device!Q!Ffn),
                      Device!Q!Op("swiglu", "", Device!Q!ZERO, "up", "gate", Device!Q!Ffn),
                      Device!Q!MatVec(Device!Q!Of("ffn_down", i), "gate", "proj", Device!Q!D),
                      Device!Q!Mark("ffn_out", "proj"),
                      Device!Q!AddScale("one", "proj", "h", Device!Q!D), Device!Q!Mark("l_out", "h")>>, S, S)
<1> DEFINE a1 == Device!Q!AddScale("one", "proj", "h", Device!Q!D)
           a2 == Device!Q!Mark("attn_residual", "h")
           a3 == Device!Q!Copy("h", "x", Device!Q!D)
           a4 == Device!Q!Norm(gain, "row", "x", Device!Q!D)
           a5 == Device!Q!Mark("attn_post_norm", "x")
           a6 == Device!Q!MatVec(Device!Q!Of("ffn_gate", i), "x", "gate", Device!Q!Ffn)
           a7 == Device!Q!MatVec(Device!Q!Of("ffn_up", i), "x", "up", Device!Q!Ffn)
           a8 == Device!Q!Op("swiglu", "", Device!Q!ZERO, "up", "gate", Device!Q!Ffn)
           a9 == Device!Q!MatVec(Device!Q!Of("ffn_down", i), "gate", "proj", Device!Q!D)
           a10 == Device!Q!Mark("ffn_out", "proj")
           a11 == Device!Q!AddScale("one", "proj", "h", Device!Q!D)
           a12 == Device!Q!Mark("l_out", "h")
           S1 == S \cup {"x"}
           S2 == S1 \cup {"gate"}
           S3 == S2 \cup {"up"}
           S4 == S3 \cup {"proj"}
           g == <<S, S, S, S1, S1, S1, S2, S3, S3, S4, S4, S4, S4>>
<1>1. /\ g[1] = S /\ g[2] = S /\ g[3] = S /\ g[4] = S1 /\ g[5] = S1 /\ g[6] = S1 /\ g[7] = S2
      /\ g[8] = S3 /\ g[9] = S3 /\ g[10] = S4 /\ g[11] = S4 /\ g[12] = S4 /\ g[13] = S4
  OBVIOUS
<1>2. /\ "x" \in S1 /\ "x" \in S2 /\ {"gate", "up"} \subseteq S3 /\ {"proj", "h"} \subseteq S4 /\ S \subseteq S4
  OBVIOUS
<1>3. /\ {"h", "x", "gate", "up", "proj"} \subseteq Full(v) /\ "up" \in Plain(v) /\ "gate" \in Open(v)
      /\ "proj" \in Plain(v) /\ "h" \in Open(v)
  BY QwenNames, FullIs
<1>4. Leads(v, a1, S, S)
  BY <1>3, AddScaleLeads
<1>5. Leads(v, a3, S, S1)
  BY <1>3, CopyLeads
<1> HIDE DEF S1
<1>6. Leads(v, a2, S, S) /\ Leads(v, a4, S1, S1) /\ Leads(v, a5, S1, S1)
  BY MarkLeads, NormLeads
<1>7. Leads(v, a6, S1, S2)
  BY <1>2, <1>3, MatVecLeads
<1> HIDE DEF S2
<1>8. Leads(v, a7, S2, S3)
  BY <1>2, <1>3, MatVecLeads
<1> HIDE DEF S3
<1>9. Leads(v, a8, S3, S3)
  <2>1. \A arg, z, n : Leads(v, Device!Q!Op("swiglu", arg, z, "up", "gate", n), S3, S3)
    BY <1>2, <1>3, BlendOpLeads DEF Device!Blended
  <2> QED
    BY <2>1, Zenon
<1>10. Leads(v, a9, S3, S4)
  BY <1>2, <1>3, MatVecLeads
<1> HIDE DEF S4
<1>11. Leads(v, a10, S4, S4) /\ Leads(v, a12, S4, S4)
  BY MarkLeads
<1>12. Leads(v, a11, S4, S4)
  BY <1>2, <1>3, AddScaleLeads
<1> HIDE DEF a1, a2, a3, a4, a5, a6, a7, a8, a9, a10, a11, a12, g
<1>13. Flows(v, <<a1, a2, a3, a4, a5, a6, a7, a8, a9, a10, a11, a12>>, g[1], g[13])
  BY <1>1, <1>4, <1>5, <1>6, <1>7, <1>8, <1>9, <1>10, <1>11, <1>12, Chain12
<1>14. Flows(v, <<a1, a2, a3, a4, a5, a6, a7, a8, a9, a10, a11, a12>>, S, S)
  BY <1>1, <1>2, <1>13, FlowsWeaker
<1> QED
  BY <1>14, Zenon DEF a1, a2, a3, a4, a5, a6, a7, a8, a9, a10, a11, a12

LEMMA QwenLayerFlows ==
    ASSUME NEW v, IsPass(v), ~Device!Gemma(v.m), v.k = v.p, NEW i \in 1..Device!Layers(v.m)
    PROVE  Flows(v, Device!Q!Plan(v.m.c, i), Inputs(v.m, i), Inputs(v.m, i + 1))
<1> DEFINE a1 == Device!Q!Copy("h", "x", Device!Q!D)
           a2 == Device!Q!Norm(Device!Q!Params(v.m.c)[Device!Q!Of("attn_norm", i)], "row", "x", Device!Q!D)
           a3 == Device!Q!Mark("attn_norm", "x")
           gain == Device!Q!Params(v.m.c)[Device!Q!Of("post_attention_norm", i)]
           p2 == IF v.m.c.recurrent[i] THEN Device!Q!LinearPlan(v.m.c, i) ELSE Device!Q!FullAttnPlan(v.m.c, i)
           p3 == <<Device!Q!AddScale("one", "proj", "h", Device!Q!D), Device!Q!Mark("attn_residual", "h"),
                   Device!Q!Copy("h", "x", Device!Q!D), Device!Q!Norm(gain, "row", "x", Device!Q!D),
                   Device!Q!Mark("attn_post_norm", "x"),
                   Device!Q!MatVec(Device!Q!Of("ffn_gate", i), "x", "gate", Device!Q!Ffn),
                   Device!Q!MatVec(Device!Q!Of("ffn_up", i), "x", "up", Device!Q!Ffn),
                   Device!Q!Op("swiglu", "", Device!Q!ZERO, "up", "gate", Device!Q!Ffn),
                   Device!Q!MatVec(Device!Q!Of("ffn_down", i), "gate", "proj", Device!Q!D),
                   Device!Q!Mark("ffn_out", "proj"),
                   Device!Q!AddScale("one", "proj", "h", Device!Q!D), Device!Q!Mark("l_out", "h")>>
           S == Inputs(v.m, i)
           S1 == S \cup {"x"}
           S2 == S1 \cup {"proj"} \cup (IF v.m.c.recurrent[i] THEN {} ELSE {Name("k", i), Name("v", i)})
           g == <<S, S1, S1, S1>>
<1>1. Device!Loadable(v.m)
  BY DeviceAssumption DEF IsPass
<1>2. i \in Device!Q!Layers(v.m.c) /\ i # 0
  BY <1>1 DEF Device!Q!Layers, Device!Loadable, Device!Layers
<1>3. Device!Q!BlockPlan(v.m.c, i) = <<a1, a2, a3>> \o p2 \o p3
  BY Zenon DEF Device!Q!BlockPlan
<1>4. Device!Q!Plan(v.m.c, i) = Device!Q!BlockPlan(v.m.c, i)
  BY <1>2 DEF Device!Q!Plan
<1>5. g[1] = S /\ g[2] = S1 /\ g[3] = S1 /\ g[4] = S1
  OBVIOUS
<1>6. "h" \in S /\ "x" \in S1 /\ {"h", "proj"} \subseteq S2
  BY DEF Inputs
<1>7. "h" \in Full(v) /\ "x" \in Full(v)
  BY QwenNames
<1>8. Inputs(v.m, i + 1) \subseteq S2
  <2>1. ASSUME NEW r \in Rings(v.m), r < i + 1, NEW w \in {"k", "v"} PROVE Name(w, r) \in S2
    <3>1. CASE r < i
      BY <3>1 DEF Inputs
    <3>2. CASE r = i
      BY <3>2 DEF Rings
    <3> QED
      BY <2>1, <3>1, <3>2 DEF Rings
  <2> QED
    BY <1>6, <2>1 DEF Inputs
<1>9. (v.m.c.recurrent[i] => i \in Loops(v.m)) /\ (~v.m.c.recurrent[i] => i \in Rings(v.m))
  BY DEF Loops, Rings
<1> HIDE DEF S
<1>10. Leads(v, a1, S, S1)
  BY <1>6, <1>7, CopyLeads
<1> HIDE DEF S1
<1>11. Leads(v, a2, S1, S1) /\ Leads(v, a3, S1, S1)
  BY MarkLeads, NormLeads
<1>12. Flows(v, p2, S1, S2)
  <2>1. CASE v.m.c.recurrent[i]
    <3>1. Flows(v, Device!Q!LinearPlan(v.m.c, i), S1, S1 \cup {"proj"})
      BY <1>6, <1>9, <2>1, QwenLinearFlows
    <3> QED
      BY <2>1, <3>1, S1 \cup {"proj"} \cup {} = S1 \cup {"proj"}
  <2>2. CASE ~v.m.c.recurrent[i]
    <3>1. Flows(v, Device!Q!FullAttnPlan(v.m.c, i), S1, S1 \cup {"proj", Name("k", i), Name("v", i)})
      BY <1>6, <1>9, <2>2, QwenFullFlows
    <3>2. S2 = S1 \cup {"proj", Name("k", i), Name("v", i)}
      BY <2>2
    <3> QED
      BY <2>2, <3>1, <3>2
  <2> QED
    BY <2>1, <2>2
<1> HIDE DEF S2
<1>13. Flows(v, p3, S2, S2)
  BY <1>6, QwenFfnFlows, Zenon
<1> HIDE DEF a1, a2, a3, p2, p3, g
<1>14. Flows(v, <<a1, a2, a3>>, g[1], g[4])
  BY <1>5, <1>10, <1>11, Chain3
<1>15. Flows(v, <<a1, a2, a3>> \o p2, S, S2)
  BY <1>5, <1>12, <1>14, FlowsJoin
<1>16. Flows(v, <<a1, a2, a3>> \o p2 \o p3, S, S2)
  BY <1>13, <1>15, FlowsJoin
<1>17. Flows(v, <<a1, a2, a3>> \o p2 \o p3, S, Inputs(v.m, i + 1))
  BY <1>8, <1>16, FlowsWeaker
<1> QED
  BY <1>3, <1>4, <1>17 DEF S

LEMMA QwenEndFlows ==
    ASSUME NEW v, IsPass(v), ~Device!Gemma(v.m), NEW S
    PROVE  /\ "tokens" \in S /\ ~v.e => Flows(v, Device!Q!Plan(v.m.c, 0), S, Inputs(v.m, 1))
           /\ Flows(v, Device!Q!HeadPlan(v.m.c), S, S)
           /\ "x" \in S => Flows(v, Device!Q!TailPlan(v.m.c), S, S \cup {"logits"})
<1>1. Device!Loadable(v.m)
  BY DeviceAssumption DEF IsPass
<1>2. ASSUME "tokens" \in S, ~v.e
      PROVE  Flows(v, Device!Q!Plan(v.m.c, 0), S, Inputs(v.m, 1))
  <2> DEFINE a1 == Device!Q!Lookup("token_embd", "h", Device!Q!D)
             a2 == Device!Q!Mark("model.input_embed", "h")
             T == S \cup {"h"}
             g == <<S, T, T>>
  <2>1. Device!Q!Plan(v.m.c, 0) = <<a1, a2>>
    <3>1. 0 \notin Device!Q!Layers(v.m.c)
      BY <1>1 DEF Device!Q!Layers, Device!Loadable, Device!Layers
    <3> QED
      BY <3>1 DEF Device!Q!Plan
  <2>2. g[1] = S /\ g[2] = T /\ g[3] = T
    OBVIOUS
  <2>3. Leads(v, a1, S, T)
    BY <1>2, QwenNames, LookupLeads DEF Full
  <2>4. Leads(v, a2, T, T)
    BY MarkLeads
  <2>5. Inputs(v.m, 1) \subseteq T
    <3>1. \A r \in Rings(v.m) : ~(r < 1)
      BY DEF Rings
    <3> QED
      BY <3>1 DEF Inputs
  <2> HIDE DEF a1, a2, g, T
  <2>6. Flows(v, <<a1, a2>>, g[1], g[3])
    BY <2>2, <2>3, <2>4, Chain2
  <2>7. Flows(v, <<a1, a2>>, S, Inputs(v.m, 1))
    BY <2>2, <2>5, <2>6, FlowsWeaker
  <2> QED
    BY <2>1, <2>7
<1>3. Flows(v, Device!Q!HeadPlan(v.m.c), S, S)
  <2> DEFINE a1 == Device!Q!Norm(Device!Q!Params(v.m.c)["output_norm"], "row", "h", Device!Q!D)
             a2 == Device!Q!Mark("result_norm", "h")
             g == <<S, S, S>>
  <2>1. Device!Q!HeadPlan(v.m.c) = <<a1, a2>>
    BY DEF Device!Q!HeadPlan
  <2>2. g[1] = S /\ g[2] = S /\ g[3] = S
    OBVIOUS
  <2>3. Leads(v, a1, S, S) /\ Leads(v, a2, S, S)
    BY NormLeads, MarkLeads
  <2> HIDE DEF a1, a2, g
  <2>4. Flows(v, <<a1, a2>>, g[1], g[3])
    BY <2>2, <2>3, Chain2
  <2> QED
    BY <2>1, <2>2, <2>4
<1>4. ASSUME "x" \in S PROVE Flows(v, Device!Q!TailPlan(v.m.c), S, S \cup {"logits"})
  <2>1. {"x", "logits"} \subseteq Full(v)
    BY QwenNames
  <2>2. Leads(v, Device!Q!MatVec(Device!Q!OutputTensor(v.m.c), "x", "logits", Device!Q!Vocab), S, S \cup {"logits"})
    BY <1>4, <2>1, MatVecLeads
  <2> QED
    BY <2>2, FlowsOne DEF Device!Q!TailPlan
<1> QED
  BY <1>2, <1>3, <1>4

-----------------------------------------------------------------------------
(* A whole forward pass.                                                   *)

Stage(m, e, i) == IF Device!Gemma(m) THEN Device!G!Plan(m.c, e, i) ELSE Device!Q!Plan(m.c, i)
Earlier(f, i) == IF i = 0 THEN <<>> ELSE f[i - 1]
IsBuiltTo(f, m, e, n) == f = [i \in 0..n |-> Earlier(f, i) \o Stage(m, e, i)]

LEMMA BuiltExists == ASSUME NEW m, NEW e, NEW n \in Nat PROVE \E f : IsBuiltTo(f, m, e, n)
<1> DEFINE Is(f, k) == IsBuiltTo(f, m, e, k)
           Missing == {k \in Nat : ~\E f : Is(f, k)}
<1>1. 0 \notin Missing
  <2> DEFINE f == [i \in 0..0 |-> <<>> \o Stage(m, e, 0)]
  <2>1. \A i \in 0..0 : i = 0 /\ Earlier(f, i) = <<>>
    BY DEF Earlier
  <2>2. Is(f, 0)
    BY <2>1 DEF IsBuiltTo
  <2> QED
    BY <2>2
<1>2. ASSUME NEW k \in Missing PROVE k - 1 \in Missing
  <2> SUFFICES ASSUME k - 1 \notin Missing PROVE FALSE
    OBVIOUS
  <2>1. k \in Nat /\ k - 1 \in Nat
    BY <1>1
  <2>2. PICK f : Is(f, k - 1)
    BY <2>1
  <2> DEFINE g == [i \in 0..k |-> IF i = k THEN f[k - 1] \o Stage(m, e, k) ELSE f[i]]
  <2>3. \A i \in 0..(k - 1) : g[i] = f[i]
    BY <2>1
  <2>4. \A i \in 0..(k - 1) : f[i] = Earlier(f, i) \o Stage(m, e, i)
    BY <2>1, <2>2 DEF IsBuiltTo
  <2>5. \A i \in 0..(k - 1) : Earlier(f, i) = Earlier(g, i)
    BY <2>1, <2>3 DEF Earlier
  <2>6. Earlier(g, k) = f[k - 1] /\ g[k] = f[k - 1] \o Stage(m, e, k)
    BY <2>1, <2>3 DEF Earlier
  <2>8. g = [i \in 0..k |-> g[i]]
    OBVIOUS
  <2> HIDE DEF g
  <2>7. ASSUME NEW i \in 0..k PROVE g[i] = Earlier(g, i) \o Stage(m, e, i)
    <3>1. CASE i = k
      BY <2>6, <3>1
    <3>2. CASE i # k
      <4>1. i \in 0..(k - 1)
        BY <2>1, <3>2
      <4>2. g[i] = f[i] /\ Earlier(f, i) = Earlier(g, i)
        BY <2>3, <2>5, <4>1
      <4>3. f[i] = Earlier(f, i) \o Stage(m, e, i)
        BY <2>4, <4>1
      <4> QED
        BY <4>2, <4>3, Zenon
    <3> QED
      BY <3>1, <3>2
  <2>9. Is(g, k)
    BY <2>7, <2>8 DEF IsBuiltTo
  <2> QED
    BY <2>9
<1>3. Missing = {}
  <2> HIDE DEF Is
  <2> QED
    BY <1>1, <1>2, LeastNumber
<1> QED
  BY <1>3

\* What is staged for a batch of tokens, and of embedding rows.
Staged(v) == {"tokens"} \cup (IF v.e THEN {"h"} ELSE {})

LEMMA StageFlows ==
    ASSUME NEW v, IsPass(v), v.k = v.p, v.e => Device!Gemma(v.m)
    PROVE  /\ Flows(v, Stage(v.m, v.e, 0), Staged(v), Inputs(v.m, 1))
           /\ \A i \in 1..Device!Layers(v.m) :
                  Flows(v, Stage(v.m, v.e, i), Inputs(v.m, i), Inputs(v.m, i + 1))
<1>1. CASE Device!Gemma(v.m)
  <2>1. "tokens" \in Staged(v) /\ (v.e => "h" \in Staged(v))
    BY DEF Staged
  <2>2. Flows(v, Device!G!Plan(v.m.c, v.e, 0), Staged(v), Inputs(v.m, 1))
    BY <1>1, <2>1, GemmaStartFlows
  <2>3. \A i \in 1..Device!Layers(v.m) :
            Flows(v, Device!G!Plan(v.m.c, v.e, i), Inputs(v.m, i), Inputs(v.m, i + 1))
    BY <1>1, GemmaLayerFlows
  <2> QED
    BY <1>1, <2>2, <2>3 DEF Stage
<1>2. CASE ~Device!Gemma(v.m)
  <2>1. "tokens" \in Staged(v) /\ ~v.e
    BY <1>2 DEF Staged
  <2>2. Flows(v, Device!Q!Plan(v.m.c, 0), Staged(v), Inputs(v.m, 1))
    BY <1>2, <2>1, QwenEndFlows
  <2>3. \A i \in 1..Device!Layers(v.m) :
            Flows(v, Device!Q!Plan(v.m.c, i), Inputs(v.m, i), Inputs(v.m, i + 1))
    BY <1>2, QwenLayerFlows
  <2> QED
    BY <1>2, <2>2, <2>3 DEF Stage
<1> QED
  BY <1>1, <1>2

LEMMA BodyFlows ==
    ASSUME NEW v, IsPass(v), v.k = v.p, v.e => Device!Gemma(v.m)
    PROVE  Flows(v, Device!Body(v.m, v.e), Staged(v), Inputs(v.m, Device!Layers(v.m) + 1))
<1> DEFINE n == Device!Layers(v.m)
           head == IF Device!Gemma(v.m) THEN Device!G!HeadPlan ELSE Device!Q!HeadPlan(v.m.c)
           f == CHOOSE x : IsBuiltTo(x, v.m, v.e, n)
<1>1. n \in Nat
  <2>1. Device!Loadable(v.m)
    BY DeviceAssumption DEF IsPass
  <2> QED
    BY <2>1 DEF Device!Loadable
<1>2. Device!Body(v.m, v.e) = f[n] \o head
  BY DEF Device!Body, IsBuiltTo, Stage, Earlier
<1>3. Flows(v, head, Inputs(v.m, n + 1), Inputs(v.m, n + 1))
  BY GemmaHeadFlows, QwenEndFlows
<1> HIDE DEF n, head
<1>4. IsBuiltTo(f, v.m, v.e, n)
  <2>1. \E x : IsBuiltTo(x, v.m, v.e, n)
    BY <1>1, BuiltExists
  <2> QED
    BY <2>1
<1> HIDE DEF f
<1>5. /\ f[0] = <<>> \o Stage(v.m, v.e, 0)
      /\ \A i \in 1..n : f[i] = f[i - 1] \o Stage(v.m, v.e, i)
  <2>1. \A i \in 0..n : f[i] = Earlier(f, i) \o Stage(v.m, v.e, i)
    BY <1>1, <1>4 DEF IsBuiltTo
  <2>2. Earlier(f, 0) = <<>> /\ \A i \in 1..n : Earlier(f, i) = f[i - 1]
    BY DEF Earlier
  <2>3. f[0] = <<>> \o Stage(v.m, v.e, 0)
    <3>1. 0 \in 0..n
      BY <1>1
    <3> QED
      BY <2>1, <2>2, <3>1, Zenon
  <2>4. ASSUME NEW i \in 1..n PROVE f[i] = f[i - 1] \o Stage(v.m, v.e, i)
    <3>1. i \in 0..n
      BY <1>1
    <3> QED
      BY <2>1, <2>2, <3>1, Zenon
  <2> QED
    BY <2>3, <2>4, Zenon
<1> DEFINE Missing == {i \in Nat : i <= n /\ ~Flows(v, f[i], Staged(v), Inputs(v.m, i + 1))}
<1>6. 0 \notin Missing
  <2>1. Flows(v, <<>> \o Stage(v.m, v.e, 0), Staged(v), Inputs(v.m, 1))
    BY StageFlows, FlowsNone, FlowsJoin
  <2>2. Flows(v, f[0], Staged(v), Inputs(v.m, 1))
    BY <1>5, <2>1
  <2> QED
    BY <2>2
<1>7. ASSUME NEW i \in Missing PROVE i - 1 \in Missing
  <2> SUFFICES ASSUME i - 1 \notin Missing PROVE FALSE
    OBVIOUS
  <2>1. i \in 1..n /\ i - 1 \in Nat /\ i - 1 <= n /\ (i - 1) + 1 = i
    BY <1>1, <1>6
  <2>2. Flows(v, f[i - 1], Staged(v), Inputs(v.m, i))
    BY <2>1
  <2>3. Flows(v, Stage(v.m, v.e, i), Inputs(v.m, i), Inputs(v.m, i + 1))
    BY <2>1, StageFlows DEF n
  <2>4. Flows(v, f[i - 1] \o Stage(v.m, v.e, i), Staged(v), Inputs(v.m, i + 1))
    BY <2>2, <2>3, FlowsJoin
  <2>5. Flows(v, f[i], Staged(v), Inputs(v.m, i + 1))
    BY <1>5, <2>1, <2>4
  <2> QED
    BY <2>5
<1>8. Missing = {}
  <2>1. Missing \subseteq Nat
    OBVIOUS
  <2> HIDE DEF Missing
  <2> QED
    BY <1>6, <1>7, <2>1, LeastNumber
<1>9. Flows(v, f[n], Staged(v), Inputs(v.m, n + 1))
  BY <1>1, <1>8
<1>10. Flows(v, f[n] \o head, Staged(v), Inputs(v.m, n + 1))
  BY <1>3, <1>9, FlowsJoin
<1> QED
  BY <1>2, <1>10 DEF n

\* A buffer that is neither among those that count nor a cache may hold anything.
LEMMA BesideSound ==
    ASSUME NEW v, NEW m, NEW S, Sound(v, m, S), NEW b \in Bound(v.m) \ Still(v.m), b \notin S,
           b \notin Device!Caches(v.m), NEW n, NEW row
    PROVE  Sound(v, Over(m, b, n, row), S)
<1> DEFINE f == [r \in DOMAIN m[b] |-> IF r \in 1..n THEN row[r] ELSE m[b][r]]
           k == [m EXCEPT ![b] = f]
<1>1. b \in DOMAIN m /\ DOMAIN f = DOMAIN m[b]
  BY DEF Sound, Shaped
<1> HIDE DEF f
<1>2. DOMAIN k = DOMAIN m /\ (\A a \in DOMAIN m : k[a] = IF a = b THEN f ELSE m[a])
  BY <1>1
<1>3. \A a \in S : k[a] = m[a]
  BY <1>1
<1> HIDE DEF k
<1>4. Shaped(v.m, k)
  BY <1>1, <1>2 DEF Sound, Shaped
<1>5. Pure(v.m, k)
  <2>1. \A a \in Still(v.m) \cap Bound(v.m) : k[a] = m[a]
    BY <1>2 DEF Sound, Shaped
  <2> QED
    BY <2>1 DEF Sound, Pure
<1>6. OwnBefore(v, k)
  <2>1. \A a \in Device!Caches(v.m) : a \in DOMAIN m
    BY DEF Sound, Shaped, Bound
  <2>2. \A a \in Device!Caches(v.m) : k[a] = m[a]
    BY <1>2, <2>1
  <2> QED
    BY <2>2 DEF Sound, OwnBefore
<1>7. \A a \in S : Holds(v, k, a)
  BY <1>3 DEF Sound, Holds
<1> QED
  BY <1>4, <1>5, <1>6, <1>7 DEF Sound, Over, k, f

\* The pass of t tokens from position p for conversation c; of embedding rows with e.
Pass(w, p, t, c, e) == [m |-> w, p |-> p, t |-> t, k |-> p, c |-> c, e |-> e]

\* Its tail, which computes the logits of one row once the caches hold the batch.
Closing(w, p, t, c, e) == [m |-> w, p |-> p, t |-> 1, k |-> p + t, c |-> c, e |-> e]

LEMMA TailSound ==
    ASSUME NEW w \in Models, NEW p \in Nat, NEW t \in 1..DeviceBatch, p + t <= DeviceCtx, NEW c,
           NEW e \in BOOLEAN, NEW m, Sound(Pass(w, p, t, c, e), m, Inputs(w, Device!Layers(w) + 1))
    PROVE  Sound(Closing(w, p, t, c, e), m, {}) /\ m["h"][t] = {c}
<1> DEFINE v == Pass(w, p, t, c, e)
           u == Closing(w, p, t, c, e)
           S == Inputs(w, Device!Layers(w) + 1)
<1>1. /\ v.m = w /\ v.p = p /\ v.t = t /\ v.k = p /\ v.c = c /\ v.e = e
      /\ u.m = w /\ u.p = p /\ u.t = 1 /\ u.k = p + t /\ u.c = c /\ u.e = e
  BY DEF Pass, Closing
<1>2. Sound(v, m, S)
  OBVIOUS
<1> HIDE DEF v, u
<1>3. IsPass(v) /\ Device!Loadable(w)
  BY <1>1, DeviceAssumption DEF IsPass
<1>4. Shaped(w, m) /\ Pure(w, m)
  BY <1>1, <1>2 DEF Sound
<1>5. "h" \in S
  BY DEF Inputs
<1>6. m["h"][t] = {c}
  <2>1. "h" \in Full(v)
    BY <1>1, <1>3, GemmaNames, QwenNames
  <2>2. "h" \in Plain(v) /\ "h" \notin Faint(v)
    BY <2>1, FullIs DEF Full
  <2>3. t \in 1..v.t
    BY <1>1
  <2> HIDE DEF S
  <2> QED
    BY <1>1, <1>2, <1>3, <1>5, <2>2, <2>3, PlainRow
<1>7. OwnBefore(u, m)
  <2> SUFFICES ASSUME NEW b \in Device!Caches(w), NEW r \in Left(u, b) PROVE m[b][r] \subseteq {c}
    BY <1>1 DEF OwnBefore
  <2>1. CASE b \in Device!Recurrent(w)
    <3>1. Left(u, b) = Left(v, b)
      BY <1>1, <2>1 DEF Left
    <3> QED
      BY <1>1, <1>2, <3>1 DEF Sound, OwnBefore
  <2>2. CASE b \notin Device!Recurrent(w)
    <3>1. b \in Attending(w)
      BY <2>2 DEF Attending
    <3>2. PICK x \in {"k", "v"}, i \in Rings(w) : b = Name(x, i)
      BY <1>3, <2>2, CachesAre
    <3>3. i < Device!Layers(w) + 1
      <4>1. Device!Layers(w) \in Nat /\ i \in 1..Device!Layers(w)
        BY <1>3 DEF Rings, Device!Loadable
      <4> QED
        BY <4>1
    <3>4. b \in S
      BY <3>2, <3>3 DEF Inputs
    <3>5. Left(u, b) = Area(v, b)
      BY <1>1, <2>2, <3>1 DEF Left, Area
    <3> HIDE DEF S
    <3> QED
      BY <1>1, <1>2, <3>4, <3>5 DEF Sound, Holds
  <2> QED
    BY <2>1, <2>2
<1>8. Sound(u, m, {})
  BY <1>1, <1>4, <1>7 DEF Sound
<1> QED
  BY <1>6, <1>8 DEF u

\* A dispatch leaves its logits and the caches to its own conversation.
LEMMA DispatchedSound ==
    ASSUME NEW w \in Models, NEW p \in Nat, NEW t \in 1..DeviceBatch, p + t <= DeviceCtx, NEW c,
           NEW e \in BOOLEAN, e => Device!Gemma(w), NEW staged,
           Sound(Pass(w, p, t, c, e), staged, Staged(Pass(w, p, t, c, e)))
    PROVE  LET m == Device!Dispatched(w, staged, p, t, e)
           IN  Sound(Closing(w, p, t, c, e), m, {}) /\ m["logits"][1] = {c}
<1> DEFINE v == Pass(w, p, t, c, e)
           u == Closing(w, p, t, c, e)
           ran == Device!Play(Device!Body(w, e), staged, p, t)
           row == [r \in 1..1 |-> ran["h"][t]]
           last == Over(ran, "x", 1, row)
           m == Device!Play(Device!LogitsPlan(w), last, p, 1)
<1>1. /\ v.m = w /\ v.p = p /\ v.t = t /\ v.k = p /\ v.c = c /\ v.e = e
      /\ u.m = w /\ u.p = p /\ u.t = 1 /\ u.k = p + t /\ u.c = c /\ u.e = e
  BY DEF Pass, Closing
<1>2. Device!Dispatched(w, staged, p, t, e) = m
  <2>1. [r \in DOMAIN ran["x"] |-> IF r \in 1..1 THEN ran["h"][t] ELSE ran["x"][r]]
        = [r \in DOMAIN ran["x"] |-> IF r \in 1..1 THEN row[r] ELSE ran["x"][r]]
    OBVIOUS
  <2> HIDE DEF row
  <2>2. [ran EXCEPT !["x"] = [r \in DOMAIN ran["x"] |-> IF r \in 1..1 THEN ran["h"][t] ELSE ran["x"][r]]] = last
    BY <2>1 DEF Over
  <2> QED
    BY <2>2 DEF Device!Dispatched, Device!Put
<1>3. Sound(v, staged, Staged(v))
  OBVIOUS
<1> HIDE DEF v, u
<1>4. IsPass(v) /\ IsPass(u)
  BY <1>1, DeviceAssumption DEF IsPass
<1>5. Sound(v, ran, Inputs(w, Device!Layers(w) + 1))
  <2>1. Flows(v, Device!Body(w, e), Staged(v), Inputs(w, Device!Layers(w) + 1))
    BY <1>1, <1>4, BodyFlows
  <2> QED
    BY <1>1, <1>3, <2>1, PlaySound
<1> HIDE DEF ran
<1>6. Sound(u, ran, {}) /\ ran["h"][t] = {c}
  BY <1>5, TailSound DEF v, u
<1>7. {"x", "logits"} \subseteq Full(u)
  BY <1>4, GemmaNames, QwenNames
<1>8. \A r \in 1..u.t : row[r] \subseteq {u.c} /\ ("x" \notin Faint(u) => row[r] = {u.c})
  BY <1>1, <1>6
<1> HIDE DEF row
<1>9. Sound(u, last, {"x"})
  <2>1. "x" \in Open(u)
    BY <1>7, FullIs
  <2>2. Sound(u, Over(ran, "x", u.t, row), {} \cup {"x"})
    BY <1>4, <1>6, <1>8, <2>1, OpenSound
  <2>3. {} \cup {"x"} = {"x"}
    OBVIOUS
  <2> QED
    BY <1>1, <2>2, <2>3
<1> HIDE DEF last
<1>10. Flows(u, Device!LogitsPlan(w), {"x"}, {"x"} \cup {"logits"})
  <2>1. "x" \in {"x"}
    OBVIOUS
  <2>2. CASE Device!Gemma(w)
    <3>1. Flows(u, Device!G!TailPlan(w.c), {"x"}, {"x"} \cup {"logits"})
      BY <1>1, <1>4, <2>1, <2>2, GemmaTailFlows
    <3> QED
      BY <2>2, <3>1 DEF Device!LogitsPlan
  <2>3. CASE ~Device!Gemma(w)
    <3>1. Flows(u, Device!Q!TailPlan(w.c), {"x"}, {"x"} \cup {"logits"})
      BY <1>1, <1>4, <2>1, <2>3, QwenEndFlows
    <3> QED
      BY <2>3, <3>1 DEF Device!LogitsPlan
  <2> QED
    BY <2>2, <2>3
<1>11. Sound(u, m, {"x"} \cup {"logits"})
  BY <1>1, <1>9, <1>10, PlaySound
<1> HIDE DEF m
<1>12. m["logits"][1] = {c}
  <2>1. "logits" \in Plain(u) /\ "logits" \notin Faint(u) /\ 1 \in 1..u.t /\ "logits" \in {"x"} \cup {"logits"}
    BY <1>1, <1>7, FullIs DEF Full
  <2> QED
    BY <1>1, <1>4, <1>11, <2>1, PlainRow
<1>13. Sound(u, m, {})
  BY <1>11 DEF Sound
<1> QED
  BY <1>2, <1>12, <1>13 DEF u

-----------------------------------------------------------------------------
(* The device at rest.                                                     *)

AllClean(m, b) == \A r \in 1..Device!Rows(model, b) : m[b][r] = {}

DeviceInv ==
    /\ model \in Models /\ pos \in Nat /\ pos <= DeviceCtx
    /\ Shaped(model, mem) /\ Pure(model, mem) /\ OwnBefore(Pass(model, pos, 1, conv, FALSE), mem)
    /\ op = "forward" => mem["logits"][1] = {conv}
    /\ op = "wipe" => \A b \in Device!WipeClears(model) : b \in Bound(model) /\ AllClean(mem, b)

LEMMA OwnAlike ==
    ASSUME NEW v, NEW u, v.m = u.m, v.k = u.k, v.c = u.c, NEW m, OwnBefore(v, m)
    PROVE  OwnBefore(u, m)
BY DEF OwnBefore, Left

LEMMA DeviceStarts == ASSUME Device!Init PROVE DeviceInv
<1>1. model \in Models /\ pos = 0 /\ op = "load" /\ DeviceCtx \in Nat
  BY DeviceAssumption DEF Device!Init
<1>2. mem = [b \in Bound(model) |-> [r \in 1..Device!Rows(model, b) |-> {}]]
  BY DEF Device!Init, Device!Clean, Bound
<1>3. Shaped(model, mem)
  BY <1>2 DEF Shaped
<1>4. Pure(model, mem)
  BY <1>2 DEF Pure
<1>5. OwnBefore(Pass(model, pos, 1, conv, FALSE), mem)
  <2> DEFINE v == Pass(model, pos, 1, conv, FALSE)
  <2>1. v.m = model /\ v.k = 0 /\ v.c = conv
    BY <1>1 DEF Pass
  <2> HIDE DEF v
  <2> SUFFICES ASSUME NEW b \in Device!Caches(model), NEW r \in Left(v, b) PROVE mem[b][r] \subseteq {conv}
    BY <2>1 DEF OwnBefore, v
  <2>2. b \in Device!Recurrent(model) /\ r = 1
    BY <2>1 DEF Left, SlotsBefore
  <2>3. Device!Rows(model, b) = 1 /\ b \in Bound(model)
    BY <1>1, <2>2, DeviceAssumption, RowsAre DEF Bound
  <2> QED
    BY <1>2, <2>2, <2>3
<1>6. pos \in Nat /\ pos <= DeviceCtx /\ op # "forward" /\ op # "wipe"
  BY <1>1
<1> QED
  BY <1>1, <1>3, <1>4, <1>5, <1>6, Zenon DEF DeviceInv

LEMMA RunKeeps ==
    ASSUME DeviceInv, NEW t \in 1..DeviceBatch, NEW e \in BOOLEAN, e => Device!Gemma(model), Device!Run(t, e)
    PROVE  DeviceInv'
<1> DEFINE v == Pass(model, pos, t, conv, e)
           u == Closing(model, pos, t, conv, e)
           k1 == [mem EXCEPT !["tokens"] = [r \in DOMAIN mem["tokens"] |->
                     IF r \in 1..t THEN IF e THEN {} ELSE {conv} ELSE mem["tokens"][r]]]
           k2 == [k1 EXCEPT !["uniforms"] = [r \in DOMAIN k1["uniforms"] |->
                     IF r \in 1..1 THEN {conv} ELSE k1["uniforms"][r]]]
           k3 == [k2 EXCEPT !["h"] = [r \in DOMAIN k2["h"] |->
                     IF r \in 1..t THEN {conv} ELSE k2["h"][r]]]
           staged == IF e THEN k3 ELSE k2
           row1 == [r \in 1..t |-> IF e THEN {} ELSE {conv}]
           row2 == [r \in 1..1 |-> {conv}]
           row3 == [r \in 1..t |-> {conv}]
<1>1. /\ pos + t <= DeviceCtx /\ mem' = Device!Dispatched(model, staged, pos, t, e)
      /\ pos' = pos + t /\ op' = "forward" /\ model' = model /\ conv' = conv
  BY DEF Device!Run, Device!Put
<1>2. k1 = Over(mem, "tokens", t, row1)
  <2>1. [r \in DOMAIN mem["tokens"] |-> IF r \in 1..t THEN IF e THEN {} ELSE {conv} ELSE mem["tokens"][r]]
        = [r \in DOMAIN mem["tokens"] |-> IF r \in 1..t THEN row1[r] ELSE mem["tokens"][r]]
    OBVIOUS
  <2> QED
    BY <2>1 DEF Over
<1>3. k2 = Over(k1, "uniforms", 1, row2)
  <2> HIDE DEF k1
  <2>1. [r \in DOMAIN k1["uniforms"] |-> IF r \in 1..1 THEN {conv} ELSE k1["uniforms"][r]]
        = [r \in DOMAIN k1["uniforms"] |-> IF r \in 1..1 THEN row2[r] ELSE k1["uniforms"][r]]
    OBVIOUS
  <2> QED
    BY <2>1 DEF Over
<1>4. k3 = Over(k2, "h", t, row3)
  <2> HIDE DEF k2
  <2>1. [r \in DOMAIN k2["h"] |-> IF r \in 1..t THEN {conv} ELSE k2["h"][r]]
        = [r \in DOMAIN k2["h"] |-> IF r \in 1..t THEN row3[r] ELSE k2["h"][r]]
    OBVIOUS
  <2> QED
    BY <2>1 DEF Over
<1>5. /\ v.m = model /\ v.p = pos /\ v.t = t /\ v.k = pos /\ v.c = conv /\ v.e = e
      /\ u.m = model /\ u.k = pos + t /\ u.c = conv
  BY DEF Pass, Closing
<1>6. /\ \A r \in 1..t : row1[r] \subseteq {conv} /\ (~e => row1[r] = {conv})
      /\ \A r \in 1..t : row3[r] \subseteq {conv} /\ row3[r] = {conv}
  OBVIOUS
<1> HIDE DEF k1, k2, k3, row1, row2, row3
<1>7. Sound(v, mem, {})
  <2> DEFINE w == Pass(model, pos, 1, conv, FALSE)
  <2>1. w.m = model /\ w.k = pos /\ w.c = conv /\ OwnBefore(w, mem)
    BY DEF Pass, DeviceInv
  <2> HIDE DEF v, w
  <2>2. OwnBefore(v, mem)
    BY <1>5, <2>1, OwnAlike
  <2> QED
    BY <1>5, <2>2 DEF DeviceInv, Sound
<1> HIDE DEF v, u
<1>8. IsPass(v)
  BY <1>1, <1>5 DEF IsPass, DeviceInv
<1>9. "tokens" \in Open(v) /\ {"uniforms", "h"} \subseteq Full(v) /\ ("tokens" \in Faint(v) <=> e)
  BY <1>5, <1>8, GemmaNames, QwenNames
<1>10. Sound(v, k1, {"tokens"})
  <2>1. Sound(v, Over(mem, "tokens", v.t, row1), {} \cup {"tokens"})
    BY <1>5, <1>6, <1>7, <1>8, <1>9, OpenSound
  <2>2. {} \cup {"tokens"} = {"tokens"}
    OBVIOUS
  <2> QED
    BY <1>2, <1>5, <2>1, <2>2
<1>11. Sound(v, k2, {"tokens"})
  <2>1. "uniforms" \in Plain(v) /\ "uniforms" \notin Still(v.m)
    BY <1>9, FullIs DEF Open
  <2>2. "uniforms" \in Bound(v.m) \ Still(v.m) /\ "uniforms" \notin Device!Caches(v.m)
    BY <1>8, <2>1, PlainIs
  <2>3. "uniforms" \notin {"tokens"}
    OBVIOUS
  <2> QED
    BY <1>3, <1>10, <2>2, <2>3, BesideSound
<1>12. Sound(v, staged, Staged(v))
  <2>1. CASE ~e
    <3>1. Staged(v) = {"tokens"} /\ staged = k2
      BY <1>5, <2>1 DEF Staged
    <3> QED
      BY <1>11, <3>1
  <2>2. CASE e
    <3>1. Staged(v) = {"tokens"} \cup {"h"} /\ staged = k3
      BY <1>5, <2>2 DEF Staged
    <3>2. "h" \in Open(v)
      BY <1>9, FullIs
    <3>3. Sound(v, Over(k2, "h", v.t, row3), {"tokens"} \cup {"h"})
      BY <1>5, <1>6, <1>8, <1>11, <3>2, OpenSound
    <3> QED
      BY <1>4, <1>5, <3>1, <3>3
  <2> QED
    BY <2>1, <2>2
<1> HIDE DEF staged
<1>13. Sound(u, mem', {}) /\ mem'["logits"][1] = {conv}
  <2>1. model \in Models /\ pos \in Nat
    BY DEF DeviceInv
  <2> QED
    BY <1>1, <1>12, <2>1, DispatchedSound DEF u, v
<1>14. OwnBefore(Pass(model, pos + t, 1, conv, FALSE), mem')
  <2> DEFINE w == Pass(model, pos + t, 1, conv, FALSE)
  <2>1. w.m = model /\ w.k = pos + t /\ w.c = conv
    BY DEF Pass
  <2>2. OwnBefore(u, mem')
    BY <1>13 DEF Sound
  <2> HIDE DEF w
  <2>3. OwnBefore(w, mem')
    BY <1>5, <2>1, <2>2, OwnAlike
  <2> QED
    BY <2>3 DEF w
<1>15. Shaped(model, mem') /\ Pure(model, mem')
  BY <1>5, <1>13 DEF Sound
<1>16. pos + t \in Nat
  BY DEF DeviceInv
<1> QED
  BY <1>1, <1>13, <1>14, <1>15, <1>16 DEF DeviceInv

LEMMA RewindKeeps ==
    ASSUME DeviceInv, NEW clears, Device!Recurrent(model) \subseteq clears, NEW name, Device!Rewind(clears, name),
           name # "forward", name = "wipe" => clears = Device!WipeClears(model)
    PROVE  DeviceInv'
<1>1. /\ mem' = [b \in DOMAIN mem |-> IF b \in clears THEN Device!Clean(model, clears)[b] ELSE mem[b]]
      /\ pos' = 0 /\ op' = name /\ model' = model
  BY DEF Device!Rewind
<1>2. Device!Loadable(model) /\ model \in Models /\ DeviceCtx \in Nat /\ 0 <= DeviceCtx
  BY DeviceAssumption DEF DeviceInv
<1>3. DOMAIN mem' = Bound(model) /\ DOMAIN mem = Bound(model)
  BY <1>1 DEF DeviceInv, Shaped
<1>4. \A b \in Bound(model) : mem'[b] = IF b \in clears THEN [r \in 1..Device!Rows(model, b) |-> {}] ELSE mem[b]
  BY <1>1, <1>3 DEF Device!Clean
<1>5. \A b \in Bound(model) \cap clears : AllClean(mem', b) /\ DOMAIN mem'[b] = 1..Device!Rows(model, b)
  BY <1>4 DEF AllClean
<1>6. Shaped(model, mem')
  BY <1>3, <1>4, <1>5 DEF DeviceInv, Shaped
<1>7. Pure(model, mem')
  <2> SUFFICES ASSUME NEW b \in Still(model) \cap Bound(model), NEW r \in 1..Device!Rows(model, b)
               PROVE  mem'[b][r] = {}
    BY DEF Pure
  <2>1. CASE b \in clears
    BY <1>5, <2>1 DEF AllClean
  <2>2. CASE b \notin clears
    BY <1>4, <2>2 DEF DeviceInv, Pure
  <2> QED
    BY <2>1, <2>2
<1>8. OwnBefore(Pass(model, 0, 1, conv', FALSE), mem')
  <2> DEFINE v == Pass(model, 0, 1, conv', FALSE)
  <2>1. v.m = model /\ v.k = 0 /\ v.c = conv'
    BY DEF Pass
  <2> HIDE DEF v
  <2>2. ASSUME NEW b \in Device!Caches(model), NEW r \in Left(v, b) PROVE mem'[b][r] \subseteq {conv'}
    <3>1. b \in Device!Recurrent(model) /\ r = 1
      BY <2>1, <2>2 DEF Left, SlotsBefore
    <3>2. Device!Rows(model, b) = 1 /\ b \in Bound(model) /\ b \in clears
      BY <1>2, <2>2, <3>1, RowsAre DEF Bound
    <3>3. mem'[b][1] = {}
      BY <1>5, <3>2 DEF AllClean
    <3> QED
      BY <3>1, <3>3
  <2> QED
    BY <2>1, <2>2 DEF OwnBefore, v
<1>9. ASSUME name = "wipe", NEW b \in Device!WipeClears(model) PROVE b \in Bound(model) /\ AllClean(mem', b)
  <2>1. b \in Bound(model) /\ b \in clears
    BY <1>9 DEF Device!WipeClears, Bound
  <2> QED
    BY <1>5, <2>1
<1>10. \A b : (AllClean(mem, b))' <=> AllClean(mem', b)
  BY <1>1 DEF AllClean
<1> QED
  BY <1>1, <1>2, <1>6, <1>7, <1>8, <1>9, <1>10 DEF DeviceInv

LEMMA DeviceKeeps == ASSUME DeviceInv, [Device!Next]_deviceVars PROVE DeviceInv'
<1>1. CASE UNCHANGED deviceVars
  BY <1>1 DEF DeviceInv, deviceVars, AllClean
<1>2. CASE Device!Forward
  <2>1. PICK t \in 1..DeviceBatch : Device!Run(t, FALSE)
    BY <1>2 DEF Device!Forward
  <2> QED
    BY <2>1, RunKeeps
<1>3. CASE Device!ForwardEmbeds
  <2>1. PICK t \in 1..DeviceBatch : Device!Run(t, TRUE)
    BY <1>3 DEF Device!ForwardEmbeds
  <2>2. Device!Gemma(model)
    BY <1>3 DEF Device!ForwardEmbeds
  <2> QED
    BY <2>1, <2>2, RunKeeps
<1>4. CASE Device!Reset
  BY <1>4, RewindKeeps DEF Device!Reset, Device!ResetClears
<1>5. CASE Device!Wipe
  <2>1. Device!Loadable(model)
    BY DeviceAssumption DEF DeviceInv
  <2>2. Device!Recurrent(model) \subseteq Device!WipeClears(model)
    BY <2>1, Apart DEF Device!WipeClears
  <2> QED
    BY <1>5, <2>2, RewindKeeps DEF Device!Wipe
<1> QED
  BY <1>1, <1>2, <1>3, <1>4, <1>5 DEF Device!Next

-----------------------------------------------------------------------------
(* The theorems.                                                           *)

DeviceRuns == part = "device" => DeviceInv

LEMMA DeviceRunsAlways == ComputeSpec => []DeviceRuns
<1>1. ComputeInit => DeviceRuns
  BY DeviceStarts DEF ComputeInit, DeviceRuns
<1>2. DeviceRuns /\ [ComputeNext]_standaloneVars => DeviceRuns'
  <2> SUFFICES ASSUME DeviceRuns, [ComputeNext]_standaloneVars PROVE DeviceRuns'
    OBVIOUS
  <2>1. CASE WorkgroupNext
    BY <2>1 DEF WorkgroupNext, DeviceRuns
  <2>2. CASE UploadNext
    BY <2>2 DEF UploadNext, DeviceRuns
  <2>3. CASE DeviceNext
    BY <2>3, DeviceKeeps DEF DeviceNext, DeviceRuns
  <2>4. CASE ShapeNext
    BY <2>4 DEF ShapeNext, DeviceRuns
  <2>5. CASE UNCHANGED standaloneVars
    <3>1. UNCHANGED deviceVars /\ part' = part
      BY <2>5 DEF standaloneVars
    <3> QED
      BY <3>1, DeviceKeeps DEF DeviceRuns
  <2> QED
    BY <2>1, <2>2, <2>3, <2>4, <2>5 DEF ComputeNext
<1> QED
  BY <1>1, <1>2, PTL DEF ComputeSpec

\* For every model that may be loaded, every context and every batch: the logits that a
\* forward pass of gpu/src/forward.rs or gpu/src/qwen35.rs leaves were computed from the
\* conversation it ran for and from nothing that an earlier one left on the device.
THEOREM LogitsAreOwnHolds == ComputeSpec => []LogitsAreOwn
<1>1. DeviceRuns => LogitsAreOwn
  BY DEF DeviceRuns, DeviceInv, LogitsAreOwn, Device!LogitsAreOwn
<1> QED
  BY <1>1, DeviceRunsAlways, PTL

\* For models without per-layer embeddings: once wipe_state has run, no buffer of the
\* device holds anything of any conversation.
THEOREM WipedIsCleanHolds ==
    ASSUME \A m \in Models : ~(Device!Gemma(m) /\ m.c.ple)
    PROVE  ComputeSpec => []WipedIsClean
<1>1. DeviceRuns => WipedIsClean
  <2> SUFFICES ASSUME DeviceInv, op = "wipe", NEW b \in DOMAIN mem, NEW r \in 1..DeviceBatch, r \in DOMAIN mem[b]
               PROVE  mem[b][r] = {}
    BY DEF DeviceRuns, WipedIsClean, Device!WipedIsClean
  <2>1. b \in Bound(model) /\ DOMAIN mem[b] = 1..Device!Rows(model, b) /\ model \in Models
    BY DEF DeviceInv, Shaped
  <2>2. CASE b \in Device!WipeClears(model)
    BY <2>1, <2>2 DEF DeviceInv, AllClean
  <2>3. CASE b \notin Device!WipeClears(model)
    <3>1. b = Device!ZERO \/ b \in Device!Scratch(model) \cap Device!PleBuffers
      BY <2>1, <2>3 DEF Bound, Device!WipeClears
    <3>2. CASE Device!Gemma(model)
      <4>1. b \in Still(model)
        BY <2>1, <3>1, <3>2 DEF Still
      <4> QED
        BY <2>1, <4>1 DEF DeviceInv, Pure
    <3>3. CASE ~Device!Gemma(model)
      <4>1. Device!Scratch(model) \cap Device!PleBuffers = {}
        BY <3>3 DEF Device!Scratch, Device!PleBuffers, Device!Q!Scratch, Device!SINK
      <4>2. b \in Still(model)
        BY <3>1, <4>1 DEF Still
      <4> QED
        BY <2>1, <4>2 DEF DeviceInv, Pure
    <3> QED
      BY <3>2, <3>3
  <2> QED
    BY <2>2, <2>3
<1> QED
  BY <1>1, DeviceRunsAlways, PTL
=============================================================================
