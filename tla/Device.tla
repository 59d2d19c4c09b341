------------------------------- MODULE Device -------------------------------
(***************************************************************************)
(* Which conversation's data lies where on the GPU: gpu/src/forward.rs and *)
(* gpu/src/qwen35.rs around their dispatch plans.  Every buffer is rows,   *)
(* and a row is the set of conversations whose data it was computed from.  *)
(* A batch touches the rows of its own tokens only; what other rows hold   *)
(* stays until it is overwritten or cleared.                               *)
(***************************************************************************)
EXTENDS Integers, Sequences, Kernels

CONSTANTS
    Models,   \* the models that may be loaded: [arch, c]
    NCtx,     \* n_ctx
    MaxBatch, \* max_batch
    Wide,   \* sliding window of the layers that have one
    MaxConv   \* bound: conversations

G == INSTANCE Gemma4
Q == INSTANCE Qwen35

VARIABLES
    model,  \* what is loaded
    mem,    \* buffer -> row -> conversations
    pos,    \* self.pos
    conv,   \* the conversation the device serves
    op      \* what it did last

vars == <<model, mem, pos, conv, op>>

Gemma(m) == m.arch = "gemma4"
Layers(m) == IF Gemma(m) THEN Len(m.c.layers) ELSE Len(m.c.recurrent)
Owns(m, i) == m.c.layers[i].source = i
Scratch(m) == (IF Gemma(m) THEN G!Scratch ELSE Q!Scratch \cup {SINK}) \cup {"uniforms"}
Caches(m) == IF Gemma(m) THEN G!Caches(m.c) ELSE UNION {Q!State(m.c, i) : i \in Q!Layers(m.c)}
Recurrent(m) == IF Gemma(m) THEN {}
                ELSE UNION {Q!State(m.c, i) : i \in {j \in Q!Layers(m.c) : m.c.recurrent[j]}}

SlidingLayers(m) == IF Gemma(m) THEN {i \in DOMAIN m.c.layers : m.c.layers[i].swa} ELSE {}

\* Config::from_gguf: a layer that shares a cache takes that of an earlier layer of its
\* own kind.  (It asks that the two layers below the boundary differ; that the sliding one
\* comes first is how the files are.)  A name stands for one buffer.
Kinds == {"k", "v", "conv_state", "s"}
Loadable(m) ==
    LET n == Layers(m)
    IN  /\ m.arch \in {"gemma4", "qwen35"} /\ n \in Nat
        /\ DOMAIN (IF Gemma(m) THEN m.c.layers ELSE m.c.recurrent) = 1..n
        /\ Gemma(m) => \A i \in 1..n :
               LET l == m.c.layers[i]
               IN  /\ l.window = (IF l.swa THEN "window" ELSE "all")
                   /\ l.source \in 1..i /\ Owns(m, l.source)
                   /\ m.c.layers[l.source].swa = l.swa
        /\ \A w, v \in Kinds, i, j \in 1..n :
               /\ Of(w, i) = Of(v, j) => w = v /\ i = j
               /\ Of(w, i) \notin Scratch(m) \cup {ZERO}

\* Slots of the cache of a layer with this window; recurrent state is one row.
Slots(w) == IF w = "window" /\ Wide < NCtx THEN Wide ELSE NCtx
Rows(m, b) ==
    CASE b \in Recurrent(m) -> 1
      [] b \notin Caches(m) -> MaxBatch
      [] b \in {Of(w, i) : w \in {"k", "v"}, i \in SlidingLayers(m)} -> Slots("window")
      [] OTHER -> NCtx

Clean(m, bs) == [b \in bs |-> [r \in 1..Rows(m, b) |-> {}]]

-----------------------------------------------------------------------------
(* The rows a dispatch over t tokens from position p reads and writes.     *)

Slot(w, q) == 1 + (q % Slots(w))

\* The slots the query of row r sees; a batch of embeddings sees all of itself.
Visible(how, p, r, t) ==
    LET q == p + r - 1
        first == IF how[1] = "window" /\ q >= Wide THEN q - Wide + 1 ELSE 0
    IN  {Slot(how[1], i) : i \in first..(IF how[2] THEN p + t - 1 ELSE q)}

InPlace1 == {"scale", "rms_norm", "soft_cap", "rope", "rope_partial", "softmax", "l2norm_qk",
             "mark"}
Blended == {"add_scale", "geglu", "swiglu", "mul_silu", "mul_sigmoid"}

Reads(d, m, r) ==
    CASE d.kernel = "embed" -> m["tokens"][r]
      [] d.kernel \in {"matvec", "copy", "copy_rows", "split_half"} -> m[d.reads[1]][r]
      [] d.kernel \in Blended -> m[d.reads[2]][r] \cup m[d.writes[1]][r]
      [] d.kernel = "conv_silu" ->
             m[d.writes[1]][1] \cup UNION {m[d.reads[1]][i] : i \in 1..r}
      [] d.kernel = "delta_recur" ->
             m[d.writes[1]][1] \cup UNION {m[d.reads[j]][i] : i \in 1..r, j \in 1..3}

Put(m, b, t, Data(_)) == [m EXCEPT ![b] = [r \in DOMAIN @ |-> IF r \in 1..t THEN Data(r)
                                                            ELSE @[r]]]

Touch(d, m, p, t) ==
    LET out == d.writes[Len(d.writes)]
        seen(r, cache) == UNION {m[cache][s] : s \in Visible(d.arg, p, r, t)}
        rows(r) == Reads(d, m, r)
    IN  CASE d.kernel \in InPlace1 -> m
          [] d.kernel = "write_cache" ->
                 [m EXCEPT ![out] = [s \in DOMAIN @ |->
                      LET mine == {r \in 1..t : Slot(d.arg, p + r - 1) = s}
                      IN  IF mine = {} THEN @[s]
                          ELSE UNION {m[d.reads[1]][r] : r \in mine}]]
          [] d.kernel = "scores" ->
                 Put(m, "scores", t, LAMBDA r : m["q"][r] \cup seen(r, d.reads[2]))
          [] d.kernel = "weighted_v" ->
                 Put(m, "attn", t, LAMBDA r : m["scores"][r] \cup seen(r, d.reads[3]))
          [] d.kernel = "conv_shift" ->
                 Put(m, out, 1, LAMBDA r : m[d.writes[1]][1]
                                           \cup UNION {m[d.reads[1]][i] : i \in 1..t})
          [] d.kernel = "conv_commit" -> Put(m, d.writes[1], 1, LAMBDA r : m[d.reads[1]][1])
          [] d.kernel = "delta_recur" ->
                 Put(Put(m, out, t, rows), d.writes[1], 1, LAMBDA r : Reads(d, m, t))
          [] OTHER -> Put(m, out, t, rows)

Play(plan, m, p, t) ==
    LET after[i \in 0..Len(plan)] ==
            IF i = 0 THEN m ELSE Touch(plan[i], after[i - 1], p, t)
    IN  after[Len(plan)]

\* build_plan_for / build_plan, without the tail.
Body(m, embeds) ==
    LET upto[i \in 0..Layers(m)] ==
            (IF i = 0 THEN <<>> ELSE upto[i - 1])
            \o (IF Gemma(m) THEN G!Plan(m.c, embeds, i) ELSE Q!Plan(m.c, i))
    IN  upto[Layers(m)] \o (IF Gemma(m) THEN G!HeadPlan ELSE Q!HeadPlan(m.c))
LogitsPlan(m) == IF Gemma(m) THEN G!TailPlan(m.c) ELSE Q!TailPlan(m.c)

\* dispatch: the plan, the last row of h to row 1 of x, the tail over one row.
Dispatched(m, staged, p, t, embeds) ==
    LET ran == Play(Body(m, embeds), staged, p, t)
        last == Put(ran, "x", 1, LAMBDA r : ran["h"][t])
    IN  Play(LogitsPlan(m), last, p, 1)

-----------------------------------------------------------------------------

Init ==
    /\ model \in Models
    /\ mem = Clean(model, Scratch(model) \cup Caches(model) \cup {ZERO})
    /\ pos = 0 /\ conv = 1 /\ op = "load"

\* begin stages the token ids, and forward_embeds the rows as well.
Run(t, embeds) ==
    /\ t <= MaxBatch /\ pos + t <= NCtx
    /\ LET ids == Put(Put(mem, "tokens", t, LAMBDA r : IF embeds THEN {} ELSE {conv}),
                      "uniforms", 1, LAMBDA r : {conv})
           staged == IF embeds THEN Put(ids, "h", t, LAMBDA r : {conv}) ELSE ids
       IN  mem' = Dispatched(model, staged, pos, t, embeds)
    /\ pos' = pos + t
    /\ op' = "forward"
    /\ UNCHANGED <<model, conv>>

Forward == \E t \in 1..MaxBatch : Run(t, FALSE)
ForwardEmbeds == Gemma(model) /\ \E t \in 1..MaxBatch : Run(t, TRUE)

\* What each of the two operations clears.
ResetClearsNothing(m) == {}
ResetClears(m) == Recurrent(m)
PleBuffers == {"ple", "ple_proj", "ple_cur", "ple_gate"}
WipeClearsScratch(m) == Scratch(m) \ PleBuffers
WipeClears(m) == (Scratch(m) \ PleBuffers) \cup Caches(m)

\* Another conversation begins once the position is back at zero.
Rewind(clears, name) ==
    /\ conv < MaxConv
    /\ mem' = [b \in DOMAIN mem |-> IF b \in clears THEN Clean(model, clears)[b] ELSE mem[b]]
    /\ pos' = 0
    /\ conv' = conv + 1
    /\ op' = name
    /\ UNCHANGED model

Reset == Rewind(ResetClears(model), "reset")
Wipe == Rewind(WipeClears(model), "wipe")

Next == Forward \/ ForwardEmbeds \/ Reset \/ Wipe

Spec == Init /\ [][Next]_vars

-----------------------------------------------------------------------------
(* Properties.                                                             *)

\* The logits of a forward pass come from the conversation it ran for, whatever
\* earlier ones left in the caches, the recurrent state and the scratch rows.
LogitsAreOwn == op = "forward" => mem["logits"][1] = {conv}

\* After a wipe no buffer holds anything computed from a conversation.
WipedIsClean == op = "wipe" => \A b \in DOMAIN mem, r \in 1..MaxBatch :
                                   r \in DOMAIN mem[b] => mem[b][r] = {}
=============================================================================
