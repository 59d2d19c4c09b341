------------------------------- MODULE Gemma4 -------------------------------
(***************************************************************************)
(* gemma4's forward pass twice: the dispatch plan of gpu/src/forward.rs,   *)
(* and the CPU reference of model/src/cpu.rs that it "mirrors step for     *)
(* step", from the same configuration (model/src/config.rs).               *)
(*                                                                         *)
(* A configuration c has layers, each with its kind and its geometry; ple, *)
(* whether there are per-layer embeddings; cap, whether logits are capped; *)
(* freqs, whether the file has rope_freqs.weight.  embeds tells a batch of *)
(* embedding rows from one of tokens.                                      *)
(***************************************************************************)
EXTENDS Integers, Sequences, FiniteSets, Kernels, FiniteSetsExt

\* The sizes of a checkpoint that the buffers are allocated by.
D == 3
Heads == 2
Ffn == 4
PleWidth == 1
Vocab == 5

\* from_gguf: sliding, global; the last `shared` layers read an earlier cache.
Layer(i, swa, boundary, hasV) ==
    [swa |-> swa, head_dim |-> IF swa THEN 1 ELSE 2, kv_dim |-> IF swa THEN 1 ELSE 4,
     window |-> IF swa THEN "window" ELSE "all", factors |-> ~swa, v_from_k |-> ~hasV,
     source |-> IF i <= boundary THEN i ELSE IF swa THEN boundary - 1 ELSE boundary]

Config(pattern, shared, hasV, ple, cap, freqs) ==
    LET n == Len(pattern)
    IN  [layers |-> [i \in 1..n |-> Layer(i, pattern[i], n - shared, hasV)],
         ple |-> ple, cap |-> cap, freqs |-> freqs]

\* Its two assertions on sharing.
Loads(pattern, shared) ==
    LET boundary == Len(pattern) - shared
    IN  shared > 0 => boundary >= 2 /\ pattern[boundary - 1] # pattern[boundary]

Owns(c, i) == c.layers[i].source = i
QDim(c, i) == Heads * c.layers[i].head_dim
Span(c) == PleWidth * Len(c.layers)
KOf(c, i) == Of("k", c.layers[i].source)
VOf(c, i) == Of("v", c.layers[i].source)

Scratch == {"h", "x", "q", "k", "v", "attn", "proj", "gate", "up", "scores", "logits",
            "tokens", "ple", "ple_proj", "ple_cur", "ple_gate"}
Caches(c) == UNION {{Of("k", i), Of("v", i)} : i \in {j \in DOMAIN c.layers : Owns(c, j)}}
Buffers(c) == Scratch \cup Caches(c) \cup {ZERO}

\* load_with_weights: floats per row of the batch, for the largest layer.
Alloc(c) ==
    LET q == Heads * Max({c.layers[i].head_dim : i \in DOMAIN c.layers})
        kv == Max({c.layers[i].kv_dim : i \in DOMAIN c.layers})
    IN  [b \in Scratch |->
            CASE b \in {"h", "x", "proj"} -> D
              [] b \in {"q", "attn"} -> q
              [] b \in {"k", "v"} -> kv
              [] b \in {"gate", "up"} -> Ffn
              [] b \in {"ple", "ple_proj"} -> Span(c)
              [] b \in {"ple_cur", "ple_gate"} -> PleWidth
              [] OTHER -> Vocab]

\* ParamArena::build: the F32 tensors a norm may name.
Params(c) ==
    {"output_norm"} \cup (IF c.freqs THEN {"rope_freqs"} ELSE {})
    \cup (IF c.ple THEN {"per_layer_proj_norm"} ELSE {})
    \cup {Of(w, i) : i \in DOMAIN c.layers,
                     w \in {"attn_norm", "attn_q_norm", "attn_k_norm",
                            "post_attention_norm", "ffn_norm", "post_ffw_norm"}
                           \cup (IF c.ple THEN {"post_norm"} ELSE {})}

-----------------------------------------------------------------------------
(* build_plan_for.                                                         *)

EmbedPlan(c, embeds) ==
    (IF embeds THEN <<>>
     ELSE <<Lookup("token_embd", "h", D), InPlace("scale", "sqrt_d", "h", D)>>)
    \o <<Mark("inp_scaled", "h")>>

PlePlan(c) ==
    IF ~c.ple THEN <<>>
    ELSE <<Lookup("per_layer_token_embd", "ple", Span(c)),
           InPlace("scale", "sqrt_ple", "ple", Span(c)),
           MatVec("per_layer_model_proj", "h", "ple_proj", Span(c)),
           InPlace("scale", "rsqrt_d", "ple_proj", Span(c)),
           Norm("per_layer_proj_norm", "layer", "ple_proj", Span(c)),
           AddScale("rsqrt_2", "ple_proj", "ple", Span(c)),
           Mark("inp_per_layer", "ple")>>

\* rms_norm works in place, so its input is copied first.
NormedWithoutCopy(gain) == <<Norm(gain, "row", "h", D), Copy("h", "x", D)>>
Normed(gain) == <<Copy("h", "x", D), Norm(gain, "row", "x", D)>>

RopeArg(c, i) == <<c.layers[i].swa, c.layers[i].factors,
                   IF c.freqs THEN "rope_freqs" ELSE "params">>

\* A layer that owns no cache projects and rotates its queries only.
OwnPlan(c, i, own) == IF Owns(c, i) THEN own ELSE <<>>

ProjectPlan(c, i) ==
    LET l == c.layers[i]
    IN  <<MatVec(Of("attn_q", i), "x", "q", QDim(c, i))>>
        \o OwnPlan(c, i,
             <<MatVec(Of("attn_k", i), "x", "k", l.kv_dim),
               IF l.v_from_k THEN Copy("k", "v", l.kv_dim)
               ELSE MatVec(Of("attn_v", i), "x", "v", l.kv_dim),
               Mark("Vcur", "v")>>)
        \o <<Mark("Qcur", "q")>>

RotatePlan(c, i) ==
    LET l == c.layers[i]
    IN  <<Norm(Of("attn_q_norm", i), "head", "q", QDim(c, i))>>
        \o OwnPlan(c, i, <<Norm(Of("attn_k_norm", i), "head", "k", l.kv_dim),
                           Norm("unit", "head", "v", l.kv_dim), Mark("Vcur_normed", "v")>>)
        \o <<Mark("Qcur_normed", "q"), InPlace("rope", RopeArg(c, i), "q", QDim(c, i))>>
        \o OwnPlan(c, i, <<InPlace("rope", RopeArg(c, i), "k", l.kv_dim)>>)
        \o <<Mark("Qcur_pos", "q")>>

WritePlan(c, i) ==
    LET l == c.layers[i]
    IN  OwnPlan(c, i, <<Op("write_cache", l.window, "k", ZERO, KOf(c, i), l.kv_dim),
                        Op("write_cache", l.window, "v", ZERO, VOf(c, i), l.kv_dim)>>)

ReadPlan(c, i, embeds) ==
    Attend(<<c.layers[i].window, embeds>>, KOf(c, i), VOf(c, i), QDim(c, i))
    \o <<Mark("kqv_out", "attn")>>

AttnPlan(c, i, embeds) ==
    Normed(Of("attn_norm", i)) \o <<Mark("attn_norm", "x")>>
    \o ProjectPlan(c, i) \o RotatePlan(c, i) \o WritePlan(c, i) \o ReadPlan(c, i, embeds)
    \o <<MatVec(Of("attn_output", i), "attn", "proj", D),
         Norm(Of("post_attention_norm", i), "row", "proj", D),
         AddScale("one", "proj", "h", D), Mark("attn_out", "h")>>

\* The layer's output scale is fused into whichever residual closes the block.
Closes(c, i, last) == IF last THEN Of("output_scale", i) ELSE "one"

FfnPlan(c, i) ==
    Normed(Of("ffn_norm", i))
    \o <<MatVec(Of("ffn_gate", i), "x", "gate", Ffn),
         MatVec(Of("ffn_up", i), "x", "up", Ffn),
         Op("geglu", "", ZERO, "up", "gate", Ffn), Mark("ffn_geglu", "gate"),
         MatVec(Of("ffn_down", i), "gate", "proj", D),
         Norm(Of("post_ffw_norm", i), "row", "proj", D),
         AddScale(Closes(c, i, ~c.ple), "proj", "h", D)>>

PleLayerPlan(c, i) ==
    IF ~c.ple THEN <<>>
    ELSE <<Mark("pe_in", "h"),
           Op("copy_rows", i, "ple", ZERO, "ple_cur", PleWidth),
           MatVec(Of("inp_gate", i), "h", "ple_gate", PleWidth),
           Op("geglu", "", ZERO, "ple_cur", "ple_gate", PleWidth),
           MatVec(Of("proj", i), "ple_gate", "proj", D),
           Norm(Of("post_norm", i), "row", "proj", D), Mark("per_layer_embd_out", "proj"),
           AddScale(Closes(c, i, TRUE), "proj", "h", D)>>

\* dispatch copies the last row of h to x between the plan and its tail.
HeadPlan == <<Norm("output_norm", "row", "h", D), Mark("h_nextn", "h")>>
LastRow == <<Copy("h", "x", D)>>
TailPlan(c) ==
    <<MatVec("token_embd", "x", "logits", Vocab)>>
    \o (IF c.cap THEN <<InPlace("soft_cap", "", "logits", Vocab)>> ELSE <<>>)

\* The plan in stages: the inputs, each layer, the head.
Plan(c, embeds, stage) ==
    CASE stage = 0 -> EmbedPlan(c, embeds) \o PlePlan(c)
      [] stage \in DOMAIN c.layers -> AttnPlan(c, stage, embeds) \o FfnPlan(c, stage)
                                      \o PleLayerPlan(c, stage) \o <<Mark("l_out", "h")>>
      [] OTHER -> HeadPlan \o LastRow \o TailPlan(c)

-----------------------------------------------------------------------------
(* Cpu::run, from what the buffers m hold when a stage begins: the values  *)
(* it traces and those it leaves in the buffers that outlive the stage.    *)

CpuInputs(c, embeds, m) ==
    LET h == IF embeds THEN m["h"] ELSE Scale("sqrt_d", Embed("token_embd", m["tokens"]))
        ple == Scale("rsqrt_2",
                 Add(Scale("sqrt_ple", Embed("per_layer_token_embd", m["tokens"])),
                     Rms("per_layer_proj_norm", "layer",
                         Scale("rsqrt_d", Mv("per_layer_model_proj", h)))))
    IN  ("h" :> h) @@ (Traced("inp_scaled") :> h)
        @@ IF c.ple THEN ("ple" :> ple) @@ (Traced("inp_per_layer") :> ple) ELSE <<>>

\* The factors are rope_freqs.weight, empty when the file has none.
CpuRope(c, i, x) ==
    LET l == c.layers[i]
    IN  Rope(<<l.swa, l.factors /\ c.freqs, "rope_freqs">>, x)

CpuAttn(c, i, embeds, m) ==
    LET l == c.layers[i]
        x == Rms(Of("attn_norm", i), "row", m["h"])
        q == Mv(Of("attn_q", i), x)
        qn == Rms(Of("attn_q_norm", i), "head", q)
        k == Mv(Of("attn_k", i), x)
        v == IF l.v_from_k THEN k ELSE Mv(Of("attn_v", i), x)
        vn == Rms("unit", "head", v)
        own == IF ~Owns(c, i) THEN <<>>
               ELSE (KOf(c, i) :> Store(l.window, m[KOf(c, i)],
                                        CpuRope(c, i, Rms(Of("attn_k_norm", i), "head", k))))
                    @@ (VOf(c, i) :> Store(l.window, m[VOf(c, i)], vn))
                    @@ (Traced("Vcur") :> v) @@ (Traced("Vcur_normed") :> vn)
        read == own @@ m
        a == Attn(<<l.window, embeds>>, CpuRope(c, i, qn), read[KOf(c, i)], read[VOf(c, i)])
        h == Add(m["h"], Rms(Of("post_attention_norm", i), "row", Mv(Of("attn_output", i), a)))
    IN  own @@ ("h" :> h) @@ (Traced("attn_norm") :> x) @@ (Traced("Qcur") :> q)
        @@ (Traced("Qcur_normed") :> qn) @@ (Traced("Qcur_pos") :> CpuRope(c, i, qn))
        @@ (Traced("kqv_out") :> a) @@ (Traced("attn_out") :> h)

CpuFfn(i, h) ==
    LET y == Rms(Of("ffn_norm", i), "row", h)
        geglu == Mul(Act("gelu", Mv(Of("ffn_gate", i), y)), Mv(Of("ffn_up", i), y))
    IN  ("h" :> Add(h, Rms(Of("post_ffw_norm", i), "row", Mv(Of("ffn_down", i), geglu))))
        @@ (Traced("ffn_geglu") :> geglu)

CpuPleLayer(c, i, h, ple) ==
    LET gate == Mul(Act("gelu", Mv(Of("inp_gate", i), h)), Slice(i, ple))
        out == Rms(Of("post_norm", i), "row", Mv(Of("proj", i), gate))
    IN  IF ~c.ple THEN "h" :> h
        ELSE ("h" :> Add(h, out)) @@ (Traced("per_layer_embd_out") :> out)

CpuLayer(c, i, embeds, m) ==
    LET attn == CpuAttn(c, i, embeds, m)
        ffn == CpuFfn(i, attn["h"])
        pe == CpuPleLayer(c, i, ffn["h"], m["ple"])
        h == Scale(Of("output_scale", i), pe["h"])
    IN  ("h" :> h) @@ (Traced("l_out") :> h) @@ (Traced("pe_in") :> ffn["h"])
        @@ pe @@ ffn @@ attn

CpuHead(c, m) ==
    LET h == Rms("output_norm", "row", m["h"])
        logits == Mv("token_embd", h)
    IN  ("logits" :> IF c.cap THEN Act("soft_cap", logits) ELSE logits)
        @@ ("h" :> h) @@ (Traced("h_nextn") :> h)

Cpu(c, embeds, stage, m) ==
    CASE stage = 0 -> CpuInputs(c, embeds, m)
      [] stage \in DOMAIN c.layers -> CpuLayer(c, stage, embeds, m)
      [] OTHER -> CpuHead(c, m)

\* What one stage leaves to the next, or to the next forward pass.
Carried(c) == {"h", "tokens", "ple"} \cup Caches(c)
=============================================================================
