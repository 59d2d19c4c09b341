----------------------------- MODULE VisionTower -----------------------------
(***************************************************************************)
(* The vision tower's forward pass: the dispatch plan of gpu/src/vision.rs *)
(* and the CPU forward of vision/src/cpu.rs that it "mirrors step for      *)
(* step".  ranges says which weights carry a calibration range: a function *)
(* from some weight names to ranges.                                       *)
(***************************************************************************)
EXTENDS Integers, Sequences, Kernels

D == 3
Ffn == 4
Proj == 5

Scratch == {"x", "h", "pos", "q", "k", "v", "attn", "proj", "gate", "up", "scores", "pooled",
            "out"}
Buffers == Scratch \cup {ZERO, "tokens"}

\* Scratch is allocated per image; here, floats per patch or per pooled token.
Alloc == [b \in Scratch |-> CASE b \in {"gate", "up"} -> Ffn
                              [] b = "out" -> Proj
                              [] OTHER -> D]

Projections == {"attn_q", "attn_k", "attn_v", "attn_out", "ffn_gate", "ffn_up", "ffn_down"}
Gains == {"ln1", "ln2", "attn_post_norm", "ffn_post_norm", "attn_q_norm", "attn_k_norm"}
Arena(layers) == {"patch_embd", "input_projection"}
                 \cup {Of(w, i) : w \in Projections, i \in 1..layers}
Params(layers) == {Of(g, i) : g \in Gains, i \in 1..layers}

RangeOf(ranges, w) == IF w \in DOMAIN ranges THEN ranges[w] ELSE "none"

\* linear!: the input is clamped where it lies.
LinearPlan(ranges, w, src, dst, n) ==
    LET range == RangeOf(ranges, w)
        clamp(buf) == IF range = "none" THEN <<>> ELSE <<InPlace("clamp_range", range, buf, 1)>>
    IN  clamp(src) \o <<MatVec(w, src, dst, n)>> \o clamp(dst)

\* The image is lowered to one row per patch (im2col), positions to one each.
PatchPlan(ranges) == LinearPlan(ranges, "patch_embd", "x", "h", D) \o <<AddScale("one", "pos", "h", D)>>

BlockAttnPlan(ranges, i) ==
    <<Copy("h", "x", D), Norm(Of("ln1", i), "row", "x", D)>>
    \o LinearPlan(ranges, Of("attn_q", i), "x", "q", D)
    \o LinearPlan(ranges, Of("attn_k", i), "x", "k", D)
    \o LinearPlan(ranges, Of("attn_v", i), "x", "v", D)
    \o <<Norm(Of("attn_q_norm", i), "head", "q", D), InPlace("rope_2d", "grid", "q", D),
         Norm(Of("attn_k_norm", i), "head", "k", D), InPlace("rope_2d", "grid", "k", D),
         Norm("unit", "head", "v", D)>>
    \o Attend(<<"all", TRUE>>, "k", "v", D)
    \o LinearPlan(ranges, Of("attn_out", i), "attn", "proj", D)
    \o <<Norm(Of("attn_post_norm", i), "row", "proj", D), AddScale("one", "proj", "h", D)>>

BlockFfnPlan(ranges, i) ==
    <<Copy("h", "x", D), Norm(Of("ln2", i), "row", "x", D)>>
    \o LinearPlan(ranges, Of("ffn_gate", i), "x", "gate", Ffn)
    \o LinearPlan(ranges, Of("ffn_up", i), "x", "up", Ffn)
    \o <<Op("geglu", "", ZERO, "up", "gate", Ffn)>>
    \o LinearPlan(ranges, Of("ffn_down", i), "gate", "proj", D)
    \o <<Norm(Of("ffn_post_norm", i), "row", "proj", D), AddScale("one", "proj", "h", D)>>

\* The projection runs over pooled rows, so it does not go through linear!.
OutPlan == <<Op("pool_avg", "", "h", ZERO, "pooled", D), Norm("unit", "row", "pooled", D),
             MatVec("input_projection", "pooled", "out", Proj)>>

Plan(ranges, layers, stage) ==
    CASE stage = 0 -> PatchPlan(ranges)
      [] stage \in 1..layers -> BlockAttnPlan(ranges, stage) \o BlockFfnPlan(ranges, stage)
      [] OTHER -> OutPlan

-----------------------------------------------------------------------------

\* linear, on the CPU: a copy of the input is clamped.
CpuLinear(ranges, w, x) == Clamp(RangeOf(ranges, w), Mv(w, Clamp(RangeOf(ranges, w), x)))

CpuBlock(ranges, i, x) ==
    LET lin(w, y) == CpuLinear(ranges, Of(w, i), y)
        h == Rms(Of("ln1", i), "row", x)
        q == Rope("grid", Rms(Of("attn_q_norm", i), "head", lin("attn_q", h)))
        k == Rope("grid", Rms(Of("attn_k_norm", i), "head", lin("attn_k", h)))
        v == Rms("unit", "head", lin("attn_v", h))
        a == lin("attn_out", Attn(<<"all", TRUE>>, q, k, v))
        x2 == Add(x, Rms(Of("attn_post_norm", i), "row", a))
        y == Rms(Of("ln2", i), "row", x2)
        down == lin("ffn_down", Mul(Act("gelu", lin("ffn_gate", y)), lin("ffn_up", y)))
    IN  Add(x2, Rms(Of("ffn_post_norm", i), "row", down))

\* patch_embed convolves without linear; pool_and_project goes through it.
Cpu(ranges, layers, stage, m) ==
    CASE stage = 0 -> "h" :> Add(Mv("patch_embd", m["x"]), m["pos"])
      [] stage \in 1..layers -> "h" :> CpuBlock(ranges, stage, m["h"])
      [] OTHER -> "out" :> CpuLinear(ranges, "input_projection", Rms("unit", "row", Pool(m["h"])))

Carried(stage) == {"h"} \cup (IF stage = 0 THEN {"x", "pos"} ELSE {})
=============================================================================
