------------------------------- MODULE Qwen35 -------------------------------
(***************************************************************************)
(* The forward pass of qwen35 and of plain qwen3: the dispatch plan of     *)
(* gpu/src/qwen35.rs and the CPU reference of model/src/qwen35/cpu.rs.     *)
(*                                                                         *)
(* A configuration c says which layers are recurrent, whether the query    *)
(* projection carries a gate, and what the file names its pre-FFN norm and *)
(* its output projection.                                                  *)
(***************************************************************************)
EXTENDS Integers, Sequences, FiniteSets, Kernels, FiniteSetsExt

D == 3
Heads == 2
HeadDim == 2
KvDim == 2
Ffn == 4
KeyHeads == 1
ValueHeads == 2
LinHeadDim == 2
Inner == ValueHeads * LinHeadDim
ConvDim == 2 * KeyHeads * LinHeadDim + Inner
Vocab == 5

\* Every interval-th layer attends; a dense stack has no other kind, no gate,
\* and the classic name for its norm.  The last `nextn` blocks are not run.
Config(hybrid, blocks, nextn, interval, output) ==
    [recurrent |-> [i \in 1..(blocks - nextn) |-> hybrid /\ i % interval # 0],
     gate |-> hybrid, blocks |-> blocks,
     ffn_norm |-> IF hybrid THEN "post_attention_norm" ELSE "ffn_norm", output |-> output]

Layers(c) == DOMAIN c.recurrent
QDim == Heads * HeadDim
QStride(c) == IF c.gate THEN 2 * HeadDim ELSE HeadDim

Scratch == {"h", "x", "fused", "conv", "conv_scratch", "z", "alpha", "beta", "q", "gate_a",
            "k", "v", "attn", "proj", "gate", "up", "scores", "logits", "tokens"}
State(c, i) == IF c.recurrent[i] THEN {Of("conv_state", i), Of("s", i)}
               ELSE {Of("k", i), Of("v", i)}
Buffers(c) == Scratch \cup {ZERO, SINK} \cup UNION {State(c, i) : i \in Layers(c)}

\* load_with_weights: floats per row of the batch.  `fused` takes whichever
\* projection lands there.
FusedDim(c) == Max({ConvDim, Heads * QStride(c)})
Alloc(c) ==
    [b \in Scratch \cup {SINK} |->
        CASE b \in {"h", "x", "proj"} -> D
          [] b = "fused" -> FusedDim(c)
          [] b \in {"conv", "conv_scratch"} -> ConvDim
          [] b = "z" -> Inner
          [] b \in {"alpha", "beta"} -> ValueHeads
          [] b \in {"q", "gate_a"} -> QDim
          [] b \in {"k", "v"} -> KvDim
          [] b = "attn" -> Max({QDim, Inner})
          [] b \in {"gate", "up"} -> Ffn
          [] OTHER -> Vocab]

-----------------------------------------------------------------------------
(* The tensors of a file, and which of them are made resident.             *)

Named(ws, i) == {Of(w, i) : w \in ws}
FileTensors(c) ==
    {"token_embd", "output_norm"} \cup (IF c.output THEN {"output"} ELSE {})
    \cup UNION {Named({"attn_norm", c.ffn_norm, "ffn_gate", "ffn_up", "ffn_down"}
                      \cup (IF i \in Layers(c) /\ c.recurrent[i]
                            THEN {"attn_qkv", "attn_gate", "ssm_alpha", "ssm_beta", "ssm_out",
                                  "ssm_conv1d", "ssm_dt", "ssm_a", "ssm_norm"}
                            ELSE {"attn_q", "attn_k", "attn_v", "attn_output", "attn_q_norm",
                                  "attn_k_norm"}), i) : i \in 1..c.blocks}

\* arena_tensors.
Arena(c) ==
    {"token_embd"} \cup (IF c.output THEN {"output"} ELSE {})
    \cup UNION {Named({"ffn_gate", "ffn_up", "ffn_down"}
                      \cup (IF c.recurrent[i]
                            THEN {"attn_qkv", "attn_gate", "ssm_alpha", "ssm_beta", "ssm_out"}
                            ELSE {"attn_q", "attn_k", "attn_v", "attn_output"}), i)
                : i \in Layers(c)}

\* ParamArena::build: the key a dispatch looks up, and the tensor behind it.
FfnNorm(c, i) == IF Of("post_attention_norm", i) \in FileTensors(c)
                 THEN Of("post_attention_norm", i) ELSE Of("ffn_norm", i)
Params(c) ==
    [w \in {"output_norm"}
           \cup UNION {Named({"post_attention_norm", "attn_norm"}
                             \cup (IF c.recurrent[i]
                                   THEN {"ssm_conv1d", "ssm_dt", "ssm_a", "ssm_norm"}
                                   ELSE {"attn_q_norm", "attn_k_norm"}), i) : i \in Layers(c)}
     |-> IF \E i \in Layers(c) : w = Of("post_attention_norm", i)
         THEN FfnNorm(c, CHOOSE i \in Layers(c) : w = Of("post_attention_norm", i))
         ELSE w]

\* The output projection is the embedding table when the file has none.
OutputTensor(c) == IF "output" \in Arena(c) THEN "output" ELSE "token_embd"

-----------------------------------------------------------------------------
(* build_plan.                                                             *)

Taps(c, i) == Params(c)[Of("ssm_conv1d", i)]
Decay(c, i) == <<Params(c)[Of("ssm_a", i)], Params(c)[Of("ssm_dt", i)]>>

\* The window is shifted into a scratch and then committed: a shift in place
\* would read rows another thread has overwritten.
ConvShiftInPlace(c, i) ==
    LET state == Of("conv_state", i)
    IN  <<Delta("conv_silu", Taps(c, i), "fused", ZERO, ZERO, state, "conv", ConvDim),
          Delta("conv_shift", "", "fused", ZERO, ZERO, state, state, ConvDim)>>
ConvPlan(c, i) ==
    LET state == Of("conv_state", i)
    IN  <<Delta("conv_silu", Taps(c, i), "fused", ZERO, ZERO, state, "conv", ConvDim),
          Delta("conv_shift", "", "fused", ZERO, ZERO, state, "conv_scratch", ConvDim),
          Delta("conv_commit", "", "conv_scratch", ZERO, ZERO, state, SINK, ConvDim)>>

LinearPlan(c, i) ==
    <<MatVec(Of("attn_qkv", i), "x", "fused", ConvDim), Mark("linear_attn_qkv_mixed", "fused"),
      MatVec(Of("attn_gate", i), "x", "z", Inner), Mark("z", "z"),
      MatVec(Of("ssm_alpha", i), "x", "alpha", ValueHeads), Mark("alpha", "alpha"),
      MatVec(Of("ssm_beta", i), "x", "beta", ValueHeads), Mark("beta", "beta")>>
    \o ConvPlan(c, i)
    \o <<Delta("l2norm_qk", "", ZERO, ZERO, ZERO, SINK, "conv", ConvDim),
         Delta("delta_recur", Decay(c, i), "alpha", "beta", "conv", Of("s", i), "attn", Inner),
         Mark("attn_output", "attn"),
         Norm(Params(c)[Of("ssm_norm", i)], "head", "attn", Inner),
         Op("mul_silu", "", ZERO, "z", "attn", Inner), Mark("final_output", "attn"),
         MatVec(Of("ssm_out", i), "attn", "proj", D), Mark("linear_attn_out", "proj")>>

\* A fused projection holds [query | gate] per head and is taken apart.
QueryPlan(c, i) ==
    LET dst == IF c.gate THEN "fused" ELSE "q"
    IN  <<MatVec(Of("attn_q", i), "x", dst, Heads * QStride(c)), Mark("Qcur_full", dst),
          MatVec(Of("attn_k", i), "x", "k", KvDim), Mark("Kcur", "k"),
          MatVec(Of("attn_v", i), "x", "v", KvDim), Mark("Vcur", "v")>>
        \o (IF c.gate THEN <<Op("split_half", "query", "fused", ZERO, "q", QDim),
                             Op("split_half", "gate", "fused", ZERO, "gate_a", QDim)>>
            ELSE <<>>)

FullAttnPlan(c, i) ==
    QueryPlan(c, i)
    \o <<Norm(Params(c)[Of("attn_q_norm", i)], "head", "q", QDim),
         InPlace("rope_partial", "rope", "q", QDim),
         Norm(Params(c)[Of("attn_k_norm", i)], "head", "k", KvDim),
         InPlace("rope_partial", "rope", "k", KvDim),
         Mark("Qcur", "q"), Mark("Kcur_pos", "k"),
         Op("write_cache", "all", "k", ZERO, Of("k", i), KvDim),
         Op("write_cache", "all", "v", ZERO, Of("v", i), KvDim)>>
    \o Attend(<<"all", FALSE>>, Of("k", i), Of("v", i), QDim)
    \o (IF c.gate THEN <<Op("mul_sigmoid", "", ZERO, "gate_a", "attn", QDim)>> ELSE <<>>)
    \o <<Mark("attn_gated", "attn"), MatVec(Of("attn_output", i), "attn", "proj", D),
         Mark("attn_output", "proj")>>

BlockPlan(c, i) ==
    <<Copy("h", "x", D), Norm(Params(c)[Of("attn_norm", i)], "row", "x", D),
      Mark("attn_norm", "x")>>
    \o (IF c.recurrent[i] THEN LinearPlan(c, i) ELSE FullAttnPlan(c, i))
    \o <<AddScale("one", "proj", "h", D), Mark("attn_residual", "h"), Copy("h", "x", D),
         Norm(Params(c)[Of("post_attention_norm", i)], "row", "x", D),
         Mark("attn_post_norm", "x"),
         MatVec(Of("ffn_gate", i), "x", "gate", Ffn), MatVec(Of("ffn_up", i), "x", "up", Ffn),
         Op("swiglu", "", ZERO, "up", "gate", Ffn),
         MatVec(Of("ffn_down", i), "gate", "proj", D), Mark("ffn_out", "proj"),
         AddScale("one", "proj", "h", D), Mark("l_out", "h")>>

\* dispatch copies the last row of h to x between the plan and its tail.
HeadPlan(c) == <<Norm(Params(c)["output_norm"], "row", "h", D), Mark("result_norm", "h")>>
LastRow == <<Copy("h", "x", D)>>
TailPlan(c) == <<MatVec(OutputTensor(c), "x", "logits", Vocab)>>

Plan(c, stage) ==
    CASE stage = 0 -> <<Lookup("token_embd", "h", D), Mark("model.input_embed", "h")>>
      [] stage \in Layers(c) -> BlockPlan(c, stage)
      [] OTHER -> HeadPlan(c) \o LastRow \o TailPlan(c)

-----------------------------------------------------------------------------
(* Cpu::forward_traced, with the tensors Weights::load finds.              *)

CpuFfnNorm(c, i) == IF c.ffn_norm = "post_attention_norm" THEN Of("post_attention_norm", i)
                    ELSE Of("ffn_norm", i)

CpuLinear(c, i, m, x) ==
    LET mixed == Mv(Of("attn_qkv", i), x)
        z == Mv(Of("attn_gate", i), x)
        alpha == Mv(Of("ssm_alpha", i), x)
        beta == Mv(Of("ssm_beta", i), x)
        state == m[Of("conv_state", i)]
        qkv == HeadNorm(Act("silu", Conv(Of("ssm_conv1d", i), state, mixed)))
        r == Recur(<<Of("ssm_a", i), Of("ssm_dt", i)>>, alpha, beta, qkv, m[Of("s", i)])
        out == Mul(Rms(Of("ssm_norm", i), "head", <<"o", r>>), Act("silu", z))
        proj == Mv(Of("ssm_out", i), out)
    IN  ("proj" :> proj) @@ (Of("conv_state", i) :> Window(state, mixed))
        @@ (Of("s", i) :> <<"S", r>>) @@ (Traced("linear_attn_qkv_mixed") :> mixed)
        @@ (Traced("z") :> z) @@ (Traced("alpha") :> alpha) @@ (Traced("beta") :> beta)
        @@ (Traced("attn_output") :> <<"o", r>>) @@ (Traced("final_output") :> out)
        @@ (Traced("linear_attn_out") :> proj)

CpuFull(c, i, m, x) ==
    LET qfull == Mv(Of("attn_q", i), x)
        half(which) == IF c.gate THEN Slice(which, qfull) ELSE qfull
        q == Rope("rope", Rms(Of("attn_q_norm", i), "head", half("query")))
        k == Mv(Of("attn_k", i), x)
        kr == Rope("rope", Rms(Of("attn_k_norm", i), "head", k))
        v == Mv(Of("attn_v", i), x)
        k2 == Store("all", m[Of("k", i)], kr)
        v2 == Store("all", m[Of("v", i)], v)
        a == Attn(<<"all", FALSE>>, q, k2, v2)
        gated == IF c.gate THEN Mul(a, Act("sigmoid", half("gate"))) ELSE a
        proj == Mv(Of("attn_output", i), gated)
    IN  ("proj" :> proj) @@ (Of("k", i) :> k2) @@ (Of("v", i) :> v2)
        @@ (Traced("Qcur_full") :> qfull) @@ (Traced("Kcur") :> k) @@ (Traced("Vcur") :> v)
        @@ (Traced("Qcur") :> q) @@ (Traced("Kcur_pos") :> kr)
        @@ (Traced("attn_gated") :> gated) @@ (Traced("attn_output") :> proj)

CpuLayer(c, i, m) ==
    LET x == Rms(Of("attn_norm", i), "row", m["h"])
        attn == IF c.recurrent[i] THEN CpuLinear(c, i, m, x) ELSE CpuFull(c, i, m, x)
        h == Add(m["h"], attn["proj"])
        y == Rms(CpuFfnNorm(c, i), "row", h)
        out == Mv(Of("ffn_down", i),
                  Mul(Act("silu", Mv(Of("ffn_gate", i), y)), Mv(Of("ffn_up", i), y)))
    IN  ("h" :> Add(h, out)) @@ ("proj" :> out) @@ (Traced("l_out") :> Add(h, out))
        @@ (Traced("attn_norm") :> x) @@ (Traced("attn_residual") :> h)
        @@ (Traced("attn_post_norm") :> y) @@ (Traced("ffn_out") :> out) @@ attn

Cpu(c, stage, m) ==
    CASE stage = 0 -> LET h == Embed("token_embd", m["tokens"])
                      IN  ("h" :> h) @@ (Traced("model.input_embed") :> h)
      [] stage \in Layers(c) -> CpuLayer(c, stage, m)
      [] OTHER -> LET h == Rms("output_norm", "row", m["h"])
                  IN  ("logits" :> Mv(IF c.output THEN "output" ELSE "token_embd", h))
                      @@ ("h" :> h) @@ (Traced("result_norm") :> h)

Carried(c) == {"h", "tokens"} \cup UNION {State(c, i) : i \in Layers(c)}
=============================================================================
