------------------------------ MODULE Kernels -------------------------------
(***************************************************************************)
(* What the compute kernels do to the buffers bound to them (shaders/      *)
(* ops.wgsl, attn.wgsl, deltanet.wgsl, quant.wgsl) and the formulas the    *)
(* CPU code computes, both as symbolic terms: two computations agree when  *)
(* their terms are equal.  A plan is the list of dispatches of one forward *)
(* pass; a dispatch names its kernel, its argument, the buffers bound for  *)
(* reading, those bound for writing, and the floats of a row it covers.    *)
(*                                                                         *)
(* A term is a tuple that begins with its operator; terms with the same    *)
(* operator have the same shape.                                           *)
(***************************************************************************)
EXTENDS Integers, Sequences, TLC

Sym(x) == <<"sym", x>>
Embed(w, tokens) == <<"embed", w, tokens>>
Mv(w, x) == <<"mv", w, x>>
Rms(gain, per, x) == <<"rms", gain, per, x>>
Add(x, y) == <<"add", x, y>>
Scale(f, x) == IF f = "one" THEN x ELSE <<"scale", f, x>>
Mul(x, y) == <<"mul", x, y>>
Act(f, x) == <<f, x>>
Slice(n, x) == <<"slice", n, x>>
Rope(how, x) == <<"rope", how, x>>
Store(window, cache, x) == <<"store", window, cache, x>>
Scores(how, q, k) == <<"scores", how, q, k>>
Softmax(x) == <<"softmax", x>>
Weigh(w, v) == <<"weigh", w, v>>
Attn(how, q, k, v) == Weigh(Softmax(Scores(how, q, k)), v)
\* Clamping twice to one range is clamping once.
Clamp(range, x) ==
    IF range = "none" \/ (x[1] = "clamp" /\ x[2] = range) THEN x ELSE <<"clamp", range, x>>
Pool(x) == <<"pool", x>>
Conv(taps, state, x) == <<"conv", taps, state, x>>
Window(state, x) == <<"window", state, x>>
HeadNorm(x) == <<"l2", x>>
Recur(par, alpha, beta, conv, s) == <<"recur", par, alpha, beta, conv, s>>

-----------------------------------------------------------------------------
(* Dispatches, by the layout of their bind group.  ZERO is the dummy bound *)
(* to an input a kernel does not use; SINK that for an output.             *)

ZERO == "zero"
SINK == "sink"

\* ops_bind: one output, which the in-place kernels also read.
Op(kernel, arg, a, b, out, n) ==
    [kernel |-> kernel, arg |-> arg, reads |-> <<a, b>>, writes |-> <<out>>, n |-> n]

\* matvec_bind: the weights, x, y, and the token ids.
MatVec(w, x, y, n) ==
    [kernel |-> "matvec", arg |-> w, reads |-> <<x, "tokens">>, writes |-> <<y>>, n |-> n]
Lookup(w, y, n) == [MatVec(w, ZERO, y, n) EXCEPT !.kernel = "embed"]

\* attn_bind, shared by the three passes.
Attend(how, k, v, n) ==
    [i \in 1..3 |-> [kernel |-> <<"scores", "softmax", "weighted_v">>[i], arg |-> how,
                     reads |-> <<"q", k, v>>, writes |-> <<"scores", "attn">>, n |-> n]]

\* delta_bind: three inputs, the state, the output.
Delta(kernel, arg, a, b, c, state, out, n) ==
    [kernel |-> kernel, arg |-> arg, reads |-> <<a, b, c>>, writes |-> <<state, out>>,
     n |-> n]

Copy(a, out, n) == Op("copy", "", a, ZERO, out, n)
Norm(gain, per, buf, n) == Op("rms_norm", <<gain, per>>, ZERO, ZERO, buf, n)
AddScale(f, b, out, n) == Op("add_scale", f, ZERO, b, out, n)
InPlace(kernel, arg, out, n) == Op(kernel, arg, ZERO, ZERO, out, n)

\* A checkpoint: what buf holds here is kept under the name the CPU traces.
Traced(name) == "trace " \o name
Mark(name, buf) ==
    [kernel |-> "mark", arg |-> Traced(name), reads |-> <<buf>>, writes |-> <<>>, n |-> 0]

-----------------------------------------------------------------------------

\* What the kernel leaves in its (last) output.
Output(d, m) ==
    LET a == m[d.reads[1]]
        b == m[d.reads[2]]
        out == m[d.writes[Len(d.writes)]]
        state == m[d.writes[1]]
    IN  CASE d.kernel = "embed" -> Embed(d.arg, b)
          [] d.kernel = "matvec" -> Mv(d.arg, a)
          [] d.kernel = "copy" -> a
          [] d.kernel = "copy_rows" -> Slice(d.arg, a)
          [] d.kernel = "split_half" -> Slice(d.arg, a)
          [] d.kernel = "scale" -> Scale(d.arg, out)
          [] d.kernel = "add_scale" -> Scale(d.arg, Add(out, b))
          [] d.kernel = "rms_norm" -> Rms(d.arg[1], d.arg[2], out)
          [] d.kernel = "geglu" -> Mul(Act("gelu", out), b)
          [] d.kernel = "swiglu" -> Mul(Act("silu", out), b)
          [] d.kernel = "mul_silu" -> Mul(out, Act("silu", b))
          [] d.kernel = "mul_sigmoid" -> Mul(out, Act("sigmoid", b))
          [] d.kernel = "soft_cap" -> Act("soft_cap", out)
          [] d.kernel \in {"rope", "rope_partial", "rope_2d"} -> Rope(d.arg, out)
          [] d.kernel = "write_cache" -> Store(d.arg, out, a)
          [] d.kernel = "weighted_v" -> Weigh(state, m[d.reads[3]])
          [] d.kernel = "clamp_range" -> Clamp(d.arg, out)
          [] d.kernel = "pool_avg" -> Pool(a)
          [] d.kernel = "conv_silu" -> Act("silu", Conv(d.arg, state, a))
          [] d.kernel = "conv_shift" -> Window(state, a)
          [] d.kernel = "l2norm_qk" -> HeadNorm(out)
          [] d.kernel = "delta_recur" -> <<"o", Recur(d.arg, a, b, m[d.reads[3]], state)>>

\* The kernels that write their first output instead, or as well.
FirstOutput(d, m) ==
    CASE d.kernel = "scores" -> Scores(d.arg, m[d.reads[1]], m[d.reads[2]])
      [] d.kernel = "softmax" -> Softmax(m[d.writes[1]])
      [] d.kernel = "conv_commit" -> m[d.reads[1]]
      [] d.kernel = "delta_recur" ->
             <<"S", Recur(d.arg, m[d.reads[1]], m[d.reads[2]], m[d.reads[3]],
                          m[d.writes[1]])>>

Effect(d, m) ==
    LET first == {"scores", "softmax", "conv_commit"}
        last == IF d.kernel \in first THEN m
                ELSE [m EXCEPT ![d.writes[Len(d.writes)]] = Output(d, m)]
    IN  IF d.kernel = "mark" THEN (d.arg :> m[d.reads[1]]) @@ m
        ELSE IF d.kernel \in first \cup {"delta_recur"}
        THEN [last EXCEPT ![d.writes[1]] = FirstOutput(d, m)]
        ELSE last

\* Dispatches of one queue run in the order they were recorded.
RunPlan(plan, m) ==
    LET after[i \in 0..Len(plan)] ==
            IF i = 0 THEN m ELSE Effect(plan[i], after[i - 1])
    IN  after[Len(plan)]

\* wgpu refuses a buffer bound both for reading and for writing, or twice for
\* writing, in one dispatch.
Bindable(d) ==
    /\ \A i \in DOMAIN d.reads, j \in DOMAIN d.writes : d.reads[i] # d.writes[j]
    /\ \A i, j \in DOMAIN d.writes : i # j => d.writes[i] # d.writes[j]

\* Layer i's own buffer or tensor.
Of(name, i) == name \o ToString(i)
=============================================================================
