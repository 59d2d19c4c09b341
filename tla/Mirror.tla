------------------------------- MODULE Mirror -------------------------------
(***************************************************************************)
(* The GPU forward passes beside the CPU ones they mirror, one stage at a  *)
(* time, as the bisect tools compare them: both start a stage from the     *)
(* same symbols in the buffers that outlive a stage, and every other       *)
(* buffer holds something stale.  What agrees stage by stage agrees for    *)
(* any number of them.                                                     *)
(*                                                                         *)
(* A case fixes the architecture, its configuration and whether the batch  *)
(* is of tokens or of embedding rows.                                      *)
(***************************************************************************)
EXTENDS Integers, Sequences, FiniteSets, Kernels

CONSTANTS
    MaxLayers,      \* bound: layers of a configuration
    FileFreqs,      \* the values of "the file has rope_freqs.weight"
    RangedWeights   \* the sets of tower weights that carry a calibration range

G == INSTANCE Gemma4
Q == INSTANCE Qwen35
V == INSTANCE VisionTower

VARIABLES
    case,    \* what is run
    stage,   \* the stage that has just run: 0 inputs, then layers, then the head
    gpu,     \* buffer (or checkpoint) -> the term it holds
    cpu      \* likewise, for what the CPU computes in the stage

vars == <<case, stage, gpu, cpu>>

Patterns == UNION {[1..n -> BOOLEAN] : n \in 1..MaxLayers}

GemmaCases ==
    {[arch |-> "gemma4", embeds |-> embeds, c |-> G!Config(p, shared, hasV, ple, cap, freqs)] :
        <<p, shared, hasV, ple, cap, freqs, embeds>> \in
            {x \in Patterns \X (0..MaxLayers) \X BOOLEAN \X BOOLEAN \X BOOLEAN \X FileFreqs
                   \X BOOLEAN : x[2] < Len(x[1]) /\ G!Loads(x[1], x[2])}}
QwenCases ==
    {[arch |-> "qwen35", embeds |-> FALSE, c |-> Q!Config(h, blocks, nextn, interval, out)] :
        <<h, blocks, nextn, interval, out>> \in
            {x \in BOOLEAN \X (1..MaxLayers) \X (0..1) \X (2..3) \X BOOLEAN : x[3] < x[2]}}
VisionCases ==
    {[arch |-> "vision", embeds |-> FALSE,
      c |-> [layers |-> n, ranges |-> [w \in ws |-> "calibrated"]]] :
        n \in 1..MaxLayers, ws \in RangedWeights}
Cases == GemmaCases \cup QwenCases \cup VisionCases

Last == CASE case.arch = "gemma4" -> Len(case.c.layers) + 1
          [] case.arch = "qwen35" -> Len(case.c.recurrent) + 1
          [] OTHER -> case.c.layers + 1

Buffers(k) == CASE k.arch = "gemma4" -> G!Buffers(k.c)
                [] k.arch = "qwen35" -> Q!Buffers(k.c)
                [] OTHER -> V!Buffers

Carried(k, s) == CASE k.arch = "gemma4" -> G!Carried(k.c)
                   [] k.arch = "qwen35" -> Q!Carried(k.c)
                   [] OTHER -> V!Carried(s)

\* forward_embeds stages zeros as the token ids: row 0 of the per-layer table.
Staged(k, b) == IF b = "tokens" /\ k.embeds THEN Sym("zeros") ELSE Sym(b)

Before(k, s) == [b \in Buffers(k) |-> IF b \in Carried(k, s) THEN Staged(k, b)
                                      ELSE <<"stale", b>>]

Plan(k, s) == CASE k.arch = "gemma4" -> G!Plan(k.c, k.embeds, s)
                [] k.arch = "qwen35" -> Q!Plan(k.c, s)
                [] OTHER -> V!Plan(k.c.ranges, k.c.layers, s)

Reference(k, s) == CASE k.arch = "gemma4" -> G!Cpu(k.c, k.embeds, s, Before(k, s))
                     [] k.arch = "qwen35" -> Q!Cpu(k.c, s, Before(k, s))
                     [] OTHER -> V!Cpu(k.c.ranges, k.c.layers, s, Before(k, s))

Run(k, s) ==
    /\ stage' = s
    /\ gpu' = RunPlan(Plan(k, s), Before(k, s))
    /\ cpu' = Reference(k, s)

Init ==
    /\ case \in Cases
    /\ stage = 0
    /\ gpu = RunPlan(Plan(case, 0), Before(case, 0))
    /\ cpu = Reference(case, 0)

Next == stage < Last /\ Run(case, stage + 1) /\ UNCHANGED case

Spec == Init /\ [][Next]_vars

-----------------------------------------------------------------------------
(* Properties.                                                             *)

\* Everything the GPU leaves for later, and every checkpoint it names, holds
\* what the CPU computes: the residual stream, the caches and the recurrent
\* state, the logits, the image rows, and each tensor a bisection compares.
\* What the CPU leaves alone, the GPU does too.
StepForStep ==
    LET lasting == Carried(case, stage) \cup {"logits", "out"}
    IN  \A b \in DOMAIN gpu :
            /\ b \in DOMAIN cpu /\ (b \in lasting \/ b \notin Buffers(case)) => gpu[b] = cpu[b]
            /\ b \in Carried(case, stage) \ DOMAIN cpu => gpu[b] = Staged(case, b)

Dispatches == SelectSeq(Plan(case, stage), LAMBDA d : d.kernel # "mark")

\* No dispatch binds a buffer for writing beside another binding of it, which
\* wgpu would refuse when the plan is first run.
AllBindable == \A i \in DOMAIN Dispatches : Bindable(Dispatches[i])

Room(b) == CASE case.arch = "gemma4" -> G!Alloc(case.c)[b]
             [] case.arch = "qwen35" -> Q!Alloc(case.c)[b]
             [] OTHER -> V!Alloc[b]
Scratch == CASE case.arch = "gemma4" -> G!Scratch
             [] case.arch = "qwen35" -> Q!Scratch
             [] OTHER -> V!Scratch

\* Every row a dispatch writes fits the scratch allocated for it, whichever
\* kind of layer wants the most of it.
RowsFit == \A i \in DOMAIN Dispatches :
               LET d == Dispatches[i]
                   out == d.writes[Len(d.writes)]
               IN  out \in Scratch => d.n <= Room(out)

Weights == CASE case.arch = "gemma4" -> {} [] case.arch = "qwen35" -> Q!Arena(case.c)
             [] OTHER -> V!Arena(case.c.layers)
Gains == CASE case.arch = "gemma4" -> G!Params(case.c)
           [] case.arch = "qwen35" -> {Q!Params(case.c)[w] : w \in DOMAIN Q!Params(case.c)}
           [] OTHER -> V!Params(case.c.layers)

\* Every tensor a plan names has been made resident, and every tensor that is
\* made resident is in the file.
NamesResident ==
    /\ \A i \in DOMAIN Dispatches :
           LET d == Dispatches[i]
           IN  /\ d.kernel \in {"matvec", "embed"} /\ case.arch # "gemma4" => d.arg \in Weights
               /\ d.kernel = "rms_norm" => d.arg[1] \in Gains \cup {"unit"}
    /\ case.arch = "qwen35" => Weights \cup Gains \subseteq Q!FileTensors(case.c)
=============================================================================
