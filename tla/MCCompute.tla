----------------------------- MODULE MCCompute -----------------------------
(***************************************************************************)
(* The compute modules side by side.  They share no state: a behaviour is  *)
(* one of one module, and the others stay idle.                            *)
(***************************************************************************)
EXTENDS Compute, Kernels

VARIABLES case, stage, gpu, cpu

mirrorVars == <<case, stage, gpu, cpu>>

G == INSTANCE Gemma4
Q == INSTANCE Qwen35
V == INSTANCE VisionTower

-----------------------------------------------------------------------------
(* Instances and their bounds.                                             *)

Projection(w, layers) == {Of(w, i) : i \in layers}
InOneLayer == {Of(w, i) : w \in {"attn_out", "ffn_down"}, i \in 1..4}
RangedWeights == {{}, InOneLayer, UNION {Projection(w, 1..4) : w \in V!Projections}}
Mirror == INSTANCE Mirror WITH MaxLayers <- 4, FileFreqs <- {TRUE}

Shared == [arch |-> "gemma4", c |-> G!Config(<<TRUE, FALSE, TRUE>>, 1, TRUE, FALSE, TRUE, TRUE)]
QwenModel(hybrid) == [arch |-> "qwen35", c |-> Q!Config(hybrid, 2, 0, 2, TRUE)]
Plain == {Shared, QwenModel(TRUE), QwenModel(FALSE)}
PerLayer == {[arch |-> "gemma4", c |-> G!Config(<<TRUE, FALSE>>, 0, TRUE, TRUE, TRUE, TRUE)]}

Quant(n) == [blocks |-> n, src |-> 2, dst |-> 3]
Dense(n) == [blocks |-> n, src |-> 1, dst |-> 1]
Lists(tensors) == UNION {[1..n -> tensors] : n \in 1..3}
Tensors == Lists({Quant(4), Dense(4), Dense(8), Quant(1)})

MCShapes ==
    {<<"layout", k, n>> : k \in Layout!Kernels, n \in 1..2}
    \cup {<<"written", out, n, limit>> : out \in 1..9, n \in 1..5, limit \in 1..3}
    \cup {<<"rotates", t, heads, hd, rot, base, nx>> :
              t \in 1..3, heads \in 1..2, hd \in {4, 8}, rot \in {2, 4}, base \in 0..1, nx \in 1..2}
    \cup {<<"gathers", t, heads, hd, k, nx>> : t, heads \in 1..2, hd, k, nx \in 1..3}
    \cup {<<"convolves", k, cut>> : k \in 2..4, cut \in (0..5) \X (1..4)}

-----------------------------------------------------------------------------

MirrorIdle == case = 0 /\ stage = 0 /\ gpu = 0 /\ cpu = 0

Init ==
    /\ ComputeInit
    /\ IF part = "mirror" THEN Mirror!Init ELSE MirrorIdle

MirrorNext == part = "mirror" /\ Mirror!Next /\ UNCHANGED standaloneVars

Next == MirrorNext \/ (ComputeNext /\ UNCHANGED mirrorVars)

Spec == Init /\ [][Next]_<<standaloneVars, mirrorVars>>

-----------------------------------------------------------------------------
(* Properties.                                                             *)

\* The GPU's plan computes, at every step the CPU names, the value the CPU computes.
StepForStep == part = "mirror" => Mirror!StepForStep

\* A plan can run: no dispatch binds one buffer as input and output, no row outgrows
\* its buffer, and every weight it names was loaded.
PlansRun == part = "mirror" => Mirror!AllBindable /\ Mirror!RowsFit /\ Mirror!NamesResident
=============================================================================
