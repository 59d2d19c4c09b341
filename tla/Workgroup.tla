----------------------------- MODULE Workgroup ------------------------------
(***************************************************************************)
(* The threads of one workgroup and the memory they share, in the kernels  *)
(* that cooperate: the tree reductions of ops.wgsl, attn.wgsl,             *)
(* deltanet.wgsl and gpu/src/lib.rs, and the kernels that stage a tile,    *)
(* synchronise and read each other's part of it.  Threads run in any order *)
(* between two barriers.                                                   *)
(*                                                                         *)
(* A kernel is a loop over what every thread does to shared memory: fill   *)
(* its own cell with its part of the turn, fold halves in an inner loop    *)
(* (a thread whose lane is below s folds the cell s further into its own), *)
(* take the folded cell of its lane group, scan every cell, or wait at a   *)
(* barrier.  A cell holds the parts that were folded into it.              *)
(***************************************************************************)
EXTENDS Integers, Sequences

CONSTANTS
    N,         \* WG: threads of the workgroup
    RowLanes,  \* LANES: threads that reduce one row of a matvec
    Rounds     \* bound: rows, tokens or steps a kernel loops over

Threads == 0..(N - 1)

VARIABLES
    kernel,   \* what runs
    pc,       \* thread -> its place in the kernel's body
    half,     \* thread -> s, the half it folds next
    round,    \* thread -> the turn of the loop it is in
    cell,     \* shared memory: thread's cell -> the parts in it
    got,      \* <<tag of a turn, thread, parts>> that were used
    touched   \* <<thread, cell, "read" | "write">> since the last barrier

vars == <<kernel, pc, half, round, cell, got, touched>>

-----------------------------------------------------------------------------
(* The kernels.                                                            *)

Bar == <<"barrier", 0>>

\* wg_sum: the barrier "again" ends a turn of the inner loop.
Sum(p) == <<<<"fill", p>>, Bar, <<"fold", p>>, <<"again", p>>, <<"take", p>>>>
Staged == <<<<"fill", 1>>, Bar, <<"scan", 1>>>>

\* rms_norm and l2norm_qk, over rows; softmax_pass, a maximum and then a sum;
\* reduce_row, which synchronises before it overwrites; and the kernels that
\* stage a row of q, of q and k, or a slab of weights.
RmsRowNoBarrier == Sum(1)
RmsRow == Sum(1) \o <<Bar>>
L2Row == Sum(1) \o <<Bar, Bar>>
Softmax == Sum(1) \o <<Bar>> \o Sum(2)
ReduceRow == <<Bar>> \o Sum(1)
GemmStep == Staged \o <<Bar>>
DeltaToken == Staged \o <<Bar>>
ScoresStage == Staged

Kernels == {"rms_norm", "l2norm_qk", "softmax_pass", "matvec", "gemm", "delta_recur",
            "scores_pass"}
Body ==
    CASE kernel = "rms_norm" -> RmsRow [] kernel = "l2norm_qk" -> L2Row
      [] kernel = "softmax_pass" -> Softmax [] kernel = "matvec" -> ReduceRow
      [] kernel = "gemm" -> GemmStep [] kernel = "delta_recur" -> DeltaToken
      [] kernel = "scores_pass" -> ScoresStage
Turns == IF kernel \in {"softmax_pass", "scores_pass"} THEN 1 ELSE Rounds

\* Lanes that reduce together: all of them, or those of one matvec row.
Lanes == IF kernel = "matvec" THEN RowLanes ELSE N
Lane(t) == t % Lanes
Group(t) == {u \in Threads : u - Lane(u) = t - Lane(t)}

-----------------------------------------------------------------------------

Init ==
    /\ kernel \in Kernels
    /\ pc = [t \in Threads |-> 1]
    /\ half = [t \in Threads |-> 0]
    /\ round = [t \in Threads |-> 1]
    /\ cell = [t \in Threads |-> {}]
    /\ got = {}
    /\ touched = {}

At(t) == Body[pc[t]]
Tag(t) == <<round[t], At(t)[2]>>
Running(t) == round[t] <= Turns
Comes(t, what) == Running(t) /\ At(t)[1] = what

\* To the next line of the body, or to the next turn of the loop.
Wraps(t) == pc[t] = Len(Body)
Onward(t) == IF Wraps(t) THEN 1 ELSE pc[t] + 1
Turn(t) == IF Wraps(t) THEN round[t] + 1 ELSE round[t]
Step(t, what) ==
    /\ Comes(t, what)
    /\ pc' = [pc EXCEPT ![t] = Onward(t)] /\ round' = [round EXCEPT ![t] = Turn(t)]
    /\ UNCHANGED kernel

\* s starts at half the lanes.
Fill(t) ==
    /\ Step(t, "fill")
    /\ cell' = [cell EXCEPT ![t] = {<<Tag(t), t>>}]
    /\ half' = [half EXCEPT ![t] = Lanes \div 2]
    /\ touched' = touched \cup {<<t, t, "write">>}
    /\ UNCHANGED got

FoldInto(t) ==
    /\ Step(t, "fold")
    /\ IF Lane(t) < half[t]
       THEN /\ cell' = [cell EXCEPT ![t] = @ \cup cell[t + half[t]]]
            /\ touched' = touched \cup {<<t, t, "write">>, <<t, t + half[t], "read">>}
       ELSE UNCHANGED <<cell, touched>>
    /\ UNCHANGED <<half, got>>

Take(t) ==
    /\ Step(t, "take")
    /\ got' = got \cup {<<Tag(t), t, cell[t - Lane(t)]>>}
    /\ touched' = touched \cup {<<t, t - Lane(t), "read">>}
    /\ UNCHANGED <<half, cell>>

Scan(t) ==
    /\ Step(t, "scan")
    /\ got' = got \cup {<<Tag(t), t, UNION {cell[u] : u \in Threads}>>}
    /\ touched' = touched \cup {<<t, u, "read">> : u \in Threads}
    /\ UNCHANGED <<half, cell>>

\* Control flow is uniform: every thread comes to the same barrier.
Meet(what) ==
    /\ \A t \in Threads : Comes(t, what)
    /\ touched' = {}
    /\ UNCHANGED <<kernel, cell, got>>

Barrier ==
    /\ Meet("barrier")
    /\ pc' = [t \in Threads |-> Onward(t)] /\ round' = [t \in Threads |-> Turn(t)]
    /\ UNCHANGED half

\* The barrier of the inner loop, which goes on while there is a half to fold.
Again ==
    /\ Meet("again")
    /\ half' = [t \in Threads |-> half[t] \div 2]
    /\ pc' = [t \in Threads |-> IF half[t] \div 2 = 0 THEN pc[t] + 1 ELSE pc[t] - 1]
    /\ UNCHANGED round

Next == \/ \E t \in Threads : Fill(t) \/ FoldInto(t) \/ Take(t) \/ Scan(t)
        \/ Barrier \/ Again

Spec == Init /\ [][Next]_vars

-----------------------------------------------------------------------------
(* Properties.                                                             *)

\* Between two barriers no thread writes a cell that another one touches, so
\* what a kernel computes does not depend on how its threads are scheduled.
NoDataRace ==
    \A a, b \in touched : a[1] # b[1] /\ a[2] = b[2] => a[3] = "read" /\ b[3] = "read"

\* A value taken from shared memory is made of every part of its own round, and
\* of no other: no lane is left out, none is counted from the row before.
TakesWholeRound ==
    \A g \in got : g[3] = {<<g[1], u>> : u \in IF kernel = "matvec" THEN Group(g[2]) ELSE Threads}
=============================================================================
