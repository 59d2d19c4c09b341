------------------------------ MODULE Compute -------------------------------
(***************************************************************************)
(* The parts of the compute that stand alone: the threads of one workgroup, *)
(* the upload of the weights, the buffers of a model through its forward   *)
(* passes, and the cells a kernel takes, of which a behaviour tries one    *)
(* shape.  They share no state: a behaviour is one of one part, and the    *)
(* others stay idle.                                                       *)
(***************************************************************************)
EXTENDS Integers, Sequences

CONSTANTS
    Parts,                         \* the parts that may run
    N, RowLanes, Rounds,           \* Workgroup
    Files, Target, Align, Chunk, Sample,  \* Upload
    Models, DeviceCtx, DeviceBatch, DeviceWindow, DeviceConvs,  \* Device
    Shapes, Tile, BM, BN           \* QuantLayout and Shaders

Layout == INSTANCE QuantLayout
\* A workgroup is LANES threads for each of its ROWS.
Shaders == INSTANCE Shaders WITH WG <- N, Rows <- N \div RowLanes

\* What a kernel is given: the kernel and its blocks; outputs, tokens and the limit on
\* groups; tokens, heads, lanes, rotated lanes, base and patches a row; tokens, heads,
\* lanes, pool and patches a row; taps, and tokens of two batches.
AnyShape ==
    LET Some == Nat \ {0}
    IN  ({"layout"} \X Layout!Kernels \X Nat) \cup ({"written"} \X Nat \X Nat \X Some)
        \cup ({"rotates"} \X Nat \X Some \X Nat \X Nat \X Nat \X Some)
        \cup ({"gathers"} \X Nat \X Some \X Some \X Some \X Some)
        \cup ({"convolves"} \X Some \X (Nat \X Nat))

\* A power of two is divided by no odd number but one.
IsPowerOfTwo(n) == \A d \in 2..n : n % d = 0 => d % 2 = 0

\* WG is 256 and LANES 32; a tensor has blocks, and they take room.
ASSUME ComputeAssumption ==
    /\ {N, RowLanes} \subseteq Nat \ {0, 1} /\ IsPowerOfTwo(N) /\ IsPowerOfTwo(RowLanes)
    /\ N % RowLanes = 0 /\ Rounds \in Nat
    /\ \A f \in Files : /\ f \in Seq([blocks : Nat, src : Nat, dst : Nat])
                        /\ \A i \in DOMAIN f : f[i].blocks > 0 /\ f[i].dst > 0
    /\ {Align, Sample} \subseteq Nat \ {0} /\ {Target, Chunk} \subseteq Nat
    /\ {Tile, BM, BN} \subseteq Nat \ {0} /\ Shapes \subseteq AnyShape

VARIABLES
    part,
    kernel, pc, half, round, cell, got, touched,
    file, streamed, tensor, block, done, resident, kept, dropped, status,
    model, mem, pos, conv, op,
    shape

workgroupVars == <<kernel, pc, half, round, cell, got, touched>>
uploadVars == <<file, streamed, tensor, block, done, resident, kept, dropped, status>>
deviceVars == <<model, mem, pos, conv, op>>
standaloneVars == <<part, workgroupVars, uploadVars, deviceVars, shape>>

Workgroup == INSTANCE Workgroup
Upload == INSTANCE Upload WITH mem <- resident
Device == INSTANCE Device WITH NCtx <- DeviceCtx, MaxBatch <- DeviceBatch,
                               Wide <- DeviceWindow, MaxConv <- DeviceConvs

\* What load_with_weights is given: a configuration that was accepted, and room.
ASSUME DeviceAssumption ==
    /\ {DeviceCtx, DeviceBatch, DeviceWindow} \subseteq Nat \ {0} /\ DeviceConvs \in Nat
    /\ \A m \in Models : Device!Loadable(m)

-----------------------------------------------------------------------------

WorkgroupIdle ==
    /\ kernel = 0 /\ pc = 0 /\ half = 0 /\ round = 0 /\ cell = 0 /\ got = 0 /\ touched = 0
UploadIdle ==
    /\ file = 0 /\ streamed = 0 /\ tensor = 0 /\ block = 0 /\ done = 0
    /\ resident = 0 /\ kept = 0 /\ dropped = 0 /\ status = 0
DeviceIdle == model = 0 /\ mem = 0 /\ pos = 0 /\ conv = 0 /\ op = 0

ComputeInit ==
    /\ part \in Parts /\ shape = <<>>
    /\ IF part = "workgroup" THEN Workgroup!Init ELSE WorkgroupIdle
    /\ IF part = "upload" THEN Upload!Init ELSE UploadIdle
    /\ IF part = "device" THEN Device!Init ELSE DeviceIdle

WorkgroupNext == part = "workgroup" /\ Workgroup!Next /\ UNCHANGED <<part, uploadVars, deviceVars, shape>>
UploadNext == part = "upload" /\ Upload!Next /\ UNCHANGED <<part, workgroupVars, deviceVars, shape>>
DeviceNext == part = "device" /\ Device!Next /\ UNCHANGED <<part, workgroupVars, uploadVars, shape>>
ShapeNext == part = "shape" /\ shape = <<>> /\ shape' \in Shapes
             /\ UNCHANGED <<part, workgroupVars, uploadVars, deviceVars>>

ComputeNext == WorkgroupNext \/ UploadNext \/ DeviceNext \/ ShapeNext

ComputeSpec == ComputeInit /\ [][ComputeNext]_standaloneVars

-----------------------------------------------------------------------------
(* Properties.                                                             *)

\* No two threads of a workgroup touch a cell between barriers, one of them writing,
\* and each takes the sum of its own whole round.
ReductionsAreSafe == part = "workgroup" => Workgroup!NoDataRace /\ Workgroup!TakesWholeRound

\* An upload puts every block where the shaders look for it, tensors never share a cell,
\* a driver that dropped a whole buffer is noticed, and one that dropped nothing is not,
\* of tensors without padding between them.
Unpadded == \A i \in DOMAIN file : Upload!Bytes(file[i]) % Align = 0
ResidentAsFiled ==
    part = "upload" => /\ Upload!PackedApart /\ Upload!ResidentAsFiled
                       /\ Upload!EmptyBufferIsNoticed /\ (Unpadded => Upload!HonestUploadLoads)

\* The logits of a forward pass depend on nothing but the conversation the device serves.
LogitsAreOwn == part = "device" => Device!LogitsAreOwn

\* After a wipe no buffer of the device holds anything of any conversation.
WipedIsClean == part = "device" => Device!WipedIsClean

\* Every kernel takes, for every element, the bits the CPU decoder takes, and computes
\* each output once, from the cells the CPU takes it from.
KernelsIndexAlike ==
    part = "shape" /\ shape # <<>> =>
        /\ shape[1] = "layout" => Layout!ReadsAsFiled(shape[2], shape[3])
        /\ shape[1] = "written" => Shaders!WrittenOnce(shape[2], shape[3], shape[4])
        /\ shape[1] = "rotates" =>
               Shaders!RotatesAlike(shape[2], shape[3], shape[4], shape[5], shape[6], shape[7])
        /\ shape[1] = "gathers" =>
               Shaders!GathersAlike(shape[2], shape[3], shape[4], shape[5], shape[6])
        /\ shape[1] = "convolves" => Shaders!ConvolvesAlike(shape[2], shape[3])
=============================================================================
