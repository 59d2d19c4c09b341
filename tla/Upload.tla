------------------------------- MODULE Upload -------------------------------
(***************************************************************************)
(* How weights become resident: the packing plan of gpu/src/arena.rs and   *)
(* the two uploads of gpu/src/lib.rs, the streamed one that reads a tensor *)
(* a chunk at a time and the mapped one that fills a buffer at a time.     *)
(* The driver may drop a write without saying so.                          *)
(*                                                                         *)
(* Sizes are in u32 cells.  A tensor is [blocks, src, dst]: its blocks, and *)
(* the size of one in the file and on the device.                          *)
(***************************************************************************)
EXTENDS Integers, Sequences, FiniteSets

CONSTANTS
    Files,    \* the lists of tensors to upload
    Target,   \* arena_buffer_bytes
    Align,    \* TENSOR_ALIGN
    Chunk,    \* CHUNK: cells of repacked output per write
    Sample    \* SAMPLE: cells kept of a write for verification

VARIABLES
    file,      \* the tensors
    streamed,  \* upload_streaming, or upload
    tensor,    \* the tensor being sent (the buffer being filled, when mapped)
    block,     \* its blocks already sent
    done,      \* cells sent
    mem,       \* buffer -> cell -> what was written there
    kept,      \* buffer -> "head" | "tail" -> the sampled write, or none
    dropped,   \* whether the driver dropped a write
    status     \* "sending", "short", "miscounted", "unverified" or "ok"

vars == <<file, streamed, tensor, block, done, mem, kept, dropped, status>>

-----------------------------------------------------------------------------
(* Plan::build_with.                                                       *)

Bytes(t) == t.blocks * t.dst
Aligned(n) == ((n + Align - 1) \div Align) * Align

\* One tensor more: into the last buffer if it fits there, or a new one.
Pack(p, t) ==
    LET cur == p.sizes[Len(p.sizes)]
        start == Aligned(cur)
    IN  IF start + Bytes(t) > Target
        THEN [sizes |-> Append(p.sizes, Bytes(t)),
              handles |-> Append(p.handles, [buffer |-> Len(p.sizes) + 1, base |-> 0])]
        ELSE [sizes |-> [p.sizes EXCEPT ![Len(p.sizes)] = start + Bytes(t)],
              handles |-> Append(p.handles, [buffer |-> Len(p.sizes), base |-> start])]

\* The plan after each tensor of a list, and after all of them.
Packed(f) ==
    LET upto[i \in 0..Len(f)] == IF i = 0 THEN [sizes |-> <<0>>, handles |-> <<>>]
                                 ELSE Pack(upto[i - 1], f[i])
    IN  upto
Plan(f) == Packed(f)[Len(f)]

Planned(f) == \A i \in DOMAIN f : Bytes(f[i]) <= Target

TotalOf(sizes) == LET sum[i \in 0..Len(sizes)] == IF i = 0 THEN 0 ELSE sum[i - 1] + sizes[i]
                  IN  sum[Len(sizes)]
Total(f) == TotalOf(Plan(f).sizes)

-----------------------------------------------------------------------------

Handle(i) == Plan(file).handles[i]
Zero == <<0, 0, 0>>   \* a new buffer is zero-filled
Unsampled == [head |-> <<>>, tail |-> <<>>]

Init ==
    /\ file \in {f \in Files : Planned(f)}
    /\ streamed \in BOOLEAN
    /\ tensor = 1 /\ block = 0 /\ done = 0
    /\ mem = [b \in DOMAIN Plan(file).sizes |-> [c \in 0..(Plan(file).sizes[b] - 1) |-> Zero]]
    /\ kept = [b \in DOMAIN Plan(file).sizes |-> Unsampled]
    /\ dropped = FALSE /\ status = "sending"

\* encode_blocks: what blocks from..from+n-1 of tensor i look like on the device.
EncodedFromStart(i, from, n) ==
    [c \in 0..(n * file[i].dst - 1) |-> <<i, c \div file[i].dst, c % file[i].dst>>]
Encoded(i, from, n) ==
    [c \in 0..(n * file[i].dst - 1) |-> <<i, from + c \div file[i].dst, c % file[i].dst>>]

Written(m, b, at, data) ==
    [m EXCEPT ![b] = [c \in DOMAIN @ |-> IF c - at \in DOMAIN data THEN data[c - at] ELSE @[c]]]

\* A sampled span: where it begins, and what it should read back as.
Span(b, at, data, from, n) == [at |-> at + from, data |-> [c \in 0..(n - 1) |-> data[from + c]]]

\* A chunk of whole blocks.
PerChunk(i) == LET n == Chunk \div file[i].dst IN IF n > 1 THEN n ELSE 1

SendChunk ==
    /\ streamed /\ status = "sending" /\ tensor <= Len(file)
    /\ LET left == file[tensor].blocks - block
           n == IF PerChunk(tensor) < left THEN PerChunk(tensor) ELSE left
           h == Handle(tensor)
           data == Encoded(tensor, block, n)
           size == n * file[tensor].dst
           at == h.base + block * file[tensor].dst
           keep == IF size < Sample THEN size ELSE Sample
           head == Span(h.buffer, at, data, 0, keep)
           last == block + n >= file[tensor].blocks
       IN  /\ \E lost \in BOOLEAN :
                  /\ mem' = IF lost THEN mem ELSE Written(mem, h.buffer, at, data)
                  /\ dropped' = (dropped \/ lost)
           /\ kept' = [kept EXCEPT ![h.buffer] =
                  [head |-> IF @.head = <<>> THEN <<head>> ELSE @.head,
                   tail |-> <<Span(h.buffer, at, data, size - keep, keep)>>]]
           /\ done' = done + size
           /\ tensor' = IF last THEN tensor + 1 ELSE tensor
           /\ block' = IF last THEN 0 ELSE block + n
    /\ UNCHANGED <<file, streamed, status>>

\* The source returned fewer bytes than were asked for.
ShortRead ==
    /\ streamed /\ status = "sending" /\ tensor <= Len(file)
    /\ status' = "short"
    /\ UNCHANGED <<file, streamed, tensor, block, done, mem, kept, dropped>>

\* upload: a whole buffer is encoded into its mapping, sampled and flushed.
Here(b, c) == {i \in DOMAIN file : /\ Handle(i).buffer = b
                                    /\ c - Handle(i).base \in 0..(Bytes(file[i]) - 1)}
View(b) ==
    [c \in 0..(Plan(file).sizes[b] - 1) |->
        IF Here(b, c) = {} THEN Zero
        ELSE LET i == CHOOSE i \in Here(b, c) : TRUE
             IN  Encoded(i, 0, file[i].blocks)[c - Handle(i).base]]

FillBuffer ==
    /\ ~streamed /\ status = "sending" /\ tensor <= Len(Plan(file).sizes)
    /\ LET b == tensor
           view == View(b)
           size == Plan(file).sizes[b]
           keep == IF size < Sample THEN size ELSE Sample
       IN  /\ \E lost \in BOOLEAN :
                  /\ mem' = IF lost THEN mem ELSE [mem EXCEPT ![b] = view]
                  /\ dropped' = (dropped \/ lost)
           /\ kept' = [kept EXCEPT ![b] = [head |-> <<Span(b, 0, view, 0, keep)>>,
                                           tail |-> <<Span(b, 0, view, size - keep, keep)>>]]
    /\ tensor' = tensor + 1
    /\ done' = done + Plan(file).sizes[tensor]
    /\ UNCHANGED <<file, streamed, block, status>>

ReadsBack(b) ==
    \A which \in {"head", "tail"} :
        kept[b][which] # <<>> =>
            LET s == kept[b][which][1] IN \A c \in DOMAIN s.data : mem[b][s.at + c] = s.data[c]

\* The accounting of the streamed upload, then the verification of both.
Finish ==
    /\ status = "sending"
    /\ tensor > (IF streamed THEN Len(file) ELSE Len(Plan(file).sizes))
    /\ status' = IF streamed /\ done # Total(file) THEN "miscounted"
                 ELSE IF \E b \in DOMAIN kept : ~ReadsBack(b) THEN "unverified" ELSE "ok"
    /\ UNCHANGED <<file, streamed, tensor, block, done, mem, kept, dropped>>

Next == SendChunk \/ ShortRead \/ FillBuffer \/ Finish

Spec == Init /\ [][Next]_vars

-----------------------------------------------------------------------------
(* Properties.                                                             *)

\* Tensors never share a cell, start aligned, and end inside their buffer.
PackedApart ==
    \A i, j \in DOMAIN file :
        LET h == Handle(i) k == Handle(j)
        IN  /\ h.base % Align = 0 /\ h.base + Bytes(file[i]) <= Plan(file).sizes[h.buffer]
            /\ Plan(file).sizes[h.buffer] <= Target
            /\ (i < j /\ h.buffer = k.buffer) => h.base + Bytes(file[i]) <= k.base

\* An upload that no driver spoiled holds every block of every tensor where the
\* shaders will look for it.
ResidentAsFiled ==
    status = "ok" /\ ~dropped =>
        \A i \in DOMAIN file : \A c \in 0..(Bytes(file[i]) - 1) :
            mem[Handle(i).buffer][Handle(i).base + c] = Encoded(i, 0, file[i].blocks)[c]

\* An upload is not refused when every read was whole and no write was lost:
\* what is counted as sent is what was planned.
HonestUploadLoads == status \in {"miscounted", "unverified"} => dropped

\* A driver that drops every write of a buffer never yields a loaded model.
EmptyBufferIsNoticed ==
    status = "ok" => \A b \in DOMAIN mem : DOMAIN mem[b] = {} \/ \E c \in DOMAIN mem[b] : mem[b][c] # Zero
=============================================================================
