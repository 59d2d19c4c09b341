---------------------------- MODULE QuantLayout ----------------------------
(***************************************************************************)
(* Which bits of a stored weight each reader takes: the CPU decoder of     *)
(* gguf/src/quant.rs and the kernels of gpu/src/shaders, which read the    *)
(* copy that arena.rs repacked.  Arithmetic is left out; what is compared  *)
(* is the quant, the scale and the minimum that meet each activation.      *)
(*                                                                         *)
(* A field is a sequence of pieces, low bits first; a piece is <<first     *)
(* byte of the block, shift, width>>.                                      *)
(***************************************************************************)
EXTENDS Integers, Sequences, FiniteSets

Types == {"q4k", "q6k", "q8_0", "f32", "bf16"}

\* Elements of a block, and its bytes in the file and on the device.
Elems(ty) == CASE ty \in {"q4k", "q6k"} -> 256 [] ty = "q8_0" -> 32 [] OTHER -> 4
FileBytes(ty) == CASE ty = "q4k" -> 144 [] ty = "q6k" -> 210 [] ty = "q8_0" -> 34
                   [] ty = "f32" -> 16 [] ty = "bf16" -> 8
DeviceBytes(ty) == CASE ty = "q6k" -> 224 [] ty = "q8_0" -> 36 [] OTHER -> FileBytes(ty)

\* encode_blocks: the byte of the file block that lands on a byte of the device's.
FromFile(ty, byte) == IF ty = "q8_0" /\ byte >= 2 THEN byte - 2 ELSE byte

-----------------------------------------------------------------------------
(* The CPU decoder.                                                        *)

Scale(j) == IF j < 4 THEN <<<<4 + j, 0, 6>>>> ELSE <<<<8 + j, 0, 4>>, <<j, 6, 2>>>>
Minimum(j) == IF j < 4 THEN <<<<8 + j, 0, 6>>>> ELSE <<<<8 + j, 4, 4>>, <<4 + j, 6, 2>>>>

None == <<>>
CpuQ4k(e) ==
    LET pair == e \div 64  half == (e % 64) \div 32  l == e % 32
    IN  [q |-> <<<<16 + pair * 32 + l, 4 * half, 4>>>>,
         scale |-> Scale(2 * pair + half), min |-> Minimum(2 * pair + half), d |-> 0]
CpuQ6k(e) ==
    LET n == e \div 128  group == (e % 128) \div 32  l == e % 32
    IN  [q |-> <<<<n * 64 + l + 32 * (group % 2), 4 * (group \div 2), 4>>,
                 <<128 + n * 32 + l, 2 * group, 2>>>>,
         scale |-> <<<<192 + n * 8 + l \div 16 + 2 * group, 0, 8>>>>, min |-> None, d |-> 208]
CpuQ8(e) == [q |-> <<<<2 + e, 0, 8>>>>, scale |-> None, min |-> None, d |-> 0]
CpuDense(width, e) == [q |-> <<<<width * e, 0, 8 * width>>>>, scale |-> None, min |-> None, d |-> 0]

Decoded(ty, e) == CASE ty = "q4k" -> CpuQ4k(e) [] ty = "q6k" -> CpuQ6k(e) [] ty = "q8_0" -> CpuQ8(e)
                    [] ty = "f32" -> CpuDense(4, e) [] ty = "bf16" -> CpuDense(2, e)

-----------------------------------------------------------------------------
(* The kernels.  A read is [at, blk, takes]: the activation (or the output, *)
(* for an embedding), the block, and the fields.  word and c name a byte   *)
(* the way a u32 word split into a vec4 does.                              *)

Read(at, blk, takes) == [at |-> at, blk |-> blk, takes |-> takes]
ByteOf(word, c) == 4 * word + c

ShaderScale(base, j) ==
    IF j < 4 THEN <<<<base + j, 0, 6>>>> ELSE <<<<base + j + 4, 0, 4>>, <<base + j - 4, 6, 2>>>>
ShaderMinimum(base, j) ==
    IF j < 4 THEN <<<<base + j + 4, 0, 6>>>> ELSE <<<<base + j + 4, 4, 4>>, <<base + j, 6, 2>>>>

MatvecQ4k(u) ==
    LET b == u \div 4  half == u % 4  off == (b * 256 + half * 64) \div 4
    IN  {Read(4 * (off + w + 8 * high) + c, b,
              [q |-> <<<<ByteOf(4 + half * 8 + w, c), 4 * high, 4>>>>,
               scale |-> ShaderScale(4, half * 2 + high),
               min |-> ShaderMinimum(4, half * 2 + high), d |-> 0])
           : w \in 0..7, c \in 0..3, high \in 0..1}

\* q6k_quad's shifts: which nibble of ql, and which pair of bits of qh.
QuadSwapped(g) == [low |-> 4 * (g % 2), high |-> 2 * g]
Quad(g) == [low |-> 4 * (g \div 2), high |-> 2 * g]
MatvecQ6k(u) ==
    LET b == u \div 8  n == (u % 8) \div 4  l0 == ((u % 8) % 4) * 8
        off == (b * 256 + n * 128 + l0) \div 4
    IN  {Read(4 * (off + w + 8 * g) + c, b,
              [q |-> <<<<ByteOf(n * 16 + l0 \div 4 + 8 * (g % 2) + w, c), Quad(g).low, 4>>,
                       <<ByteOf(32 + n * 8 + l0 \div 4 + w, c), Quad(g).high, 2>>>>,
               scale |-> <<<<192 + n * 8 + l0 \div 16 + 2 * g, 0, 8>>>>, min |-> None, d |-> ByteOf(52, 0)])
           : w \in 0..1, c \in 0..3, g \in 0..3}

EmbedQ6k(u) ==
    LET b == u \div 64  n == (u % 64) \div 32  l == u % 32
    IN  {Read(b * 256 + n * 128 + l + 32 * g, b,
              [q |-> <<<<ByteOf(n * 16, l + 32 * (g % 2)), 4 * (g \div 2), 4>>,
                       <<ByteOf(32 + n * 8, l), 2 * g, 2>>>>,
               scale |-> <<<<ByteOf(48, n * 8 + l \div 16 + 2 * g), 0, 8>>>>,
               min |-> None, d |-> ByteOf(52, 0)]) : g \in 0..3}

\* One thread's 4 x 4 patch is four of these: l, n and j name a quad of k.
GemmQ6k(u) ==
    LET b == u \div 64  n == (u % 64) \div 32  j == (u % 32) \div 8  l == 4 * (u % 8)
    IN  {Read(b * 256 + n * 128 + j * 32 + l + c, b,
              [q |-> <<<<ByteOf((n * 64 + (j % 2) * 32 + l) \div 4, c), 4 * (j \div 2), 4>>,
                       <<ByteOf(32 + (n * 32 + l) \div 4, c), 2 * j, 2>>>>,
               scale |-> <<<<192 + n * 8 + j * 2 + l \div 16, 0, 8>>>>, min |-> None, d |-> ByteOf(52, 0)])
           : c \in 0..3}

Plain(byte, width) == [q |-> <<<<byte, 0, width>>>>, scale |-> None, min |-> None, d |-> 0]
MatvecQ8(u) == {Read(u * 32 + 4 * w + c, u, Plain(ByteOf(1 + w, c), 8)) : w \in 0..7, c \in 0..3}
EmbedQ8(u) == {Read(u * 32 + w * 4 + c, u, Plain(ByteOf(1 + w, c), 8)) : w \in 0..7, c \in 0..3}
MatvecF32(u) == {Read(4 * u + c, u, Plain(ByteOf(c, 0), 32)) : c \in 0..3}
EmbedF32(u) == {Read(u, u \div 4, Plain(ByteOf(u % 4, 0), 32))}
MatvecBf16(u) == {Read(4 * u + 2 * w + high, u, Plain(ByteOf(w, 2 * high), 16)) : w \in 0..1, high \in 0..1}

\* dot_row, on the file's own blocks.
DotQ4k(u) ==
    LET b == u \div 4  pair == u % 4
    IN  {Read(b * 256 + pair * 64 + l + 32 * high, b,
              [q |-> <<<<16 + pair * 32 + l, 4 * high, 4>>>>, scale |-> Scale(pair * 2 + high),
               min |-> Minimum(pair * 2 + high), d |-> 0]) : l \in 0..31, high \in 0..1}
DotQ6k(u) ==
    LET b == u \div 64  n == (u % 64) \div 32  l == u % 32
    IN  {Read(b * 256 + n * 128 + l + 32 * g, b,
              [q |-> <<<<n * 64 + l + 32 * (g % 2), 4 * (g \div 2), 4>>,
                       <<128 + n * 32 + l, 2 * g, 2>>>>,
               scale |-> <<<<192 + n * 8 + l \div 16 + 2 * g, 0, 8>>>>,
               min |-> None, d |-> 208]) : g \in 0..3}
DotQ8(u) == {Read(u * 32 + e, u, Plain(2 + e, 8)) : e \in 0..31}

\* Every kernel: the type it reads, its units in a row of n blocks, a unit's reads.
Kernels == {"matvec_q4k", "matvec_q6k", "gemm_q6k", "embed_q6k", "matvec_q8_0", "embed_q8_0",
            "matvec_f32", "embed_f32", "matvec_bf16", "dot_q4k", "dot_q6k", "dot_q8_0"}
OnFile == {"dot_q4k", "dot_q6k", "dot_q8_0"}
TypeOf(k) == CASE k \in {"matvec_q4k", "dot_q4k"} -> "q4k"
               [] k \in {"matvec_q6k", "gemm_q6k", "embed_q6k", "dot_q6k"} -> "q6k"
               [] k \in {"matvec_q8_0", "embed_q8_0", "dot_q8_0"} -> "q8_0"
               [] k \in {"matvec_f32", "embed_f32"} -> "f32" [] k = "matvec_bf16" -> "bf16"
Units(k, n) == CASE k \in {"matvec_q4k", "dot_q4k"} -> 4 * n [] k = "matvec_q6k" -> 8 * n
                 [] k \in {"gemm_q6k", "embed_q6k", "dot_q6k"} -> 64 * n [] k = "embed_f32" -> 4 * n [] OTHER -> n
Unit(k, u) == CASE k = "matvec_q4k" -> MatvecQ4k(u) [] k = "matvec_q6k" -> MatvecQ6k(u)
                [] k = "gemm_q6k" -> GemmQ6k(u) [] k = "embed_q6k" -> EmbedQ6k(u)
                [] k = "matvec_q8_0" -> MatvecQ8(u) [] k = "embed_q8_0" -> EmbedQ8(u)
                [] k = "matvec_f32" -> MatvecF32(u) [] k = "embed_f32" -> EmbedF32(u)
                [] k = "matvec_bf16" -> MatvecBf16(u) [] k = "dot_q4k" -> DotQ4k(u)
                [] k = "dot_q6k" -> DotQ6k(u) [] k = "dot_q8_0" -> DotQ8(u)

-----------------------------------------------------------------------------
(* Properties.                                                             *)

FiledField(ty, f) == [i \in DOMAIN f |-> <<FromFile(ty, f[i][1]), f[i][2], f[i][3]>>]
Filed(ty, t) == [q |-> FiledField(ty, t.q), scale |-> FiledField(ty, t.scale),
                 min |-> FiledField(ty, t.min), d |-> FromFile(ty, t.d)]

\* In a row of n blocks every element is read once, by one unit, from the block
\* it was filed in, and through the repacking the kernel takes the bits of the
\* quant, the scale and the minimum that the CPU decoder takes.
ReadsAsFiled(k, n) ==
    LET ty == TypeOf(k)
        reads == UNION {Unit(k, u) : u \in 0..(Units(k, n) - 1)}
    IN  /\ \A r \in reads : /\ r.at \in 0..(n * Elems(ty) - 1)
                            /\ r.blk = r.at \div Elems(ty)
                            /\ (IF k \in OnFile THEN r.takes ELSE Filed(ty, r.takes))
                                = Decoded(ty, r.at % Elems(ty))
        /\ Cardinality(reads) = n * Elems(ty)
        /\ \A u \in 0..(Units(k, n) - 1) :
               Cardinality({r.at : r \in Unit(k, u)}) * Units(k, n) = n * Elems(ty)
=============================================================================
