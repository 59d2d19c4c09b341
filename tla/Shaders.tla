------------------------------ MODULE Shaders ------------------------------
(***************************************************************************)
(* The index arithmetic of the kernels in gpu/src/shaders beside that of    *)
(* the CPU code they reproduce: which cells every output is computed from,  *)
(* and which thread writes which output.  Values are left out.  Rows, heads *)
(* and lanes count from 0, as in the code.                                  *)
(***************************************************************************)
EXTENDS Integers, FiniteSets

CONSTANTS
    WG,     \* threads of a workgroup
    Rows,   \* ROWS_PER_GROUP
    Tile,   \* TOKEN_TILE
    BM, BN  \* rows and tokens of a GEMM output tile

Upto(n) == 0..(n - 1)
CeilDiv(n, m) == (n + m - 1) \div m
Clamp(n, lo, hi) == IF n < lo THEN lo ELSE IF n > hi THEN hi ELSE n
\* What a loop from first, in steps, visits below end.
Strided(first, step, end) == {x \in Upto(end) : x >= first /\ (x - first) % step = 0}

-----------------------------------------------------------------------------
(* Who writes what.                                                        *)

RowGroups(out, limit) == Clamp(CeilDiv(out, Rows), 1, limit)
TokenGroups(n) == IF n = 0 THEN 1 ELSE CeilDiv(n, Tile)
Cells(n, limit) == Clamp(CeilDiv(n, WG), 1, limit)

TileN(base, n) == LET left == n - (IF base < n THEN base ELSE n)
                  IN  IF Tile < left THEN Tile ELSE left
StoreRow(row, tok, out, n) == row < out /\ tok < n

\* The threads of matvec_*_t that store: workgroup x, y, its base row b, row r of
\* it and token t of the tile.  The plain kernels are the case of one token.
MatvecWrites(out, n, limit) ==
    LET g == RowGroups(out, limit)
    IN  {<<w, <<w.b + w.r, w.y * Tile + w.t>>>> : w \in
           {w \in [x : Upto(g), y : Upto(TokenGroups(n)), b : Upto(out), r : Upto(Rows), t : Upto(Tile)] :
               /\ w.b \in Strided(w.x * Rows, g * Rows, out)
               /\ w.t < TileN(w.y * Tile, n)
               /\ StoreRow(w.b + w.r, w.y * Tile + w.t, out, n)}}

\* store4 guards the rows of a vec4 one by one.
GemmWrites(out, n) ==
    {<<w, <<w.x * BM + w.r, w.y * BN + w.t>>>> : w \in
        {w \in [x : Upto(CeilDiv(out, BM)), y : Upto(CeilDiv(n, BN)), r : Upto(BM), t : Upto(BN)] :
            StoreRow(w.x * BM + w.r, w.y * BN + w.t, out, n)}}

\* An elementwise kernel, whose row is its cell.
CellWrites(n, limit) ==
    LET g == Cells(n, limit)
    IN  {<<w, <<w.i, 0>>>> : w \in {w \in [gid : Upto(g * WG), i : Upto(n)] :
                                       w.i \in Strided(w.gid, g * WG, n)}}

-----------------------------------------------------------------------------
(* Rotations.  One turns a pair of lanes of a head by freq / of of a full   *)
(* schedule, at a position.                                                *)

Turn(i, j, freq, of, pos) == [lanes |-> <<i, j>>, freq |-> freq, of |-> of, pos |-> pos]

\* rope_neox on lanes from..from+d-1 of a head.
RopeNeox(from, d, pos) == {Turn(from + i, from + i + d \div 2, i, d, pos) : i \in Upto(d \div 2)}

\* rope and rope_partial on row r: off0 is the lanes that turn, u0 the heads.
RopeRow(r, off0, u0, base) ==
    {Turn(i, i + off0 \div 2, i, off0, base + r \div u0) : i \in Upto(off0 \div 2)}

\* rope_2d on row r of dim lanes: u0 heads, u1 patches a row.
Rope2d(r, dim, u0, u1) ==
    LET half == dim \div 2  quarter == half \div 2  patch == r \div u0
    IN  {Turn(i, i + quarter, i, half, patch % u1) : i \in Upto(quarter)}
        \cup {Turn(half + i, half + i + quarter, i, half, patch \div u1) : i \in Upto(quarter)}

\* rope_heads of the CPU's tower: head r of nh, on a grid nx patches wide.
RopeHeads(r, hd, nh, nx) ==
    RopeNeox(0, hd \div 2, (r \div nh) % nx) \cup RopeNeox(hd \div 2, hd \div 2, (r \div nh) \div nx)

-----------------------------------------------------------------------------
(* Gathers: the source cell (or the set of them) of output cell i.         *)

SplitHalf(i, dim, u0) == (i \div dim) * 2 * dim + u0 + (i % dim)
\* Lane l of the query (or of its gate) of head h of token t in qfull.
QueryHalf(t, h, l, nh, hd, gate) == t * nh * 2 * hd + h * 2 * hd + (IF gate THEN hd ELSE 0) + l

CopyRows(i, dim, u0, u1) == u1 + (i \div dim) * u0 + (i - (i \div dim) * dim)
\* Lane l of token t's slice for layer il, of e lanes in each of n layers.
PleSlice(t, il, l, e, n) == t * (e * n) + il * e + l

PoolKernel(i, dim, k, nx) ==
    LET r == i \div dim  ox == nx \div k
    IN  {(((r \div ox) * k + ky) * nx + (r % ox) * k + kx) * dim + (i % dim) : ky, kx \in Upto(k)}
\* pool_and_project: lane l of the pooled row at bx, by.
Pool(bx, by, l, d, m, nx) == {((by * m + ky) * nx + bx * m + kx) * d + l : ky, kx \in Upto(m)}

\* im2col: what cell c of patch pi's row holds; patch_embed: what filter cell f meets.
Im2col(pi, c, p, w, h, nx) ==
    LET ch == c \div (p * p)  ky == (c % (p * p)) \div p  kx == c % p
    IN  ch * w * h + ((pi \div nx) * p + ky) * w + (pi % nx) * p + kx
PatchEmbed(px, py, ch, ky, kx, p, w, h) ==
    [img |-> ch * (w * h) + (py * p + ky) * w + px * p + kx, filter |-> ch * p * p + ky * p + kx]

-----------------------------------------------------------------------------
(* The causal convolution.  A stream is a function from a row's position to *)
(* its name; the state holds the k - 1 rows before the batch.               *)

\* conv_silu: what tap j of token `tok` reads.
ConvReads(batch, state, k, tok, j) ==
    IF j = k - 1 THEN batch[tok]
    ELSE LET p == tok + j - (k - 1) IN IF p >= 0 THEN batch[p] ELSE state[p + k - 1]

\* conv_shift, committed by conv_commit.
ConvShift(batch, state, k, n) ==
    [r \in Upto(k - 1) |->
        LET p == n + r - (k - 1) IN IF p >= 0 THEN batch[p] ELSE state[p + k - 1]]

\* The CPU slides its window a token at a time.
Slid(state, k, row) == [r \in Upto(k - 1) |-> IF r = k - 2 THEN row ELSE state[r + 1]]
SlidOver(batch, state, k, n) ==
    LET after[i \in 0..n] == IF i = 0 THEN state ELSE Slid(after[i - 1], k, batch[i - 1]) IN after[n]

-----------------------------------------------------------------------------
(* Properties, of one choice of shapes.                                    *)

\* Whatever the dispatch limit and however the last tile is cut, every output of
\* every token is stored by exactly one thread, and nothing outside the matrix.
WrittenOnce(out, n, limit) ==
    /\ \A writes \in {MatvecWrites(out, n, limit), GemmWrites(out, n)} :
          /\ {w[2] : w \in writes} = Upto(out) \X Upto(n)
          /\ Cardinality(writes) = out * n
    /\ {w[2][1] : w \in CellWrites(out * n, limit)} = Upto(out * n)
    /\ Cardinality(CellWrites(out * n, limit)) = out * n

\* The kernels turn the lanes the CPU turns, by the same angles, at each token's own
\* position: whole heads, partial heads and the tower's two-dimensional heads.
RotatesAlike(t, heads, hd, rot, base, nx) ==
    /\ \A r \in Upto(t * heads) : RopeRow(r, rot, heads, base) = RopeNeox(0, rot, base + r \div heads)
    /\ \A r \in Upto(t * heads) : Rope2d(r, hd, heads, nx) = RopeHeads(r, hd, heads, nx)

\* The gathers of the query and its gate, of a layer's slice, of the pooled patches
\* and of the patches take the cells the CPU takes.
GathersAlike(t, heads, hd, k, nx) ==
    /\ \A tok \in Upto(t), h \in Upto(heads), l \in Upto(hd), gate \in BOOLEAN :
          SplitHalf((tok * heads + h) * hd + l, hd, IF gate THEN hd ELSE 0)
              = QueryHalf(tok, h, l, heads, hd, gate)
    /\ \A tok \in Upto(t), il \in Upto(heads), l \in Upto(hd) :
          CopyRows(tok * hd + l, hd, hd * heads, il * hd) = PleSlice(tok, il, l, hd, heads)
    /\ \A bx \in Upto(nx), by \in Upto(t), l \in Upto(hd) :
          PoolKernel((by * nx + bx) * hd + l, hd, k, nx * k) = Pool(bx, by, l, hd, k, nx * k)
    /\ \A px \in Upto(nx), py \in Upto(t), ch \in Upto(3), ky, kx \in Upto(k) :
          LET meets == PatchEmbed(px, py, ch, ky, kx, k, nx * k, t * k)
          IN  Im2col(py * nx + px, meets.filter, k, nx * k, t * k, nx) = meets.img

\* However a stream is cut into batches, the convolution sees the rows the CPU's
\* window held at that token, and leaves the window the CPU leaves.
ConvolvesAlike(k, cut) ==
    LET state == [r \in Upto(k - 1) |-> <<"before", r>>]
        batch(b) == [i \in Upto(cut[b]) |-> <<b, i>>]
        left == ConvShift(batch(1), state, k, cut[1])
        slid == SlidOver(batch(1), state, k, cut[1])
    IN  /\ left = slid
        /\ \A tok \in Upto(cut[2]), j \in Upto(k) :
              ConvReads(batch(2), left, k, tok, j) =
                  (IF j = k - 1 THEN batch(2)[tok] ELSE SlidOver(batch(2), slid, k, tok)[j])
=============================================================================
