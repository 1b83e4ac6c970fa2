----------------------------- MODULE TileLayout -----------------------------
(***************************************************************************)
(* The layout of a tile that the host and the shader must agree on: what a *)
(* tile costs in shared memory (tiling.py), the constants the shader is    *)
(* specialized with (vkattention.py), and what the shader declares and     *)
(* writes under them (shaders/attention.comp).                             *)
(***************************************************************************)
EXTENDS Integers

VECTOR_LANES == 4
VECTOR_COLUMNS == 4

CeilDiv(n, d) == (n + d - 1) \div d

WholeVectors(elements) == CeilDiv(elements, VECTOR_LANES) * VECTOR_LANES

SharedMemoryBytesFor(bq, bk, head_dim, dtype_bytes) ==
  dtype_bytes * (WholeVectors(bq * head_dim) + 2 * WholeVectors(bk * head_dim)
                 + bq * bk + 2 * bq)

(* Mutant: rounds the stripe of an invocation down.                        *)
SlotsRoundedDown(shape, head_dim) == IF head_dim < shape[2] THEN 1 ELSE head_dim \div shape[2]

AccumulatorSlots(shape, head_dim) ==
  CeilDiv(IF head_dim % VECTOR_COLUMNS = 0 THEN head_dim \div VECTOR_COLUMNS
                                           ELSE head_dim, shape[2])

Specialized(shape, head_dim) ==
  [local_size_x |-> shape[2], local_size_y |-> shape[1],
   BLOCK_Q |-> shape[1], BLOCK_K |-> shape[2], HEAD_DIM |-> head_dim,
   Q_TILE_LEN |-> shape[1] * head_dim, KV_TILE_LEN |-> shape[2] * head_dim,
   S_TILE_LEN |-> shape[1] * shape[2], ACC_LEN |-> AccumulatorSlots(shape, head_dim)]

(* The bytes of the shared arrays the shader declares.                     *)
SharedBytesDeclared(k) ==
  16 * (CeilDiv(k.Q_TILE_LEN, 4) + 2 * CeilDiv(k.KV_TILE_LEN, 4))
  + 4 * k.S_TILE_LEN + 2 * 4 * k.BLOCK_Q

(* The output columns the invocation of a lane writes in its query row.    *)
OwnedColumns(k, lane) ==
  IF k.HEAD_DIM % 4 = 0
    THEN {4 * (lane + c * k.BLOCK_K) + t :
            c \in {c \in 0..(k.ACC_LEN - 1) : lane + c * k.BLOCK_K < k.HEAD_DIM \div 4},
            t \in 0..3}
    ELSE {lane + c * k.BLOCK_K :
            c \in {c \in 0..(k.ACC_LEN - 1) : lane + c * k.BLOCK_K < k.HEAD_DIM}}

(* Where the shader finds element (row, column) of a slice, every product  *)
(* and sum taken modulo the word of its uint: qBase, kvBase and outBase    *)
(* with what is added to them.                                             *)
ElementAddress(word, seq, head_dim, slice, row, column) ==
  LET uint(n) == n % word
      base == uint(uint(slice * seq) * head_dim)
  IN uint(uint(base + uint(row * head_dim)) + column)

(* Where the host put it, in arrays of shape (stack, seq, head_dim).       *)
ElementOffset(seq, head_dim, slice, row, column) ==
  (slice * seq + row) * head_dim + column
=============================================================================
