-------------------------- MODULE TileLayout_proofs --------------------------
(***************************************************************************)
(* Facts about the tile layout, for every shape, head dimension and        *)
(* element size.                                                           *)
(***************************************************************************)
EXTENDS TileLayout, TLAPS

Positive == Nat \ {0}

Shapes == Positive \X Positive

(* A product grows with either factor.                                     *)
LEMMA ProductGrows ==
  ASSUME NEW a \in Nat, NEW b \in Nat, NEW factor \in Nat, a <= b
  PROVE  /\ a * factor \in Nat /\ b * factor \in Nat
         /\ a * factor <= b * factor
<1>1. PICK d \in Nat : b = a + d  BY SMT
<1>2. b * factor = a * factor + d * factor  BY <1>1, SMT
<1>3. a * factor \in Nat /\ d * factor \in Nat  BY SMT
<1> QED  BY <1>2, <1>3, SMT

(* Rounding up to whole vectors keeps an order, and keeps a natural one.   *)
LEMMA WholeVectorsGrow ==
  ASSUME NEW a \in Nat, NEW b \in Nat, a <= b
  PROVE  /\ WholeVectors(a) \in Nat /\ WholeVectors(b) \in Nat
         /\ WholeVectors(a) <= WholeVectors(b)
  BY SMT DEF WholeVectors, CeilDiv, VECTOR_LANES

(* A wider key tile never costs less shared memory (tiling.py:393, "so     *)
(* does the shared-memory footprint").                                     *)
LEMMA FootprintGrows ==
  ASSUME NEW bq \in Positive, NEW bk \in Positive, NEW wider \in Positive,
         NEW head_dim \in Positive, NEW dtype_bytes \in Positive, bk <= wider
  PROVE  /\ SharedMemoryBytesFor(bq, bk, head_dim, dtype_bytes) \in Nat
         /\ SharedMemoryBytesFor(bq, wider, head_dim, dtype_bytes) \in Nat
         /\ SharedMemoryBytesFor(bq, bk, head_dim, dtype_bytes)
              <= SharedMemoryBytesFor(bq, wider, head_dim, dtype_bytes)
<1> USE DEF Positive
<1> DEFINE q == WholeVectors(bq * head_dim)
           kv(block) == WholeVectors(block * head_dim)
           elements(block) == q + 2 * kv(block) + bq * block + 2 * bq
<1>1. bk * head_dim \in Nat /\ wider * head_dim \in Nat
      /\ bk * head_dim <= wider * head_dim
      BY ProductGrows
<1>2. kv(bk) \in Nat /\ kv(wider) \in Nat /\ kv(bk) <= kv(wider)
      BY <1>1, WholeVectorsGrow
<1>3. bk * bq \in Nat /\ wider * bq \in Nat /\ bk * bq <= wider * bq
      BY ProductGrows
<1>4. bq * bk = bk * bq /\ bq * wider = wider * bq
      BY SMT
<1>5. q \in Nat
  <2>1. bq * head_dim \in Nat  BY ProductGrows
  <2> QED  BY <2>1, WholeVectorsGrow
<1> HIDE DEF q, kv
<1>6. elements(bk) \in Nat /\ elements(wider) \in Nat /\ elements(bk) <= elements(wider)
      BY <1>2, <1>3, <1>4, <1>5, SMT
<1> HIDE DEF elements
<1>7. elements(bk) * dtype_bytes \in Nat /\ elements(wider) * dtype_bytes \in Nat
      /\ elements(bk) * dtype_bytes <= elements(wider) * dtype_bytes
      BY <1>6, ProductGrows
<1>8. \A n \in Nat : n * dtype_bytes = dtype_bytes * n
      BY SMT
<1>9. /\ SharedMemoryBytesFor(bq, bk, head_dim, dtype_bytes) = elements(bk) * dtype_bytes
      /\ SharedMemoryBytesFor(bq, wider, head_dim, dtype_bytes) = elements(wider) * dtype_bytes
      BY <1>6, <1>8 DEF SharedMemoryBytesFor, elements, q, kv
<1> QED  BY <1>7, <1>9

(* The two breaks of candidate_plans lose nothing: past a key tile that    *)
(* exceeds the group or the shared memory of a device, every wider one     *)
(* exceeds it too.                                                         *)
THEOREM BreaksLoseNothing ==
  ASSUME NEW bq \in Positive, NEW bk \in Positive, NEW wider \in Positive,
         NEW head_dim \in Positive, NEW dtype_bytes \in Positive, bk <= wider,
         NEW max_threads \in Nat, NEW available \in Nat,
         \/ bq * bk > max_threads
         \/ SharedMemoryBytesFor(bq, bk, head_dim, dtype_bytes) > available
  PROVE  \/ bq * wider > max_threads
         \/ SharedMemoryBytesFor(bq, wider, head_dim, dtype_bytes) > available
<1>1. bq * bk \in Nat /\ bq * wider \in Nat /\ bq * bk <= bq * wider
  <2>1. bk * bq \in Nat /\ wider * bq \in Nat /\ bk * bq <= wider * bq
        BY ProductGrows DEF Positive
  <2>2. bq * bk = bk * bq /\ bq * wider = wider * bq
        BY SMT DEF Positive
  <2> QED  BY <2>1, <2>2
<1>2. /\ SharedMemoryBytesFor(bq, bk, head_dim, dtype_bytes) \in Nat
      /\ SharedMemoryBytesFor(bq, wider, head_dim, dtype_bytes) \in Nat
      /\ SharedMemoryBytesFor(bq, bk, head_dim, dtype_bytes)
           <= SharedMemoryBytesFor(bq, wider, head_dim, dtype_bytes)
      BY FootprintGrows
<1> HIDE DEF SharedMemoryBytesFor
<1> QED  BY <1>1, <1>2, SMT

(* The arrays the shader declares cost exactly what the search priced them *)
(* at, for float32, whatever the shape and the head dimension.             *)
THEOREM PricedAsDeclared ==
  ASSUME NEW bq \in Positive, NEW bk \in Positive, NEW head_dim \in Positive
  PROVE  SharedBytesDeclared(Specialized(<<bq, bk>>, head_dim))
           = SharedMemoryBytesFor(bq, bk, head_dim, 4)
<1>1. bq * head_dim \in Nat /\ bk * head_dim \in Nat /\ bk * bq \in Nat
      BY ProductGrows DEF Positive
<1>2. bq * bk \in Nat  BY <1>1, SMT DEF Positive
<1>3. \A a, b, s \in Nat :
        16 * (CeilDiv(a, 4) + 2 * CeilDiv(b, 4)) + 4 * s + 2 * 4 * bq
          = 4 * (WholeVectors(a) + 2 * WholeVectors(b) + s + 2 * bq)
      BY SMT DEF WholeVectors, CeilDiv, VECTOR_LANES, Positive
<1>4. SharedBytesDeclared(Specialized(<<bq, bk>>, head_dim))
        = 16 * (CeilDiv(bq * head_dim, 4) + 2 * CeilDiv(bk * head_dim, 4))
          + 4 * (bq * bk) + 2 * 4 * bq
      BY DEF SharedBytesDeclared, Specialized
<1> QED  BY <1>1, <1>2, <1>3, <1>4 DEF SharedMemoryBytesFor

(* A position counted row by row stays inside the rows there are.          *)
LEMMA RowMajorBound ==
  ASSUME NEW rows \in Nat, NEW columns \in Nat,
         NEW row \in 0..(rows - 1), NEW column \in 0..(columns - 1)
  PROVE  /\ row * columns \in Nat
         /\ row * columns + columns <= rows * columns
         /\ row * columns + column < rows * columns
<1>1. row \in Nat /\ row + 1 \in Nat /\ row + 1 <= rows  BY SMT
<1>2. (row + 1) * columns \in Nat /\ rows * columns \in Nat
      /\ (row + 1) * columns <= rows * columns
      BY <1>1, ProductGrows
<1>3. row * columns \in Nat  BY <1>1, ProductGrows
<1>4. (row + 1) * columns = row * columns + columns  BY <1>1, SMT
<1> QED  BY <1>2, <1>3, <1>4, SMT

(* A number below the word is its own remainder.                           *)
LEMMA FitsTheWord ==
  ASSUME NEW word \in Nat \ {0}, NEW n \in Nat, n < word
  PROVE  n % word = n
  BY SMT

(* The shader's wrapping addresses are the host's offsets, as long as the  *)
(* stack has no more elements than its word can count (attention.comp:88-  *)
(* 89 computes them in uint, which has 2^32).                              *)
THEOREM AddressesDoNotWrap ==
  ASSUME NEW word \in Nat \ {0}, NEW stack \in Nat, NEW seq \in Nat, NEW head_dim \in Nat,
         (stack * seq) * head_dim <= word,
         NEW slice \in 0..(stack - 1), NEW row \in 0..(seq - 1),
         NEW column \in 0..(head_dim - 1)
  PROVE  /\ ElementAddress(word, seq, head_dim, slice, row, column)
              = ElementOffset(seq, head_dim, slice, row, column)
         /\ ElementOffset(seq, head_dim, slice, row, column) \in 0..((stack * seq) * head_dim - 1)
<1> DEFINE rows == stack * seq
           first == slice * seq
           position == first + row
<1>1. /\ first \in Nat /\ rows \in Nat /\ position \in 0..(rows - 1)
  <2>1. first \in Nat /\ first + row < rows  BY RowMajorBound
  <2>2. rows \in Nat  BY ProductGrows
  <2> QED  BY <2>1, <2>2, SMT
<1> HIDE DEF rows, first
<1>2. /\ position * head_dim \in Nat
      /\ position * head_dim + column < rows * head_dim
      /\ rows * head_dim \in Nat
  <2>1. rows * head_dim \in Nat  BY <1>1, ProductGrows
  <2> HIDE DEF position
  <2> QED  BY <1>1, <2>1, RowMajorBound
<1>3. first * head_dim \in Nat /\ row * head_dim \in Nat
      /\ position * head_dim = first * head_dim + row * head_dim
  <2>1. row \in Nat  BY SMT
  <2>2. first * head_dim \in Nat /\ row * head_dim \in Nat  BY <1>1, <2>1, ProductGrows
  <2> QED  BY <1>1, <2>1, <2>2, SMT
<1>4. rows * head_dim <= word  BY DEF rows
<1>5. column \in Nat /\ row \in Nat  BY SMT
<1>6. first <= first * head_dim
  <2>1. 1 \in Nat /\ head_dim \in Nat /\ 1 <= head_dim  BY SMT
  <2>2. 1 * first <= head_dim * first  BY <1>1, <2>1, ProductGrows
  <2> QED  BY <1>1, <2>1, <2>2, SMT
<1> DEFINE a == first * head_dim
           b == row * head_dim
<1>7. /\ first < word /\ a < word /\ b < word /\ a + b < word /\ a + b + column < word
  <2> HIDE DEF a, b
  <2>1. a \in Nat /\ b \in Nat /\ position * head_dim = a + b  BY <1>3 DEF a, b
  <2>2. first <= a  BY <1>6 DEF a
  <2>3. a + b + column < word  BY <1>2, <1>4, <1>5, <2>1, SMT
  <2> QED  BY <1>1, <1>5, <2>1, <2>2, <2>3, SMT
<1>8. /\ first % word = first /\ a % word = a /\ b % word = b
      /\ (a + b) % word = a + b /\ (a + b + column) % word = a + b + column
  <2>1. a \in Nat /\ b \in Nat  BY <1>3
  <2> HIDE DEF a, b
  <2>2. a + b \in Nat /\ a + b + column \in Nat  BY <1>5, <2>1, SMT
  <2> QED  BY <1>1, <1>7, <2>1, <2>2, FitsTheWord
<1>9. ElementAddress(word, seq, head_dim, slice, row, column) = a + b + column
      BY <1>8 DEF ElementAddress, first
<1>10. ElementOffset(seq, head_dim, slice, row, column) = a + b + column
      BY <1>3 DEF ElementOffset, first
<1>11. position * head_dim + column = a + b + column  BY <1>3
<1> QED
  <2> HIDE DEF position, a, b
  <2>1. ElementOffset(seq, head_dim, slice, row, column) = position * head_dim + column
        BY <1>10, <1>11
  <2>2. position * head_dim + column \in 0..(rows * head_dim - 1)
        BY <1>2, <1>5, SMT
  <2> QED  BY <1>9, <1>10, <2>1, <2>2 DEF rows

(* A position counted row by row tells its row and its column.             *)
LEMMA RowMajorUnique ==
  ASSUME NEW rows \in Nat \ {0}, NEW m \in Nat, NEW n \in Nat,
         NEW i \in 0..(rows - 1), NEW j \in 0..(rows - 1),
         m * rows + i = n * rows + j
  PROVE  m = n /\ i = j
<1>1. ASSUME NEW x \in Nat, NEW y \in Nat, x < y, NEW c \in 0..(rows - 1), NEW d \in Nat
      PROVE  x * rows + c < y * rows + d
  <2>1. x \in 0..(y - 1)  BY <1>1, SMT
  <2>2. x * rows + c < y * rows  BY <2>1, RowMajorBound
  <2>3. x * rows \in Nat /\ y * rows \in Nat  BY ProductGrows
  <2> QED  BY <2>2, <2>3, SMT
<1>2. i \in Nat /\ j \in Nat  BY SMT
<1>3. m * rows \in Nat /\ n * rows \in Nat  BY ProductGrows
<1>4. ~(m < n)
  <2>1. CASE m < n
    <3>1. m * rows + i < n * rows + j  BY <1>1, <1>2, <2>1
    <3> QED  BY <1>2, <1>3, <3>1, SMT
  <2> QED  BY <2>1
<1>5. ~(n < m)
  <2>1. CASE n < m
    <3>1. n * rows + j < m * rows + i  BY <1>1, <1>2, <2>1
    <3> QED  BY <1>2, <1>3, <3>1, SMT
  <2> QED  BY <2>1
<1>6. m = n  BY <1>4, <1>5, SMT
<1> QED  BY <1>2, <1>3, <1>6, SMT

(* Two elements of a stack never share an offset: what one invocation      *)
(* writes, no other overwrites.                                            *)
THEOREM OffsetsAreDistinct ==
  ASSUME NEW seq \in Nat, NEW head_dim \in Nat,
         NEW slice \in Nat, NEW row \in 0..(seq - 1), NEW column \in 0..(head_dim - 1),
         NEW slice2 \in Nat, NEW row2 \in 0..(seq - 1), NEW column2 \in 0..(head_dim - 1),
         ElementOffset(seq, head_dim, slice, row, column)
           = ElementOffset(seq, head_dim, slice2, row2, column2)
  PROVE  slice = slice2 /\ row = row2 /\ column = column2
<1>1. head_dim \in Nat \ {0} /\ seq \in Nat \ {0} /\ row \in Nat /\ row2 \in Nat  BY SMT
<1>2. slice * seq + row \in Nat /\ slice2 * seq + row2 \in Nat
  <2>1. slice * seq \in Nat /\ slice2 * seq \in Nat  BY ProductGrows
  <2> QED  BY <1>1, <2>1, SMT
<1>3. slice * seq + row = slice2 * seq + row2 /\ column = column2
      BY <1>1, <1>2, RowMajorUnique DEF ElementOffset
<1> QED  BY <1>1, <1>3, RowMajorUnique

-----------------------------------------------------------------------------
(* Integer division, as a quotient and a bounded remainder.                *)
LEMMA Division ==
  ASSUME NEW n \in Nat, NEW d \in Positive
  PROVE  \E q, r \in Nat : /\ n \div d = q /\ n % d = r /\ r < d
                           /\ q * d \in Nat /\ n = q * d + r
<1>1. d \in Nat /\ d > 0  BY SMT DEF Positive
<1>2. PICK q \in Nat : q = n \div d  BY <1>1, SMT
<1>3. PICK r \in Nat : r = n % d  BY <1>1, SMT
<1>4. r < d  BY <1>1, <1>3, SMT
<1>5. n = d * q + r  BY <1>1, <1>2, <1>3, SMT
<1>6. d * q = q * d /\ q * d \in Nat  BY <1>1, ProductGrows, SMT
<1>7. n = q * d + r  BY <1>5, <1>6
<1>8. n \div d = q /\ n % d = r  BY <1>2, <1>3
<1> QED  BY <1>4, <1>6, <1>7, <1>8

(* A number of tiles covers a length, and one tile less does not.          *)
LEMMA TilesCover ==
  ASSUME NEW n \in Positive, NEW d \in Positive
  PROVE  /\ CeilDiv(n, d) \in Positive
         /\ (CeilDiv(n, d) - 1) * d < n /\ n <= CeilDiv(n, d) * d
         /\ n <= d => CeilDiv(n, d) = 1
<1> DEFINE m == n + d - 1
<1>1. m \in Nat /\ n \in Nat /\ d \in Nat /\ n > 0 /\ d > 0 /\ m >= d  BY SMT DEF Positive
<1>2. PICK c, r \in Nat : m \div d = c /\ r < d /\ c * d \in Nat /\ m = c * d + r
      BY <1>1, Division
<1>3. CeilDiv(n, d) = c  BY <1>2 DEF CeilDiv
<1> DEFINE cd == c * d
<1>4. cd \in Nat /\ n + d - 1 = cd + r  BY <1>2
<1>5. (c - 1) * d = cd - d  BY <1>1, <1>2, SMT
<1>6. c = 0 => cd = 0  BY <1>1, SMT
<1>7. c > 1 => 2 * d <= cd
  <2>1. c > 1 => 2 \in Nat /\ 2 <= c  BY SMT
  <2> QED  BY <1>1, <2>1, ProductGrows
<1> HIDE DEF cd, m
<1>8. /\ cd - d < n /\ n <= cd /\ c # 0
      /\ n <= d => c = 1
      BY <1>1, <1>2, <1>4, <1>6, <1>7, SMT
<1> QED  BY <1>3, <1>5, <1>8 DEF Positive, cd

(* A row of columns dealt to lanes in turn: each lane takes every width-th *)
(* one, and the slots of a lane suffice.                                   *)
LEMMA DealtInTurn ==
  ASSUME NEW n \in Positive, NEW width \in Positive, NEW v \in 0..(n - 1)
  PROVE  \E lane \in 0..(width - 1), c \in 0..(CeilDiv(n, width) - 1) : v = lane + c * width
<1> DEFINE slots == CeilDiv(n, width)
<1>1. v \in Nat /\ n \in Nat /\ width \in Nat /\ v < n  BY SMT DEF Positive
<1>2. PICK c, lane \in Nat : lane < width /\ c * width \in Nat /\ v = c * width + lane
      BY <1>1, Division
<1>3. slots \in Nat /\ n <= slots * width  BY TilesCover DEF Positive
<1> HIDE DEF slots
<1>4. c < slots
  <2>1. SUFFICES ASSUME slots <= c PROVE FALSE
        BY <1>3, SMT
  <2>2. slots * width <= c * width /\ slots * width \in Nat
        BY <1>1, <1>2, <1>3, <2>1, ProductGrows
  <2> DEFINE cw == c * width
             sw == slots * width
  <2>3. sw \in Nat /\ cw \in Nat /\ sw <= cw /\ v = cw + lane /\ n <= sw
        BY <1>2, <1>3, <2>2
  <2> HIDE DEF cw, sw
  <2> QED  BY <1>1, <2>3, SMT
<1>5. c \in 0..(slots - 1) /\ lane \in 0..(width - 1)
      BY <1>1, <1>2, <1>3, <1>4, SMT
<1>6. v = lane + c * width
  <2> DEFINE cw == c * width
  <2>1. cw \in Nat /\ v = cw + lane  BY <1>2
  <2> HIDE DEF cw
  <2>2. v = lane + cw  BY <2>1, SMT
  <2> QED  BY <2>2 DEF cw
<1> QED  BY <1>5, <1>6 DEF slots

(* Two lanes of a row never get the same column.                           *)
LEMMA DealtOnce ==
  ASSUME NEW width \in Positive, NEW c \in Nat, NEW c2 \in Nat,
         NEW lane \in 0..(width - 1), NEW lane2 \in 0..(width - 1),
         lane + c * width = lane2 + c2 * width
  PROVE  lane = lane2 /\ c = c2
<1>1. c * width \in Nat /\ c2 * width \in Nat /\ width \in Nat \ {0}
      BY ProductGrows DEF Positive
<1>2. c * width + lane = c2 * width + lane2
  <2> DEFINE a == c * width
             b == c2 * width
  <2>1. a \in Nat /\ b \in Nat /\ lane + a = lane2 + b  BY <1>1
  <2> HIDE DEF a, b
  <2>2. lane \in Nat /\ lane2 \in Nat  BY SMT
  <2>3. a + lane = b + lane2  BY <2>1, <2>2, SMT
  <2> QED  BY <2>3 DEF a, b
<1> QED  BY <1>1, <1>2, RowMajorUnique

(* The columns a lane writes, in the two ways the shader counts them: one  *)
(* at a time, or four of a vector together.                                *)
LEMMA ColumnsOfALane ==
  ASSUME NEW k, NEW lane, NEW x
  PROVE  /\ k.HEAD_DIM % 4 # 0 =>
              (x \in OwnedColumns(k, lane) <=>
                 \E c \in 0..(k.ACC_LEN - 1) :
                   /\ lane + c * k.BLOCK_K < k.HEAD_DIM
                   /\ x = lane + c * k.BLOCK_K)
         /\ k.HEAD_DIM % 4 = 0 =>
              (x \in OwnedColumns(k, lane) <=>
                 \E c \in 0..(k.ACC_LEN - 1), t \in 0..3 :
                   /\ lane + c * k.BLOCK_K < k.HEAD_DIM \div 4
                   /\ x = 4 * (lane + c * k.BLOCK_K) + t)
<1>1. CASE k.HEAD_DIM % 4 # 0  BY <1>1 DEF OwnedColumns
<1>2. CASE k.HEAD_DIM % 4 = 0  BY <1>2 DEF OwnedColumns
<1> QED  BY <1>1, <1>2

(* Every column of a query row belongs to one lane, and to no other.       *)
LEMMA EachColumnOnce ==
  ASSUME NEW shape \in Shapes, NEW head_dim \in Positive,
         NEW k, k = Specialized(shape, head_dim)
  PROVE  /\ \A lane \in 0..(shape[2] - 1) : OwnedColumns(k, lane) \subseteq 0..(head_dim - 1)
         /\ \A x \in 0..(head_dim - 1) :
              \E lane \in 0..(shape[2] - 1) : x \in OwnedColumns(k, lane)
         /\ \A lane, lane2 \in 0..(shape[2] - 1) : \A x :
              x \in OwnedColumns(k, lane) /\ x \in OwnedColumns(k, lane2) => lane = lane2
<1> DEFINE width == shape[2]
           slots == k.ACC_LEN
           lanes == 0..(width - 1)
<1>1. /\ k.HEAD_DIM = head_dim /\ k.BLOCK_K = width /\ slots = AccumulatorSlots(shape, head_dim)
      BY DEF Specialized
<1>2. width \in Positive /\ width \in Nat /\ head_dim \in Nat /\ head_dim > 0
      BY SMT DEF Shapes, Positive
<1>3. ASSUME NEW lane \in lanes, NEW c \in 0..(slots - 1)
      PROVE  lane \in Nat /\ c \in Nat /\ c * width \in Nat
  <2>1. lane \in Nat /\ c \in Nat  BY SMT
  <2> QED  BY <1>2, <2>1, ProductGrows
<1>4. CASE head_dim % 4 # 0
  <2>1. slots = CeilDiv(head_dim, width)
        BY <1>1, <1>4 DEF AccumulatorSlots, VECTOR_COLUMNS
  <2>2. \A lane, x : x \in OwnedColumns(k, lane) <=>
          \E c \in 0..(slots - 1) : lane + c * width < head_dim /\ x = lane + c * width
        BY <1>1, <1>4, ColumnsOfALane
  <2>3. ASSUME NEW lane \in lanes, NEW x, x \in OwnedColumns(k, lane)
        PROVE  x \in 0..(head_dim - 1)
    <3>1. PICK c \in 0..(slots - 1) : lane + c * width < head_dim /\ x = lane + c * width
          BY <2>2, <2>3
    <3> DEFINE cw == c * width
    <3>2. cw \in Nat /\ lane \in Nat /\ lane + cw < head_dim /\ x = lane + cw
          BY <1>3, <3>1
    <3> HIDE DEF cw
    <3> QED  BY <1>2, <3>2, SMT
  <2>4. ASSUME NEW x \in 0..(head_dim - 1)
        PROVE  \E lane \in lanes : x \in OwnedColumns(k, lane)
    <3>1. PICK lane \in lanes, c \in 0..(slots - 1) : x = lane + c * width
      <4>1. \E lane \in 0..(width - 1), c \in 0..(CeilDiv(head_dim, width) - 1) :
              x = lane + c * width
            BY <1>2, DealtInTurn
      <4> HIDE DEF width, slots
      <4> QED  BY <2>1, <4>1
    <3>2. x < head_dim  BY <1>2, SMT
    <3> QED  BY <2>2, <3>1, <3>2
  <2>5. ASSUME NEW lane \in lanes, NEW lane2 \in lanes, NEW x,
               x \in OwnedColumns(k, lane), x \in OwnedColumns(k, lane2)
        PROVE  lane = lane2
    <3>1. PICK c \in 0..(slots - 1) : x = lane + c * width  BY <2>2, <2>5
    <3>2. PICK c2 \in 0..(slots - 1) : x = lane2 + c2 * width  BY <2>2, <2>5
    <3>3. c \in Nat /\ c2 \in Nat  BY <1>3
    <3> QED  BY <1>2, <3>1, <3>2, <3>3, DealtOnce
  <2> QED  BY <2>3, <2>4, <2>5
<1>5. CASE head_dim % 4 = 0
  <2> DEFINE vectors == head_dim \div 4
  <2>1. vectors \in Positive /\ head_dim = 4 * vectors
        BY <1>2, <1>5, SMT DEF Positive
  <2>2. slots = CeilDiv(vectors, width)
        BY <1>1, <1>5 DEF AccumulatorSlots, VECTOR_COLUMNS
  <2>3. \A lane, x : x \in OwnedColumns(k, lane) <=>
          \E c \in 0..(slots - 1), t \in 0..3 :
            lane + c * width < vectors /\ x = 4 * (lane + c * width) + t
        BY <1>1, <1>5, ColumnsOfALane
  <2> HIDE DEF vectors
  <2>4. vectors \in Nat  BY <2>1 DEF Positive
  <2>5. ASSUME NEW lane \in lanes, NEW x, x \in OwnedColumns(k, lane)
        PROVE  x \in 0..(head_dim - 1)
    <3>1. PICK c \in 0..(slots - 1), t \in 0..3 :
            lane + c * width < vectors /\ x = 4 * (lane + c * width) + t
          BY <2>3, <2>5
    <3> DEFINE cw == c * width
    <3>2. cw \in Nat /\ lane \in Nat /\ lane + cw < vectors /\ x = 4 * (lane + cw) + t
          BY <1>3, <3>1
    <3> HIDE DEF cw
    <3> QED  BY <2>1, <2>4, <3>2, SMT
  <2>6. ASSUME NEW x \in 0..(head_dim - 1)
        PROVE  \E lane \in lanes : x \in OwnedColumns(k, lane)
    <3>1. PICK v \in 0..(vectors - 1), t \in 0..3 : x = 4 * v + t
      <4>1. x \in Nat /\ x < 4 * vectors /\ 4 \in Positive
            BY <1>2, <2>1, SMT DEF Positive
      <4>2. PICK v, t \in Nat : t < 4 /\ x = v * 4 + t  BY <4>1, Division
      <4>3. v \in 0..(vectors - 1) /\ t \in 0..3 /\ x = 4 * v + t
            BY <2>4, <4>1, <4>2, SMT
      <4> QED  BY <4>3
    <3>2. PICK lane \in lanes, c \in 0..(slots - 1) : v = lane + c * width
      <4>1. \E lane \in 0..(width - 1), c \in 0..(CeilDiv(vectors, width) - 1) :
              v = lane + c * width
            BY <1>2, <2>1, DealtInTurn
      <4> HIDE DEF width, slots
      <4> QED  BY <2>2, <4>1
    <3>3. v < vectors  BY <2>4, SMT
    <3> QED  BY <2>3, <3>1, <3>2, <3>3
  <2>7. ASSUME NEW lane \in lanes, NEW lane2 \in lanes, NEW x,
               x \in OwnedColumns(k, lane), x \in OwnedColumns(k, lane2)
        PROVE  lane = lane2
    <3>1. PICK c \in 0..(slots - 1), t \in 0..3 : x = 4 * (lane + c * width) + t
          BY <2>3, <2>7
    <3>2. PICK c2 \in 0..(slots - 1), t2 \in 0..3 : x = 4 * (lane2 + c2 * width) + t2
          BY <2>3, <2>7
    <3> DEFINE v == lane + c * width
               v2 == lane2 + c2 * width
    <3>3. c \in Nat /\ c2 \in Nat /\ v \in Nat /\ v2 \in Nat  BY <1>3, SMT
    <3>4. x = 4 * v + t /\ x = 4 * v2 + t2  BY <3>1, <3>2
    <3> HIDE DEF v, v2
    <3>5. v = v2  BY <3>3, <3>4, SMT
    <3> QED  BY <1>2, <3>3, <3>5, DealtOnce DEF v, v2
  <2> QED  BY <2>5, <2>6, <2>7
<1> QED  BY <1>4, <1>5
=============================================================================
