--------------------------- MODULE AttentionShader ---------------------------
(***************************************************************************)
(* One workgroup of shaders/attention.comp: BLOCK_Q x BLOCK_K invocations  *)
(* that share the tiles, the scores and the softmax state of their rows,   *)
(* and meet at barriers.  What an invocation does between two barriers is  *)
(* one action, and between barriers the invocations run in any order;      *)
(* `touched` records who read and wrote which shared element, so that a    *)
(* missing barrier shows as a race.  Workgroups share only read-only       *)
(* inputs and write rows of their own, so any one of them stands for all.  *)
(***************************************************************************)
EXTENDS TileLayout, OnlineSoftmax

CONSTANTS BlockQ, BlockK, HeadDim, SeqQ, SeqK, ScoreRows

ASSUME ShaderAssumption ==
  /\ {BlockQ, BlockK, HeadDim, SeqQ, SeqK} \subseteq Nat \ {0}
  /\ ScoreRows \subseteq [0..(SeqK - 1) -> Int \cup {NegInf}]

K == Specialized(<<BlockQ, BlockK>>, HeadDim)

Rows == 0..(K.BLOCK_Q - 1)
Lanes == 0..(K.BLOCK_K - 1)
Columns == 0..(HeadDim - 1)
Keys == 0..(SeqK - 1)
Invocations == Rows \X Lanes  \* <<gl_LocalInvocationID.y, gl_LocalInvocationID.x>>

VARIABLES
  scores, causal,       \* what the inputs and params make of this tile
  qStart,               \* gl_WorkGroupID.x * BLOCK_Q
  pc, arrived,          \* the next section of each invocation, and whether it
                        \* waits for the barrier in front of it
  kStart, oldMax, score, newMax, weight, acc,    \* its registers
  qTile, kTile, vTile, sTile, rowMaxState, rowSumState,  \* shared memory
  oBuf,
  touched               \* <<invocation, array, index, is it a write>> since the barrier

params == <<scores, causal, qStart>>
registers == <<kStart, oldMax, score, newMax, weight, acc>>
shared == <<qTile, kTile, vTile, sTile, rowMaxState, rowSumState>>
vars == <<params, pc, arrived, registers, shared, oBuf, touched>>

tid(i) == i[1] * K.BLOCK_K + i[2]
groupSize == K.BLOCK_Q * K.BLOCK_K
At(row, lane) == row * K.BLOCK_K + lane

(* The elements of an array an invocation loads: every groupSize-th one.   *)
Share(i, len) == {idx \in 0..(len - 1) : idx % groupSize = tid(i)}

(* An element of a tile is <<row of the input, column>>, or the zero a     *)
(* partial tile is filled up with.                                         *)
Element(idx, start, seq) ==
  IF start + idx \div HeadDim < seq THEN <<start + idx \div HeadDim, idx % HeadDim>>
                                    ELSE <<Pad, idx % HeadDim>>

Touches(i, array, indices, write) == {<<i, array, idx, write>> : idx \in indices}

RowOf(i) == {At(i[1], j) : j \in Lanes}

(* Mutant: each invocation compares its own key with its own query.        *)
StreamsOnPerKey(i, start) ==
  start < SeqK /\ ~(causal /\ start + i[2] > qStart + i[1])

(* The loop condition and the causal break.                                *)
StreamsOn(i, start) ==
  start < SeqK /\ ~(causal /\ start > qStart + K.BLOCK_Q - 1)

LoopHead(i, start) == IF StreamsOn(i, start) THEN "tile" ELSE "write"

(* Stops at the barrier in front of the section named next.                *)
Arrive(i, next) ==
  /\ pc' = [pc EXCEPT ![i] = next]
  /\ arrived' = [arrived EXCEPT ![i] = TRUE]

Runs(i, section) == pc[i] = section /\ ~arrived[i]

(* The rows of the tile that are rows of the output.                       *)
RowsKept == {row \in Rows : qStart + row < SeqQ}

Init ==
  /\ scores \in [Rows -> ScoreRows]
  /\ causal \in BOOLEAN
  /\ qStart \in {q \in 0..(SeqQ - 1) : q % BlockQ = 0}
  /\ pc = [i \in Invocations |-> "load"]
  /\ arrived = [i \in Invocations |-> FALSE]
  /\ kStart = [i \in Invocations |-> 0]
  /\ oldMax = [i \in Invocations |-> NaN]
  /\ score = oldMax /\ newMax = oldMax /\ weight = oldMax
  /\ acc = [i \in Invocations |-> [col \in OwnedColumns(K, i[2]) |-> <<>>]]
  /\ qTile = [idx \in 0..(K.Q_TILE_LEN - 1) |-> <<NaN, NaN>>]
  /\ kTile = [idx \in 0..(K.KV_TILE_LEN - 1) |-> <<NaN, NaN>>]
  /\ vTile = kTile
  /\ sTile = [idx \in 0..(K.S_TILE_LEN - 1) |-> NaN]
  /\ rowMaxState = [row \in Rows |-> NaN]
  /\ rowSumState = [row \in Rows |-> <<>>]
  /\ oBuf = [row \in RowsKept |-> [col \in Columns |-> NaN]]
  /\ touched = {}

LoadQuery(i) ==
  /\ Runs(i, "load")
  /\ LET mine == Share(i, K.Q_TILE_LEN) IN
     /\ qTile' = [idx \in DOMAIN qTile |->
                    IF idx \in mine THEN Element(idx, qStart, SeqQ) ELSE qTile[idx]]
     /\ IF i[2] = 0
          THEN /\ rowMaxState' = [rowMaxState EXCEPT ![i[1]] = NegInf]
               /\ rowSumState' = [rowSumState EXCEPT ![i[1]] = <<>>]
               /\ touched' = touched \cup Touches(i, "q", mine, TRUE)
                             \cup Touches(i, "row", {i[1]}, TRUE)
          ELSE /\ touched' = touched \cup Touches(i, "q", mine, TRUE)
               /\ UNCHANGED <<rowMaxState, rowSumState>>
  /\ Arrive(i, LoopHead(i, 0))
  /\ UNCHANGED <<params, registers, kTile, vTile, sTile, oBuf>>

LoadTile(i) ==
  /\ Runs(i, "tile")
  /\ LET mine == Share(i, K.KV_TILE_LEN)
         loaded(old) == [idx \in DOMAIN old |->
                           IF idx \in mine THEN Element(idx, kStart[i], SeqK) ELSE old[idx]]
     IN /\ kTile' = loaded(kTile) /\ vTile' = loaded(vTile)
        /\ touched' = touched \cup Touches(i, "kv", mine, TRUE)
  /\ Arrive(i, "score")
  /\ UNCHANGED <<params, registers, qTile, sTile, rowMaxState, rowSumState, oBuf>>

(* Mutant: lets the keys a tile is padded with through.                    *)
AllowedPadding(i) ==
  qStart + i[1] < SeqQ /\ (causal => kStart[i] + i[2] <= qStart + i[1])

Allowed(i) ==
  /\ qStart + i[1] < SeqQ /\ kStart[i] + i[2] < SeqK
  /\ causal => kStart[i] + i[2] <= qStart + i[1]

QElements(i) == {i[1] * HeadDim + d : d \in Columns}
KElements(i) == {i[2] * HeadDim + d : d \in Columns}

(* The dot product of the two rows is a score when the tiles hold them.    *)
Dot(i) ==
  IF /\ kStart[i] + i[2] \in Keys
     /\ \A idx \in QElements(i) : qTile[idx] = <<qStart + i[1], idx % HeadDim>>
     /\ \A idx \in KElements(i) : kTile[idx] = <<kStart[i] + i[2], idx % HeadDim>>
    THEN scores[i[1]][kStart[i] + i[2]] ELSE 0

ScoreKey(i) ==
  /\ Runs(i, "score")
  /\ LET it == IF Allowed(i) THEN Dot(i) ELSE NegInf IN
     /\ score' = [score EXCEPT ![i] = it]
     /\ sTile' = [sTile EXCEPT ![At(i[1], i[2])] = it]
  /\ oldMax' = [oldMax EXCEPT ![i] = rowMaxState[i[1]]]
  /\ touched' = touched \cup Touches(i, "row", {i[1]}, FALSE)
                \cup Touches(i, "s", {At(i[1], i[2])}, TRUE)
                \cup (IF Allowed(i) THEN Touches(i, "q", QElements(i), FALSE)
                                         \cup Touches(i, "kv", KElements(i), FALSE)
                                    ELSE {})
  /\ Arrive(i, "max")
  /\ UNCHANGED <<params, kStart, newMax, weight, acc, qTile, kTile, vTile,
                 rowMaxState, rowSumState, oBuf>>

TileMax(i) == Largest({sTile[idx] : idx \in RowOf(i)})

(* Mutant: no barrier between reading the scores and replacing them.       *)
ShiftMaxUnsynchronized(i) ==
  /\ Runs(i, "max")
  /\ LET largest == Largest({oldMax[i], TileMax(i)})
         shift == IF largest = NegInf THEN 0 ELSE largest
     IN /\ newMax' = [newMax EXCEPT ![i] = shift]
        /\ weight' = [weight EXCEPT ![i] = Minus(score[i], shift)]
  /\ touched' = touched \cup Touches(i, "s", RowOf(i), FALSE)
  /\ pc' = [pc EXCEPT ![i] = "weight"] /\ UNCHANGED arrived
  /\ UNCHANGED <<params, kStart, oldMax, score, acc, shared, oBuf>>

ShiftMax(i) ==
  /\ Runs(i, "max")
  /\ LET largest == Largest({oldMax[i], TileMax(i)})
         shift == IF largest = NegInf THEN 0 ELSE largest
     IN /\ newMax' = [newMax EXCEPT ![i] = shift]
        /\ weight' = [weight EXCEPT ![i] = Minus(score[i], shift)]
  /\ touched' = touched \cup Touches(i, "s", RowOf(i), FALSE)
  /\ Arrive(i, "weight")
  /\ UNCHANGED <<params, kStart, oldMax, score, acc, shared, oBuf>>

StoreWeight(i) ==
  /\ Runs(i, "weight")
  /\ sTile' = [sTile EXCEPT ![At(i[1], i[2])] = weight[i]]
  /\ touched' = touched \cup Touches(i, "s", {At(i[1], i[2])}, TRUE)
  /\ Arrive(i, "mix")
  /\ UNCHANGED <<params, registers, qTile, kTile, vTile, rowMaxState, rowSumState, oBuf>>

Rescale(i) == Minus(oldMax[i], newMax[i])

(* The key whose value a lane of the V tile holds in a column.             *)
Held(j, col) ==
  LET element == vTile[j * HeadDim + col] IN
  IF element[2] = col THEN element[1] ELSE NaN

VElements(i) == {j * HeadDim + col : j \in Lanes, col \in DOMAIN acc[i]}

Weighed(i, col) == [j \in 1..K.BLOCK_K |-> <<Held(j - 1, col), sTile[At(i[1], j - 1)]>>]

MixedColumn(i, col) == Rescaled(acc[i][col], Rescale(i)) \o Weighed(i, col)

(* The sum has no column: its terms are the weights of the tile's keys.    *)
MixedSum(i) ==
  Rescaled(rowSumState[i[1]], Rescale(i)) \o
    [j \in 1..K.BLOCK_K |-> <<IF kStart[i] + j - 1 < SeqK THEN kStart[i] + j - 1 ELSE Pad,
                              sTile[At(i[1], j - 1)]>>]

Accumulate(i) ==
  /\ Runs(i, "mix")
  /\ acc' = [acc EXCEPT ![i] = [col \in DOMAIN acc[i] |-> MixedColumn(i, col)]]
  /\ LET reads == Touches(i, "s", RowOf(i), FALSE)
                  \cup Touches(i, "kv", VElements(i), FALSE)
     IN IF i[2] = 0
          THEN /\ rowSumState' = [rowSumState EXCEPT ![i[1]] = MixedSum(i)]
               /\ rowMaxState' = [rowMaxState EXCEPT ![i[1]] = newMax[i]]
               /\ touched' = touched \cup reads \cup Touches(i, "row", {i[1]}, TRUE)
          ELSE touched' = touched \cup reads /\ UNCHANGED <<rowSumState, rowMaxState>>
  /\ kStart' = [kStart EXCEPT ![i] = @ + K.BLOCK_K]
  /\ Arrive(i, LoopHead(i, kStart[i] + K.BLOCK_K))
  /\ UNCHANGED <<params, oldMax, score, newMax, weight, qTile, kTile, vTile, sTile, oBuf>>

Written(i, col) == Divided(acc[i][col], rowSumState[i[1]])

WriteOutput(i) ==
  /\ Runs(i, "write")
  /\ IF qStart + i[1] < SeqQ
       THEN /\ oBuf' = [oBuf EXCEPT ![i[1]] =
                          [col \in Columns |-> IF col \in DOMAIN acc[i] THEN Written(i, col)
                                                                        ELSE @[col]]]
            /\ touched' = touched \cup Touches(i, "row", {i[1]}, FALSE)
       ELSE UNCHANGED <<oBuf, touched>>
  /\ pc' = [pc EXCEPT ![i] = "done"]
  /\ UNCHANGED <<params, arrived, registers, shared>>

(* barrier(): nobody leaves before everybody has come.                     *)
Barrier ==
  /\ \A i \in Invocations : arrived[i]
  /\ arrived' = [i \in Invocations |-> FALSE]
  /\ touched' = {}
  /\ UNCHANGED <<params, pc, registers, shared, oBuf>>

Finished == \A i \in Invocations : pc[i] = "done"

Next ==
  \/ \E i \in Invocations :
       \/ LoadQuery(i) \/ LoadTile(i) \/ ScoreKey(i) \/ ShiftMax(i)
       \/ StoreWeight(i) \/ Accumulate(i) \/ WriteOutput(i)
  \/ Barrier
  \/ Finished /\ UNCHANGED vars

Spec == Init /\ [][Next]_vars

-----------------------------------------------------------------------------
(* The tile of blocked.py this workgroup transcribes.  Its step is taken   *)
(* when the barrier in front of "mix" opens: from there every invocation's *)
(* part of the tile is settled, whether it has done it or not.             *)
Settling(i) == Runs(i, "mix")
Leader(row) == <<row, 0>>
Owner(row, col) == <<row, CHOOSE lane \in Lanes : col \in OwnedColumns(K, lane)>>
Writing == \E i \in Invocations : Runs(i, "write") \/ pc[i] = "done"

KeysDone == kStart[Leader(0)] + (IF Settling(Leader(0)) THEN BlockK ELSE 0)

RowMax(row) ==
  IF pc[Leader(row)] = "load" THEN NegInf
  ELSE IF Settling(Leader(row)) THEN newMax[Leader(row)] ELSE rowMaxState[row]

RowSum(row) == IF Settling(Leader(row)) THEN MixedSum(Leader(row)) ELSE rowSumState[row]

RowColumn(row, col) ==
  LET i == Owner(row, col) IN IF Settling(i) THEN MixedColumn(i, col) ELSE acc[i][col]

RowOutput(row, col) ==
  LET i == Owner(row, col) IN IF pc[i] = "done" THEN oBuf[row][col] ELSE Written(i, col)

B == INSTANCE Blocked WITH
  q_start <- qStart,
  k_start <- KeysDone,
  running_max <- [row \in Rows |-> RowMax(row)],
  running_sum <- [row \in Rows |-> RowSum(row)],
  acc <- [row \in Rows |-> [col \in Columns |-> RowColumn(row, col)]],
  out <- IF Writing THEN [row \in RowsKept |-> [col \in Columns |-> RowOutput(row, col)]]
                    ELSE <<>>

ImplementsBlocked == B!Spec

(* Between two barriers no invocation reads or writes an element of shared *)
(* memory that another one writes.                                         *)
RaceFree ==
  \A a, b \in touched : a[1] # b[1] /\ a[2] = b[2] /\ a[3] = b[3] => ~(a[4] \/ b[4])

(* A barrier is the same barrier, of the same pass, for every invocation   *)
(* that waits at it, and none of them has left the shader.                 *)
UniformBarriers ==
  \A i, j \in Invocations :
    arrived[i] => pc[j] # "done" /\ (arrived[j] => pc[i] = pc[j] /\ kStart[i] = kStart[j])
=============================================================================
