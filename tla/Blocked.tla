------------------------------- MODULE Blocked -------------------------------
(***************************************************************************)
(* The blocked attention algorithm (blocked.py): one query tile of one     *)
(* slice streams the keys a tile at a time, keeping a running maximum, a   *)
(* running sum and an accumulator for each of its rows.  Query tiles share *)
(* nothing, so any one of them stands for all.                             *)
(***************************************************************************)
EXTENDS OnlineSoftmax

CONSTANTS
  BlockQ, BlockK,  \* the tile plan
  HeadDim,
  SeqQ, SeqK,      \* the sequence lengths
  ScoreRows        \* the rows q.k * scale may have, over all keys

ASSUME BlockedAssumption ==
  {BlockQ, BlockK, HeadDim, SeqQ, SeqK} \subseteq Nat \ {0}

Rows == 0..(BlockQ - 1)
Lanes == 0..(BlockK - 1)
Columns == 0..(HeadDim - 1)
Keys == 0..(SeqK - 1)

ASSUME ScoreAssumption == ScoreRows \subseteq [Keys -> Int \cup {NegInf}]

VARIABLES
  scores,       \* q.k * scale, for the rows of this tile; overflowed ones are -inf
  causal,
  q_start,      \* the first query row of the tile
  k_start,      \* the first key of the next tile
  running_max, running_sum, acc,
  out           \* the rows of the result, or <<>> before they are divided

vars == <<scores, causal, q_start, k_start, running_max, running_sum, acc, out>>

QValid(row) == q_start + row < SeqQ

(* What _load_tile and the causal comparison leave unmasked.               *)
Allowed(row, key) ==
  QValid(row) /\ key < SeqK /\ (causal => key <= q_start + row)

Score(row, lane) ==
  IF Allowed(row, k_start + lane) THEN scores[row][k_start + lane] ELSE NegInf

(* The row of the value tile at a lane.                                    *)
ValueRow(lane) == IF k_start + lane < SeqK THEN k_start + lane ELSE Pad

(* Mutant: drops the guard for a row with nothing allowed yet.             *)
UnguardedMax(row) ==
  Largest({running_max[row]} \cup {Score(row, lane) : lane \in Lanes})

NewMax(row) ==
  LET new_max == Largest({running_max[row]} \cup {Score(row, lane) : lane \in Lanes})
  IN IF new_max = NegInf THEN 0 ELSE new_max

Weights(row) ==
  [j \in 1..BlockK |-> <<ValueRow(j - 1), Minus(Score(row, j - 1), NewMax(row))>>]

Rescale(row) == Minus(running_max[row], NewMax(row))

Init ==
  /\ scores \in [Rows -> ScoreRows]
  /\ causal \in BOOLEAN
  /\ q_start \in {q \in 0..(SeqQ - 1) : q % BlockQ = 0}
  /\ k_start = 0
  /\ running_max = [row \in Rows |-> NegInf]
  /\ running_sum = [row \in Rows |-> <<>>]
  /\ acc = [row \in Rows |-> [col \in Columns |-> <<>>]]
  /\ out = <<>>

(* Mutant: compares the tile with the first query row instead of the last. *)
SkipsTooSoon == causal /\ k_start > q_start

(* Every key from here on sits after every query row of the tile.          *)
BeyondDiagonal == causal /\ k_start > q_start + BlockQ - 1

AttendTile ==
  /\ out = <<>> /\ k_start < SeqK /\ ~BeyondDiagonal
  /\ running_sum' =
       [row \in Rows |-> Rescaled(running_sum[row], Rescale(row)) \o Weights(row)]
  /\ acc' =
       [row \in Rows |-> [col \in Columns |->
          Rescaled(acc[row][col], Rescale(row)) \o Weights(row)]]
  /\ running_max' = [row \in Rows |-> NewMax(row)]
  /\ k_start' = k_start + BlockK
  /\ UNCHANGED <<scores, causal, q_start, out>>

(* The padded rows of the tile are cut off here.                           *)
Divide ==
  /\ out = <<>> /\ (k_start >= SeqK \/ BeyondDiagonal)
  /\ out' = [row \in {row \in Rows : QValid(row)} |->
               [col \in Columns |-> Divided(acc[row][col], running_sum[row])]]
  /\ UNCHANGED <<scores, causal, q_start, k_start, running_max, running_sum, acc>>

Done == out # <<>> /\ UNCHANGED vars

Next == AttendTile \/ Divide \/ Done

Spec == Init /\ [][Next]_vars

-----------------------------------------------------------------------------
(* The keys the oracle lets a query attend to (reference.py).              *)
Unmasked(row) == {key \in Keys : causal => key <= q_start + row}

(* Streaming the keys gives what the oracle computes from the whole row:   *)
(* every unmasked key counts once, under one shift, in each column and in  *)
(* the sum; padding and skipped tiles count nothing; and a row with        *)
(* nothing to attend to is exactly zero.                                   *)
MatchesReference ==
  out # <<>> =>
    \A row \in Rows : QValid(row) =>
      \A col \in Columns : IsSoftmax(out[row][col], scores[row], Unmasked(row))

(* The algorithm keeps a shift of zero for a row whose first tile has      *)
(* overflowed, where the oracle shifts by the row's maximum; a row is      *)
(* moderate if that makes no difference, since none of its weights         *)
(* underflows under a shift of zero.                                       *)
Moderate(row) ==
  (\A key \in Keys : key < BlockK => row[key] = NegInf)
    => \A key \in Keys : row[key] # NegInf => row[key] >= -Underflow

(* Between tiles, the state of a row is the softmax of the keys read so    *)
(* far: stopping after any tile would lose keys, never misweigh one.       *)
PrefixIsExact ==
  \A row \in Rows : QValid(row) =>
    \A col \in Columns :
      IsSoftmax(Divided(acc[row][col], running_sum[row]), scores[row],
                {key \in Unmasked(row) : key < k_start})
=============================================================================
