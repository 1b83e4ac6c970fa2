SPECIFICATION Spec
CONSTANTS
  BlockQ = 4
  BlockK = 2
  HeadDim = 1
  SeqQ = 6
  SeqK = 5
  ScoreRows <- MCScoreRows
  NegInf = NegInf
  NaN = NaN
  Pad = Pad
  Underflow = 9
INVARIANTS
  MatchesReference
  PrefixIsExact
