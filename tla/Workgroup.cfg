SPECIFICATION Spec
CONSTANTS
  BlockQ = 2
  BlockK = 2
  HeadDim = 3
  SeqQ = 3
  SeqK = 3
  ScoreRows <- MCScoreRows
  NegInf = NegInf
  NaN = NaN
  Pad = Pad
  Underflow = 9
INVARIANTS
  RaceFree
  UniformBarriers
PROPERTY
  ImplementsBlocked
