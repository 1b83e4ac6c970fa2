CONSTANTS
  Keys = {k1, k2}
  Sizes = {1}
  Data = {d1, d2}
  Nil = Nil
  Garbage = Garbage
  Absent = Absent
  Faults = {"timeout", "lost"}
  MaxOpens = 1
SPECIFICATION CtxFairSpec
CHECK_DEADLOCK FALSE
INVARIANTS PipelinesOutliveWork OneSubmissionPerPipeline NothingOutlivesItsDevice
PROPERTIES PendingIsFinal CloseReturns
