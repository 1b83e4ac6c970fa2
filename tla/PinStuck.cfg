CONSTANTS
  Threads = {t1, t2}
  MaxCores = 2
SPECIFICATION Spec
CHECK_DEADLOCK FALSE
INVARIANT RestoredAfterwards
