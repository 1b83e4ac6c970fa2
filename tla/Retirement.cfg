CONSTANTS
  Threads = {t1, t2}
  Data <- MCOne
  Faults = {"open", "allocate", "compile", "submit", "timeout", "lost", "interrupt"}
  MaxOpens = 4
  MaxCalls = 4
  Limits <- MCLimits
  Floor = "floor"
  Reports <- MCReports
  Overrides <- MCMayGive
  Keys <- MCKeys
  Sizes = {1, 2}
  Covered <- MCCovered
  QBytes <- MCQBytes
  KBytes <- MCKBytes
  TileKey <- MCTileKey
  Nil = Nil
  Garbage = Garbage
  Absent = Absent
SPECIFICATION FairSpec
CHECK_DEADLOCK FALSE
INVARIANTS TypeOK LockProtects WarnsOnce OwnsOneDevice HandlesOfOpenDevice NeverBeyondTheDevice
PROPERTIES RetiredForGood CallsReturn
