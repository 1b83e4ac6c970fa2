CONSTANTS
  Threads = {t1}
  Data <- MCData
  Faults = {"open", "allocate", "compile", "submit", "timeout", "lost"}
  MaxOpens = 3
  MaxCalls = 5
  Limits <- MCLimits
  Floor = "floor"
  Reports <- MCReports
  Overrides <- MCMayGive
  Keys <- MCKeys
  Sizes = {1, 2}
  Covered <- MCCovered
  QBytes <- MCQBytes
  KBytes <- MCKBytes
  TileKey <- MCTileKey
  Nil = Nil
  Garbage = Garbage
  Absent = Absent
SPECIFICATION FairSpec
CHECK_DEADLOCK FALSE
INVARIANTS AnswersAreRight BuffersOutliveWork SizedForTheDevice
PROPERTY ImplementsService
