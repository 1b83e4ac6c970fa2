CONSTANTS
  Threads = {t1}
  Data <- MCTwo
  Faults = {"timeout"}
  MaxOpens = 3
  MaxCalls = 3
  Limits <- MCLimits
  Floor = "floor"
  Reports <- MCReports
  Overrides <- MCGivesNone
  Keys <- MCKeys
  Sizes = {1, 2}
  Covered <- MCCovered
  QBytes <- MCQBytes
  KBytes <- MCKBytes
  TileKey <- MCTileKey
  Nil = Nil
  Garbage = Garbage
  Absent = Absent
SPECIFICATION WedgedSpec
CHECK_DEADLOCK FALSE
PROPERTY CallsReturn
