SPECIFICATION Spec
CONSTANTS
  Devices <- MCDevices
  HeadDims = {1, 3, 6, 64, 1024, 2048}
  DtypeSizes = {4, 8}
  SeqLens = {1, 3, 24, 70000}
  Stacks = {1, 65536}
  TileShapes <- MCTileShapes
  Nil = Nil
INVARIANTS
  SearchMissesNothing
  CappingCostsNoPass
  DispatchIsLegal
  EveryOutputOnce
