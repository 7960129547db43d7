SPECIFICATION Spec
CONSTANTS
  MaximumTileEdgeLength = 2
  Surfaces = {s1, s2}
  Zooms = {"in"}
  ZoomedSize <- LongZooms
  Clients <- LongClients
  Changes <- LongChanges
  NoSurface = none
  MaxWrites = 0
  MaxImages = 1
  MaxPaints = 4
SYMMETRY Symmetry
INVARIANTS InvalidatedIsRedrawn
CHECK_DEADLOCK FALSE
