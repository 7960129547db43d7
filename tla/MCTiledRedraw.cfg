SPECIFICATION Spec
CONSTANTS
  MaximumTileEdgeLength = 2
  Surfaces = {s1, s2}
  Zooms = {"in", "out", "panned"}
  ZoomedSize <- SmallZooms
  Clients <- SmallClients
  Changes <- SmallChanges
  NoSurface = none
  MaxWrites = 1
  MaxImages = 2
  MaxPaints = 5
SYMMETRY Symmetry
INVARIANTS TilesCoverView ScreenShowsImage
ACTION_CONSTRAINT PannedAlone
CHECK_DEADLOCK FALSE
