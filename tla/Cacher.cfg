SPECIFICATION CacherSpec
CONSTANTS
  Names = {a, b}
  NoName = NoName
  Images = {i1, i2, i3, i4}
  NoImage = NoImage
  SizeMax = 15
  MaxFiles = 4
SYMMETRY CacherSymmetry
INVARIANTS IndexValid QueueServesList NeighboursRequested
PROPERTY SelectionFollowsRemoval
