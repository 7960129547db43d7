SPECIFICATION Spec
CONSTANTS
  Plain = plain
  Photo = photo
  Torn = torn
  Unreliable = unreliable
  NoName = NoName
  NoImage = NoImage
  SizeMax = 15
  Codec <- CodecValue
  Cost <- CostValue
  Names = {plain, unreliable}
  Images = {i1, i2, i3}
  MaxFiles = 3
  Limits = {0, 4}
CHECK_DEADLOCK FALSE
SYMMETRY Symmetry
ACTION_CONSTRAINT ThirdIsPlain
INVARIANTS NoDanglingLoader  MemoryBudget
PROPERTY ShownStaysFinished
