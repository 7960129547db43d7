SPECIFICATION Spec
CONSTANTS
  Plain = plain
  Photo = photo
  Torn = torn
  Unreliable = unreliable
  NoName = NoName
  NoImage = NoImage
  SizeMax = 15
  Codec <- CodecValue
  Cost <- CostValue
  Names = {torn}
  Images = {i1, i2}
  MaxFiles = 2
  Limits = {4}
CHECK_DEADLOCK FALSE
CONSTRAINT DoesNotWrap
PROPERTIES ShownEventuallyLoaded WorkerComesToRest EveryCallReturns ImplementsService
