SPECIFICATION FairSpec
CONSTANTS
  SubPixel = 12
  ZoomLevels <- Levels
  DefaultZoomLevel = 2
  Pixels = {1, 2}
  Images <- MCImages
  NoImage = none
  Files <- MCFiles
  Starts <- MCStarts
  Areas <- Windows
  PanSteps <- Distances
INVARIANTS NoCalculationError OrientedViewShown TurnsCompose StaleScreenIsRepainted
PROPERTIES  ZoomStepsOneWay AnimationProceeds
CHECK_DEADLOCK FALSE
