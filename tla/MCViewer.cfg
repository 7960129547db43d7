SPECIFICATION Spec
CONSTANTS
    Keys <- McKeys
    Colours <- McColours
    DefaultColour = "black"
    DefaultBindings <- McDefaultBindings
    DefaultPos <- McDefaultPos
    DefaultSize <- McDefaultSize
    Limits <- McLimits
    Blank = 99
    Hls <- McHls
    HlsRgb <- McHlsRgb
    RgbHls <- McRgbHls
    Images <- McImages
    NoImage = "none"
    SizeOf <- McSizeOf
    ZoomLevels <- McZoomLevels
    DefaultZoomLevel = 2
    MinWindow <- McMinWindow
    Border <- McBorder
    BarHeight = 1
    DefaultRect <- McDefaultRect
    Starts <- McStarts
    Levels = {0, 1}
    EditPresses <- McEditPresses
    EditActions <- McEditActions
INVARIANTS
    CopiesAgree
    StaysOnDisplay
    MouseIsReleased
PROPERTIES
    NextStartRestores
    UneditedStays
    SamePlaceForSameImage
CHECK_DEADLOCK FALSE
