SPECIFICATION Spec
CONSTANTS
  Folders = {f, g}
  Names = {a}
  NoName = NoName
  Viewable = {a}
  MaxReads = 2
  BufferSize = 1
  MaxChanges = 3
  MaxOpens = 2
CHECK_DEADLOCK FALSE
INVARIANTS ListMatchesFolder
PROPERTIES CloseReturns CatchesUp
