SPECIFICATION Spec
CONSTANTS
  Folders = {f, g}
  Names = {a, b, t}
  NoName = NoName
  Viewable = {a, b}
  MaxReads = 2
  BufferSize = 2
  MaxChanges = 2
  MaxOpens = 2
CHECK_DEADLOCK FALSE
SYMMETRY Symmetry
VIEW View
INVARIANTS NotificationForEachEvent  ListMatchesFolder
