SPECIFICATION Spec
CONSTANTS
  Threads = {t1, t2}
  Addresses = {a1, a2}
  Codecs = {"TGA", "PCX", "BMP"}
  Loads = {"finished", "throws"}
  Lengths = {1, 4}
  ThumbnailSizes = {0, 2}
  MaxReferences = 2
INVARIANT UnloadedUnreferenced
