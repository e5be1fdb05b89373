\* cleanup_threshold = 1.0, the upper end of its documented range.
CONSTANTS
  Capacity = 12
  CleanupAt = 12
  CleanupTo = 6
  FlushAt = 3
  HdrLen = 1
  BufLens = {1, 2, 3}
  MaxPushes = 7
SPECIFICATION Spec
INVARIANT PagesStoredWhole
