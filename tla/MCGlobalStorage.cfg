\* Capacity 12, cleanup from 8 down to 6; the largest page is 4 = 12 - 8.
CONSTANTS
  Capacity = 12
  CleanupAt = 8
  CleanupTo = 6
  FlushAt = 3
  HdrLen = 1
  BufLens = {1, 2, 3}
  MaxPushes = 7
SPECIFICATION Spec
INVARIANTS
  TypeOK
  PagesStoredWhole
  CleanupKeepsUp
  EveryPageAccounted
  NewestPagesSurvive
PROPERTY CleanupDropsNoMoreThanNeeded
