\* Two ord ids, so that the third range reuses the first one's.  Five ticks are
\* three nanoseconds: timestamps 2 and 3 fall into one, 1 and 3 are further apart.
CONSTANTS
  OrdMod = 2
  ClockMod = 8
  Ticks = 5
  Nanos = 3
  Offset = 1
  MaxEvents = 4
  MaxClock = 3
SPECIFICATION Spec
INVARIANTS
  TypeOK
  PointsKeepTheirTime
  RangesMatchIfApart
  TraceIsComplete
  LossIsReported
  ShownInOrder
