\* Two ord ids: a range stays open while two others start.
CONSTANTS
  OrdMod = 2
  ClockMod = 8
  Ticks = 5
  Nanos = 3
  Offset = 1
  MaxEvents = 4
  MaxClock = 2
SPECIFICATION Spec
INVARIANT RangesMatchGuards
