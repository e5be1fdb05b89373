\* Two ranges that end under one name.
CONSTANTS
  load = load
  store = store
  wrap = wrap
  Name = {load, store, wrap}
  HashOf <- Hashes
  MapSize = 4
  U32 = 16
  Multiplier = 177
  NoKey = NoKey
SPECIFICATION Spec
INVARIANT RangesKeepTheirNames
