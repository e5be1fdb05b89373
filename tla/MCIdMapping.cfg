\* Four slots for nine possible tags; the build may check for overflow or not.
CONSTANTS
  load = load
  store = store
  wrap = wrap
  Name = {load, store, wrap}
  HashOf <- Hashes
  MapSize = 4
  U32 = 16
  Multiplier = 177
  NoKey = NoKey
SPECIFICATION Spec
INVARIANTS
  TypeOK
  KeysAreFound
  IdsIndexTags
  EventsKeepTheirNames
  PanicsOnlyWhenFull
