\* Chunks of 8 bytes; frames of 2 to 6; pages of up to 17.
CONSTANTS
  Width = 8
  Ids = {130}
  OrdIds = {9}
  Difs <- NoneAndLong
  FlushAt = 12
  BufSize = 8
  NoId = NoId
SPECIFICATION Spec
INVARIANTS
  TypeOK
  DecodesWhatWasRecorded
  LittleIsLeft
PROPERTY PagesDecodeWhole
