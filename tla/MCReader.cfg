SPECIFICATION Spec
CONSTANTS
  main = main
  worker = worker
  Thread = {main, worker}
  Tid = {2, 7}
  NoName = NoName
  NoTid = NoTid
  NoTrack = NoTrack
  MaxPages <- MCPages
  MaxRenames <- MCRenames
INVARIANTS
  TypeOK
  ReadsInStep
  TraceIsWhole
  TracksAreThreads
  TracksAreNamed
