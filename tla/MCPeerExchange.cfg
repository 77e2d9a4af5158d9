CONSTANTS
  h1 = h1
  h2 = h2
  Ticks <- MCOneTick
  Peers <- MCThreePeers
  Hashes <- MCHashes
  TypeNames = {}
  Recorders = {0}
  Retention = 0
  MaxEntries = 1
  MaxLost = 1
SPECIFICATION Spec
SYMMETRY Symmetry
INVARIANTS
  TypeOK
  NoFalseAlarm
  AlarmShowsInFold
  SilenceShowsInFold
CHECK_DEADLOCK FALSE
