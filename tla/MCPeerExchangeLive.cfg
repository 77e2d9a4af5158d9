CONSTANTS
  h1 = h1
  h2 = h2
  Ticks <- MCTwoTicks
  Peers <- MCTwoPeers
  Hashes <- MCHashes
  TypeNames = {}
  Recorders = {0}
  Retention = 0
  MaxEntries = 0
  MaxLost = 1
SPECIFICATION FairSpec
PROPERTY DesyncSurfaces
CHECK_DEADLOCK FALSE
