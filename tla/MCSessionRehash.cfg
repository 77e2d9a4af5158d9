CONSTANTS
  h1 = h1
  h2 = h2
  None = None
  Unasked = Unasked
  Ticks <- MCTicks
  Peers <- MCPeers
  Hashes <- MCHashes
  TypeNames <- MCTypeNames
  Retentions <- MCRetentions
  LocalPeer = 0
  MaxReports = 3
  MaxFrames = 4
SPECIFICATION Spec
SYMMETRY Symmetry
INVARIANT FlagsOnlyPeerDisagreement
CHECK_DEADLOCK FALSE
