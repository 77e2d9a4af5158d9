CONSTANTS
  h1 = h1
  h2 = h2
  None = None
  Unasked = Unasked
  Ticks <- MCTicks
  Peers <- MCPeers
  Hashes <- MCHashes
  TypeNames <- MCTypeNames
  Retentions <- MCRetentions
  LocalPeer = 0
  MaxReports = 3
  MaxFrames = 4
SPECIFICATION Spec
SYMMETRY Symmetry
INVARIANTS
  TypeOK
  HandedOutOnce
  SentIsCompared
  OfflineIsSound
  OfflineMatchesLive
  RetainsNewest
  SchemaWrittenOnce
PROPERTY ImplementsDetector
CHECK_DEADLOCK FALSE
