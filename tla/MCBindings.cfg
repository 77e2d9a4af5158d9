SPECIFICATION Spec
CONSTANTS
  Ticks = {1}
  Peers <- MCPeers
  Hashes = {"a", "b"}
  TypeNames = {"T"}
  Slots = {1}
  Owners = {1, 2}
  LocalPeer = 0
  DefaultRetention = 2
  PeerIdRange = 2
  GamePeers = {1, 2}
  NoSession = NoSession
  MaxCalls = 3
INVARIANTS
  TypeOK
  NothingLost
  FileIsOwn
  CutIdsHideNothing
CHECK_DEADLOCK FALSE
