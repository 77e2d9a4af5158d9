SPECIFICATION FairSpec
CONSTANTS
  Ticks = {1, 2}
  Peers = {1, 2}
  Hashes = {"a", "b"}
  Streams <- MCStreams
  Recordings <- MCRecordings
  MaxConns = 2
  Urls <- MCUrls
  MaxClicks = 3
  MaxEvents = 2
INVARIANTS
  TypeOK
  StrayOnlyOnOverlap
  TimelineAgreesWithBisect
  DisconnectReachesAll
PROPERTIES
  EndsOnItsOwn
  DisconnectTakesEffect
CHECK_DEADLOCK FALSE
