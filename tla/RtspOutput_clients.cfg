SPECIFICATION FairSpec
CONSTANTS
  NumSources = 2
  MaxOpen = 1
  CacheNumber = 2
  Pages = 2
  PageTokens = 2
  Codecs = {"h264", "jpeg"}
  MaxPackets = 6
  MayStop = TRUE
CHECK_DEADLOCK FALSE
INVARIANTS
  TokenForEach
  NoUseAfterDelete
  AllDeleted
PROPERTIES
  Decodable
  ShownInOrder
  Served
  ChannelAnswered
