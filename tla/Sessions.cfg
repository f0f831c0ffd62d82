SPECIFICATION Spec
\* A second adapter's registration can stop the server: AdapterReconnect.cfg.
CHECK_DEADLOCK FALSE
CONSTANTS
  Sessions = {a, b}
  Adapters = {a, b}
  NoSession = NoSession
  Topics = {"all_", "ticker_", "price_", "bid_", "dashboard"}
  AllTopic = "all_"
  AllTopics = {"price_", "bid_"}
  Keywords = {"ticker_", "price_", "bid_", "dashboard"}
  AllWord = "all"
  Frames <- MCFrames
  RelayTopics <- MCRelayTopics
  MonitorTopics <- MCMonitorTopics
  FeedTopics = {"ticker_"}
  MaxInputs = 3
INVARIANTS
  SessionsTypeOK
  NoDanglingPointer
  OneWriteAtATime
  RelayIsTheAdapters
  InOrder
PROPERTIES
  OutboxSpec
  RegistrySpec
