SPECIFICATION Spec
CONSTANTS
  Sessions = {a, c1}
  Adapters = {a}
  NoSession = NoSession
  Topics = {"all_", "ticker_", "price_", "bid_", "dashboard"}
  AllTopic = "all_"
  AllTopics = {"price_", "bid_"}
  Keywords = {"ticker_", "price_", "bid_", "dashboard"}
  AllWord = "all"
  Frames <- MCFrames
  RelayTopics <- MCRelayTopics
  MonitorTopics <- MCMonitorTopics
  FeedTopics = {"ticker_"}
  MaxInputs = 2
INVARIANT StaysUp
