SPECIFICATION RegistrySpec
CONSTANTS
  Sessions = {s1, s2}
  Topics = {"all_", "price_", "bid_", "ticker_"}
  AllTopic = "all_"
  AllTopics = {"price_", "bid_"}
SYMMETRY Symmetry
INVARIANTS
  RegistryTypeOK
  SubscribersRegistered
  ListsAgree
PROPERTY ReuseStartsClean
