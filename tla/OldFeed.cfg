SPECIFICATION FairSpec
CHECK_DEADLOCK FALSE
CONSTANTS
  w1 = w1
  w2 = w2
  Switches = {w1}
  Starter = w0
  Main = main
  None = None
  Exchanges = {"BINANCE", "JUPITER"}
  Websockets = {"BINANCE"}
  StartExchange = "BINANCE"
  Touching = {}
  ShutsDown = FALSE
  Requested <- MCOneRequest
PROPERTY ReplacedFeedEnds
