SPECIFICATION Spec
CHECK_DEADLOCK FALSE
CONSTANTS
  w1 = w1
  w2 = w2
  Switches = {w1, w2}
  Starter = w0
  Main = main
  None = None
  Exchanges = {"BINANCE", "JUPITER", "BIRDEYE"}
  Websockets = {"BINANCE"}
  StartExchange = "JUPITER"
  Touching = {}
  ShutsDown = FALSE
  Requested <- MCPolledRequested
INVARIANT HandlerGetsThrough
