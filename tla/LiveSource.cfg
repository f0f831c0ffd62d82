SPECIFICATION Spec
\* After stop() and the last request nothing is left to do.
CHECK_DEADLOCK FALSE
CONSTANTS
  w1 = w1
  w2 = w2
  Switches = {w1, w2}
  Starter = w0
  Main = main
  None = None
  Exchanges = {"BINANCE", "JUPITER"}
  Websockets = {"BINANCE"}
  StartExchange = "BINANCE"
  Touching = {w0, w1}
  ShutsDown = TRUE
  Requested <- MCRequested
INVARIANTS
  LiveTypeOK
  RowIsCurrent
  CurrentIsShown
  PublishedNotStopped
  AdapterOutlivesItsThreads
PROPERTY FeedsUsedInOrder
