SPECIFICATION FairShutdown
CONSTANTS
  Requests = {r1, r2, r3}
  MaxSignals = 2
  Free = Free
  Main = Main
PROPERTY StopReturns
CHECK_DEADLOCK FALSE
