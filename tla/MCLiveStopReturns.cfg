SPECIFICATION Spec
CONSTANTS
  c1 = c1
  c2 = c2
  Clients = {c1, c2}
  Main = {c1}
  Api = {"start", "stop"}
  Count = 1
  HasTimeout = FALSE
  Droppers = {}
  MaxFrames = 1
  MaxCalls = 2
PROPERTY StopReturns
\* Clients make a bounded number of calls, and a capture may have ended.
CHECK_DEADLOCK FALSE
