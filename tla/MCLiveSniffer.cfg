SPECIFICATION Spec
CONSTANTS
  c1 = c1
  c2 = c2
  Clients = {c1, c2}
  Main = {c1}
  Api = {"start", "join", "timed", "stop", "signal", "results"}
  Count = 1
  HasTimeout = TRUE
  Droppers = {c1, "capture"}
  MaxFrames = 2
  MaxCalls = 3
INVARIANTS TypeOK OneCapture JoinedMeansExited NothingCapturedLost
PROPERTIES StopStops JoinEnds
\* Clients make a bounded number of calls, and a capture may have ended.
CHECK_DEADLOCK FALSE
