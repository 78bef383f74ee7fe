SPECIFICATION FairSpec
CONSTANTS
  Clients = {"c1", "c2"}
  Main = {"c1"}
  States <- MCStates
  Initial = "spin"
  Final = {"done"}
  Error = {"bad"}
  StopState = "bye"
  Jumps <- MCJumps
  Immediate <- MCImmediate
  Waits = {"wait"}
  Events <- MCEvents
  Timed = {"wait"}
  Timeouts <- MCTimeouts
  Sends = {"bye"}
  Breakpoints = {"wait"}
  Interceptions = {"bye"}
  Api <- MCApi
  MaxCalls <- MCMaxCalls
INVARIANT EveryByteHasItsObject
PROPERTIES ForceStopEnds ForceStopReturns StartReturns
\* Clients make a bounded number of calls, and may wait on each other.
CHECK_DEADLOCK FALSE
