SPECIFICATION FairTimers
CONSTANTS
  Machines = {"m", "n"}
  Timers <- MCOnce
  Timeout <- MCOnceTimeout
  Prio <- MCOncePrio
  Reload = {}
  MaxLag = 2
  MaxEvents = 0
  MaxVisits = 1
PROPERTY TimeoutRuns
\* A machine leaves the state for good after its last visit.
CHECK_DEADLOCK FALSE
