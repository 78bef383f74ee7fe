SPECIFICATION FairTimers
CONSTANTS
  Machines = {"m"}
  Timers <- MCTimers
  Timeout <- MCTimeout
  Prio <- MCPrio
  Reload <- MCReload
  MaxLag = 5
  MaxEvents = 3
  MaxVisits = 2
INVARIANTS NeverEarly TimeoutOnce
PROPERTIES TimeoutRuns
\* A machine leaves the state for good after its last visit.
CHECK_DEADLOCK FALSE
