\* One peer each way, an attempt at a time, and two faults; two control and two data frames
\* on a connection that is replaced and may break once.
SPECIFICATION MCSpec
CONSTANTS
  Slot = {1}
  Dialers = {1, 2}
  AddrMatches = TRUE
  MaxFaults = 2
  None = None
  Ctrl = {beat, leave}
  Data = {d1, d2}
  Leave = leave
  Depth = 1
  MaxBreaks = 1
  MaxLoad = 2
INVARIANTS EventsTrue FramesKept ClosingEnds
PROPERTIES NoFlap PoolsSettle
CHECK_DEADLOCK FALSE
