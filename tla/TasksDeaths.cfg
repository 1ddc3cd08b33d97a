SPECIFICATION TickingSpec
CONSTANTS
  Node = {1, 2, 3}
  Task = {t1}
  Large = {}
  First = 1
  LedgerSize = 2
  MaxInflight = 1
  Eligible = {1, 2}
  MaxElections = 0
  MaxCrashes = 1
  MaxFaults = 1
  None = None
PROPERTY DeadWorkersTasksMove
CHECK_DEADLOCK FALSE
