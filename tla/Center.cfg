\* The control center: its tasks, or its settings.
CONSTANTS
  Node = {1, 2}
  MaxLinks = 2
  MaxFaults = 1
  MaxRestarts = 1
  MaxSubmits = 2
  MaxTasks = 1
  ResultBuffer = 1
  MaxReports = 1
  Placed = {3, 4}
  Requests <- Few
  MaxPositions = 2
  MaxUpdates = 1
SPECIFICATION MCSpec
INVARIANTS LinksTell SettingsSound
PROPERTIES KeepsRegister  SettingsReach
\* The operator's work is bounded, and nothing need fail.
CHECK_DEADLOCK FALSE
