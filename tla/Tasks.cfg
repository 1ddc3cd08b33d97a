SPECIFICATION Spec
CONSTANTS
  Node = {1, 2, 3}
  Task = {t1}
  Large = {}
  First = 1
  LedgerSize = 2
  MaxInflight = 1
  Eligible = {1, 2}
  MaxElections = 1
  MaxCrashes = 1
  MaxFaults = 1
  None = None
INVARIANT LedgersSound
PROPERTIES FirstKept RecordedReported ReplicaCatchesUp
\* What the operator submits is bounded, and nothing need fail.
CHECK_DEADLOCK FALSE
