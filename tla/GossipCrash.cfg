\* A member that crashes, and two observers that relay stale rumours about it.
CONSTANTS
  Node = {s, a, b}
  Subject = {s}
  MaxInc = 3
  Score = {NoScore}
  NoScore = NoScore
  NoRecord = NoRecord
  MaxSeq = 1
  MaxFaults = 1
  MaxNet = 1
  ClockOutruns = TRUE
SPECIFICATION LiveSpec
PROPERTY CrashBuried
