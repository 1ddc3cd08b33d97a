\* Two observers collect the tombstone of a running member at different times.
CONSTANTS
  Node = {s, a, b}
  Subject = {s}
  MaxInc = 4
  Score = {NoScore}
  NoScore = NoScore
  NoRecord = NoRecord
  MaxSeq = 1
  MaxFaults = 1
  MaxNet = 1
  ClockOutruns = TRUE
SPECIFICATION LiveSpec
PROPERTY NoHandBack
