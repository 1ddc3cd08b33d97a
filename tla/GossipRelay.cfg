\* One member in the tables of two observers that relay rumours about it.
CONSTANTS
  a = a
  b = b
  Node = {s, a, b}
  Subject = {s}
  MaxInc = 4
  Score = {NoScore}
  NoScore = NoScore
  NoRecord = NoRecord
  MaxSeq = 2
  MaxFaults = 2
  MaxNet = 1
  ClockOutruns = TRUE
SPECIFICATION Spec
INVARIANTS TypeOK NoForgedLife ClaimsHold OwnRecord
SYMMETRY Observers
