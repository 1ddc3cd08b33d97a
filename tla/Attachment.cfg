\* Two leaders and a worker boot alone; then any one fault.
CONSTANTS
  Node = {1, 2, 3}
  Leaders = {1, 2}
  Measures <- LowestBest
  NoScore = 9
  Margin = 1
  MaxRejections = 1
  MaxFaults = 1
  None = None
SPECIFICATION LiveSpec
INVARIANTS RolesSound
PROPERTIES LastAnswerOnly Homed
