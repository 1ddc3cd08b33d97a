SPECIFICATION MCSpec
CONSTANTS
  Browsers = {b1}
  Nodes = {n1, n2}
  OpsDepth = 1
  Room = 1
  Slots = 1
  Snapshot = Snapshot
  Dials = {d1}
  Inbound = {s1, s2}
  MaxPending = 1
  EventRoom = 1
  NoOne = NoOne
  MaxLine = 2
  MaxLines = 2
  MaxDrops = 1
  MaxResets = 1
  MaxLosses = 1
  Writers = {w1, w2}
  Bodies = {"good", "newer", "junk", "alien"}
  MaxSize = 2
  MaxFrames = 2
INVARIANTS ClientsSound NothingOutlives SamplesSound FramesSound
PROPERTIES AllStop
CHECK_DEADLOCK FALSE
