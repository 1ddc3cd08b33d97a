\* One station and a lossy link; a cluster of three and one mission after another; one
\* vehicle on a line of four places; two stations, two nodes and two system ids.
SPECIFICATION MCSpec
CONSTANTS
  None = None
  Stations = {g1}
  Plans <- Uploaded
  Bad = Bad
  MaxItems = 2
  MaxLosses = 2
  MaxUploads = 3
  a1 = a1
  a2 = a2
  b1 = b1
  b2 = b2
  lone = lone
  Nodes = {1, 2, 3}
  Owners = {1, 2}
  Places = {near, far}
  near = near
  far = far
  Skip = Skip
  Elsewhere = Elsewhere
  Leaders = {{1}}
  MaxEvents = 2
  MaxInstalls = 2
  Edge = 3
  Stride = 2
  Pace = 1
  Radius = 1
  Idles = {"drift", "patrol"}
  MaxMoves = 1
  MaxFlips = 4
  MaxOrders = 1
  Station = {home, field}
  Configured = home
  Names = {lite, twin}
  Numbered = {lite, twin}
  Live = lite
  MaxSysID = 2
  MaxFails = 2
  SeqSize = 2
  MaxTurns = 1
INVARIANTS InstalledIsUploaded FleetSound
PROPERTIES LegsKept  Ends
\* Uploads, events and moves are bounded.
CHECK_DEADLOCK FALSE
