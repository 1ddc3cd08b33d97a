\* Every set of three coherent rumours, every view of four members, one probed peer, three
\* rounds over two peers, after which the scoring stops.
SPECIFICATION MCSpec
CONSTANTS
  MaxInc = 2
  Score = {NoScore, s1}
  NoScore = NoScore
  NoRecord = NoRecord
  MaxSeq = 2
  MaxRumours = 3
  FirstHeld = "known"
  Hysteresis = 2
  SharePart = 1
  ShareOf = 2
  Members = 4
  Scores = {0, 1, 3}
  SwarmMembers = 3
  SwarmScores = {2, NoScore}
  Booted = {0}
  MaxLag = 1
  MaxMoves = 1
  MaxFaults = 1
  MaxTroubles = 1
  Peer = {p}
  SuspectAfter = 2
  DeadAfter = 3
  Lives = 3
  Peers = {p, q}
  Answers = {1, 3}
  Timeout = 3
  Margin = 1
  Unit = 32
  MaxRounds = 3
  MaxDeaths = 1
INVARIANTS OrderFree SeatRules WorseNeverBetter
PROPERTIES Agrees MovesForward OnEvidence CrashNoticed
CHECK_DEADLOCK FALSE
