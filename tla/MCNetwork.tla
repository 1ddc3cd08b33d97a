------------------------------ MODULE MCNetwork ------------------------------
(***************************************************************************)
(* pkg/network for TLC, one question at a time: which connection two pools *)
(* keep and what their consumers are told (PoolRegistry), and what becomes *)
(* of the frames of one connection and of its goroutines (Connection).     *)
(* They share nothing; the part that a run is not about stands still.      *)
(***************************************************************************)
EXTENDS PoolRegistry

CONSTANTS Ctrl, Data, Leave, Depth, MaxBreaks, MaxLoad      \* Connection

VARIABLES
  which,                                           \* the part of this run
  current, ctrl, data, done, writer, hand, call, mover, moving, stage, owed, refused,
  overtook, breaks

connection == <<current, ctrl, data, done, writer, hand, call, mover, moving, stage, owed,
                refused, overtook, breaks>>

C == INSTANCE Connection WITH MaxFaults <- MaxBreaks, faults <- breaks

ASSUME NetworkAssumption == C!ConnectionAssumption

MCInit ==
  /\ which \in {"pools", "connection"}
  /\ IF which = "pools" THEN Init ELSE Still
  /\ C!Init

MCNext ==
  \/ which = "pools" /\ Next /\ UNCHANGED <<which, connection>>
  \/ which = "connection" /\ C!Next /\ UNCHANGED <<which, vars>>

MCSpec == MCInit /\ [][MCNext]_<<which, vars, connection>> /\ Fairness

-----------------------------------------------------------------------------
(* What each of them promises; what stands still promises it idly.         *)

\* The two ends settle on one socket, and a parked PeerDown is resolved (PoolRegistry;
\* registry.go prefer, pool.go).
PoolsSettle == <>[](which = "pools" => Joined) /\ ParkedResolves

\* A control frame waits for one data frame at most, and none that was accepted is
\* lost when its connection is replaced (Connection; conn.go writeLoop, drainUnsent).
FramesKept == C!TypeOK /\ C!NeverStuckBehindData /\ C!SwapKeepsFrames

\* Every Send returns, and a pool that closes leaves no goroutine of a connection
\* behind (Connection; conn.go).
ClosingEnds == C!ClosingEnds
=============================================================================
