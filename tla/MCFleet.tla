------------------------------- MODULE MCFleet -------------------------------
(***************************************************************************)
(* The MAVLink bridge for TLC, one question at a time: the upload of a     *)
(* mission (MissionUpload), its flight by a swarm (MissionFlight), where a *)
(* vehicle is (Motion), and what ground stations are told (GroundLink).    *)
(* An upload hands a plan to a flight; they share nothing else.  The parts *)
(* that a run is not about stand still.                                    *)
(***************************************************************************)
EXTENDS MissionUpload

CONSTANTS
  a1, a2, b1, b2, lone,                                      \* MissionUpload: items
  Nodes, Owners, Places, near, far, Skip, Elsewhere, Leaders,
  MaxEvents, MaxInstalls,                                   \* MissionFlight
  Edge, Stride, Pace, Radius, Idles, MaxMoves, MaxFlips, MaxOrders,           \* Motion
  Station, Configured, Names, Numbered, Live, MaxSysID, MaxFails, SeqSize,
  MaxTurns                                                  \* GroundLink

VARIABLES
  part,                                                     \* the part of this run
  vehicle, mission, events, installs,
  idle, node, craft, syncer, lapsed, leg, spent,
  path, turns, icmp, stations, sysid, vs, next, out, expects, gaps, feed, live

flight == <<vehicle, mission, events, installs>>
motion == <<idle, node, craft, syncer, lapsed, leg, spent>>
ground == <<path, turns, icmp, stations, sysid, vs, next, out, expects, gaps, feed, live>>

Uploaded == {<<a1, a2>>, <<b1, b2>>, <<lone, Bad>>, <<>>, <<lone, lone, lone>>}
Flown == {<<near, Skip, far>>}

F == INSTANCE MissionFlight WITH Plans <- Flown, MaxUploads <- MaxInstalls, uploads <- installs
M == INSTANCE Motion WITH vehicle <- craft
G == INSTANCE GroundLink

ASSUME FleetAssumption == F!FlightAssumption /\ M!MotionAssumption /\ G!GroundAssumption

\* Nothing flies a mission before one is installed, and the vehicle of Motion keeps still
\* until it is the part of the run.
MCInit ==
  /\ part \in {"upload", "flight", "motion", "ground"}
  /\ Init /\ F!Init /\ M!Init /\ G!Init
  /\ part # "motion" => idle = "drift"

MCNext ==
  \/ part = "upload" /\ Next /\ UNCHANGED <<part, flight, motion, ground>>
  \/ part = "flight" /\ F!Next /\ UNCHANGED <<part, vars, motion, ground>>
  \/ part = "motion" /\ M!Next /\ UNCHANGED <<part, vars, flight, ground>>
  \/ part = "ground" /\ G!Next /\ UNCHANGED <<part, vars, flight, motion>>

\* M!Fairness, of a vehicle that moves.
MotionFairness ==
  WF_motion(part = "motion" /\ M!Tick) /\ WF_motion(part = "motion" /\ M!Sync)

MCSpec ==
  /\ MCInit /\ [][MCNext]_<<part, vars, flight, motion, ground>>
  /\ Fairness /\ F!Fairness /\ MotionFairness /\ G!Fairness

-----------------------------------------------------------------------------
(* What each of them promises; what stands still promises it idly.         *)

\* A vehicle flies one item of one mission at a time (MissionFlight; mission.go busyNodes).
FleetSound == F!TypeOK /\ M!TypeOK /\ G!TypeOK /\ F!OneLeg

\* Items are taken up in order, and elections take none from a vehicle that flies on
\* (MissionFlight; mission.go assignItems, migrate).
LegsKept == F!HandedInOrder /\ F!SurvivorsKeepLegs

\* What the ground sees of a vehicle is one vehicle: its system id stays its own, its
\* position moves at its speed and home only where an operator put it, a station that every
\* frame reached sees no number skipped, and one that can be reached is not dropped for one
\* that cannot (Motion, GroundLink; mover.go, bridge.go applyNodes, send, vehicles.go,
\* frame.go Sequencer).
TracksTrue ==
  /\ M!AdoptsOnlyOperators /\ M!HoldsSpeed
  /\ G!OneAircraft /\ G!LiveStationKept /\ []G!NoFalseLoss

\* Exchanges end, a mission that somebody can fly is completed, a vehicle under way arrives,
\* and the end of a drone's feed is told, late if need be (GroundLink): ExchangeEnds,
\* MissionEnds, FlightEnds and FeedTold, each of its part.
Ends ==
  []<>CASE part = "upload" -> ExchangeOver [] part = "flight" -> F!MissionsOver
        [] part = "motion" -> M!FlightOver [] part = "ground" -> G!FeedSaid
=============================================================================
