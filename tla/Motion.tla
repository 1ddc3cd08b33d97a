------------------------------- MODULE Motion -------------------------------
(***************************************************************************)
(* Where one vehicle is.  The Control Center's hub holds the position that *)
(* the swarm is told (controlcenter/sim.go), the MAVLink bridge's loop     *)
(* moves the vehicle (mavlink/mover.go), and a third goroutine, the        *)
(* syncer, carries positions between them in three steps that nothing     *)
(* makes atomic: it reads the hub, hands the snapshot to the loop, and     *)
(* writes the loop's answer back (mavlink/bridge.go syncOnce).  Operators  *)
(* move the node in the hub meanwhile, and nodes come, go and expire.      *)
(*                                                                         *)
(* The cube is a line 0..Edge.  A tick is one movement step; the random    *)
(* drift direction and the bearing on the patrol circle are any.           *)
(***************************************************************************)
EXTENDS Integers

CONSTANTS
  Edge,        \* the last place on the line
  Stride,      \* places flown in one tick towards a target
  Pace,        \* places drifted or patrolled in one tick
  Radius,      \* DriftRadius
  Idles,       \* the idle motions configured: "drift", "patrol", "still"
  MaxMoves,    \* bound: placements by operators
  MaxFlips,    \* bound: links opened or lost, nodes expired
  MaxOrders,   \* bound: targets given
  None

MotionAssumption ==
  /\ {Edge, Stride, Pace, Radius, MaxMoves, MaxFlips, MaxOrders} \subseteq Nat \ {0}
  /\ Idles \subseteq {"drift", "patrol", "still"} /\ Idles # {}
  /\ None \notin Nat

VARIABLES
  idle,     \* MoveConfig.Idle
  node,     \* the hub's entry: listed, linked, and the position it tells, with who set it
  vehicle,  \* the bridge's entry, or None
  syncer,   \* the syncer's step and what it carries
  lapsed,   \* history: the write of vehicle.pushed was dropped as the node had expired
  leg,      \* history of the last target: flying, or over
  spent     \* operator placements, link changes and orders so far

vars == <<idle, node, vehicle, syncer, lapsed, leg, spent>>

Line == 0..Edge
Gap(a, b) == IF a < b THEN b - a ELSE a - b
Toward(a, b, by) == IF Gap(a, b) <= by THEN b ELSE IF a < b THEN a + by ELSE a - by
Clamp(x) == IF x < 0 THEN 0 ELSE IF x > Edge THEN Edge ELSE x
Around(home) == {x \in (home - Radius)..(home + Radius) : TRUE}

NewVehicle(p) ==
  [connected |-> FALSE, pos |-> p, home |-> p, target |-> None, reached |-> FALSE,
   mission |-> FALSE, pushed |-> p]

Spend(what, bound) == spent[what] < bound /\ spent' = [spent EXCEPT ![what] = @ + 1]

Init ==
  /\ idle \in Idles
  /\ node = [listed |-> TRUE, linked |-> TRUE, pos |-> 0, by |-> "operator"]
  /\ vehicle = None
  /\ syncer = [at |-> "idle"]
  /\ lapsed = FALSE /\ leg = "over"
  /\ spent = [moves |-> 0, flips |-> 0, orders |-> 0]

-----------------------------------------------------------------------------
(* The hub: operators and nodes.                                           *)

\* POST /api/sim: positions are kept for nodes that are not listed too.
PlaceNode(p) ==
  /\ Spend("moves", MaxMoves)
  /\ p # node.pos
  /\ node' = [node EXCEPT !.pos = p, !.by = "operator"]
  /\ UNCHANGED <<idle, vehicle, syncer, lapsed, leg>>

\* A listed node keeps its position when it links again, an expired one too (simJoin).
LinkNode ==
  /\ ~node.linked /\ Spend("flips", MaxFlips)
  /\ node' = [node EXCEPT !.listed = TRUE, !.linked = TRUE]
  /\ UNCHANGED <<idle, vehicle, syncer, lapsed, leg>>

LoseNode ==
  /\ node.linked /\ Spend("flips", MaxFlips)
  /\ node' = [node EXCEPT !.linked = FALSE]
  /\ UNCHANGED <<idle, vehicle, syncer, lapsed, leg>>

ExpireNode ==
  /\ node.listed /\ ~node.linked /\ Spend("flips", MaxFlips)
  /\ node' = [node EXCEPT !.listed = FALSE]
  /\ UNCHANGED <<idle, vehicle, syncer, lapsed, leg>>

-----------------------------------------------------------------------------
(* The syncer and the loop: syncOnce, applyNodes, mavSetPositions.         *)

ReadNodes ==
  /\ syncer.at = "idle"
  /\ syncer' = [at |-> "apply", seen |-> node]
  /\ UNCHANGED <<idle, node, vehicle, lapsed, leg, spent>>

\* Mutant: a flying vehicle adopts as well, which drops its target.
AdoptsMidFlight(v, p) == p # v.pushed

\* External moves win, except while the vehicle is flying.
Adopts(v, p) == v.target = None /\ p # v.pushed

Adopt(v, p) ==
  [v EXCEPT !.pos = p, !.home = p, !.target = None, !.reached = FALSE, !.pushed = p]

\* Mutant: what was pushed is remembered only when it was adopted.
ForgetsPushed(v) == v

Pushed(v) == IF v.connected THEN [v EXCEPT !.pushed = v.pos] ELSE v

\* The vehicle after a snapshot that holds its node.
Synced(v, seen) ==
  LET w == [v EXCEPT !.connected = seen.linked]
  IN  Pushed(IF Adopts(w, seen.pos) THEN Adopt(w, seen.pos) ELSE w)

ApplyNodes ==
  /\ syncer.at = "apply"
  /\ vehicle' = IF ~syncer.seen.listed THEN None
                ELSE Synced(IF vehicle = None THEN NewVehicle(syncer.seen.pos) ELSE vehicle,
                            syncer.seen)
  /\ syncer' = IF vehicle' # None /\ vehicle'.connected
               THEN [at |-> "push", pos |-> vehicle'.pos] ELSE [at |-> "idle"]
  /\ leg' = IF vehicle' = None THEN "over" ELSE leg
  /\ lapsed' = (lapsed /\ vehicle # None /\ vehicle' # None /\ vehicle'.pushed = vehicle.pushed)
  /\ UNCHANGED <<idle, node, spent>>

\* A position for a node that expired since the snapshot is ignored.
SetPositions ==
  /\ syncer.at = "push"
  /\ syncer' = [at |-> "idle"]
  /\ lapsed' = ~node.listed
  /\ node' = IF node.listed /\ node.pos # syncer.pos
             THEN [node EXCEPT !.pos = syncer.pos, !.by = "bridge"] ELSE node
  /\ UNCHANGED <<idle, vehicle, leg, spent>>

-----------------------------------------------------------------------------
(* The loop's movement step: Mover.Step on the position tick.              *)

Moving == vehicle # None /\ vehicle.connected

FlyStep ==
  /\ Moving /\ vehicle.target # None
  /\ LET to == Toward(vehicle.pos, vehicle.target, Stride)
     IN  /\ vehicle' = [vehicle EXCEPT !.pos = to, !.reached = @ \/ to = vehicle.target]
         /\ leg' = IF to = vehicle.target THEN "over" ELSE leg
  /\ UNCHANGED <<idle, node, syncer, lapsed, spent>>

Idling(mode) == Moving /\ vehicle.target = None /\ idle = mode

\* One tick of the random walk, and the hard bound around home that ends it.
DriftStep ==
  /\ Idling("drift")
  /\ \E by \in -Pace..Pace :
       vehicle' = [vehicle EXCEPT !.pos =
         LET to == vehicle.pos + by IN Clamp(IF Gap(to, vehicle.home) <= Radius THEN to
                                             ELSE Toward(vehicle.home, to, Radius))]
  /\ UNCHANGED <<idle, node, syncer, lapsed, leg, spent>>

\* Mutant: the obvious circuit, which the comment in mover.go rejects.
PatrolPlaces ==
  /\ Idling("patrol")
  /\ \E goal \in Around(vehicle.home) : vehicle' = [vehicle EXCEPT !.pos = Clamp(goal)]
  /\ UNCHANGED <<idle, node, syncer, lapsed, leg, spent>>

\* The vehicle chases a point of the circle around home.
PatrolStep ==
  /\ Idling("patrol")
  /\ \E goal \in Around(vehicle.home) :
       vehicle' = [vehicle EXCEPT !.pos = Clamp(Toward(@, goal, Pace))]
  /\ UNCHANGED <<idle, node, syncer, lapsed, leg, spent>>

-----------------------------------------------------------------------------
(* The loop's orders: SetTarget and ClearTarget from mission.go.           *)

\* Takeoff, land, return to launch, or the next mission item.
GiveTarget(p, mission) ==
  /\ vehicle # None /\ Spend("orders", MaxOrders)
  /\ vehicle' = [vehicle EXCEPT !.target = p, !.reached = FALSE, !.mission = mission]
  /\ leg' = "flying"
  /\ UNCHANGED <<idle, node, syncer, lapsed>>

\* A mission item is credited on arrival and the vehicle is idle again;
\* a takeoff or a landing keeps its target.
CollectArrival ==
  /\ Moving /\ vehicle.mission /\ vehicle.reached
  /\ vehicle' = [vehicle EXCEPT !.target = None, !.reached = FALSE, !.mission = FALSE]
  /\ UNCHANGED <<idle, node, syncer, lapsed, leg, spent>>

Disarm ==
  /\ vehicle # None /\ vehicle.target # None
  /\ vehicle' = [vehicle EXCEPT !.target = None, !.reached = FALSE, !.mission = FALSE]
  /\ leg' = "over"
  /\ UNCHANGED <<idle, node, syncer, lapsed, spent>>

Sync == ReadNodes \/ ApplyNodes \/ SetPositions
Tick == FlyStep \/ DriftStep \/ PatrolStep

Next ==
  \/ \E p \in Line : PlaceNode(p)
  \/ LinkNode \/ LoseNode \/ ExpireNode
  \/ ReadNodes \/ ApplyNodes \/ SetPositions
  \/ FlyStep \/ DriftStep \/ PatrolStep
  \/ \E p \in Line, mission \in BOOLEAN : GiveTarget(p, mission)
  \/ CollectArrival \/ Disarm

\* The tickers of the syncer and of the loop never stop; between two tickers
\* of the loop the syncer gets its turn.
Fairness == WF_vars(Tick) /\ WF_vars(Sync)

Spec == Init /\ [][Next]_vars /\ Fairness

-----------------------------------------------------------------------------
TypeOK ==
  /\ idle \in Idles /\ lapsed \in BOOLEAN /\ leg \in {"flying", "over"}
  /\ node \in [listed : BOOLEAN, linked : BOOLEAN, pos : Line, by : {"operator", "bridge"}]
  /\ node.linked => node.listed
  /\ \/ vehicle = None
     \/ vehicle \in [connected : BOOLEAN, pos : Line, home : Line, target : Line \cup {None},
                     reached : BOOLEAN, mission : BOOLEAN, pushed : Line]
  /\ spent \in [moves : 0..MaxMoves, flips : 0..MaxFlips, orders : 0..MaxOrders]

\* The bridge moves a vehicle's home only to where an operator put the node: a
\* position it wrote itself is never taken for somebody else's move.  The one
\* exception is a node that expired under the write and came back (bridge.go
\* applyNodes, v.pushed).
AdoptsOnlyOperators ==
  [][/\ vehicle # None /\ vehicle' # None
     /\ vehicle'.home # vehicle.home
     => lapsed \/ syncer.seen.by = "operator"]_vars

FlightOver == leg = "over" \/ ~node.linked

\* A vehicle under way arrives, or is told otherwise, or is cut off, whatever
\* the syncer brings back meanwhile (bridge.go applyNodes, the Flying guard).
FlightEnds == []<>FlightOver

Steps(v, w) == Gap(v.pos, w.pos) <= IF v.target = None THEN Pace ELSE Stride

\* On patrol, as in flight, a vehicle never moves further in a tick than its
\* speed allows (mover.go patrolStep: "Pursuit, not teleportation").
HoldsSpeed ==
  [][Tick /\ (vehicle.target # None \/ idle = "patrol") => Steps(vehicle, vehicle')]_vars

\* The same for a drifting vehicle: it does not jump home.  After a mission
\* leg or a disarm it does: ClearTarget leaves home where it was, and the hard
\* bound of driftStep is applied to wherever the leg ended.
DriftHoldsSpeed == [][DriftStep => Steps(vehicle, vehicle')]_vars
=============================================================================
