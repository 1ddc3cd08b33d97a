--------------------------- MODULE MissionFlight ---------------------------
(***************************************************************************)
(* The execution half of pkg/mavlink/mission.go: how the missions stored   *)
(* on the bridge are flown by the vehicles of the swarm.  The bridge's     *)
(* loop owns every variable here, so each action is one turn of that loop: *)
(* a ground station's command, a snapshot of the swarm (applyNodes), or a  *)
(* position tick followed by runMissions.                                  *)
(*                                                                         *)
(* A position is a model value of Places, a movement step either arrives   *)
(* or does not, and which idle member is nearest is any of them.  Frames   *)
(* to the ground station are left out: nothing here waits for an answer.   *)
(* A vehicle's system id is its node: Vehicles.SysID gives every node one  *)
(* id of its own and never takes it back.                                  *)
(***************************************************************************)
EXTENDS Integers, Sequences

CONSTANTS
  Nodes,        \* the swarm's nodes, numbered in the order their ids sort in
  Owners,       \* the nodes a mission is uploaded to
  Places,       \* the coordinates of flyable items
  Plans,        \* the plans uploaded: sequences over Places \cup {Skip}
  Skip,         \* an item the bridge accepts and does not fly
  None,         \* no target, no leader, nobody
  Elsewhere,    \* where TAKEOFF, LAND and RETURN_TO_LAUNCH send a vehicle
  Leaders,      \* the sets of leaders the swarm may have formed under at first
  MaxEvents,    \* changes of the swarm and orders of the ground station together
  MaxUploads    \* missions uploaded

FlightAssumption ==
  /\ (\E n \in Nodes \cap Nat : Nodes = 1..n) /\ Owners \subseteq Nodes
  /\ Leaders \subseteq (SUBSET Nodes) \ {{}}
  /\ Skip \notin Places /\ None \notin Nodes \cup Places
  /\ Elsewhere \notin Places \cup {None}
  /\ \A p \in Plans : p \in Seq(Places \cup {Skip}) /\ p # <<>>

VARIABLES
  vehicle,      \* vs[id]: what the bridge holds of each node, its mover included
  mission,      \* missions[sysid]: the stored mission of each owner
  events, uploads   \* the bounds spent

vars == <<vehicle, mission, events, uploads>>

---------------------------------------------------------------------------
(* State.                                                                  *)

\* A vehicle not in vs.
Unknown == [present |-> FALSE, connected |-> FALSE, leader |-> FALSE,
            leaderID |-> None, armed |-> FALSE, target |-> None, reached |-> FALSE]

\* What a snapshot may say of a connected node v: it leads, or it follows.
Standing(v) == {<<TRUE, None>>} \cup {<<FALSE, l>> : l \in (Nodes \ {v}) \cup {None}}

\* No mission stored for the owner.
NoMission == [exec |-> None, leaderMission |-> FALSE, started |-> FALSE,
              members |-> {}, items |-> <<>>]

Stored(ms, o) == ms[o].items # <<>>

FreshItem(p) == [pos |-> p, state |-> "pending", node |-> None]

Flies(ms, o, i, v) ==
  /\ i \in DOMAIN ms[o].items
  /\ ms[o].items[i].state = "flying" /\ ms[o].items[i].node = v

\* The mover still holds the target it was given for the item.
holdsGoal(vs, it) == vs[it.node].target = it.pos

Released(it) == [it EXCEPT !.state = "pending", !.node = None]

Put(f, x, y) == [z \in DOMAIN f |-> IF z = x THEN y ELSE f[z]]
WithItems(ms, o, items) == Put(ms, o, [ms[o] EXCEPT !.items = items])
WithItem(ms, o, i, it) == WithItems(ms, o, Put(ms[o].items, i, it))

\* releaseItems: the items node v flies go back in the pool.
releaseItems(ms, v) ==
  [o \in Owners |->
     [ms[o] EXCEPT !.items = [i \in DOMAIN ms[o].items |->
        IF Flies(ms, o, i, v) THEN Released(ms[o].items[i]) ELSE ms[o].items[i]]]]

\* clearAssignments stops the vehicles that still hold a goal of o's mission.
clearAssignments(vs, ms, o) ==
  [v \in Nodes |->
     IF \E i \in DOMAIN ms[o].items : Flies(ms, o, i, v) /\ holdsGoal(vs, ms[o].items[i])
     THEN [vs[v] EXCEPT !.target = None, !.reached = FALSE] ELSE vs[v]]

---------------------------------------------------------------------------
(* runMissions: for every mission in sysid order, collectArrivals,         *)
(* migrate, assignItems.  An operator takes the pair [vs, ms] it finds and *)
(* returns the pair it leaves; assignItems returns every pair it may leave.*)

Lost(vs, it) == it.state = "flying" /\ (~vs[it.node].connected \/ ~holdsGoal(vs, it))
Arrived(vs, it) == it.state = "flying" /\ ~Lost(vs, it) /\ vs[it.node].reached

Collected(vs, it) ==
  CASE Lost(vs, it)    -> Released(it)
    [] Arrived(vs, it) -> [it EXCEPT !.state = "done"]
    [] OTHER           -> it

collectArrivals(s, o) ==
  LET items == s.ms[o].items
  IN [vs |-> [v \in Nodes |->
               IF \E i \in DOMAIN items : items[i].node = v /\ Arrived(s.vs, items[i])
               THEN [s.vs[v] EXCEPT !.target = None, !.reached = FALSE] ELSE s.vs[v]],
      ms |-> WithItems(s.ms, o, [i \in DOMAIN items |-> Collected(s.vs, items[i])])]

LeadsNow(vs, v) == v # None /\ vs[v].connected /\ vs[v].leader

Least(S) == CHOOSE v \in S : \A w \in S : v <= w

\* The members of the last pass that follow a leader; the leader then is asked first.
Asked(vs, m) == {v \in m.members : vs[v].connected /\ LeadsNow(vs, vs[v].leaderID)}
FirstAsked(vs, m) == IF m.exec \in Asked(vs, m) THEN m.exec ELSE Least(Asked(vs, m))

\* Mutant of electedLeaderFor: with no member left to ask, nobody.
AskedOnly(vs, m) ==
  IF Asked(vs, m) # {} THEN vs[FirstAsked(vs, m)].leaderID ELSE None

\* The leader the members of the last pass follow, else the first leader there is.
electedLeaderFor(vs, m) ==
  LET leaders == {v \in Nodes : LeadsNow(vs, v)}
  IN IF Asked(vs, m) # {} THEN vs[FirstAsked(vs, m)].leaderID
     ELSE IF leaders # {} THEN Least(leaders) ELSE None

\* Mutant of migrate: the new leader plans the flying items again.
MovesAndReplans(s, o) ==
  LET m == s.ms[o]
      next == electedLeaderFor(s.vs, m)
      all == [i \in DOMAIN m.items |->
                IF m.items[i].state = "flying" THEN Released(m.items[i]) ELSE m.items[i]]
  IN IF m.leaderMission /\ ~LeadsNow(s.vs, m.exec) /\ next # None
     THEN [s EXCEPT !.ms = Put(s.ms, o, [m EXCEPT !.exec = next, !.items = all])] ELSE s

migrate(s, o) ==
  LET m == s.ms[o]
      next == electedLeaderFor(s.vs, m)
  IN IF m.leaderMission /\ ~LeadsNow(s.vs, m.exec) /\ next # None
     THEN [s EXCEPT !.ms = Put(s.ms, o, [m EXCEPT !.exec = next])] ELSE s

\* The cluster flying the mission.
execMembers(vs, m) ==
  IF ~vs[m.exec].connected THEN {}
  ELSE {m.exec} \cup {v \in Nodes : m.leaderMission /\ vs[v].connected /\ vs[v].leaderID = m.exec}

\* Mutant of busyNodes: only the mover is asked whether a vehicle is free.
NobodyBusy(ms) == {}

\* The nodes flying an item of some mission.
busyNodes(ms) ==
  UNION {{ms[o].items[i].node : i \in {j \in DOMAIN ms[o].items : ms[o].items[j].state = "flying"}} :
         o \in Owners}

\* Whom nearestIdle chooses from.
Idle(s, o) ==
  {v \in s.ms[o].members :
     v \notin busyNodes(s.ms) /\ s.vs[v].connected /\ s.vs[v].target = None}

\* Mutant of Wait: the next items are tried all the same.
CarryOn(s) == s

\* Nobody can fly this item, so the later ones wait.
Wait(s) == [s EXCEPT !.halted = TRUE]

SentTo(veh, place) == [veh EXCEPT !.target = place, !.reached = FALSE, !.armed = TRUE]

HandOut(s, o, i, v) ==
  LET it == s.ms[o].items[i]
  IN [s EXCEPT !.vs = Put(s.vs, v, SentTo(s.vs[v], it.pos)),
               !.ms = WithItem(s.ms, o, i, [it EXCEPT !.state = "flying", !.node = v])]

\* One item of the assignItems loop: what it may do in s, a set of states.
AssignItem(s, o, i) ==
  LET it == s.ms[o].items[i]
  IN IF s.halted \/ it.state # "pending" THEN {s}
     ELSE IF it.pos = Skip
     THEN {[s EXCEPT !.ms = WithItem(s.ms, o, i, [it EXCEPT !.state = "done"])]}
     ELSE IF Idle(s, o) = {} THEN {Wait(s)}
     ELSE {HandOut(s, o, i, v) : v \in Idle(s, o)}

assignItems(s, o) ==
  LET t == [vs |-> s.vs, halted |-> ~s.ms[o].started,
            ms |-> Put(s.ms, o, [s.ms[o] EXCEPT !.members = execMembers(s.vs, s.ms[o])])]
      after[i \in 0..Len(s.ms[o].items)] ==
        IF i = 0 THEN {t} ELSE UNION {AssignItem(u, o, i) : u \in after[i - 1]}
  IN {[vs |-> u.vs, ms |-> u.ms] : u \in after[Len(s.ms[o].items)]}

LastNode == CHOOSE v \in Nodes : \A w \in Nodes : w <= v

runMissions(s) ==
  LET after[o \in 0..LastNode] ==
        IF o = 0 THEN {s}
        ELSE UNION {IF o \in Owners /\ Stored(u.ms, o)
                    THEN assignItems(migrate(collectArrivals(u, o), o), o) ELSE {u} :
                    u \in after[o - 1]}
  IN after[LastNode]

---------------------------------------------------------------------------
(* The ground station.  missionTarget and vehicleBySysID answer only for a *)
(* vehicle the bridge knows, connected or not.                             *)

Event == events < MaxEvents /\ events' = events + 1

\* The last item of an upload installs the mission and replaces the old one.
installMission(o, p) ==
  /\ vehicle[o].present /\ uploads < MaxUploads
  /\ uploads' = uploads + 1
  /\ vehicle' = clearAssignments(vehicle, mission, o)
  /\ mission' = [mission EXCEPT ![o] =
       [exec |-> o, leaderMission |-> vehicle[o].leader, started |-> FALSE,
        members |-> {}, items |-> [i \in DOMAIN p |-> FreshItem(p[i])]]]
  /\ UNCHANGED events

\* MISSION_CLEAR_ALL, or MISSION_COUNT 0.
clearMission(o) ==
  /\ vehicle[o].present /\ Stored(mission, o) /\ Event
  /\ vehicle' = clearAssignments(vehicle, mission, o)
  /\ mission' = [mission EXCEPT ![o] = NoMission]
  /\ UNCHANGED uploads

\* MISSION_SET_CURRENT abandons the pending items before i.
onMissionSetCurrent(o, i) ==
  /\ vehicle[o].present /\ Event
  /\ i \in DOMAIN mission[o].items
  /\ LET items == mission[o].items
     IN mission' = WithItems(mission, o, [j \in DOMAIN items |->
          IF j < i /\ items[j].state = "pending"
          THEN [items[j] EXCEPT !.state = "done"] ELSE items[j]])
  /\ UNCHANGED <<vehicle, uploads>>

\* cmdArm with param1 = 1.
Arm(v) ==
  /\ vehicle[v].present /\ ~vehicle[v].armed
  /\ vehicle' = [vehicle EXCEPT ![v].armed = TRUE]
  /\ UNCHANGED <<mission, events, uploads>>

\* cmdArm with param1 = 0: the target goes, the item stays until the next pass.
Disarm(v) ==
  /\ vehicle[v].present /\ Event
  /\ vehicle' = [vehicle EXCEPT ![v].armed = FALSE, ![v].target = None, ![v].reached = FALSE]
  /\ UNCHANGED <<mission, uploads>>

\* cmdTakeoff (which needs an armed vehicle), cmdLand, cmdReturnToLaunch.
TakeOver(v) ==
  /\ vehicle[v].present /\ Event
  /\ vehicle' = [vehicle EXCEPT ![v].target = Elsewhere, ![v].reached = FALSE]
  /\ mission' = releaseItems(mission, v)
  /\ UNCHANGED uploads

cmdMissionStart(o) ==
  /\ vehicle[o].present /\ Stored(mission, o) /\ vehicle[o].armed
  /\ \E t \in runMissions([vs |-> vehicle, ms |-> [mission EXCEPT ![o].started = TRUE]]) :
       vehicle' = t.vs /\ mission' = t.ms
  /\ UNCHANGED <<events, uploads>>

---------------------------------------------------------------------------
(* The swarm and the clock.                                                *)

\* applyNodes on a snapshot in which node v stands otherwise than before: gone
\* (the swarm has expired it), there but not connected, or connected.
applyNodes(v) ==
  /\ Event
  /\ \/ /\ vehicle[v].present                                   \* not in the snapshot
        /\ vehicle' = [vehicle EXCEPT ![v] = Unknown]
        /\ mission' = releaseItems(mission, v)
     \/ /\ vehicle[v].connected
        /\ vehicle' = [vehicle EXCEPT ![v].connected = FALSE]
        /\ UNCHANGED mission
     \/ /\ \E st \in Standing(v) :
             vehicle' = [vehicle EXCEPT ![v].present = TRUE, ![v].connected = TRUE,
                                        ![v].leader = st[1], ![v].leaderID = st[2]]
        /\ vehicle' # vehicle
        /\ UNCHANGED mission
  /\ UNCHANGED uploads

\* tickPositions moves every connected vehicle, then runMissions.
Tick ==
  /\ \E arrived \in SUBSET {v \in Nodes : vehicle[v].connected /\ vehicle[v].target # None} :
       \E t \in runMissions([ms |-> mission, vs |-> [v \in Nodes |->
            IF v \in arrived THEN [vehicle[v] EXCEPT !.reached = TRUE] ELSE vehicle[v]]]) :
         vehicle' = t.vs /\ mission' = t.ms
  /\ UNCHANGED <<events, uploads>>

---------------------------------------------------------------------------

Init ==
  /\ \E L \in Leaders : \E f \in [Nodes \ L -> L] :
       vehicle = [v \in Nodes |-> [Unknown EXCEPT
         !.present = TRUE, !.connected = TRUE, !.leader = v \in L,
         !.leaderID = IF v \in L THEN None ELSE f[v]]]
  /\ mission = [o \in Owners |-> NoMission]
  /\ events = 0 /\ uploads = 0

Next ==
  \/ \E o \in Owners : \/ \E p \in Plans : installMission(o, p)
                       \/ clearMission(o)
                       \/ \E i \in DOMAIN mission[o].items : onMissionSetCurrent(o, i)
                       \/ Arm(o) \/ cmdMissionStart(o)
  \/ \E v \in Nodes : Disarm(v) \/ TakeOver(v) \/ applyNodes(v)
  \/ Tick

\* A pass of runMissions would change something.
Due == runMissions([vs |-> vehicle, ms |-> mission]) # {[vs |-> vehicle, ms |-> mission]}

Airborne(v) == vehicle[v].connected /\ vehicle[v].target # None /\ ~vehicle[v].reached

\* The position ticker keeps firing, and a mover that flies arrives: its speed
\* is positive and its target a point of the cube.
Fairness == []<>~Due /\ \A v \in Nodes : []<>~Airborne(v)

Spec == Init /\ [][Next]_vars /\ Fairness

---------------------------------------------------------------------------
(* Properties.                                                             *)

\* The record types; an item names a vehicle exactly while it is flown or was.
TypeOK ==
  /\ vehicle \in [Nodes -> [present : BOOLEAN, connected : BOOLEAN, leader : BOOLEAN,
        leaderID : Nodes \cup {None}, armed : BOOLEAN,
        target : Places \cup {None, Elsewhere}, reached : BOOLEAN]]
  /\ \A o \in Owners : \A i \in DOMAIN mission[o].items :
       LET it == mission[o].items[i] IN
         /\ it.pos \in Places \cup {Skip}
         /\ \/ it.state = "pending" /\ it.node = None
            \/ it.state = "flying" /\ it.node \in Nodes
            \/ it.state = "done"

\* One node can only be in one place: across every mission stored, it flies at
\* most one item (busyNodes).
OneLeg ==
  \A v \in Nodes : \A o, p \in Owners :
    \A i \in DOMAIN mission[o].items : \A j \in DOMAIN mission[p].items :
      Flies(mission, o, i, v) /\ Flies(mission, p, j, v) => o = p /\ i = j

\* Items are taken up in sequence order: when one is handed out, skipped or
\* jumped over, nothing before it in its mission is left waiting.
HandedInOrder ==
  [][\A o \in Owners : \A j \in DOMAIN mission[o].items :
       ( /\ mission[o].items[j].state = "pending"
         /\ j \in DOMAIN mission'[o].items /\ mission'[o].items[j].state # "pending" ) =>
       \A i \in 1..(j - 1) : mission'[o].items[i].state # "pending"]_vars

\* Items in flight on surviving workers keep going: whatever the swarm's
\* elections do to the mission, a connected vehicle that still holds its item's
\* goal keeps that item until it arrives, and is the one credited with it.
SurvivorsKeepLegs ==
  [][\A o \in Owners : \A i \in DOMAIN mission[o].items : \A v \in Nodes :
       ( /\ Flies(mission, o, i, v) /\ vehicle[v].connected /\ vehicle'[v].connected
         /\ holdsGoal(vehicle, mission[o].items[i]) /\ vehicle'[v].target # Elsewhere
         /\ Stored(mission', o) /\ uploads' = uploads ) =>
       mission'[o].items[i].state # "pending" /\ mission'[o].items[i].node = v]_vars

Complete(o) == \A i \in DOMAIN mission[o].items : mission[o].items[i].state = "done"

\* Somebody can fly o's mission, as may(v) judges a vehicle: the node itself, or
\* whichever leader a cluster mission is moved to.
HasCrew(o, may(_)) ==
  IF mission[o].leaderMission
  THEN /\ \E v \in Nodes : LeadsNow(vehicle, v)
       /\ \A v \in Nodes : LeadsNow(vehicle, v) => may(v)
  ELSE vehicle[o].connected /\ may(o)

FliesSome(v) == \E o \in Owners : \E i \in DOMAIN mission[o].items : Flies(mission, o, i, v)
Able(v) == vehicle[v].target = None \/ FliesSome(v)

MissionsOver ==
  \A o \in Owners : mission[o].started => Complete(o) \/ ~HasCrew(o, Able)

\* A mission survives the loss of the node it was uploaded to: once started it is
\* completed, through deaths, elections and operators, unless it is cleared or
\* nobody is left who can fly it.
MissionEnds == []<>MissionsOver
=============================================================================
