------------------------------- MODULE MCCenter -------------------------------
(***************************************************************************)
(* The control center for TLC, one question at a time: the tasks it takes  *)
(* (CenterTasks) and the settings it pushes (CenterSim), over the same     *)
(* links.  The part that a run is not about stands still.                  *)
(***************************************************************************)
EXTENDS CenterTasks

CONSTANTS Placed, Requests, MaxPositions, MaxUpdates      \* CenterSim

VARIABLES
  which,                                                  \* the part of this run
  sim, configs, held, passed, slot, tuned, missed, refused, updates

settings == <<sim, configs, held, passed, slot, tuned, missed, refused, updates>>

S == INSTANCE CenterSim WITH toNode <- configs, lost <- missed

\* A reset map, an override, and placements for ids nobody listens to.
Few == {[override |-> 1, reset |-> TRUE, moves |-> [id \in Placed |-> "away"]]}

\* The roles at the start: the first node leads, or, with no tasks, none.
Roles == [n \in Node |-> n = 1 /\ which = "tasks"]

ASSUME CenterAssumption == S!SimAssumption

MCInit ==
  /\ which \in {"tasks", "settings"}
  /\ Init /\ leads = Roles
  /\ S!Init

MCNext ==
  \/ which = "tasks" /\ Next /\ UNCHANGED <<which, settings>>
  \/ which = "settings" /\ S!Next /\ UNCHANGED <<which, taskVars>>

\* Of what one part has overdue the other knows only the links.
MCFairness ==
  /\ \A n \in Node : []<>~(Overdue(n) \/ S!Overdue(n))
  /\ []<>(Worked /\ ~sim.dirty)

MCSpec == MCInit /\ [][MCNext]_<<which, vars, settings>> /\ MCFairness

-----------------------------------------------------------------------------
(* What each of them promises.                                             *)

\* A version names one content on every node and in every frame, and a listed node has
\* a place on the map (CenterSim; sim.go).
SettingsSound == S!TypeOK /\ (which = "settings" => S!SettingsSound)

\* No task stays pending for ever unless a frame or a held result of it was lost
\* (CenterTasks; hub.go, uplink client.go).
TasksSettle == []<>(which = "tasks" => PendingExplained)

\* Connected nodes come to hold the settings and to elect by their override, unless
\* the frame that carried them was lost (CenterSim; sim.go, uplink client.go).
SettingsReach == []<>(which = "settings" => S!SettingsHeld)
=============================================================================
