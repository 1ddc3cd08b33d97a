------------------------------ MODULE CenterSim ------------------------------
(***************************************************************************)
(* The simulation settings: the hub holds them under a version, pushes the *)
(* whole of them to a node that joins and to every node on every change,   *)
(* each send on a goroutine of its own, so frames overtake each other or   *)
(* are lost, and a lost one is not sent again. A node keeps the newest     *)
(* version it has seen and passes the election override on to its loop.    *)
(* Positions are joined lazily: a new node's position is announced to the  *)
(* others on the next snapshot tick.                                       *)
(***************************************************************************)
EXTENDS CenterLinks, Functions, FiniteSetsExt

CONSTANTS
  Placed,        \* ids an operator may place without a node of that name
  Requests,      \* the updates an operator may ask for
  MaxPositions,  \* the cap on the position map
  MaxUpdates     \* bound: updates the operator asks for

VARIABLES
  sim,      \* the hub's settings
  toNode,   \* toNode[n]: SIM_CONFIG frames on their way to node n
  held,     \* held[n]: the settings node n applied last
  passed,   \* passed[n]: the override its client last passed to the node
  slot,     \* slot[n]: the override waiting for the node's loop
  tuned,    \* tuned[n]: the override the node's election uses
  lost,     \* ghost: lost[n] is the newest version lost on the way to n
  refused,  \* ghost: the last update was refused
  updates   \* updates spent

simVars == <<sim, toNode, held, passed, slot, tuned, lost, refused, updates>>
vars == <<linkVars, simVars>>

Id == Node \union Placed

\* geo.DefaultPosition of an id, and anywhere else.
Position == {"home", "away"}

\* 0: no override, the node's own setting.
Override == {0, 1}

Positions == UNION {[D -> Position] : D \in SUBSET Id}
Config == [version : Nat, positions : Positions, override : Override]

\* A node that applied nothing yet.
Nothing == [version |-> 0, positions |-> <<>>, override |-> 0]

ConfigOf(s) == [version |-> s.version, positions |-> s.positions, override |-> s.override]

\* What an update asks for; an override of -1 leaves it alone.
Request == [override : {-1} \union Override, reset : BOOLEAN, moves : Positions]

TypeOK ==
  /\ LinksTypeOK
  /\ ConfigOf(sim) \in Config /\ sim.dirty \in BOOLEAN
  /\ \A n \in Node : \A f \in toNode[n] : f.config \in Config /\ f.link \in Link
  /\ \A n \in Node : held[n] \in Config
  /\ passed \in [Node -> Override] /\ tuned \in [Node -> Override]
  /\ slot \in [Node -> {-1} \union Override]
  /\ lost \in [Node -> Nat] /\ refused \in BOOLEAN /\ updates \in 0..MaxUpdates

SimAssumption ==
  /\ Placed \intersect Node = {} /\ Requests \subseteq Request
  /\ MaxPositions \in Nat \ {0} /\ MaxUpdates \in Nat

(* ------------------------------ The settings ---------------------------- *)

\* bumpSim, within one life of the control center: a step is enough to be newer.
Bumped(s) == [s EXCEPT !.version = @ + 1]

\* newSimState and its first bump: seeded from the clock, which is past every
\* version the last life gave out (one a millisecond would be needed to outrun it).
Fresh(v) == [version |-> v + 1, positions |-> <<>>, override |-> 0, dirty |-> FALSE]

\* makeRoom: only when the cap is hit, every id that is not listed is forgotten.
Roomier(p, listed, extra) ==
  IF Cardinality(DOMAIN p) + extra <= MaxPositions THEN p
  ELSE Restrict(p, DOMAIN p \intersect listed)

HasRoom(p, listed, extra) == Cardinality(DOMAIN Roomier(p, listed, extra)) + extra <= MaxPositions

Home(ids) == [id \in ids |-> "home"]

\* Placements p, and those of q for the ids that p leaves alone.
Over(p, q) == [id \in DOMAIN p \union DOMAIN q |-> IF id \in DOMAIN p THEN p[id] ELSE q[id]]

\* Mutant of Joined: the joiner's position is added to the version others hold.
JoinedUnversioned(s, n, listed) ==
  IF n \in DOMAIN s.positions THEN s
  ELSE [s EXCEPT !.positions = Over(Home({n}), Roomier(@, listed, 1)), !.dirty = TRUE]

\* simJoin: a node with no position gets its default one and a version of its
\* own; the others are told on the next tick.
Joined(s, n, listed) ==
  IF n \in DOMAIN s.positions THEN s
  ELSE Bumped([s EXCEPT !.positions = Over(Home({n}), Roomier(@, listed, 1)),
                        !.dirty = TRUE])

\* updateSim, what is asked for applied: reset runs before explicit positions.
Applied(s, u) ==
  [s EXCEPT !.override = IF u.override = -1 THEN @ ELSE u.override,
            !.positions = Over(u.moves, IF u.reset THEN Home(DOMAIN @) ELSE @)]

(* ------------------------------ The node side ---------------------------- *)

Init ==
  /\ LinksInit
  /\ sim = Fresh(0)
  /\ toNode = [n \in Node |-> {}]
  /\ held = [n \in Node |-> Nothing]
  /\ passed = [n \in Node |-> 0] /\ slot = [n \in Node |-> -1] /\ tuned = [n \in Node |-> 0]
  /\ lost = [n \in Node |-> 0] /\ refused = FALSE /\ updates = 0

\* Emulation.Apply: only a newer version replaces the one held.
\* Mutant of Newer: whatever arrives last is kept.
AnyArrival(c, h) == TRUE

Newer(c, h) == c.version > h.version

\* applySim's test for passing the override on.
Passes(o, last) == o # last

\* A SIM_CONFIG reaches the client: applied if newer, and its override passed
\* to the node's loop if it changed.
Receives(n, f) ==
  /\ f \in toNode[n] /\ running[n]
  /\ toNode' = [toNode EXCEPT ![n] = @ \ {f}]
  /\ IF Newer(f.config, held[n])
     THEN /\ held' = [held EXCEPT ![n] = f.config]
          /\ IF Passes(f.config.override, passed[n])
             THEN /\ passed' = [passed EXCEPT ![n] = f.config.override]
                  /\ slot' = [slot EXCEPT ![n] = f.config.override]
             ELSE UNCHANGED <<passed, slot>>
     ELSE UNCHANGED <<held, passed, slot>>
  /\ UNCHANGED <<linkVars, sim, tuned, lost, refused, updates>>

\* applyTuning: the loop takes the override that is waiting.
Tunes(n) ==
  /\ slot[n] # -1
  /\ tuned' = [tuned EXCEPT ![n] = slot[n]]
  /\ slot' = [slot EXCEPT ![n] = -1]
  /\ UNCHANGED <<linkVars, sim, toNode, held, passed, lost, refused, updates>>

\* A send that waits too long for room, or a frame of a link the node has left.
LosesConfig(n, f) ==
  /\ f \in toNode[n]
  /\ toNode' = [toNode EXCEPT ![n] = @ \ {f}]
  /\ IF f.link = uplink[n] /\ sock[n][f.link].live
     THEN Fault /\ UNCHANGED <<running, uplink, sock, entry, news, restarts>>
     ELSE UNCHANGED linkVars
  /\ lost' = [lost EXCEPT ![n] = IF f.config.version > @ THEN f.config.version ELSE @]
  /\ UNCHANGED <<sim, held, passed, slot, tuned, refused, updates>>

\* A process takes with it all it held; the next one starts from nothing.
Crashes(n) ==
  /\ Crash(n)
  /\ lost' = [lost EXCEPT ![n] =
       Max({@} \union {f.config.version : f \in toNode[n]})]
  /\ toNode' = [toNode EXCEPT ![n] = {}]
  /\ held' = [held EXCEPT ![n] = Nothing]
  /\ passed' = [passed EXCEPT ![n] = 0]
  /\ slot' = [slot EXCEPT ![n] = -1]
  /\ tuned' = [tuned EXCEPT ![n] = 0]
  /\ UNCHANGED <<sim, refused, updates>>

(* -------------------------------- The hub -------------------------------- *)

Frame(e, s) == [link |-> e.link, config |-> ConfigOf(s)]

\* broadcastSim: to every connected node, each on a goroutine of its own.
Broadcast(s) ==
  toNode' = [n \in Node |-> IF Connected(n) THEN toNode[n] \union {Frame(entry[n], s)}
                            ELSE toNode[n]]

\* onConnUp, then simJoin: the joiner is sent the settings in any case.
Registers(n, g) ==
  /\ ConnUp(n, g)
  /\ LET s == Joined(sim, n, {m \in Node : entry'[m].listed}) IN
       /\ sim' = s
       /\ toNode' = [toNode EXCEPT ![n] = @ \union {Frame(entry'[n], s)}]
  /\ UNCHANGED <<held, passed, slot, tuned, lost, refused, updates>>

\* The snapshot tick: expired nodes are forgotten, joins announced.
Tick ==
  /\ \E gone \in SUBSET Node : (gone # {} \/ sim.dirty) /\ Expired(gone)
  /\ sim' = [sim EXCEPT !.dirty = FALSE]
  /\ IF sim.dirty THEN Broadcast(sim) ELSE UNCHANGED toNode
  /\ UNCHANGED <<running, uplink, sock, news, faults, restarts, held, passed,
                 slot, tuned, lost, refused, updates>>

\* updateSim: checked for room first, which may forget ids that are not listed;
\* an update that changes nothing has no version of its own.
Update(u) ==
  LET listed == {n \in Node : entry[n].listed}
      new == Cardinality(DOMAIN u.moves \ DOMAIN sim.positions)
      roomy == IF new = 0 THEN sim
               ELSE [sim EXCEPT !.positions = Roomier(@, listed, new)]
      s == Applied(roomy, u) IN
    /\ updates < MaxUpdates /\ updates' = updates + 1
    /\ refused' = (new > 0 /\ ~HasRoom(sim.positions, listed, new))
    /\ IF refused'
       THEN sim' = roomy /\ UNCHANGED toNode
       ELSE IF s = roomy
       THEN sim' = s /\ UNCHANGED toNode
       ELSE /\ sim' = [Bumped(s) EXCEPT !.dirty = FALSE]
            /\ Broadcast(Bumped(s))
    /\ UNCHANGED <<linkVars, held, passed, slot, tuned, lost>>

\* mavSetPositions: where the MAVLink bridge moved listed nodes to; ids the hub does not
\* list are ignored, and the others are told on the next tick.
SetPositions(moves) ==
  LET listed == {n \in DOMAIN moves : n \in Node /\ entry[n].listed}
      s == [sim EXCEPT !.positions = Over(Restrict(moves, listed), @)] IN
    /\ updates < MaxUpdates /\ updates' = updates + 1
    /\ s # sim
    /\ sim' = [Bumped(s) EXCEPT !.dirty = TRUE]
    /\ UNCHANGED <<linkVars, toNode, held, passed, slot, tuned, lost, refused>>

\* The process restarts: only its clock is kept.
CenterRestarts ==
  /\ CenterRestart
  /\ sim' = Fresh(sim.version)
  /\ UNCHANGED <<toNode, held, passed, slot, tuned, lost, refused, updates>>

Next ==
  \/ \E n \in Node :
       \/ \E g \in Link : Registers(n, g)
       \/ /\ \/ \E g \in Link : Dial(n, g) \/ ConnDown(n, g) \/ CenterDrops(n, g)
             \/ NodeDrops(n) \/ Restart(n)
          /\ UNCHANGED simVars
       \/ Crashes(n) \/ Tunes(n)
       \/ \E f \in toNode[n] : Receives(n, f) \/ LosesConfig(n, f)
  \/ Tick \/ CenterRestarts
  \/ \E u \in Requests : Update(u)
  \/ \E n \in Node, p \in Position : SetPositions([id \in {n} |-> p])

(***************************************************************************)
(* Fairness: each owner of a queue keeps up with it (as in CenterTasks).   *)
(***************************************************************************)
Overdue(n) ==
  \/ running[n] /\ uplink[n] = 0 /\ \E g \in Link : sock[n][g].stage = "free"
  \/ uplink[n] # 0 /\ ~sock[n][uplink[n]].live
  \/ \E g \in Link :
       \/ sock[n][g].live /\ uplink[n] # g
       \/ sock[n][g].stage = "queued"
       \/ sock[n][g].stage = "seen" /\ ~sock[n][g].live
  \/ toNode[n] # {} \/ slot[n] # -1

Fairness == (\A n \in Node : []<>~Overdue(n)) /\ []<>~sim.dirty

Spec == Init /\ [][Next]_vars /\ Fairness

(* ------------------------------ Properties ------------------------------ *)

\* Whoever holds settings c has everything that d says.
Covers(c, d) ==
  /\ c.version = d.version /\ c.override = d.override
  /\ \A id \in DOMAIN d.positions : id \in DOMAIN c.positions /\ c.positions[id] = d.positions[id]

Copies == {held[n] : n \in Node} \union UNION {{f.config : f \in toNode[n]} : n \in Node}

\* A version names one content, also across restarts of the control center: two copies
\* of one version differ at most in placements of unlisted ids, which the hub forgets for
\* want of room without a new version (updateSim, refused); none is newer than the hub's
\* settings, and a copy of the hub's version has all that the hub holds.
VersionNames ==
  /\ \A c, d \in Copies : c.version = d.version => Covers(c, d) \/ Covers(d, c)
  /\ \A c \in Copies : c.version <= sim.version
                       /\ (c.version = sim.version => Covers(c, sim))

\* Every node the hub is connected to comes to hold the hub's settings, and its
\* election to use their override, unless the frame that carried them was lost:
\* joins, updates, reconnects, replaced links and a restarted control center
\* included.
SettingsHeld ==
  \A n \in Node : Connected(n) /\ Whole(n, entry[n].link) =>
    \/ lost[n] >= sim.version
    \/ Covers(held[n], sim) /\ tuned[n] = sim.override

\* A listed node that was told to the dashboard has a place on the map, however
\* often the cap forced the hub to forget placements (makeRoom, positionOf).
ListedPlaced == \A n \in Node : entry[n].listed => n \in DOMAIN sim.positions

\* What the settings say, and of whom.
SettingsSound == VersionNames /\ ListedPlaced
=============================================================================
