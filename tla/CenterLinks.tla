----------------------------- MODULE CenterLinks -----------------------------
(***************************************************************************)
(* The links between the nodes and the control center: the node's uplink   *)
(* client on one side, one goroutine per socket and the hub on the other.  *)
(* The two ends of a link learn of its end at different times, and the     *)
(* hub learns everything through one queue, so a dead link may still be    *)
(* the registered one, and a socket may be dead before it is registered.   *)
(* CenterTasks and CenterSim add what travels over the links.              *)
(***************************************************************************)
EXTENDS Integers, FiniteSets

CONSTANTS
  Node,        \* the nodes that dial the control center
  MaxLinks,    \* bound: sockets of a node that exist at a time
  MaxFaults,   \* bound: cut links, crashes and restarts, kills, lost frames
  MaxRestarts  \* bound: restarts of the control center

ASSUME LinksAssumption ==
  /\ MaxLinks \in Nat \ {0} /\ MaxFaults \in Nat /\ MaxRestarts \in Nat

VARIABLES
  running,   \* running[n]: the node process is up
  uplink,    \* uplink[n]: the socket the node's client holds, 0 for none
  sock,      \* sock[n][g]: the control center's end of socket g of node n
  entry,     \* the hub's nodes: what is registered about each of them
  news,      \* ghost: NODE_UP minus NODE_DOWN events sent about each node
  faults,    \* faults spent
  restarts   \* restarts spent

linkVars == <<running, uplink, sock, entry, news, faults, restarts>>

Link == 1..MaxLinks

\* serveNode: connUp is posted ("queued") and run ("seen"); connDown frees the number.
Stage == {"free", "queued", "seen"}

\* defaultTelemetry: what is shown of a node that has reported nothing.
Unlisted == [listed |-> FALSE, link |-> 0, role |-> "worker", killed |-> FALSE]

LinksTypeOK ==
  /\ running \in [Node -> BOOLEAN]
  /\ uplink \in [Node -> {0} \union Link]
  /\ sock \in [Node -> [Link -> [stage : Stage, live : BOOLEAN]]]
  /\ entry \in [Node -> [listed : BOOLEAN, link : {0} \union Link,
                         role : {"worker", "leader"}, killed : BOOLEAN]]
  /\ news \in [Node -> Int]
  /\ faults \in 0..MaxFaults /\ restarts \in 0..MaxRestarts

LinksInit ==
  /\ running = [n \in Node |-> TRUE]
  /\ uplink = [n \in Node |-> 0]
  /\ sock = [n \in Node |-> [g \in Link |-> [stage |-> "free", live |-> FALSE]]]
  /\ entry = [n \in Node |-> Unlisted]
  /\ news = [n \in Node |-> 0]
  /\ faults = 0 /\ restarts = 0

Fault == faults < MaxFaults /\ faults' = faults + 1

Connected(n) == entry[n].link # 0

\* The link both ends hold and neither has given up.
Whole(n, g) == running[n] /\ uplink[n] = g /\ sock[n][g].live

(* ------------------------------ Both ends ------------------------------ *)

\* A node dials, the control center accepts its HELLO and posts connUp.
Dial(n, g) ==
  /\ running[n] /\ uplink[n] = 0
  /\ sock[n][g].stage = "free" /\ \A h \in 1..(g - 1) : sock[n][h].stage # "free"
  /\ uplink' = [uplink EXCEPT ![n] = g]
  /\ sock' = [sock EXCEPT ![n][g] = [stage |-> "queued", live |-> TRUE]]
  /\ UNCHANGED <<running, entry, news, faults, restarts>>

\* The client's end of the link ends: free once the other end is dead.
NodeDrops(n) ==
  /\ uplink[n] # 0
  /\ IF sock[n][uplink[n]].live THEN Fault ELSE UNCHANGED faults
  /\ uplink' = [uplink EXCEPT ![n] = 0]
  /\ UNCHANGED <<running, sock, entry, news, restarts>>

\* The control center's end ends: connDown is posted. Free once the node left.
CenterDrops(n, g) ==
  /\ sock[n][g].live
  /\ IF uplink[n] = g THEN Fault ELSE UNCHANGED faults
  /\ sock' = [sock EXCEPT ![n][g].live = FALSE]
  /\ UNCHANGED <<running, uplink, entry, news, restarts>>

\* The node process ends; the control center's end does not know yet.
Crash(n) ==
  /\ running[n] /\ Fault
  /\ running' = [running EXCEPT ![n] = FALSE]
  /\ uplink' = [uplink EXCEPT ![n] = 0]
  /\ UNCHANGED <<sock, entry, news, restarts>>

Restart(n) ==
  /\ ~running[n]
  /\ running' = [running EXCEPT ![n] = TRUE]
  /\ UNCHANGED <<uplink, sock, entry, news, faults, restarts>>

(* ------------------------------- The hub -------------------------------- *)

\* A killed mark means the same id is a new process: its last report is void.
Registered(e, g) ==
  [e EXCEPT !.listed = TRUE, !.link = g, !.killed = FALSE,
            !.role = IF e.killed THEN Unlisted.role ELSE e.role]

\* The newest registration wins; the link it replaces is closed silently.
ConnUp(n, g) ==
  /\ sock[n][g].stage = "queued"
  /\ LET old == entry[n].link IN
       /\ entry' = [entry EXCEPT ![n] = Registered(@, g)]
       /\ sock' = [sock EXCEPT ![n] =
            [h \in Link |-> [stage |-> IF h = g THEN "seen" ELSE @[h].stage,
                             live |-> @[h].live /\ h # old]]]
       /\ news' = [news EXCEPT ![n] = IF old = 0 THEN @ + 1 ELSE @]
  /\ UNCHANGED <<running, uplink, faults, restarts>>

\* Mutant of ConnDown: a replaced link's end is taken for the node's.
AnyConnDown(n, g) ==
  /\ sock[n][g].stage = "seen" /\ ~sock[n][g].live
  /\ sock' = [sock EXCEPT ![n][g].stage = "free"]
  /\ entry' = [entry EXCEPT ![n].link = 0]
  /\ news' = [news EXCEPT ![n] = @ - 1]
  /\ UNCHANGED <<running, uplink, faults, restarts>>

\* Only the registered link going down is a node going down.
ConnDown(n, g) ==
  /\ sock[n][g].stage = "seen" /\ ~sock[n][g].live
  /\ sock' = [sock EXCEPT ![n][g].stage = "free"]
  /\ IF entry[n].link = g
     THEN /\ entry' = [entry EXCEPT ![n].link = 0]
          /\ news' = [news EXCEPT ![n] = @ - 1]
     ELSE UNCHANGED <<entry, news>>
  /\ UNCHANGED <<running, uplink, faults, restarts>>

\* expire: a node disconnected for NodeExpiry is forgotten, its kill mark too.
Expired(gone) ==
  /\ gone \subseteq {n \in Node : entry[n].listed /\ ~Connected(n)}
  /\ entry' = [n \in Node |-> IF n \in gone THEN Unlisted ELSE entry[n]]

\* chaos kill: the mark is set when the kill is sent to a connected node.
MarkKilled(n) ==
  /\ Connected(n)
  /\ entry' = [entry EXCEPT ![n].killed = TRUE]

\* The control center process restarts: nothing it knew survives.
CenterRestart ==
  /\ restarts < MaxRestarts /\ restarts' = restarts + 1 /\ Fault
  /\ entry' = [n \in Node |-> Unlisted]
  /\ news' = [n \in Node |-> 0]
  /\ sock' = [n \in Node |-> [g \in Link |-> [stage |-> "free", live |-> FALSE]]]
  /\ UNCHANGED <<running, uplink>>

(* ------------------------------ Properties ------------------------------ *)

\* The dashboard's node events tell exactly what is registered: a node is
\* announced up once while it is connected, announced down once when its last
\* link ends, and a replaced link says nothing (onConnUp, onConnDown).
EventsTell == \A n \in Node : news[n] = IF Connected(n) THEN 1 ELSE 0
=============================================================================
