---------------------------- MODULE CenterServer ----------------------------
(***************************************************************************)
(* The goroutines of the control center (controlcenter/server.go): one hub *)
(* owns all the state and runs closures that arrive on a bounded queue,    *)
(* browser handlers wait for theirs (do) or give up, node handlers leave   *)
(* theirs (post) and are held up by a full queue, and a shutdown meets     *)
(* every one of them somewhere in between.  What the closures change is    *)
(* CenterTasks' and CenterSim's subject; here they are the registration of *)
(* browsers and the node events a browser is owed.                         *)
(***************************************************************************)
EXTENDS Integers, Sequences, FiniteSets, SequencesExt

CONSTANTS
  Browsers,   \* dashboards that open a WebSocket, once each
  Nodes,      \* node sockets that arrive, once each
  OpsDepth,   \* opsDepth
  Room,       \* ClientBuffer
  Slots,      \* MaxPendingHandshakes
  Snapshot    \* a message that is no event

ASSUME ServerAssumption ==
  /\ OpsDepth \in Nat \ {0} /\ Room \in Nat \ {0} /\ Slots \in Nat \ {0}
  /\ Browsers \cap Nodes = {} /\ Snapshot \notin Int

VARIABLES
  asked,      \* Run's context is cancelled
  runner,     \* Run: serving, closing, cut, done
  hub,        \* the op the hub is running, or NoOp
  ops,        \* Server.ops
  hubDone,    \* the hub has stopped
  clients,    \* hub.clients
  links,      \* hub.nodes with a link
  told,       \* events so far: what was announced to the browsers then registered
  handler,    \* handleWS: where the handler of a browser is
  op,         \* the state of its current op: none, queued, running, abandoned, ran
  cancelled,  \* the handler's context has ended
  out,        \* wsClient.out
  shown,      \* history: the events a browser that is listening was shown
  owed,       \* history: how many events there had been when it saw the upgrade
  conn,       \* serveNode: where the handler of a node socket is
  open,       \* node sockets not closed
  tracked,    \* Server.socks
  collected,  \* the sockets Run found to close
  accepting   \* the accept loop: listening, holding a socket it has not tracked yet, stopped

hubVars == <<hub, clients, links, told>>
webVars == <<handler, op, cancelled, out, shown, owed>>
nodeVars == <<conn, open, tracked, accepting, collected>>
vars == <<asked, runner, ops, hubDone, hubVars, webVars, nodeVars>>

NoOp == [kind |-> "none", who |-> "none"]
Op(kind, who) == [kind |-> kind, who |-> who]

Init ==
  /\ asked = FALSE /\ runner = "serving" /\ hubDone = FALSE
  /\ hub = NoOp /\ ops = <<>> /\ clients = {} /\ links = {} /\ told = 0
  /\ handler = [b \in Browsers |-> "away"]
  /\ op = [b \in Browsers |-> "none"]
  /\ cancelled = [b \in Browsers |-> FALSE]
  /\ out = [b \in Browsers |-> <<>>]
  /\ shown = [b \in Browsers |-> {}]
  /\ owed = [b \in Browsers |-> -1]
  /\ conn = [n \in Nodes |-> "away"]
  /\ open = {} /\ tracked = {} /\ collected = {} /\ accepting = "listening"

GoesTo(b, place) == handler' = [handler EXCEPT ![b] = place]
Becomes(n, place) == conn' = [conn EXCEPT ![n] = place]
OpIs(b, state) == op' = [op EXCEPT ![b] = state]

-----------------------------------------------------------------------------
(* do: a browser handler asks the hub and waits.  A place "add?" offers    *)
(* the op, "add!" waits for it, "add~" has stopped waiting.                *)

\* The kind of op a handler is busy with, and where its answer takes it.
Asking == [add |-> [offer |-> "add?", wait |-> "add!", leave |-> "add~", yes |-> "upgrade", no |-> "over"],
           remove |-> [offer |-> "remove?", wait |-> "remove!", leave |-> "remove~", yes |-> "over", no |-> "over"]]
Kinds == DOMAIN Asking

\* Only the registration carries a context that ends; the removal has Background.
MayGiveUp(kind) == kind = "add"

\* stopped() is looked at once, before the op is offered.
Starts(b, kind) ==
  IF hubDone THEN GoesTo(b, Asking[kind].no) /\ OpIs(b, "none")
             ELSE GoesTo(b, Asking[kind].offer) /\ OpIs(b, "queued")

Offer(b, kind) ==
  /\ handler[b] = Asking[kind].offer
  /\ \/ /\ Len(ops) < OpsDepth
        /\ ops' = Append(ops, Op(kind, b))
        /\ GoesTo(b, Asking[kind].wait)
     \/ /\ hubDone \/ MayGiveUp(kind)
        /\ GoesTo(b, Asking[kind].no)
        /\ UNCHANGED ops
  /\ UNCHANGED <<asked, runner, hubDone, hubVars, op, cancelled, out, shown, owed, nodeVars>>

Answered(b, kind) ==
  /\ handler[b] = Asking[kind].wait /\ op[b] = "ran"
  /\ GoesTo(b, Asking[kind].yes)
  /\ UNCHANGED <<asked, runner, ops, hubDone, hubVars, op, cancelled, out, shown, owed, nodeVars>>

Gives(b, kind) ==
  /\ handler[b] = Asking[kind].wait
  /\ hubDone \/ MayGiveUp(kind)
  /\ GoesTo(b, Asking[kind].leave)
  /\ UNCHANGED <<asked, runner, ops, hubDone, hubVars, op, cancelled, out, shown, owed, nodeVars>>

\* The compare-and-swap: an op not begun is abandoned, one begun is waited for.
Leaves(b, kind) ==
  /\ handler[b] = Asking[kind].leave
  /\ \/ op[b] = "queued" /\ OpIs(b, "abandoned") /\ GoesTo(b, Asking[kind].no)
     \/ op[b] = "ran" /\ GoesTo(b, Asking[kind].yes) /\ UNCHANGED op
  /\ UNCHANGED <<asked, runner, ops, hubDone, hubVars, cancelled, out, shown, owed, nodeVars>>

-----------------------------------------------------------------------------
(* handleWS, its reader and its writer.                                    *)

\* Mutant: the browser is told of the upgrade first, and registered after.
UpgradesFirst(b) ==
  /\ handler[b] = "away"
  /\ Starts(b, "add")
  /\ owed' = [owed EXCEPT ![b] = told]
  /\ UNCHANGED <<asked, runner, ops, hubDone, hubVars, cancelled, out, shown, nodeVars>>

\* Registration comes before the upgrade.
Opens(b) ==
  /\ handler[b] = "away"
  /\ Starts(b, "add")
  /\ UNCHANGED <<asked, runner, ops, hubDone, hubVars, cancelled, out, shown, owed, nodeVars>>

\* websocket.Accept: the browser sees the 101, unless the upgrade is refused.
Upgrade(b) ==
  /\ handler[b] = "upgrade"
  /\ \/ /\ GoesTo(b, "writing")
        /\ owed' = [owed EXCEPT ![b] = IF @ < 0 THEN told ELSE @]
        /\ UNCHANGED op
     \/ Starts(b, "remove") /\ UNCHANGED owed
  /\ UNCHANGED <<asked, runner, ops, hubDone, hubVars, cancelled, out, shown, nodeVars>>

\* The reader ends with the connection, and cancels the writer.
ReaderEnds(b) ==
  /\ handler[b] = "writing" /\ ~cancelled[b]
  /\ cancelled' = [cancelled EXCEPT ![b] = TRUE]
  /\ UNCHANGED <<asked, runner, ops, hubDone, hubVars, handler, op, out, shown, owed, nodeVars>>

\* writeWS: a message is written in time.
Write(b) ==
  /\ handler[b] = "writing" /\ ~cancelled[b] /\ out[b] # <<>>
  /\ shown' = [shown EXCEPT ![b] = @ \cup ({Head(out[b])} \ {Snapshot})]
  /\ out' = [out EXCEPT ![b] = Tail(@)]
  /\ UNCHANGED <<asked, runner, ops, hubDone, hubVars, handler, op, cancelled, owed, nodeVars>>

\* The context ended, or the browser did not take a message in WSWriteTimeout.
WriterEnds(b) ==
  /\ handler[b] = "writing" /\ (cancelled[b] \/ out[b] # <<>>)
  /\ cancelled' = [cancelled EXCEPT ![b] = TRUE]
  /\ Starts(b, "remove")
  /\ shown' = [shown EXCEPT ![b] = {}] /\ owed' = [owed EXCEPT ![b] = -1]
  /\ UNCHANGED <<asked, runner, ops, hubDone, hubVars, out, nodeVars>>

-----------------------------------------------------------------------------
(* The accept loop and serveNode.                                          *)

HandshakesPending == {n \in Nodes : conn[n] \in {"held", "shaking"}}

\* A handshake slot is taken without waiting; without one the socket is refused.
Accept(n) ==
  /\ accepting = "listening" /\ runner \in {"serving", "closing"} /\ conn[n] = "away"
  /\ IF Cardinality(HandshakesPending) < Slots
     THEN Becomes(n, "held") /\ open' = open \cup {n} /\ accepting' = "holding"
     ELSE Becomes(n, "off") /\ UNCHANGED <<open, accepting>>
  /\ UNCHANGED <<asked, runner, ops, hubDone, hubVars, webVars, tracked, collected>>

\* track: a server that is closing takes no socket, and the loop ends.
Track(n) ==
  /\ conn[n] = "held"
  /\ IF runner = "serving"
     THEN Becomes(n, "shaking") /\ tracked' = tracked \cup {n} /\ accepting' = "listening" /\ UNCHANGED open
     ELSE Becomes(n, "off") /\ open' = open \ {n} /\ accepting' = "stopped" /\ UNCHANGED tracked
  /\ UNCHANGED <<asked, runner, ops, hubDone, hubVars, webVars, collected>>

\* Accept fails for good once the listener is closed; while it backs off the hub may stop.
AcceptEnds ==
  /\ accepting = "listening" /\ (runner = "cut" \/ hubDone)
  /\ accepting' = "stopped"
  /\ UNCHANGED <<asked, runner, ops, hubDone, hubVars, webVars, conn, open, tracked, collected>>

\* acceptHello: refused, malformed, late, or cut off: untracked.
HelloFails(n) ==
  /\ conn[n] = "shaking"
  /\ Becomes(n, "off") /\ open' = open \ {n} /\ tracked' = tracked \ {n}
  /\ UNCHANGED <<asked, runner, ops, hubDone, hubVars, webVars, accepting, collected>>

Hello(n) ==
  /\ conn[n] = "shaking" /\ n \in open
  /\ Becomes(n, IF hubDone THEN "live" ELSE "up?")
  /\ UNCHANGED <<asked, runner, ops, hubDone, hubVars, webVars, open, tracked, accepting, collected>>

\* post: connUp or connDown is left with the hub, or the hub is gone.
Post(n) ==
  /\ conn[n] \in {"up?", "down?"}
  /\ \/ /\ Len(ops) < OpsDepth
        /\ ops' = Append(ops, Op(IF conn[n] = "up?" THEN "up" ELSE "down", n))
     \/ hubDone /\ UNCHANGED ops
  /\ Becomes(n, IF conn[n] = "up?" THEN "live" ELSE "posted")
  /\ UNCHANGED <<asked, runner, hubDone, hubVars, webVars, open, tracked, accepting, collected>>

\* The node goes away: at any time after the handshake.
PeerLeaves(n) ==
  /\ n \in open /\ conn[n] \in {"up?", "live"}
  /\ open' = open \ {n}
  /\ UNCHANGED <<asked, runner, ops, hubDone, hubVars, webVars, conn, tracked, accepting, collected>>

ConnDone(n) ==
  /\ conn[n] = "live" /\ n \notin open
  /\ Becomes(n, IF hubDone THEN "posted" ELSE "down?")
  /\ UNCHANGED <<asked, runner, ops, hubDone, hubVars, webVars, open, tracked, accepting, collected>>

Untrack(n) ==
  /\ conn[n] = "posted"
  /\ Becomes(n, "off") /\ tracked' = tracked \ {n}
  /\ UNCHANGED <<asked, runner, ops, hubDone, hubVars, webVars, open, accepting, collected>>

-----------------------------------------------------------------------------
(* The hub.                                                                *)

\* sendTo: a browser with no room is dropped and cancelled, never waited for.
SentTo(to, msg) ==
  LET slow == {b \in to : Len(out[b]) >= Room} IN
    /\ out' = [b \in Browsers |-> IF b \in to \ slow THEN Append(out[b], msg) ELSE out[b]]
    /\ cancelled' = [b \in Browsers |-> cancelled[b] \/ b \in slow]
    /\ clients' = (clients \cup to) \ slow

\* The next op is taken; an abandoned one is nothing.
Take ==
  /\ hub = NoOp /\ ~hubDone /\ ops # <<>>
  /\ ops' = Tail(ops)
  /\ LET next == Head(ops) IN
       IF next.who \in Browsers
       THEN IF op[next.who] = "abandoned" THEN UNCHANGED <<hub, op>>
            ELSE hub' = next /\ OpIs(next.who, "running")
       ELSE hub' = next /\ UNCHANGED op
  /\ UNCHANGED <<asked, runner, hubDone, clients, links, told,
                 handler, cancelled, out, shown, owed, nodeVars>>

RunAdd ==
  /\ hub.kind = "add"
  /\ SentTo({hub.who}, Snapshot)
  /\ OpIs(hub.who, "ran") /\ hub' = NoOp
  /\ UNCHANGED <<asked, runner, ops, hubDone, links, told, handler, shown, owed, nodeVars>>

RunRemove ==
  /\ hub.kind = "remove"
  /\ clients' = clients \ {hub.who}
  /\ OpIs(hub.who, "ran") /\ hub' = NoOp
  /\ UNCHANGED <<asked, runner, ops, hubDone, links, told, handler, cancelled, out, shown, owed, nodeVars>>

\* onConnUp, onConnDown: what changes is announced to every browser.
RunNode ==
  /\ hub.kind \in {"up", "down"}
  /\ links' = IF hub.kind = "up" THEN links \cup {hub.who} ELSE links \ {hub.who}
  /\ IF links' # links
     THEN told' = told + 1 /\ SentTo(clients, told')
     ELSE UNCHANGED <<told, clients, cancelled, out>>
  /\ hub' = NoOp
  /\ UNCHANGED <<asked, runner, ops, hubDone, handler, op, shown, owed, nodeVars>>

\* The snapshot ticker.
Tick ==
  /\ hub = NoOp /\ ~hubDone /\ clients # {}
  /\ SentTo(clients, Snapshot)
  /\ UNCHANGED <<asked, runner, ops, hubDone, hub, links, told, handler, op, shown, owed, nodeVars>>

\* Between two ops, ctx.Done: every browser is dropped and every link closed.
HubStops ==
  /\ asked /\ hub = NoOp /\ ~hubDone
  /\ hubDone' = TRUE
  /\ cancelled' = [b \in Browsers |-> cancelled[b] \/ b \in clients]
  /\ open' = open \ links
  /\ UNCHANGED <<asked, runner, ops, hubVars, handler, op, out, shown, owed, conn, tracked, accepting, collected>>

-----------------------------------------------------------------------------
(* Run's end.                                                              *)

Stop ==
  /\ ~asked /\ asked' = TRUE
  /\ UNCHANGED <<runner, ops, hubDone, hubVars, webVars, nodeVars>>

\* closing is set and the sockets are collected under one lock.
Closing ==
  /\ hubDone /\ runner = "serving" /\ runner' = "closing"
  /\ collected' = tracked
  /\ UNCHANGED <<asked, ops, hubDone, hubVars, webVars, conn, open, tracked, accepting>>

\* The listener is closed, then the sockets that were collected.
Cut ==
  /\ runner = "closing" /\ runner' = "cut"
  /\ open' = open \ collected
  /\ UNCHANGED <<asked, ops, hubDone, hubVars, webVars, conn, tracked, accepting, collected>>

Joined ==
  /\ runner = "cut" /\ tracked = {} /\ accepting = "stopped"
  /\ runner' = "done"
  /\ UNCHANGED <<asked, ops, hubDone, hubVars, webVars, nodeVars>>

Browser(b) ==
  \/ Opens(b) \/ Upgrade(b) \/ ReaderEnds(b) \/ Write(b) \/ WriterEnds(b)
  \/ \E kind \in Kinds : Offer(b, kind) \/ Answered(b, kind) \/ Gives(b, kind) \/ Leaves(b, kind)

NodeSocket(n) ==
  \/ Accept(n) \/ Track(n) \/ HelloFails(n) \/ Hello(n) \/ Post(n)
  \/ PeerLeaves(n) \/ ConnDone(n) \/ Untrack(n)

HubStep == Take \/ RunAdd \/ RunRemove \/ RunNode

Next ==
  \/ \E b \in Browsers : Browser(b)
  \/ \E n \in Nodes : NodeSocket(n)
  \/ HubStep \/ Tick \/ HubStops
  \/ AcceptEnds \/ Stop \/ Closing \/ Cut \/ Joined

Fairness ==
  /\ \A b \in Browsers :
       /\ WF_vars(Upgrade(b)) /\ WF_vars(WriterEnds(b) /\ cancelled[b])
       /\ \A kind \in Kinds :
            WF_vars(Offer(b, kind)) /\ WF_vars(Answered(b, kind)) /\ WF_vars(Leaves(b, kind))
       /\ WF_vars(Gives(b, "remove"))
       /\ WF_vars(Gives(b, "add") /\ hubDone)
  /\ \A n \in Nodes :
       /\ WF_vars(Track(n)) /\ WF_vars(HelloFails(n)) /\ WF_vars(ConnDone(n)) /\ WF_vars(Untrack(n))
       /\ WF_vars(Post(n))
  /\ WF_vars(HubStep) /\ SF_vars(HubStops)
  /\ WF_vars(AcceptEnds) /\ WF_vars(Closing) /\ WF_vars(Cut) /\ WF_vars(Joined)

Spec == Init /\ [][Next]_vars /\ Fairness
-----------------------------------------------------------------------------

TypeOK ==
  /\ runner \in {"serving", "closing", "cut", "done"}
  /\ Len(ops) <= OpsDepth
  /\ \A b \in Browsers : Len(out[b]) <= Room /\ op[b] \in {"none", "queued", "running", "abandoned", "ran"}
  /\ told \in Nat
  /\ tracked \subseteq Nodes /\ open \subseteq Nodes /\ links \subseteq Nodes
  /\ Cardinality(HandshakesPending) <= Slots

\* An event is a moment that no later snapshot replays: a browser that has seen
\* its upgrade and was not dropped has been shown, or will be, every event
\* since (handleWS registers before it upgrades; sendTo drops, never skips).
NothingMissed ==
  \A b \in Browsers : handler[b] = "writing" /\ ~cancelled[b] =>
    (owed[b] + 1)..told \subseteq shown[b] \cup ToSet(out[b])

\* The hub never holds a browser whose handler has returned: a registration
\* that was given up does not happen later, and one that happened is removed
\* (do's compare-and-swap, handleWS).
RegisteredLives == \A b \in clients : hubDone \/ handler[b] # "over"

\* No event is skipped for a browser that is listening, and no handler that has
\* returned is held (hub.go sendTo, http.go handleWS, server.go do).
ClientsSound == TypeOK /\ NothingMissed /\ RegisteredLives

\* A control center told to stop does stop: Run joins the accept loop and every
\* node socket, and no browser handler waits for a hub that has gone (Run, do,
\* post, track).
CenterStops ==
  asked ~> (runner = "done" /\ \A b \in Browsers : handler[b] \in {"away", "over"})
=============================================================================
