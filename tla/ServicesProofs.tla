--------------------------- MODULE ServicesProofs ---------------------------
(***************************************************************************)
(* Safety of the services that start and stop (MCServices), for every      *)
(* value of their constants.                                               *)
(*                                                                         *)
(* Shutdown: nothing of a node's process is left when it returns.  The     *)
(* invariant says which places of a goroutine hold a socket, who looks     *)
(* after the registered connection, and what is closed before what.        *)
(*                                                                         *)
(* CenterServer: a browser that listens misses no event.  The invariant    *)
(* says, for every place of a handler, where its op is, whether the hub    *)
(* knows the browser, and that an event told since the snapshot is shown   *)
(* or still queued.                                                        *)
(*                                                                         *)
(* Framing: the reader is always on a boundary.  The invariant lays the    *)
(* units in the reader's hands, on the stream and in the writer's buffer   *)
(* end to end: they are the rest of the current frame and every later one, *)
(* one after the other with nothing between them.                          *)
(*                                                                         *)
(* Relay: a line that passes as a sample is one.  The invariant says that  *)
(* in all that is put together, read or arrived no beginning of a sample   *)
(* is followed by the end of another, what the board is about to print     *)
(* after a beginning, and that the line being put together is the one left *)
(* open by what was handled, or that one is too long to be a sample.       *)
(***************************************************************************)
EXTENDS MCServices, SequenceTheorems, FiniteSetTheorems, WellFoundedInduction, TLAPS

-----------------------------------------------------------------------------
(* A node's process: what is left of it. *)

Places == {"new", "off", "dialing", "shaking", "shaken", "up", "live", "down", "rest",
           "backoff"}

\* The places of a thread that holds an open socket, or may.
Holding == {"shaking", "shaken", "up", "live"}

NodeTypes ==
  /\ stage \in {"running", "listener", "prober", "pool", "done"}
  /\ accept \in {"accepting", "backoff", "stopped"}
  /\ threadAt \in [N!Thread -> Places]
  /\ sock \in [N!Thread -> {"none", "open", "closed"}]
  /\ dials \subseteq Dials /\ current \in N!Thread \cup {NoOne}
  /\ snap \subseteq N!Thread /\ events \in 0..EventRoom /\ replies \in 0..1
  /\ hangup \in BOOLEAN /\ closed \in BOOLEAN /\ ended \in BOOLEAN
  /\ shut \in BOOLEAN /\ deaf \in BOOLEAN

\* A thread that gave its connection up closed it.
Sockets == \A t \in N!Thread : threadAt[t] \notin Holding => sock[t] # "open"

\* The registered connection has a goroutine that looks after it.
LookedAfter == current # NoOne => threadAt[current] \in {"up", "live"}

\* What has been closed stays closed.
ClosedInOrder ==
  /\ stage \in {"prober", "pool", "done"} => accept = "stopped" /\ deaf
  /\ stage \in {"pool", "done"} => replies = 0
  /\ stage = "done" => \A t \in N!Thread : threadAt[t] \in {"new", "off"}

NodeInv == NodeTypes /\ Sockets /\ LookedAfter /\ ClosedInOrder

LEMMA InitNode ==
  ASSUME N!ShutdownAssumption
  PROVE  N!Init => NodeInv
<1> SUFFICES ASSUME N!Init
             PROVE  NodeInv
  OBVIOUS
<1>1. EventRoom \in Nat \ {0}
  BY DEF N!ShutdownAssumption
<1>2. /\ threadAt \in [N!Thread -> {"new", "off"}]
      /\ sock \in [N!Thread -> {"none"}]
  BY DEF N!Init
<1>3. NodeTypes
  <2>1. threadAt \in [N!Thread -> Places] /\ sock \in [N!Thread -> {"none", "open", "closed"}]
    BY <1>2 DEF Places
  <2>2. /\ stage = "running" /\ accept = "accepting" /\ hangup = FALSE /\ dials = {} /\ current = NoOne
        /\ closed = FALSE /\ ended = FALSE /\ snap = {} /\ events = 0 /\ shut = FALSE
        /\ replies = 0 /\ deaf = FALSE
    BY DEF N!Init
  <2>3. events \in 0..EventRoom /\ replies \in 0..1
    BY <1>1, <2>2
  <2>4. hangup \in BOOLEAN /\ closed \in BOOLEAN /\ ended \in BOOLEAN /\ shut \in BOOLEAN /\ deaf \in BOOLEAN
    BY <2>2
  <2> QED
    BY <2>1, <2>2, <2>3, <2>4 DEF NodeTypes
<1>4. Sockets /\ LookedAfter /\ ClosedInOrder
  BY <1>2 DEF N!Init, Sockets, LookedAfter, ClosedInOrder
<1> QED
  BY <1>3, <1>4 DEF NodeInv

LEMMA NextNode ==
  ASSUME N!ShutdownAssumption
  PROVE  NodeInv /\ [N!Next]_N!vars => NodeInv'
<1> SUFFICES ASSUME NodeInv, [N!Next]_N!vars
             PROVE  NodeInv'
  OBVIOUS
<1> USE DEF NodeInv, NodeTypes, Sockets, LookedAfter, ClosedInOrder, Places, Holding
<1> USE DEF N!Moves, N!Gets, N!Hangs, N!pool, N!prober, N!Running
<1>1. N!Thread = Dials \cup Inbound /\ EventRoom \in Nat \ {0}
  BY DEF N!ShutdownAssumption, N!Thread
<1>2. CASE UNCHANGED N!vars
  BY <1>2 DEF N!vars
<1>3. ASSUME NEW s \in Inbound, N!Accept(s)
      PROVE  NodeInv'
  BY <1>1, <1>3 DEF N!Accept
<1>4. CASE N!AcceptError \/ N!AcceptAgain
  BY <1>4 DEF N!AcceptError, N!AcceptAgain
<1>5. ASSUME NEW d \in Dials, N!Connect(d)
      PROVE  NodeInv'
  BY <1>1, <1>5 DEF N!Connect
<1>6. ASSUME NEW t \in N!Thread,
             \/ N!Shaken(t) \/ N!ShakeFails(t) \/ N!Register(t) \/ N!Watched(t)
             \/ N!Emit(t) \/ N!ConnEnds(t)
      PROVE  NodeInv'
  <2>1. CASE N!Shaken(t)
    BY <1>1, <2>1 DEF N!Shaken
  <2>2. CASE N!ShakeFails(t)
    BY <1>1, <2>2 DEF N!ShakeFails, N!Without
  <2>3. CASE N!Register(t)
    <3>1. CASE N!Registered(t)
      BY <1>1, <2>3, <3>1 DEF N!Register, N!Registered
    <3>2. CASE N!Refused(t)
      BY <1>1, <2>3, <3>2 DEF N!Register, N!Refused, N!Without
    <3> QED
      BY <2>3, <3>1, <3>2 DEF N!Register
  <2>4. CASE N!Watched(t)
    BY <1>1, <2>4 DEF N!Watched, N!Without
  <2>5. CASE N!Emit(t)
    BY <1>1, <2>5 DEF N!Emit, N!Without
  <2>6. CASE N!ConnEnds(t)
    BY <1>1, <2>6 DEF N!ConnEnds
  <2> QED
    BY <1>6, <2>1, <2>2, <2>3, <2>4, <2>5, <2>6
<1>7. ASSUME NEW d \in Dials,
             \/ N!Dialled(d) \/ N!DialFails(d) \/ N!SelfConnect(d) \/ N!BackedOff(d)
             \/ N!Rested(d)
      PROVE  NodeInv'
  <2>1. CASE N!Dialled(d)
    BY <1>1, <2>1 DEF N!Dialled
  <2>2. CASE N!DialFails(d)
    BY <1>1, <2>2 DEF N!DialFails
  <2>3. CASE N!SelfConnect(d)
    BY <1>1, <2>3 DEF N!SelfConnect
  <2>4. CASE N!BackedOff(d)
    BY <1>1, <2>4 DEF N!BackedOff
  <2>5. CASE N!Rested(d)
    BY <1>1, <2>5 DEF N!Rested
  <2> QED
    BY <1>7, <2>1, <2>2, <2>3, <2>4, <2>5
<1>8. CASE N!Ping \/ N!Reply \/ N!Drain
  BY <1>1, <1>8 DEF N!Ping, N!Reply, N!Drain, N!MaxReplies
<1>9. CASE N!Stop \/ N!ProberClose \/ N!PoolClose
  BY <1>1, <1>9 DEF N!Stop, N!ProberClose, N!PoolClose, N!Pending
<1>10. CASE N!PoolCancel \/ N!PoolHangUp
  <2>1. CASE N!PoolCancel
    BY <2>1 DEF N!PoolCancel
  <2>2. CASE N!PoolHangUp
    <3>1. /\ UNCHANGED <<stage, accept, hangup, threadAt, dials, current, closed, ended, events, shut,
                         replies, deaf>>
          /\ snap' = {} /\ sock' \in [N!Thread -> {"none", "open", "closed"}]
          /\ \A t \in N!Thread : sock'[t] = sock[t] \/ sock'[t] # "open"
      BY <2>2 DEF N!PoolHangUp
    <3> QED
      BY <3>1
  <2> QED
    BY <1>10, <2>1, <2>2
<1>11. CASE N!PoolClosed
  BY <1>1, <1>11 DEF N!PoolClosed, N!Joined
<1> QED
  BY <1>2, <1>3, <1>4, <1>5, <1>6, <1>7, <1>8, <1>9, <1>10, <1>11 DEF N!Next, N!ThreadStep

LEMMA NodeSound == NodeInv => NothingOutlives
BY DEF NodeInv, NodeTypes, Sockets, LookedAfter, ClosedInOrder, Places, Holding,
       NothingOutlives, N!TypeOK, N!NothingOutlives, N!Running, N!MaxReplies

\* When run returns, whatever was under way when the node was told to stop, every
\* goroutine has ended and every socket is closed, for any addresses, sockets, and
\* limits (cmd/swarm-node/main.go run, network/pool.go Close).
THEOREM NothingIsLeft == MCSpec => []NothingOutlives
<1>1. MCInit => NodeInv
  BY ServicesAssumption, InitNode DEF MCInit
<1>2. NodeInv /\ [MCNext]_<<which, vars, nodeProcess, relayProcess, framedStream>> => NodeInv'
  <2>1. UNCHANGED nodeProcess => UNCHANGED N!vars
    BY DEF nodeProcess, N!vars, N!pool, N!prober
  <2>2. [MCNext]_<<which, vars, nodeProcess, relayProcess, framedStream>> => [N!Next]_N!vars
    BY <2>1 DEF MCNext
  <2> QED
    BY <2>2, ServicesAssumption, NextNode
<1> QED
  BY <1>1, <1>2, NodeSound, PTL DEF MCSpec

-----------------------------------------------------------------------------
(* The control center's server: its browsers. *)

Message == Nat \cup {Snapshot}
BrowserOp == [kind : {"add", "remove"}, who : Browsers]
NodeOp == [kind : {"up", "down"}, who : Nodes]
AnyOp == BrowserOp \cup NodeOp
HandlerPlaces == {"away", "add?", "add!", "add~", "upgrade", "writing", "remove?", "remove!",
                  "remove~", "over"}

ServerTypes ==
  /\ runner \in {"serving", "closing", "cut", "done"}
  /\ hub \in AnyOp \cup {NoOp}
  /\ ops \in Seq(AnyOp) /\ Len(ops) <= OpsDepth
  /\ clients \subseteq Browsers
  /\ told \in Nat
  /\ handler \in [Browsers -> HandlerPlaces]
  /\ op \in [Browsers -> {"none", "queued", "running", "abandoned", "ran"}]
  /\ cancelled \in [Browsers -> BOOLEAN]
  /\ out \in [Browsers -> Seq(Message)]
  /\ \A b \in Browsers : Len(out[b]) <= Room
  /\ shown \in [Browsers -> SUBSET Message]
  /\ owed \in [Browsers -> Int]
  /\ conn \in [Nodes -> {"away", "held", "shaking", "up?", "live", "down?", "posted", "off"}]
  /\ tracked \subseteq Nodes /\ open \subseteq Nodes /\ links \subseteq Nodes
  /\ collected \subseteq Nodes
  /\ hubDone \in BOOLEAN

\* The handshakes pending are finitely many, and have a slot each.
Slotted == IsFiniteSet(HandshakesPending) /\ Cardinality(HandshakesPending) <= Slots

\* The kinds of the ops in a queue that are b's; b has no two there.
KindsIn(q, b) == {q[i].kind : i \in {j \in 1..Len(q) : q[j].who = b}}
Once(q, b) == \A i, j \in 1..Len(q) : q[i].who = b /\ q[j].who = b => i = j

\* The hub is running an op of b's; it has none.
Runs(b) == hub.kind \in {"add", "remove"} /\ hub.who = b
Idle(b) == KindsIn(ops, b) = {} /\ ~Runs(b)

\* A handler has one op at a time with the hub, queued or running.
OneOp ==
  /\ hubDone => hub = NoOp
  /\ \A b \in Browsers : Once(ops, b) /\ (Runs(b) => KindsIn(ops, b) = {})

\* Where the op is that a handler waits for.
OpOf(b, kind) ==
  /\ op[b] \in {"queued", "running", "ran"}
  /\ op[b] = "queued" => ~Runs(b) /\ KindsIn(ops, b) \subseteq {kind}
  /\ op[b] = "running" => Runs(b) /\ hub.kind = kind
  /\ op[b] = "ran" => Idle(b)

\* The hub knows the browser, or has let go of it.
Known(b) == b \in clients \/ cancelled[b] \/ hubDone

\* What each place of a handler says of its op and of its registration.
Registered(b) ==
  /\ handler[b] = "away" => op[b] = "none" /\ Idle(b) /\ b \notin clients
  /\ handler[b] = "add?" => op[b] = "queued" /\ Idle(b) /\ b \notin clients
  /\ handler[b] \in {"add!", "add~"} =>
       OpOf(b, "add") /\ IF op[b] = "ran" THEN Known(b) ELSE b \notin clients
  /\ handler[b] \in {"upgrade", "writing"} => op[b] = "ran" /\ Idle(b) /\ Known(b)
  /\ handler[b] = "remove?" => op[b] = "queued" /\ Idle(b)
  /\ handler[b] \in {"remove!", "remove~"} =>
       OpOf(b, "remove") /\ (op[b] = "ran" => b \notin clients)
  /\ handler[b] = "remove~" => hubDone
  /\ handler[b] = "over" =>
       hubDone \/ (b \notin clients /\ ~Runs(b) /\ (KindsIn(ops, b) # {} => op[b] = "abandoned"))

\* Nothing is owed before the upgrade, and every event since is shown or under way.
Announced(b) ==
  /\ handler[b] # "writing" => owed[b] = -1
  /\ handler[b] = "writing" /\ ~cancelled[b] =>
       (owed[b] + 1)..told \subseteq shown[b] \cup ToSet(out[b])

Served == OneOp /\ \A b \in Browsers : Registered(b) /\ Announced(b)

ServerInv == ServerTypes /\ Slotted /\ Served

-----------------------------------------------------------------------------
\* What joins a queue and what leaves it.
LEMMA QueueTail ==
  ASSUME NEW S, NEW q \in Seq(S), q # <<>>
  PROVE  /\ Head(q) \in S /\ Tail(q) \in Seq(S) /\ Len(Tail(q)) = Len(q) - 1
         /\ Len(q) \in Nat \ {0} /\ Head(q) = q[1]
         /\ \A i \in 1..(Len(q) - 1) : Tail(q)[i] = q[i + 1]
         /\ ToSet(q) = {Head(q)} \cup ToSet(Tail(q))
<1>1. /\ Head(q) = q[1] /\ Head(q) \in S /\ Tail(q) \in Seq(S)
      /\ Len(Tail(q)) = Len(q) - 1 /\ Len(q) \in Nat \ {0}
      /\ \A i \in 1..(Len(q) - 1) : Tail(q)[i] = q[i + 1]
  OBVIOUS
<1>2. DOMAIN q = 1..Len(q) /\ DOMAIN Tail(q) = 1..(Len(q) - 1)
  BY <1>1
<1>3. \A i \in 1..Len(q) : i = 1 \/ (i - 1 \in 1..(Len(q) - 1) /\ i = (i - 1) + 1)
  BY <1>1
<1>4. \A i \in 1..(Len(q) - 1) : i + 1 \in 1..Len(q)
  BY <1>1
<1>5. ToSet(q) \subseteq {Head(q)} \cup ToSet(Tail(q))
  <2> SUFFICES ASSUME NEW x \in ToSet(q), x # Head(q)
               PROVE  x \in ToSet(Tail(q))
    OBVIOUS
  <2>1. PICK i \in 1..Len(q) : x = q[i]
    BY <1>2 DEF ToSet
  <2>2. i - 1 \in 1..(Len(q) - 1) /\ i = (i - 1) + 1
    BY <1>1, <1>3, <2>1
  <2>3. x = Tail(q)[i - 1]
    BY <1>1, <2>1, <2>2
  <2> QED
    BY <1>2, <2>2, <2>3 DEF ToSet
<1>6. 1 \in 1..Len(q)
  BY <1>1
<1>7. {Head(q)} \cup ToSet(Tail(q)) \subseteq ToSet(q)
  BY <1>1, <1>2, <1>4, <1>6 DEF ToSet
<1> QED
  BY <1>1, <1>5, <1>7

LEMMA QueueAppend ==
  ASSUME NEW S, NEW q \in Seq(S), NEW x \in S
  PROVE  /\ Append(q, x) \in Seq(S) /\ Len(Append(q, x)) = Len(q) + 1 /\ Len(q) \in Nat
         /\ \A i \in 1..Len(q) : Append(q, x)[i] = q[i]
         /\ Append(q, x)[Len(q) + 1] = x
         /\ 1..(Len(q) + 1) = 1..Len(q) \cup {Len(q) + 1}
         /\ ToSet(Append(q, x)) = ToSet(q) \cup {x}
<1>1. /\ Append(q, x) \in Seq(S) /\ Len(Append(q, x)) = Len(q) + 1 /\ Len(q) \in Nat
      /\ \A i \in 1..Len(q) : Append(q, x)[i] = q[i]
      /\ Append(q, x)[Len(q) + 1] = x
  OBVIOUS
<1>2. DOMAIN q = 1..Len(q) /\ DOMAIN Append(q, x) = 1..(Len(q) + 1)
  BY <1>1
<1>3. 1..(Len(q) + 1) = 1..Len(q) \cup {Len(q) + 1}
  BY <1>1
<1>4. ToSet(Append(q, x)) = ToSet(q) \cup {x}
  BY <1>1, <1>2, <1>3 DEF ToSet
<1> QED
  BY <1>1, <1>3, <1>4

\* The same of the ops of one browser.
LEMMA OpJoins ==
  ASSUME NEW q \in Seq(AnyOp), NEW x \in AnyOp, NEW b
  PROVE  /\ KindsIn(Append(q, x), b) = KindsIn(q, b) \cup (IF x.who = b THEN {x.kind} ELSE {})
         /\ Once(q, b) /\ (x.who = b => KindsIn(q, b) = {}) => Once(Append(q, x), b)
<1>1. /\ Len(Append(q, x)) = Len(q) + 1 /\ Len(q) \in Nat
      /\ \A i \in 1..Len(q) : Append(q, x)[i] = q[i]
      /\ Append(q, x)[Len(q) + 1] = x
      /\ 1..(Len(q) + 1) = 1..Len(q) \cup {Len(q) + 1}
  BY QueueAppend
<1>2. KindsIn(Append(q, x), b) = KindsIn(q, b) \cup (IF x.who = b THEN {x.kind} ELSE {})
  BY <1>1 DEF KindsIn
<1>3. ASSUME Once(q, b), x.who = b => KindsIn(q, b) = {}
      PROVE  Once(Append(q, x), b)
  BY <1>1, <1>3 DEF KindsIn, Once
<1> QED
  BY <1>2, <1>3

LEMMA OpLeaves ==
  ASSUME NEW q \in Seq(AnyOp), q # <<>>, NEW b
  PROVE  /\ KindsIn(q, b) = KindsIn(Tail(q), b) \cup (IF Head(q).who = b THEN {Head(q).kind} ELSE {})
         /\ Once(q, b) => Once(Tail(q), b) /\ (Head(q).who = b => KindsIn(Tail(q), b) = {})
<1>1. /\ Len(Tail(q)) = Len(q) - 1 /\ Len(q) \in Nat \ {0} /\ Head(q) = q[1]
      /\ \A i \in 1..(Len(q) - 1) : Tail(q)[i] = q[i + 1]
  BY QueueTail
<1>2. \A i \in 1..Len(q) : i = 1 \/ (i - 1 \in 1..(Len(q) - 1) /\ i = (i - 1) + 1)
  BY <1>1
<1>3. \A i \in 1..(Len(q) - 1) : i + 1 \in 1..Len(q) /\ i + 1 # 1
  BY <1>1
<1>4. 1 \in 1..Len(q)
  BY <1>1
<1>5. KindsIn(q, b) \subseteq KindsIn(Tail(q), b) \cup (IF Head(q).who = b THEN {Head(q).kind} ELSE {})
  <2> SUFFICES ASSUME NEW k \in KindsIn(q, b)
               PROVE  k \in KindsIn(Tail(q), b) \/ (Head(q).who = b /\ k = Head(q).kind)
    OBVIOUS
  <2>1. PICK i \in 1..Len(q) : q[i].who = b /\ k = q[i].kind
    BY DEF KindsIn
  <2>2. CASE i = 1
    BY <1>1, <2>1, <2>2
  <2>3. CASE i # 1
    <3>1. i - 1 \in 1..(Len(q) - 1) /\ Tail(q)[i - 1] = q[i]
      BY <1>1, <1>2, <2>1, <2>3
    <3> QED
      BY <1>1, <2>1, <3>1 DEF KindsIn
  <2> QED
    BY <2>2, <2>3
<1>6. KindsIn(Tail(q), b) \cup (IF Head(q).who = b THEN {Head(q).kind} ELSE {}) \subseteq KindsIn(q, b)
  BY <1>1, <1>3, <1>4 DEF KindsIn
<1>7. ASSUME Once(q, b)
      PROVE  Once(Tail(q), b) /\ (Head(q).who = b => KindsIn(Tail(q), b) = {})
  <2>1. Once(Tail(q), b)
    <3> SUFFICES ASSUME NEW i \in 1..Len(Tail(q)), NEW j \in 1..Len(Tail(q)),
                        Tail(q)[i].who = b, Tail(q)[j].who = b
                 PROVE  i = j
      BY DEF Once
    <3>1. i + 1 = j + 1
      BY <1>1, <1>3, <1>7 DEF Once
    <3> QED
      BY <1>1, <3>1
  <2>2. ASSUME Head(q).who = b, NEW i \in 1..Len(Tail(q)), Tail(q)[i].who = b
        PROVE  FALSE
    BY <1>1, <1>3, <1>4, <1>7, <2>2 DEF Once
  <2> QED
    BY <2>1, <2>2 DEF KindsIn
<1> QED
  BY <1>5, <1>6, <1>7

-----------------------------------------------------------------------------
\* What sendTo does: every browser told gets the message or is let go of.
LEMMA SendingTells ==
  ASSUME ServerAssumption, ServerTypes, NEW to \in SUBSET Browsers, NEW msg \in Message,
         SentTo(to, msg)
  PROVE  /\ clients' \subseteq clients \cup to
         /\ cancelled' \in [Browsers -> BOOLEAN]
         /\ out' \in [Browsers -> Seq(Message)]
         /\ \A b \in Browsers :
              /\ Len(out'[b]) <= Room
              /\ ToSet(out[b]) \subseteq ToSet(out'[b])
              /\ b \notin to => out'[b] = out[b] /\ cancelled'[b] = cancelled[b]
                                /\ (b \in clients' <=> b \in clients)
              /\ cancelled[b] => cancelled'[b]
              /\ b \in clients \cup to => b \in clients' \/ cancelled'[b]
              /\ b \in to /\ ~cancelled'[b] => msg \in ToSet(out'[b])
<1> DEFINE slow == {b \in to : Len(out[b]) >= Room}
<1>1. /\ out' = [b \in Browsers |-> IF b \in to \ slow THEN Append(out[b], msg) ELSE out[b]]
      /\ cancelled' = [b \in Browsers |-> cancelled[b] \/ b \in slow]
      /\ clients' = (clients \cup to) \ slow
  BY DEF SentTo
<1>2. \A b \in Browsers : b \in slow <=> b \in to /\ Len(out[b]) >= Room
  OBVIOUS
<1>3. Room \in Nat
  BY DEF ServerAssumption
<1> HIDE DEF slow
<1>4. \A b \in Browsers : out[b] \in Seq(Message) /\ cancelled[b] \in BOOLEAN /\ Len(out[b]) <= Room
  BY DEF ServerTypes
<1>5. ASSUME NEW b \in Browsers
      PROVE  /\ out'[b] \in Seq(Message) /\ Len(out'[b]) <= Room
             /\ ToSet(out[b]) \subseteq ToSet(out'[b])
             /\ b \notin to => out'[b] = out[b]
             /\ b \in to \ slow => msg \in ToSet(out'[b])
  <2>1. CASE b \in to \ slow
    <3>1. out'[b] = Append(out[b], msg)
      BY <1>1, <2>1
    <3>2. /\ Append(out[b], msg) \in Seq(Message) /\ Len(Append(out[b], msg)) = Len(out[b]) + 1
          /\ Len(out[b]) \in Nat /\ ToSet(Append(out[b], msg)) = ToSet(out[b]) \cup {msg}
      BY <1>4, QueueAppend
    <3>3. Len(out[b]) < Room
      BY <1>2, <1>3, <2>1, <3>2
    <3> QED
      BY <1>3, <2>1, <3>1, <3>2, <3>3
  <2>2. CASE b \notin to \ slow
    BY <1>1, <1>4, <2>2
  <2> QED
    BY <2>1, <2>2
<1>6. ASSUME NEW b \in Browsers
      PROVE  cancelled'[b] = (cancelled[b] \/ b \in slow)
  BY <1>1
<1>7. cancelled' \in [Browsers -> BOOLEAN]
  BY <1>1
<1>8. DOMAIN out' = Browsers /\ out' = [b \in Browsers |-> out'[b]]
  BY <1>1
<1>9. out' \in [Browsers -> Seq(Message)]
  BY <1>5, <1>8
<1>10. slow \subseteq to
  BY DEF slow
<1>11. clients' \subseteq clients \cup to
  BY <1>1
<1>12. ASSUME NEW b \in Browsers
       PROVE  /\ b \notin to => cancelled'[b] = cancelled[b] /\ (b \in clients' <=> b \in clients)
              /\ cancelled[b] => cancelled'[b]
              /\ b \in clients \cup to => b \in clients' \/ cancelled'[b]
              /\ b \in to /\ ~cancelled'[b] => b \in to \ slow
  BY <1>1, <1>4, <1>6, <1>10
<1> QED
  BY <1>5, <1>7, <1>9, <1>11, <1>12

LEMMA ServerTypesKept ==
  ASSUME ServerAssumption, ServerTypes, [Next]_vars
  PROVE  ServerTypes'
<1> USE DEF ServerTypes, GoesTo, OpIs, Becomes, HandlerPlaces, hubVars, webVars, nodeVars
<1>a. OpsDepth \in Nat /\ Room \in Nat /\ Browsers \cap Nodes = {}
  BY DEF ServerAssumption
<1>b. ASSUME NEW b \in Browsers, NEW kind \in {"add", "remove"}, Starts(b, kind)
      PROVE  /\ handler' \in [Browsers -> HandlerPlaces]
             /\ op' \in [Browsers -> {"none", "queued", "running", "abandoned", "ran"}]
  <2>1. Asking[kind].no \in HandlerPlaces /\ Asking[kind].offer \in HandlerPlaces
    BY DEF Asking
  <2> QED
    BY <1>b, <2>1 DEF Starts
<1>1. CASE UNCHANGED vars
  BY <1>1 DEF vars
<1>2. ASSUME NEW b \in Browsers, Browser(b)
      PROVE  ServerTypes'
  <2>1. CASE Opens(b)
    BY <2>1 DEF Opens, Starts, Asking
  <2>2. CASE Upgrade(b)
    <3>1. CASE GoesTo(b, "writing") /\ UNCHANGED op
      <4>1. owed' = [owed EXCEPT ![b] = IF @ < 0 THEN told ELSE @] \/ UNCHANGED owed
        BY <2>2 DEF Upgrade
      <4>2. owed' \in [Browsers -> Int]
        BY <4>1
      <4> QED
        BY <2>2, <3>1, <4>2 DEF Upgrade
    <3>2. CASE Starts(b, "remove") /\ UNCHANGED owed
      BY <1>b, <2>2, <3>2 DEF Upgrade
    <3> QED
      BY <2>2, <3>1, <3>2 DEF Upgrade
  <2>3. CASE ReaderEnds(b)
    BY <2>3 DEF ReaderEnds
  <2>4. CASE Write(b)
    <3>1. out[b] \in Seq(Message) /\ out[b] # <<>>
      BY <2>4 DEF Write
    <3>2. Head(out[b]) \in Message /\ Tail(out[b]) \in Seq(Message)
          /\ Len(Tail(out[b])) = Len(out[b]) - 1 /\ Len(out[b]) \in Nat
      BY <3>1, QueueTail
    <3>3. /\ shown' = [shown EXCEPT ![b] = @ \cup ({Head(out[b])} \ {Snapshot})]
          /\ out' = [out EXCEPT ![b] = Tail(@)]
          /\ UNCHANGED <<asked, runner, ops, hubDone, hubVars, handler, op, cancelled, owed, nodeVars>>
      BY <2>4 DEF Write
    <3>4. shown' \in [Browsers -> SUBSET Message] /\ out' \in [Browsers -> Seq(Message)]
      BY <3>2, <3>3
    <3>5. \A c \in Browsers : Len(out'[c]) <= Room
      BY <1>a, <3>2, <3>3
    <3> QED
      BY <3>3, <3>4, <3>5
  <2>5. CASE WriterEnds(b)
    <3>1. /\ cancelled' \in [Browsers -> BOOLEAN] /\ shown' \in [Browsers -> SUBSET Message]
          /\ owed' \in [Browsers -> Int]
          /\ UNCHANGED <<asked, runner, ops, hubDone, hubVars, out, nodeVars>>
      BY <2>5 DEF WriterEnds
    <3>2. /\ handler' \in [Browsers -> HandlerPlaces]
          /\ op' \in [Browsers -> {"none", "queued", "running", "abandoned", "ran"}]
      BY <1>b, <2>5 DEF WriterEnds
    <3> QED
      BY <3>1, <3>2
  <2>6. ASSUME NEW kind \in Kinds, Offer(b, kind)
        PROVE  ServerTypes'
    <3>1. kind \in {"add", "remove"}
      BY DEF Kinds, Asking
    <3>2. Op(kind, b) \in AnyOp
      BY <3>1 DEF Op, AnyOp, BrowserOp
    <3>3. Asking[kind].wait \in HandlerPlaces /\ Asking[kind].no \in HandlerPlaces
      BY <3>1 DEF Asking
    <3>4. CASE ops' = Append(ops, Op(kind, b)) /\ Len(ops) < OpsDepth
      <4>1. ops' \in Seq(AnyOp) /\ Len(ops') <= OpsDepth
        BY <1>a, <3>2, <3>4, QueueAppend
      <4> QED
        BY <2>6, <3>3, <4>1 DEF Offer
    <3>5. CASE UNCHANGED ops
      BY <2>6, <3>3, <3>5 DEF Offer
    <3> QED
      BY <2>6, <3>4, <3>5 DEF Offer
  <2>7. ASSUME NEW kind \in Kinds, Answered(b, kind) \/ Gives(b, kind) \/ Leaves(b, kind)
        PROVE  ServerTypes'
    <3>1. kind \in {"add", "remove"}
      BY DEF Kinds, Asking
    <3>2. {Asking[kind].yes, Asking[kind].no, Asking[kind].leave} \subseteq HandlerPlaces
      BY <3>1 DEF Asking
    <3> QED
      BY <2>7, <3>2 DEF Answered, Gives, Leaves
  <2> QED
    BY <1>2, <2>1, <2>2, <2>3, <2>4, <2>5, <2>6, <2>7 DEF Browser
<1>3. ASSUME NEW n \in Nodes, NodeSocket(n)
      PROVE  ServerTypes'
  <2>1. CASE Accept(n) \/ Track(n)
    <3>1. CASE Accept(n)
      <4>1. /\ Becomes(n, "held") \/ Becomes(n, "off")
            /\ open' \subseteq open \cup {n}
            /\ UNCHANGED <<asked, runner, ops, hubDone, hubVars, webVars, tracked, collected>>
        BY <3>1 DEF Accept
      <4> QED
        BY <4>1
    <3>2. CASE Track(n)
      BY <3>2 DEF Track
    <3> QED
      BY <2>1, <3>1, <3>2
  <2>2. CASE HelloFails(n) \/ Hello(n) \/ PeerLeaves(n) \/ ConnDone(n) \/ Untrack(n)
    BY <2>2 DEF HelloFails, Hello, PeerLeaves, ConnDone, Untrack
  <2>3. CASE Post(n)
    <3> DEFINE x == Op(IF conn[n] = "up?" THEN "up" ELSE "down", n)
    <3>1. x \in AnyOp
      BY DEF Op, AnyOp, NodeOp
    <3>2. (Len(ops) < OpsDepth /\ ops' = Append(ops, x)) \/ UNCHANGED ops
      BY <2>3 DEF Post
    <3> HIDE DEF x
    <3>3. CASE UNCHANGED ops
      BY <2>3, <3>3 DEF Post
    <3>4. CASE ops' = Append(ops, x) /\ Len(ops) < OpsDepth
      <4>1. ops' \in Seq(AnyOp) /\ Len(ops') <= OpsDepth
        BY <1>a, <3>1, <3>4, QueueAppend
      <4> QED
        BY <2>3, <4>1 DEF Post
    <3> QED
      BY <3>2, <3>3, <3>4
  <2> QED
    BY <1>3, <2>1, <2>2, <2>3 DEF NodeSocket
<1>4. CASE Take
  <2>1. ops \in Seq(AnyOp) /\ ops # <<>>
    BY <1>4 DEF Take
  <2>2. Head(ops) \in AnyOp /\ Tail(ops) \in Seq(AnyOp) /\ Len(Tail(ops)) = Len(ops) - 1
        /\ Len(ops) \in Nat
    BY <2>1, QueueTail
  <2>3. /\ ops' = Tail(ops) /\ (hub' = Head(ops) \/ UNCHANGED hub)
        /\ UNCHANGED <<asked, runner, hubDone, clients, links, told,
                       handler, cancelled, out, shown, owed, nodeVars>>
        /\ op' = [op EXCEPT ![Head(ops).who] = "running"] \/ UNCHANGED op
    BY <1>4 DEF Take
  <2>4. op' \in [Browsers -> {"none", "queued", "running", "abandoned", "ran"}]
    BY <2>3
  <2>5. Len(ops') <= OpsDepth
    BY <1>a, <2>2, <2>3
  <2> QED
    BY <2>2, <2>3, <2>4, <2>5
<1>5. ASSUME NEW to \in SUBSET Browsers, NEW msg \in Message, SentTo(to, msg),
             hub' \in AnyOp \cup {NoOp}, told' \in Nat, links' \subseteq Nodes,
             op' \in [Browsers -> {"none", "queued", "running", "abandoned", "ran"}],
             UNCHANGED <<asked, runner, ops, hubDone, handler, shown, owed, nodeVars>>
      PROVE  ServerTypes'
  <2>1. /\ clients' \subseteq clients \cup to
        /\ cancelled' \in [Browsers -> BOOLEAN]
        /\ out' \in [Browsers -> Seq(Message)]
        /\ \A b \in Browsers : Len(out'[b]) <= Room
    BY <1>5, SendingTells
  <2> QED
    BY <1>5, <2>1
<1>6. Snapshot \in Message /\ NoOp \in AnyOp \cup {NoOp}
  BY DEF Message
<1>7. CASE RunAdd
  <2>1. hub.who \in Browsers
    BY <1>a, <1>7 DEF RunAdd, AnyOp, BrowserOp, NodeOp, NoOp
  <2>2. /\ SentTo({hub.who}, Snapshot) /\ hub' = NoOp
        /\ UNCHANGED <<asked, runner, ops, hubDone, links, told, handler, shown, owed, nodeVars>>
        /\ op' = [op EXCEPT ![hub.who] = "ran"]
    BY <1>7 DEF RunAdd
  <2>3. op' \in [Browsers -> {"none", "queued", "running", "abandoned", "ran"}]
    BY <2>2
  <2>4. {hub.who} \in SUBSET Browsers /\ told' \in Nat /\ links' \subseteq Nodes
    BY <2>1, <2>2
  <2> QED
    BY <1>5, <1>6, <2>2, <2>3, <2>4
<1>8. CASE RunRemove
  BY <1>6, <1>8 DEF RunRemove
<1>9. CASE RunNode
  <2>1. hub.who \in Nodes
    BY <1>a, <1>9 DEF RunNode, AnyOp, BrowserOp, NodeOp, NoOp
  <2>2. links' \subseteq Nodes
    BY <1>9, <2>1 DEF RunNode
  <2>3. CASE links' # links
    <3>1. /\ SentTo(clients, told') /\ hub' = NoOp /\ told' = told + 1
          /\ UNCHANGED <<asked, runner, ops, hubDone, handler, op, shown, owed, nodeVars>>
      BY <1>9, <2>3 DEF RunNode
    <3>2. clients \in SUBSET Browsers /\ told' \in Nat /\ told' \in Message
      BY <3>1 DEF Message
    <3>3. op' \in [Browsers -> {"none", "queued", "running", "abandoned", "ran"}]
      BY <3>1
    <3> QED
      BY <1>5, <1>6, <2>2, <3>1, <3>2, <3>3
  <2>4. CASE links' = links
    BY <1>6, <1>9, <2>2, <2>4 DEF RunNode
  <2> QED
    BY <2>3, <2>4
<1>10. CASE Tick
  <2>1. /\ SentTo(clients, Snapshot)
        /\ UNCHANGED <<asked, runner, ops, hubDone, hub, links, told, handler, op, shown, owed, nodeVars>>
    BY <1>10 DEF Tick
  <2>2. /\ clients \in SUBSET Browsers /\ told' \in Nat /\ links' \subseteq Nodes
        /\ hub' \in AnyOp \cup {NoOp}
        /\ op' \in [Browsers -> {"none", "queued", "running", "abandoned", "ran"}]
    BY <2>1
  <2> QED
    BY <1>5, <1>6, <2>1, <2>2
<1>11. CASE HubStops
  BY <1>11 DEF HubStops
<1>12. CASE AcceptEnds \/ Stop \/ Closing \/ Cut \/ Joined
  BY <1>12 DEF AcceptEnds, Stop, Closing, Cut, Joined
<1> QED
  BY <1>1, <1>2, <1>3, <1>4, <1>7, <1>8, <1>9, <1>10, <1>11, <1>12 DEF Next, HubStep

LEMMA SlottedKept ==
  ASSUME ServerAssumption, ServerTypes, Slotted, [Next]_vars
  PROVE  Slotted'
<1> DEFINE P == HandshakesPending
<1>1. IsFiniteSet(P) /\ Cardinality(P) \in Nat /\ Cardinality(P) <= Slots /\ Slots \in Nat
  BY FS_CardinalityType DEF Slotted, ServerAssumption
<1>2. ASSUME P' \subseteq P
      PROVE  Slotted'
  <2>1. IsFiniteSet(P') /\ Cardinality(P') <= Cardinality(P)
    BY <1>1, <1>2, FS_Subset
  <2>2. Cardinality(P') \in Nat
    BY <2>1, FS_CardinalityType
  <2>3. Slots' = Slots
    OBVIOUS
  <2> HIDE DEF P
  <2>4. Cardinality(P') <= Slots
    BY <1>1, <2>1, <2>2
  <2> QED
    BY <2>1, <2>4 DEF P, Slotted
<1>3. ASSUME NEW n, P' \subseteq P \cup {n}, Cardinality(P) < Slots
      PROVE  Slotted'
  <2>1. /\ IsFiniteSet(P \cup {n})
        /\ Cardinality(P \cup {n}) = Cardinality(P) \/ Cardinality(P \cup {n}) = Cardinality(P) + 1
    BY <1>1, FS_AddElement
  <2>2. IsFiniteSet(P') /\ Cardinality(P') <= Cardinality(P \cup {n})
    BY <1>3, <2>1, FS_Subset
  <2>3. Cardinality(P') \in Nat
    BY <2>2, FS_CardinalityType
  <2> HIDE DEF P
  <2>4. Cardinality(P') <= Slots
    BY <1>1, <1>3, <2>1, <2>2, <2>3
  <2> QED
    BY <2>2, <2>4 DEF P, Slotted
<1>4. ASSUME UNCHANGED conn
      PROVE  Slotted'
  BY <1>2, <1>4 DEF HandshakesPending
<1>5. ASSUME NEW n \in Nodes, Accept(n)
      PROVE  Slotted'
  <2>1. CASE Cardinality(P) < Slots /\ Becomes(n, "held")
    <3>1. P' \subseteq P \cup {n}
      BY <2>1 DEF Becomes, HandshakesPending, ServerTypes
    <3> QED
      BY <1>3, <2>1, <3>1
  <2>2. CASE Becomes(n, "off")
    <3>1. P' \subseteq P
      BY <2>2 DEF Becomes, HandshakesPending, ServerTypes
    <3> QED
      BY <1>2, <3>1
  <2> QED
    BY <1>5, <2>1, <2>2 DEF Accept
<1>6. ASSUME NEW n \in Nodes, NodeSocket(n), ~Accept(n)
      PROVE  Slotted'
  <2>1. \/ conn[n] = "held" /\ (Becomes(n, "shaking") \/ Becomes(n, "off"))
        \/ \E place \in {"off", "live", "up?", "posted", "down?"} : Becomes(n, place)
        \/ UNCHANGED conn
    BY <1>6 DEF NodeSocket, Track, HelloFails, Hello, Post, PeerLeaves, ConnDone, Untrack, Becomes
  <2>2. P' \subseteq P
    BY <2>1 DEF Becomes, HandshakesPending, ServerTypes
  <2> QED
    BY <1>2, <2>2
<1>7. CASE UNCHANGED vars
  BY <1>4, <1>7 DEF vars, nodeVars
<1>8. ASSUME NEW b \in Browsers, Browser(b)
      PROVE  Slotted'
  BY <1>4, <1>8 DEF Browser, Opens, Upgrade, ReaderEnds, Write, WriterEnds, Offer, Answered,
                    Gives, Leaves, nodeVars
<1>9. CASE HubStep \/ Tick \/ HubStops \/ AcceptEnds \/ Stop \/ Closing \/ Cut \/ Joined
  BY <1>4, <1>9 DEF HubStep, Take, RunAdd, RunRemove, RunNode, Tick, HubStops, AcceptEnds, Stop,
                    Closing, Cut, Joined, nodeVars
<1> QED
  BY <1>5, <1>6, <1>7, <1>8, <1>9 DEF Next

-----------------------------------------------------------------------------
\* Nothing of browser c changed that its own handler says.
Same(c) == UNCHANGED <<handler[c], op[c], cancelled[c], out[c], shown[c], owed[c]>>

\* A step of one browser is right for the others if it leaves the hub and the queue alone.
LEMMA OthersStay ==
  ASSUME ServerTypes, Served, NEW b \in Browsers,
         UNCHANGED <<hub, hubDone, clients, told>>, UNCHANGED ops,
         \A c \in Browsers \ {b} : Same(c),
         Registered(b)', Announced(b)'
  PROVE  Served'
<1>1. ASSUME NEW c \in Browsers, c # b
      PROVE  Registered(c)' /\ Announced(c)'
  <2>1. Registered(c) /\ Announced(c) /\ Same(c)
    BY <1>1 DEF Served
  <2>2. Registered(c)'
    BY <2>1 DEF Registered, OpOf, Known, Idle, Runs, Same
  <2>3. Announced(c)'
    BY <2>1 DEF Announced, Same
  <2> QED
    BY <2>2, <2>3
<1>2. OneOp'
  BY DEF Served, OneOp, Runs
<1> QED
  BY <1>1, <1>2 DEF Served

LEMMA BrowserServed ==
  ASSUME ServerAssumption, ServerTypes, Served, NEW b \in Browsers, Browser(b)
  PROVE  Served'
<1>1. Registered(b) /\ Announced(b) /\ OneOp
  BY DEF Served
<1>2. ASSUME NEW place, GoesTo(b, place)
      PROVE  handler'[b] = place /\ \A c \in Browsers \ {b} : handler'[c] = handler[c]
  BY <1>2 DEF GoesTo, ServerTypes
<1>3. ASSUME NEW state, OpIs(b, state)
      PROVE  op'[b] = state /\ \A c \in Browsers \ {b} : op'[c] = op[c]
  BY <1>3 DEF OpIs, ServerTypes
<1>4. ASSUME NEW kind \in {"add", "remove"}, Starts(b, kind)
      PROVE  /\ hubDone => handler'[b] = "over" /\ op'[b] = "none"
             /\ ~hubDone => /\ op'[b] = "queued"
                            /\ handler'[b] = IF kind = "add" THEN "add?" ELSE "remove?"
             /\ \A c \in Browsers \ {b} : handler'[c] = handler[c] /\ op'[c] = op[c]
  <2>1. /\ Asking[kind].no = "over"
        /\ Asking[kind].offer = IF kind = "add" THEN "add?" ELSE "remove?"
    BY DEF Asking
  <2>2. CASE hubDone
    <3>1. GoesTo(b, "over") /\ OpIs(b, "none")
      BY <1>4, <2>1, <2>2 DEF Starts
    <3> QED
      BY <1>2, <1>3, <2>2, <3>1
  <2>3. CASE ~hubDone
    <3>1. GoesTo(b, IF kind = "add" THEN "add?" ELSE "remove?") /\ OpIs(b, "queued")
      BY <1>4, <2>1, <2>3 DEF Starts
    <3> QED
      BY <1>2, <1>3, <2>3, <3>1
  <2> QED
    BY <2>2, <2>3
<1>5. CASE Opens(b)
  <2>1. /\ handler[b] = "away" /\ Starts(b, "add")
        /\ UNCHANGED <<ops, hubDone, hub, clients, told, cancelled, out, shown, owed>>
    BY <1>5 DEF Opens, hubVars
  <2>2. Registered(b)' /\ Announced(b)'
    BY <1>1, <1>4, <2>1 DEF Registered, Announced, Idle, Runs
  <2> QED
    BY <1>4, <2>1, <2>2, OthersStay DEF Same
<1>6. CASE Upgrade(b)
  <2>1. /\ handler[b] = "upgrade"
        /\ UNCHANGED <<ops, hubDone, hub, clients, told, cancelled, out, shown>>
    BY <1>6 DEF Upgrade, hubVars
  <2>2. CASE GoesTo(b, "writing") /\ UNCHANGED op
               /\ owed' = [owed EXCEPT ![b] = IF @ < 0 THEN told ELSE @]
    <3>1. owed[b] = -1 /\ owed'[b] = told /\ \A c \in Browsers \ {b} : owed'[c] = owed[c]
      BY <1>1, <2>1, <2>2 DEF Announced, ServerTypes
    <3>2. (told + 1)..told = {}
      BY DEF ServerTypes
    <3>3. Registered(b)' /\ Announced(b)'
      BY <1>1, <1>2, <2>1, <2>2, <3>1, <3>2 DEF Registered, Announced, Idle, Runs, Known
    <3> QED
      BY <1>2, <2>1, <2>2, <3>1, <3>3, OthersStay DEF Same
  <2>3. CASE Starts(b, "remove") /\ UNCHANGED owed
    <3>1. Registered(b)' /\ Announced(b)'
      BY <1>1, <1>4, <2>1, <2>3 DEF Registered, Announced, Idle, Runs
    <3> QED
      BY <1>4, <2>1, <2>3, <3>1, OthersStay DEF Same
  <2> QED
    BY <1>6, <2>2, <2>3 DEF Upgrade
<1>7. CASE ReaderEnds(b)
  <2>1. /\ handler[b] = "writing"
        /\ UNCHANGED <<ops, hubDone, hub, clients, told, handler, op, out, shown, owed>>
        /\ cancelled'[b] /\ \A c \in Browsers \ {b} : cancelled'[c] = cancelled[c]
    BY <1>7 DEF ReaderEnds, hubVars, ServerTypes
  <2>2. Registered(b)' /\ Announced(b)'
    BY <1>1, <2>1 DEF Registered, Announced, Idle, Runs, Known
  <2> QED
    BY <2>1, <2>2, OthersStay DEF Same
<1>8. CASE Write(b)
  <2>1. /\ handler[b] = "writing" /\ ~cancelled[b] /\ out[b] # <<>>
        /\ UNCHANGED <<ops, hubDone, hub, clients, told, handler, op, cancelled, owed>>
        /\ shown'[b] = shown[b] \cup ({Head(out[b])} \ {Snapshot}) /\ out'[b] = Tail(out[b])
        /\ \A c \in Browsers \ {b} : shown'[c] = shown[c] /\ out'[c] = out[c]
    BY <1>8 DEF Write, hubVars, ServerTypes
  <2>2. out[b] \in Seq(Message)
    BY DEF ServerTypes
  <2>3. ToSet(out[b]) = {Head(out[b])} \cup ToSet(out'[b])
    BY <2>1, <2>2, QueueTail
  <2>4. \A e \in (owed[b] + 1)..told : e # Snapshot
    BY DEF ServerTypes, ServerAssumption
  <2>5. (owed[b] + 1)..told \subseteq shown'[b] \cup ToSet(out'[b])
    BY <1>1, <2>1, <2>3, <2>4 DEF Announced
  <2>6. Registered(b)' /\ Announced(b)'
    BY <1>1, <2>1, <2>5 DEF Registered, Announced, Idle, Runs, Known
  <2> QED
    BY <2>1, <2>6, OthersStay DEF Same
<1>9. CASE WriterEnds(b)
  <2>1. /\ handler[b] = "writing" /\ Starts(b, "remove")
        /\ UNCHANGED <<ops, hubDone, hub, clients, told, out>>
        /\ cancelled'[b] /\ shown'[b] = {} /\ owed'[b] = -1
        /\ \A c \in Browsers \ {b} : /\ cancelled'[c] = cancelled[c]
                                     /\ shown'[c] = shown[c] /\ owed'[c] = owed[c]
    BY <1>9 DEF WriterEnds, hubVars, ServerTypes
  <2>2. Registered(b)' /\ Announced(b)'
    BY <1>1, <1>4, <2>1 DEF Registered, Announced, Idle, Runs
  <2> QED
    BY <1>4, <2>1, <2>2, OthersStay DEF Same
<1>10. ASSUME NEW kind \in {"add", "remove"}, Answered(b, kind) \/ Gives(b, kind) \/ Leaves(b, kind)
       PROVE  Served'
  <2>1. /\ UNCHANGED <<ops, hubDone, hub, clients, told, cancelled, out, shown, owed>>
        /\ \A c \in Browsers \ {b} : handler'[c] = handler[c] /\ op'[c] = op[c]
    BY <1>2, <1>3, <1>10 DEF Answered, Gives, Leaves, hubVars
  <2>2. /\ Asking[kind].wait = IF kind = "add" THEN "add!" ELSE "remove!"
        /\ Asking[kind].leave = IF kind = "add" THEN "add~" ELSE "remove~"
        /\ Asking[kind].yes = IF kind = "add" THEN "upgrade" ELSE "over"
        /\ Asking[kind].no = "over"
    BY DEF Asking
  <2>3. MayGiveUp(kind) <=> kind = "add"
    BY DEF MayGiveUp
  <2>4. \/ /\ handler[b] = Asking[kind].wait /\ op[b] = "ran" /\ op'[b] = op[b]
           /\ handler'[b] = Asking[kind].yes
        \/ /\ handler[b] = Asking[kind].wait /\ op'[b] = op[b]
           /\ handler'[b] = Asking[kind].leave /\ (kind = "remove" => hubDone)
        \/ /\ handler[b] = Asking[kind].leave /\ op[b] = "queued" /\ op'[b] = "abandoned"
           /\ handler'[b] = "over"
        \/ /\ handler[b] = Asking[kind].leave /\ op[b] = "ran" /\ op'[b] = op[b]
           /\ handler'[b] = Asking[kind].yes
    BY <1>2, <1>3, <1>10, <2>2, <2>3 DEF Answered, Gives, Leaves
  <2>5. Registered(b)' /\ Announced(b)'
    BY <1>1, <2>1, <2>2, <2>4 DEF Registered, Announced, OpOf, Idle, Runs, Known
  <2> QED
    BY <2>1, <2>5, OthersStay DEF Same
<1>11. ASSUME NEW kind \in {"add", "remove"}, Offer(b, kind)
       PROVE  Served'
  <2>1. /\ UNCHANGED <<hubDone, hub, clients, told, op, cancelled, out, shown, owed>>
        /\ handler[b] = IF kind = "add" THEN "add?" ELSE "remove?"
    BY <1>11 DEF Offer, hubVars, Asking
  <2>2. CASE ops' = Append(ops, Op(kind, b)) /\ GoesTo(b, IF kind = "add" THEN "add!" ELSE "remove!")
    <3>1. Op(kind, b) \in AnyOp /\ Op(kind, b).who = b /\ Op(kind, b).kind = kind
      BY DEF Op, AnyOp, BrowserOp
    <3>2. ops \in Seq(AnyOp)
      BY DEF ServerTypes
    <3>3. ASSUME NEW c
          PROVE  /\ KindsIn(ops', c) = KindsIn(ops, c) \cup (IF b = c THEN {kind} ELSE {})
                 /\ Once(ops, c) /\ (b = c => KindsIn(ops, c) = {}) => Once(ops', c)
      BY <2>2, <3>1, <3>2, OpJoins
    <3>4. KindsIn(ops, b) = {} /\ ~Runs(b)
      BY <1>1, <2>1 DEF Registered, Idle
    <3>5. OneOp'
      BY <1>1, <2>1, <3>3, <3>4 DEF OneOp, Runs
    <3>6. Registered(b)' /\ Announced(b)'
      BY <1>1, <1>2, <2>1, <2>2, <3>3, <3>4 DEF Registered, Announced, OpOf, Idle, Runs, Known
    <3>7. ASSUME NEW c \in Browsers, c # b
          PROVE  Registered(c)' /\ Announced(c)'
      <4>1. Registered(c) /\ Announced(c) /\ KindsIn(ops', c) = KindsIn(ops, c) /\ handler'[c] = handler[c]
        BY <1>2, <2>2, <3>3, <3>7 DEF Served
      <4> QED
        BY <2>1, <4>1 DEF Registered, Announced, OpOf, Idle, Runs, Known
    <3> QED
      BY <3>5, <3>6, <3>7 DEF Served
  <2>3. CASE GoesTo(b, "over") /\ (hubDone \/ kind = "add") /\ UNCHANGED ops
    <3>1. Registered(b)' /\ Announced(b)'
      BY <1>1, <1>2, <2>1, <2>3 DEF Registered, Announced, Idle, Runs
    <3> QED
      BY <1>2, <2>1, <2>3, <3>1, OthersStay DEF Same
  <2> QED
    BY <1>11, <2>2, <2>3 DEF Offer, Asking, MayGiveUp
<1>12. \A kind \in Kinds : kind \in {"add", "remove"}
  BY DEF Kinds, Asking
<1> QED
  BY <1>5, <1>6, <1>7, <1>8, <1>9, <1>10, <1>11, <1>12 DEF Browser

\* Nothing of any browser changed, nor of the hub.
LEMMA IdleServed ==
  ASSUME Served, UNCHANGED <<hub, hubDone, clients, told>>, UNCHANGED ops,
         UNCHANGED <<handler, op, cancelled, out, shown, owed>>
  PROVE  Served'
BY DEF Served, OneOp, Registered, Announced, OpOf, Known, Idle, Runs

LEMMA NodeServed ==
  ASSUME ServerAssumption, ServerTypes, Served, NEW n \in Nodes, NodeSocket(n)
  PROVE  Served'
<1>1. CASE UNCHANGED <<hub, hubDone, clients, told>> /\ UNCHANGED ops
           /\ UNCHANGED <<handler, op, cancelled, out, shown, owed>>
  BY <1>1, IdleServed
<1>2. CASE Post(n)
  <2> DEFINE x == Op(IF conn[n] = "up?" THEN "up" ELSE "down", n)
  <2>1. x \in AnyOp /\ x.who = n
    BY DEF Op, AnyOp, NodeOp
  <2>2. /\ ops' = Append(ops, x) \/ UNCHANGED ops
        /\ UNCHANGED <<hub, hubDone, clients, told>>
        /\ UNCHANGED <<handler, op, cancelled, out, shown, owed>>
    BY <1>2 DEF Post, hubVars, webVars
  <2> HIDE DEF x
  <2>3. CASE ops' = Append(ops, x)
    <3>1. ops \in Seq(AnyOp)
      BY DEF ServerTypes
    <3>2. ASSUME NEW c \in Browsers
          PROVE  KindsIn(ops', c) = KindsIn(ops, c) /\ (Once(ops, c) => Once(ops', c))
      <4>1. x.who # c
        BY <2>1 DEF ServerAssumption
      <4>2. /\ KindsIn(Append(ops, x), c) = KindsIn(ops, c) \cup (IF x.who = c THEN {x.kind} ELSE {})
            /\ Once(ops, c) /\ (x.who = c => KindsIn(ops, c) = {}) => Once(Append(ops, x), c)
        BY <2>1, <3>1, OpJoins
      <4> QED
        BY <2>3, <4>1, <4>2
    <3>3. OneOp'
      BY <2>2, <3>2 DEF Served, OneOp, Runs
    <3>4. ASSUME NEW c \in Browsers
          PROVE  Registered(c)' /\ Announced(c)'
      <4>1. Registered(c) /\ Announced(c)
        BY DEF Served
      <4>2. KindsIn(ops', c) = KindsIn(ops, c)
        BY <3>2
      <4> QED
        BY <2>2, <4>1, <4>2 DEF Registered, Announced, OpOf, Idle, Runs, Known
    <3> QED
      BY <3>3, <3>4 DEF Served
  <2> QED
    BY <1>1, <2>2, <2>3
<1> QED
  BY <1>1, <1>2 DEF NodeSocket, Accept, Track, HelloFails, Hello, PeerLeaves, ConnDone, Untrack,
                    hubVars, webVars

\* Whoever is told, the hub's other effects apart.
LEMMA SentServed ==
  ASSUME ServerAssumption, ServerTypes, Served, ~hubDone, UNCHANGED <<hubDone, handler, shown, owed>>,
         UNCHANGED ops, NEW to \in SUBSET Browsers, NEW msg \in Message, SentTo(to, msg),
         \/ to = clients /\ UNCHANGED op
            /\ (UNCHANGED hub \/ (hub.kind \in {"up", "down"} /\ hub' = NoOp))
            /\ ((told' = told + 1 /\ msg = told') \/ UNCHANGED told)
         \/ /\ hub.kind = "add" /\ hub.who \in Browsers /\ to = {hub.who} /\ hub' = NoOp
            /\ op' = [op EXCEPT ![hub.who] = "ran"] /\ UNCHANGED told
  PROVE  Served'
<1>1. /\ clients' \subseteq clients \cup to
      /\ \A b \in Browsers :
           /\ ToSet(out[b]) \subseteq ToSet(out'[b])
           /\ b \notin to => out'[b] = out[b] /\ cancelled'[b] = cancelled[b]
                             /\ (b \in clients' <=> b \in clients)
           /\ cancelled[b] => cancelled'[b]
           /\ b \in clients \cup to => b \in clients' \/ cancelled'[b]
           /\ b \in to /\ ~cancelled'[b] => msg \in ToSet(out'[b])
  BY SendingTells
<1>2. NoOp.kind = "none"
  BY DEF NoOp
<1>3. ASSUME NEW b \in Browsers
      PROVE  Runs(b)' => Runs(b)
  BY <1>2 DEF Runs
<1>4. OneOp'
  BY <1>3 DEF Served, OneOp
<1>5. ASSUME NEW b \in Browsers
      PROVE  Registered(b)' /\ Announced(b)'
  <2>1. Registered(b) /\ Announced(b)
    BY DEF Served
  <2>2. CASE to = clients /\ UNCHANGED op
             /\ (UNCHANGED hub \/ (hub.kind \in {"up", "down"} /\ hub' = NoOp))
             /\ ((told' = told + 1 /\ msg = told') \/ UNCHANGED told)
    <3>1. Runs(b)' <=> Runs(b)
      BY <1>2, <2>2 DEF Runs
    <3>2. Registered(b)'
      <4>1. hub.kind \in {"add", "remove"} => hub' = hub
        BY <2>2
      <4>2. OpOf(b, "add") => OpOf(b, "add")'
        BY <2>2, <3>1, <4>1 DEF OpOf, Idle, Runs
      <4>3. OpOf(b, "remove") => OpOf(b, "remove")'
        BY <2>2, <3>1, <4>1 DEF OpOf, Idle, Runs
      <4>4. (b \in clients' => b \in clients) /\ (Known(b) => Known(b)')
        BY <1>1, <2>2 DEF Known
      <4>5. Idle(b)' <=> Idle(b)
        BY <3>1 DEF Idle
      <4> QED
        BY <2>1, <2>2, <3>1, <4>2, <4>3, <4>4, <4>5 DEF Registered
    <3>3. Announced(b)'
      <4>1. ASSUME handler[b] = "writing", ~cancelled'[b]
            PROVE  (owed[b] + 1)..told' \subseteq shown[b] \cup ToSet(out'[b])
        <5>1. ~cancelled[b] /\ b \in to
          BY <1>1, <2>1, <2>2, <4>1 DEF Registered, Known
        <5>2. (owed[b] + 1)..told \subseteq shown[b] \cup ToSet(out'[b])
          BY <1>1, <2>1, <4>1, <5>1 DEF Announced
        <5>3. CASE told' = told
          BY <5>2, <5>3
        <5>4. CASE told' = told + 1 /\ msg = told'
          <6>1. (owed[b] + 1)..told' \subseteq ((owed[b] + 1)..told) \cup {told'}
            BY <5>4 DEF ServerTypes
          <6>2. told' \in ToSet(out'[b])
            BY <1>1, <4>1, <5>1, <5>4
          <6> QED
            BY <5>2, <6>1, <6>2
        <5> QED
          BY <2>2, <5>3, <5>4
      <4> QED
        BY <2>1, <4>1 DEF Announced
    <3> QED
      BY <3>2, <3>3
  <2>3. CASE /\ hub.kind = "add" /\ hub.who \in Browsers /\ to = {hub.who} /\ hub' = NoOp
             /\ op' = [op EXCEPT ![hub.who] = "ran"] /\ UNCHANGED told
    <3>1. ~Runs(b)'
      BY <1>2, <2>3 DEF Runs
    <3>2. CASE b = hub.who
      <4>1. Runs(b) /\ op'[b] = "ran" /\ b \in to
        BY <2>3, <3>2 DEF Runs, ServerTypes
      <4>2. KindsIn(ops, b) = {}
        BY <4>1 DEF Served, OneOp
      <4>3. handler[b] \in {"add!", "add~"}
        BY <2>1, <2>3, <4>1 DEF Registered, OpOf, Idle, ServerTypes, HandlerPlaces
      <4>4. Known(b)'
        BY <1>1, <4>1 DEF Known
      <4>5. OpOf(b, "add")'
        BY <3>1, <4>1, <4>2 DEF OpOf, Idle
      <4>6. Registered(b)'
        BY <4>1, <4>3, <4>4, <4>5 DEF Registered
      <4> QED
        BY <2>1, <4>3, <4>6 DEF Announced
    <3>3. CASE b # hub.who
      <4>1. ~Runs(b) /\ op'[b] = op[b] /\ b \notin to
        BY <2>3, <3>3 DEF Runs, ServerTypes
      <4>2. /\ out'[b] = out[b] /\ cancelled'[b] = cancelled[b]
            /\ (b \in clients' <=> b \in clients)
        BY <1>1, <4>1
      <4>3. Registered(b)'
        BY <2>1, <3>1, <4>1, <4>2 DEF Registered, OpOf, Idle, Known
      <4> QED
        BY <2>1, <2>3, <4>2, <4>3 DEF Announced
    <3> QED
      BY <3>2, <3>3
  <2> QED
    BY <2>2, <2>3
<1> QED
  BY <1>4, <1>5 DEF Served

LEMMA HubServed ==
  ASSUME ServerAssumption, ServerTypes, Served, HubStep \/ Tick \/ HubStops
  PROVE  Served'
<1>1. Browsers \cap Nodes = {} /\ NoOp.kind = "none" /\ NoOp \notin AnyOp
  BY DEF ServerAssumption, NoOp, AnyOp, BrowserOp, NodeOp
<1>2. Snapshot \in Message /\ clients \in SUBSET Browsers
  BY DEF Message, ServerTypes
<1>3. hub # NoOp => ~hubDone /\ hub \in AnyOp
  BY DEF Served, OneOp, ServerTypes
<1>4. CASE Take
  <2>1. ops \in Seq(AnyOp) /\ ops # <<>> /\ ops' = Tail(ops) /\ hub = NoOp /\ ~hubDone
        /\ UNCHANGED <<hubDone, clients, told, handler, cancelled, out, shown, owed>>
    BY <1>4 DEF Take, ServerTypes
  <2> DEFINE x == Head(ops)
  <2>2. x \in AnyOp
    BY <2>1, QueueTail
  <2>3. \/ x.who \in Browsers /\ op[x.who] = "abandoned" /\ UNCHANGED <<hub, op>>
        \/ x.who \in Browsers /\ op[x.who] # "abandoned" /\ hub' = x
           /\ op' = [op EXCEPT ![x.who] = "running"]
        \/ x.who \notin Browsers /\ hub' = x /\ UNCHANGED op
    BY <1>4 DEF Take, OpIs
  <2>4. ASSUME NEW b
        PROVE  /\ KindsIn(ops, b) = KindsIn(ops', b) \cup (IF x.who = b THEN {x.kind} ELSE {})
               /\ Once(ops, b) => Once(ops', b) /\ (x.who = b => KindsIn(ops', b) = {})
    BY <2>1, OpLeaves
  <2> HIDE DEF x
  <2>5. x.who \in Browsers => x.kind \in {"add", "remove"}
    BY <1>1, <2>2 DEF AnyOp, BrowserOp, NodeOp
  <2>6. x.who \notin Browsers => x.kind \notin {"add", "remove"}
    BY <2>2 DEF AnyOp, BrowserOp, NodeOp
  <2>7. ASSUME NEW b \in Browsers
        PROVE  /\ Once(ops', b) /\ (Runs(b)' => KindsIn(ops', b) = {})
               /\ Registered(b)' /\ Announced(b)'
    <3>1. Registered(b) /\ Announced(b) /\ Once(ops, b) /\ ~Runs(b)
      BY <1>1, <2>1 DEF Served, OneOp, Runs
    <3>2. Once(ops', b)
      BY <2>4, <3>1
    <3>3. Announced(b)'
      BY <2>1, <3>1 DEF Announced
    <3>4. CASE x.who # b
      <4>1. /\ KindsIn(ops', b) = KindsIn(ops, b)
            /\ ~Runs(b)'
            /\ op'[b] = op[b]
        <5>1. KindsIn(ops', b) = KindsIn(ops, b)
          BY <2>4, <3>4
        <5>2. ~Runs(b)'
          BY <2>3, <3>1, <3>4 DEF Runs
        <5>3. op'[b] = op[b]
          BY <1>1, <2>1, <2>3, <3>4 DEF ServerTypes
        <5> QED
          BY <5>1, <5>2, <5>3
      <4>2. Registered(b)'
        BY <2>1, <3>1, <4>1 DEF Registered, OpOf, Idle, Known
      <4> QED
        BY <3>2, <3>3, <4>1, <4>2
    <3>5. CASE x.who = b
      <4>1. KindsIn(ops', b) = {} /\ KindsIn(ops, b) = {x.kind}
        BY <2>4, <3>1, <3>5
      <4>2. CASE op[b] = "abandoned" /\ UNCHANGED <<hub, op>>
        <5>1. ~Runs(b)'
          BY <3>1, <4>2 DEF Runs
        <5>2. Registered(b)'
          BY <2>1, <3>1, <4>1, <4>2, <5>1 DEF Registered, OpOf, Idle, Known
        <5> QED
          BY <3>2, <3>3, <4>1, <5>2
      <4>3. CASE op[b] # "abandoned" /\ hub' = x /\ op' = [op EXCEPT ![b] = "running"]
        <5>1. op'[b] = "running" /\ Runs(b)'
          BY <2>5, <3>5, <4>3 DEF Runs, ServerTypes
        <5>2. \/ handler[b] \in {"add!", "add~"} /\ op[b] = "queued" /\ x.kind = "add"
                 /\ b \notin clients
              \/ handler[b] \in {"remove!", "remove~"} /\ op[b] = "queued" /\ x.kind = "remove"
          BY <2>1, <3>1, <4>1, <4>3 DEF Registered, OpOf, Idle, ServerTypes, HandlerPlaces
        <5>3. Registered(b)'
          BY <2>1, <3>1, <4>3, <5>1, <5>2 DEF Registered, OpOf
        <5> QED
          BY <3>2, <3>3, <4>1, <5>3
      <4> QED
        BY <2>3, <3>5, <4>2, <4>3
    <3> QED
      BY <3>4, <3>5
  <2>8. hubDone' => hub' = NoOp
    BY <2>1
  <2> QED
    BY <2>7, <2>8 DEF Served, OneOp
<1>5. CASE RunAdd
  <2>1. /\ hub.kind = "add" /\ SentTo({hub.who}, Snapshot) /\ hub' = NoOp
        /\ UNCHANGED <<hubDone, handler, shown, owed>> /\ UNCHANGED ops /\ UNCHANGED told
        /\ op' = [op EXCEPT ![hub.who] = "ran"]
    BY <1>5 DEF RunAdd, OpIs
  <2>2. hub # NoOp /\ hub.who \in Browsers
    BY <1>1, <1>3, <2>1 DEF AnyOp, BrowserOp, NodeOp
  <2>3. ~hubDone /\ {hub.who} \in SUBSET Browsers
    BY <1>3, <2>2
  <2> QED
    BY <1>2, <2>1, <2>2, <2>3, SentServed
<1>6. CASE RunRemove
  <2>1. /\ hub.kind = "remove" /\ hub' = NoOp /\ clients' = clients \ {hub.who}
        /\ UNCHANGED <<hubDone, handler, shown, owed, cancelled, out, told>> /\ UNCHANGED ops
        /\ op' = [op EXCEPT ![hub.who] = "ran"]
    BY <1>6 DEF RunRemove, OpIs
  <2>2. hub # NoOp /\ hub.who \in Browsers
    BY <1>1, <1>3, <2>1 DEF AnyOp, BrowserOp, NodeOp
  <2>3. ASSUME NEW b \in Browsers
        PROVE  Registered(b)' /\ Announced(b)' /\ ~Runs(b)'
    <3>1. Registered(b) /\ Announced(b) /\ ~Runs(b)'
      BY <1>1, <2>1 DEF Served, Runs
    <3>2. CASE b = hub.who
      <4>1. Runs(b) /\ op'[b] = "ran" /\ b \notin clients'
        BY <2>1, <3>2 DEF Runs, ServerTypes
      <4>2. KindsIn(ops, b) = {} /\ ~hubDone
        BY <1>3, <2>2, <4>1 DEF Served, OneOp
      <4>3. handler[b] \in {"remove!", "remove~"}
        BY <2>1, <3>1, <4>1, <4>2 DEF Registered, OpOf, Idle, ServerTypes, HandlerPlaces
      <4>4. OpOf(b, "remove")'
        BY <2>1, <3>1, <4>1, <4>2 DEF OpOf, Idle
      <4>5. Registered(b)'
        BY <2>1, <3>1, <4>1, <4>3, <4>4 DEF Registered
      <4> QED
        BY <2>1, <3>1, <4>3, <4>5 DEF Announced
    <3>3. CASE b # hub.who
      <4>1. ~Runs(b) /\ op'[b] = op[b] /\ (b \in clients' <=> b \in clients)
        BY <2>1, <3>3 DEF Runs, ServerTypes
      <4>2. Registered(b)'
        BY <2>1, <3>1, <4>1 DEF Registered, OpOf, Idle, Known
      <4> QED
        BY <2>1, <3>1, <4>2 DEF Announced
    <3> QED
      BY <3>2, <3>3
  <2> QED
    BY <2>1, <2>3 DEF Served, OneOp
<1>7. CASE RunNode
  <2>1. /\ hub.kind \in {"up", "down"} /\ hub' = NoOp
        /\ UNCHANGED <<hubDone, handler, shown, owed>> /\ UNCHANGED ops /\ UNCHANGED op
    BY <1>7 DEF RunNode
  <2>2. hub # NoOp /\ ~hubDone
    BY <1>1, <1>3, <2>1
  <2>3. CASE told' = told + 1 /\ SentTo(clients, told')
    <3>1. told' \in Message
      BY <2>3 DEF Message, ServerTypes
    <3> QED
      BY <1>2, <2>1, <2>2, <2>3, <3>1, SentServed
  <2>4. CASE UNCHANGED <<told, clients, cancelled, out>>
    <3>1. ASSUME NEW b \in Browsers
          PROVE  Registered(b)' /\ Announced(b)' /\ ~Runs(b)'
      <4>1. Registered(b) /\ Announced(b) /\ ~Runs(b)' /\ ~Runs(b)
        BY <1>1, <2>1 DEF Served, Runs
      <4> QED
        BY <2>1, <2>4, <4>1 DEF Registered, Announced, OpOf, Idle, Known
    <3> QED
      BY <2>1, <3>1 DEF Served, OneOp
  <2> QED
    BY <1>7, <2>3, <2>4 DEF RunNode
<1>8. CASE Tick
  BY <1>2, <1>8, SentServed DEF Tick
<1>9. CASE HubStops
  <2>1. /\ hub = NoOp /\ hubDone' = TRUE /\ ~hubDone
        /\ cancelled' = [b \in Browsers |-> cancelled[b] \/ b \in clients]
        /\ UNCHANGED <<hub, clients, told, handler, op, out, shown, owed>> /\ UNCHANGED ops
    BY <1>9 DEF HubStops, hubVars
  <2>2. ASSUME NEW b \in Browsers
        PROVE  Registered(b)' /\ Announced(b)'
    <3>1. Registered(b) /\ Announced(b) /\ (cancelled[b] => cancelled'[b])
      BY <2>1 DEF Served
    <3> QED
      BY <2>1, <3>1 DEF Registered, Announced, OpOf, Idle, Runs, Known
  <2> QED
    BY <2>1, <2>2 DEF Served, OneOp, Runs
<1> QED
  BY <1>4, <1>5, <1>6, <1>7, <1>8, <1>9 DEF HubStep

LEMMA InitServer ==
  ASSUME ServerAssumption
  PROVE  Init => ServerInv
<1> SUFFICES ASSUME Init
             PROVE  ServerInv
  OBVIOUS
<1>1. OpsDepth \in Nat /\ Room \in Nat /\ Slots \in Nat
  BY DEF ServerAssumption
<1>2. Len(<<>>) = 0 /\ <<>> \in Seq(AnyOp) /\ <<>> \in Seq(Message) /\ 1..0 = {}
  OBVIOUS
<1>3. \A b \in Browsers : KindsIn(ops, b) = {} /\ Once(ops, b)
  BY <1>2 DEF Init, KindsIn, Once
<1>4. NoOp.kind = "none"
  BY DEF NoOp
<1>5. ServerTypes
  <2>1. /\ handler \in [Browsers -> HandlerPlaces] /\ op \in [Browsers -> {"none"}]
        /\ cancelled \in [Browsers -> BOOLEAN] /\ out \in [Browsers -> {<<>>}]
        /\ shown \in [Browsers -> {{}}] /\ owed \in [Browsers -> Int]
        /\ conn \in [Nodes -> {"away"}]
    BY DEF Init, HandlerPlaces
  <2>2. /\ runner = "serving" /\ hub = NoOp /\ ops = <<>> /\ clients = {} /\ links = {} /\ told = 0
        /\ open = {} /\ tracked = {} /\ collected = {} /\ hubDone = FALSE
    BY DEF Init
  <2>3. out \in [Browsers -> Seq(Message)] /\ \A b \in Browsers : Len(out[b]) <= Room
    <3>1. \A b \in Browsers : out[b] = <<>>
      BY <2>1
    <3>2. out \in [Browsers -> Seq(Message)]
      BY <1>2, <2>1
    <3> QED
      BY <1>1, <1>2, <3>1, <3>2
  <2>4. hubDone \in BOOLEAN
    BY <2>2
  <2> QED
    BY <1>1, <1>2, <2>1, <2>2, <2>3, <2>4 DEF ServerTypes
<1>6. Slotted
  <2>1. HandshakesPending = {}
    BY DEF Init, HandshakesPending
  <2> QED
    BY <1>1, <2>1, FS_EmptySet DEF Slotted
<1>7. Served
  BY <1>3, <1>4 DEF Init, Served, OneOp, Registered, Announced, Idle, Runs
<1> QED
  BY <1>5, <1>6, <1>7 DEF ServerInv

LEMMA NextServer ==
  ASSUME ServerAssumption
  PROVE  ServerInv /\ [Next]_vars => ServerInv'
<1> SUFFICES ASSUME ServerInv, [Next]_vars
             PROVE  ServerInv'
  OBVIOUS
<1>1. ServerTypes /\ Slotted /\ Served
  BY DEF ServerInv
<1>2. ServerTypes' /\ Slotted'
  BY <1>1, ServerTypesKept, SlottedKept
<1>3. Served'
  <2>1. ASSUME NEW b \in Browsers, Browser(b)
        PROVE  Served'
    BY <1>1, <2>1, BrowserServed
  <2>2. ASSUME NEW n \in Nodes, NodeSocket(n)
        PROVE  Served'
    BY <1>1, <2>2, NodeServed
  <2>3. CASE HubStep \/ Tick \/ HubStops
    BY <1>1, <2>3, HubServed
  <2>4. CASE UNCHANGED vars \/ AcceptEnds \/ Stop \/ Closing \/ Cut \/ Joined
    BY <1>1, <2>4, IdleServed DEF vars, AcceptEnds, Stop, Closing, Cut, Joined, hubVars, webVars
  <2> QED
    BY <2>1, <2>2, <2>3, <2>4 DEF Next
<1> QED
  BY <1>2, <1>3 DEF ServerInv

LEMMA ServerSound == ServerInv => ClientsSound
<1> SUFFICES ASSUME ServerInv
             PROVE  ClientsSound
  OBVIOUS
<1>1. TypeOK
  BY DEF ServerInv, ServerTypes, Slotted, TypeOK
<1>2. NothingMissed
  BY DEF ServerInv, Served, Announced, NothingMissed
<1>3. RegisteredLives
  BY DEF ServerInv, ServerTypes, Served, Registered, RegisteredLives
<1> QED
  BY <1>1, <1>2, <1>3 DEF ClientsSound

\* However requests, the hub and the shutdown interleave, a browser that listens misses
\* no event and the hub holds none whose handler has returned, for any browsers, node
\* sockets, queues and limits (controlcenter/server.go do, hub.go sendTo, http.go handleWS).
THEOREM BrowsersAreServed == MCSpec => []ClientsSound
<1>1. MCInit => ServerInv
  BY ServerAssumption, InitServer DEF MCInit
<1>2. ServerInv /\ [MCNext]_<<which, vars, nodeProcess, relayProcess, framedStream>> => ServerInv'
  <2>1. [MCNext]_<<which, vars, nodeProcess, relayProcess, framedStream>> => [Next]_vars
    BY DEF MCNext
  <2> QED
    BY <2>1, ServerAssumption, NextServer
<1> QED
  BY <1>1, <1>2, ServerSound, PTL DEF MCSpec

-----------------------------------------------------------------------------
(* The framed stream. *)

UnitRecord == [of : Nat, head : BOOLEAN, pos : Nat]
FrameRecord == [id : Nat, size : 1..MaxSize, body : Bodies]

StreamTypes ==
  /\ holder \in Writers \cup {NoOne}
  /\ buf \in [Writers -> Seq(UnitRecord)]
  /\ begun \in Seq(FrameRecord) /\ Len(begun) <= MaxFrames
  /\ \A i \in 1..Len(begun) : begun[i].id = i
  /\ stream \in Seq(UnitRecord) /\ partial \in Seq(UnitRecord)
  /\ streamEnded \in {"no", "fin", "silent"}
  /\ reading \in {"header", "payload", "off"}
  /\ size \in 0..MaxSize
  /\ read \in Seq(FrameRecord)
  /\ verdict \in {"none", "clean", "died", "violation", "timeout"}

\* Who has something to write has the lock, and writes of the frame begun last.
Locked ==
  /\ \A w \in Writers : buf[w] # <<>> =>
       holder = w /\ \A i \in 1..Len(buf[w]) : buf[w][i].of = Len(begun)
  /\ holder \in Writers => buf[holder] # <<>>

\* The place of the frame that is read now, and what the reader knows of it.
Current == Len(read) + 1
Reader ==
  /\ verdict = "none" <=> reading # "off"
  /\ reading = "header" => size = 0 /\ Len(partial) < 2
  /\ reading = "payload" => /\ Len(partial) < size /\ Current <= Len(begun)
                            /\ begun[Current].body # "alien" => size = begun[Current].size

Delivered ==
  /\ Len(read) <= Len(begun)
  /\ \A i \in 1..Len(read) : read[i] = begun[i]

\* The units not yet used, in the order in which they are read: those in the reader's
\* hands, those on the stream, those still to be written.
Rest == IF holder \in Writers THEN buf[holder] ELSE <<>>
Unused == partial \o (stream \o Rest)

\* Frame n is there as a whole, after the first p of them.
WholeAt(p, n) ==
  /\ p + 2 + begun[n].size <= Len(Unused)
  /\ \A q \in 1..2 : Unused[p + q] = F!HeaderUnit(begun[n], q)
  /\ \A q \in 1..begun[n].size : Unused[p + 2 + q] = F!BodyUnit(begun[n], q)

\* As long as the reader reads it is on a boundary: what comes is the rest of the current
\* frame and every later one, in order and with nothing between them.
NextWhole == IF reading = "header" THEN Current ELSE Current + 1
Aligned(start) ==
  /\ \A i \in Nat : start[i] \in Nat
  /\ start[NextWhole] = IF reading = "header" THEN 0 ELSE begun[Current].size
  /\ reading = "payload" =>
       \A q \in 1..begun[Current].size : Unused[q] = F!BodyUnit(begun[Current], q)
  /\ start[Len(begun) + 1] = Len(Unused)
  /\ \A n \in NextWhole..Len(begun) :
       WholeAt(start[n], n) /\ start[n + 1] = start[n] + 2 + begun[n].size
  /\ \A n \in NextWhole..Len(begun), m \in NextWhole..(Len(begun) + 1) :
       n < m => start[n] + 2 + begun[n].size <= start[m]
OnBoundary == reading # "off" => \E start : Aligned(start)

\* What the reader said when it returned.
Verdicts ==
  /\ verdict = "violation" => Len(read) < Len(begun) /\ ~F!Good(begun[Current])
  /\ verdict = "clean" => ~F!Broken /\ ToSet(read) = ToSet(begun) \ F!Unsent
  /\ verdict = "died" => F!Broken \/ \E f \in ToSet(begun) : f.body = "alien"
  /\ verdict \in {"clean", "died"} => streamEnded = "fin"

StreamInv == StreamTypes /\ Locked /\ Reader /\ Delivered /\ OnBoundary /\ Verdicts

-----------------------------------------------------------------------------
LEMMA Units ==
  ASSUME NEW f \in FrameRecord
  PROVE  /\ F!Header(f) \in Seq(UnitRecord) /\ Len(F!Header(f)) = 2
         /\ F!Body(f) \in Seq(UnitRecord) /\ Len(F!Body(f)) = f.size
         /\ \A q \in 1..2 : F!Header(f)[q] = F!HeaderUnit(f, q)
         /\ \A q \in 1..f.size : F!Body(f)[q] = F!BodyUnit(f, q)
         /\ \A q : F!HeaderUnit(f, q).of = f.id /\ F!BodyUnit(f, q).of = f.id
         /\ \A q : F!HeaderUnit(f, q).pos = q /\ F!HeaderUnit(f, q).head = TRUE
                   /\ F!BodyUnit(f, q).head = FALSE
         /\ f.size \in Nat \ {0}
<1>0. f.size \in 1..MaxSize /\ f.id \in Nat
  BY DEF FrameRecord
<1>1. f.size \in Nat \ {0}
  BY <1>0
<1>2. \A q \in Nat : F!HeaderUnit(f, q) \in UnitRecord /\ F!BodyUnit(f, q) \in UnitRecord
  BY <1>0 DEF UnitRecord, F!HeaderUnit, F!BodyUnit
<1>3. F!Header(f) = [i \in 1..2 |-> F!HeaderUnit(f, i)] /\ F!Body(f) = [i \in 1..f.size |-> F!BodyUnit(f, i)]
  BY DEF F!Header, F!Body, F!HeaderSize
<1>4. \A q \in 1..2 : q \in Nat
  OBVIOUS
<1>5. \A q \in 1..f.size : q \in Nat
  BY <1>1
<1>6. F!Header(f) \in Seq(UnitRecord) /\ Len(F!Header(f)) = 2
  BY <1>2, <1>3, <1>4
<1>7. F!Body(f) \in Seq(UnitRecord) /\ Len(F!Body(f)) = f.size
  BY <1>1, <1>2, <1>3, <1>5
<1>8. \A q : /\ F!HeaderUnit(f, q).of = f.id /\ F!BodyUnit(f, q).of = f.id
             /\ F!HeaderUnit(f, q).pos = q /\ F!HeaderUnit(f, q).head = TRUE
             /\ F!BodyUnit(f, q).head = FALSE
  BY DEF F!HeaderUnit, F!BodyUnit
<1> QED
  BY <1>1, <1>3, <1>6, <1>7, <1>8

LEMMA HeaderThenBody ==
  ASSUME NEW f \in FrameRecord
  PROVE  /\ F!Header(f) \o F!Body(f) \in Seq(UnitRecord)
         /\ Len(F!Header(f) \o F!Body(f)) = 2 + f.size
         /\ \A q \in 1..2 : (F!Header(f) \o F!Body(f))[q] = F!HeaderUnit(f, q)
         /\ \A q \in 1..f.size : (F!Header(f) \o F!Body(f))[2 + q] = F!BodyUnit(f, q)
<1> DEFINE h == F!Header(f)
           b == F!Body(f)
<1>1. /\ h \in Seq(UnitRecord) /\ Len(h) = 2
      /\ b \in Seq(UnitRecord) /\ Len(b) = f.size /\ f.size \in Nat
      /\ \A q \in 1..2 : h[q] = F!HeaderUnit(f, q)
      /\ \A q \in 1..f.size : b[q] = F!BodyUnit(f, q)
  BY Units
<1> HIDE DEF h, b
<1>2. /\ h \o b \in Seq(UnitRecord) /\ Len(h \o b) = Len(h) + Len(b)
      /\ \A i \in 1..(Len(h) + Len(b)) : (h \o b)[i] = IF i <= Len(h) THEN h[i] ELSE b[i - Len(h)]
  BY <1>1, ConcatProperties
<1>3. \A q \in 1..2 : (h \o b)[q] = F!HeaderUnit(f, q)
  BY <1>1, <1>2
<1>4. ASSUME NEW q \in 1..f.size
      PROVE  (h \o b)[2 + q] = F!BodyUnit(f, q)
  <2>1. 2 + q \in 1..(Len(h) + Len(b)) /\ ~(2 + q <= Len(h)) /\ 2 + q - Len(h) = q
    BY <1>1
  <2> QED
    BY <1>1, <1>2, <2>1
<1> QED
  BY <1>1, <1>2, <1>3, <1>4 DEF h, b

\* Two frames begun with the same first unit are one.
LEMMA OneFrame ==
  ASSUME StreamTypes, NEW f \in ToSet(begun), NEW g \in ToSet(begun), f.id = g.id
  PROVE  f = g
<1>1. DOMAIN begun = 1..Len(begun)
  BY DEF StreamTypes
<1>2. PICK i \in 1..Len(begun) : f = begun[i]
  BY <1>1 DEF ToSet
<1>3. PICK j \in 1..Len(begun) : g = begun[j]
  BY <1>1 DEF ToSet
<1> QED
  BY <1>2, <1>3 DEF StreamTypes

LEMMA BegunFrames ==
  ASSUME StreamTypes
  PROVE  /\ ToSet(begun) \subseteq FrameRecord /\ Len(begun) \in Nat
         /\ \A i \in 1..Len(begun) : begun[i] \in ToSet(begun) /\ begun[i] \in FrameRecord
         /\ \A f \in ToSet(begun) : f.id \in 1..Len(begun) /\ f = begun[f.id]
<1>1. DOMAIN begun = 1..Len(begun) /\ begun \in Seq(FrameRecord) /\ Len(begun) \in Nat
  BY DEF StreamTypes
<1>2. \A i \in 1..Len(begun) : begun[i] \in ToSet(begun) /\ begun[i] \in FrameRecord
  BY <1>1 DEF ToSet
<1>3. \A f \in ToSet(begun) : f \in FrameRecord /\ f.id \in 1..Len(begun) /\ f = begun[f.id]
  BY <1>1, <1>2 DEF ToSet, StreamTypes
<1> QED
  BY <1>1, <1>2, <1>3

LEMMA RestTypes ==
  ASSUME StreamTypes
  PROVE  /\ Rest \in Seq(UnitRecord) /\ partial \in Seq(UnitRecord) /\ stream \in Seq(UnitRecord)
         /\ Unused \in Seq(UnitRecord) /\ Len(Unused) = Len(partial) + (Len(stream) + Len(Rest))
<1>1. partial \in Seq(UnitRecord) /\ stream \in Seq(UnitRecord)
      /\ \A w \in Writers : buf[w] \in Seq(UnitRecord)
  BY DEF StreamTypes
<1>2. <<>> \in Seq(UnitRecord)
  OBVIOUS
<1>3. Rest \in Seq(UnitRecord)
  BY <1>1, <1>2 DEF Rest
<1> HIDE DEF Rest
<1>4. stream \o Rest \in Seq(UnitRecord) /\ Len(stream \o Rest) = Len(stream) + Len(Rest)
  BY <1>1, <1>3, ConcatProperties
<1>5. Unused \in Seq(UnitRecord) /\ Len(Unused) = Len(partial) + Len(stream \o Rest)
  BY <1>1, <1>4, ConcatProperties DEF Unused
<1> QED
  BY <1>1, <1>3, <1>4, <1>5

\* A unit that moves to the sequence before its own is still in its place.
LEMMA Moved ==
  ASSUME NEW S, NEW p \in Seq(S), NEW q \in Seq(S), q # <<>>
  PROVE  Append(p, Head(q)) \o Tail(q) = p \o q
<1>1. /\ Head(q) \in S /\ Tail(q) \in Seq(S) /\ Len(Tail(q)) = Len(q) - 1
      /\ Len(q) \in Nat \ {0} /\ Head(q) = q[1]
      /\ \A i \in 1..(Len(q) - 1) : Tail(q)[i] = q[i + 1]
  BY QueueTail
<1>2. /\ Append(p, Head(q)) \in Seq(S) /\ Len(Append(p, Head(q))) = Len(p) + 1 /\ Len(p) \in Nat
      /\ \A i \in 1..Len(p) : Append(p, Head(q))[i] = p[i]
      /\ Append(p, Head(q))[Len(p) + 1] = q[1]
  BY <1>1, QueueAppend
<1> DEFINE a == Append(p, Head(q))
           t == Tail(q)
<1>3. /\ a \o t \in Seq(S) /\ Len(a \o t) = Len(a) + Len(t)
      /\ \A i \in 1..(Len(a) + Len(t)) : (a \o t)[i] = IF i <= Len(a) THEN a[i] ELSE t[i - Len(a)]
  BY <1>1, <1>2, ConcatProperties
<1>4. /\ p \o q \in Seq(S) /\ Len(p \o q) = Len(p) + Len(q)
      /\ \A i \in 1..(Len(p) + Len(q)) : (p \o q)[i] = IF i <= Len(p) THEN p[i] ELSE q[i - Len(p)]
  BY ConcatProperties
<1>5. Len(a) + Len(t) = Len(p) + Len(q)
  BY <1>1, <1>2
<1>6. ASSUME NEW i \in 1..(Len(p) + Len(q))
      PROVE  (a \o t)[i] = (p \o q)[i]
  <2>1. CASE i <= Len(p)
    <3>1. (a \o t)[i] = a[i] /\ a[i] = p[i] /\ (p \o q)[i] = p[i]
      BY <1>2, <1>3, <1>4, <1>5, <2>1
    <3> QED
      BY <3>1
  <2>2. CASE i = Len(p) + 1
    <3>1. (a \o t)[i] = a[i] /\ a[i] = q[1]
      BY <1>2, <1>3, <1>5, <2>2
    <3>2. (p \o q)[i] = q[i - Len(p)] /\ i - Len(p) = 1
      BY <1>2, <1>4, <2>2
    <3> QED
      BY <3>1, <3>2
  <2>3. CASE i > Len(p) + 1
    <3>1. (a \o t)[i] = t[i - (Len(p) + 1)] /\ i - (Len(p) + 1) \in 1..(Len(q) - 1)
      BY <1>1, <1>2, <1>3, <1>5, <2>3
    <3>2. t[i - (Len(p) + 1)] = q[i - Len(p)]
      BY <1>1, <1>2, <3>1
    <3>3. (p \o q)[i] = q[i - Len(p)]
      BY <1>2, <1>4, <2>3
    <3> QED
      BY <3>1, <3>2, <3>3
  <2> QED
    BY <1>2, <2>1, <2>2, <2>3
<1> HIDE DEF a, t
<1>7. a \o t = p \o q
  BY <1>3, <1>4, <1>5, <1>6
<1> QED
  BY <1>7 DEF a, t

LEMMA SameSets == \A q : F!ToSet(q) = ToSet(q)
BY DEF F!ToSet, ToSet

LEMMA OneInSequence ==
  ASSUME NEW S, NEW x \in S, NEW q \in Seq(S)
  PROVE  q \o F!SetToSeq({x}) = Append(q, x)
<1>1. F!Cardinality({x}) = 1
  <2>1. F!Cardinality({x}) = Cardinality({x})
    BY DEF F!Cardinality, Cardinality
  <2> QED
    BY <2>1, FS_Singleton
<1>2. \A f \in [1..1 -> {x}] : f = [i \in 1..1 |-> x] /\ F!IsInjective(f)
  BY DEF F!IsInjective
<1>3. [i \in 1..1 |-> x] \in [1..1 -> {x}]
  OBVIOUS
<1>4. F!SetToSeq({x}) = [i \in 1..1 |-> x]
  BY <1>1, <1>2, <1>3 DEF F!SetToSeq
<1>5. [i \in 1..1 |-> x] = <<x>>
  OBVIOUS
<1> QED
  BY <1>4, <1>5, AppendIsConcat

-----------------------------------------------------------------------------
\* The boundaries stay where they are if the units not yet used do.
LEMMA BoundaryStays ==
  ASSUME OnBoundary, UNCHANGED <<begun, read, reading, Unused>>
  PROVE  OnBoundary'
<1>1. Current' = Current /\ NextWhole' = NextWhole
  BY DEF Current, NextWhole
<1>2. ASSUME NEW p, NEW n
      PROVE  WholeAt(p, n)' <=> WholeAt(p, n)
  BY DEF WholeAt, F!HeaderUnit, F!BodyUnit
<1>3. ASSUME NEW start, Aligned(start)
      PROVE  Aligned(start)'
  BY <1>1, <1>2, <1>3 DEF Aligned, F!BodyUnit
<1> QED
  BY <1>3 DEF OnBoundary

LEMMA WritesKeeps ==
  ASSUME F!FramingAssumption, StreamInv, NEW w \in Writers, F!Writes(w)
  PROVE  StreamTypes' /\ Locked' /\ Reader' /\ Delivered' /\ OnBoundary' /\ Verdicts'
<1>1. /\ StreamTypes /\ Locked /\ Reader /\ Delivered /\ OnBoundary /\ Verdicts
      /\ streamEnded = "no" /\ buf[w] # <<>>
      /\ stream' = Append(stream, Head(buf[w])) /\ buf' = [buf EXCEPT ![w] = Tail(@)]
      /\ holder' = IF Len(buf[w]) = 1 THEN NoOne ELSE holder
      /\ UNCHANGED <<begun, streamEnded, reading, partial, size, read, verdict>>
  BY DEF StreamInv, F!Writes
<1>2. /\ buf[w] \in Seq(UnitRecord) /\ stream \in Seq(UnitRecord) /\ partial \in Seq(UnitRecord)
      /\ \A v \in Writers : v # w => buf'[v] = buf[v]
      /\ buf'[w] = Tail(buf[w])
  BY <1>1 DEF StreamTypes
<1>3. holder = w
  BY <1>1 DEF Locked
<1>4. /\ Head(buf[w]) \in UnitRecord /\ Tail(buf[w]) \in Seq(UnitRecord)
      /\ Len(Tail(buf[w])) = Len(buf[w]) - 1 /\ Len(buf[w]) \in Nat \ {0}
      /\ \A i \in 1..(Len(buf[w]) - 1) : Tail(buf[w])[i] = buf[w][i + 1]
  BY <1>1, <1>2, QueueTail
<1>5. Tail(buf[w]) = <<>> <=> Len(buf[w]) = 1
  <2>1. Tail(buf[w]) = <<>> <=> Len(Tail(buf[w])) = 0
    BY <1>4, EmptySeq
  <2> QED
    BY <1>4, <2>1
<1>6. Rest = buf[w] /\ Rest' = Tail(buf[w])
  <2>1. Rest = buf[w] /\ NoOne \notin Writers
    BY <1>3 DEF Rest, F!FramingAssumption
  <2>2. CASE Len(buf[w]) = 1
    BY <1>1, <1>5, <2>1, <2>2 DEF Rest
  <2>3. CASE Len(buf[w]) # 1
    <3>1. holder' = w
      BY <1>1, <1>3, <2>3
    <3> QED
      BY <1>2, <2>1, <3>1 DEF Rest
  <2> QED
    BY <2>2, <2>3, <2>1
<1>7. stream' \o Rest' = stream \o Rest
  BY <1>1, <1>2, <1>6, Moved
<1>8. OnBoundary'
  BY <1>1, <1>7, BoundaryStays DEF Unused
<1>9. StreamTypes'
  <2>1. stream' \in Seq(UnitRecord) /\ buf' \in [Writers -> Seq(UnitRecord)]
    BY <1>1, <1>2, <1>4, QueueAppend DEF StreamTypes
  <2> QED
    BY <1>1, <2>1 DEF StreamTypes
<1>10. Locked'
  <2>1. \A v \in Writers : v # w => buf'[v] = <<>>
    BY <1>1, <1>2, <1>3 DEF Locked
  <2>2. buf'[w] # <<>> => holder' = w
    <3>1. buf'[w] # <<>> => Len(buf[w]) # 1
      BY <1>2, <1>5
    <3> QED
      BY <1>1, <1>3, <3>1
  <2>3. \A i \in 1..Len(buf'[w]) : buf'[w][i].of = Len(begun')
    <3>1. \A i \in 1..Len(buf[w]) : buf[w][i].of = Len(begun)
      BY <1>1 DEF Locked
    <3>2. \A i \in 1..(Len(buf[w]) - 1) : i + 1 \in 1..Len(buf[w])
      BY <1>4
    <3> QED
      BY <1>1, <1>2, <1>4, <3>1, <3>2
  <2>4. holder' \in Writers => buf'[holder'] # <<>>
    BY <1>1, <1>2, <1>3, <1>5 DEF F!FramingAssumption
  <2> QED
    BY <2>1, <2>2, <2>3, <2>4 DEF Locked
<1>11. Reader' /\ Delivered'
  BY <1>1 DEF Reader, Delivered, Current
<1>12. Verdicts'
  BY <1>1 DEF Verdicts, F!Good, Current
<1> QED
  BY <1>8, <1>9, <1>10, <1>11, <1>12

LEMMA AlignedWithin ==
  ASSUME StreamTypes, Reader, Delivered, reading # "off", NEW start, Aligned(start)
  PROVE  NextWhole \in 1..(Len(begun) + 1) /\ start[NextWhole] <= Len(Unused)
<1> DEFINE L == Len(begun)
<1>1. L \in Nat /\ Len(read) \in Nat /\ Len(read) <= L
  BY BegunFrames DEF StreamTypes, Delivered
<1>2. Len(Unused) \in Nat
  BY RestTypes
<1>3. NextWhole \in 1..(L + 1)
  <2>1. reading = "header" \/ (reading = "payload" /\ Current <= L)
    BY DEF StreamTypes, Reader
  <2>2. NextWhole = IF reading = "header" THEN Len(read) + 1 ELSE (Len(read) + 1) + 1
    BY DEF NextWhole, Current
  <2>3. Current = Len(read) + 1
    BY DEF Current
  <2> QED
    BY <1>1, <2>1, <2>2, <2>3
<1>4. CASE NextWhole = L + 1
  BY <1>2, <1>3, <1>4 DEF Aligned
<1>5. CASE NextWhole # L + 1
  <2>1. NextWhole \in NextWhole..L /\ NextWhole \in 1..L
    BY <1>1, <1>3, <1>5
  <2>2. begun[NextWhole].size \in Nat
    BY <2>1, BegunFrames, Units
  <2>3. start[NextWhole] \in Nat /\ WholeAt(start[NextWhole], NextWhole)
    BY <1>3, <2>1 DEF Aligned
  <2>4. start[NextWhole] <= Len(Unused)
    BY <1>2, <2>2, <2>3 DEF WholeAt
  <2> QED
    BY <1>3, <2>4
<1> QED
  BY <1>4, <1>5

LEMMA BeginsKeeps ==
  ASSUME F!FramingAssumption, StreamInv, NEW w \in Writers, NEW n \in F!Sizes,
         NEW body \in Bodies, F!Begins(w, n, body)
  PROVE  StreamTypes' /\ Locked' /\ Reader' /\ Delivered' /\ OnBoundary' /\ Verdicts'
<1>a. PICK L : L = Len(begun)
  OBVIOUS
<1>b. PICK T : T = Len(Unused)
  OBVIOUS
<1> USE <1>a, <1>b
<1> DEFINE f == [id |-> L + 1, size |-> n, body |-> body]
           units == F!Header(f) \o F!Body(f)
<1>1. /\ StreamTypes /\ Locked /\ Reader /\ Delivered /\ OnBoundary /\ Verdicts
      /\ streamEnded = "no" /\ L < MaxFrames /\ n <= MaxSize /\ holder = NoOne /\ holder' = w
      /\ begun' = Append(begun, f) /\ buf' = [buf EXCEPT ![w] = units]
      /\ UNCHANGED <<stream, streamEnded, reading, partial, size, read, verdict>>
  BY DEF StreamInv, F!Begins
<1>2. MaxSize \in Nat /\ MaxFrames \in Nat /\ NoOne \notin Writers
  BY DEF F!FramingAssumption
<1>3. L \in Nat /\ begun \in Seq(FrameRecord)
  BY <1>1 DEF StreamTypes
<1>4. f \in FrameRecord /\ f.id = L + 1 /\ f.size = n /\ n \in Nat \ {0}
  BY <1>1, <1>2, <1>3 DEF FrameRecord, F!Sizes
<1>5. /\ units \in Seq(UnitRecord) /\ Len(units) = 2 + n
      /\ \A q \in 1..2 : units[q] = F!HeaderUnit(f, q)
      /\ \A q \in 1..n : units[2 + q] = F!BodyUnit(f, q)
  BY <1>4, HeaderThenBody
<1>6. \A q : F!HeaderUnit(f, q).of = L + 1 /\ F!BodyUnit(f, q).of = L + 1
  BY <1>4, Units
<1> HIDE DEF f, units
<1>7. /\ begun' \in Seq(FrameRecord) /\ Len(begun') = L + 1
      /\ \A i \in 1..L : begun'[i] = begun[i]
      /\ begun'[L + 1] = f /\ 1..(L + 1) = 1..L \cup {L + 1}
  BY <1>1, <1>3, <1>4, QueueAppend
<1>8. \A v \in Writers : buf[v] = <<>>
  BY <1>1, <1>2 DEF Locked
<1>9. /\ buf' \in [Writers -> Seq(UnitRecord)] /\ buf'[w] = units
      /\ \A v \in Writers : v # w => buf'[v] = <<>>
  BY <1>1, <1>5, <1>8 DEF StreamTypes
<1>10. StreamTypes'
  <2>1. \A i \in 1..Len(begun') : begun'[i].id = i
    BY <1>1, <1>4, <1>7 DEF StreamTypes
  <2>2. Len(begun') <= MaxFrames
    BY <1>1, <1>2, <1>3, <1>7
  <2> QED
    BY <1>1, <1>7, <1>9, <2>1, <2>2 DEF StreamTypes
<1>11. Locked'
  <2>1. ASSUME NEW i \in 1..Len(units)
        PROVE  units[i].of = L + 1
    <3>1. i \in 1..2 \/ (i - 2 \in 1..n /\ i = 2 + (i - 2))
      BY <1>4, <1>5
    <3> QED
      BY <1>5, <1>6, <3>1
  <2>2. units # <<>>
    BY <1>4, <1>5
  <2> QED
    BY <1>1, <1>7, <1>9, <2>1, <2>2 DEF Locked
<1>12. Len(read) \in Nat /\ Len(read) <= L
  BY <1>1 DEF StreamTypes, Delivered
<1>13. Reader' /\ Delivered' /\ Verdicts'
  <2>1. Reader'
    BY <1>1, <1>3, <1>7, <1>12 DEF Reader, Current
  <2>2. Delivered'
    BY <1>1, <1>3, <1>7, <1>12 DEF Delivered
  <2>3. verdict = "violation" => Current \in 1..L /\ begun'[Current] = begun[Current]
    BY <1>1, <1>3, <1>7, <1>12 DEF Verdicts, Current
  <2>4. Verdicts'
    BY <1>1, <1>3, <1>7, <1>12, <2>3 DEF Verdicts, F!Good, Current
  <2> QED
    BY <2>1, <2>2, <2>4
<1>14. /\ Unused \in Seq(UnitRecord) /\ T \in Nat
       /\ Unused' = Unused \o units
  <2>1. Rest = <<>> /\ Rest' = units
    BY <1>1, <1>2, <1>9 DEF Rest
  <2>2. partial \in Seq(UnitRecord) /\ stream \in Seq(UnitRecord) /\ Unused \in Seq(UnitRecord)
    BY <1>1, RestTypes
  <2>3. stream \o <<>> = stream
    BY <2>2, ConcatEmptySeq
  <2>4. Unused = partial \o stream
    BY <2>1, <2>3 DEF Unused
  <2>5. Unused' = partial \o (stream \o units)
    BY <1>1, <2>1 DEF Unused
  <2>6. (partial \o stream) \o units = partial \o (stream \o units)
    <3>1. units \in Seq(UnitRecord)
      BY <1>5
    <3> HIDE DEF UnitRecord
    <3> QED
      BY <2>2, <3>1, ConcatAssociative
  <2> QED
    BY <2>2, <2>4, <2>5, <2>6
<1>15. /\ Len(Unused') = T + (2 + n)
       /\ \A i \in 1..T : Unused'[i] = Unused[i]
       /\ \A i \in 1..(2 + n) : Unused'[T + i] = units[i]
  <2>1. /\ Len(Unused \o units) = T + Len(units)
        /\ \A i \in 1..(T + Len(units)) : (Unused \o units)[i] = IF i <= T THEN Unused[i] ELSE units[i - T]
    BY <1>5, <1>14, ConcatProperties
  <2>2. ASSUME NEW i \in 1..T
        PROVE  Unused'[i] = Unused[i]
    BY <1>4, <1>5, <1>14, <2>1
  <2>3. ASSUME NEW i \in 1..(2 + n)
        PROVE  Unused'[T + i] = units[i]
    <3>1. T + i \in 1..(T + Len(units)) /\ ~(T + i <= T) /\ (T + i) - T = i
      BY <1>4, <1>5, <1>14
    <3> QED
      BY <1>14, <2>1, <3>1
  <2> QED
    BY <1>5, <1>14, <2>1, <2>2, <2>3
<1>16. OnBoundary'
  <2> SUFFICES ASSUME reading # "off"
               PROVE  \E start : Aligned(start)'
    BY <1>1 DEF OnBoundary
  <2>1. PICK start : Aligned(start)
    BY <1>1 DEF OnBoundary
  <2>2. NextWhole \in 1..(L + 1) /\ start[NextWhole] <= T
    BY <1>1, <2>1, AlignedWithin
  <2>3. NextWhole' = NextWhole /\ Current' = Current
    BY <1>1 DEF NextWhole, Current
  <2>4. PICK after :
          /\ \A i \in Nat : after[i] \in Nat
          /\ after[L + 2] = T + 2 + n
          /\ \A m \in 1..(L + 1) : after[m] = start[m]
    <3> DEFINE longer == [i \in Nat |-> IF i = L + 2 THEN T + 2 + n ELSE start[i]]
    <3>1. \A i \in Nat : start[i] \in Nat
      BY <2>1 DEF Aligned
    <3>2. L + 2 \in Nat /\ T + 2 + n \in Nat /\ \A m \in 1..(L + 1) : m \in Nat /\ m # L + 2
      BY <1>3, <1>4, <1>14
    <3>3. /\ \A i \in Nat : longer[i] \in Nat
          /\ longer[L + 2] = T + 2 + n
          /\ \A m \in 1..(L + 1) : longer[m] = start[m]
      BY <3>1, <3>2
    <3> QED
      BY <3>3
  <2>5. start[L + 1] = T
    BY <2>1 DEF Aligned
  <2>6. \A m \in 1..L : begun[m].size \in Nat
    <3>1. \A m \in 1..L : begun[m] \in FrameRecord
      BY <1>1, BegunFrames
    <3> QED
      BY <3>1, Units
  <2>7. reading = "payload" =>
          /\ Current \in 1..L /\ begun'[Current] = begun[Current]
          /\ \A q \in 1..begun[Current].size : q \in 1..T
    <3> SUFFICES ASSUME reading = "payload"
                 PROVE  /\ Current \in 1..L /\ begun'[Current] = begun[Current]
                        /\ \A q \in 1..begun[Current].size : q \in 1..T
      OBVIOUS
    <3>1. Current \in 1..L
      BY <1>1, <1>3, <1>12 DEF Reader, Current
    <3>2. start[NextWhole] = begun[Current].size
      BY <2>1 DEF Aligned
    <3>3. begun[Current].size \in Nat
      BY <2>6, <3>1
    <3> QED
      <4>1. begun[Current].size <= T
        BY <2>2, <3>2
      <4>2. \A q \in 1..begun[Current].size : q \in 1..T
        BY <1>14, <3>3, <4>1
      <4> QED
        BY <1>7, <3>1, <4>2
  <2>8. ASSUME NEW m \in NextWhole..L
        PROVE  WholeAt(after[m], m)' /\ after[m + 1] = after[m] + 2 + begun'[m].size
               /\ start[m] + 2 + begun[m].size <= T
    <3>1. m \in 1..L /\ m \in 1..(L + 1) /\ m + 1 \in 1..(L + 1)
      BY <1>3, <2>2
    <3>2. WholeAt(start[m], m) /\ start[m + 1] = start[m] + 2 + begun[m].size
      BY <2>1 DEF Aligned
    <3>3. /\ begun[m].size \in Nat /\ start[m] \in Nat /\ begun'[m] = begun[m]
          /\ after[m] = start[m] /\ after[m + 1] = start[m + 1]
      BY <1>7, <2>4, <2>6, <3>1
    <3>4. start[m] + 2 + begun[m].size <= T
      BY <3>2 DEF WholeAt
    <3>5. /\ \A q \in 1..2 : start[m] + q \in 1..T
          /\ \A q \in 1..begun[m].size : start[m] + 2 + q \in 1..T
      <4>1. \A a, b, c \in Nat : a + 2 + b <= c =>
              /\ \A q \in 1..2 : a + q \in 1..c
              /\ \A q \in 1..b : a + 2 + q \in 1..c
        OBVIOUS
      <4> QED
        BY <1>14, <3>3, <3>4, <4>1
    <3>6. \A q \in 1..2 : Unused'[after[m] + q] = F!HeaderUnit(begun'[m], q)
      BY <1>15, <3>2, <3>3, <3>5 DEF WholeAt
    <3>7. \A q \in 1..begun'[m].size : Unused'[after[m] + 2 + q] = F!BodyUnit(begun'[m], q)
      BY <1>15, <3>2, <3>3, <3>5 DEF WholeAt
    <3>8. after[m] + 2 + begun'[m].size <= Len(Unused')
      BY <1>4, <1>14, <1>15, <3>3, <3>4
    <3>9. WholeAt(after[m], m)'
      BY <3>6, <3>7, <3>8 DEF WholeAt, F!HeaderUnit, F!BodyUnit
    <3> QED
      BY <3>2, <3>3, <3>4, <3>9
  <2>9. WholeAt(after[L + 1], L + 1)' /\ after[L + 2] = after[L + 1] + 2 + begun'[L + 1].size
    <3>1. after[L + 1] = T /\ begun'[L + 1] = f
      BY <1>3, <1>7, <2>4, <2>5
    <3>2. \A q \in 1..2 : q \in 1..(2 + n)
      BY <1>4
    <3>3. \A q \in 1..n : 2 + q \in 1..(2 + n) /\ T + 2 + q = T + (2 + q)
      BY <1>4, <1>14
    <3>4. T + 2 + n = T + (2 + n)
      BY <1>4, <1>14
    <3>5. \A q \in 1..2 : Unused'[T + q] = F!HeaderUnit(f, q)
      BY <1>5, <1>15, <3>2
    <3>6. \A q \in 1..n : Unused'[T + 2 + q] = F!BodyUnit(f, q)
      BY <1>5, <1>15, <3>3
    <3>7. T + 2 + f.size <= Len(Unused') /\ f.size = n
      BY <1>4, <1>14, <1>15
    <3>8. WholeAt(T, L + 1)'
      BY <3>1, <3>5, <3>6, <3>7 DEF WholeAt, F!HeaderUnit, F!BodyUnit
    <3> QED
      BY <2>4, <3>1, <3>7, <3>8
  <2>10. ASSUME NEW m \in NextWhole..(L + 1)
         PROVE  WholeAt(after[m], m)' /\ after[m + 1] = after[m] + 2 + begun'[m].size
    <3>1. m \in NextWhole..L \/ m = L + 1
      BY <1>3, <2>2
    <3>2. (L + 1) + 1 = L + 2
      BY <1>3
    <3>3. CASE m \in NextWhole..L
      BY <2>8, <3>3
    <3>4. CASE m = L + 1
      BY <2>9, <3>2, <3>4
    <3> QED
      BY <3>1, <3>3, <3>4
  <2>11. ASSUME NEW m \in NextWhole..(L + 1), NEW k \in NextWhole..(L + 2), m < k
         PROVE  after[m] + 2 + begun'[m].size <= after[k]
    <3>1. CASE m = L + 1
      <4>1. k = m + 1
        BY <1>3, <2>2, <2>11, <3>1
      <4>2. after[k] \in Nat
        BY <1>3, <2>4, <4>1, <3>1
      <4> QED
        BY <2>10, <4>1, <4>2
    <3>2. CASE m # L + 1
      <4>1. m \in NextWhole..L /\ m \in 1..L /\ m \in 1..(L + 1)
        BY <1>3, <2>2, <3>2
      <4>2. /\ start[m] + 2 + begun[m].size <= T /\ after[m] = start[m] /\ begun'[m] = begun[m]
            /\ begun[m].size \in Nat /\ start[m] \in Nat
        BY <1>7, <2>4, <2>6, <2>8, <4>1
      <4>3. CASE k = L + 2
        BY <1>4, <1>14, <2>4, <4>2, <4>3
      <4>4. CASE k # L + 2
        <5>1. k \in NextWhole..(L + 1) /\ k \in 1..(L + 1)
          BY <1>3, <2>2, <4>4
        <5>2. start[m] + 2 + begun[m].size <= start[k]
          BY <2>1, <2>11, <4>1, <5>1 DEF Aligned
        <5> QED
          BY <2>4, <4>2, <5>1, <5>2
      <4> QED
        BY <4>3, <4>4
    <3> QED
      BY <3>1, <3>2
  <2>12. after[NextWhole] = IF reading' = "header" THEN 0 ELSE begun'[Current].size
    <3>1. after[NextWhole] = start[NextWhole]
      BY <2>2, <2>4
    <3>2. reading = "header" \/ reading = "payload"
      BY <1>1 DEF StreamTypes
    <3> QED
      BY <1>1, <2>1, <2>7, <3>1, <3>2 DEF Aligned
  <2>13. reading' = "payload" =>
           \A q \in 1..begun'[Current].size : Unused'[q] = F!BodyUnit(begun'[Current], q)
    BY <1>1, <1>15, <2>1, <2>7 DEF Aligned
  <2>14. after[Len(begun') + 1] = Len(Unused')
    <3>1. Len(begun') + 1 = L + 2 /\ T + 2 + n = T + (2 + n)
      BY <1>3, <1>4, <1>7, <1>14
    <3> QED
      BY <1>15, <2>4, <3>1
  <2>15. Len(begun') + 1 = L + 2
    BY <1>3, <1>7
  <2>16. Aligned(after)'
    <3>1. after[NextWhole'] = IF reading' = "header" THEN 0 ELSE begun'[Current'].size
      BY <2>3, <2>12
    <3>2. reading' = "payload" => \A q \in 1..begun'[Current'].size :
            Unused'[q] = F!BodyUnit(begun'[Current'], q)
      BY <2>3, <2>13
    <3>3. \A m \in (NextWhole')..Len(begun') :
            WholeAt(after[m], m)' /\ after[m + 1] = after[m] + 2 + begun'[m].size
      BY <1>7, <2>3, <2>10
    <3>4. \A m \in (NextWhole')..Len(begun'), k \in (NextWhole')..(Len(begun') + 1) :
            m < k => after[m] + 2 + begun'[m].size <= after[k]
      BY <1>7, <2>3, <2>11, <2>15
    <3> HIDE DEF NextWhole, Current
    <3> QED
      BY <2>4, <2>14, <3>1, <3>2, <3>3, <3>4 DEF Aligned, F!BodyUnit
  <2> QED
    BY <2>4, <2>16
<1> QED
  BY <1>10, <1>11, <1>13, <1>16

\* The reader takes one more unit.
LEMMA Taken ==
  ASSUME StreamTypes, stream # <<>>, NEW units, units = Append(partial, Head(stream)),
         NEW k, k = Len(partial) + 1
  PROVE  /\ k \in Nat \ {0} /\ units \in Seq(UnitRecord) /\ Len(units) = k
         /\ Len(Unused) \in Nat /\ k <= Len(Unused)
         /\ \A q \in 1..k : units[q] = Unused[q]
         /\ Tail(stream) \o Rest \in Seq(UnitRecord)
         /\ Len(Tail(stream) \o Rest) = Len(Unused) - k
         /\ \A i \in 1..(Len(Unused) - k) : (Tail(stream) \o Rest)[i] = Unused[k + i]
         /\ units \o (Tail(stream) \o Rest) = Unused
         /\ Tail(stream) \in Seq(UnitRecord)
<1>1. /\ Rest \in Seq(UnitRecord) /\ partial \in Seq(UnitRecord) /\ stream \in Seq(UnitRecord)
      /\ Unused \in Seq(UnitRecord)
  BY RestTypes
<1>2. Head(stream) \in UnitRecord /\ Tail(stream) \in Seq(UnitRecord)
  BY <1>1, QueueTail
<1>3. units \in Seq(UnitRecord) /\ Len(units) = k /\ k \in Nat \ {0}
  BY <1>1, <1>2, QueueAppend
<1>4. units \o Tail(stream) = partial \o stream
  BY <1>1, Moved
<1> HIDE DEF Rest, UnitRecord
<1>0. \A s, t, u \in Seq(UnitRecord) : (s \o t) \o u = s \o (t \o u)
  BY ConcatAssociative
<1>5. units \o (Tail(stream) \o Rest) = (units \o Tail(stream)) \o Rest
  <2>1. PICK t : t = Tail(stream)
    OBVIOUS
  <2>2. t \in Seq(UnitRecord) /\ units \in Seq(UnitRecord) /\ Rest \in Seq(UnitRecord)
    BY <1>1, <1>2, <1>3, <2>1
  <2>3. (units \o t) \o Rest = units \o (t \o Rest)
    BY <2>2, ConcatAssociative
  <2> QED
    BY <2>1, <2>3
<1>6. (partial \o stream) \o Rest = partial \o (stream \o Rest)
  BY <1>0, <1>1
<1>7. units \o (Tail(stream) \o Rest) = Unused
  BY <1>4, <1>5, <1>6 DEF Unused
<1>8. PICK r : r = Tail(stream) \o Rest
  OBVIOUS
<1>9. r \in Seq(UnitRecord) /\ units \o r = Unused
  BY <1>1, <1>2, <1>7, <1>8, ConcatProperties
<1>10. /\ Len(Unused) = k + Len(r) /\ Len(r) \in Nat
       /\ \A i \in 1..(k + Len(r)) : Unused[i] = IF i <= k THEN units[i] ELSE r[i - k]
  <2>1. /\ Len(units \o r) = Len(units) + Len(r) /\ Len(r) \in Nat
        /\ \A i \in 1..(Len(units) + Len(r)) :
             (units \o r)[i] = IF i <= Len(units) THEN units[i] ELSE r[i - Len(units)]
    BY <1>3, <1>9, ConcatProperties
  <2> QED
    BY <1>3, <1>9, <2>1
<1>11. ASSUME NEW i \in 1..(Len(Unused) - k)
       PROVE  r[i] = Unused[k + i]
  <2>1. k + i \in 1..(k + Len(r)) /\ ~(k + i <= k) /\ (k + i) - k = i
    BY <1>3, <1>10
  <2> QED
    BY <1>10, <2>1
<1>12. ASSUME NEW q \in 1..k
       PROVE  units[q] = Unused[q]
  BY <1>3, <1>10
<1>13. Len(Unused) \in Nat /\ k <= Len(Unused) /\ Len(r) = Len(Unused) - k
  BY <1>3, <1>10
<1> QED
  BY <1>2, <1>3, <1>7, <1>8, <1>9, <1>11, <1>12, <1>13

\* The first k units are used up.
UsedUp(k) ==
  /\ Len(Unused') = Len(Unused) - k
  /\ \A i \in 1..(Len(Unused) - k) : Unused'[i] = Unused[k + i]

\* Where the frames from the first on are, when k units before them are used up.
Follows(after, start, first, k) ==
  /\ \A i \in Nat : after[i] \in Nat
  /\ \A m \in first..(Len(begun) + 1) : after[m] = start[m] - k
  /\ \A m \in first..Len(begun) :
       WholeAt(after[m], m)' /\ after[m + 1] = after[m] + 2 + begun[m].size
  /\ \A m \in first..Len(begun), j \in first..(Len(begun) + 1) :
       m < j => after[m] + 2 + begun[m].size <= after[j]

\* When k units are used up, every later frame is k units nearer.
LEMMA Nearer ==
  ASSUME StreamTypes, NEW start, Aligned(start), NextWhole \in 1..(Len(begun) + 1),
         NEW first \in NextWhole..(Len(begun) + 1), NEW k \in Nat, k <= start[first],
         UNCHANGED begun, UsedUp(k)
  PROVE  \E after : Follows(after, start, first, k)
<1>a. PICK L : L = Len(begun)
  OBVIOUS
<1>b. PICK T : T = Len(Unused)
  OBVIOUS
<1>c. PICK low : low = NextWhole
  OBVIOUS
<1> USE <1>a, <1>b
<1>1. L \in Nat /\ T \in Nat /\ low \in Nat \ {0} /\ first \in Nat \ {0} /\ low <= first
  BY <1>c, BegunFrames, RestTypes
<1>2. /\ \A i \in Nat : start[i] \in Nat
      /\ \A m \in low..L : WholeAt(start[m], m) /\ start[m + 1] = start[m] + 2 + begun[m].size
      /\ \A m \in low..L, j \in low..(L + 1) :
           m < j => start[m] + 2 + begun[m].size <= start[j]
  BY <1>c DEF Aligned
<1>3. \A m \in 1..L : begun[m].size \in Nat
  <2>1. \A m \in 1..L : begun[m] \in FrameRecord
    BY BegunFrames
  <2> QED
    BY <2>1, Units
<1>4. ASSUME NEW m \in first..(L + 1)
      PROVE  m \in Nat /\ m \in low..(L + 1) /\ k <= start[m]
  <2>1. m \in Nat /\ m \in low..(L + 1) /\ first \in low..(L + 1)
    BY <1>1
  <2>2. CASE m = first
    BY <2>1, <2>2
  <2>3. CASE m # first
    <3>1. first \in low..L /\ first < m /\ first \in 1..L
      BY <1>1, <2>1, <2>3
    <3>2. start[first] + 2 + begun[first].size <= start[m]
      BY <1>2, <2>1, <3>1
    <3>3. start[first] \in Nat /\ start[m] \in Nat /\ begun[first].size \in Nat
      BY <1>1, <1>2, <1>3, <2>1, <3>1
    <3>4. \A a, b, d \in Nat : k <= a /\ a + 2 + b <= d => k <= d
      OBVIOUS
    <3>5. k <= start[m]
      BY ONLY <3>2, <3>3, <3>4, k <= start[first], Zenon
    <3> QED
      BY <2>1, <3>5
  <2> QED
    BY <2>2, <2>3
<1>5. PICK after :
        /\ \A i \in Nat : after[i] \in Nat
        /\ \A m \in first..(L + 1) : after[m] = start[m] - k
  <2> DEFINE near == [i \in Nat |-> IF i \in first..(L + 1) THEN start[i] - k ELSE 0]
  <2>1. \A m \in first..(L + 1) : m \in Nat /\ start[m] - k \in Nat
    <3>1. \A a, b \in Nat : a <= b => b - a \in Nat
      OBVIOUS
    <3> QED
      BY <1>2, <1>4, <3>1
  <2>2. \A i \in Nat : near[i] \in Nat
    BY <2>1
  <2>3. \A m \in first..(L + 1) : near[m] = start[m] - k
    BY <2>1
  <2> QED
    BY <2>2, <2>3
<1>6. ASSUME NEW m \in first..L
      PROVE  /\ m \in low..L /\ start[m] \in Nat /\ begun[m].size \in Nat
             /\ after[m] = start[m] - k /\ after[m + 1] = start[m + 1] - k
             /\ after[m] \in Nat /\ k <= start[m]
  <2>1. m \in 1..L /\ m \in first..(L + 1) /\ m + 1 \in first..(L + 1) /\ m \in Nat /\ m \in low..L
    BY <1>1
  <2>2. start[m] \in Nat /\ begun[m].size \in Nat /\ k <= start[m]
    BY <1>2, <1>3, <1>4, <2>1
  <2>3. after[m] = start[m] - k /\ after[m + 1] = start[m + 1] - k /\ after[m] \in Nat
    BY <1>5, <2>1
  <2> QED
    BY <2>1, <2>2, <2>3
<1>7. ASSUME NEW m \in first..L
      PROVE  after[m + 1] = after[m] + 2 + begun[m].size
  <2>1. start[m + 1] = start[m] + 2 + begun[m].size
    BY <1>2, <1>6
  <2>2. \A a, b, c \in Nat : (a + 2 + b) - c = (a - c) + 2 + b
    OBVIOUS
  <2>3. start[m] \in Nat /\ begun[m].size \in Nat /\ k \in Nat
    BY <1>6
  <2>4. after[m] = start[m] - k /\ after[m + 1] = start[m + 1] - k
    BY <1>6
  <2>5. (start[m] + 2 + begun[m].size) - k = (start[m] - k) + 2 + begun[m].size
    BY ONLY <2>2, <2>3, Zenon
  <2> QED
    BY ONLY <2>1, <2>4, <2>5
<1>8. ASSUME NEW m \in first..L
      PROVE  WholeAt(after[m], m)'
  <2>1. /\ start[m] + 2 + begun[m].size <= T
        /\ \A q \in 1..2 : Unused[start[m] + q] = F!HeaderUnit(begun[m], q)
        /\ \A q \in 1..begun[m].size : Unused[start[m] + 2 + q] = F!BodyUnit(begun[m], q)
    BY <1>2, <1>6 DEF WholeAt
  <2>2. /\ after[m] + 2 + begun[m].size <= T - k
        /\ \A q \in 1..2 : after[m] + q \in 1..(T - k) /\ k + (after[m] + q) = start[m] + q
        /\ \A q \in 1..begun[m].size : /\ after[m] + 2 + q \in 1..(T - k)
                                       /\ k + (after[m] + 2 + q) = start[m] + 2 + q
    <3>1. /\ start[m] \in Nat /\ begun[m].size \in Nat /\ T \in Nat /\ k \in Nat
          /\ start[m] + 2 + begun[m].size <= T /\ k <= start[m]
      BY <1>1, <1>6, <2>1
    <3>2. \A a, b, c, d \in Nat : a + 2 + b <= c /\ d <= a => (a - d) + 2 + b <= c - d
      OBVIOUS
    <3>5. after[m] = start[m] - k
      BY <1>6
    <3>6. after[m] + 2 + begun[m].size <= T - k
      BY <3>1, <3>2, <3>5
    <3>7. PICK a : a = start[m]
      OBVIOUS
    <3>8. PICK b : b = begun[m].size
      OBVIOUS
    <3>9. a \in Nat /\ b \in Nat /\ T \in Nat /\ k \in Nat /\ a + 2 + b <= T /\ k <= a
      BY <3>1, <3>7, <3>8
    <3>10. ASSUME NEW q \in 1..2
           PROVE  (a - k) + q \in 1..(T - k) /\ k + ((a - k) + q) = a + q
      BY ONLY <3>9
    <3>11. ASSUME NEW q \in 1..b
           PROVE  (a - k) + 2 + q \in 1..(T - k) /\ k + ((a - k) + 2 + q) = a + 2 + q
      BY ONLY <3>9
    <3> QED
      BY <3>5, <3>6, <3>7, <3>8, <3>10, <3>11
  <2>3. \A q \in 1..2 : Unused'[after[m] + q] = F!HeaderUnit(begun[m], q)
    BY <2>1, <2>2 DEF UsedUp
  <2>4. \A q \in 1..begun[m].size : Unused'[after[m] + 2 + q] = F!BodyUnit(begun[m], q)
    BY <2>1, <2>2 DEF UsedUp
  <2>5. after[m] + 2 + begun[m].size <= Len(Unused')
    BY <2>2 DEF UsedUp
  <2> QED
    BY <2>3, <2>4, <2>5 DEF WholeAt, F!HeaderUnit, F!BodyUnit
<1>9. ASSUME NEW m \in first..L, NEW j \in first..(L + 1), m < j
      PROVE  after[m] + 2 + begun[m].size <= after[j]
  <2>1. j \in low..(L + 1) /\ after[j] = start[j] - k /\ j \in Nat
    BY <1>4, <1>5
  <2>2. start[m] + 2 + begun[m].size <= start[j] /\ start[j] \in Nat
    BY <1>2, <1>6, <1>9, <2>1
  <2>3. \A a, b, c, d \in Nat : a + 2 + b <= c /\ d <= a => (a - d) + 2 + b <= c - d
    OBVIOUS
  <2>4. start[m] \in Nat /\ begun[m].size \in Nat /\ k <= start[m] /\ after[m] = start[m] - k
    BY <1>6
  <2> QED
    BY <2>1, <2>2, <2>3, <2>4
<1> QED
  BY <1>5, <1>7, <1>8, <1>9 DEF Follows

LEMMA ReadsOnKeeps ==
  ASSUME F!FramingAssumption, StreamInv, F!ReadsOn
  PROVE  StreamInv'
<1>1. /\ StreamTypes /\ Locked /\ Reader /\ Delivered /\ OnBoundary /\ Verdicts
      /\ reading # "off" /\ stream # <<>>
      /\ Len(partial) + 1 < (IF reading = "header" THEN 2 ELSE size)
      /\ partial' = Append(partial, Head(stream)) /\ stream' = Tail(stream)
      /\ UNCHANGED <<holder, buf, begun, streamEnded, reading, size, read, verdict>>
  BY DEF StreamInv, F!ReadsOn, F!HeaderSize
<1>2. PICK k : k = Len(partial) + 1
  OBVIOUS
<1>3. /\ partial' \in Seq(UnitRecord) /\ Len(partial') = k /\ stream' \in Seq(UnitRecord)
      /\ partial' \o (stream' \o Rest) = Unused
  BY <1>1, <1>2, Taken
<1>4. Rest' = Rest
  BY <1>1 DEF Rest
<1>5. Unused' = Unused
  <2>1. Unused' = partial' \o (stream' \o Rest')
    BY DEF Unused
  <2> QED
    BY <1>3, <1>4, <2>1
<1>6. OnBoundary'
  BY <1>1, <1>5, BoundaryStays
<1>7. StreamTypes'
  BY <1>1, <1>3 DEF StreamTypes
<1>8. Reader'
  BY <1>1, <1>2, <1>3 DEF Reader, Current
<1>9. Locked' /\ Delivered'
  BY <1>1 DEF Locked, Delivered
<1>10. Verdicts'
  BY <1>1 DEF Verdicts, Reader
<1> QED
  BY <1>6, <1>7, <1>8, <1>9, <1>10 DEF StreamInv

LEMMA EndsKeeps ==
  ASSUME StreamInv, F!Ends
  PROVE  StreamInv'
<1>1. /\ StreamTypes /\ Locked /\ Reader /\ Delivered /\ OnBoundary /\ Verdicts
      /\ streamEnded = "no" /\ streamEnded' \in {"fin", "silent"}
      /\ UNCHANGED <<holder, buf, begun, stream, reading, partial, size, read, verdict>>
  BY DEF StreamInv, F!Ends
<1>2. UNCHANGED Unused
  BY <1>1 DEF Unused, Rest
<1>3. OnBoundary'
  BY <1>1, <1>2, BoundaryStays
<1>4. StreamTypes' /\ Locked' /\ Reader' /\ Delivered'
  BY <1>1 DEF StreamTypes, Locked, Reader, Delivered, Current
<1>5. Verdicts'
  BY <1>1 DEF Verdicts, F!Good, Current
<1> QED
  BY <1>3, <1>4, <1>5 DEF StreamInv

LEMMA TimesOutKeeps ==
  ASSUME StreamInv, F!TimesOut
  PROVE  StreamInv'
<1>1. /\ StreamTypes /\ Locked /\ Reader /\ Delivered
      /\ reading' = "off" /\ verdict' = "timeout"
      /\ UNCHANGED <<holder, buf, begun, stream, streamEnded, partial, size, read>>
  BY DEF StreamInv, F!TimesOut, F!Classify
<1>2. StreamTypes' /\ Locked' /\ Reader' /\ Delivered'
  BY <1>1 DEF StreamTypes, Locked, Reader, Delivered, Current
<1>3. OnBoundary' /\ Verdicts'
  BY <1>1 DEF OnBoundary, Verdicts
<1> QED
  BY <1>2, <1>3 DEF StreamInv

LEMMA StreamInit ==
  ASSUME F!FramingAssumption, F!Init
  PROVE  StreamInv
<1>1. /\ holder = NoOne /\ buf = [w \in Writers |-> <<>>]
      /\ begun = <<>> /\ stream = <<>> /\ streamEnded = "no"
      /\ reading = "header" /\ partial = <<>> /\ size = 0
      /\ read = <<>> /\ verdict = "none"
  BY DEF F!Init
<1>2. MaxSize \in Nat /\ MaxFrames \in Nat /\ NoOne \notin Writers
  BY DEF F!FramingAssumption
<1>3. <<>> \in Seq(UnitRecord) /\ <<>> \in Seq(FrameRecord) /\ Len(<<>>) = 0
  OBVIOUS
<1>4. StreamTypes
  BY <1>1, <1>2, <1>3 DEF StreamTypes
<1>5. Locked /\ Reader /\ Delivered /\ Verdicts
  BY <1>1, <1>2, <1>3 DEF Locked, Reader, Delivered, Verdicts
<1>6. OnBoundary
  <2>1. PICK start : start = [i \in Nat |-> 0]
    OBVIOUS
  <2>2. NextWhole = 1 /\ Len(begun) = 0
    BY <1>1, <1>3 DEF NextWhole, Current
  <2>3. Unused = <<>>
    BY <1>1, <1>2 DEF Unused, Rest
  <2>4. /\ \A i \in Nat : start[i] \in Nat
        /\ start[1] = 0 /\ start[Len(begun) + 1] = Len(Unused)
    BY <1>3, <2>1, <2>2, <2>3
  <2>5. \A m \in 1..0 : FALSE
    OBVIOUS
  <2>6. Aligned(start)
    BY <1>1, <2>2, <2>4, <2>5 DEF Aligned
  <2> QED
    BY <2>6 DEF OnBoundary
<1> QED
  BY <1>4, <1>5, <1>6 DEF StreamInv

\* The reader's first frame, if it reads one, or nothing is left.
LEMMA HeaderAhead ==
  ASSUME StreamTypes, Reader, Delivered, reading = "header", NEW start, Aligned(start),
         NEW L, L = Len(begun), NEW c, c = Current
  PROVE  /\ c \in 1..(L + 1) /\ start[c] = 0 /\ L \in Nat
         /\ NextWhole = c
         /\ c = L + 1 => Unused = <<>>
         /\ c \in 1..L =>
              /\ 2 + begun[c].size <= Len(Unused)
              /\ start[c + 1] = 2 + begun[c].size
              /\ \A q \in 1..2 : Unused[q] = F!HeaderUnit(begun[c], q)
              /\ \A q \in 1..begun[c].size : Unused[2 + q] = F!BodyUnit(begun[c], q)
<1>1. NextWhole = c /\ L \in Nat
  BY BegunFrames DEF NextWhole
<1>2. c \in 1..(L + 1)
  BY <1>1, AlignedWithin
<1>3. start[c] = 0
  BY <1>1 DEF Aligned
<1>4. ASSUME c = L + 1
      PROVE  Unused = <<>>
  <2>1. Len(Unused) = 0
    BY <1>1, <1>3, <1>4 DEF Aligned
  <2>2. Unused \in Seq(UnitRecord)
    BY RestTypes
  <2> QED
    BY <2>1, <2>2, EmptySeq
<1>5. ASSUME c \in 1..L
      PROVE  /\ 2 + begun[c].size <= Len(Unused)
             /\ start[c + 1] = 2 + begun[c].size
             /\ \A q \in 1..2 : Unused[q] = F!HeaderUnit(begun[c], q)
             /\ \A q \in 1..begun[c].size : Unused[2 + q] = F!BodyUnit(begun[c], q)
  <2>1. c \in c..L
    BY <1>1, <1>5
  <2>2. WholeAt(0, c) /\ start[c + 1] = 0 + 2 + begun[c].size
    BY <1>1, <1>3, <2>1 DEF Aligned
  <2>3. begun[c] \in FrameRecord
    BY <1>5, BegunFrames
  <2>4. begun[c].size \in Nat
    BY <2>3, Units
  <2>5. 0 + 2 + begun[c].size = 2 + begun[c].size
    BY <2>4
  <2>6. /\ 0 + 2 + begun[c].size <= Len(Unused)
        /\ \A q \in 1..2 : Unused[0 + q] = F!HeaderUnit(begun[c], q)
        /\ \A q \in 1..begun[c].size : Unused[0 + 2 + q] = F!BodyUnit(begun[c], q)
    BY <2>2 DEF WholeAt
  <2>7. \A q \in 1..2 : 0 + q = q
    OBVIOUS
  <2>8. \A q \in 1..begun[c].size : 0 + 2 + q = 2 + q
    BY <2>4
  <2> QED
    BY <2>2, <2>5, <2>6, <2>7, <2>8
<1> QED
  BY <1>1, <1>2, <1>3, <1>4, <1>5

\* What has reached the reader of the payload, and what is to come.
LEMMA PayloadAhead ==
  ASSUME StreamTypes, Reader, Delivered, reading = "payload", NEW start, Aligned(start),
         NEW L, L = Len(begun), NEW c, c = Current
  PROVE  /\ c \in 1..L /\ L \in Nat /\ c + 1 \in 1..(L + 1)
         /\ NextWhole = c + 1
         /\ begun[c] \in ToSet(begun) /\ begun[c] \in FrameRecord /\ begun[c].id = c
         /\ start[c + 1] = begun[c].size /\ begun[c].size \in Nat \ {0}
         /\ begun[c].size <= Len(Unused)
         /\ \A q \in 1..begun[c].size : Unused[q] = F!BodyUnit(begun[c], q)
         /\ Len(partial) < size
         /\ begun[c].body # "alien" => size = begun[c].size
<1>1. L \in Nat /\ Len(read) \in Nat /\ c = Len(read) + 1 /\ c <= L
  BY BegunFrames DEF StreamTypes, Reader, Current
<1>2. c \in 1..L /\ c + 1 \in 1..(L + 1)
  BY <1>1
<1>3. NextWhole = c + 1
  BY DEF NextWhole
<1>4. /\ start[c + 1] = begun[c].size
      /\ \A q \in 1..begun[c].size : Unused[q] = F!BodyUnit(begun[c], q)
  BY <1>3 DEF Aligned
<1>5. begun[c] \in ToSet(begun) /\ begun[c] \in FrameRecord
  BY <1>2, BegunFrames
<1>6. begun[c].size \in Nat \ {0}
  BY <1>5, Units
<1>7. begun[c].size <= Len(Unused)
  <2>1. start[NextWhole] <= Len(Unused)
    BY AlignedWithin
  <2> QED
    BY <1>3, <1>4, <2>1
<1>8. begun[c].id = c
  BY <1>2 DEF StreamTypes
<1>9. Len(partial) < size /\ (begun[c].body # "alien" => size = begun[c].size)
  BY DEF Reader
<1> QED
  BY <1>1, <1>2, <1>3, <1>4, <1>5, <1>6, <1>7, <1>8, <1>9

\* A header that was read is that of the frame the reader is at.
LEMMA HeaderIsWhole ==
  ASSUME StreamTypes, Reader, Delivered, OnBoundary, reading = "header", stream # <<>>,
         Len(partial) + 1 = 2, NEW units, units = Append(partial, Head(stream)),
         NEW n \in F!Declares(units)
  PROVE  /\ Current \in 1..Len(begun) /\ begun[Current] \in FrameRecord
         /\ units = F!Header(begun[Current])
         /\ begun[Current].body # "alien" => n = begun[Current].size
<1>a. PICK L : L = Len(begun)
  OBVIOUS
<1>b. PICK c : c = Current
  OBVIOUS
<1>1. PICK start : Aligned(start)
  BY DEF OnBoundary
<1>2. /\ c \in 1..(L + 1) /\ start[c] = 0 /\ L \in Nat
      /\ c = L + 1 => Unused = <<>>
      /\ c \in 1..L =>
           /\ 2 + begun[c].size <= Len(Unused)
           /\ start[c + 1] = 2 + begun[c].size
           /\ \A q \in 1..2 : Unused[q] = F!HeaderUnit(begun[c], q)
           /\ \A q \in 1..begun[c].size : Unused[2 + q] = F!BodyUnit(begun[c], q)
  BY <1>a, <1>b, <1>1, HeaderAhead
<1>3. /\ units \in Seq(UnitRecord) /\ Len(units) = 2
      /\ Len(Unused) \in Nat /\ 2 <= Len(Unused)
      /\ \A q \in 1..2 : units[q] = Unused[q]
  <2>1. PICK k : k = Len(partial) + 1
    OBVIOUS
  <2>2. /\ units \in Seq(UnitRecord) /\ Len(units) = k
        /\ Len(Unused) \in Nat /\ k <= Len(Unused)
        /\ \A q \in 1..k : units[q] = Unused[q]
    BY <2>1, Taken
  <2>3. k = 2
    BY <2>1
  <2> QED
    BY <2>2, <2>3
<1>4. c \in 1..L
  <2>1. Unused # <<>>
    BY <1>3, EmptySeq
  <2> QED
    BY <1>2, <2>1
<1>5. /\ begun[c] \in FrameRecord /\ begun[c] \in ToSet(begun) /\ begun[c].id = c
  BY <1>a, <1>4, BegunFrames DEF StreamTypes
<1>6. /\ F!Header(begun[c]) \in Seq(UnitRecord) /\ Len(F!Header(begun[c])) = 2
      /\ \A q \in 1..2 : F!Header(begun[c])[q] = F!HeaderUnit(begun[c], q)
  BY <1>5, Units
<1>7. units = F!Header(begun[c])
  <2>1. PICK h : h = F!Header(begun[c])
    OBVIOUS
  <2>2. /\ h \in Seq(UnitRecord) /\ Len(h) = 2 /\ \A q \in 1..2 : h[q] = units[q]
    BY <1>2, <1>3, <1>4, <1>6, <2>1
  <2>3. units = h
    BY <1>3, <2>2
  <2> QED
    BY <2>1, <2>3
<1>8. ASSUME begun[c].body # "alien"
      PROVE  n = begun[c].size
  <2>1. units[1].of = c
    <3>1. 1 \in 1..2
      OBVIOUS
    <3>2. units[1] = F!HeaderUnit(begun[c], 1)
      BY <1>2, <1>3, <1>4, <3>1
    <3> QED
      BY <1>5, <3>2 DEF F!HeaderUnit
  <2>2. begun[c] \in F!ToSet(begun)
    BY <1>5, SameSets
  <2>3. F!Declares(units) = {begun[units[1].of].size}
    BY <1>7, <1>8, <2>2 DEF F!Declares
  <2> QED
    BY <2>1, <2>3
<1> QED
  BY <1>a, <1>b, <1>4, <1>5, <1>7, <1>8

\* Which units of a frame are left when its header is read.
LEMMA ReadsHeaderKeeps ==
  ASSUME F!FramingAssumption, StreamInv, F!ReadsHeader
  PROVE  StreamInv'
<1>a. PICK L : L = Len(begun)
  OBVIOUS
<1>b. PICK c : c = Current
  OBVIOUS
<1>c. PICK units : units = Append(partial, Head(stream))
  OBVIOUS
<1>1. /\ StreamTypes /\ Locked /\ Reader /\ Delivered /\ OnBoundary /\ Verdicts
      /\ reading = "header" /\ stream # <<>> /\ Len(partial) + 1 = 2
      /\ stream' = Tail(stream) /\ partial' = <<>>
      /\ UNCHANGED <<holder, buf, begun, streamEnded, read>>
  BY DEF StreamInv, F!ReadsHeader, F!HeaderSize
<1>2. PICK n \in F!Declares(units) :
        IF n \in 1..MaxSize
        THEN size' = n /\ reading' = "payload" /\ UNCHANGED verdict
        ELSE size' = 0 /\ reading' = "off" /\ verdict' = "violation"
  BY <1>c DEF F!ReadsHeader, F!Violates, F!Classify
<1>3. /\ c \in 1..L /\ begun[c] \in FrameRecord /\ units = F!Header(begun[c])
      /\ begun[c].body # "alien" => n = begun[c].size
  BY <1>a, <1>b, <1>c, <1>1, HeaderIsWhole
<1>4. /\ Tail(stream) \in Seq(UnitRecord)
      /\ Len(Unused) \in Nat
      /\ Len(Tail(stream) \o Rest) = Len(Unused) - 2
      /\ \A i \in 1..(Len(Unused) - 2) : (Tail(stream) \o Rest)[i] = Unused[2 + i]
      /\ Tail(stream) \o Rest \in Seq(UnitRecord)
  <2>1. PICK k : k = Len(partial) + 1
    OBVIOUS
  <2>2. /\ Tail(stream) \in Seq(UnitRecord)
        /\ Len(Unused) \in Nat
        /\ Len(Tail(stream) \o Rest) = Len(Unused) - k
        /\ \A i \in 1..(Len(Unused) - k) : (Tail(stream) \o Rest)[i] = Unused[k + i]
        /\ Tail(stream) \o Rest \in Seq(UnitRecord)
    BY <1>c, <1>1, <2>1, Taken
  <2>3. k = 2
    BY <1>1, <2>1
  <2> QED
    BY <2>2, <2>3
<1>5. UsedUp(2)
  <2>1. Rest' = Rest
    BY <1>1 DEF Rest
  <2>2. Unused' = <<>> \o (Tail(stream) \o Rest)
    BY <1>1, <2>1 DEF Unused
  <2>3. Unused' = Tail(stream) \o Rest
    BY <1>4, <2>2, ConcatEmptySeq
  <2> QED
    BY <1>4, <2>3 DEF UsedUp
<1>6. L \in Nat /\ MaxSize \in Nat /\ Len(read) \in Nat /\ c = Len(read) + 1 /\ Current' = Current
  BY <1>a, <1>b, <1>1, BegunFrames DEF F!FramingAssumption, StreamTypes, Current
<1>7. <<>> \in Seq(UnitRecord) /\ Len(<<>>) = 0
  OBVIOUS
<1>8. begun[c].size \in 1..MaxSize
  BY <1>3 DEF FrameRecord
<1>9. Locked' /\ Delivered'
  BY <1>1 DEF Locked, Delivered
<1>10. CASE n \in 1..MaxSize
  <2>1. size' = n /\ reading' = "payload" /\ verdict' = verdict
    BY <1>2, <1>10
  <2>2. n \in 0..MaxSize /\ 0 < n
    BY <1>6, <1>10
  <2>3. StreamTypes'
    BY <1>1, <1>4, <1>7, <2>1, <2>2 DEF StreamTypes
  <2>4. Reader'
    <3>1. c <= Len(begun')
      BY <1>a, <1>1, <1>3, <1>6
    <3>2. verdict = "none"
      BY <1>1 DEF Reader
    <3>3. Len(partial') < size'
      BY <1>1, <1>7, <2>1, <2>2
    <3>4. begun'[c].body # "alien" => size' = begun'[c].size
      BY <1>1, <1>3, <2>1
    <3> HIDE DEF Current
    <3> QED
      BY <1>b, <1>6, <2>1, <3>1, <3>2, <3>3, <3>4 DEF Reader
  <2>5. Verdicts'
    BY <1>1, <2>1 DEF Verdicts, Reader
  <2>6. OnBoundary'
    <3>1. PICK start : Aligned(start)
      BY <1>1 DEF OnBoundary
    <3>2. NextWhole = c /\ start[c] = 0 /\ start[c + 1] = 2 + begun[c].size
          /\ 2 + begun[c].size <= Len(Unused)
          /\ \A q \in 1..begun[c].size : Unused[2 + q] = F!BodyUnit(begun[c], q)
      BY <1>a, <1>b, <1>1, <1>3, <3>1, HeaderAhead
    <3>3. /\ NextWhole \in 1..(Len(begun) + 1) /\ c + 1 \in NextWhole..(Len(begun) + 1)
          /\ 2 \in Nat /\ 2 <= start[c + 1] /\ L + 1 \in (c + 1)..(L + 1)
          /\ c + 1 \in (c + 1)..(L + 1)
      BY <1>a, <1>3, <1>6, <1>8, <3>2
    <3>4. PICK after : Follows(after, start, c + 1, 2)
      <4>1. StreamTypes /\ UNCHANGED begun
        BY <1>1
      <4>2. /\ NextWhole \in 1..(Len(begun) + 1) /\ c + 1 \in NextWhole..(Len(begun) + 1)
            /\ 2 \in Nat /\ 2 <= start[c + 1]
        BY <3>3
      <4> QED
        BY ONLY <1>5, <3>1, <4>1, <4>2, Nearer
    <3>4a. /\ \A i \in Nat : after[i] \in Nat
           /\ \A m \in (c + 1)..(Len(begun) + 1) : after[m] = start[m] - 2
           /\ \A m \in (c + 1)..Len(begun) :
                WholeAt(after[m], m)' /\ after[m + 1] = after[m] + 2 + begun[m].size
           /\ \A m \in (c + 1)..Len(begun), j \in (c + 1)..(Len(begun) + 1) :
                m < j => after[m] + 2 + begun[m].size <= after[j]
      BY <3>4 DEF Follows
    <3>5. NextWhole' = c + 1
      BY <1>b, <1>6, <2>1 DEF NextWhole
    <3>6. after[c + 1] = begun[c].size
      <4>1. after[c + 1] = start[c + 1] - 2
        BY <1>a, <3>3, <3>4a
      <4> QED
        BY <1>6, <1>8, <3>2, <4>1
    <3>7. after[Len(begun') + 1] = Len(Unused')
      <4>1. after[L + 1] = start[L + 1] - 2
        BY <1>a, <3>3, <3>4a
      <4>2. start[L + 1] = Len(Unused)
        BY <1>a, <3>1 DEF Aligned
      <4>3. Len(Unused') = Len(Unused) - 2
        BY <1>5 DEF UsedUp
      <4> QED
        BY <1>a, <1>1, <4>1, <4>2, <4>3
    <3>8. \A q \in 1..begun[c].size : Unused'[q] = F!BodyUnit(begun[c], q)
      <4>1. \A q \in 1..begun[c].size : q \in 1..(Len(Unused) - 2)
        BY <1>4, <1>6, <1>8, <3>2
      <4> QED
        BY <1>5, <3>2, <4>1 DEF UsedUp
    <3>9. Aligned(after)'
      <4>1. after[NextWhole'] = IF reading' = "header" THEN 0 ELSE begun'[Current'].size
        BY <1>b, <1>1, <1>6, <2>1, <3>5, <3>6
      <4>2. reading' = "payload" => \A q \in 1..begun'[Current'].size :
              Unused'[q] = F!BodyUnit(begun'[Current'], q)
        BY <1>b, <1>1, <1>6, <3>8
      <4>3. \A m \in (NextWhole')..Len(begun') :
              WholeAt(after[m], m)' /\ after[m + 1] = after[m] + 2 + begun'[m].size
        BY <1>1, <3>4a, <3>5
      <4>4. \A m \in (NextWhole')..Len(begun'), j \in (NextWhole')..(Len(begun') + 1) :
              m < j => after[m] + 2 + begun'[m].size <= after[j]
        BY <1>1, <3>4a, <3>5
      <4> QED
        BY <3>4a, <3>7, <4>1, <4>2, <4>3, <4>4 DEF Aligned, F!BodyUnit
    <3> QED
      BY <3>9 DEF OnBoundary
  <2> QED
    BY <1>9, <2>3, <2>4, <2>5, <2>6 DEF StreamInv
<1>11. CASE n \notin 1..MaxSize
  <2>1. size' = 0 /\ reading' = "off" /\ verdict' = "violation"
    BY <1>2, <1>11
  <2>2. 0 \in 0..MaxSize
    BY <1>6
  <2>3. StreamTypes'
    BY <1>1, <1>4, <1>7, <2>1, <2>2 DEF StreamTypes
  <2>4. Reader' /\ OnBoundary'
    BY <1>1, <2>1 DEF Reader, OnBoundary
  <2>5. begun[c].body = "alien"
    BY <1>3, <1>8, <1>11
  <2>6. Len(read) < Len(begun)
    BY <1>a, <1>3, <1>6
  <2>7. ~F!Good(begun[c])
    BY <2>5 DEF F!Good
  <2>8. ~F!Good(begun[Current])'
    BY <1>b, <1>1, <1>6, <2>7 DEF F!Good
  <2>9. Verdicts'
    BY <1>1, <2>1, <2>6, <2>8 DEF Verdicts
  <2> QED
    BY <1>9, <2>3, <2>4, <2>9 DEF StreamInv
<1> QED
  BY <1>10, <1>11

\* A payload that was read is that of the frame the reader is at, if it is of ours.
LEMMA PayloadIsWhole ==
  ASSUME StreamTypes, Reader, Delivered, OnBoundary, reading = "payload", stream # <<>>,
         Len(partial) + 1 = size, NEW units, units = Append(partial, Head(stream)),
         NEW whole,
         whole = {f \in F!ToSet(begun) : units = F!Body(f) /\ f.body = "good"}
  PROVE  IF F!Good(begun[Current]) THEN whole = {begun[Current]} ELSE whole = {}
<1>a. PICK L : L = Len(begun)
  OBVIOUS
<1>b. PICK c : c = Current
  OBVIOUS
<1>c. PICK g : g = begun[c]
  OBVIOUS
<1>1. PICK start : Aligned(start)
  BY DEF OnBoundary
<1>2. /\ c \in 1..L /\ L \in Nat
      /\ g \in ToSet(begun) /\ g \in FrameRecord /\ g.id = c
      /\ g.size \in Nat \ {0} /\ g.size <= Len(Unused)
      /\ \A q \in 1..g.size : Unused[q] = F!BodyUnit(g, q)
      /\ g.body # "alien" => size = g.size
  BY <1>a, <1>b, <1>c, <1>1, PayloadAhead
<1>3. /\ units \in Seq(UnitRecord) /\ Len(units) = size /\ size \in Nat \ {0}
      /\ \A q \in 1..size : units[q] = Unused[q]
  <2>1. PICK k : k = Len(partial) + 1
    OBVIOUS
  <2>2. /\ k \in Nat \ {0} /\ units \in Seq(UnitRecord) /\ Len(units) = k
        /\ \A q \in 1..k : units[q] = Unused[q]
    BY <2>1, Taken
  <2>3. k = size
    BY <2>1
  <2> QED
    BY <2>2, <2>3
<1>4. units[1].of = c
  <2>1. 1 \in 1..size /\ 1 \in 1..g.size
    BY <1>2, <1>3
  <2>2. units[1] = F!BodyUnit(g, 1)
    BY <1>2, <1>3, <2>1
  <2> QED
    BY <1>2, <2>2 DEF F!BodyUnit
<1>5. ASSUME NEW f \in whole
      PROVE  f = g /\ f.body = "good"
  <2>1. f \in ToSet(begun) /\ units = F!Body(f) /\ f.body = "good"
    BY SameSets
  <2>2. f \in FrameRecord
    BY <2>1, BegunFrames
  <2>3. f.size \in Nat \ {0} /\ \A q \in 1..f.size : F!Body(f)[q] = F!BodyUnit(f, q)
    BY <2>2, Units
  <2>4. units[1] = F!BodyUnit(f, 1)
    <3>1. 1 \in 1..f.size
      BY <2>3
    <3> QED
      BY <2>1, <2>3, <3>1
  <2>5. f.id = c
    BY <1>4, <2>4 DEF F!BodyUnit
  <2>6. f = g
    BY <1>2, <2>1, <2>5, OneFrame
  <2> QED
    BY <2>1, <2>6
<1>6. ASSUME F!Good(g)
      PROVE  g \in whole
  <2>1. g.body = "good" /\ size = g.size
    BY <1>2, <1>6 DEF F!Good
  <2>2. /\ F!Body(g) \in Seq(UnitRecord) /\ Len(F!Body(g)) = g.size
        /\ \A q \in 1..g.size : F!Body(g)[q] = F!BodyUnit(g, q)
    BY <1>2, Units
  <2>3. PICK h : h = F!Body(g)
    OBVIOUS
  <2>4. h \in Seq(UnitRecord) /\ Len(h) = Len(units) /\ \A q \in 1..Len(units) : h[q] = units[q]
    BY <1>2, <1>3, <2>1, <2>2, <2>3
  <2>5. units = h
    BY <1>3, <2>4
  <2> QED
    BY <1>2, <2>1, <2>3, <2>5, SameSets
<1>7. CASE F!Good(g)
  <2>1. whole = {g}
    BY <1>5, <1>6, <1>7
  <2> QED
    BY <1>b, <1>c, <1>7, <2>1
<1>8. CASE ~F!Good(g)
  <2>1. whole = {}
    BY <1>5, <1>8 DEF F!Good
  <2> QED
    BY <1>b, <1>c, <1>8, <2>1
<1> QED
  BY <1>7, <1>8

\* The frame is delivered and the next header awaited, or the reader gives up.
LEMMA ReadsPayloadKeeps ==
  ASSUME F!FramingAssumption, StreamInv, F!ReadsPayload
  PROVE  StreamInv'
<1>a. PICK L : L = Len(begun)
  OBVIOUS
<1>b. PICK c : c = Current
  OBVIOUS
<1>c. PICK units : units = Append(partial, Head(stream))
  OBVIOUS
<1>d. PICK g : g = begun[c]
  OBVIOUS
<1>1. /\ StreamTypes /\ Locked /\ Reader /\ Delivered /\ OnBoundary /\ Verdicts
      /\ reading = "payload" /\ stream # <<>> /\ Len(partial) + 1 = size
      /\ stream' = Tail(stream) /\ partial' = <<>> /\ size' = 0
      /\ UNCHANGED <<holder, buf, begun, streamEnded>>
  BY DEF StreamInv, F!ReadsPayload
<1>2. PICK whole : whole = {f \in F!ToSet(begun) : units = F!Body(f) /\ f.body = "good"}
  OBVIOUS
<1>3. IF whole = {} THEN reading' = "off" /\ verdict' = "violation" /\ UNCHANGED read
      ELSE /\ reading' = "header" /\ read' = read \o F!SetToSeq(whole)
           /\ UNCHANGED verdict
  BY <1>c, <1>2 DEF F!ReadsPayload, F!Violates, F!Classify
<1>4. IF F!Good(g) THEN whole = {g} ELSE whole = {}
  BY <1>b, <1>c, <1>d, <1>1, <1>2, PayloadIsWhole
<1>5. PICK start : Aligned(start)
  BY <1>1 DEF OnBoundary
<1>6. /\ c \in 1..L /\ L \in Nat /\ c + 1 \in 1..(L + 1) /\ NextWhole = c + 1
      /\ g \in FrameRecord
      /\ start[c + 1] = g.size /\ g.size \in Nat \ {0}
      /\ g.body # "alien" => size = g.size
  BY <1>a, <1>b, <1>d, <1>1, <1>5, PayloadAhead
<1>7. /\ Tail(stream) \in Seq(UnitRecord) /\ Tail(stream) \o Rest \in Seq(UnitRecord)
      /\ Len(Unused) \in Nat /\ size <= Len(Unused) /\ size \in Nat
      /\ Len(Tail(stream) \o Rest) = Len(Unused) - size
      /\ \A i \in 1..(Len(Unused) - size) : (Tail(stream) \o Rest)[i] = Unused[size + i]
  <2>1. PICK k : k = Len(partial) + 1
    OBVIOUS
  <2>2. /\ Tail(stream) \in Seq(UnitRecord) /\ Tail(stream) \o Rest \in Seq(UnitRecord)
        /\ Len(Unused) \in Nat /\ k <= Len(Unused) /\ k \in Nat
        /\ Len(Tail(stream) \o Rest) = Len(Unused) - k
        /\ \A i \in 1..(Len(Unused) - k) : (Tail(stream) \o Rest)[i] = Unused[k + i]
    BY <1>c, <1>1, <2>1, Taken
  <2>3. k = size
    BY <1>1, <2>1
  <2> QED
    BY <2>2, <2>3
<1>8. UsedUp(size)
  <2>1. Rest' = Rest
    BY <1>1 DEF Rest
  <2>2. Unused' = <<>> \o (Tail(stream) \o Rest)
    BY <1>1, <2>1 DEF Unused
  <2>3. Unused' = Tail(stream) \o Rest
    BY <1>7, <2>2, ConcatEmptySeq
  <2> QED
    BY <1>7, <2>3 DEF UsedUp
<1>9. /\ MaxSize \in Nat /\ Len(read) \in Nat /\ read \in Seq(FrameRecord)
      /\ c = Len(read) + 1 /\ 0 \in 0..MaxSize
  BY <1>b, <1>1 DEF F!FramingAssumption, StreamTypes, Current
<1>10. <<>> \in Seq(UnitRecord) /\ Len(<<>>) = 0
  OBVIOUS
<1>11. Locked'
  BY <1>1 DEF Locked
<1>12. CASE F!Good(g)
  <2>1. reading' = "header" /\ verdict' = verdict /\ read' = Append(read, g)
    <3>1. whole = {g} /\ whole # {}
      BY <1>4, <1>12
    <3>2. read \o F!SetToSeq({g}) = Append(read, g)
      BY <1>6, <1>9, OneInSequence
    <3> QED
      BY <1>3, <3>1, <3>2
  <2>2. size = g.size
    BY <1>6, <1>12 DEF F!Good
  <2>3. /\ read' \in Seq(FrameRecord) /\ Len(read') = c
        /\ \A i \in 1..Len(read) : read'[i] = read[i]
        /\ read'[c] = g /\ 1..c = 1..Len(read) \cup {c}
    BY <1>6, <1>9, <2>1, QueueAppend
  <2>4. StreamTypes'
    BY <1>1, <1>7, <1>9, <1>10, <2>1, <2>3 DEF StreamTypes
  <2>5. Reader'
    <3>1. verdict = "none"
      BY <1>1 DEF Reader
    <3> QED
      BY <1>1, <1>10, <2>1, <3>1 DEF Reader
  <2>6. Delivered'
    <3>1. Len(read') <= Len(begun')
      BY <1>a, <1>1, <1>6, <2>3
    <3>2. \A i \in 1..Len(read') : read'[i] = begun'[i]
      BY <1>d, <1>1, <2>3 DEF Delivered
    <3> QED
      BY <3>1, <3>2 DEF Delivered
  <2>7. Verdicts'
    BY <1>1, <2>1 DEF Verdicts, Reader
  <2>8. OnBoundary'
    <3>1. Current' = c + 1 /\ NextWhole' = c + 1
      BY <2>1, <2>3 DEF Current, NextWhole
    <3>2. /\ c + 1 \in (c + 1)..(L + 1) /\ L + 1 \in (c + 1)..(L + 1)
      BY <1>6
    <3>3. PICK after : Follows(after, start, c + 1, size)
      <4>1. StreamTypes /\ UNCHANGED begun
        BY <1>1
      <4>2. /\ NextWhole \in 1..(Len(begun) + 1) /\ c + 1 \in NextWhole..(Len(begun) + 1)
            /\ size \in Nat /\ size <= start[c + 1]
        BY <1>a, <1>6, <1>7, <2>2, <3>2
      <4> QED
        BY ONLY <1>5, <1>8, <4>1, <4>2, Nearer
    <3>3a. /\ \A i \in Nat : after[i] \in Nat
           /\ \A m \in (c + 1)..(Len(begun) + 1) : after[m] = start[m] - size
           /\ \A m \in (c + 1)..Len(begun) :
                WholeAt(after[m], m)' /\ after[m + 1] = after[m] + 2 + begun[m].size
           /\ \A m \in (c + 1)..Len(begun), j \in (c + 1)..(Len(begun) + 1) :
                m < j => after[m] + 2 + begun[m].size <= after[j]
      BY <3>3 DEF Follows
    <3>4. after[c + 1] = 0
      <4>1. after[c + 1] = start[c + 1] - size
        BY <1>a, <3>2, <3>3a
      <4> QED
        BY <1>6, <2>2, <4>1
    <3>5. after[Len(begun') + 1] = Len(Unused')
      <4>1. after[L + 1] = start[L + 1] - size
        BY <1>a, <3>2, <3>3a
      <4>2. start[L + 1] = Len(Unused)
        BY <1>a, <1>5 DEF Aligned
      <4>3. Len(Unused') = Len(Unused) - size
        BY <1>8 DEF UsedUp
      <4> QED
        BY <1>a, <1>1, <4>1, <4>2, <4>3
    <3>6. Aligned(after)'
      <4>1. after[NextWhole'] = 0 /\ reading' = "header"
        BY <2>1, <3>1, <3>4
      <4>2. \A m \in (NextWhole')..Len(begun') :
              WholeAt(after[m], m)' /\ after[m + 1] = after[m] + 2 + begun'[m].size
        BY <1>1, <3>1, <3>3a
      <4>3. \A m \in (NextWhole')..Len(begun'), j \in (NextWhole')..(Len(begun') + 1) :
              m < j => after[m] + 2 + begun'[m].size <= after[j]
        BY <1>1, <3>1, <3>3a
      <4> QED
        BY <3>3a, <3>5, <4>1, <4>2, <4>3 DEF Aligned, F!BodyUnit
    <3> QED
      BY <3>6 DEF OnBoundary
  <2> QED
    BY <1>11, <2>4, <2>5, <2>6, <2>7, <2>8 DEF StreamInv
<1>13. CASE ~F!Good(g)
  <2>1. reading' = "off" /\ verdict' = "violation" /\ UNCHANGED read
    BY <1>3, <1>4, <1>13
  <2>2. StreamTypes'
    BY <1>1, <1>7, <1>9, <1>10, <2>1 DEF StreamTypes
  <2>3. Reader' /\ Delivered' /\ OnBoundary'
    BY <1>1, <2>1 DEF Reader, Delivered, OnBoundary
  <2>4. Len(read) < Len(begun)
    BY <1>a, <1>6, <1>9
  <2>5. ~F!Good(begun[Current])'
    <3>1. Current' = c
      BY <1>b, <2>1 DEF Current
    <3> QED
      BY <1>d, <1>1, <1>13, <3>1 DEF F!Good
  <2>6. Verdicts'
    BY <1>1, <2>1, <2>4, <2>5 DEF Verdicts
  <2> QED
    BY <1>11, <2>2, <2>3, <2>6 DEF StreamInv
<1> QED
  BY <1>12, <1>13

\* Only who holds the lock has something to write.
LEMMA OneWriter ==
  ASSUME Locked
  PROVE  /\ \A w \in Writers : buf[w] # <<>> => holder = w /\ Rest = buf[w]
         /\ Rest # <<>> => holder \in Writers /\ Rest = buf[holder]
BY DEF Locked, Rest

\* What is in the reader's hands, when the stream is empty, and what is still unwritten.
LEMMA LeftUnwritten ==
  ASSUME StreamTypes, stream = <<>>, NEW p, p = Len(partial)
  PROVE  /\ p \in Nat /\ Len(Rest) \in Nat /\ Len(Unused) = p + Len(Rest)
         /\ Rest \in Seq(UnitRecord)
         /\ \A i \in 1..Len(Rest) : Rest[i] = Unused[p + i]
         /\ partial = <<>> => Unused = Rest
<1>1. /\ Rest \in Seq(UnitRecord) /\ partial \in Seq(UnitRecord) /\ p \in Nat
      /\ Len(Rest) \in Nat
  BY RestTypes
<1>2. Unused = partial \o Rest
  <2>1. <<>> \o Rest = Rest
    BY <1>1, ConcatEmptySeq
  <2> QED
    BY <2>1 DEF Unused
<1> HIDE DEF Rest
<1>3. /\ Len(Unused) = p + Len(Rest)
      /\ \A i \in 1..(p + Len(Rest)) : Unused[i] = IF i <= p THEN partial[i] ELSE Rest[i - p]
  BY <1>1, <1>2, ConcatProperties
<1>4. ASSUME NEW i \in 1..Len(Rest)
      PROVE  Rest[i] = Unused[p + i]
  <2>1. p + i \in 1..(p + Len(Rest)) /\ ~(p + i <= p) /\ (p + i) - p = i
    BY <1>1
  <2> QED
    BY <1>3, <2>1
<1>5. partial = <<>> => Unused = Rest
  BY <1>1, <1>2, ConcatEmptySeq
<1> QED
  BY <1>1, <1>3, <1>4, <1>5

\* An end on a boundary: the last frame begun was written as a whole, or not at all.
LEMMA CleanEnd ==
  ASSUME StreamTypes, Locked, Reader, Delivered, OnBoundary, reading = "header",
         partial = <<>>, stream = <<>>
  PROVE  ~F!Broken /\ ToSet(read) = ToSet(begun) \ F!Unsent
<1>a. PICK L : L = Len(begun)
  OBVIOUS
<1>b. PICK c : c = Current
  OBVIOUS
<1>1. PICK start : Aligned(start)
  BY DEF OnBoundary
<1>2. /\ c \in 1..(L + 1) /\ L \in Nat
      /\ c = L + 1 => Unused = <<>>
      /\ c \in 1..L =>
           /\ 2 + begun[c].size <= Len(Unused)
           /\ start[c + 1] = 2 + begun[c].size
           /\ \A q \in 1..2 : Unused[q] = F!HeaderUnit(begun[c], q)
           /\ \A q \in 1..begun[c].size : Unused[2 + q] = F!BodyUnit(begun[c], q)
  BY <1>a, <1>b, <1>1, HeaderAhead
<1>3. Unused = Rest /\ Rest \in Seq(UnitRecord)
  BY LeftUnwritten
<1>4. /\ DOMAIN read = 1..Len(read) /\ DOMAIN begun = 1..L /\ c = Len(read) + 1
      /\ \A i \in 1..Len(read) : read[i] = begun[i]
      /\ Len(read) \in Nat
  BY <1>a, <1>b DEF StreamTypes, Delivered, Current
<1>5. \A f \in ToSet(begun) :
        /\ f \in FrameRecord /\ F!Header(f) \o F!Body(f) # <<>>
        /\ (F!Header(f) \o F!Body(f))[1] = F!HeaderUnit(f, 1)
  <2> SUFFICES ASSUME NEW f \in ToSet(begun)
               PROVE  /\ f \in FrameRecord /\ F!Header(f) \o F!Body(f) # <<>>
                      /\ (F!Header(f) \o F!Body(f))[1] = F!HeaderUnit(f, 1)
    OBVIOUS
  <2>1. f \in FrameRecord /\ f.size \in Nat
    BY BegunFrames, Units
  <2>2. PICK u : u = F!Header(f) \o F!Body(f)
    OBVIOUS
  <2>3. u \in Seq(UnitRecord) /\ Len(u) = 2 + f.size /\ \A q \in 1..2 : u[q] = F!HeaderUnit(f, q)
    BY <2>1, <2>2, HeaderThenBody
  <2>4. u # <<>> /\ u[1] = F!HeaderUnit(f, 1)
    BY <2>1, <2>3
  <2> QED
    BY <2>1, <2>2, <2>4
<1>6. F!Unsent = {f \in ToSet(begun) : \E w \in Writers : buf[w] = F!Header(f) \o F!Body(f)}
  BY SameSets DEF F!Unsent
<1>7. CASE c = L + 1
  <2>1. \A w \in Writers : buf[w] = <<>>
    BY <1>2, <1>3, <1>7, OneWriter
  <2>2. ~F!Broken
    BY <2>1 DEF F!Broken
  <2>3. F!Unsent = {}
    BY <1>5, <1>6, <2>1
  <2>4. Len(read) = L
    <3>1. Len(read) + 1 = L + 1 /\ Len(read) \in Nat /\ L \in Nat
      BY <1>2, <1>4, <1>7
    <3> QED
      BY ONLY <3>1
  <2>5. ToSet(read) = ToSet(begun)
    BY <1>4, <2>4 DEF ToSet
  <2> QED
    BY <2>2, <2>3, <2>5
<1>8. CASE c \in 1..L
  <2>1. PICK g : g = begun[c]
    OBVIOUS
  <2>2. g \in ToSet(begun) /\ g \in FrameRecord /\ g.id = c /\ g.size \in Nat
    <3>1. g \in ToSet(begun) /\ g \in FrameRecord /\ g.id = c
      BY <1>a, <1>8, <2>1, BegunFrames DEF StreamTypes
    <3> QED
      BY <3>1, Units
  <2>3. /\ 2 + g.size <= Len(Rest)
        /\ \A q \in 1..2 : Rest[q] = F!HeaderUnit(g, q)
        /\ \A q \in 1..g.size : Rest[2 + q] = F!BodyUnit(g, q)
    BY <1>2, <1>3, <1>8, <2>1
  <2>4. 1 \in 1..Len(Rest) /\ Rest # <<>> /\ Rest[1] = F!HeaderUnit(g, 1)
    BY <1>3, <2>2, <2>3
  <2>5. holder \in Writers /\ Rest = buf[holder] /\ buf[holder] # <<>>
    BY <2>4, OneWriter
  <2>6. c = L
    <3>1. Rest[1].of = L
      BY <1>a, <2>4, <2>5 DEF Locked
    <3> QED
      BY <2>2, <2>4, <3>1 DEF F!HeaderUnit
  <2>7. Len(Rest) = 2 + g.size
    BY <1>a, <1>1, <1>2, <1>3, <1>8, <2>1, <2>6 DEF Aligned
  <2>8. Rest = F!Header(g) \o F!Body(g)
    <3>1. PICK u : u = F!Header(g) \o F!Body(g)
      OBVIOUS
    <3>2. /\ u \in Seq(UnitRecord) /\ Len(u) = 2 + g.size
          /\ \A q \in 1..2 : u[q] = F!HeaderUnit(g, q)
          /\ \A q \in 1..g.size : u[2 + q] = F!BodyUnit(g, q)
      BY <2>2, <3>1, HeaderThenBody
    <3>3. ASSUME NEW i \in 1..(2 + g.size)
          PROVE  u[i] = Rest[i]
      <4>1. i \in 1..2 \/ (i - 2 \in 1..g.size /\ i = 2 + (i - 2))
        BY <2>2
      <4> QED
        BY <2>3, <3>2, <4>1
    <3> HIDE DEF Rest
    <3>4. Rest = u
      BY <1>3, <2>7, <3>2, <3>3
    <3> QED
      BY <3>1, <3>4
  <2>9. ~F!Broken
    <3>1. ASSUME NEW w \in Writers, buf[w] # <<>>
          PROVE  buf[w][1] = F!HeaderUnit(begun[buf[w][1].of], 1)
      <4>1. buf[w] = Rest
        BY <3>1, OneWriter
      <4>2. Rest[1].of = c
        BY <2>2, <2>4 DEF F!HeaderUnit
      <4> QED
        BY <2>1, <2>4, <4>1, <4>2
    <3> QED
      BY <3>1 DEF F!Broken
  <2>10. F!Unsent = {g}
    <3>1. g \in F!Unsent
      BY <1>6, <2>2, <2>5, <2>8
    <3>2. ASSUME NEW f \in F!Unsent
          PROVE  f = g
      <4>1. f \in ToSet(begun)
        BY <1>6
      <4>2. PICK w \in Writers : buf[w] = F!Header(f) \o F!Body(f)
        BY <1>6
      <4>3. buf[w] # <<>> /\ buf[w][1] = F!HeaderUnit(f, 1)
        BY <1>5, <4>1, <4>2
      <4>4. Rest = buf[w]
        BY <4>3, OneWriter
      <4>5. f.id = g.id
        BY <2>4, <4>3, <4>4 DEF F!HeaderUnit
      <4> QED
        BY <2>2, <4>1, <4>5, OneFrame
    <3> QED
      BY <3>1, <3>2
  <2>11. ToSet(read) = ToSet(begun) \ {g}
    <3>1. ASSUME NEW f \in ToSet(read)
          PROVE  f \in ToSet(begun) /\ f # g
      <4>1. PICK i \in 1..Len(read) : f = read[i]
        BY <1>4 DEF ToSet
      <4>2. i \in 1..L /\ i # c /\ f = begun[i]
        BY <1>2, <1>4, <1>8, <4>1
      <4>3. f.id = i
        BY <1>a, <4>2 DEF StreamTypes
      <4> QED
        BY <1>a, <2>2, <4>2, <4>3, BegunFrames
    <3>2. ASSUME NEW f \in ToSet(begun), f # g
          PROVE  f \in ToSet(read)
      <4>1. PICK i \in 1..L : f = begun[i]
        BY <1>4 DEF ToSet
      <4>2. i \in 1..Len(read)
        BY <1>2, <1>4, <2>1, <2>6, <3>2, <4>1
      <4> QED
        BY <1>4, <4>1, <4>2 DEF ToSet
    <3> QED
      BY <3>1, <3>2
  <2> QED
    BY <2>9, <2>10, <2>11
<1>9. c = L + 1 \/ c \in 1..L
  BY <1>2
<1> QED
  BY <1>7, <1>8, <1>9

\* An end within a frame of ours: its writer has not written all of it.
LEMMA BrokenEnd ==
  ASSUME StreamTypes, Locked, Reader, Delivered, OnBoundary, reading # "off",
         stream = <<>>, ~(reading = "header" /\ partial = <<>>)
  PROVE  F!Broken \/ \E f \in ToSet(begun) : f.body = "alien"
<1>a. PICK L : L = Len(begun)
  OBVIOUS
<1>b. PICK c : c = Current
  OBVIOUS
<1>c. PICK p : p = Len(partial)
  OBVIOUS
<1>d. PICK g : g = begun[c]
  OBVIOUS
<1> SUFFICES ASSUME \A f \in ToSet(begun) : f.body # "alien"
             PROVE  F!Broken
  OBVIOUS
<1>1. PICK start : Aligned(start)
  BY DEF OnBoundary
<1>2. /\ p \in Nat /\ Len(Rest) \in Nat /\ Len(Unused) = p + Len(Rest)
      /\ Rest \in Seq(UnitRecord)
      /\ \A i \in 1..Len(Rest) : Rest[i] = Unused[p + i]
  BY <1>c, LeftUnwritten
<1>3. ASSUME 1 \in 1..Len(Rest), NEW f, Rest[1] # F!HeaderUnit(f, 1), f = begun[Rest[1].of]
      PROVE  F!Broken
  <2>1. Rest # <<>>
    BY <1>2, <1>3
  <2>2. holder \in Writers /\ buf[holder] = Rest
    BY <2>1, OneWriter
  <2> QED
    BY <1>3, <2>1, <2>2 DEF F!Broken
<1>4. CASE reading = "payload"
  <2>1. /\ g \in ToSet(begun) /\ g.size \in Nat /\ g.size <= Len(Unused)
        /\ \A q \in 1..g.size : Unused[q] = F!BodyUnit(g, q)
        /\ p < size /\ (g.body # "alien" => size = g.size)
    BY <1>a, <1>b, <1>c, <1>d, <1>1, <1>4, PayloadAhead
  <2>2. p < g.size
    BY <2>1
  <2>3. 1 \in 1..Len(Rest) /\ p + 1 \in 1..g.size
    BY <1>2, <2>1, <2>2
  <2>4. Rest[1] = F!BodyUnit(g, p + 1)
    BY <1>2, <2>1, <2>3
  <2>5. Rest[1].head = FALSE
    BY <2>4 DEF F!BodyUnit
  <2>6. Rest[1] # F!HeaderUnit(begun[Rest[1].of], 1)
    BY <2>5 DEF F!HeaderUnit
  <2> QED
    BY <1>3, <2>3, <2>6
<1>5. CASE reading = "header" /\ partial # <<>>
  <2>1. p = 1
    <3>1. p < 2
      BY <1>c, <1>5 DEF Reader
    <3>2. p # 0
      BY <1>c, <1>5, EmptySeq DEF StreamTypes
    <3> QED
      BY <1>2, <3>1, <3>2
  <2>2. /\ c \in 1..(L + 1) /\ L \in Nat
        /\ c = L + 1 => Unused = <<>>
        /\ c \in 1..L =>
             /\ 2 + g.size <= Len(Unused)
             /\ \A q \in 1..2 : Unused[q] = F!HeaderUnit(g, q)
    BY <1>a, <1>b, <1>d, <1>1, <1>5, HeaderAhead
  <2>3. c \in 1..L
    <3>1. Len(Unused) # 0
      BY <1>2, <2>1
    <3>2. Unused # <<>>
      BY <3>1
    <3> QED
      BY <2>2, <3>2
  <2>4. g.size \in Nat
    <3>1. g \in FrameRecord
      BY <1>a, <1>d, <2>3, BegunFrames
    <3> QED
      BY <3>1, Units
  <2>5. 1 \in 1..Len(Rest) /\ 2 \in 1..2
    BY <1>2, <2>1, <2>2, <2>3, <2>4
  <2>6. Rest[1] = F!HeaderUnit(g, 2)
    BY <1>2, <2>1, <2>2, <2>3, <2>5
  <2>7. Rest[1].pos = 2
    BY <2>6 DEF F!HeaderUnit
  <2>8. Rest[1] # F!HeaderUnit(begun[Rest[1].of], 1)
    BY <2>7 DEF F!HeaderUnit
  <2> QED
    BY <1>3, <2>5, <2>8
<1>6. reading = "payload" \/ (reading = "header" /\ partial # <<>>)
  BY DEF StreamTypes
<1> QED
  BY <1>4, <1>5, <1>6

LEMMA ReadsEndKeeps ==
  ASSUME StreamInv, F!ReadsEnd
  PROVE  StreamInv'
<1>1. /\ StreamTypes /\ Locked /\ Reader /\ Delivered /\ OnBoundary
      /\ reading # "off" /\ stream = <<>> /\ streamEnded = "fin"
      /\ reading' = "off"
      /\ verdict' = IF reading = "header" /\ partial = <<>> THEN "clean" ELSE "died"
      /\ UNCHANGED <<holder, buf, begun, stream, streamEnded, partial, size, read>>
  BY DEF StreamInv, F!ReadsEnd, F!Classify
<1>2. StreamTypes' /\ Locked' /\ Reader' /\ Delivered' /\ OnBoundary'
  BY <1>1 DEF StreamTypes, Locked, Reader, Delivered, OnBoundary
<1>3. F!Broken' = F!Broken /\ F!Unsent' = F!Unsent
  BY <1>1 DEF F!Broken, F!Unsent, F!HeaderUnit, F!Header, F!Body, F!BodyUnit, F!ToSet
<1>4. Verdicts'
  <2>1. CASE reading = "header" /\ partial = <<>>
    <3>1. ~F!Broken /\ ToSet(read) = ToSet(begun) \ F!Unsent
      BY <1>1, <2>1, CleanEnd
    <3> QED
      BY <1>1, <1>3, <2>1, <3>1 DEF Verdicts, ToSet
  <2>2. CASE ~(reading = "header" /\ partial = <<>>)
    <3>1. F!Broken \/ \E f \in ToSet(begun) : f.body = "alien"
      BY <1>1, <2>2, BrokenEnd
    <3> QED
      BY <1>1, <1>3, <2>2, <3>1 DEF Verdicts, ToSet
  <2> QED
    BY <2>1, <2>2
<1> QED
  BY <1>2, <1>4 DEF StreamInv

LEMMA NextStream ==
  ASSUME F!FramingAssumption, StreamInv, [F!Next]_F!vars
  PROVE  StreamInv'
<1>1. CASE UNCHANGED F!vars
  <2>1. UNCHANGED <<holder, buf, begun, stream, streamEnded, reading, partial, size, read, verdict>>
    BY <1>1 DEF F!vars
  <2>2. UNCHANGED Unused
    BY <2>1 DEF Unused, Rest
  <2>3. OnBoundary'
    BY <2>1, <2>2, BoundaryStays DEF StreamInv
  <2>4. StreamTypes' /\ Locked' /\ Reader' /\ Delivered'
    BY <2>1 DEF StreamInv, StreamTypes, Locked, Reader, Delivered, Current
  <2>5. F!Broken' = F!Broken /\ F!Unsent' = F!Unsent
    BY <2>1 DEF F!Broken, F!Unsent, F!HeaderUnit, F!Header, F!Body, F!BodyUnit, F!ToSet
  <2>6. Verdicts'
    BY <2>1, <2>5 DEF StreamInv, Verdicts, ToSet, F!Good, Current
  <2> QED
    BY <2>3, <2>4, <2>6 DEF StreamInv
<1>2. CASE \E w \in Writers :
             F!Writes(w) \/ \E n \in F!Sizes, body \in Bodies : F!Begins(w, n, body)
  <2>1. PICK w \in Writers :
          F!Writes(w) \/ \E n \in F!Sizes, body \in Bodies : F!Begins(w, n, body)
    BY <1>2
  <2>2. CASE F!Writes(w)
    BY <2>2, WritesKeeps DEF StreamInv
  <2>3. CASE \E n \in F!Sizes, body \in Bodies : F!Begins(w, n, body)
    <3>1. PICK n \in F!Sizes, body \in Bodies : F!Begins(w, n, body)
      BY <2>3
    <3> QED
      BY <3>1, BeginsKeeps DEF StreamInv
  <2> QED
    BY <2>1, <2>2, <2>3
<1>3. CASE F!Ends
  BY <1>3, EndsKeeps
<1>4. CASE F!ReadsOn
  BY <1>4, ReadsOnKeeps
<1>5. CASE F!ReadsHeader
  BY <1>5, ReadsHeaderKeeps
<1>6. CASE F!ReadsPayload
  BY <1>6, ReadsPayloadKeeps
<1>7. CASE F!ReadsEnd
  BY <1>7, ReadsEndKeeps
<1>8. CASE F!TimesOut
  BY <1>8, TimesOutKeeps
<1> QED
  BY <1>1, <1>2, <1>3, <1>4, <1>5, <1>6, <1>7, <1>8 DEF F!Next

LEMMA StreamSound == F!FramingAssumption /\ StreamInv => FramesSound
<1> SUFFICES ASSUME F!FramingAssumption, StreamInv
             PROVE  FramesSound
  OBVIOUS
<1>1. StreamTypes /\ Delivered /\ Verdicts
  BY DEF StreamInv
<1>2. MaxSize \in Nat /\ MaxFrames \in Nat /\ Len(begun) \in Nat /\ Len(read) \in Nat
  BY <1>1 DEF F!FramingAssumption, StreamTypes
<1>3. F!TypeOK
  <2>1. ASSUME NEW i \in DOMAIN begun
        PROVE  begun[i] \in F!Frame /\ begun[i].id = i
    <3>1. DOMAIN begun = 1..Len(begun) /\ Len(begun) <= MaxFrames
      BY <1>1 DEF StreamTypes
    <3>2. i \in 1..Len(begun) /\ i \in 1..MaxFrames
      BY <1>2, <3>1
    <3>3. begun[i] \in FrameRecord /\ begun[i].id = i
      BY <1>1, <3>2, BegunFrames DEF StreamTypes
    <3>4. \A n \in 1..MaxSize : n \in 1..(MaxSize + 1)
      BY <1>2
    <3> QED
      BY <3>2, <3>3, <3>4 DEF FrameRecord, F!Frame, F!Sizes
  <2> QED
    BY <1>1, <2>1 DEF StreamTypes, F!TypeOK
<1>4. F!ReadsWhatWasWritten
  <2>1. F!IsPrefix(read, begun)
    BY <1>1, <1>2 DEF StreamTypes, Delivered, F!IsPrefix
  <2> QED
    BY <1>1, <2>1 DEF Verdicts, Current, F!ReadsWhatWasWritten
<1>5. F!EndIsTold
  BY <1>1, SameSets DEF Verdicts, F!EndIsTold
<1> QED
  BY <1>3, <1>4, <1>5 DEF FramesSound

\* However writers interleave and wherever the stream is cut, what is delivered is what
\* was written, whole and in order up to the first frame refused, and the end is told for
\* what it was, for any writers and any bounds on frames and their sizes
\* (protocol/framing.go WriteEnvelope, ReadFrame; network/conn.go Classify).
THEOREM StreamIsRead == MCSpec => []FramesSound
<1>1. MCInit => StreamInv
  BY ServicesAssumption, StreamInit DEF MCInit
<1>2. StreamInv /\ [MCNext]_<<which, vars, nodeProcess, relayProcess, framedStream>> => StreamInv'
  <2>1. UNCHANGED framedStream => UNCHANGED F!vars
    BY DEF framedStream, F!vars
  <2>2. [MCNext]_<<which, vars, nodeProcess, relayProcess, framedStream>> => [F!Next]_F!vars
    BY <2>1 DEF MCNext
  <2> QED
    BY <2>2, ServicesAssumption, NextStream
<1>3. StreamInv => FramesSound
  BY ServicesAssumption, StreamSound
<1> QED
  BY <1>1, <1>2, <1>3, PTL DEF MCSpec

-----------------------------------------------------------------------------
(* The relay: what a text tells, and what is left to tell. *)

BoardPiece == [of : 1..MaxLines, part : {"head", "tail", "text", "end"}]
Halves(n) == <<R!Piece(n, "head"), R!Piece(n, "tail")>>
WholeSample == {Halves(n) : n \in 1..MaxLines}

\* What may be left of a line that is being printed.
Remnant(n) == {R!Sample(n), <<R!Piece(n, "tail"), R!Piece(n, "end")>>, <<R!Piece(n, "end")>>,
            R!LogLine(n)}
Remnants == {<<>>} \cup UNION {Remnant(n) : n \in 1..MaxLines}

SampleTypes ==
  /\ board \in [left : Remnants, lines : 0..MaxLines, drops : 0..MaxDrops,
                resets : 0..MaxResets, losses : 0..MaxLosses]
  /\ plugged \in BOOLEAN /\ signalled \in BOOLEAN /\ dead \in BOOLEAN /\ discarding \in BOOLEAN
  /\ relay \in {"opening", "pumping", "asleep", "stopped"}
  /\ tty \in Seq(BoardPiece) /\ chunk \in Seq(BoardPiece) /\ heard \in Seq(BoardPiece)
  /\ line \in Seq(BoardPiece) /\ Len(line) <= MaxLine
  /\ sends \in Seq(WholeSample)

\* No beginning of a sample is followed by the end of another.
WellGlued(text) ==
  \A k \in 1..(Len(text) - 1) : text[k].part = "head" /\ text[k + 1].part = "tail"
                                => text[k].of = text[k + 1].of

\* What a text that ends in the middle of a sample is waiting for.
Continues(text) ==
  text # <<>> /\ text[Len(text)].part = "head"
  => \/ board.left = <<R!Piece(text[Len(text)].of, "tail"), R!Piece(text[Len(text)].of, "end")>>
     \/ \E n \in 1..MaxLines : board.left = R!LogLine(n)

\* What the relay has not made a line of: put together, read, arrived.
Unmade == line \o (chunk \o tty)

\* What was handled is what was read less what is still to be handled, and the line
\* being put together is what it leaves open, unless that is too long already.
Handled == SubSeq(heard, 1, Len(heard) - Len(chunk))
Understood ==
  /\ heard = Handled \o chunk
  /\ R!Told(Handled).sent = sends /\ R!Told(Handled).open \in Seq(BoardPiece)
  /\ discarding => line = <<>> /\ Len(R!Told(Handled).open) > MaxLine
  /\ ~discarding => line = R!Told(Handled).open

SampleInv ==
  /\ SampleTypes /\ WellGlued(Unmade)
  /\ relay = "pumping" /\ ~dead => Continues(Unmade)
  /\ Understood

-----------------------------------------------------------------------------
(* The relay: what a text tells, piece by piece. *)

\* What each beginning of the text tells.
ToldBy(f, text) ==
  /\ f[0] = [sent |-> <<>>, open |-> <<>>]
  /\ \A i \in 1..Len(text) : f[i] = R!Taken(f[i - 1], text[i])

LEMMA ToldIs ==
  ASSUME NEW text, Len(text) \in Nat
  PROVE  \E f : ToldBy(f, text) /\ R!Told(text) = f[Len(text)]
<1> DEFINE last == Len(text)
<1> DEFINE Fits(f, m) ==
      f = [k \in 0..m |-> IF k = 0 THEN [sent |-> <<>>, open |-> <<>>]
                          ELSE R!Taken(f[k - 1], text[k])]
<1> DEFINE Bad == {m \in Nat : ~\E f : Fits(f, m)}
<1>1. Bad = {}
  <2> SUFFICES ASSUME Bad # {}
               PROVE  FALSE
    OBVIOUS
  <2>1. Bad \in SUBSET Nat
    OBVIOUS
  <2>2. PICK m \in Bad : \A j \in Bad : ~(<<j, m>> \in OpToRel(<, Nat))
    <3> HIDE DEF Bad
    <3> QED
      BY <2>1, WFMin, NatLessThanWellFounded
  <2>3. m \in Nat /\ ~\E f : Fits(f, m)
    OBVIOUS
  <2>4. CASE m = 0
    <3>1. Fits([i \in 0..0 |-> [sent |-> <<>>, open |-> <<>>]], 0)
      OBVIOUS
    <3> QED
      BY <2>3, <2>4, <3>1
  <2>5. CASE m # 0
    <3>1. m - 1 \in Nat /\ m - 1 < m
      BY <2>3, <2>5
    <3>2. m - 1 \notin Bad
      BY <2>2, <2>3, <3>1 DEF OpToRel
    <3>3. PICK f : Fits(f, m - 1)
      BY <3>1, <3>2
    <3> DEFINE g == [i \in 0..m |-> IF i = m THEN R!Taken(f[m - 1], text[m]) ELSE f[i]]
    <3>4. ASSUME NEW i \in 0..m
          PROVE  g[i] = IF i = 0 THEN [sent |-> <<>>, open |-> <<>>]
                        ELSE R!Taken(g[i - 1], text[i])
      <4>1. i = 0 => f[i] = [sent |-> <<>>, open |-> <<>>] /\ i # m
        BY <2>5, <3>1, <3>3
      <4>2. i # 0 => i - 1 \in 0..m /\ i - 1 # m
        BY <2>3
      <4>3. i # 0 /\ i # m => i \in 0..(m - 1)
        BY <2>3
      <4>4. i # 0 /\ i # m => f[i] = R!Taken(f[i - 1], text[i])
        BY <3>3, <4>3
      <4> HIDE DEF Fits
      <4> QED
        BY <4>1, <4>2, <4>4
    <3>5. Fits(g, m)
      BY <3>4
    <3> QED
      BY <2>3, <3>5
  <2> QED
    BY <2>4, <2>5
<1> DEFINE f == CHOOSE f : Fits(f, last)
<1>2. Fits(f, last)
  <2>1. \E g : Fits(g, last)
    BY <1>1
  <2> HIDE DEF Fits
  <2> QED
    BY <2>1
<1>3. R!Told(text) = f[last]
  BY DEF R!Told
<1> HIDE DEF f
<1>4. f[0] = [sent |-> <<>>, open |-> <<>>]
  BY <1>2
<1>5. \A i \in 1..last : f[i] = R!Taken(f[i - 1], text[i])
  BY <1>2
<1> QED
  BY <1>3, <1>4, <1>5 DEF ToldBy

LEMMA ToldOfStart ==
  ASSUME NEW text \in Seq(BoardPiece), NEW f, ToldBy(f, text), NEW k \in 0..Len(text)
  PROVE  R!Told(SubSeq(text, 1, k)) = f[k]
<1> DEFINE start == SubSeq(text, 1, k)
<1>0. Len(text) \in Nat /\ \A i \in 1..Len(text) : text[i] \in BoardPiece
  OBVIOUS
<1>1. Len(start) = k /\ \A i \in 1..k : start[i] = text[i]
  <2>1. \A i \in 1..k : text[i] \in BoardPiece
    BY <1>0
  <2>2. k \in Int /\ 1 \in Int
    OBVIOUS
  <2>3. /\ Len(start) = IF 1 <= k THEN k - 1 + 1 ELSE 0
        /\ \A i \in 1..(k - 1 + 1) : start[i] = text[1 + i - 1]
    BY ONLY <2>1, <2>2, SubSeqProperties
  <2> HIDE DEF start
  <2> QED
    BY <2>3, <1>0
<1> HIDE DEF start
<1>2. PICK g : ToldBy(g, start) /\ R!Told(start) = g[k]
  BY <1>0, <1>1, ToldIs
<1> DEFINE Bad == {j \in 0..k : g[j] # f[j]}
<1>3. Bad = {}
  <2> SUFFICES ASSUME Bad # {}
               PROVE  FALSE
    OBVIOUS
  <2>1. Bad \in SUBSET Nat
    BY <1>0
  <2>2. PICK m \in Bad : \A j \in Bad : ~(<<j, m>> \in OpToRel(<, Nat))
    <3> HIDE DEF Bad
    <3> QED
      BY <2>1, WFMin, NatLessThanWellFounded
  <2>3. m \in 0..k /\ g[m] # f[m]
    OBVIOUS
  <2>4. m # 0
    BY <1>2, <2>3 DEF ToldBy
  <2>5. m \in 1..k /\ m - 1 \in 0..k /\ m - 1 \in Nat /\ m \in Nat /\ m - 1 < m
    BY <1>0, <2>3, <2>4
  <2>6. m - 1 \notin Bad
    <3> HIDE DEF Bad
    <3> QED
      BY <2>2, <2>5 DEF OpToRel
  <2>7. g[m - 1] = f[m - 1]
    BY <2>5, <2>6
  <2>8. g[m] = R!Taken(g[m - 1], text[m]) /\ f[m] = R!Taken(f[m - 1], text[m])
    <3>1. m \in 1..Len(start) /\ m \in 1..Len(text)
      BY <1>0, <1>1, <2>5
    <3> QED
      BY <1>1, <1>2, <2>5, <3>1 DEF ToldBy
  <2> QED
    BY <2>3, <2>7, <2>8
<1> QED
  BY <1>2, <1>3 DEF start

LEMMA ToldNext ==
  ASSUME NEW text \in Seq(BoardPiece), NEW p \in BoardPiece
  PROVE  R!Told(Append(text, p)) = R!Taken(R!Told(text), p)
<1> DEFINE longer == Append(text, p)
<1>1. /\ longer \in Seq(BoardPiece) /\ Len(longer) = Len(text) + 1
      /\ longer[Len(text) + 1] = p /\ \A i \in 1..Len(text) : longer[i] = text[i]
  BY AppendProperties
<1> HIDE DEF longer
<1>2. PICK f : ToldBy(f, longer) /\ R!Told(longer) = f[Len(longer)]
  BY <1>1, ToldIs
<1>3. f[Len(text) + 1] = R!Taken(f[Len(text)], p)
  BY <1>1, <1>2 DEF ToldBy
<1>4. SubSeq(longer, 1, Len(text)) = text
  BY <1>1
<1>5. R!Told(text) = f[Len(text)]
  <2>1. Len(text) \in 0..Len(longer)
    BY <1>1
  <2>2. R!Told(SubSeq(longer, 1, Len(text))) = f[Len(text)]
    BY ONLY <1>1, <1>2, <2>1, ToldOfStart
  <2> QED
    BY <1>4, <2>2
<1> QED
  BY <1>1, <1>2, <1>3, <1>5 DEF longer

LEMMA ToldOfMore ==
  ASSUME NEW text \in Seq(BoardPiece), NEW more \in Seq(BoardPiece),
         R!Told(text).open \in Seq(BoardPiece),
         \A i \in 1..Len(more) : ~R!IsEnd(more[i])
  PROVE  /\ R!Told(text \o more).sent = R!Told(text).sent
         /\ R!Told(text \o more).open = R!Told(text).open \o more
<1> DEFINE Start(k) == text \o SubSeq(more, 1, k)
<1> DEFINE Holds(k) == /\ R!Told(Start(k)).sent = R!Told(text).sent
                       /\ R!Told(Start(k)).open = R!Told(text).open \o SubSeq(more, 1, k)
<1>0. Len(more) \in Nat
  OBVIOUS
<1>1. Holds(0)
  <2>1. SubSeq(more, 1, 0) = <<>>
    BY SubSeqEmpty
  <2> QED
    BY <2>1, ConcatEmptySeq
<1>2. ASSUME NEW k \in 1..Len(more), Holds(k - 1)
      PROVE  Holds(k)
  <2> DEFINE before == SubSeq(more, 1, k - 1)
  <2>1. more[k] \in BoardPiece /\ before \in Seq(BoardPiece) /\ ~R!IsEnd(more[k])
    OBVIOUS
  <2>2. SubSeq(more, 1, k) = Append(before, more[k])
    OBVIOUS
  <2> HIDE DEF before
  <2>3. ASSUME NEW s \in Seq(BoardPiece)
        PROVE  s \o Append(before, more[k]) = Append(s \o before, more[k])
    BY <2>1, <2>3
  <2>4. Start(k) = Append(text \o before, more[k]) /\ text \o before \in Seq(BoardPiece)
    <3>1. Start(k) = text \o Append(before, more[k])
      BY <2>2
    <3> HIDE DEF Start
    <3> QED
      BY <2>1, <2>3, <3>1
  <2>5. R!Told(Start(k)) = R!Taken(R!Told(text \o before), more[k])
    BY <2>1, <2>4, ToldNext
  <2>6. R!Told(Start(k)) = [sent |-> R!Told(text \o before).sent,
                          open |-> Append(R!Told(text \o before).open, more[k])]
    BY <2>1, <2>5 DEF R!Taken
  <2>7. /\ R!Told(text \o before).sent = R!Told(text).sent
        /\ R!Told(text \o before).open = R!Told(text).open \o before
    BY <1>2 DEF before
  <2>8. R!Told(text).open \o SubSeq(more, 1, k) = Append(R!Told(text).open \o before, more[k])
    BY <2>2, <2>3
  <2>9. R!Told(Start(k)).sent = R!Told(text).sent
    BY <2>6, <2>7
  <2>10. R!Told(Start(k)).open = R!Told(text).open \o SubSeq(more, 1, k)
    <3>1. R!Told(Start(k)).open = Append(R!Told(text \o before).open, more[k])
      BY <2>6
    <3> HIDE DEF Start
    <3> QED
      BY <2>7, <2>8, <3>1
  <2> QED
    BY <2>9, <2>10
<1> DEFINE Bad == {k \in 0..Len(more) : ~Holds(k)}
<1>3. Bad = {}
  <2> SUFFICES ASSUME Bad # {}
               PROVE  FALSE
    OBVIOUS
  <2> HIDE DEF Holds
  <2>1. Bad \in SUBSET Nat
    BY <1>0
  <2>2. PICK m \in Bad : \A j \in Bad : ~(<<j, m>> \in OpToRel(<, Nat))
    <3> HIDE DEF Bad
    <3> QED
      BY <2>1, WFMin, NatLessThanWellFounded
  <2>3. m \in 0..Len(more) /\ ~Holds(m)
    OBVIOUS
  <2>4. m # 0
    BY <1>1, <2>3
  <2>5. m \in 1..Len(more) /\ m - 1 \in 0..Len(more) /\ m - 1 \in Nat /\ m \in Nat /\ m - 1 < m
    BY <1>0, <2>3, <2>4
  <2>6. m - 1 \notin Bad
    <3> HIDE DEF Bad
    <3> QED
      BY <2>2, <2>5 DEF OpToRel
  <2>7. Holds(m - 1)
    BY <2>5, <2>6
  <2> QED
    BY <1>2, <2>3, <2>5, <2>7
<1>4. Holds(Len(more))
  <2> HIDE DEF Holds
  <2> QED
    BY <1>0, <1>3
<1>5. SubSeq(more, 1, Len(more)) = more
  BY SubSeqFull
<1> QED
  BY <1>4, <1>5

-----------------------------------------------------------------------------
(* The relay: texts, their parts, and what is left of a line. *)

LEMMA GluedParts ==
  ASSUME NEW s \in Seq(BoardPiece), NEW t \in Seq(BoardPiece), WellGlued(s \o t)
  PROVE  WellGlued(s) /\ WellGlued(t)
<1> DEFINE u == s \o t
<1>1. /\ Len(u) = Len(s) + Len(t) /\ Len(s) \in Nat /\ Len(t) \in Nat
      /\ \A i \in 1..Len(s) : u[i] = s[i]
      /\ \A i \in 1..Len(t) : u[Len(s) + i] = t[i]
  OBVIOUS
<1>2. WellGlued(u)
  OBVIOUS
<1> HIDE DEF u
<1>3. WellGlued(s)
  <2> SUFFICES ASSUME NEW k \in 1..(Len(s) - 1), s[k].part = "head", s[k + 1].part = "tail"
               PROVE  s[k].of = s[k + 1].of
    BY DEF WellGlued
  <2>1. k \in 1..Len(s) /\ k + 1 \in 1..Len(s) /\ k \in 1..(Len(u) - 1)
    BY <1>1
  <2>2. u[k] = s[k] /\ u[k + 1] = s[k + 1]
    BY <1>1, <2>1
  <2> QED
    BY <1>2, <2>1, <2>2 DEF WellGlued
<1>4. WellGlued(t)
  <2> SUFFICES ASSUME NEW k \in 1..(Len(t) - 1), t[k].part = "head", t[k + 1].part = "tail"
               PROVE  t[k].of = t[k + 1].of
    BY DEF WellGlued
  <2> DEFINE j == Len(s) + k
  <2>1. k \in 1..Len(t) /\ k + 1 \in 1..Len(t) /\ j \in 1..(Len(u) - 1)
        /\ j + 1 = Len(s) + (k + 1)
    BY <1>1
  <2>2. u[j] = t[k] /\ u[j + 1] = t[k + 1]
    BY <1>1, <2>1
  <2> HIDE DEF j
  <2> QED
    BY <1>2, <2>1, <2>2 DEF WellGlued
<1> QED
  BY <1>3, <1>4

LEMMA GluedNext ==
  ASSUME NEW text \in Seq(BoardPiece), NEW p \in BoardPiece, WellGlued(text),
         text # <<>> /\ text[Len(text)].part = "head" /\ p.part = "tail"
         => text[Len(text)].of = p.of
  PROVE  WellGlued(Append(text, p))
<1> DEFINE u == Append(text, p)
<1>1. /\ Len(u) = Len(text) + 1 /\ Len(text) \in Nat /\ u[Len(text) + 1] = p
      /\ \A i \in 1..Len(text) : u[i] = text[i]
  BY AppendProperties
<1> HIDE DEF u
<1> SUFFICES ASSUME NEW k \in 1..(Len(u) - 1), u[k].part = "head", u[k + 1].part = "tail"
             PROVE  u[k].of = u[k + 1].of
  BY DEF WellGlued, u
<1>2. CASE k = Len(text)
  <2>1. u[k] = text[k] /\ u[k + 1] = p /\ text # <<>>
    BY <1>1, <1>2
  <2> QED
    BY <1>2, <2>1
<1>3. CASE k # Len(text)
  <2>1. k \in 1..(Len(text) - 1) /\ k \in 1..Len(text) /\ k + 1 \in 1..Len(text)
    BY <1>1, <1>3
  <2>2. u[k] = text[k] /\ u[k + 1] = text[k + 1]
    BY <1>1, <2>1
  <2> QED
    BY <2>1, <2>2 DEF WellGlued
<1> QED
  BY <1>2, <1>3

LEMMA ContinuesParts ==
  ASSUME NEW s \in Seq(BoardPiece), NEW t \in Seq(BoardPiece), Continues(s \o t)
  PROVE  Continues(t)
<1> SUFFICES ASSUME t # <<>>
             PROVE  Continues(t)
  BY DEF Continues
<1> DEFINE u == s \o t
<1>1. Len(u) = Len(s) + Len(t) /\ Len(t) \in 1..Len(t) /\ u # <<>>
  OBVIOUS
<1>2. u[Len(u)] = t[Len(t)]
  OBVIOUS
<1>3. Continues(u)
  OBVIOUS
<1> HIDE DEF u
<1> QED
  BY <1>1, <1>2, <1>3 DEF Continues

LEMMA RestOfLine ==
  ASSUME NEW left \in Remnants, left # <<>>
  PROVE  \E n \in 1..MaxLines :
           \/ /\ left = R!Sample(n) /\ Head(left) = R!Piece(n, "head")
              /\ Tail(left) = <<R!Piece(n, "tail"), R!Piece(n, "end")>>
           \/ /\ left = <<R!Piece(n, "tail"), R!Piece(n, "end")>>
              /\ Head(left) = R!Piece(n, "tail") /\ Tail(left) = <<R!Piece(n, "end")>>
           \/ /\ left = <<R!Piece(n, "end")>>
              /\ Head(left) = R!Piece(n, "end") /\ Tail(left) = <<>>
           \/ /\ left = R!LogLine(n)
              /\ Head(left) = R!Piece(n, "text") /\ Tail(left) = <<R!Piece(n, "end")>>
<1>1. PICK n \in 1..MaxLines : left \in Remnant(n)
  BY DEF Remnants
<1>2. /\ Head(R!Sample(n)) = R!Piece(n, "head")
      /\ Tail(R!Sample(n)) = <<R!Piece(n, "tail"), R!Piece(n, "end")>>
      /\ Head(<<R!Piece(n, "tail"), R!Piece(n, "end")>>) = R!Piece(n, "tail")
      /\ Tail(<<R!Piece(n, "tail"), R!Piece(n, "end")>>) = <<R!Piece(n, "end")>>
      /\ Head(<<R!Piece(n, "end")>>) = R!Piece(n, "end")
      /\ Tail(<<R!Piece(n, "end")>>) = <<>>
      /\ Head(R!LogLine(n)) = R!Piece(n, "text")
      /\ Tail(R!LogLine(n)) = <<R!Piece(n, "end")>>
  BY DEF R!Sample, R!LogLine
<1> QED
  BY <1>1, <1>2 DEF Remnant

LEMMA RestParts ==
  ASSUME NEW left \in Remnants, left # <<>>
  PROVE  /\ Head(left) \in BoardPiece /\ Tail(left) \in Remnants
         /\ R!IsEnd(Head(left)) => \E n \in 1..MaxLines : left = <<R!Piece(n, "end")>>
         /\ Head(left).part = "head"
            => Tail(left) = <<R!Piece(Head(left).of, "tail"), R!Piece(Head(left).of, "end")>>
         /\ R!LogLine(Head(left).of) \in Remnants /\ Head(left).of \in 1..MaxLines
<1>1. ASSUME NEW n \in 1..MaxLines
      PROVE  /\ <<R!Piece(n, "tail"), R!Piece(n, "end")>> \in Remnants
             /\ <<R!Piece(n, "end")>> \in Remnants /\ <<>> \in Remnants /\ R!LogLine(n) \in Remnants
             /\ \A part \in {"head", "tail", "text", "end"} :
                   /\ R!Piece(n, part) \in BoardPiece
                   /\ R!Piece(n, part).of = n /\ R!Piece(n, part).part = part
  BY DEF Remnants, Remnant, R!Piece, BoardPiece
<1> DEFINE first == Head(left)
<1> DEFINE others == Tail(left)
<1>2. PICK n \in 1..MaxLines :
           \/ /\ left = R!Sample(n) /\ first = R!Piece(n, "head")
              /\ others = <<R!Piece(n, "tail"), R!Piece(n, "end")>>
           \/ /\ left = <<R!Piece(n, "tail"), R!Piece(n, "end")>>
              /\ first = R!Piece(n, "tail") /\ others = <<R!Piece(n, "end")>>
           \/ /\ left = <<R!Piece(n, "end")>>
              /\ first = R!Piece(n, "end") /\ others = <<>>
           \/ /\ left = R!LogLine(n)
              /\ first = R!Piece(n, "text") /\ others = <<R!Piece(n, "end")>>
  BY RestOfLine
<1> HIDE DEF first, others
<1>3. CASE /\ first = R!Piece(n, "head")
           /\ others = <<R!Piece(n, "tail"), R!Piece(n, "end")>>
  <2>1. first \in BoardPiece /\ first.of = n /\ first.part = "head" /\ others \in Remnants
    BY <1>1, <1>3
  <2> QED
    BY <1>1, <1>3, <2>1 DEF R!IsEnd, first, others
<1>4. CASE /\ first = R!Piece(n, "tail") /\ others = <<R!Piece(n, "end")>>
  <2>1. first \in BoardPiece /\ first.of = n /\ first.part = "tail" /\ others \in Remnants
    BY <1>1, <1>4
  <2> QED
    BY <1>1, <1>4, <2>1 DEF R!IsEnd, first, others
<1>5. CASE /\ left = <<R!Piece(n, "end")>>
           /\ first = R!Piece(n, "end") /\ others = <<>>
  <2>1. first \in BoardPiece /\ first.of = n /\ first.part = "end" /\ others \in Remnants
    BY <1>1, <1>5
  <2> QED
    BY <1>1, <1>5, <2>1 DEF R!IsEnd, first, others
<1>6. CASE first = R!Piece(n, "text") /\ others = <<R!Piece(n, "end")>>
  <2>1. first \in BoardPiece /\ first.of = n /\ first.part = "text" /\ others \in Remnants
    BY <1>1, <1>6
  <2> QED
    BY <1>1, <1>6, <2>1 DEF R!IsEnd, first, others
<1> QED
  BY <1>2, <1>3, <1>4, <1>5, <1>6

LEMMA Lefts ==
  ASSUME NEW n, NEW m
  PROVE  /\ <<R!Piece(n, "tail"), R!Piece(n, "end")>> # <<>>
         /\ R!LogLine(m) # <<>> /\ R!Sample(n) # <<>>
         /\ <<R!Piece(n, "end")>> # <<R!Piece(m, "tail"), R!Piece(m, "end")>>
         /\ <<R!Piece(n, "end")>> # R!LogLine(m)
         /\ Head(<<R!Piece(n, "tail"), R!Piece(n, "end")>>).part = "tail"
         /\ Head(<<R!Piece(n, "tail"), R!Piece(n, "end")>>).of = n
         /\ Head(R!LogLine(m)).part = "text"
  BY DEF R!LogLine, R!Sample, R!Piece

LEMMA HandledIs ==
  ASSUME NEW s \in Seq(BoardPiece), NEW t \in Seq(BoardPiece)
  PROVE  SubSeq(s \o t, 1, Len(s \o t) - Len(t)) = s
<1>1. Len(s \o t) - Len(t) = Len(s) /\ Len(s) \in Nat
      /\ \A i \in 1..Len(s) : (s \o t)[i] = s[i]
  OBVIOUS
<1> QED
  BY <1>1

LEMMA ToldNothing == R!Told(<<>>).sent = <<>> /\ R!Told(<<>>).open = <<>>
<1>1. PICK f : ToldBy(f, <<>>) /\ R!Told(<<>>) = f[Len(<<>>)]
  BY ToldIs
<1>2. Len(<<>>) = 0
  OBVIOUS
<1> QED
  BY <1>1, <1>2 DEF ToldBy

\* A piece that ends a line makes a line of what was open.
LEMMA ToldEnd ==
  ASSUME NEW text \in Seq(BoardPiece), NEW more \in Seq(BoardPiece), NEW p \in BoardPiece,
         R!Told(text).open \in Seq(BoardPiece), R!IsEnd(p),
         \A i \in 1..Len(more) : ~R!IsEnd(more[i])
  PROVE  LET l == R!Told(text).open \o more
             now == Append(text \o more, p)
         IN  /\ R!Told(now).sent = IF R!IsLine(l) /\ R!Parses(l) THEN Append(R!Told(text).sent, l)
                                 ELSE R!Told(text).sent
             /\ R!Told(now).open = <<>>
<1> DEFINE l == R!Told(text).open \o more
<1>1. /\ R!Told(text \o more).sent = R!Told(text).sent
      /\ R!Told(text \o more).open = l
  BY ToldOfMore
<1>2. text \o more \in Seq(BoardPiece)
  OBVIOUS
<1>3. R!Told(Append(text \o more, p)) = R!Taken(R!Told(text \o more), p)
  BY <1>2, ToldNext
<1> HIDE DEF l
<1>4. R!Told(Append(text \o more, p)) =
        [sent |-> IF R!IsLine(l) /\ R!Parses(l) THEN Append(R!Told(text).sent, l)
                  ELSE R!Told(text).sent,
         open |-> <<>>]
  BY <1>1, <1>3 DEF R!Taken
<1> QED
  BY <1>4 DEF l

\* A line that passes as a sample is one, if no two samples were glued in it.
LEMMA ParsedIsWhole ==
  ASSUME NEW l \in Seq(BoardPiece), WellGlued(l), R!Parses(l)
  PROVE  l \in WholeSample
<1>1. [k \in DOMAIN l |-> l[k].part] = <<"head", "tail">>
  BY DEF R!Parses
<1>2. DOMAIN l = 1..2
  <2>1. DOMAIN [k \in DOMAIN l |-> l[k].part] = DOMAIN l
    OBVIOUS
  <2>2. DOMAIN <<"head", "tail">> = 1..2
    OBVIOUS
  <2> QED
    BY <1>1, <2>1, <2>2
<1>3. Len(l) = 2
  BY <1>2
<1>4. l[1].part = "head" /\ l[2].part = "tail"
  <2>1. \A k \in DOMAIN l : l[k].part = <<"head", "tail">>[k]
    BY <1>1
  <2> QED
    BY <1>2, <2>1
<1>5. l[1] \in BoardPiece /\ l[2] \in BoardPiece
  BY <1>3
<1>6. l[1].of = l[2].of
  BY <1>3, <1>4 DEF WellGlued
<1>7. l[1] = R!Piece(l[1].of, "head") /\ l[2] = R!Piece(l[1].of, "tail") /\ l[1].of \in 1..MaxLines
  BY <1>4, <1>5, <1>6 DEF BoardPiece, R!Piece
<1>8. l = <<l[1], l[2]>>
  BY <1>3
<1> QED
  BY <1>7, <1>8 DEF WholeSample, Halves

LEMMA UnmadeType ==
  ASSUME SampleTypes
  PROVE  Unmade \in Seq(BoardPiece) /\ chunk \o tty \in Seq(BoardPiece)
BY DEF SampleTypes, Unmade

LEMMA SampleInit == R!RelayAssumption /\ (R!Init \/ R!Ended) => SampleInv
<1> SUFFICES ASSUME R!RelayAssumption, R!Init \/ R!Ended
             PROVE  SampleInv
  OBVIOUS
<1>1. R!Fresh /\ relay \in {"opening", "stopped"} /\ plugged \in BOOLEAN
  BY DEF R!Init, R!Ended
<1>2. SampleTypes
  <2>1. <<>> \in Seq(BoardPiece) /\ <<>> \in Seq(WholeSample) /\ Len(<<>>) = 0 /\ <<>> \in Remnants
    BY DEF Remnants
  <2>2. MaxLine >= 0 /\ {MaxLine, MaxLines, MaxDrops, MaxResets, MaxLosses} \subseteq Nat
    BY DEF R!RelayAssumption
  <2>3. 0 \in 0..MaxLines /\ 0 \in 0..MaxDrops /\ 0 \in 0..MaxResets /\ 0 \in 0..MaxLosses
    BY <2>2
  <2>4. board \in [left : Remnants, lines : 0..MaxLines, drops : 0..MaxDrops,
                   resets : 0..MaxResets, losses : 0..MaxLosses]
    BY <1>1, <2>1, <2>3 DEF R!Fresh
  <2> QED
    BY <1>1, <2>1, <2>2, <2>4 DEF R!Fresh, SampleTypes
<1>3. Unmade = <<>> /\ WellGlued(Unmade)
  <2>1. Unmade = <<>>
    BY <1>1 DEF R!Fresh, Unmade
  <2> QED
    BY <2>1 DEF WellGlued
<1>4. Understood
  <2>1. Handled = <<>> /\ heard = Handled \o chunk
    BY <1>1 DEF R!Fresh, Handled
  <2>2. R!Told(Handled).sent = <<>> /\ R!Told(Handled).open = <<>>
    BY <2>1, ToldNothing
  <2>3. sends = <<>> /\ line = <<>> /\ discarding = FALSE /\ <<>> \in Seq(BoardPiece)
    BY <1>1 DEF R!Fresh
  <2> QED
    BY <2>1, <2>2, <2>3 DEF Understood
<1> QED
  BY <1>1, <1>2, <1>3, <1>4 DEF SampleInv

\* What is read stands still.
LEMMA UnderstoodKept ==
  ASSUME Understood, UNCHANGED R!reading
  PROVE  Understood'
BY DEF Understood, Handled, R!reading

LEMMA BoardKeeps ==
  ASSUME R!RelayAssumption, SampleInv, R!StartLine \/ R!DropEnd \/ R!Reset
  PROVE  SampleInv'
<1>1. SampleTypes /\ WellGlued(Unmade) /\ Understood
      /\ (relay = "pumping" /\ ~dead => Continues(Unmade))
  BY DEF SampleInv
<1>2. UNCHANGED <<plugged, tty, relay, signalled, dead, R!reading>>
  BY DEF R!StartLine, R!DropEnd, R!Reset
<1>3. UNCHANGED Unmade /\ UNCHANGED <<chunk, line, discarding, heard, sends>>
  BY <1>2 DEF R!reading, Unmade
<1>4. board.left \in Remnants
  BY <1>1 DEF SampleTypes
<1>5. /\ board' \in [left : Remnants, lines : 0..MaxLines, drops : 0..MaxDrops,
                     resets : 0..MaxResets, losses : 0..MaxLosses]
      /\ Continues(Unmade) => Continues(Unmade)'
  <2>0. MaxLines \in Nat /\ MaxDrops \in Nat /\ MaxResets \in Nat
    BY DEF R!RelayAssumption
  <2>1. CASE R!StartLine
    <3>1. board.left = <<>> /\ board.lines + 1 \in 1..MaxLines
      BY <1>1, <2>0, <2>1 DEF R!StartLine, SampleTypes
    <3>2. PICK l \in {R!Sample(board.lines + 1), R!LogLine(board.lines + 1)} :
             board' = [board EXCEPT !.left = l, !.lines = board.lines + 1]
      BY <2>1 DEF R!StartLine
    <3>3. l \in Remnants /\ board.lines + 1 \in 0..MaxLines
      BY <3>1, <3>2 DEF Remnants, Remnant
    <3>4. Continues(Unmade) => ~(Unmade # <<>> /\ Unmade[Len(Unmade)].part = "head")
      BY <3>1, Lefts DEF Continues
    <3>5. Continues(Unmade) => Continues(Unmade)'
      BY <1>3, <3>4 DEF Continues
    <3> QED
      BY <1>1, <3>2, <3>3, <3>5 DEF SampleTypes
  <2>2. CASE R!DropEnd
    <3>1. board.left # <<>> /\ R!IsEnd(Head(board.left)) /\ board.drops + 1 \in 0..MaxDrops
          /\ board' = [board EXCEPT !.left = Tail(board.left), !.drops = board.drops + 1]
      BY <1>1, <2>0, <2>2 DEF R!DropEnd, SampleTypes
    <3>2. Tail(board.left) \in Remnants /\ \E n \in 1..MaxLines : board.left = <<R!Piece(n, "end")>>
      BY <1>4, <3>1, RestParts
    <3>3. Continues(Unmade) => ~(Unmade # <<>> /\ Unmade[Len(Unmade)].part = "head")
      BY <3>2, Lefts DEF Continues
    <3>4. Continues(Unmade) => Continues(Unmade)'
      BY <1>3, <3>3 DEF Continues
    <3> QED
      BY <1>1, <3>1, <3>2, <3>4 DEF SampleTypes
  <2>3. CASE R!Reset
    <3>1. board.left # <<>> /\ board.resets + 1 \in 0..MaxResets
          /\ board' = [board EXCEPT !.left = R!LogLine(Head(board.left).of),
                                    !.resets = board.resets + 1]
      BY <1>1, <2>0, <2>3 DEF R!Reset, SampleTypes
    <3>2. R!LogLine(Head(board.left).of) \in Remnants /\ Head(board.left).of \in 1..MaxLines
      BY <1>4, <3>1, RestParts
    <3>3. board'.left = R!LogLine(Head(board.left).of)
      BY <1>1, <3>1 DEF SampleTypes
    <3>4. Continues(Unmade)'
      BY <3>2, <3>3 DEF Continues
    <3> QED
      BY <1>1, <3>1, <3>2, <3>4 DEF SampleTypes
  <2> QED
    BY <2>1, <2>2, <2>3
<1>6. SampleTypes'
  BY <1>1, <1>2, <1>3, <1>5 DEF SampleTypes
<1>7. WellGlued(Unmade)' /\ Understood'
  BY <1>1, <1>2, <1>3, UnderstoodKept DEF WellGlued
<1> QED
  BY <1>1, <1>2, <1>5, <1>6, <1>7 DEF SampleInv

LEMMA EmitKeeps ==
  ASSUME R!RelayAssumption, SampleInv, R!Emit
  PROVE  SampleInv'
<1>1. SampleTypes /\ WellGlued(Unmade) /\ Understood
      /\ (relay = "pumping" /\ ~dead => Continues(Unmade))
  BY DEF SampleInv
<1>2. /\ board.left # <<>> /\ R!Arrives(Head(board.left))
      /\ board' = [board EXCEPT !.left = Tail(board.left)]
      /\ UNCHANGED <<plugged, relay, signalled, dead, R!reading>>
  BY DEF R!Emit
<1>3. UNCHANGED <<chunk, line, discarding, heard, sends>>
  BY <1>2 DEF R!reading
<1>4. board.left \in Remnants
  BY <1>1 DEF SampleTypes
<1> DEFINE p == Head(board.left)
<1>5. /\ p \in BoardPiece /\ Tail(board.left) \in Remnants
      /\ p.part = "head" => Tail(board.left) = <<R!Piece(p.of, "tail"), R!Piece(p.of, "end")>>
  BY <1>2, <1>4, RestParts
<1>6. board'.left = Tail(board.left)
      /\ board' \in [left : Remnants, lines : 0..MaxLines, drops : 0..MaxDrops,
                     resets : 0..MaxResets, losses : 0..MaxLosses]
  BY <1>1, <1>2, <1>5 DEF SampleTypes
<1>7. tty' \in Seq(BoardPiece)
  BY <1>1, <1>2, <1>5 DEF SampleTypes, R!Arrives
<1>8. SampleTypes'
  BY <1>1, <1>2, <1>3, <1>6, <1>7 DEF SampleTypes
<1>9. Understood'
  BY <1>1, <1>2, UnderstoodKept
<1>10. CASE ~(relay = "pumping" /\ ~dead)
  <2>1. UNCHANGED Unmade
    BY <1>2, <1>3, <1>10 DEF R!Arrives, Unmade
  <2> QED
    BY <1>1, <1>2, <1>8, <1>9, <1>10, <2>1 DEF SampleInv, WellGlued
<1>11. CASE relay = "pumping" /\ ~dead
  <2>1. tty' = Append(tty, p)
    BY <1>2, <1>11 DEF R!Arrives
  <2>2. line \in Seq(BoardPiece) /\ chunk \in Seq(BoardPiece) /\ tty \in Seq(BoardPiece)
    BY <1>1 DEF SampleTypes
  <2>3. Unmade \in Seq(BoardPiece)
    BY <1>1, UnmadeType
  <2> HIDE DEF p
  <2>4. Unmade' = Append(Unmade, p)
    <3>1. chunk \o Append(tty, p) = Append(chunk \o tty, p) /\ chunk \o tty \in Seq(BoardPiece)
      BY <1>5, <2>2
    <3>2. line \o Append(chunk \o tty, p) = Append(line \o (chunk \o tty), p)
      BY <1>5, <2>2, <3>1
    <3> QED
      BY <1>3, <2>1, <3>1, <3>2 DEF Unmade
  <2>5. Continues(Unmade)
    BY <1>1, <1>11
  <2>6. Unmade # <<>> /\ Unmade[Len(Unmade)].part = "head" /\ p.part = "tail"
        => Unmade[Len(Unmade)].of = p.of
    BY <2>5, Lefts DEF Continues, p
  <2>7. WellGlued(Append(Unmade, p))
    BY <1>1, <1>5, <2>3, <2>6, GluedNext
  <2>8. WellGlued(Unmade)'
    BY <2>4, <2>7 DEF WellGlued
  <2>9. Append(Unmade, p)[Len(Append(Unmade, p))] = p
    BY <1>5, <2>3, AppendProperties
  <2>10. Continues(Unmade)'
    BY <1>5, <1>6, <2>4, <2>9 DEF Continues
  <2> QED
    BY <1>8, <1>9, <2>8, <2>10 DEF SampleInv
<1> QED
  BY <1>10, <1>11

LEMMA PortKeeps ==
  ASSUME R!RelayAssumption, SampleInv,
         R!Vanish \/ R!Appear \/ R!Cancel \/ R!Wake \/ R!ClosePort \/ R!ReadFails
  PROVE  SampleInv'
<1>1. SampleTypes /\ WellGlued(Unmade) /\ Understood
      /\ (relay = "pumping" /\ ~dead => Continues(Unmade))
  BY DEF SampleInv
<1>2. UNCHANGED R!reading
  BY DEF R!Vanish, R!Appear, R!Cancel, R!Wake, R!ClosePort, R!ReadFails
<1>3. UNCHANGED <<chunk, line, discarding, heard, sends>>
  BY <1>2 DEF R!reading
<1>4. Understood'
  BY <1>1, <1>2, UnderstoodKept
<1>5. CASE R!Vanish
  <2>1. board.losses + 1 \in 0..MaxLosses
        /\ board' = [board EXCEPT !.losses = board.losses + 1]
    BY <1>1, <1>5 DEF R!Vanish, SampleTypes, R!RelayAssumption
  <2>2. tty' = <<>> /\ tty' \in Seq(BoardPiece) /\ plugged' = FALSE /\ dead' \in BOOLEAN
        /\ UNCHANGED <<relay, signalled>> /\ (relay = "pumping" => dead')
    <3>1. dead' = (dead \/ relay = "pumping") /\ tty' = <<>> /\ plugged' = FALSE
          /\ UNCHANGED <<relay, signalled>>
      BY <1>5 DEF R!Vanish
    <3>2. dead' \in BOOLEAN /\ (relay = "pumping" => dead')
      BY <3>1
    <3> QED
      BY <3>1, <3>2
  <2>3. SampleTypes'
    BY <1>1, <1>3, <2>1, <2>2 DEF SampleTypes
  <2>4. line \in Seq(BoardPiece) /\ chunk \in Seq(BoardPiece) /\ tty \in Seq(BoardPiece)
    BY <1>1 DEF SampleTypes
  <2>5. Unmade' = line \o chunk /\ line \o chunk \in Seq(BoardPiece)
    BY <1>3, <2>2, <2>4 DEF Unmade
  <2>6. Unmade = (line \o chunk) \o tty
    BY <2>4, ConcatAssociative DEF Unmade
  <2>7. WellGlued(line \o chunk)
    BY <1>1, <2>4, <2>5, <2>6, GluedParts
  <2>8. WellGlued(Unmade)'
    BY <2>5, <2>7 DEF WellGlued
  <2> QED
    BY <1>4, <2>2, <2>3, <2>8 DEF SampleInv
<1>6. CASE R!Appear \/ R!Cancel \/ R!Wake \/ R!ClosePort \/ R!ReadFails
  <2>1. UNCHANGED <<board, tty>>
    BY <1>6 DEF R!Appear, R!Cancel, R!Wake, R!ClosePort, R!ReadFails
  <2>2. /\ plugged' \in BOOLEAN /\ signalled' \in BOOLEAN /\ dead' \in BOOLEAN
        /\ relay' \in {"opening", "pumping", "asleep", "stopped"}
        /\ (relay' = "pumping" /\ ~dead' => relay = "pumping" /\ ~dead)
    <3>1. plugged \in BOOLEAN /\ signalled \in BOOLEAN /\ dead \in BOOLEAN
          /\ relay \in {"opening", "pumping", "asleep", "stopped"}
      BY <1>1 DEF SampleTypes
    <3>2. CASE R!Appear
      BY <3>1, <3>2 DEF R!Appear
    <3>3. CASE R!Cancel
      BY <3>1, <3>3 DEF R!Cancel
    <3>4. CASE R!Wake
      BY <3>1, <3>4 DEF R!Wake
    <3>5. CASE R!ClosePort
      BY <3>1, <3>5 DEF R!ClosePort
    <3>6. CASE R!ReadFails
      BY <3>1, <3>6 DEF R!ReadFails
    <3> QED
      BY <1>6, <3>2, <3>3, <3>4, <3>5, <3>6
  <2>3. UNCHANGED Unmade
    BY <1>3, <2>1 DEF Unmade
  <2>4. SampleTypes'
    BY <1>1, <1>3, <2>1, <2>2 DEF SampleTypes
  <2>5. Continues(Unmade) => Continues(Unmade)'
    BY <2>1, <2>3 DEF Continues
  <2> QED
    BY <1>1, <1>4, <2>2, <2>3, <2>4, <2>5 DEF SampleInv, WellGlued
<1> QED
  BY <1>5, <1>6

LEMMA OpenKeeps ==
  ASSUME R!RelayAssumption, SampleInv, R!Open
  PROVE  SampleInv'
<1>1. SampleTypes /\ WellGlued(Unmade) /\ Understood
      /\ (relay = "pumping" /\ ~dead => Continues(Unmade))
  BY DEF SampleInv
<1>2. UNCHANGED <<board, plugged, signalled>> /\ relay = "opening"
  BY DEF R!Open
<1>3. CASE signalled \/ ~plugged
  <2>1. UNCHANGED <<tty, dead, R!reading>> /\ relay' \in {"stopped", "asleep"}
    BY <1>3 DEF R!Open
  <2>2. UNCHANGED <<chunk, line, discarding, heard, sends>>
    BY <2>1 DEF R!reading
  <2>3. UNCHANGED Unmade
    BY <2>1, <2>2 DEF Unmade
  <2>4. SampleTypes'
    BY <1>1, <1>2, <2>1, <2>2 DEF SampleTypes
  <2>5. Understood'
    BY <1>1, <2>1, UnderstoodKept
  <2> QED
    BY <1>1, <2>1, <2>3, <2>4, <2>5 DEF SampleInv, WellGlued
<1>4. CASE ~signalled /\ plugged
  <2>1. /\ relay' = "pumping" /\ tty' = <<>> /\ dead' = FALSE
        /\ chunk' = <<>> /\ line' = <<>> /\ discarding' = FALSE
        /\ heard' = <<>> /\ sends' = <<>>
    BY <1>4 DEF R!Open
  <2>2. <<>> \in Seq(BoardPiece) /\ <<>> \in Seq(WholeSample) /\ Len(<<>>) = 0 /\ 0 <= MaxLine
    BY DEF R!RelayAssumption
  <2>3. SampleTypes'
    BY <1>1, <1>2, <2>1, <2>2 DEF SampleTypes
  <2>4. Unmade' = <<>>
    BY <2>1 DEF Unmade
  <2>5. Handled' = <<>>
    BY <2>1 DEF Handled
  <2>6. R!Told(Handled)'.sent = <<>> /\ R!Told(Handled)'.open = <<>>
    BY <2>5, ToldNothing
  <2>7. heard' = Handled' \o chunk'
    BY <2>1, <2>5
  <2>8. Understood'
    BY <2>1, <2>2, <2>6, <2>7 DEF Understood
  <2>9. WellGlued(Unmade)' /\ Continues(Unmade)'
    BY <2>2, <2>4 DEF WellGlued, Continues
  <2> QED
    BY <2>3, <2>8, <2>9 DEF SampleInv
<1> QED
  BY <1>3, <1>4

LEMMA ReadKeeps ==
  ASSUME R!RelayAssumption, SampleInv, R!Read
  PROVE  SampleInv'
<1>1. SampleTypes /\ WellGlued(Unmade) /\ Understood
      /\ (relay = "pumping" /\ ~dead => Continues(Unmade))
  BY DEF SampleInv
<1>2. line \in Seq(BoardPiece) /\ heard \in Seq(BoardPiece) /\ tty \in Seq(BoardPiece)
  BY <1>1 DEF SampleTypes
<1>3. /\ chunk = <<>>
      /\ UNCHANGED <<board, plugged, relay, signalled, dead, line, discarding, sends>>
  BY DEF R!Read
<1>4. PICK k \in 1..Len(tty) :
         /\ chunk' = SubSeq(tty, 1, k)
         /\ tty' = SubSeq(tty, k + 1, Len(tty))
         /\ heard' = heard \o SubSeq(tty, 1, k)
  BY DEF R!Read
<1>5. chunk' \in Seq(BoardPiece) /\ tty' \in Seq(BoardPiece) /\ heard' = heard \o chunk'
      /\ heard' \in Seq(BoardPiece)
  BY <1>2, <1>4
<1>6. chunk' \o tty' = tty
  <2>1. 1 \in 1..(Len(tty) + 1) /\ k \in (1 - 1)..Len(tty) /\ Len(tty) \in k..Len(tty)
    BY <1>2
  <2>2. SubSeq(tty, 1, k) \o SubSeq(tty, k + 1, Len(tty)) = SubSeq(tty, 1, Len(tty))
    BY <1>2, <2>1, ConcatAdjacentSubSeq
  <2> QED
    BY <1>2, <1>4, <2>2, SubSeqFull
<1>7. UNCHANGED Unmade
  BY <1>2, <1>3, <1>6 DEF Unmade
<1>8. SampleTypes'
  BY <1>1, <1>3, <1>5 DEF SampleTypes
<1>9. Handled = heard
  BY <1>2, <1>3 DEF Handled
<1>10. Handled' = heard
  BY <1>2, <1>5, HandledIs DEF Handled
<1>11. Understood'
  BY <1>1, <1>3, <1>5, <1>9, <1>10 DEF Understood
<1>12. Continues(Unmade) => Continues(Unmade)'
  BY <1>3, <1>7 DEF Continues
<1> QED
  BY <1>1, <1>3, <1>7, <1>8, <1>11, <1>12 DEF SampleInv, WellGlued

LEMMA Regrouped ==
  \A s, t, u \in Seq(BoardPiece) : (s \o t) \o u = s \o (t \o u)
BY ConcatAssociative

LEMMA LineEndsKeeps ==
  ASSUME R!RelayAssumption, SampleInv, R!LineEnds
  PROVE  SampleInv'
<1>1. SampleTypes /\ WellGlued(Unmade) /\ Understood
      /\ (relay = "pumping" /\ ~dead => Continues(Unmade))
  BY DEF SampleInv
<1>2. /\ line \in Seq(BoardPiece) /\ heard \in Seq(BoardPiece) /\ tty \in Seq(BoardPiece)
      /\ chunk \in Seq(BoardPiece) /\ sends \in Seq(WholeSample) /\ Len(line) <= MaxLine
  BY <1>1 DEF SampleTypes
<1>3. UNCHANGED <<board, plugged, tty, relay, signalled, dead, heard>>
  BY DEF R!LineEnds
<1>4. /\ R!EndAt \in 1..Len(chunk) /\ R!IsEnd(chunk[R!EndAt])
      /\ \A j \in 1..(R!EndAt - 1) : ~R!IsEnd(chunk[j])
  <2> DEFINE Ends == {k \in DOMAIN chunk : R!IsEnd(chunk[k])}
  <2>1. Ends # {} /\ Ends \in SUBSET Nat
    BY <1>2 DEF R!LineEnds
  <2>2. PICK m \in Ends : \A j \in Ends : ~(<<j, m>> \in OpToRel(<, Nat))
    <3> HIDE DEF Ends
    <3> QED
      BY <2>1, WFMin, NatLessThanWellFounded
  <2>3. \A j \in 1..(m - 1) : ~R!IsEnd(chunk[j])
    <3> SUFFICES ASSUME NEW j \in 1..(m - 1), R!IsEnd(chunk[j])
                 PROVE  FALSE
      OBVIOUS
    <3>1. j \in Ends /\ j < m /\ j \in Nat /\ m \in Nat
      BY <1>2
    <3> QED
      BY <2>2, <3>1 DEF OpToRel
  <2>4. \E k \in DOMAIN chunk : R!IsEnd(chunk[k]) /\ \A j \in 1..(k - 1) : ~R!IsEnd(chunk[j])
    BY <2>2, <2>3
  <2>5. /\ R!EndAt \in DOMAIN chunk /\ R!IsEnd(chunk[R!EndAt])
        /\ \A j \in 1..(R!EndAt - 1) : ~R!IsEnd(chunk[j])
    BY <2>4, Zenon DEF R!EndAt
  <2> QED
    BY <1>2, <2>5
<1> DEFINE n == R!EndAt
<1> DEFINE pre == SubSeq(chunk, 1, n - 1)
<1> DEFINE e == chunk[n]
<1> DEFINE rest == SubSeq(chunk, n + 1, Len(chunk))
<1> DEFINE o == R!Told(Handled).open
<1> DEFINE l == o \o pre
<1>5. /\ chunk' = rest /\ line' = <<>> /\ discarding' = FALSE
      /\ IF discarding THEN UNCHANGED sends ELSE R!HandleLine(line \o pre)
  BY DEF R!LineEnds
<1>6. /\ pre \in Seq(BoardPiece) /\ rest \in Seq(BoardPiece) /\ e \in BoardPiece /\ R!IsEnd(e)
      /\ \A i \in 1..Len(pre) : ~R!IsEnd(pre[i])
  BY <1>2, <1>4
<1>7. chunk = Append(pre, e) \o rest
  <2>1. SubSeq(chunk, 1, n) = Append(pre, e)
    BY <1>2, <1>4
  <2>2. 1 \in 1..(Len(chunk) + 1) /\ n \in (1 - 1)..Len(chunk) /\ Len(chunk) \in n..Len(chunk)
    BY <1>2, <1>4
  <2>3. SubSeq(chunk, 1, n) \o SubSeq(chunk, n + 1, Len(chunk)) = SubSeq(chunk, 1, Len(chunk))
    BY <1>2, <2>2, ConcatAdjacentSubSeq
  <2> QED
    BY <1>2, <2>1, <2>3, SubSeqFull
<1>8. Handled \in Seq(BoardPiece) /\ heard = Handled \o chunk /\ o \in Seq(BoardPiece)
      /\ R!Told(Handled).sent = sends
  <2>1. Handled \in Seq(BoardPiece)
    <3>1. \A i \in 1..(Len(heard) - Len(chunk)) : heard[i] \in BoardPiece
      BY <1>2
    <3> QED
      BY <1>2, <3>1, SubSeqProperties DEF Handled
  <2> QED
    BY <1>1, <2>1 DEF Understood
<1> HIDE DEF n, pre, e, rest, o, l
<1>9. Handled' = Append(Handled \o pre, e)
  <2>1. Append(pre, e) \in Seq(BoardPiece) /\ Handled \o pre \in Seq(BoardPiece)
        /\ Append(Handled \o pre, e) \in Seq(BoardPiece)
    BY <1>6, <1>8
  <2>2. Handled \o Append(pre, e) = Append(Handled \o pre, e)
    BY <1>6, <1>8
  <2>3. heard = (Handled \o Append(pre, e)) \o rest
    <3> DEFINE made == Append(pre, e)
    <3>1. heard = Handled \o (made \o rest)
      BY <1>7, <1>8
    <3>2. made \in Seq(BoardPiece) /\ Handled \in Seq(BoardPiece) /\ rest \in Seq(BoardPiece)
      BY <1>6, <1>8, <2>1
    <3> HIDE DEF made
    <3>3. (Handled \o made) \o rest = Handled \o (made \o rest)
      BY <3>2, Regrouped
    <3> QED
      BY <3>1, <3>3 DEF made
  <2>4. heard = Append(Handled \o pre, e) \o rest
    BY <2>2, <2>3
  <2>5. SubSeq(heard, 1, Len(heard) - Len(rest)) = Append(Handled \o pre, e)
    BY <1>6, <2>1, <2>4, HandledIs
  <2> QED
    BY <1>3, <1>5, <2>5 DEF Handled
<1>10. /\ R!Told(Handled').sent = IF R!IsLine(l) /\ R!Parses(l) THEN Append(sends, l) ELSE sends
       /\ R!Told(Handled').open = <<>>
  BY <1>6, <1>8, <1>9, ToldEnd DEF l, o
<1>11. sends' = R!Told(Handled').sent
  <2>1. CASE discarding
    <3>1. Len(o) > MaxLine
      BY <1>1, <2>1 DEF Understood, o
    <3>2. Len(l) > MaxLine
      BY <1>6, <1>8, <3>1 DEF l, R!RelayAssumption
    <3>3. ~R!Parses(l)
      BY <1>6, <1>8, <3>2 DEF R!Parses, l, R!RelayAssumption
    <3> QED
      BY <1>5, <1>10, <2>1, <3>3
  <2>2. CASE ~discarding
    <3>1. line \o pre = l
      BY <1>1, <2>2 DEF Understood, o, l
    <3> QED
      BY <1>5, <1>10, <2>2, <3>1 DEF R!HandleLine
  <2> QED
    BY <2>1, <2>2
<1>12. heard' = Handled' \o chunk'
  <2>1. Handled \o Append(pre, e) = Append(Handled \o pre, e) /\ Append(pre, e) \in Seq(BoardPiece)
    BY <1>6, <1>8
  <2>2. heard = (Handled \o Append(pre, e)) \o rest
    <3> DEFINE made == Append(pre, e)
    <3>1. heard = Handled \o (made \o rest)
      BY <1>7, <1>8
    <3>2. made \in Seq(BoardPiece) /\ Handled \in Seq(BoardPiece) /\ rest \in Seq(BoardPiece)
      BY <1>6, <1>8, <2>1
    <3> HIDE DEF made
    <3>3. (Handled \o made) \o rest = Handled \o (made \o rest)
      BY <3>2, Regrouped
    <3> QED
      BY <3>1, <3>3 DEF made
  <2> QED
    BY <1>3, <1>5, <1>9, <2>1, <2>2
<1>13. Understood'
  BY <1>5, <1>10, <1>11, <1>12 DEF Understood
<1>14. Unmade = (line \o pre) \o (<<e>> \o (rest \o tty)) /\ rest \o tty \in Seq(BoardPiece)
       /\ <<e>> \o (rest \o tty) \in Seq(BoardPiece) /\ line \o pre \in Seq(BoardPiece)
       /\ <<e>> \in Seq(BoardPiece)
  <2>1. rest \o tty \in Seq(BoardPiece) /\ line \o pre \in Seq(BoardPiece)
        /\ <<e>> \in Seq(BoardPiece)
    BY <1>2, <1>6
  <2>2. <<e>> \o (rest \o tty) \in Seq(BoardPiece) /\ <<e>> \o rest \in Seq(BoardPiece)
    BY <1>6, <2>1
  <2>3. Append(pre, e) = pre \o <<e>>
    BY <1>6, AppendIsConcat
  <2>4. chunk = pre \o (<<e>> \o rest)
    BY <1>6, <1>7, <2>1, <2>3, ConcatAssociative
  <2>5. chunk \o tty = pre \o ((<<e>> \o rest) \o tty)
    BY <1>2, <1>6, <2>2, <2>4, ConcatAssociative
  <2>6. (<<e>> \o rest) \o tty = <<e>> \o (rest \o tty)
    BY <1>2, <1>6, <2>1, ConcatAssociative
  <2>7. line \o (pre \o (<<e>> \o (rest \o tty))) = (line \o pre) \o (<<e>> \o (rest \o tty))
    <3> DEFINE after == <<e>> \o (rest \o tty)
    <3>1. after \in Seq(BoardPiece) /\ line \in Seq(BoardPiece) /\ pre \in Seq(BoardPiece)
      BY <1>2, <1>6, <2>2
    <3> HIDE DEF after
    <3>2. (line \o pre) \o after = line \o (pre \o after)
      BY <3>1, Regrouped
    <3> QED
      BY <3>2 DEF after
  <2> QED
    BY <2>1, <2>2, <2>5, <2>6, <2>7 DEF Unmade
<1>15. WellGlued(line \o pre) /\ WellGlued(rest \o tty)
  <2>1. WellGlued(line \o pre) /\ WellGlued(<<e>> \o (rest \o tty))
    BY <1>1, <1>14, GluedParts
  <2> DEFINE one == <<e>>
  <2> DEFINE after == rest \o tty
  <2>2. one \in Seq(BoardPiece) /\ after \in Seq(BoardPiece) /\ WellGlued(one \o after)
    BY <1>14, <2>1
  <2> HIDE DEF one, after
  <2>3. WellGlued(after)
    BY <2>2, GluedParts
  <2> QED
    <3>1. WellGlued(rest \o tty)
      BY <2>3 DEF after
    <3> QED
      BY <2>1, <3>1
<1>16. Continues(Unmade) => Continues(rest \o tty)
  <2>1. Continues(Unmade) => Continues(<<e>> \o (rest \o tty))
    BY <1>14, ContinuesParts
  <2> QED
    BY <1>14, <2>1, ContinuesParts
<1>17. Unmade' = rest \o tty
  BY <1>3, <1>5, <1>14 DEF Unmade
<1>18. sends' \in Seq(WholeSample)
  <2>1. R!Parses(line \o pre) => line \o pre \in WholeSample
    BY <1>14, <1>15, ParsedIsWhole
  <2>2. sends' = sends \/ (R!Parses(line \o pre) /\ sends' = Append(sends, line \o pre))
    BY <1>5 DEF R!HandleLine
  <2> DEFINE made == line \o pre
  <2>3. (R!Parses(made) => made \in WholeSample)
        /\ (sends' = sends \/ (R!Parses(made) /\ sends' = Append(sends, made)))
    BY <2>1, <2>2
  <2> HIDE DEF made
  <2>4. made \in WholeSample => Append(sends, made) \in Seq(WholeSample)
    BY <1>2, AppendProperties
  <2> QED
    BY <1>2, <2>3, <2>4
<1>19. SampleTypes'
  <2>1. <<>> \in Seq(BoardPiece) /\ Len(<<>>) = 0 /\ 0 <= MaxLine
    BY DEF R!RelayAssumption
  <2> QED
    BY <1>1, <1>3, <1>5, <1>6, <1>18, <2>1 DEF SampleTypes
<1>20. WellGlued(Unmade)' /\ (Continues(Unmade) => Continues(Unmade)')
  BY <1>3, <1>15, <1>16, <1>17 DEF WellGlued, Continues
<1> QED
  BY <1>1, <1>3, <1>13, <1>19, <1>20 DEF SampleInv

LEMMA LineGrowsKeeps ==
  ASSUME R!RelayAssumption, SampleInv, R!LineGrows
  PROVE  SampleInv'
<1>1. SampleTypes /\ WellGlued(Unmade) /\ Understood
      /\ (relay = "pumping" /\ ~dead => Continues(Unmade))
  BY DEF SampleInv
<1>2. /\ line \in Seq(BoardPiece) /\ heard \in Seq(BoardPiece) /\ tty \in Seq(BoardPiece)
      /\ chunk \in Seq(BoardPiece) /\ Len(line) <= MaxLine /\ discarding \in BOOLEAN
  BY <1>1 DEF SampleTypes
<1>3. /\ UNCHANGED <<board, plugged, tty, relay, signalled, dead, heard, sends>>
      /\ chunk' = <<>> /\ \A k \in 1..Len(chunk) : ~R!IsEnd(chunk[k])
  BY <1>2 DEF R!LineGrows
<1> DEFINE o == R!Told(Handled).open
<1>4. Handled \in Seq(BoardPiece) /\ heard = Handled \o chunk /\ o \in Seq(BoardPiece)
      /\ R!Told(Handled).sent = sends
  <2>1. Handled \in Seq(BoardPiece)
    <3>1. \A i \in 1..(Len(heard) - Len(chunk)) : heard[i] \in BoardPiece
      BY <1>2
    <3> QED
      BY <1>2, <3>1, SubSeqProperties DEF Handled
  <2> QED
    BY <1>1, <2>1 DEF Understood
<1>5. Handled' = Handled \o chunk
  <2>1. Handled' = heard
    BY <1>2, <1>3 DEF Handled
  <2> QED
    BY <1>4, <2>1
<1>6. R!Told(Handled').sent = sends /\ R!Told(Handled').open = o \o chunk
  BY <1>2, <1>3, <1>4, <1>5, ToldOfMore
<1>7. heard' = Handled' \o chunk'
  BY <1>2, <1>3, <1>4, <1>5
<1> HIDE DEF o
<1>8. o \o chunk \in Seq(BoardPiece) /\ Len(o \o chunk) >= Len(o)
      /\ Len(o) \in Nat /\ Len(o \o chunk) \in Nat /\ MaxLine \in Nat
  BY <1>2, <1>4 DEF R!RelayAssumption
<1>9. \/ discarding' /\ line' = <<>> /\ Len(o \o chunk) > MaxLine
      \/ ~discarding' /\ line' = o \o chunk /\ line' = line \o chunk /\ Len(line') <= MaxLine
  <2>1. CASE discarding
    <3>1. line = <<>> /\ Len(o) > MaxLine
      BY <1>1, <2>1 DEF Understood, o
    <3>2. line' = line /\ discarding' = discarding
      BY <2>1 DEF R!LineGrows
    <3> QED
      BY <1>8, <2>1, <3>1, <3>2
  <2>2. CASE ~discarding
    <3>1. line \o chunk = o \o chunk
      BY <1>1, <2>2 DEF Understood, o
    <3>2. /\ discarding' = (Len(line \o chunk) > MaxLine)
          /\ line' = IF Len(line \o chunk) > MaxLine THEN <<>> ELSE line \o chunk
      BY <2>2 DEF R!LineGrows
    <3>3. CASE Len(line \o chunk) > MaxLine
      BY <3>1, <3>2, <3>3
    <3>4. CASE ~(Len(line \o chunk) > MaxLine)
      <4>1. ~discarding' /\ line' = line \o chunk
        BY <3>2, <3>4
      <4>2. Len(line \o chunk) \in Nat
        BY <1>8, <3>1
      <4>3. Len(line \o chunk) <= MaxLine
        BY ONLY <1>8, <3>4, <4>2
      <4> QED
        BY <3>1, <4>1, <4>3
    <3> QED
      BY <3>3, <3>4
  <2> QED
    BY <2>1, <2>2
<1>10. discarding' \in BOOLEAN
  <2>1. CASE discarding
    BY <1>2, <2>1 DEF R!LineGrows
  <2>2. CASE ~discarding
    <3>1. discarding' = (Len(line \o chunk) > MaxLine)
      BY <2>2 DEF R!LineGrows
    <3> QED
      BY <3>1
  <2> QED
    BY <2>1, <2>2
<1>11. line' \in Seq(BoardPiece) /\ Len(line') <= MaxLine
  <2>1. <<>> \in Seq(BoardPiece) /\ Len(<<>>) = 0 /\ 0 <= MaxLine
    BY <1>8
  <2> QED
    BY <1>8, <1>9, <2>1
<1>12. SampleTypes'
  BY <1>1, <1>3, <1>10, <1>11 DEF SampleTypes
<1>13. Understood'
  BY <1>3, <1>6, <1>7, <1>8, <1>9 DEF Understood
<1>14. Unmade = (line \o chunk) \o tty /\ line \o chunk \in Seq(BoardPiece)
  BY <1>2, ConcatAssociative DEF Unmade
<1>15. Unmade' = Unmade \/ Unmade' = tty
  <2>1. Unmade' = line' \o (<<>> \o tty) /\ <<>> \o tty = tty
    BY <1>2, <1>3 DEF Unmade
  <2>2. <<>> \o tty = tty
    BY <1>2
  <2> QED
    BY <1>9, <1>14, <2>1, <2>2
<1>16. WellGlued(Unmade') /\ (Continues(Unmade) => Continues(Unmade'))
  BY <1>1, <1>2, <1>14, <1>15, GluedParts, ContinuesParts
<1>17. WellGlued(Unmade)' /\ (Continues(Unmade) => Continues(Unmade)')
  BY <1>3, <1>16 DEF WellGlued, Continues
<1> QED
  BY <1>1, <1>3, <1>12, <1>13, <1>17 DEF SampleInv

LEMMA NextSample ==
  R!RelayAssumption /\ SampleInv /\ [R!Next]_R!vars => SampleInv'
<1> SUFFICES ASSUME R!RelayAssumption, SampleInv, [R!Next]_R!vars
             PROVE  SampleInv'
  OBVIOUS
<1>1. CASE UNCHANGED R!vars
  <2>1. UNCHANGED <<board, plugged, tty, relay, signalled, dead, chunk, line, discarding,
                    heard, sends>>
    BY <1>1 DEF R!vars
  <2>2. Understood'
    BY <2>1, UnderstoodKept DEF SampleInv, R!reading
  <2>3. UNCHANGED Unmade
    BY <2>1 DEF Unmade
  <2>4. SampleTypes'
    BY <2>1 DEF SampleInv, SampleTypes
  <2> QED
    BY <2>1, <2>2, <2>3, <2>4 DEF SampleInv, WellGlued, Continues
<1>2. CASE R!World
  <2>1. CASE R!Emit
    BY <2>1, EmitKeeps
  <2>2. CASE R!StartLine \/ R!DropEnd \/ R!Reset
    BY <2>2, BoardKeeps
  <2>3. CASE R!Vanish \/ R!Appear \/ R!Cancel
    BY <2>3, PortKeeps
  <2> QED
    BY <1>2, <2>1, <2>2, <2>3 DEF R!World
<1>3. CASE R!Works
  <2>1. CASE R!Open
    BY <2>1, OpenKeeps
  <2>2. CASE R!Wake \/ R!ClosePort \/ R!ReadFails
    BY <2>2, PortKeeps
  <2>3. CASE R!Read
    BY <2>3, ReadKeeps
  <2>4. CASE R!LineEnds
    BY <2>4, LineEndsKeeps
  <2>5. CASE R!LineGrows
    BY <2>5, LineGrowsKeeps
  <2> QED
    BY <1>3, <2>1, <2>2, <2>3, <2>4, <2>5 DEF R!Works
<1> QED
  BY <1>1, <1>2, <1>3 DEF R!Next

LEMMA SampleSound ==
  R!RelayAssumption /\ SampleInv => R!TypeOK /\ R!OnlyWholeSamples /\ R!ForwardsWhatItHeard
<1> SUFFICES ASSUME R!RelayAssumption, SampleInv
             PROVE  R!TypeOK /\ R!OnlyWholeSamples /\ R!ForwardsWhatItHeard
  OBVIOUS
<1>1. SampleTypes /\ Understood
  BY DEF SampleInv
<1> DEFINE Lefts0 == {<<>>} \cup {SubSeq(R!Sample(n), k, 3) : n \in 1..MaxLines, k \in 1..3}
                     \cup {SubSeq(R!LogLine(n), k, 2) : n \in 1..MaxLines, k \in 1..2}
<1>2. Remnants \subseteq Lefts0
  <2>1. ASSUME NEW n \in 1..MaxLines, NEW left \in Remnant(n)
        PROVE  left \in Lefts0
    <3>1. /\ SubSeq(R!Sample(n), 1, 3) = R!Sample(n)
          /\ SubSeq(R!Sample(n), 2, 3) = <<R!Piece(n, "tail"), R!Piece(n, "end")>>
          /\ SubSeq(R!Sample(n), 3, 3) = <<R!Piece(n, "end")>>
          /\ SubSeq(R!LogLine(n), 1, 2) = R!LogLine(n)
      <4>1. R!Sample(n) \in Seq(BoardPiece) /\ R!LogLine(n) \in Seq(BoardPiece)
        <5>1. \A part \in {"head", "tail", "text", "end"} : R!Piece(n, part) \in BoardPiece
          BY DEF R!Piece, BoardPiece
        <5>2. /\ \A a, b, c \in BoardPiece : <<a, b, c>> \in Seq(BoardPiece)
              /\ \A a, b \in BoardPiece : <<a, b>> \in Seq(BoardPiece)
          OBVIOUS
        <5> QED
          BY <5>1, <5>2 DEF R!Sample, R!LogLine
      <4>2. Len(R!Sample(n)) = 3 /\ Len(R!LogLine(n)) = 2
        BY DEF R!Sample, R!LogLine
      <4>3. SubSeq(R!Sample(n), 1, 3) = R!Sample(n) /\ SubSeq(R!LogLine(n), 1, 2) = R!LogLine(n)
        BY <4>1, <4>2, SubSeqFull
      <4>4. SubSeq(R!Sample(n), 2, 3) = Tail(R!Sample(n))
        <5>1. 1 \in 1..Len(R!Sample(n)) /\ 3 \in 1..Len(R!Sample(n))
          BY <4>2
        <5>2. Tail(SubSeq(R!Sample(n), 1, 3)) = SubSeq(R!Sample(n), 1 + 1, 3)
          BY <4>1, <5>1, HeadTailOfSubSeq
        <5> DEFINE two == 1 + 1
        <5>4. Tail(SubSeq(R!Sample(n), 1, 3)) = SubSeq(R!Sample(n), two, 3) /\ two = 2
          BY <5>2
        <5> HIDE DEF two
        <5> QED
          BY <4>3, <5>4
      <4>5. SubSeq(R!Sample(n), 3, 3) = <<R!Piece(n, "end")>>
        <5>1. 2 \in 1..Len(R!Sample(n)) /\ 3 \in 2..Len(R!Sample(n))
          BY <4>2
        <5>2. Tail(SubSeq(R!Sample(n), 2, 3)) = SubSeq(R!Sample(n), 2 + 1, 3)
          BY <4>1, <5>1, HeadTailOfSubSeq
        <5>3. Tail(Tail(R!Sample(n))) = <<R!Piece(n, "end")>>
          BY DEF R!Sample
        <5> DEFINE three == 2 + 1
        <5>4. Tail(SubSeq(R!Sample(n), 2, 3)) = SubSeq(R!Sample(n), three, 3) /\ three = 3
          BY <5>2
        <5> HIDE DEF three
        <5> QED
          BY <4>4, <5>3, <5>4
      <4>6. Tail(R!Sample(n)) = <<R!Piece(n, "tail"), R!Piece(n, "end")>>
        BY DEF R!Sample
      <4> QED
        BY <4>3, <4>4, <4>5, <4>6
    <3>2. 1 \in 1..3 /\ 2 \in 1..3 /\ 3 \in 1..3 /\ 1 \in 1..2
      OBVIOUS
    <3>3. /\ SubSeq(R!Sample(n), 1, 3) \in Lefts0 /\ SubSeq(R!Sample(n), 2, 3) \in Lefts0
          /\ SubSeq(R!Sample(n), 3, 3) \in Lefts0 /\ SubSeq(R!LogLine(n), 1, 2) \in Lefts0
      BY <3>2
    <3> HIDE DEF Lefts0
    <3> QED
      BY <3>1, <3>3 DEF Remnant
  <2>2. <<>> \in Lefts0
    OBVIOUS
  <2> HIDE DEF Lefts0
  <2> QED
    BY <2>1, <2>2 DEF Remnants
<1>3. R!TypeOK
  <2>1. board \in [left : Lefts0, lines : 0..MaxLines, drops : 0..MaxDrops,
                   resets : 0..MaxResets, losses : 0..MaxLosses]
    <3> HIDE DEF Lefts0
    <3> QED
      BY <1>1, <1>2 DEF SampleTypes
  <2>2. \A s \in {tty, chunk, heard, line} \cup {sends[k] : k \in DOMAIN sends} :
          s \in Seq(BoardPiece)
    <3>1. WholeSample \subseteq Seq(BoardPiece)
      <4>1. ASSUME NEW n \in 1..MaxLines
            PROVE  Halves(n) \in Seq(BoardPiece)
        <5>1. R!Piece(n, "head") \in BoardPiece /\ R!Piece(n, "tail") \in BoardPiece
          BY DEF R!Piece, BoardPiece
        <5>2. \A a, b \in BoardPiece : <<a, b>> \in Seq(BoardPiece)
          OBVIOUS
        <5> QED
          BY <5>1, <5>2 DEF Halves
      <4> QED
        BY <4>1 DEF WholeSample
    <3>2. \A k \in DOMAIN sends : sends[k] \in WholeSample
      BY <1>1 DEF SampleTypes
    <3>3. tty \in Seq(BoardPiece) /\ chunk \in Seq(BoardPiece) /\ heard \in Seq(BoardPiece)
          /\ line \in Seq(BoardPiece)
      BY <1>1 DEF SampleTypes
    <3> QED
      BY <3>1, <3>2, <3>3
  <2>3. \A s \in Seq(BoardPiece) : \A k \in DOMAIN s :
           s[k].of \in 1..MaxLines /\ s[k].part \in {"head", "tail", "text", "end"}
    <3>1. \A s \in Seq(BoardPiece) : \A k \in DOMAIN s : s[k] \in BoardPiece
      OBVIOUS
    <3>2. \A p \in BoardPiece : p.of \in 1..MaxLines /\ p.part \in {"head", "tail", "text", "end"}
      BY DEF BoardPiece
    <3> QED
      BY <3>1, <3>2
  <2>4. \A s \in {tty, chunk, heard, line} \cup {sends[k] : k \in DOMAIN sends} :
           \A k \in DOMAIN s :
             s[k].of \in 1..MaxLines /\ s[k].part \in {"head", "tail", "text", "end"}
    BY <2>2, <2>3
  <2> QED
    BY <1>1, <2>1, <2>4 DEF SampleTypes, R!TypeOK
<1>4. R!OnlyWholeSamples
  <2>1. \A k \in DOMAIN sends : sends[k] \in WholeSample
    BY <1>1 DEF SampleTypes
  <2>2. \A n : Halves(n) \o <<R!Piece(n, "end")>> = R!Sample(n)
    <3>1. ASSUME NEW a, NEW b, NEW c
          PROVE  <<a, b>> \o <<c>> = <<a, b, c>>
      <4>1. <<a, b>> \in Seq({a, b, c}) /\ c \in {a, b, c}
        OBVIOUS
      <4>2. Append(<<a, b>>, c) = <<a, b>> \o <<c>>
        BY <4>1, AppendIsConcat
      <4>3. Append(<<a, b>>, c) = <<a, b, c>>
        <5> DEFINE S == {a, b, c}
        <5> DEFINE u == Append(<<a, b>>, c)
        <5> DEFINE v == <<a, b, c>>
        <5>1. u \in Seq(S) /\ v \in Seq(S) /\ Len(u) = 3 /\ Len(v) = 3
          OBVIOUS
        <5>2. u[1] = v[1] /\ u[2] = v[2] /\ u[3] = v[3]
          OBVIOUS
        <5> HIDE DEF S, u, v
        <5>3. \A i \in 1..Len(u) : u[i] = v[i]
          BY <5>1, <5>2
        <5>4. u = v
          BY <5>1, <5>3, SeqEqual
        <5> QED
          BY <5>4 DEF u, v
      <4> QED
        BY <4>2, <4>3
    <3> QED
      BY <3>1 DEF Halves, R!Sample
  <2> QED
    BY <2>1, <2>2 DEF WholeSample, R!OnlyWholeSamples
<1>5. R!ForwardsWhatItHeard
  BY <1>1 DEF Understood, Handled, R!ForwardsWhatItHeard
<1> QED
  BY <1>3, <1>4, <1>5

\* However the reads were cut, whatever the cable and the board lost and wherever the
\* port was lost, what is forwarded is exactly the samples among the lines heard over the
\* open port, each of them as the board printed it, for any bounds on lines, lost ends,
\* resets and losses (litewing-relay main.go pump; litewing/sample.go Parse).
THEOREM SamplesAreWhole == MCSpec => []SamplesSound
<1>1. MCInit => SampleInv
  BY ServicesAssumption, SampleInit DEF MCInit
<1>2. SampleInv /\ [MCNext]_<<which, vars, nodeProcess, relayProcess, framedStream>> => SampleInv'
  <2>1. UNCHANGED relayProcess => UNCHANGED R!vars
    BY DEF relayProcess, R!vars
  <2>2. [MCNext]_<<which, vars, nodeProcess, relayProcess, framedStream>> => [R!Next]_R!vars
    BY <2>1 DEF MCNext
  <2> QED
    BY <2>2, ServicesAssumption, NextSample
<1>3. SampleInv => SamplesSound
  BY ServicesAssumption, SampleSound DEF SamplesSound
<1> QED
  BY <1>1, <1>2, <1>3, PTL DEF MCSpec
=============================================================================
