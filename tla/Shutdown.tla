------------------------------ MODULE Shutdown ------------------------------
(***************************************************************************)
(* How a swarm node stops (cmd/swarm-node/main.go run): the listener, the  *)
(* prober and the pool are closed in that order while sockets arrive,      *)
(* handshakes are half done, dial loops back off and watchers have events  *)
(* to deliver to a consumer that no longer reads (network/server.go,       *)
(* pool.go, dial.go, admit.go, handshake.go).  Each Close joins the        *)
(* goroutines it owns, so one that is missed, or that waits for something  *)
(* nobody will do, keeps the process alive for ever.                       *)
(*                                                                         *)
(* A thread is a dial loop or an admitted socket; all of them reach one    *)
(* peer, since threads of different peers share only the lock and the      *)
(* event channel.  Which of two connections wins, and parked PeerDowns,    *)
(* are PoolRegistry's: here either may win.  A thread emits what it        *)
(* decided under the lock.                                                 *)
(***************************************************************************)
EXTENDS Integers, FiniteSets

CONSTANTS
  Dials,        \* addresses the node connects to, a dial loop each
  Inbound,      \* sockets that may arrive
  MaxPending,   \* MaxPendingHandshakes
  Room,         \* EventBuffer
  NoOne

\* What the constants are; a module that instantiates this one assumes it.
ShutdownAssumption == Dials \cap Inbound = {} /\ {MaxPending, Room} \subseteq Nat \ {0}

VARIABLES
  stage,      \* app.run: running, then what is being closed: listener, prober, pool; done
  accept,     \* the accept loop: accepting, backoff, stopped
  hangup,     \* Listener.done
  at,         \* where a thread is
  sock,       \* the socket a thread holds: none, open, closed
  dials,      \* Pool.dials
  current,    \* the thread whose connection is the registered one, or NoOne
  closed,     \* Pool.closed
  cancelled,  \* the pool's context has ended
  snap,       \* the sockets Close found, under the lock, to close
  events,     \* events queued, nobody reading any more: at most Room
  shut,       \* the event channel is closed
  replies,    \* PONGs waiting to be sent
  deaf        \* MeshProber.closed

pool == <<dials, current, closed, cancelled, snap, events, shut>>
prober == <<replies, deaf>>
vars == <<stage, accept, hangup, at, sock, pool, prober>>

Thread == Dials \cup Inbound
Running(t) == at[t] \notin {"new", "off"}
Pending == {t \in Thread : at[t] = "shaking"}
MaxReplies == 1

Init ==
  /\ stage = "running" /\ accept = "accepting" /\ hangup = FALSE
  /\ at = [t \in Thread |-> IF t \in Dials THEN "off" ELSE "new"]
  /\ sock = [t \in Thread |-> "none"]
  /\ dials = {} /\ current = NoOne
  /\ closed = FALSE /\ cancelled = FALSE /\ snap = {}
  /\ events = 0 /\ shut = FALSE
  /\ replies = 0 /\ deaf = FALSE

Moves(t, place) == at' = [at EXCEPT ![t] = place]
Gets(t, socket) == sock' = [sock EXCEPT ![t] = socket]
Hangs(t) == [sock EXCEPT ![t] = IF @ = "open" THEN "closed" ELSE @]

-----------------------------------------------------------------------------
(* The accept loop.                                                        *)

\* Admit: refused when the pool is closed, or too many handshakes are pending.
Accept(s) ==
  /\ accept = "accepting" /\ ~hangup /\ at[s] = "new"
  /\ IF closed \/ Cardinality(Pending \cap Inbound) >= MaxPending
     THEN Moves(s, "off") /\ Gets(s, "closed")
     ELSE Moves(s, "shaking") /\ Gets(s, "open")
  /\ UNCHANGED <<stage, accept, hangup, pool, prober>>

\* A temporary error is waited out, any other ends the loop, and so does Close.
AcceptError ==
  /\ accept = "accepting"
  /\ accept' \in IF hangup THEN {"stopped"} ELSE {"backoff", "stopped"}
  /\ UNCHANGED <<stage, hangup, at, sock, pool, prober>>

AcceptAgain ==
  /\ accept = "backoff"
  /\ accept' = IF hangup THEN "stopped" ELSE "accepting"
  /\ UNCHANGED <<stage, hangup, at, sock, pool, prober>>

-----------------------------------------------------------------------------
(* A dial loop.                                                            *)

Connect(d) ==
  /\ stage = "running" /\ ~closed /\ d \notin dials /\ at[d] = "off"
  /\ dials' = dials \cup {d}
  /\ Moves(d, "dialing")
  /\ UNCHANGED <<stage, accept, hangup, sock, current, closed, cancelled, snap, events, shut, prober>>

\* DialContext has a socket; it counts as pending unless the pool is closed (trackPending).
Dialled(d) ==
  /\ at[d] = "dialing" /\ ~cancelled
  /\ IF closed THEN Moves(d, "backoff") /\ Gets(d, "closed")
               ELSE Moves(d, "shaking") /\ Gets(d, "open")
  /\ UNCHANGED <<stage, accept, hangup, pool, prober>>

DialFails(d) ==
  /\ at[d] = "dialing"
  /\ Moves(d, "backoff")
  /\ UNCHANGED <<stage, accept, hangup, sock, pool, prober>>

\* The timer, or the end of the context: then the loop removes its entry.
BackedOff(d) ==
  /\ at[d] = "backoff"
  /\ IF cancelled THEN Moves(d, "off") /\ dials' = dials \ {d}
                  ELSE Moves(d, "dialing") /\ UNCHANGED dials
  /\ UNCHANGED <<stage, accept, hangup, sock, current, closed, cancelled, snap, events, shut, prober>>

\* waitWhileConnected: any connection to the peer will do; when the context ends
\* the loop closes it.
Rested(d) ==
  /\ at[d] = "rest" /\ (current = NoOne \/ cancelled)
  /\ Moves(d, "backoff")
  /\ sock' = IF current = NoOne THEN sock ELSE Hangs(current)
  /\ UNCHANGED <<stage, accept, hangup, pool, prober>>

-----------------------------------------------------------------------------
(* The handshake, both sides, and the connection it gives.                 *)

\* Where a thread goes that has no connection of its own after all.
Without(t, connected) == IF t \in Inbound THEN "off" ELSE IF connected THEN "rest" ELSE "backoff"

\* dialHandshake, acceptHandshake: HELLO and HELLO_ACK went well.
Shaken(t) ==
  /\ at[t] = "shaking" /\ sock[t] = "open"
  /\ Moves(t, "shaken")
  /\ UNCHANGED <<stage, accept, hangup, sock, pool, prober>>

\* Malformed, cut, late, or refused; a refusal by a peer we have is no failure to retry.
ShakeFails(t) ==
  /\ at[t] = "shaking"
  /\ \E refused \in BOOLEAN : Moves(t, Without(t, refused /\ current # NoOne))
  /\ Gets(t, "closed")
  /\ UNCHANGED <<stage, accept, hangup, pool, prober>>

\* The dial loop reached itself, and ends.
SelfConnect(d) ==
  /\ at[d] = "shaking"
  /\ Moves(d, "off") /\ Gets(d, "closed")
  /\ dials' = dials \ {d}
  /\ UNCHANGED <<stage, accept, hangup, current, closed, cancelled, snap, events, shut, prober>>

Refused(t) ==
  /\ Moves(t, Without(t, TRUE)) /\ Gets(t, "closed")
  /\ UNCHANGED current

Registered(t) ==
  /\ current' = t
  /\ Moves(t, IF current = NoOne THEN "up" ELSE "live")
  /\ sock' = IF current = NoOne THEN sock ELSE Hangs(current)

\* register: a closed pool takes nothing; an existing connection wins or is replaced.
Register(t) ==
  /\ at[t] = "shaken"
  /\ \/ ~closed /\ Registered(t)
     \/ (closed \/ current # NoOne) /\ Refused(t)
  /\ UNCHANGED <<stage, accept, hangup, dials, closed, cancelled, snap, events, shut, prober>>

\* The peer goes away, or the connection fails.
ConnEnds(t) ==
  /\ sock[t] = "open" /\ at[t] \in {"shaken", "up", "live"}
  /\ sock' = Hangs(t)
  /\ UNCHANGED <<stage, accept, hangup, at, pool, prober>>

\* watch: the connection ended, or the context did and closes it.
Watched(t) ==
  /\ at[t] = "live" /\ (sock[t] = "closed" \/ cancelled)
  /\ sock' = Hangs(t)
  /\ IF current = t THEN current' = NoOne /\ Moves(t, "down")
                    ELSE UNCHANGED current /\ Moves(t, Without(t, TRUE))
  /\ UNCHANGED <<stage, accept, hangup, dials, closed, cancelled, snap, events, shut, prober>>

\* emit: into the channel, or nowhere once the pool closes.
Emit(t) ==
  /\ at[t] \in {"up", "down"} /\ (events < Room \/ cancelled)
  /\ events' \in IF events < Room THEN {events + 1} ELSE {events}
  /\ Moves(t, IF at[t] = "up" THEN "live" ELSE Without(t, TRUE))
  /\ UNCHANGED <<stage, accept, hangup, sock, dials, current, closed, cancelled, snap, shut, prober>>

-----------------------------------------------------------------------------
(* The prober's replies, and the shutdown.                                 *)

\* A PING arrives on the registered connection; a closed prober starts no reply.
Ping ==
  /\ current # NoOne /\ sock[current] = "open" /\ ~deaf /\ replies < MaxReplies
  /\ replies' = replies + 1
  /\ UNCHANGED <<stage, accept, hangup, at, sock, pool, deaf>>

Reply ==
  /\ replies > 0 /\ replies' = replies - 1
  /\ UNCHANGED <<stage, accept, hangup, at, sock, pool, deaf>>

\* The events the node's loop reads until it stops.
Drain ==
  /\ stage = "running" /\ events > 0
  /\ events' = events - 1
  /\ UNCHANGED <<stage, accept, hangup, at, sock, dials, current, closed, cancelled, snap, shut, prober>>

\* A signal, the end of the node's loop, or the death of the accept loop.
Stop ==
  /\ stage = "running"
  /\ stage' = "listener" /\ hangup' = TRUE
  /\ UNCHANGED <<accept, at, sock, pool, prober>>

ProberClose ==
  /\ stage = "listener" /\ accept = "stopped"
  /\ stage' = "prober" /\ deaf' = TRUE
  /\ UNCHANGED <<accept, hangup, at, sock, pool, replies>>

\* Pool.Close, under the lock: nothing new from here on, and a list of what there is.
PoolClose ==
  /\ stage = "prober" /\ replies = 0
  /\ stage' = "pool" /\ closed' = TRUE
  /\ snap' = Pending \cup ({current} \ {NoOne})
  /\ UNCHANGED <<accept, hangup, at, sock, dials, current, cancelled, events, shut, prober>>

\* Outside it: the context first, then the sockets of the list.
PoolCancel ==
  /\ closed /\ ~cancelled /\ cancelled' = TRUE
  /\ UNCHANGED <<stage, accept, hangup, at, sock, dials, current, closed, snap, events, shut, prober>>

PoolHangUp ==
  /\ cancelled /\ snap # {}
  /\ sock' = [t \in Thread |-> IF t \in snap /\ at[t] \in {"shaking", "shaken", "up", "live"}
                               THEN Hangs(t)[t] ELSE sock[t]]
  /\ snap' = {}
  /\ UNCHANGED <<stage, accept, hangup, at, dials, current, closed, cancelled, events, shut, prober>>

\* Mutant: only the dial loops are counted.
DialLoopsOver == \A d \in Dials : ~Running(d)

\* wg.Wait has nothing left to wait for.
Joined == \A t \in Thread : ~Running(t)

PoolClosed ==
  /\ stage = "pool" /\ cancelled /\ snap = {} /\ Joined
  /\ stage' = "done" /\ shut' = TRUE
  /\ UNCHANGED <<accept, hangup, at, sock, dials, current, closed, cancelled, snap, events, prober>>

ThreadStep ==
  \/ \E t \in Thread : \/ Shaken(t) \/ ShakeFails(t) \/ Register(t)
                       \/ Watched(t) \/ Emit(t)
  \/ \E d \in Dials : \/ Dialled(d) \/ DialFails(d) \/ SelfConnect(d)
                      \/ BackedOff(d) \/ Rested(d)

AppStep == ProberClose \/ PoolClose \/ PoolCancel \/ PoolHangUp \/ PoolClosed

Next ==
  \/ \E s \in Inbound : Accept(s)
  \/ AcceptError \/ AcceptAgain
  \/ \E d \in Dials : Connect(d)
  \/ ThreadStep
  \/ \E t \in Thread : ConnEnds(t)
  \/ Ping \/ Reply \/ Drain
  \/ Stop \/ ProberClose \/ PoolClose \/ PoolCancel \/ PoolHangUp \/ PoolClosed

\* Handshakes have deadlines, dials a context, back-offs a timer; the main goroutine
\* runs, a hung up listener returns from Accept, and a reply waits for room no longer
\* than its context.  Nothing is assumed of peers or of the consumer of the events.
Fairness ==
  /\ WF_vars(ThreadStep) /\ WF_vars(AppStep) /\ WF_vars(Reply)
  /\ WF_vars(hangup /\ (AcceptError \/ AcceptAgain))

Spec == Init /\ [][Next]_vars /\ Fairness

-----------------------------------------------------------------------------
TypeOK ==
  /\ stage \in {"running", "listener", "prober", "pool", "done"}
  /\ accept \in {"accepting", "backoff", "stopped"}
  /\ at \in [Thread -> {"new", "off", "dialing", "shaking", "shaken", "up", "live",
                        "down", "rest", "backoff"}]
  /\ sock \in [Thread -> {"none", "open", "closed"}]
  /\ dials \subseteq Dials /\ current \in Thread \cup {NoOne}
  /\ snap \subseteq Thread /\ events \in 0..Room /\ replies \in 0..MaxReplies
  /\ {hangup, closed, cancelled, shut, deaf} \subseteq BOOLEAN

\* When run returns, no socket is left open, no goroutine of the listener, the
\* prober or the pool is left running, and none can send on the closed channel
\* (pool.go Close, "joins all pool goroutines and then closes Events").
NothingOutlives ==
  stage = "done" => /\ \A t \in Thread : ~Running(t) /\ sock[t] # "open"
                    /\ accept = "stopped" /\ replies = 0 /\ current = NoOne

\* A node told to stop does stop, with the events unread and whatever handshakes,
\* dials and connections were under way (main.go run).
ShutdownEnds == stage = "listener" ~> stage = "done"
=============================================================================
