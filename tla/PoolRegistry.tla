----------------------------- MODULE PoolRegistry -----------------------------
(***************************************************************************)
(* The connection registry of pkg/network: two pools that may dial each    *)
(* other at the same time, each deciding on its own which connection stays *)
(* and what its consumer is told (PeerUp, PeerDown).  One action is one    *)
(* critical section of Pool.mu, one step outside it, or one socket event.  *)
(*                                                                         *)
(* A pool keeps one registry slot per peer and they meet only in the lock  *)
(* and the event channel, so a pair of pools is the general case.  The     *)
(* channel always has room sooner or later; a pool is never Closed.        *)
(***************************************************************************)
EXTENDS Integers, FiniteSets

CONSTANTS Slot,         \* attempts of one dialer the network can hold
          Dialers,      \* the nodes that Connect to their peer
          AddrMatches,  \* the address dialled is the one the peer advertises
          MaxFaults,    \* bound on broken connections, timeouts and restarts
          None

Node == {1, 2}          \* node ids, ordered
Other(n) == 3 - n

ASSUME PoolAssumption ==
  /\ IsFiniteSet(Slot) /\ Slot # {}
  /\ Dialers \subseteq Node
  /\ AddrMatches \in BOOLEAN
  /\ MaxFaults \in Nat

\* A socket is named by who dialled it; each of its ends belongs to a node, and is
\* served by one goroutine there (dialLoop or admitLoop).
End == [by: Node, slot: Slot, at: Node]
Far(e) == [e EXCEPT !.at = Other(@)]
Dialled(e) == e.by = e.at
EndsAt(n) == {e \in End : e.at = n}

ASSUME NoneAssumption == None \notin End

VARIABLES inc,       \* inc[n]: the incarnation n's process announces
          pc,        \* pc[e]: where e's goroutine is
          kept,      \* the ends whose socket was registered as a connection
          down,      \* down[e]: the entry whose PeerDown e's goroutine delivers next
          awaits,    \* awaits[e]: the entry e's goroutine waits to see retired
          open,      \* the ends whose socket this side has not closed
          ack,       \* ack[e], e dialled: the answer on its way to the dialer
          says,      \* says[e]: the incarnation the handshake told e about its peer
          retired,   \* the entries whose gone channel is closed
          peer,      \* Pool.peers, the one entry for the other node
          deferred,  \* Pool.deferred
          inFlight,  \* Pool.downInFlight
          claims,    \* Pool.claims
          dialing,   \* Pool.dialing
          addrKnown, \* the dialled address is in Pool.addrOf
          told,      \* PeerUps minus PeerDowns delivered to the consumer
          faults

registry == <<peer, deferred, inFlight, claims, dialing, addrKnown>>
threads == <<pc, kept, down, awaits>>
sockets == <<open, ack, says, retired>>
vars == <<inc, threads, sockets, registry, told, faults>>

PC == {"idle", "hello", "accept", "register", "up", "releaseClaim", "releaseDialing",
       "watch", "rest"}

-----------------------------------------------------------------------------
Empty ==
  /\ inc = [n \in Node |-> 1]
  /\ kept = {}
  /\ down = [e \in End |-> None]
  /\ open = {}
  /\ ack = [e \in End |-> "none"]
  /\ says = [e \in End |-> 0]
  /\ retired = {}
  /\ peer = [n \in Node |-> None]
  /\ deferred = [n \in Node |-> None]
  /\ inFlight = [n \in Node |-> None]
  /\ claims = [n \in Node |-> 0]
  /\ dialing = [n \in Node |-> 0]
  /\ addrKnown = [n \in Node |-> FALSE]
  /\ told = [n \in Node |-> 0]
  /\ faults = 0

Init == Empty /\ pc = [e \in End |-> "idle"] /\ awaits = [e \in End |-> None]

\* Pools that do nothing: every dial loop waits for a connection that does not end.
Still ==
  /\ Empty
  /\ pc = [e \in End |-> IF Dialled(e) THEN "rest" ELSE "idle"]
  /\ awaits = [e \in End |-> IF Dialled(e) THEN e ELSE None]

Fault == faults < MaxFaults /\ faults' = faults + 1

Goto(e, label) == pc' = [pc EXCEPT ![e] = label]

\* prefer: a newer incarnation, else the connection dialled by the lower id.
Prefer(candidate, existing) ==
  IF says[candidate] # says[existing] THEN says[candidate] > says[existing]
  ELSE candidate.by < Other(candidate.by)

\* Mutant: dials in flight do not count.
ClaimedById(n, c, d, known) == c[n] > 0

\* claimed: a handshake that may replace n's entry is in flight.
Claimed(n, c, d, known) ==
  c[n] > 0 \/ (d[n] > 0 /\ (AddrMatches \/ known[n]))

Claim(c, n) == [c EXCEPT ![n] = @ + 1]

\* Mutant: a claim is given back and the PeerDown it covered stays parked.
Unresolved(e, c, d) ==
  down' = [down EXCEPT ![e] = None] /\ UNCHANGED <<inFlight, deferred>>

\* The part releaseClaim and releaseDialing share: a parked PeerDown that no claim
\* covers any more is decided, and delivered by this goroutine.
Resolve(e, c, d) ==
  LET n == e.at
      free == deferred[n] # None /\ ~Claimed(n, c, d, addrKnown)
  IN  /\ down' = [down EXCEPT ![e] = IF free THEN deferred[n] ELSE None]
      /\ inFlight' = [inFlight EXCEPT ![n] = IF free THEN deferred[n] ELSE @]
      /\ deferred' = [deferred EXCEPT ![n] = IF free THEN None ELSE @]

-----------------------------------------------------------------------------
\* Handshakes.

Finished(e) == pc[e] = "idle" /\ down[e] = None

\* Nothing refers to the ends of an attempt any more.
Free(e) ==
  /\ Finished(e) /\ Finished(Far(e))
  /\ \A n \in Node : {peer[n], deferred[n], inFlight[n]} \cap {e, Far(e)} = {}
  /\ \A f \in End : {down[f], awaits[f]} \cap {e, Far(e)} = {}

\* dialOnce up to the HELLO: the claim on the address, the socket, the peer's Admit.
Dial(e) ==
  /\ Dialled(e) /\ e.at \in Dialers
  /\ Free(e)
  /\ \A f \in EndsAt(e.at) : Dialled(f) => Finished(f)
  /\ dialing' = [dialing EXCEPT ![e.at] = @ + 1]
  /\ pc' = [pc EXCEPT ![e] = "hello", ![Far(e)] = "accept"]
  /\ open' = open \cup {e, Far(e)}
  /\ ack' = [ack EXCEPT ![e] = "none"]
  /\ says' = [says EXCEPT ![Far(e)] = inc[e.at]]
  /\ kept' = kept \ {e, Far(e)}
  /\ retired' = retired \ {e, Far(e)}
  /\ UNCHANGED <<inc, down, awaits, peer, deferred, inFlight, claims, addrKnown,
                 told, faults>>

\* acceptHandshake with admitPolicy: rejected when it would lose the tie-break,
\* else a claim is taken and only then the ACK written.
Accept(e) ==
  /\ pc[e] = "accept"
  /\ LET wins == peer[e.at] = None \/ Prefer(e, peer[e.at])
     IN  /\ claims' = IF wins THEN Claim(claims, e.at) ELSE claims
         /\ ack' = [ack EXCEPT ![Far(e)] = IF wins THEN "yes" ELSE "no"]
         /\ says' = [says EXCEPT ![Far(e)] = inc[e.at]]
         /\ open' = IF wins THEN open ELSE open \ {e}
         /\ Goto(e, IF wins THEN "register" ELSE "idle")
  /\ UNCHANGED <<inc, kept, down, awaits, retired, peer, deferred, inFlight, dialing,
                 addrKnown, told, faults>>

\* The ACK could not be written: the dialer is gone.
AcceptFails(e) ==
  /\ ~Dialled(e) /\ pc[e] = "register" /\ Far(e) \notin open
  /\ open' = open \ {e}
  /\ Goto(e, "releaseClaim")
  /\ UNCHANGED <<inc, kept, down, awaits, ack, says, retired, registry, told, faults>>

\* The ACK names the peer: a claim by id, and the address is remembered for it.
ReadAck(e) ==
  /\ pc[e] = "hello" /\ ack[e] # "none"
  /\ claims' = Claim(claims, e.at)
  /\ addrKnown' = [addrKnown EXCEPT ![e.at] = TRUE]
  /\ open' = IF ack[e] = "yes" THEN open ELSE open \ {e}
  /\ Goto(e, IF ack[e] = "yes" THEN "register" ELSE "releaseClaim")
  /\ UNCHANGED <<inc, kept, down, awaits, ack, says, retired, peer, deferred, inFlight,
                 dialing, told, faults>>

\* No ACK: the acceptor hung up, or HandshakeTimeout.
HelloFails(e) ==
  /\ pc[e] = "hello"
  /\ IF ack[e] = "none" /\ Far(e) \notin open THEN UNCHANGED faults ELSE Fault
  /\ ack' = [ack EXCEPT ![e] = "none"]
  /\ open' = open \ {e}
  /\ Goto(e, "releaseDialing")
  /\ UNCHANGED <<inc, kept, down, awaits, says, retired, registry, told>>

-----------------------------------------------------------------------------
\* Registration.

\* register: closed if it loses; silent if it replaces the current entry or one
\* whose PeerDown was parked; else a PeerUp, behind a PeerDown being delivered.
RegisterLoses(e) ==
  /\ pc[e] = "register"
  /\ peer[e.at] # None /\ ~Prefer(e, peer[e.at])
  /\ open' = open \ {e}
  /\ Goto(e, "releaseClaim")
  /\ UNCHANGED <<inc, kept, down, awaits, ack, says, retired, registry, told, faults>>

\* Mutant: the PeerUp does not wait for the PeerDown being delivered.
NoQueue(n) == None
Queue(n) == inFlight[n]

Superseded(n) == {peer[n], deferred[n]} \ {None}

Register(e) ==
  /\ pc[e] = "register"
  /\ LET n == e.at
         old == Superseded(n)
     IN  /\ peer[n] # None => Prefer(e, peer[n])
         /\ peer' = [peer EXCEPT ![n] = e]
         /\ deferred' = [deferred EXCEPT ![n] = None]
         /\ open' = open \ old
         /\ retired' = retired \cup old
         /\ IF old = {}
            THEN Goto(e, "up") /\ awaits' = [awaits EXCEPT ![e] = Queue(n)]
            ELSE Goto(e, "releaseClaim") /\ UNCHANGED awaits
  /\ kept' = kept \cup {e}
  /\ UNCHANGED <<inc, down, ack, says, inFlight, claims, dialing, addrKnown, told, faults>>

EmitUp(e) ==
  /\ pc[e] = "up"
  /\ awaits[e] = None \/ awaits[e] \in retired
  /\ awaits' = [awaits EXCEPT ![e] = None]
  /\ told' = [told EXCEPT ![e.at] = @ + 1]
  /\ Goto(e, "releaseClaim")
  /\ UNCHANGED <<inc, kept, down, sockets, registry, faults>>

\* releaseClaim; an accepted socket goes on to watch, a dialled one gives its
\* address back first.
ReleaseClaim(e) ==
  /\ pc[e] = "releaseClaim"
  /\ claims' = [claims EXCEPT ![e.at] = @ - 1]
  /\ Resolve(e, claims', dialing)
  /\ Goto(e, IF Dialled(e) THEN "releaseDialing"
             ELSE IF e \in kept THEN "watch" ELSE "idle")
  /\ UNCHANGED <<inc, kept, awaits, sockets, peer, dialing, addrKnown, told, faults>>

\* releaseDialing, and dialLoop's choice of where to go: it stays put while any
\* connection to the peer is live.
Connected(n) == peer[n] # None \/ deferred'[n] # None

ReleaseDialing(e) ==
  /\ pc[e] = "releaseDialing" /\ down[e] = None
  /\ dialing' = [dialing EXCEPT ![e.at] = @ - 1]
  /\ Resolve(e, claims, dialing')
  /\ Goto(e, IF e \in kept THEN "watch"
             ELSE IF ack[e] = "yes" \/ (ack[e] = "no" /\ Connected(e.at)) THEN "rest"
             ELSE "idle")
  /\ UNCHANGED <<inc, kept, awaits, sockets, peer, claims, addrKnown, told, faults>>

-----------------------------------------------------------------------------
\* Endings.

\* The reader of a registered connection: the far side hung up, or a fault.
HangUp(e) ==
  /\ e \in kept \cap open
  /\ IF Far(e) \notin open THEN UNCHANGED faults ELSE Fault
  /\ open' = open \ {e}
  /\ UNCHANGED <<inc, threads, ack, says, retired, registry, told>>

AfterWatch(e) == IF Dialled(e) THEN "rest" ELSE "idle"

\* watch: the entry was replaced, or its PeerDown is parked or decided.
Watch(e) ==
  /\ pc[e] = "watch" /\ down[e] = None /\ e \notin open
  /\ LET n == e.at
         current == peer[n] = e
         parks == current /\ Claimed(n, claims, dialing, addrKnown)
         ends == current /\ ~parks
     IN  /\ peer' = [peer EXCEPT ![n] = IF current THEN None ELSE @]
         /\ deferred' = [deferred EXCEPT ![n] = IF parks THEN e ELSE @]
         /\ inFlight' = [inFlight EXCEPT ![n] = IF ends THEN e ELSE @]
         /\ down' = [down EXCEPT ![e] = IF ends THEN e ELSE None]
         /\ retired' = IF current THEN retired ELSE retired \cup {e}
  /\ Goto(e, AfterWatch(e))
  /\ UNCHANGED <<inc, kept, awaits, open, ack, says, claims, dialing, addrKnown, told,
                 faults>>

\* emitDown
EmitDown(e) ==
  /\ down[e] # None
  /\ LET d == down[e]
     IN  /\ told' = [told EXCEPT ![e.at] = @ - 1]
         /\ inFlight' = [inFlight EXCEPT ![e.at] = IF @ = d THEN None ELSE @]
         /\ retired' = retired \cup {d}
  /\ down' = [down EXCEPT ![e] = None]
  /\ UNCHANGED <<inc, pc, kept, awaits, open, ack, says, peer, deferred, claims, dialing,
                 addrKnown, faults>>

\* waitWhileConnected, and the backoff after it.
Rest(e) ==
  /\ pc[e] = "rest" /\ down[e] = None
  /\ awaits[e] = None \/ awaits[e] \in retired
  /\ LET current == IF peer[e.at] # None THEN peer[e.at] ELSE deferred[e.at]
     IN  /\ awaits' = [awaits EXCEPT ![e] = current]
         /\ Goto(e, IF current = None THEN "idle" ELSE "rest")
  /\ UNCHANGED <<inc, kept, down, sockets, registry, told, faults>>

\* The process dies and starts again: its sockets close, its registry is new.
Restart(n) ==
  /\ Fault
  /\ inc' = [inc EXCEPT ![n] = @ + 1]
  /\ pc' = [e \in End |-> IF e.at = n THEN "idle" ELSE pc[e]]
  /\ kept' = kept \ EndsAt(n)
  /\ down' = [e \in End |-> IF e.at = n THEN None ELSE down[e]]
  /\ awaits' = [e \in End |-> IF e.at = n THEN None ELSE awaits[e]]
  /\ open' = open \ EndsAt(n)
  /\ retired' = retired \ EndsAt(n)
  /\ peer' = [peer EXCEPT ![n] = None]
  /\ deferred' = [deferred EXCEPT ![n] = None]
  /\ inFlight' = [inFlight EXCEPT ![n] = None]
  /\ claims' = [claims EXCEPT ![n] = 0]
  /\ dialing' = [dialing EXCEPT ![n] = 0]
  /\ addrKnown' = [addrKnown EXCEPT ![n] = FALSE]
  /\ told' = [told EXCEPT ![n] = 0]
  /\ UNCHANGED <<ack, says>>

-----------------------------------------------------------------------------
Step(e) ==
  \/ Dial(e) \/ Accept(e) \/ AcceptFails(e) \/ ReadAck(e)
  \/ RegisterLoses(e) \/ Register(e) \/ EmitUp(e)
  \/ ReleaseClaim(e) \/ ReleaseDialing(e)
  \/ Watch(e) \/ EmitDown(e) \/ Rest(e)

Next ==
  \/ \E e \in End : Step(e) \/ HelloFails(e) \/ HangUp(e)
  \/ \E n \in Node : Restart(n)

Spec == Init /\ [][Next]_vars

-----------------------------------------------------------------------------
TypeOK ==
  /\ inc \in [Node -> 1..(MaxFaults + 1)]
  /\ pc \in [End -> PC]
  /\ kept \subseteq End
  /\ down \in [End -> End \cup {None}]
  /\ awaits \in [End -> End \cup {None}]
  /\ open \subseteq End
  /\ ack \in [End -> {"none", "yes", "no"}]
  /\ says \in [End -> 0..(MaxFaults + 1)]
  /\ retired \subseteq End
  /\ {peer, deferred, inFlight} \subseteq [Node -> End \cup {None}]
  /\ claims \in [Node -> Nat]
  /\ dialing \in [Node -> 0..1]
  /\ addrKnown \in [Node -> BOOLEAN]
  /\ told \in [Node -> Int]
  /\ faults \in 0..MaxFaults

\* What the consumer of n has been told, once what is decided is delivered, is what
\* the registry holds: up while a connection is registered or its PeerDown parked
\* (pool.go: an event is "never lost").
Deciding(n, ups) == Cardinality({e \in EndsAt(n) : IF ups THEN pc[e] = "up" ELSE down[e] # None})
Accounted == \A n \in Node :
  told[n] + Deciding(n, TRUE) - Deciding(n, FALSE)
    = (IF peer[n] # None \/ deferred[n] # None THEN 1 ELSE 0)

\* "Exactly one PeerUp when a peer becomes reachable and exactly one PeerDown when it
\* stops being reachable" (transport.go, PeerEvent): they alternate.
Alternates == \A n \in Node : told[n] \in {0, 1}

\* The consumer hears exactly one PeerUp when a peer becomes reachable and one PeerDown
\* when it stops being, and never one that is not true.
EventsTrue == TypeOK /\ Accounted /\ Alternates

\* A PeerDown is "never spurious" (pool.go, Pool): as long as nothing broke, a
\* simultaneous dial makes no peer go down.
NoFlap == [][faults' = 0 => \A n \in Node : told'[n] >= told[n]]_vars

\* Every goroutine runs; a handshake and a reader find out that the far side hung up.
Fairness ==
  \A e \in End :
    /\ WF_vars(Step(e))
    /\ WF_vars((HelloFails(e) \/ HangUp(e)) /\ UNCHANGED faults)

LiveSpec == Spec /\ Fairness

\* "Both keep the same connection and neither closes both" (registry.go, prefer):
\* whatever broke before, the two ends settle on the two ends of one socket.
Joined == peer[1] # None /\ peer[2] = Far(peer[1])
Settles == <>[]Joined

\* A PeerDown that was parked is resolved: delivered, or moot because the peer is
\* registered again ("delayed by at most one handshake", pool.go).
ParkedResolves == \A n \in Node : deferred[n] # None ~> deferred[n] = None
=============================================================================
