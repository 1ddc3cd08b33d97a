------------------------------ MODULE Attachment ------------------------------
(***************************************************************************)
(* How workers find and keep a leader in pkg/cluster: JOIN_CLUSTER and     *)
(* JOIN_ACK, heartbeats and their acks, and the failovers.  Of the         *)
(* election only the outcome is kept: every node comes to act on Leaders,  *)
(* after booting alone and after any number of strays of its own view      *)
(* (Stray, counted as faults).  Members neither die nor leave here, and    *)
(* terms are left out: a beat of an older term is one the worker did not   *)
(* count, which is a silence that is not one.                              *)
(***************************************************************************)
EXTENDS Integers, SequencesExt

CONSTANTS Node,           \* ids, ordered
          Leaders,        \* whom the elections come to agree on
          Measures,       \* what a node may have measured: Leaders -> scores
          NoScore,        \* a score above all others: not measured
          Margin,         \* the re-home margin
          MaxRejections,  \* maxRejectionsPerRound
          MaxFaults,      \* bound on strays, new scores, lost links, false silences
          None

ASSUME AttachmentAssumption ==
  /\ Node \subseteq Nat /\ IsFiniteSet(Node) /\ None \notin Node
  /\ Leaders # {} /\ Leaders \subseteq Node
  /\ NoScore \in Nat /\ Measures \subseteq [Leaders -> 0..NoScore]
  /\ {Margin, MaxRejections, MaxFaults} \subseteq Nat

VARIABLES node,    \* node[n]: the fields of n's loop, see State
          link,    \* link[p][q]: the frames from p to q, in order
          broken,  \* the pairs with no connection
          events,  \* events[n][m]: what n's transport has yet to report of m
          faults

vars == <<node, link, broken, events, faults>>

Peer == Node \cup {None}

State == [leaders: SUBSET Node,           \* the result acted on last
          leader: Peer,                   \* whom n is attached to, or JOINs
          rejections: Nat,
          attached: SUBSET Node,          \* the workers n leads
          claims: SUBSET Node,            \* who claims to lead, in n's table
          doubted: SUBSET Node,           \* n's first-hand suspicions
          silent: SUBSET Node,            \* those of them raised by missed beats
          local: Measures]

\* current: the JOIN, or the one answered, is its sender's last.  That is what
\* matching envelope ids decides.
Frame == [type: {"join"}, current: BOOLEAN]
           \cup [type: {"ack"}, ok: BOOLEAN, hint: Peer, current: BOOLEAN]
           \cup [type: {"beat"}]
           \cup [type: {"beatAck"}, observed: Peer]
           \cup [type: {"claim"}, leads: BOOLEAN]

Leads(s, n) == n \in s.leaders

Unmeasured == [l \in Leaders |-> NoScore]

\* Every node has booted alone and may have measured those it has met since.
Init ==
  /\ \E local \in [Node -> Measures] :
       node = [n \in Node |->
                 [leaders |-> {n}, leader |-> n, rejections |-> 0, attached |-> {},
                  claims |-> Node, doubted |-> {}, silent |-> {}, local |-> local[n]]]
  /\ link = [p \in Node |-> [q \in Node |-> << >>]]
  /\ broken = {}
  /\ events = [n \in Node |-> [m \in Node |-> << >>]]
  /\ faults = 0

Fault == faults < MaxFaults /\ faults' = faults + 1

-----------------------------------------------------------------------------
\* Links keep the order of their frames and never fill.

Connected(p, q) == {p, q} \notin broken

Sent(links, p, q, f) ==
  IF Connected(p, q) THEN [links EXCEPT ![p][q] = Append(@, f)] ELSE links

Taken(p, q) == [link EXCEPT ![p][q] = Tail(@)]

\* announceSelf
Announced(links, n, leads) ==
  [links EXCEPT ![n] = [q \in Node |->
     IF q = n \/ ~Connected(n, q) THEN @[q]
     ELSE Append(@[q], [type |-> "claim", leads |-> leads])]]

InFlight(p, q, types) == \E i \in DOMAIN link[p][q] : link[p][q][i].type \in types

\* Mutant of Outdated: answers are told apart by their sender alone.
StillCurrent(links, n) == links

\* n JOINs anew: what it asked before, and every answer to that, is out of date.
Outdated(links, n) ==
  [p \in Node |-> [q \in Node |->
     IF n \notin {p, q} THEN links[p][q]
     ELSE [i \in DOMAIN links[p][q] |->
             LET f == links[p][q][i]
             IN  IF (p = n /\ f.type = "join") \/ (q = n /\ f.type = "ack")
                 THEN [f EXCEPT !.current = FALSE] ELSE f]]]

-----------------------------------------------------------------------------
\* evaluate.

\* usableLeaders.  One that was never measured cannot be chosen either.
Usable(s, elected) == elected \ s.doubted

Score(s, l) == IF l \in Leaders THEN s.local[l] ELSE NoScore

\* ChooseLeader: the best measured score, the lowest id among equals.
Choice(s, usable) ==
  LET measured == {l \in usable : Score(s, l) # NoScore}
  IN  IF measured = {} THEN None
      ELSE CHOOSE b \in measured : \A l \in measured :
             \/ Score(s, b) < Score(s, l)
             \/ Score(s, b) = Score(s, l) /\ b <= l

ShouldRehome(s, current, best, usable) ==
  /\ best # None /\ best \in usable /\ Score(s, best) # NoScore
  /\ best # current
  /\ \/ current \notin usable
     \/ Score(s, current) = NoScore
     \/ /\ Score(s, best) < Score(s, current)
        /\ Score(s, current) - Score(s, best) >= Margin

\* Mutant of MayJoin: no bound on the JOINs of one probe round.
AlwaysJoins(s) == TRUE

MayJoin(s) == s.rejections <= MaxRejections

\* The workers n still leads: none once it is demoted, else those not leading.
Kept(s, n) == IF Leads(s, n) THEN s.attached \ s.claims ELSE {}

\* evaluate: n, in state s and with these frames under way, acts on a result.
\* hint is where a rejection just sent it.
Evaluate(n, s, elected, hint, links) ==
  LET acting == [s EXCEPT !.leaders = elected]
      usable == Usable(s, elected)
      stay == IF s.leader \in usable THEN s.leader ELSE None
      best == IF hint \in usable THEN hint ELSE Choice(s, usable)
      told == IF Leads(node[n], n) = (n \in elected) THEN links
              ELSE Announced(links, n, n \in elected)
      joins == n \notin elected /\ MayJoin(s) /\ ShouldRehome(s, stay, best, usable)
      sent == joins /\ Connected(n, best)
  IN  [state |-> [acting EXCEPT
                    !.leader = IF n \in elected THEN n
                               ELSE IF sent THEN best ELSE IF joins THEN None ELSE stay,
                    !.attached = Kept(acting, n)],
       link |-> IF sent THEN Sent(Outdated(told, n), n, best,
                                  [type |-> "join", current |-> TRUE])
                ELSE IF joins THEN Outdated(told, n) ELSE told]

Reevaluate(n, s, links) == Evaluate(n, s, s.leaders, None, links)

\* n's loop in state s, which evaluates if its table changed.
Settlements(n, s, links) == {Reevaluate(n, s, links), [state |-> s, link |-> links]}

\* n is left with this outcome.
Outcome(n, o) == node' = [node EXCEPT ![n] = o.state] /\ link' = o.link

\* The floor timer, or any membership change, with the answer all agree on.
Elected(n) ==
  /\ Outcome(n, Evaluate(n, node[n], Leaders, None, link))
  /\ UNCHANGED <<broken, events, faults>>

\* n's view passes through a state with another answer.
Stray(n, elected) ==
  /\ elected # node[n].leaders
  /\ Fault
  /\ Outcome(n, Evaluate(n, node[n], elected, None, link))
  /\ UNCHANGED <<broken, events>>

\* A JOIN that n gave up, or its answer, is still under way.
GaveUp(n) ==
  \E m \in Node : \/ \E i \in DOMAIN link[n][m] :
                       link[n][m][i].type = "join" /\ ~link[n][m][i].current
                  \/ \E i \in DOMAIN link[m][n] :
                       link[m][n][i].type = "ack" /\ ~link[m][n][i].current

\* applyProbeRound: rejections are forgotten, and so are the doubts of peers that
\* answered, unless missed beats raised them.  Bound: no round ends while a JOIN
\* that n gave up is unanswered, or JOINs could pile up round by round.
ProbeRound(n, measured, answered) ==
  /\ ~GaveUp(n)
  /\ IF node[n].local \in {measured, Unmeasured} THEN UNCHANGED faults ELSE Fault
  /\ Outcome(n, Reevaluate(n, [node[n] EXCEPT
                                 !.rejections = 0, !.local = measured,
                                 !.doubted = @ \ (answered \ node[n].silent)], link))
  /\ UNCHANGED <<broken, events>>

\* expireSuspicions: a doubt its object has refuted is forgotten at the next tick,
\* which evaluates nothing.
Refuted(n, m) ==
  /\ m \in node[n].doubted /\ events[n][m] = << >>
  /\ node' = [node EXCEPT ![n].doubted = @ \ {m}, ![n].silent = @ \ {m}]
  /\ UNCHANGED <<link, broken, events, faults>>

-----------------------------------------------------------------------------
\* Frames: q handles what p sent it first.

First(p, q, type) == link[p][q] # << >> /\ Head(link[p][q]).type = type

\* handleJoinCluster.  A refusal names the leader q follows itself.
HandleJoin(p, q) ==
  /\ First(p, q, "join")
  /\ LET ok == Leads(node[q], q)
     IN  /\ node' = IF ok THEN [node EXCEPT ![q].attached = @ \cup {p}] ELSE node
         /\ link' = Sent(Taken(p, q), q, p,
                         [type |-> "ack", ok |-> ok, hint |-> node[q].leader,
                          current |-> Head(link[p][q]).current])
  /\ UNCHANGED <<broken, events, faults>>

\* handleJoinAck
HandleAck(p, q) ==
  /\ First(p, q, "ack")
  /\ LET f == Head(link[p][q])
         s == node[q]
     IN  IF f.current /\ s.leader = p /\ ~f.ok
         THEN Outcome(q, Evaluate(q, [s EXCEPT !.leader = None, !.rejections = @ + 1],
                                  s.leaders, f.hint, Taken(p, q)))
         ELSE node' = node /\ link' = Taken(p, q)
  /\ UNCHANGED <<broken, events, faults>>

\* beat.  Bound: one beat, or its ack, at a time.
Beat(p, q) ==
  /\ Leads(node[p], p) /\ q \in node[p].attached
  /\ ~InFlight(p, q, {"beat"}) /\ ~InFlight(q, p, {"beatAck"})
  /\ link' = Sent(link, p, q, [type |-> "beat"])
  /\ UNCHANGED <<node, broken, events, faults>>

\* handleHeartbeat: a beat clears the doubt that missing beats raised.
HandleBeat(p, q) ==
  /\ First(p, q, "beat")
  /\ \E o \in IF p \in node[q].silent
              THEN Settlements(q, [node[q] EXCEPT !.doubted = @ \ {p}, !.silent = @ \ {p}],
                               Taken(p, q))
              ELSE {[state |-> node[q], link |-> Taken(p, q)]} :
       /\ node' = [node EXCEPT ![q] = o.state]
       /\ link' = Sent(o.link, q, p, [type |-> "beatAck", observed |-> o.state.leader])
  /\ UNCHANGED <<broken, events, faults>>

\* The workers of q once p's ack said whom p follows.
AckedBy(s, q, p, observed) ==
  IF observed # q THEN s.attached \ {p}
  ELSE IF Leads(s, q) /\ p \notin s.claims THEN s.attached \cup {p}
  ELSE s.attached

\* handleHeartbeatAck
HandleBeatAck(p, q) ==
  /\ First(p, q, "beatAck")
  /\ node' = [node EXCEPT ![q].attached =
                AckedBy(node[q], q, p, Head(link[p][q]).observed)]
  /\ link' = Taken(p, q)
  /\ UNCHANGED <<broken, events, faults>>

\* Mutant of Voids: the leader's stepping down goes unnoticed.
NeverVoids(s, q, p, leads) == FALSE

\* voidAttachmentIfLeaderStepped: p no longer lists q.
Voids(s, q, p, leads) == s.leader = p /\ p \in s.claims /\ ~leads

\* handleMembershipDelta, for p's record of its own role.
HearClaim(p, q) ==
  /\ First(p, q, "claim")
  /\ LET leads == Head(link[p][q]).leads
         s == node[q]
     IN  IF leads = (p \in s.claims) THEN node' = node /\ link' = Taken(p, q)
         ELSE Outcome(q, Reevaluate(q,
                [s EXCEPT !.claims = IF leads THEN @ \cup {p} ELSE @ \ {p},
                          !.leader = IF Voids(s, q, p, leads) THEN None ELSE @],
                Taken(p, q)))
  /\ UNCHANGED <<broken, events, faults>>

Deliver(p, q) ==
  \/ HandleJoin(p, q) \/ HandleAck(p, q)
  \/ HandleBeat(p, q) \/ HandleBeatAck(p, q)
  \/ HearClaim(p, q)

-----------------------------------------------------------------------------
\* Silence and lost links.

Following(n) == node[n].leader \notin {None, n} /\ ~Leads(node[n], n)

\* Nothing is coming from the leader n counts beats of.
Unheard(n) ==
  /\ Following(n)
  /\ LET l == node[n].leader
     IN  /\ ~(Leads(node[l], l) /\ n \in node[l].attached /\ Connected(n, l))
         /\ ~InFlight(n, l, {"join", "beatAck"})
         /\ ~InFlight(l, n, {"ack", "beat"})

\* checkLeaderSilence, on the last tick it waits.  A leader that is only slow is
\* a fault.
Silence(n) ==
  /\ Following(n)
  /\ IF Unheard(n) THEN UNCHANGED faults ELSE Fault
  /\ LET l == node[n].leader
     IN  Outcome(n, Reevaluate(n, [node[n] EXCEPT !.leader = None,
                                                  !.doubted = @ \cup {l},
                                                  !.silent = @ \cup {l}], link))
  /\ UNCHANGED <<broken, events>>

\* Both transports lose the connection, and what was on it.
LinkLost(p, q) ==
  /\ p < q /\ Connected(p, q) /\ events[p][q] = << >> /\ events[q][p] = << >>
  /\ Fault
  /\ broken' = broken \cup {{p, q}}
  /\ link' = [link EXCEPT ![p][q] = << >>, ![q][p] = << >>]
  /\ events' = [events EXCEPT ![p][q] = <<"down">>, ![q][p] = <<"down">>]
  /\ UNCHANGED node

\* The pool redials.
Reconnected(p, q) ==
  /\ p < q /\ ~Connected(p, q)
  /\ broken' = broken \ {{p, q}}
  /\ events' = [events EXCEPT ![p][q] = Append(@, "up"), ![q][p] = Append(@, "up")]
  /\ UNCHANGED <<node, link, faults>>

\* handlePeerEvent, PeerDown of a link that broke.
PeerDown(n, m) ==
  /\ events[n][m] # << >> /\ Head(events[n][m]) = "down"
  /\ events' = [events EXCEPT ![n][m] = Tail(@)]
  /\ \E o \in Settlements(n, [node[n] EXCEPT !.attached = @ \ {m},
                                             !.doubted = @ \cup {m}], link) :
       Outcome(n, o)
  /\ UNCHANGED <<broken, faults>>

\* handlePeerEvent, PeerUp: the doubt is over, and the view goes out before n
\* evaluates.
PeerUp(n, m) ==
  /\ events[n][m] # << >> /\ Head(events[n][m]) = "up"
  /\ events' = [events EXCEPT ![n][m] = Tail(@)]
  /\ \E o \in Settlements(n, [node[n] EXCEPT !.doubted = @ \ {m}, !.silent = @ \ {m}],
                          [link EXCEPT ![n][m] = Append(@,
                             [type |-> "claim", leads |-> Leads(node[n], n)])]) :
       Outcome(n, o)
  /\ UNCHANGED <<broken, faults>>

-----------------------------------------------------------------------------
Next ==
  \/ \E n \in Node :
       \/ Elected(n)
       \/ \E elected \in SUBSET Node \ {{}} : Stray(n, elected)
       \/ \E measured \in Measures, answered \in SUBSET node[n].doubted :
            ProbeRound(n, measured, answered)
       \/ Silence(n)
  \/ \E p, q \in Node :
       \/ Refuted(p, q) \/ Deliver(p, q) \/ Beat(p, q)
       \/ LinkLost(p, q) \/ Reconnected(p, q) \/ PeerDown(p, q) \/ PeerUp(p, q)

Spec == Init /\ [][Next]_vars

\* n has yet to act on what its election says.
Undecided(n) == Evaluate(n, node[n], Leaders, None, link).state # node[n]

\* p owes q a beat.
BeatDue(p, q) ==
  /\ q \in node[p].attached /\ Connected(p, q)
  /\ ~InFlight(p, q, {"beat"}) /\ ~InFlight(q, p, {"beatAck"})

\* Weak fairness of the timers, of handling frames and events, of redialling and of
\* refuting, written out: each action, once it may be taken, is taken or overtaken,
\* and what it leaves is the state named here.  Probes measure something in the end.
Fairness ==
  /\ \A n \in Node :
       /\ []<>~Undecided(n)
       /\ []<>(/\ node[n].rejections = 0 /\ node[n].local # Unmeasured
               /\ node[n].doubted \subseteq node[n].silent)
  /\ \A p, q \in Node :
       /\ []<>(q \notin node[p].doubted)
       /\ []<>(link[p][q] = << >>) \/ []<><<Len(link'[p][q]) < Len(link[p][q])>>_link
       /\ []<>~BeatDue(p, q)
       /\ []<>(Connected(p, q) /\ events[p][q] = << >>)

LiveSpec == Spec /\ Fairness

-----------------------------------------------------------------------------
TypeOK ==
  /\ node \in [Node -> State] /\ \A n \in Node : n \notin node[n].attached
  /\ \A p, q \in Node : \A i \in DOMAIN link[p][q] : link[p][q][i] \in Frame
  /\ broken \subseteq {{p, q} : p, q \in Node}
  /\ \A n, m \in Node : events[n][m] \in {<< >>, <<"down">>, <<"up">>, <<"down", "up">>}
  /\ faults \in 0..MaxFaults

\* A node leads workers only while it acts on an election it won, and then it follows
\* nobody; and between two probe rounds a worker answers no more than MaxRejections
\* refusals with another JOIN, however the nodes it asks disagree (affinity.go,
\* node.go handleJoinAck).
RolesSound ==
  TypeOK /\ \A n \in Node :
    /\ IF Leads(node[n], n) THEN node[n].leader = n ELSE node[n].attached = {}
    /\ node[n].rejections <= MaxRejections + 1

\* A refusal is counted only as the answer to the last JOIN: no later JOIN to that
\* node is under way then, nor any later answer of it.
LastAnswerOnly ==
  [][\A p, q \in Node :
       /\ node[q].leader = p
       /\ node'[q].rejections > node[q].rejections
       => /\ ~InFlight(q, p, {"join"})
          /\ \A i \in DOMAIN link[p][q] \ {1} : link[p][q][i].type # "ack"]_vars

\* Everyone acts on Leaders, and a leader lists exactly the workers that follow it.
AllHomed ==
  \A n \in Node :
    /\ node[n].leaders = Leaders
    /\ n \notin Leaders => node[n].leader \in Leaders
    /\ n \in Leaders => node[n].attached = {w \in Node \ Leaders : node[w].leader = n}

\* Whatever strays, lost links and false silences came before, every worker ends up
\* with a leader that lists it and that no other leader lists, given that a worker that
\* hears nothing of its leader notices in the end; and without that, as long as nobody
\* doubts anybody: seats lost and won back are put right by claims, answers and acks
\* alone, and no worker is left waiting for beats that do not come.
Homed ==
  (\A n \in Node : []<>~Unheard(n)) \/ [](\A n \in Node : node[n].doubted = {})
    => <>[]AllHomed
=============================================================================
