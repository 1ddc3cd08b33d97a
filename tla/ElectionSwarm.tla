---------------------------- MODULE ElectionSwarm ----------------------------
(***************************************************************************)
(* Nodes that elect from their own view of the swarm.  Each writes only    *)
(* its own role, publishes it, and hears the others' claims late: that is  *)
(* what makes incumbency one fact everywhere (Node.evaluate).  Membership  *)
(* is abstracted to its outcome: a claim is heard or superseded, a doubt   *)
(* about a node that is down ends in its death, one about a running node   *)
(* is cleared.  One action is one loop event with the evaluate it ends in. *)
(***************************************************************************)
EXTENDS Election, Sequences

CONSTANTS Members,     \* how many nodes
          Scores,      \* what a probe round may measure
          Booted,      \* the scores of a node alone: 0, before its first round NoScore
          MaxLag,      \* claims of one node another may be behind; older are lost
          MaxMoves,    \* bound on score changes
          MaxFaults,   \* bound on crashes and doubts about running nodes
          MaxTroubles  \* bound on both together

Node == 1..Members

\* What the constants are; a module that instantiates this one assumes it.
SwarmAssumption ==
  /\ ElectionAssumption
  /\ Members \in Nat \ {0}
  /\ Scores \subseteq Int \cup {NoScore}
  /\ Booted # {} /\ Booted \subseteq {0, NoScore}
  /\ MaxLag \in Nat \ {0}
  /\ MaxMoves \in Nat
  /\ {MaxFaults, MaxTroubles} \subseteq Nat

VARIABLES up,       \* the running nodes
          view,     \* view[n]: n's table, in its own record the role it claims
          lag,      \* lag[n][m]: m's claims on their way to n, oldest first
          leaders,  \* leaders[n]: the outcome n acted on last (Node.leaders)
          moves,
          faults

vars == <<up, view, lag, leaders, moves, faults>>

Claim == [role: {"worker", "leader"}, score: Scores \cup Booted \cup {NoScore}]
Entry == [st: {"alive", "suspect", "dead"}, role: {"worker", "leader"},
          score: Scores \cup Booted \cup {NoScore}]

-----------------------------------------------------------------------------
Known(n) == DOMAIN view[n]

ClaimOf(entry) == [role |-> entry.role, score |-> entry.score]

\* Mutant of OwnRole: every member's role is written from the local result.
RoleForAll(n, row, elected) ==
  [m \in DOMAIN row |-> [row[m] EXCEPT !.role = RoleIn(elected, m)]]

\* evaluate: n's own role is written from its result, nobody else's.
OwnRole(n, row, elected) == [row EXCEPT ![n].role = RoleIn(elected, n)]

\* The claims a handler announces, in order: what it changed before its evaluate
\* (a new score), then a changed role.
Said(old, mid, new) ==
  (IF mid # old THEN <<mid>> ELSE << >>) \o (IF new # mid THEN <<new>> ELSE << >>)

\* A queue that is full loses its oldest: a later claim supersedes it.
Queued(queue, claims) ==
  LET q == queue \o claims
      extra == IF Len(q) > MaxLag THEN Len(q) - MaxLag ELSE 0
  IN  SubSeq(q, extra + 1, Len(q))

\* Every handler ends here: row is n's table before its evaluate, heard what is
\* left of the claims it had not heard.
Finish(n, row, heard) ==
  LET elected == Elect(row)
      last == OwnRole(n, row, elected)
      said == Said(ClaimOf(view[n][n]), ClaimOf(row[n]), ClaimOf(last[n]))
  IN  /\ view' = [view EXCEPT ![n] = last]
      /\ leaders' = [leaders EXCEPT ![n] = elected]
      /\ lag' = [q \in Node |-> [m \in Node |->
                   IF q = n THEN heard[m]
                   ELSE IF m = n THEN Queued(lag[q][n], said)
                   ELSE lag[q][m]]]

\* Everyone has booted alone (selfScore), elected itself and said so.
Init ==
  /\ up = Node
  /\ \E own \in [Node -> Booted] :
       /\ view = [n \in Node |-> [m \in {n} |->
                    [st |-> "alive", role |-> "leader", score |-> own[m]]]]
       /\ lag = [n \in Node |-> [m \in Node |->
                   IF m = n THEN << >> ELSE <<[role |-> "leader", score |-> own[m]]>>]]
  /\ leaders = [n \in Node |-> {n}]
  /\ moves = 0
  /\ faults = 0

Fault == faults < MaxFaults /\ moves + faults < MaxTroubles /\ faults' = faults + 1

\* PeerUp of a node never met: a worker until it says otherwise.
Meet(n, m) ==
  /\ n \in up /\ m \in up /\ m \notin Known(n)
  /\ Finish(n, [k \in Known(n) \cup {m} |->
                  IF k = m THEN [st |-> "alive", role |-> "worker", score |-> NoScore]
                  ELSE view[n][k]], lag[n])
  /\ UNCHANGED <<up, moves, faults>>

\* A delta with m's next claim, heard by a node that knows m.
Hear(n, m) ==
  /\ n \in up /\ lag[n][m] # << >> /\ m \in Known(n)
  /\ LET claim == Head(lag[n][m])
     IN  Finish(n, [view[n] EXCEPT ![m].role = claim.role, ![m].score = claim.score],
                [lag[n] EXCEPT ![m] = Tail(@)])
  /\ UNCHANGED <<up, moves, faults>>

\* updateSelfScore: announced only when it moved by the margin.
Moved(old, new) ==
  IF old # NoScore /\ new # NoScore
  THEN new # old /\ (new - old >= Margin \/ old - new >= Margin)
  ELSE new # old

Measure(n, s) ==
  /\ n \in up /\ moves < MaxMoves /\ moves + faults < MaxTroubles
  /\ Moved(view[n][n].score, s)
  /\ Finish(n, [view[n] EXCEPT ![n].score = s], lag[n])
  /\ moves' = moves + 1
  /\ UNCHANGED <<up, faults>>

Crash(m) ==
  /\ m \in up /\ Fault
  /\ up' = up \ {m}
  /\ UNCHANGED <<view, lag, leaders, moves>>

\* A missed probe or a lost link; about a running node it is a fault.
Doubt(n, m) ==
  /\ n \in up /\ m # n /\ m \in Known(n) /\ view[n][m].st = "alive"
  /\ IF m \in up THEN Fault ELSE UNCHANGED faults
  /\ Finish(n, [view[n] EXCEPT ![m].st = "suspect"], lag[n])
  /\ UNCHANGED <<up, moves>>

\* The doubt is confirmed, or answered.
Resolve(n, m) ==
  /\ n \in up /\ m \in Known(n) /\ view[n][m].st = "suspect"
  /\ Finish(n, [view[n] EXCEPT ![m].st = IF m \in up THEN "alive" ELSE "dead"], lag[n])
  /\ UNCHANGED <<up, moves, faults>>

Next ==
  \/ \E n, m \in Node : Meet(n, m) \/ Hear(n, m) \/ Doubt(n, m) \/ Resolve(n, m)
  \/ \E n \in Node, s \in Scores : Measure(n, s)
  \/ \E m \in Node : Crash(m)

Spec == Init /\ [][Next]_vars

-----------------------------------------------------------------------------
TypeOK ==
  /\ up \subseteq Node
  /\ DOMAIN view = Node
  /\ \A n \in Node : n \in Known(n) /\ Known(n) \subseteq Node
                     /\ view[n] \in [Known(n) -> Entry]
  /\ \A n, m \in Node : lag[n][m] \in Seq(Claim) /\ Len(lag[n][m]) <= MaxLag
  /\ leaders \in [Node -> SUBSET Node]
  /\ moves \in 0..MaxMoves
  /\ faults \in 0..MaxFaults

\* A step of the swarm itself is due.
Due ==
  \E n \in up, m \in Node :
    \/ m \in up \ Known(n)
    \/ m \in Known(n) /\ lag[n][m] # << >>
    \/ m \in Known(n) /\ view[n][m].st = "suspect"
    \/ m \in Known(n) \ up /\ view[n][m].st = "alive"

\* Weak fairness of those steps together: every action but they counts a move or
\* a fault.
LiveSpec == Spec /\ ([]<>~Due \/ []<><<UNCHANGED <<moves, faults>>>>_vars)

\* "N bootstrap claimants collapse to the deterministic tie-break everywhere"
\* (node.go, evaluate): however late the claims are heard, once scores and members
\* stop moving the running nodes end up acting on the same leaders, all of them
\* running and claiming it, and stay there.
OneAnswer == \A n, m \in up :
  /\ leaders[n] = leaders[m] /\ leaders[n] \subseteq up
  /\ n \in leaders[m] <=> view[n][n].role = "leader"
Agrees == <>[]OneAnswer
=============================================================================
