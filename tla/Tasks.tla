--------------------------------- MODULE Tasks ---------------------------------
(***************************************************************************)
(* Tasks and the replicated ledger of pkg/cluster (tasks.go,               *)
(* replication.go): submissions, assignments, results, snapshots, and what *)
(* becomes of pending tasks when a leader is demoted or dies, or a worker  *)
(* dies.  Of the election only the outcome is kept, which each node comes  *)
(* to act on by itself; JOINs keep what Attachment says of them, without   *)
(* hints and without the bound on rejections.  A heartbeat and its ack are *)
(* one step (Beat).  Terms and versions are exact.                         *)
(***************************************************************************)
EXTENDS Integers, FiniteSets, SequencesExt

CONSTANTS Node,          \* ids, ordered
          Task,          \* task ids
          Large,         \* tasks whose body is over maxRecordBody
          First,         \* the leader at the start
          LedgerSize,
          MaxInflight,   \* maxInflightTasks
          Eligible,      \* the nodes elections may choose
          MaxElections,  \* bound on changes of the elected set
          MaxCrashes,    \* bound on nodes that die
          MaxFaults,     \* bound on both, and on shed frames, together
          None

ASSUME TasksAssumption ==
  /\ Node \subseteq Nat /\ IsFiniteSet(Node) /\ First \in Node /\ None \notin Node
  /\ Large \subseteq Task /\ First \in Eligible /\ Eligible \subseteq Node
  /\ LedgerSize \in Nat \ {0} /\ MaxInflight \in Nat \ {0}
  /\ {MaxElections, MaxCrashes, MaxFaults} \subseteq Nat

VARIABLES node,       \* node[n]: the fields of n's loop, see State
          ctrl,       \* ctrl[p][q]: control frames from p to q, in order
          data,       \* data[p][q]: TASK and TASK_RESULT frames, in order
          up,         \* the nodes that run
          elected,    \* the outcome of the election
          submitted,  \* tasks the Control Center has submitted
          reported,   \* tasks some leader called OnTaskResult for
          elections, sheds

vars == <<node, ctrl, data, up, elected, submitted, reported, elections, sheds>>

\* A task as TASK frames carry it; whole: with the body it was submitted with.
Payload == [task: Task, whole: BOOLEAN]

\* to: whom the task is assigned to, once done who did it.
Record == [task: Task, done: BOOLEAN, to: Node \cup {None}, whole: BOOLEAN]

State == [leaders: SUBSET Node,     \* the result acted on last
          leader: Node \cup {None},
          waiting: BOOLEAN,         \* a JOIN is not answered
          attached: SUBSET Node,
          lost: SUBSET Node,        \* peers whose connection is known to be gone
          doubted: SUBSET Node,     \* first-hand suspicions
          dead: SUBSET Node,        \* members the table holds dead
          term: Nat,
          ledger: Seq(Record),
          version: Nat,             \* of the ledger: its own or a snapshot's
          held: BOOLEAN,            \* a snapshot of this attachment is held ...
          heldTerm: Nat,            \* ... with this term
          next: Nat,                \* the round-robin cursor
          reissueDue: BOOLEAN,
          handoff: Seq(Payload),
          running: SUBSET [task: Task, whole: BOOLEAN, origin: Node \cup {None}]]

CtrlFrame == [type: {"join"}, current: BOOLEAN]
               \cup [type: {"ack"}, ok: BOOLEAN, current: BOOLEAN]
               \cup [type: {"sync"}, term: Nat, version: Nat, ledger: Seq(Record)]

DataFrame == [type: {"task"}, task: Payload]
               \cup [type: {"result"}, task: Task, by: Node]

Leads(s, n) == n \in s.leaders

\* Sending fails once the sender knows the connection is gone.
Reaches(s, q) == q \notin s.lost

\* The fields of a node that knows of these leaders and follows leader.
Booted(leaders, leader) ==
  [leaders |-> leaders, leader |-> leader, waiting |-> FALSE, attached |-> {},
   lost |-> {}, doubted |-> {}, dead |-> {}, term |-> 1, ledger |-> << >>, version |-> 0,
   held |-> FALSE, heldTerm |-> 1, next |-> 0, reissueDue |-> FALSE, handoff |-> << >>,
   running |-> {}]

\* A settled swarm with nothing to do: every worker has JOINed First and holds
\* the empty ledger at the version its last JOIN made.
Init ==
  LET workers == Node \ {First}
      settled == [Booted({First}, First) EXCEPT !.version = Cardinality(workers)]
  IN  /\ node = [n \in Node |-> IF n = First THEN [settled EXCEPT !.attached = workers]
                                ELSE [settled EXCEPT !.held = TRUE]]
      /\ ctrl = [p \in Node |-> [q \in Node |-> << >>]]
      /\ data = [p \in Node |-> [q \in Node |-> << >>]]
      /\ up = Node /\ elected = {First}
      /\ submitted = {} /\ reported = {}
      /\ elections = 0 /\ sheds = 0

-----------------------------------------------------------------------------
\* What an event of n's loop comes to: n's fields, the links, what it reported.

Event(n) == [s |-> node[n], ctrl |-> ctrl, data |-> data, reported |-> {}]

MayFail == elections + Cardinality(Node \ up) + sheds < MaxFaults

\* A frame to a node that is down goes nowhere.
SentCtrl(e, n, q, f) == IF q \in up THEN [e EXCEPT !.ctrl[n][q] = Append(@, f)] ELSE e
SentData(e, n, q, f) == IF q \in up THEN [e EXCEPT !.data[n][q] = Append(@, f)] ELSE e

\* replica.changed.  What is dirty is what differs from before the event: see Flushed.
Changed(s) == [s EXCEPT !.version = @ + 1]

Snapshot(s) == [type |-> "sync", term |-> s.term, version |-> s.version, ledger |-> s.ledger]

\* sendSync.  A snapshot stands in for one right before it that is not yet read:
\* the link of a worker that reads keeps at most one.
SentSync(e, n) ==
  [e EXCEPT !.ctrl[n] = [q \in Node |->
     IF q \notin e.s.attached \cap up THEN @[q]
     ELSE IF @[q] # << >> /\ Last(@[q]).type = "sync" THEN Append(Front(@[q]), Snapshot(e.s))
     ELSE Append(@[q], Snapshot(e.s))]]

\* flushSync, after every event: a new roster is a new version, and a change of
\* anything the workers were last sent is sent.  A node just promoted has none.
Flushed(e, n) ==
  LET rostered == IF e.s.attached # node[n].attached THEN [e EXCEPT !.s = Changed(@)] ELSE e
      changed  == \/ rostered.s.version # node[n].version
                  \/ rostered.s.term # node[n].term
  IN  IF Leads(e.s, n) /\ Leads(node[n], n) /\ changed THEN SentSync(rostered, n)
      ELSE IF Leads(e.s, n) THEN rostered ELSE e

\* n's loop has handled an event; the environment has not moved.
Handled(n, e) ==
  LET f == Flushed(e, n)
  IN  /\ node' = [node EXCEPT ![n] = f.s]
      /\ ctrl' = f.ctrl /\ data' = f.data
      /\ reported' = reported \cup f.reported

-----------------------------------------------------------------------------
\* The ledger.

Holds(s, t) == \E i \in DOMAIN s.ledger : s.ledger[i].task = t
IndexOf(s, t) == CHOOSE i \in DOMAIN s.ledger : s.ledger[i].task = t

\* ledgerAppend: the oldest finished record makes room, or else the oldest.
LedgerAppend(s, r) ==
  LET finished == {i \in DOMAIN s.ledger : s.ledger[i].done}
      victim   == IF finished = {} THEN 1 ELSE CHOOSE i \in finished : \A j \in finished : i <= j
      kept     == IF Len(s.ledger) >= LedgerSize THEN RemoveAt(s.ledger, victim) ELSE s.ledger
  IN  Changed([s EXCEPT !.ledger = Append(kept, r)])

SetAssignee(s, t, w) ==
  IF Holds(s, t) /\ s.ledger[IndexOf(s, t)].to # w
  THEN Changed([s EXCEPT !.ledger[IndexOf(s, t)].to = w])
  ELSE s

\* The element of S, numbers, that has i below it in S.
Nth(S, i) == CHOOSE k \in S : Cardinality({j \in S : j < k}) = i

\* pendingTasks, of those who are among these: in the ledger's order.
PendingTasks(s, assignees) ==
  LET pending == {i \in DOMAIN s.ledger : ~s.ledger[i].done /\ s.ledger[i].to \in assignees}
      r(i)    == s.ledger[Nth(pending, i - 1)]
  IN  [i \in 1..Cardinality(pending) |-> [task |-> r(i).task, whole |-> r(i).whole]]

Anyone == Node \cup {None}

\* Mutant of MayComplete: any result that comes in is recorded.
AnyResult(s, n, t) == Leads(s, n) /\ Holds(s, t)

\* completeTask's early returns.
MayComplete(s, n, t) == Leads(s, n) /\ Holds(s, t) /\ ~s.ledger[IndexOf(s, t)].done

CompleteTask(e, n, t, by) ==
  LET i    == IndexOf(e.s, t)
      done == [e.s.ledger[i] EXCEPT !.done = TRUE, !.to = by, !.whole = FALSE]
  IN  IF MayComplete(e.s, n, t)
      THEN [e EXCEPT !.s = Changed([e.s EXCEPT !.ledger[i] = done]), !.reported = @ \cup {t}]
      ELSE e

\* sendResult: to the leader that assigned the task, else to the current one.
SendResult(e, n, to, t, by) ==
  LET result   == [type |-> "result", task |-> t, by |-> by]
      fallback == e.s.leader
  IN  CASE Reaches(e.s, to)                        -> SentData(e, n, to, result)
        [] ~Reaches(e.s, to) /\ fallback = n       -> CompleteTask(e, n, t, by)
        [] ~Reaches(e.s, to) /\ fallback \notin {n, None, to} /\ Reaches(e.s, fallback)
                                                   -> SentData(e, n, fallback, result)
        [] OTHER                                   -> e

\* handleTaskOutcome
TaskOutcome(e, n, origin, t) ==
  IF origin = None THEN CompleteTask(e, n, t, n) ELSE SendResult(e, n, origin, t, n)

\* launch: beyond MaxInflight the outcome is "busy", at once.
Launch(e, n, p, origin) ==
  IF Cardinality(e.s.running) >= MaxInflight
  THEN TaskOutcome(e, n, origin, p.task)
  ELSE [e EXCEPT !.s.running = @ \cup {[task |-> p.task, whole |-> p.whole, origin |-> origin]}]

\* assign: the next attached worker that a frame can be sent to, or n itself.
Assign(e, n, p) ==
  LET size    == Cardinality(e.s.attached)
      at(k)   == Nth(e.s.attached, (e.s.next + k) % size)
      takers  == {k \in 0..(size - 1) : Reaches(e.s, at(k))}
      k       == CHOOSE i \in takers : \A j \in takers : i <= j
      sent    == SentData(e, n, at(k), [type |-> "task", task |-> p])
      turned  == [e.s EXCEPT !.next = (@ + k + 1) % size]
  IN  IF takers = {}
      THEN Launch([e EXCEPT !.s = SetAssignee(@, p.task, n)], n, p, None)
      ELSE [sent EXCEPT !.s = SetAssignee(turned, p.task, at(k))]

AssignAll(e, n, payloads) ==
  LET after[i \in 0..Len(payloads)] ==
        IF i = 0 THEN e ELSE Assign(after[i - 1], n, payloads[i])
  IN  after[Len(payloads)]

\* Mutant of LeadTask: a task already in the ledger is recorded again.
LeadAgain(e, n, p) ==
  Assign([e EXCEPT !.s = LedgerAppend(@, [task |-> p.task, done |-> FALSE, to |-> None,
                                          whole |-> p.whole /\ p.task \notin Large])], n, p)

LeadTask(e, n, p) ==
  IF Holds(e.s, p.task) THEN e
  ELSE Assign([e EXCEPT !.s = LedgerAppend(@, [task |-> p.task, done |-> FALSE, to |-> None,
                                               whole |-> p.whole /\ p.task \notin Large])], n, p)

\* handleTask: what a TASK frame means depends on who sent it.
HandleTask(e, n, from, p) ==
  CASE from = e.s.leader /\ ~Leads(e.s, n)      -> Launch(e, n, p, from)
    [] Leads(e.s, n) /\ from \in e.s.attached   -> LeadTask(e, n, p)
    [] ~(from = e.s.leader /\ ~Leads(e.s, n)) /\ ~(Leads(e.s, n) /\ from \in e.s.attached) ->
         IF from \in e.s.leaders THEN Launch(e, n, p, from)
         ELSE IF Leads(e.s, n) THEN LeadTask(e, n, p) ELSE e

-----------------------------------------------------------------------------
\* Changes of role and of leader.

\* adoptOrphans: leaving a leader that failed, with what it had pending.
AdoptOrphans(s) == IF s.held THEN [s EXCEPT !.handoff = PendingTasks(s, Anyone)] ELSE s

\* Mutant of TasksRoleChanged: a demoted leader forgets its tasks.
ForgetsTasks(s, leading) == [s EXCEPT !.reissueDue = leading, !.handoff = << >>]

\* tasksRoleChanged: a new leader re-issues what it holds, a former one hands it off.
TasksRoleChanged(s, leading) ==
  [s EXCEPT !.reissueDue = leading, !.handoff = IF leading THEN << >> ELSE PendingTasks(s, Anyone)]

\* roleChanged, after an evaluate of a node that led or not: the session is over.
RoleChanged(s, n, led) ==
  IF led = Leads(s, n) THEN s
  ELSE TasksRoleChanged([s EXCEPT !.held = FALSE], Leads(s, n))

\* n JOINs anew: what it asked before, and the answers to that, are out of date.
Outdated(links, n) ==
  [p \in Node |-> [q \in Node |->
     IF n \notin {p, q} THEN links[p][q]
     ELSE [i \in DOMAIN links[p][q] |->
             LET f == links[p][q][i]
             IN  IF (p = n /\ f.type = "join") \/ (q = n /\ f.type = "ack")
                 THEN [f EXCEPT !.current = FALSE] ELSE f]]]

Join(e, n, l) ==
  SentCtrl([e EXCEPT !.s.leader = l, !.s.waiting = TRUE, !.ctrl = Outdated(@, n)],
           n, l, [type |-> "join", current |-> TRUE])

\* The fields of n, which a new result makes a leader.
Leading(s, n) ==
  [s EXCEPT !.leader = n,
            !.attached = {w \in @ : w \notin s.dead /\ ~(w \in up /\ Leads(node[w], w))}]

\* The fields of n, which follows: without a leader it cannot stay with.
Following(s, usable) ==
  LET left == IF s.leader \in s.doubted \cup s.dead THEN AdoptOrphans(s) ELSE s
  IN  IF s.leader # None /\ s.leader \notin usable
      THEN [left EXCEPT !.attached = {}, !.leader = None]
      ELSE [s EXCEPT !.attached = {}]

Usable(s, leaders) == leaders \ (s.doubted \cup s.dead)

\* Whom evaluate may JOIN, measured best: n stays with a leader it can use
\* unless the result is new, when the best may be another.
Candidates(e, n, leaders) ==
  LET usable == Usable(e.s, leaders)
  IN  IF n \in leaders THEN {None}
      ELSE IF e.s.leader \notin usable THEN IF usable = {} THEN {None} ELSE usable
      ELSE {None} \cup IF leaders # e.s.leaders THEN usable \ {e.s.leader} ELSE {}

\* evaluate: n acts on a result and JOINs best, if there is one.
Evaluate(e, n, leaders, best) ==
  LET led  == Leads(e.s, n)
      new  == [e.s EXCEPT !.leaders = leaders,
                          !.term = IF leaders = e.s.leaders THEN @ ELSE @ + 1]
      role == [e EXCEPT !.s = IF n \in leaders THEN Leading(new, n)
                              ELSE Following(new, Usable(new, leaders))]
      to   == IF best = None THEN role ELSE Join(role, n, best)
  IN  [to EXCEPT !.s = RoleChanged(@, n, led)]

\* What the election comes to in n's table: a dead leader keeps its seat there
\* until the table holds it dead.
Result(s) == IF (s.leaders \ elected) \ up \subseteq s.dead THEN elected ELSE s.leaders

\* n handles an event that ends in an evaluate.
Evaluates(n, e) ==
  \E best \in Candidates(e, n, Result(e.s)) : Handled(n, Evaluate(e, n, Result(e.s), best))

\* handOff: the frames to the leader that accepted n.
HandOff(e, n) ==
  LET to     == e.s.leader
      frames == [i \in DOMAIN e.s.handoff |-> [type |-> "task", task |-> e.s.handoff[i]]]
      sent   == IF Reaches(e.s, to) /\ to \in up THEN [e EXCEPT !.data[n][to] = @ \o frames]
                ELSE e
  IN  [sent EXCEPT !.s.handoff = << >>]

-----------------------------------------------------------------------------
\* The steps of a node.

\* SubmitTask
Submit(n, t) ==
  /\ n \in up /\ t \notin submitted
  /\ submitted' = submitted \cup {t}
  /\ LET p  == [task |-> t, whole |-> TRUE]
         e  == Event(n)
         to == e.s.leader
     IN  IF Leads(e.s, n) THEN Handled(n, LeadTask(e, n, p))
         ELSE IF to # None /\ Reaches(e.s, to)
              THEN Handled(n, SentData(e, n, to, [type |-> "task", task |-> p]))
         ELSE UNCHANGED <<node, ctrl, data, reported>>
  /\ UNCHANGED <<up, elected, elections, sheds>>

\* There is something for evaluate to do: a result to act on, a leader to JOIN, a
\* worker to drop.
Unsettled(n) ==
  \/ node[n].leaders # Result(node[n])
  \/ node[n].leader \notin Usable(node[n], node[n].leaders) /\ Usable(node[n], node[n].leaders) # {}
  \/ Leads(node[n], n) /\ Leading(node[n], n) # node[n]

\* evaluate on a tick or on gossip.
Reevaluate(n) ==
  /\ n \in up /\ Unsettled(n)
  /\ Evaluates(n, Event(n))
  /\ UNCHANGED <<up, elected, submitted, elections, sheds>>

\* controlTick of a leader: reissueIfDue.
ReissueIfDue(n) ==
  /\ n \in up /\ Leads(node[n], n) /\ node[n].reissueDue
  /\ LET e == Event(n)
     IN  Handled(n, AssignAll([e EXCEPT !.s.reissueDue = FALSE], n, PendingTasks(e.s, Anyone)))
  /\ UNCHANGED <<up, elected, submitted, elections, sheds>>

\* Workers that n lists and that follow another.
Strays(n) == {w \in node[n].attached \cap up : node[w].leader # n}

\* beat and the ack of a worker that follows another: terms meet and n drops it.
\* The beats in between, which could only have carried terms, are left out.
Beat(n, w) ==
  /\ n \in up /\ Leads(node[n], n) /\ w \in Strays(n)
  /\ LET most == IF node[n].term > node[w].term THEN node[n].term ELSE node[w].term
         f    == Flushed([Event(n) EXCEPT !.s.term = most, !.s.attached = @ \ {w}], n)
     IN  /\ node' = [node EXCEPT ![n] = f.s, ![w].term = most]
         /\ ctrl' = f.ctrl
  /\ UNCHANGED <<data, up, elected, submitted, reported, elections, sheds>>

\* Workers of n without its ledger and with no snapshot to read.
Lacking(n) ==
  {w \in node[n].attached \cap up :
     /\ ~node[w].held \/ node[w].leader # n \/ node[w].version # node[n].version
     /\ \A i \in DOMAIN ctrl[n][w] : ctrl[n][w][i].type # "sync"}

\* periodicSync, when it may do something.
PeriodicSync(n) ==
  /\ n \in up /\ Leads(node[n], n) /\ Lacking(n) # {}
  /\ ctrl' = SentSync(Event(n), n).ctrl
  /\ UNCHANGED <<node, data, up, elected, submitted, reported, elections, sheds>>

FinishTask(n, r) ==
  /\ n \in up /\ r \in node[n].running
  /\ Handled(n, TaskOutcome([Event(n) EXCEPT !.s.running = @ \ {r}], n, r.origin, r.task))
  /\ UNCHANGED <<up, elected, submitted, elections, sheds>>

-----------------------------------------------------------------------------
\* Frames.

TakenCtrl(p, n) == [ctrl EXCEPT ![p][n] = Tail(@)]
TakenData(p, n) == [data EXCEPT ![p][n] = Tail(@)]

\* handleJoinCluster
HandleJoin(e, n, w, f) ==
  LET s == IF Leads(e.s, n) THEN [e.s EXCEPT !.attached = @ \cup {w}] ELSE e.s
  IN  SentCtrl([e EXCEPT !.s = s], n, w,
               [type |-> "ack", ok |-> Leads(e.s, n), current |-> f.current])

\* Mutant of NewSession: a new attachment keeps the key of the last one.
OldSession(s) == s

\* What a new attachment means to the replica.
NewSession(s) == [s EXCEPT !.held = FALSE]

\* handleJoinAck: an acceptance.  A refusal ends in an evaluate: see TakeCtrl.
HandleAck(e, n, from) ==
  HandOff([e EXCEPT !.s = NewSession([@ EXCEPT !.waiting = FALSE])], n)

\* newerSnapshot
Newer(s, f) == \/ f.term > s.heldTerm
               \/ f.term = s.heldTerm /\ f.version > s.version

\* handleStateSync
HandleSync(s, n, from, f) ==
  LET heard == [s EXCEPT !.term = IF f.term > @ THEN f.term ELSE @]
      extra == Len(f.ledger) - LedgerSize
  IN  IF Leads(s, n) \/ from # s.leader THEN s
      ELSE IF s.held /\ ~Newer(s, f) THEN heard
      ELSE [heard EXCEPT !.ledger = IF extra > 0 THEN SubSeq(f.ledger, extra + 1, Len(f.ledger))
                                    ELSE f.ledger,
                         !.version = f.version, !.heldTerm = f.term, !.held = TRUE]

TakeCtrl(n, p) ==
  /\ n \in up /\ ctrl[p][n] # << >>
  /\ LET f == Head(ctrl[p][n])
         e == [Event(n) EXCEPT !.ctrl = TakenCtrl(p, n)]
         answered == f.type = "ack" /\ f.current /\ e.s.waiting /\ e.s.leader = p
     IN  \/ f.type = "join" /\ Handled(n, HandleJoin(e, n, p, f))
         \/ f.type = "sync" /\ Handled(n, [e EXCEPT !.s = HandleSync(@, n, p, f)])
         \/ answered /\ f.ok /\ Handled(n, HandleAck(e, n, p))
         \/ /\ answered /\ ~f.ok
            /\ Evaluates(n, [e EXCEPT !.s.waiting = FALSE, !.s.leader = None])
         \/ f.type = "ack" /\ ~answered /\ Handled(n, e)
  /\ UNCHANGED <<up, elected, submitted, elections, sheds>>

TakeData(n, p) ==
  /\ n \in up /\ data[p][n] # << >>
  /\ LET f == Head(data[p][n])
         e == [Event(n) EXCEPT !.data = TakenData(p, n)]
     IN  Handled(n, IF f.type = "task" THEN HandleTask(e, n, p, f.task)
                    ELSE CompleteTask(e, n, f.task, f.by))
  /\ UNCHANGED <<up, elected, submitted, elections, sheds>>

\* The inbound data queue is full.
Shed(n, p) ==
  /\ n \in up /\ data[p][n] # << >> /\ MayFail
  /\ sheds' = sheds + 1
  /\ data' = TakenData(p, n)
  /\ UNCHANGED <<node, ctrl, up, elected, submitted, reported, elections>>

-----------------------------------------------------------------------------
\* Deaths, and elections.

Without(links, n) ==
  [p \in Node |-> [q \in Node |-> IF n \in {p, q} THEN << >> ELSE links[p][q]]]

\* A node dies, for good: nothing is left of what it held and had sent.
Crash(n) ==
  /\ n \in up /\ Cardinality(Node \ up) < MaxCrashes /\ MayFail
  /\ up' = up \ {n}
  /\ node' = [node EXCEPT ![n] = Booted({}, None)]
  /\ ctrl' = Without(ctrl, n) /\ data' = Without(data, n)
  /\ UNCHANGED <<elected, submitted, reported, elections, sheds>>

\* handlePeerEvent, a connection that broke: m is suspected.
PeerDown(n, m) ==
  /\ n \in up /\ m \notin up \cup node[n].lost
  /\ LET e == [Event(n) EXCEPT !.s.attached = @ \ {m}, !.s.lost = @ \cup {m}]
     IN  IF m \in e.s.dead THEN Handled(n, e)
         ELSE Evaluates(n, [e EXCEPT !.s.doubted = @ \cup {m}])
  /\ UNCHANGED <<up, elected, submitted, elections, sheds>>

\* reassignFrom
ReassignFrom(e, n, w) ==
  IF ~Leads(e.s, n) THEN e
  ELSE AssignAll(e, n, PendingTasks(e.s, {w}))

\* expireSuspicions: markDead, unless gossip has been faster.
Confirm(n, m) ==
  /\ n \in up /\ m \in node[n].doubted
  /\ LET e == [Event(n) EXCEPT !.s.doubted = @ \ {m}]
     IN  IF m \in e.s.dead THEN Handled(n, e)
         ELSE Evaluates(n, ReassignFrom([e EXCEPT !.s.attached = @ \ {m},
                                                  !.s.dead = @ \cup {m}], n, m))
  /\ UNCHANGED <<up, elected, submitted, elections, sheds>>

\* handleMembershipDelta: n hears of a death some other node has confirmed.
HearDeath(n, m) ==
  /\ n \in up /\ m \notin node[n].dead
  /\ \E k \in up : m \in node[k].dead
  /\ Evaluates(n, [Event(n) EXCEPT !.s.dead = @ \cup {m}])
  /\ UNCHANGED <<up, elected, submitted, elections, sheds>>

Elect ==
  /\ elected' \in SUBSET (Eligible \cap up) \ {{}, elected}
  /\ IF elected \cap up = {} THEN UNCHANGED elections
     ELSE elections < MaxElections /\ MayFail /\ elections' = elections + 1
  /\ UNCHANGED <<node, ctrl, data, up, submitted, reported, sheds>>

Next ==
  \/ \E n \in Node :
       \/ \E t \in Task : Submit(n, t)
       \/ Reevaluate(n) \/ ReissueIfDue(n) \/ PeriodicSync(n) \/ Crash(n)
       \/ \E r \in node[n].running : FinishTask(n, r)
       \/ \E m \in Node : \/ Beat(n, m) \/ TakeCtrl(n, m) \/ TakeData(n, m) \/ Shed(n, m)
                          \/ PeerDown(n, m) \/ Confirm(n, m) \/ HearDeath(n, m)
  \/ Elect

Unnoticed(n) ==
  {m \in Node \ up : m \notin node[n].dead \cap node[n].lost \/ m \in node[n].doubted}

Due(n) == n \in up /\
  \/ Unsettled(n)
  \/ Leads(node[n], n) /\ (node[n].reissueDue \/ Strays(n) # {} \/ Lacking(n) # {})
  \/ Unnoticed(n) # {} \/ node[n].running # {}
  \/ \E p \in Node : ctrl[p][n] # << >> \/ data[p][n] # << >>

\* The loops keep up with what is due, and the swarm elects a leader when it has none.
Fairness == (\A n \in Node : []<>~Due(n)) /\ []<>(elected \cap up # {})

Spec == Init /\ [][Next]_vars /\ Fairness

\* Spec, and a leader's ticks one by one: that of controlTick, that of periodicSync.
TickingSpec ==
  Spec /\ \A n \in Node : WF_vars(ReissueIfDue(n)) /\ WF_vars(PeriodicSync(n))

-----------------------------------------------------------------------------
\* Properties.

\* The fields stay within their types.
TypeOK ==
  /\ \A n \in Node :
       LET s == node[n]
       IN  /\ {s.leader} \subseteq Node \cup {None}
           /\ s.leaders \cup s.attached \cup s.lost \cup s.doubted \cup s.dead \subseteq Node
           /\ {s.term, s.version, s.heldTerm, s.next} \subseteq Nat
           /\ {s.waiting, s.held, s.reissueDue} \subseteq BOOLEAN
           /\ Range(s.ledger) \subseteq Record /\ Len(s.ledger) <= LedgerSize
           /\ Range(s.handoff) \subseteq Payload
           /\ Cardinality(s.running) <= MaxInflight
  /\ submitted \subseteq Task /\ reported \subseteq submitted

\* No ledger records a task twice, however often it is submitted, handed off and
\* re-issued (leadTask).
LedgerUnique == \A n \in Node : \A i, j \in DOMAIN node[n].ledger :
                  node[n].ledger[i].task = node[n].ledger[j].task => i = j

Attached(w, l) == w \in up /\ node[w].leader = l /\ ~node[w].waiting /\ node[w].held

\* A replica with the key of its leader's ledger is that ledger: a key that the
\* leader has reached never names anything else to a worker (handleStateSync).
SameKeySameLedger ==
  \A l \in up : \A w \in up \ {l} :
    Attached(w, l) /\ Leads(node[l], l) /\ ~Leads(node[w], w)
      /\ node[w].version = node[l].version /\ node[w].heldTerm = node[l].term
      => node[w].ledger = node[l].ledger

\* While a node leads, a finished record keeps its first result (completeTask).
FirstKept ==
  [][\A n \in up : Leads(node[n], n) /\ Leads(node'[n], n) =>
       \A i \in DOMAIN node[n].ledger : node[n].ledger[i].done =>
         \A j \in DOMAIN node'[n].ledger :
           node'[n].ledger[j].task = node[n].ledger[i].task => node'[n].ledger[j] = node[n].ledger[i]]_vars

\* What every ledger keeps to.
LedgersSound == TypeOK /\ LedgerUnique /\ SameKeySameLedger

Calm == up = Node /\ sheds = 0

\* A leader has recorded the task, and nothing has failed.
Recorded(t) == Calm /\ \E n \in up : Leads(node[n], n) /\ Holds(node[n], t)

\* The task was pending in a replica of a leader that died, and nothing was shed.
Orphaned(t) ==
  sheds = 0 /\ \E l \in Node \ up, w \in up :
                 Attached(w, l) /\ \E i \in DOMAIN node[w].ledger :
                                     node[w].ledger[i].task = t /\ ~node[w].ledger[i].done

\* Without deaths and sheds, a task that a leader has recorded is reported,
\* whichever elections follow: handed off, re-issued or still running.  A task that
\* was pending in a replica of a leader that died is reported, when nothing is shed:
\* the worker carries it to its next leader, or leads itself.
RecordedReported ==
  \A t \in Task :
    /\ Recorded(t) ~> (t \in reported \/ ~Calm)
    /\ Orphaned(t) ~> (t \in reported \/ sheds > 0)

\* A worker comes to hold the ledger of the leader it follows, again and again
\* as long as it follows it, whatever snapshots were not for it to take.
ReplicaCatchesUp ==
  []<>(\A l, w \in up : node[w].leader = l /\ Leads(node[l], l) /\ ~Leads(node[w], w)
         => node[w].ledger = node[l].ledger)

\* tasks.go:303, "reassignFrom re-assigns the pending tasks of a worker that has
\* died or left": a leader's pending task does not stay with a worker it holds dead.
DeadWorkersTasksMove ==
  \A n, m \in Node :
    LET stuck == /\ n \in up /\ Leads(node[n], n) /\ m \in node[n].dead
                 /\ \E i \in DOMAIN node[n].ledger : ~node[n].ledger[i].done /\ node[n].ledger[i].to = m
    IN  stuck ~> ~stuck
=============================================================================
