----------------------------- MODULE CenterTasks -----------------------------
(***************************************************************************)
(* Tasks submitted through the control center: the hub's window of tasks,  *)
(* the TASK frames to nodes that report themselves leader, the swarm that  *)
(* runs them (modelled by what Tasks.tla establishes of it: an accepted    *)
(* task is reported at least once, by any node that came to lead it), and  *)
(* the TASK_RESULTs that come back over links that end, are replaced and   *)
(* come back. The control center keeps its tasks in memory only and counts *)
(* their ids from 1 each time it starts.                                   *)
(***************************************************************************)
EXTENDS CenterLinks, Sequences, SequencesExt

CONSTANTS
  MaxSubmits,    \* bound: tasks the operator submits
  MaxTasks,      \* the hub's window of tasks
  ResultBuffer,  \* results a node holds while its link is down
  MaxReports     \* bound: how often the swarm reports one task

ASSUME TasksAssumption ==
  /\ MaxTasks \in Nat \ {0} /\ ResultBuffer \in Nat \ {0}
  /\ MaxSubmits \in Nat /\ MaxReports \in Nat \ {0}

VARIABLES
  leads,     \* leads[n]: the role node n would report now
  toCenter,  \* toCenter[n][g]: frames written to socket g, in order
  toNode,    \* toNode[n]: frames on their way to node n
  pending,   \* pending[n]: results held while the link is down
  tasks,     \* the hub's window, newest last
  nextTask,  \* the hub's id counter
  rr,        \* the hub's round-robin counter
  submits,   \* submits spent
  accepted,  \* the submissions a leader of the swarm recorded
  reports,   \* reports[i]: how often the swarm reported submission i
  lost       \* ghost: submissions a frame or a buffered result of which was lost

taskVars == <<leads, toCenter, toNode, pending, tasks, nextTask, rr, submits,
              accepted, reports, lost>>
vars == <<linkVars, taskVars>>

\* One submission: the id it got, and which life of the control center gave it.
Run == [id : 1..MaxSubmits, life : 0..MaxRestarts]

Result == [kind : {"result"}, run : Run, ok : BOOLEAN]
Report == [kind : {"telemetry"}, role : {"worker", "leader"}]
Order == [kind : {"task"}, run : Run, link : Link] \union [kind : {"kill"}, link : Link]
Entry == [run : Run, leader : Node, state : {"pending", "done", "failed"}]

TypeOK ==
  /\ LinksTypeOK
  /\ leads \in [Node -> BOOLEAN]
  /\ \A n \in Node : \A g \in Link :
       \A k \in DOMAIN toCenter[n][g] : toCenter[n][g][k] \in Result \union Report
  /\ \A n \in Node : toNode[n] \subseteq Order
  /\ \A n \in Node : Len(pending[n]) <= ResultBuffer
                     /\ \A k \in DOMAIN pending[n] : pending[n][k] \in Result
  /\ Len(tasks) <= MaxTasks /\ \A k \in DOMAIN tasks : tasks[k] \in Entry
  /\ nextTask \in 0..MaxSubmits /\ rr \in 0..MaxSubmits /\ submits \in 0..MaxSubmits
  /\ accepted \subseteq Run /\ reports \in [Run -> 0..MaxReports] /\ lost \subseteq Run

Init ==
  /\ LinksInit
  /\ leads \in [Node -> BOOLEAN]
  /\ toCenter = [n \in Node |-> [g \in Link |-> <<>>]]
  /\ toNode = [n \in Node |-> {}]
  /\ pending = [n \in Node |-> <<>>]
  /\ tasks = <<>> /\ nextTask = 0 /\ rr = 0 /\ submits = 0
  /\ accepted = {} /\ reports = [i \in Run |-> 0] /\ lost = {}

(* ----------------------------- The node side ---------------------------- *)

Outcome(i, ok) == [kind |-> "result", run |-> i, ok |-> ok]
RoleOf(n) == IF leads[n] THEN "leader" ELSE "worker"
Sample(n) == [kind |-> "telemetry", role |-> RoleOf(n)]
RunsIn(frames) == {frames[k].run : k \in {j \in DOMAIN frames : frames[j].kind = "result"}}

\* A send on the uplink: what is written to a socket the other end has left is lost.
Write(n, frames) ==
  LET g == uplink[n] IN
    IF g # 0 /\ sock[n][g].live
    THEN /\ toCenter' = [toCenter EXCEPT ![n][g] = @ \o frames]
         /\ UNCHANGED lost
    ELSE /\ lost' = lost \union RunsIn(frames)
         /\ UNCHANGED toCenter

\* PeerUp: a sample at once, then the results held while the link was down.
Connects(n, g) ==
  /\ Dial(n, g)
  /\ toCenter' = [toCenter EXCEPT ![n][g] = <<Sample(n)>> \o pending[n]]
  /\ pending' = [pending EXCEPT ![n] = <<>>]
  /\ UNCHANGED <<leads, toNode, tasks, nextTask, rr, submits, accepted, reports, lost>>

\* The telemetry tick; a sample that repeats what the hub holds changes nothing.
SendTelemetry(n) ==
  LET g == uplink[n]
      said == SelectSeq(toCenter[n][g], LAMBDA f : f.kind = "telemetry") IN
    /\ g # 0
    /\ RoleOf(n) # IF said # <<>> THEN Last(said).role ELSE entry[n].role
    /\ Write(n, <<Sample(n)>>)
    /\ UNCHANGED <<linkVars, leads, toNode, pending, tasks, nextTask, rr, submits,
                   accepted, reports>>

RoleChanges(n) ==
  /\ Fault
  /\ leads' = [leads EXCEPT ![n] = ~@]
  /\ UNCHANGED <<running, uplink, sock, entry, news, restarts, toCenter, toNode,
                 pending, tasks, nextTask, rr, submits, accepted, reports, lost>>

\* A TASK reaches SubmitTask: recorded, or ignored because a leader holds the id.
Submitted(n, f) ==
  /\ f \in toNode[n] /\ f.kind = "task" /\ running[n]
  /\ toNode' = [toNode EXCEPT ![n] = @ \ {f}]
  /\ \/ accepted' = accepted \union {f.run}
     \/ /\ \E i \in accepted : i.id = f.run.id
        /\ UNCHANGED accepted
  /\ UNCHANGED <<linkVars, leads, toCenter, pending, tasks, nextTask, rr, submits,
                 reports, lost>>

\* SubmitTask fails or times out, when the loop may still record it: the node
\* says so, or, with its link down, cannot.
Refused(n, f) ==
  /\ f \in toNode[n] /\ f.kind = "task" /\ running[n]
  /\ toNode' = [toNode EXCEPT ![n] = @ \ {f}]
  /\ accepted' \in {accepted, accepted \union {f.run}}
  /\ Write(n, <<Outcome(f.run, FALSE)>>)
  /\ UNCHANGED <<linkVars, leads, pending, tasks, nextTask, rr, submits, reports>>

\* OnTaskResult on a node that leads a recorded task: sent, or held while the
\* link is down, the oldest making room.
Reports(n, i) ==
  /\ running[n] /\ i \in accepted /\ reports[i] < MaxReports
  /\ reports' = [reports EXCEPT ![i] = @ + 1]
  /\ IF uplink[n] # 0
     THEN Write(n, <<Outcome(i, TRUE)>>) /\ UNCHANGED pending
     ELSE LET full == Len(pending[n]) = ResultBuffer IN
            /\ pending' = [pending EXCEPT ![n] =
                 Append(IF full THEN Tail(@) ELSE @, Outcome(i, TRUE))]
            /\ lost' = IF full THEN lost \union {pending[n][1].run} ELSE lost
            /\ UNCHANGED toCenter
  /\ UNCHANGED <<linkVars, leads, toNode, tasks, nextTask, rr, submits, accepted>>

Orders(n) == {f.run : f \in {o \in toNode[n] : o.kind = "task"}}

\* What a process takes with it: unread orders and held results.
Forgets(n) ==
  /\ lost' = lost \union Orders(n) \union RunsIn(pending[n])
  /\ toNode' = [toNode EXCEPT ![n] = {}]
  /\ pending' = [pending EXCEPT ![n] = <<>>]
  /\ UNCHANGED <<leads, toCenter, tasks, nextTask, rr, submits, accepted, reports>>

Crashes(n) == Crash(n) /\ Forgets(n)

\* CHAOS kill is obeyed: the process exits abruptly.
Killed(n, f) ==
  /\ f \in toNode[n] /\ f.kind = "kill" /\ running[n]
  /\ running' = [running EXCEPT ![n] = FALSE]
  /\ uplink' = [uplink EXCEPT ![n] = 0]
  /\ Forgets(n)
  /\ UNCHANGED <<sock, entry, news, faults, restarts>>

\* A frame sent over a link the node has left may never be read.
LosesOrder(n, f) ==
  /\ f \in toNode[n] /\ f.link # uplink[n]
  /\ toNode' = [toNode EXCEPT ![n] = @ \ {f}]
  /\ lost' = IF f.kind = "task" THEN lost \union {f.run} ELSE lost
  /\ UNCHANGED <<linkVars, leads, toCenter, pending, tasks, nextTask, rr, submits,
                 accepted, reports>>

(* ------------------------------- The hub -------------------------------- *)

\* Mutant of Settled: a task that is no longer pending is settled again.
SettledAgain(ts, r) ==
  [k \in DOMAIN ts |->
     IF ts[k].run.id # r.run.id THEN ts[k]
     ELSE [ts[k] EXCEPT !.state = IF r.ok THEN "done" ELSE "failed"]]

\* applyResult: the result is matched by id, and the first one wins.
Settled(ts, r) ==
  [k \in DOMAIN ts |->
     IF ts[k].run.id # r.run.id \/ ts[k].state # "pending" THEN ts[k]
     ELSE [ts[k] EXCEPT !.state = IF r.ok THEN "done" ELSE "failed"]]

\* Mutant of MayPost: frames are posted before connUp is.
MayPostEarly(s) == s.stage \in {"queued", "seen"}

\* serveNode holds the frames of a socket back until connUp is posted.
MayPost(s) == s.stage = "seen"

\* onFrame: the frames of a replaced link are dropped.
Frame(n, g) ==
  /\ MayPost(sock[n][g]) /\ toCenter[n][g] # <<>>
  /\ LET f == Head(toCenter[n][g])
         current == entry[n].link = g IN
       /\ toCenter' = [toCenter EXCEPT ![n][g] = Tail(@)]
       /\ entry' = IF current /\ f.kind = "telemetry"
                   THEN [entry EXCEPT ![n].role = f.role] ELSE entry
       /\ tasks' = IF current /\ f.kind = "result" THEN Settled(tasks, f) ELSE tasks
       /\ lost' = IF f.kind = "result" /\ ~current /\ ~sock[n][g].live
                  THEN lost \union {f.run} ELSE lost
  /\ UNCHANGED <<running, uplink, sock, news, faults, restarts, leads, toNode, pending,
                 nextTask, rr, submits, accepted, reports>>

Registers(n, g) == ConnUp(n, g) /\ UNCHANGED taskVars

\* What was not read of a socket when it ended is lost.
Ends(n, g) ==
  /\ ConnDown(n, g)
  /\ toCenter' = [toCenter EXCEPT ![n][g] = <<>>]
  /\ lost' = lost \union RunsIn(toCenter[n][g])
  /\ UNCHANGED <<leads, toNode, pending, tasks, nextTask, rr, submits, accepted, reports>>

\* leaders: connected nodes that report role leader; they take turns in the order of
\* their ids.
LeadersNow == {n \in Node : Connected(n) /\ entry[n].role = "leader"}

\* A TASK the link does not take fails its task at once.
SendFails(t) == [t EXCEPT !.state = "failed"]

\* addTask: the oldest task leaves a full window.
Added(ts, t) ==
  SubSeq(Append(ts, t), IF Len(ts) = MaxTasks THEN 2 ELSE 1, Len(ts) + 1)

\* submitTasks, one task: a fresh id and the next leader. The link may shed
\* the frame; a dead one cannot take it.
Submit ==
  /\ submits < MaxSubmits /\ submits' = submits + 1
  /\ \E leader \in LeadersNow :
       /\ Cardinality({n \in LeadersNow : n < leader}) = rr % Cardinality(LeadersNow)
       /\ LET i == [id |-> nextTask + 1, life |-> restarts]
              g == entry[leader].link
              t == [run |-> i, leader |-> leader, state |-> "pending"] IN
            \/ /\ sock[leader][g].live
               /\ tasks' = Added(tasks, t)
               /\ toNode' = [toNode EXCEPT ![leader] =
                               @ \union {[kind |-> "task", run |-> i, link |-> g]}]
            \/ /\ tasks' = Added(tasks, SendFails(t))
               /\ UNCHANGED toNode
  /\ nextTask' = nextTask + 1 /\ rr' = rr + 1
  /\ UNCHANGED <<linkVars, leads, toCenter, pending, accepted, reports, lost>>

\* chaos kill: marked, and sent on a goroutine of its own.
ChaosKill(n) ==
  /\ Fault /\ MarkKilled(n)
  /\ toNode' = [toNode EXCEPT ![n] = @ \union {[kind |-> "kill", link |-> entry[n].link]}]
  /\ UNCHANGED <<running, uplink, sock, news, restarts, leads, toCenter, pending,
                 tasks, nextTask, rr, submits, accepted, reports, lost>>

Expire ==
  /\ \E gone \in SUBSET Node : gone # {} /\ Expired(gone)
  /\ UNCHANGED <<running, uplink, sock, news, faults, restarts, taskVars>>

\* The control center keeps tasks in memory only, and counts ids from 1 again.
CenterRestarts ==
  /\ CenterRestart
  /\ tasks' = <<>> /\ nextTask' = 0 /\ rr' = 0
  /\ toCenter' = [n \in Node |-> [g \in Link |-> <<>>]]
  /\ lost' = lost \union UNION {RunsIn(toCenter[n][g]) : n \in Node, g \in Link}
  /\ UNCHANGED <<leads, toNode, pending, submits, accepted, reports>>

Next ==
  \/ \E n \in Node :
       \/ \E g \in Link : Connects(n, g) \/ Registers(n, g) \/ Frame(n, g) \/ Ends(n, g)
       \/ /\ (\E g \in Link : CenterDrops(n, g)) \/ NodeDrops(n) \/ Restart(n)
          /\ UNCHANGED taskVars
       \/ SendTelemetry(n) \/ RoleChanges(n) \/ Crashes(n) \/ ChaosKill(n)
       \/ \E f \in toNode[n] : \/ Submitted(n, f) \/ Refused(n, f)
                               \/ Killed(n, f) \/ LosesOrder(n, f)
       \/ \E i \in accepted : Reports(n, i)
  \/ Submit \/ Expire \/ CenterRestarts

(***************************************************************************)
(* Fairness. Each owner of a queue keeps up with it: the client redials    *)
(* and notices a dead link, the hub runs what is posted, both ends read    *)
(* what arrives, a node tells a changed role, and the swarm reports what   *)
(* it recorded (Tasks.tla: RecordedReported). Overdue(n) is a state in     *)
(* which one of them still has something to do, and each of them can act   *)
(* in it, so it cannot last for ever.                                      *)
(***************************************************************************)
Overdue(n) ==
  \/ running[n] /\ uplink[n] = 0 /\ \E g \in Link : sock[n][g].stage = "free"
  \/ uplink[n] # 0 /\ ~sock[n][uplink[n]].live
  \/ \E g \in Link :
       \/ sock[n][g].live /\ uplink[n] # g
       \/ sock[n][g].stage = "queued"
       \/ sock[n][g].stage = "seen" /\ (~sock[n][g].live \/ toCenter[n][g] # <<>>)
  \/ toNode[n] # {}
  \/ uplink[n] # 0 /\ entry[n].role # RoleOf(n)

Worked == (\E n \in Node : running[n]) => \A i \in accepted : reports[i] > 0

Fairness == (\A n \in Node : []<>~Overdue(n)) /\ []<>Worked

Spec == Init /\ [][Next]_vars /\ Fairness

(* ------------------------------ Properties ------------------------------ *)

\* The dashboard's node events tell exactly what is registered, whichever links come,
\* go and replace one another, and whatever travels over them (hub.go).
LinksTell == TypeOK /\ EventsTell

\* The outcome of a submission, as far as the control center shows it.
OutcomeOf(i) ==
  IF \E k \in DOMAIN tasks : tasks[k].run = i
  THEN tasks[CHOOSE k \in DOMAIN tasks : tasks[k].run = i].state
  ELSE IF i.life > restarts \/ (i.life = restarts /\ i.id > nextTask) THEN "none" ELSE "gone"

Register == INSTANCE TaskRegister WITH
  Task <- Run, Window <- MaxTasks, life <- restarts, outcome <- [i \in Run |-> OutcomeOf(i)],
  shown <- [k \in DOMAIN tasks |-> tasks[k].run], worked <- {i \in Run : reports[i] > 0}

\* Submissions, outcomes and restarts come to no more than a register of outcomes: a
\* settled task keeps its first result while it is shown, however often the swarm
\* reports it and over whichever links, none is done that nobody worked, and the
\* oldest leaves first (applyResult, addTask).
KeepsRegister == Register!Spec

\* An id that an earlier life of the control center gave out too.
Reused(i) == \E j \in Run : j.id = i.id /\ j.life < i.life /\ i.life <= restarts

\* No task stays pending for ever unless a frame or a held result of it was
\* lost with a link or a process: a TASK that is shed, refused or ignored, and
\* a result held while the link was down, all end in a settled task.
PendingExplained ==
  \A k \in DOMAIN tasks : tasks[k].state = "pending" =>
    tasks[k].run \in lost \/ Reused(tasks[k].run)
=============================================================================
