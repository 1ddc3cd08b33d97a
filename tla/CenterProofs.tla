----------------------------- MODULE CenterProofs -----------------------------
(***************************************************************************)
(* Safety of the control center, for every number of nodes, links, tasks,  *)
(* placements and faults.  Its tasks (CenterTasks): the types, that node   *)
(* events tell what is registered, and that the hub's window of tasks      *)
(* implements the register of outcomes that TaskRegister promises.  Its    *)
(* settings (CenterSim): what a version names, and that a listed node has  *)
(* a place; every action either gives the settings a version of their own  *)
(* or only takes placements away, and sends nothing but what the hub then  *)
(* holds.                                                                  *)
(***************************************************************************)
EXTENDS MCCenter, SequenceTheorems, FiniteSetTheorems, WellFoundedInduction, TLAPS

\* What may be on its way to the control center, or held by a node: a task is done
\* only if the swarm reported it.
Frames(r) == {f \in Result \union Report : f.kind = "result" => (f.ok => r[f.run] > 0)}
Held(r) == {f \in Result : f.ok => r[f.run] > 0}

\* A submission that this life of the control center, or an earlier one, gave out.
GivenBy(next, life, i) == i.life < life \/ (i.life = life /\ i.id <= next)
Given(i) == GivenBy(nextTask, restarts, i)

\* The window holds the newest submissions of this life, by consecutive ids.
WindowOf(ts, next, life) ==
  /\ Len(ts) <= next
  /\ \A k \in 1..Len(ts) : ts[k].run = [id |-> (next - Len(ts)) + k, life |-> life]

LinkInv == LinksTypeOK /\ EventsTell

QueueInv ==
  /\ leads \in [Node -> BOOLEAN]
  /\ toCenter \in [Node -> [Link -> Seq(Frames(reports))]]
  /\ pending \in [Node -> {s \in Seq(Held(reports)) : Len(s) <= ResultBuffer}]
  /\ reports \in [Run -> 0..MaxReports]
  /\ lost \subseteq Run

OrderInv ==
  /\ toNode \in [Node -> SUBSET Order]
  /\ accepted \subseteq Run
  /\ \A i \in accepted : Given(i)
  /\ \A n \in Node : \A f \in toNode[n] : f.kind = "task" => Given(f.run)

TaskInv ==
  /\ tasks \in Seq(Entry) /\ Len(tasks) <= MaxTasks
  /\ submits \in 0..MaxSubmits /\ nextTask \in 0..submits /\ rr \in 0..submits
  /\ WindowOf(tasks, nextTask, restarts)

IInv == LinkInv /\ QueueInv /\ OrderInv /\ TaskInv

-----------------------------------------------------------------------------
\* The links.

LinkSteps ==
  \/ \E n \in Node :
       \/ \E g \in Link : Dial(n, g) \/ CenterDrops(n, g) \/ ConnUp(n, g) \/ ConnDown(n, g)
       \/ NodeDrops(n) \/ Crash(n) \/ Restart(n)
  \/ CenterRestart

\* A link that comes, goes or is replaced is told as it is registered.
LEMMA LinkStep ==
  ASSUME LinkInv, LinkSteps
  PROVE  LinkInv'
<1> DEFINE Sock == [stage : Stage, live : BOOLEAN]
           Known == [listed : BOOLEAN, link : {0} \union Link, role : {"worker", "leader"},
                     killed : BOOLEAN]
<1>1. ASSUME NEW n \in Node, NEW g \in Link, Dial(n, g)
      PROVE  LinkInv'
  <2>1. sock' \in [Node -> [Link -> Sock]]
    BY <1>1 DEF Dial, LinkInv, LinksTypeOK, Stage
  <2>2. uplink' \in [Node -> {0} \union Link]
    BY <1>1 DEF Dial, LinkInv, LinksTypeOK
  <2> QED
    BY <1>1, <2>1, <2>2 DEF Dial, LinkInv, LinksTypeOK, EventsTell, Connected
<1>2. ASSUME NEW n \in Node, NEW g \in Link, CenterDrops(n, g)
      PROVE  LinkInv'
  <2>1. sock' \in [Node -> [Link -> Sock]]
    <3>1. sock[n][g] \in Sock
      BY DEF LinkInv, LinksTypeOK
    <3> QED
      BY <1>2, <3>1 DEF CenterDrops, LinkInv, LinksTypeOK
  <2>2. faults' \in 0..MaxFaults
    BY <1>2, LinksAssumption DEF CenterDrops, Fault, LinkInv, LinksTypeOK
  <2> QED
    BY <1>2, <2>1, <2>2 DEF CenterDrops, LinkInv, LinksTypeOK, EventsTell, Connected
<1>3. ASSUME NEW n \in Node, NEW g \in Link, ConnUp(n, g)
      PROVE  LinkInv'
  <2>1. sock' \in [Node -> [Link -> Sock]]
    BY <1>3 DEF ConnUp, LinkInv, LinksTypeOK, Stage
  <2>2. /\ entry' \in [Node -> Known]
        /\ \A m \in Node : entry'[m].link = IF m = n THEN g ELSE entry[m].link
    BY <1>3 DEF ConnUp, Registered, Unlisted, LinkInv, LinksTypeOK
  <2>3. /\ news' \in [Node -> Int]
        /\ \A m \in Node : news'[m] = IF m = n /\ entry[n].link = 0 THEN news[n] + 1 ELSE news[m]
    BY <1>3 DEF ConnUp, LinkInv, LinksTypeOK
  <2>4. g # 0
    BY DEF Link
  <2> QED
    BY <1>3, <2>1, <2>2, <2>3, <2>4 DEF ConnUp, LinkInv, LinksTypeOK, EventsTell, Connected
<1>4. ASSUME NEW n \in Node, NEW g \in Link, ConnDown(n, g)
      PROVE  LinkInv'
  <2>1. sock' \in [Node -> [Link -> Sock]]
    BY <1>4 DEF ConnDown, LinkInv, LinksTypeOK, Stage
  <2>2. g # 0
    BY DEF Link
  <2>3. CASE entry[n].link = g
    <3>1. /\ entry' \in [Node -> Known]
          /\ \A m \in Node : entry'[m].link = IF m = n THEN 0 ELSE entry[m].link
      <4>1. entry \in [Node -> Known] /\ entry[n] \in Known
        BY DEF LinkInv, LinksTypeOK
      <4>2. entry' = [entry EXCEPT ![n] = [entry[n] EXCEPT !.link = 0]]
        BY <1>4, <2>3 DEF ConnDown
      <4>3. [entry[n] EXCEPT !.link = 0] \in Known /\ [entry[n] EXCEPT !.link = 0].link = 0
        BY <4>1
      <4> QED
        BY <4>1, <4>2, <4>3
    <3>2. news' = [news EXCEPT ![n] = @ - 1]
      BY <1>4, <2>3 DEF ConnDown
    <3> QED
      BY <1>4, <2>1, <2>2, <2>3, <3>1, <3>2 DEF ConnDown, LinkInv, LinksTypeOK, EventsTell, Connected
  <2>4. CASE entry[n].link # g
    BY <1>4, <2>1, <2>4 DEF ConnDown, LinkInv, LinksTypeOK, EventsTell, Connected
  <2> QED
    BY <2>3, <2>4
<1>5. ASSUME NEW n \in Node, NodeDrops(n)
      PROVE  LinkInv'
  <2>1. uplink' \in [Node -> {0} \union Link] /\ faults' \in 0..MaxFaults
    BY <1>5, LinksAssumption DEF NodeDrops, Fault, LinkInv, LinksTypeOK
  <2> QED
    BY <1>5, <2>1 DEF NodeDrops, LinkInv, LinksTypeOK, EventsTell, Connected
<1>6. ASSUME NEW n \in Node, Crash(n) \/ Restart(n)
      PROVE  LinkInv'
  <2>1. /\ running' \in [Node -> BOOLEAN] /\ uplink' \in [Node -> {0} \union Link]
        /\ faults' \in 0..MaxFaults
    <3>1. CASE Crash(n)
      BY <3>1, LinksAssumption DEF Crash, Fault, LinkInv, LinksTypeOK
    <3>2. CASE Restart(n)
      BY <3>2 DEF Restart, LinkInv, LinksTypeOK
    <3> QED
      BY <1>6, <3>1, <3>2
  <2> QED
    BY <1>6, <2>1 DEF Crash, Restart, LinkInv, LinksTypeOK, EventsTell, Connected
<1>7. ASSUME CenterRestart
      PROVE  LinkInv'
  BY <1>7, LinksAssumption DEF CenterRestart, Fault, LinkInv, LinksTypeOK, EventsTell,
      Connected, Unlisted, Stage
<1> QED
  BY <1>1, <1>2, <1>3, <1>4, <1>5, <1>6, <1>7 DEF LinkSteps

\* What only writes to an entry, and leaves its link, is told too.
LEMMA EntryStep ==
  ASSUME LinkInv,
         entry' \in [Node -> [listed : BOOLEAN, link : {0} \union Link,
                              role : {"worker", "leader"}, killed : BOOLEAN]],
         \A n \in Node : entry'[n].link = entry[n].link,
         faults' \in 0..MaxFaults,
         UNCHANGED <<running, uplink, sock, news, restarts>>
  PROVE  LinkInv'
BY DEF LinkInv, LinksTypeOK, EventsTell, Connected

-----------------------------------------------------------------------------
\* Frames and results.

LEMMA FramesGrow ==
  ASSUME NEW r \in [Run -> 0..MaxReports], NEW s \in [Run -> 0..MaxReports],
         \A i \in Run : r[i] <= s[i]
  PROVE  Frames(r) \subseteq Frames(s) /\ Held(r) \subseteq Held(s)
BY DEF Frames, Held, Result, Report

LEMMA HeldAreFrames ==
  ASSUME NEW r
  PROVE  Held(r) \subseteq Frames(r) /\ Held(r) \subseteq Result
BY DEF Frames, Held, Result

LEMMA RunsOf ==
  ASSUME NEW r, NEW s \in Seq(Frames(r))
  PROVE  RunsIn(s) \subseteq Run
BY DEF RunsIn, Frames, Result, Report

LEMMA RunsOfHeld ==
  ASSUME NEW r, NEW s \in Seq(Held(r))
  PROVE  RunsIn(s) \subseteq Run
BY DEF RunsIn, Held, Result

\* A send keeps the queues.
LEMMA WriteKeeps ==
  ASSUME LinkInv, QueueInv, NEW n \in Node, NEW fs \in Seq(Frames(reports)), Write(n, fs)
  PROVE  /\ toCenter' \in [Node -> [Link -> Seq(Frames(reports))]]
         /\ lost' \subseteq Run
<1>1. CASE uplink[n] # 0 /\ sock[n][uplink[n]].live
  <2>1. uplink[n] \in Link
    BY <1>1 DEF LinkInv, LinksTypeOK
  <2>2. toCenter[n][uplink[n]] \o fs \in Seq(Frames(reports))
    BY <2>1, ConcatProperties DEF QueueInv
  <2>3. /\ toCenter' = [toCenter EXCEPT ![n][uplink[n]] = toCenter[n][uplink[n]] \o fs]
        /\ lost' = lost
    BY <1>1 DEF Write
  <2> QED
    BY <2>1, <2>2, <2>3 DEF QueueInv
<1>2. CASE ~(uplink[n] # 0 /\ sock[n][uplink[n]].live)
  BY <1>2, RunsOf DEF Write, QueueInv
<1> QED
  BY <1>1, <1>2

LEMMA SampleIsFrame ==
  ASSUME NEW n, NEW r
  PROVE  <<Sample(n)>> \in Seq(Frames(r))
BY DEF Sample, RoleOf, Frames, Report

-----------------------------------------------------------------------------
\* The window.

\* What OutcomeOf says of a submission, from any window.
Shown(ts, next, life, i) ==
  IF \E k \in DOMAIN ts : ts[k].run = i
  THEN ts[CHOOSE k \in DOMAIN ts : ts[k].run = i].state
  ELSE IF i.life > life \/ (i.life = life /\ i.id > next) THEN "none" ELSE "gone"

LEMMA OutcomeIsShown ==
  ASSUME NEW i
  PROVE  /\ OutcomeOf(i) = Shown(tasks, nextTask, restarts, i)
         /\ OutcomeOf(i)' = Shown(tasks', nextTask', restarts', i)
BY DEF OutcomeOf, Shown

\* A submission is shown at one place, given by its id; before it is given out it has
\* no outcome.
LEMMA ShownAt ==
  ASSUME NEW ts \in Seq(Entry), NEW next \in Nat, NEW life \in Nat, WindowOf(ts, next, life)
  PROVE  /\ \A k \in 1..Len(ts) : Shown(ts, next, life, ts[k].run) = ts[k].state
         /\ \A i \in Run : (\A k \in 1..Len(ts) : ts[k].run # i) =>
              Shown(ts, next, life, i) = IF GivenBy(next, life, i) THEN "gone" ELSE "none"
         /\ \A k \in 1..Len(ts) : GivenBy(next, life, ts[k].run)
         /\ \A j, k \in 1..Len(ts) : ts[j].run.id = ts[k].run.id => j = k
<1>1. DOMAIN ts = 1..Len(ts) /\ Len(ts) \in Nat
  BY LenProperties
<1>0. ASSUME NEW k \in 1..Len(ts)
      PROVE  ts[k].run.id = (next - Len(ts)) + k /\ ts[k].run.life = life
  <2>1. ts[k].run = [id |-> (next - Len(ts)) + k, life |-> life]
    BY DEF WindowOf
  <2>2. ts[k].run.id = (next - Len(ts)) + k
    BY <2>1
  <2>3. ts[k].run.life = life
    BY <2>1
  <2> QED
    BY <2>2, <2>3
<1>2. \A j, k \in 1..Len(ts) : ts[j].run.id = ts[k].run.id => j = k
  BY <1>0, <1>1
<1>3. ASSUME NEW k \in 1..Len(ts)
      PROVE  Shown(ts, next, life, ts[k].run) = ts[k].state
  <2>1. (CHOOSE j \in DOMAIN ts : ts[j].run = ts[k].run) = k
    BY <1>1, <1>2
  <2> QED
    BY <1>1, <2>1 DEF Shown
<1>4. ASSUME NEW i \in Run, \A k \in 1..Len(ts) : ts[k].run # i
      PROVE  Shown(ts, next, life, i) = IF GivenBy(next, life, i) THEN "gone" ELSE "none"
  BY <1>1, <1>4 DEF Shown, GivenBy, Run
<1>5. \A k \in 1..Len(ts) : GivenBy(next, life, ts[k].run)
  BY <1>0, <1>1 DEF WindowOf, GivenBy
<1> QED
  BY <1>2, <1>3, <1>4, <1>5

\* addTask keeps the newest, the new one last.
LEMMA AddedIs ==
  ASSUME NEW ts \in Seq(Entry), NEW t \in Entry, Len(ts) <= MaxTasks
  PROVE  LET full == Len(ts) = MaxTasks
             kept == IF full THEN Tail(ts) ELSE ts
         IN  /\ Added(ts, t) = Append(kept, t)
             /\ kept \in Seq(Entry) /\ Len(kept) = IF full THEN Len(ts) - 1 ELSE Len(ts)
             /\ Len(kept) < MaxTasks
             /\ \A k \in 1..Len(kept) : kept[k] = IF full THEN ts[k + 1] ELSE ts[k]
<1> DEFINE all == Append(ts, t)
<1>1. /\ all \in Seq(Entry) /\ Len(all) = Len(ts) + 1 /\ Len(ts) \in Nat
      /\ all # <<>> /\ Tail(all) = IF ts = <<>> THEN <<>> ELSE Append(Tail(ts), t)
  BY AppendProperties, HeadTailAppend, LenProperties
<1>2. CASE Len(ts) = MaxTasks
  <2>1. ts # <<>>
    BY <1>2, TasksAssumption
  <2>2. Added(ts, t) = Tail(all)
    BY <1>1, <1>2, TailIsSubSeq DEF Added
  <2> QED
    BY <1>1, <1>2, <2>1, <2>2, HeadTailProperties, TasksAssumption
<1>3. CASE Len(ts) # MaxTasks
  <2>1. Added(ts, t) = all
    BY <1>1, <1>3, SubSeqFull DEF Added
  <2> QED
    BY <1>1, <1>3, <2>1, TasksAssumption
<1> QED
  BY <1>2, <1>3

LEMMA SettledIs ==
  ASSUME NEW ts \in Seq(Entry), NEW f \in Result
  PROVE  /\ Settled(ts, f) \in Seq(Entry) /\ Len(Settled(ts, f)) = Len(ts)
         /\ \A k \in 1..Len(ts) :
              /\ Settled(ts, f)[k].run = ts[k].run
              /\ Settled(ts, f)[k].state =
                   IF ts[k].run.id # f.run.id \/ ts[k].state # "pending" THEN ts[k].state
                   ELSE IF f.ok THEN "done" ELSE "failed"
<1>1. DOMAIN ts = 1..Len(ts) /\ Len(ts) \in Nat /\ \A k \in 1..Len(ts) : ts[k] \in Entry
  BY LenProperties, ElementOfSeq
<1>2. Settled(ts, f) \in [1..Len(ts) -> Entry]
  BY <1>1 DEF Settled, Entry, Result
<1>3. Settled(ts, f) \in Seq(Entry) /\ Len(Settled(ts, f)) = Len(ts)
  BY <1>1, <1>2
<1> QED
  BY <1>1, <1>3 DEF Settled, Entry

-----------------------------------------------------------------------------
\* What a step leaves alone.

LEMMA TasksKept ==
  ASSUME TaskInv, UNCHANGED <<tasks, nextTask, rr, submits, restarts>>
  PROVE  TaskInv'
BY DEF TaskInv, WindowOf

LEMMA OrdersKept ==
  ASSUME OrderInv, UNCHANGED <<nextTask, restarts>>, accepted' = accepted,
         toNode' \in [Node -> SUBSET Order], \A n \in Node : toNode'[n] \subseteq toNode[n]
  PROVE  OrderInv'
BY DEF OrderInv, Given, GivenBy

LEMMA QueuesKept ==
  ASSUME QueueInv, UNCHANGED <<leads, reports>>,
         toCenter' \in [Node -> [Link -> Seq(Frames(reports))]],
         pending' \in [Node -> {s \in Seq(Held(reports)) : Len(s) <= ResultBuffer}],
         lost' \subseteq Run
  PROVE  QueueInv'
BY DEF QueueInv

-----------------------------------------------------------------------------
\* Every step keeps the invariant: the node's side.

LEMMA ConnectsStep ==
  ASSUME IInv, NEW n \in Node, NEW g \in Link, Connects(n, g)
  PROVE  IInv'
<1>1. LinkInv'
  BY LinkStep DEF LinkSteps, Connects, IInv
<1>2. QueueInv'
  <2>1. pending[n] \in Seq(Frames(reports)) /\ <<Sample(n)>> \in Seq(Frames(reports))
    BY SeqMonotonic, HeldAreFrames, SampleIsFrame DEF IInv, QueueInv
  <2>2. <<Sample(n)>> \o pending[n] \in Seq(Frames(reports))
    BY <2>1, ConcatProperties
  <2>3. toCenter' \in [Node -> [Link -> Seq(Frames(reports))]]
    BY <2>2 DEF Connects, IInv, QueueInv
  <2>4. pending' \in [Node -> {s \in Seq(Held(reports)) : Len(s) <= ResultBuffer}]
    BY EmptySeq, TasksAssumption DEF Connects, IInv, QueueInv
  <2> QED
    BY <2>3, <2>4, QueuesKept DEF Connects, IInv, QueueInv
<1>3. OrderInv' /\ TaskInv'
  BY OrdersKept, TasksKept DEF Connects, Dial, IInv, OrderInv
<1> QED
  BY <1>1, <1>2, <1>3 DEF IInv

LEMMA SendTelemetryStep ==
  ASSUME IInv, NEW n \in Node, SendTelemetry(n)
  PROVE  IInv'
<1>1. Write(n, <<Sample(n)>>) /\ UNCHANGED <<leads, reports, pending>>
  BY DEF SendTelemetry
<1>2. toCenter' \in [Node -> [Link -> Seq(Frames(reports))]] /\ lost' \subseteq Run
  BY <1>1, SampleIsFrame, WriteKeeps DEF IInv
<1>3. QueueInv'
  BY <1>1, <1>2, QueuesKept DEF IInv, QueueInv
<1>4. LinkInv'
  BY DEF SendTelemetry, linkVars, IInv, LinkInv, LinksTypeOK, EventsTell, Connected
<1>5. OrderInv' /\ TaskInv'
  BY OrdersKept, TasksKept DEF SendTelemetry, linkVars, IInv, OrderInv
<1> QED
  BY <1>3, <1>4, <1>5 DEF IInv

LEMMA RoleChangesStep ==
  ASSUME IInv, NEW n \in Node, RoleChanges(n)
  PROVE  IInv'
<1>1. LinkInv'
  BY LinksAssumption DEF RoleChanges, Fault, IInv, LinkInv, LinksTypeOK, EventsTell, Connected
<1>2. QueueInv'
  BY DEF RoleChanges, IInv, QueueInv
<1>3. OrderInv' /\ TaskInv'
  BY OrdersKept, TasksKept DEF RoleChanges, IInv, OrderInv
<1> QED
  BY <1>1, <1>2, <1>3 DEF IInv

LEMMA SubmittedStep ==
  ASSUME IInv, NEW n \in Node, NEW f \in toNode[n], Submitted(n, f)
  PROVE  IInv'
<1>1. LinkInv' /\ TaskInv' /\ QueueInv'
  BY TasksKept DEF Submitted, linkVars, IInv, LinkInv, LinksTypeOK, EventsTell, Connected,
     QueueInv
<1>2. f.run \in Run /\ Given(f.run)
  BY DEF Submitted, IInv, OrderInv, Order
<1>3. accepted' \in {accepted, accepted \union {f.run}}
  BY DEF Submitted
<1>4. toNode' \in [Node -> SUBSET Order] /\ \A m \in Node : toNode'[m] \subseteq toNode[m]
  BY DEF Submitted, IInv, OrderInv
<1>5. OrderInv'
  BY <1>2, <1>3, <1>4 DEF Submitted, linkVars, IInv, OrderInv, Given, GivenBy
<1> QED
  BY <1>1, <1>5 DEF IInv

LEMMA RefusedStep ==
  ASSUME IInv, NEW n \in Node, NEW f \in toNode[n], Refused(n, f)
  PROVE  IInv'
<1>1. f.run \in Run /\ Given(f.run)
  BY DEF Refused, IInv, OrderInv, Order
<1>2. <<Outcome(f.run, FALSE)>> \in Seq(Frames(reports))
  BY <1>1 DEF Outcome, Frames, Result
<1>3. toCenter' \in [Node -> [Link -> Seq(Frames(reports))]] /\ lost' \subseteq Run
  BY <1>2, WriteKeeps DEF Refused, IInv
<1>4. QueueInv'
  BY <1>3, QueuesKept DEF Refused, IInv, QueueInv
<1>5. accepted' \in {accepted, accepted \union {f.run}}
  BY DEF Refused
<1>6. toNode' \in [Node -> SUBSET Order] /\ \A m \in Node : toNode'[m] \subseteq toNode[m]
  BY DEF Refused, IInv, OrderInv
<1>7. OrderInv'
  BY <1>1, <1>5, <1>6 DEF Refused, linkVars, IInv, OrderInv, Given, GivenBy
<1>8. LinkInv' /\ TaskInv'
  BY TasksKept DEF Refused, linkVars, IInv, LinkInv, LinksTypeOK, EventsTell, Connected
<1> QED
  BY <1>4, <1>7, <1>8 DEF IInv

LEMMA ReportsStep ==
  ASSUME IInv, NEW n \in Node, NEW i \in accepted, Reports(n, i)
  PROVE  IInv'
<1> DEFINE more == [reports EXCEPT ![i] = @ + 1]
<1>1. /\ i \in Run /\ reports \in [Run -> 0..MaxReports] /\ more \in [Run -> 0..MaxReports]
      /\ reports' = more /\ more[i] > 0 /\ \A j \in Run : reports[j] <= more[j]
  BY TasksAssumption DEF Reports, IInv, OrderInv, QueueInv
<1> HIDE DEF more
<1>2. Frames(reports) \subseteq Frames(more) /\ Held(reports) \subseteq Held(more)
  BY <1>1, FramesGrow
<1>3. /\ Outcome(i, TRUE) \in Held(more) /\ Outcome(i, TRUE) \in Frames(more)
      /\ <<Outcome(i, TRUE)>> \in Seq(Frames(more))
  BY <1>1, <1>2 DEF Outcome, Held, Frames, Result
<1>4. toCenter \in [Node -> [Link -> Seq(Frames(more))]]
  BY <1>2, SeqMonotonic DEF IInv, QueueInv
<1>5. \A m \in Node : pending[m] \in Seq(Held(more)) /\ Len(pending[m]) <= ResultBuffer
  BY <1>2, SeqMonotonic DEF IInv, QueueInv
<1>6. /\ toCenter' \in [Node -> [Link -> Seq(Frames(more))]]
      /\ pending' \in [Node -> {s \in Seq(Held(more)) : Len(s) <= ResultBuffer}]
      /\ lost' \subseteq Run
  <2>1. CASE uplink[n] # 0
    <3>1. Write(n, <<Outcome(i, TRUE)>>) /\ pending' = pending
      BY <2>1 DEF Reports
    <3>2. CASE sock[n][uplink[n]].live
      <4>1. uplink[n] \in Link
        BY <2>1 DEF IInv, LinkInv, LinksTypeOK
      <4>2. toCenter[n][uplink[n]] \o <<Outcome(i, TRUE)>> \in Seq(Frames(more))
        BY <1>3, <1>4, <4>1, ConcatProperties
      <4>3. /\ toCenter' = [toCenter EXCEPT ![n][uplink[n]] =
                                toCenter[n][uplink[n]] \o <<Outcome(i, TRUE)>>]
            /\ lost' = lost
        BY <2>1, <3>1, <3>2 DEF Write
      <4> QED
        BY <1>4, <1>5, <3>1, <4>1, <4>2, <4>3 DEF IInv, QueueInv
    <3>3. CASE ~sock[n][uplink[n]].live
      <4>1. RunsIn(<<Outcome(i, TRUE)>>) \subseteq Run
        BY <1>3, RunsOf
      <4> QED
        BY <1>4, <1>5, <3>1, <3>3, <4>1 DEF Write, IInv, QueueInv
    <3> QED
      BY <3>2, <3>3
  <2>2. CASE uplink[n] = 0
    <3> DEFINE full == Len(pending[n]) = ResultBuffer
               kept == IF full THEN Tail(pending[n]) ELSE pending[n]
    <3>1. /\ toCenter' = toCenter
          /\ pending' = [pending EXCEPT ![n] = Append(kept, Outcome(i, TRUE))]
          /\ lost' = IF full THEN lost \union {pending[n][1].run} ELSE lost
      BY <2>2 DEF Reports
    <3>2. kept \in Seq(Held(more)) /\ Len(kept) + 1 <= ResultBuffer
      <4>1. Len(pending[n]) \in Nat
        BY <1>5, LenProperties
      <4>2. CASE full
        <5>1. pending[n] # <<>>
          BY <4>2, TasksAssumption, EmptySeq
        <5>2. Tail(pending[n]) \in Seq(Held(more)) /\ Len(Tail(pending[n])) = Len(pending[n]) - 1
          BY <1>5, <5>1, HeadTailProperties
        <5> QED
          BY <1>5, <4>1, <4>2, <5>2
      <4>3. CASE ~full
        BY <1>5, <4>1, <4>3, TasksAssumption
      <4> QED
        BY <4>2, <4>3
    <3>3. /\ Append(kept, Outcome(i, TRUE)) \in Seq(Held(more))
          /\ Len(Append(kept, Outcome(i, TRUE))) <= ResultBuffer
      <4> HIDE DEF kept
      <4> QED
        BY <1>3, <3>2, AppendProperties
    <3>4. pending' \in [Node -> {s \in Seq(Held(more)) : Len(s) <= ResultBuffer}]
      BY <1>5, <3>1, <3>3 DEF IInv, QueueInv
    <3>5. lost' \subseteq Run
      <4>1. CASE full
        <5>1. 1 \in 1..Len(pending[n])
          BY <4>1, TasksAssumption
        <5>2. pending[n][1] \in Held(more)
          BY <1>5, <5>1, ElementOfSeq
        <5> QED
          BY <3>1, <5>2 DEF Held, Result, IInv, QueueInv
      <4>2. CASE ~full
        BY <3>1, <4>2 DEF IInv, QueueInv
      <4> QED
        BY <4>1, <4>2
    <3> QED
      BY <1>4, <3>1, <3>4, <3>5
  <2> QED
    BY <2>1, <2>2
<1>7. QueueInv'
  BY <1>1, <1>6 DEF Reports, IInv, QueueInv
<1>8. LinkInv'
  BY DEF Reports, linkVars, IInv, LinkInv, LinksTypeOK, EventsTell, Connected
<1>9. OrderInv' /\ TaskInv'
  BY OrdersKept, TasksKept DEF Reports, linkVars, IInv, OrderInv
<1> QED
  BY <1>7, <1>8, <1>9 DEF IInv

\* What a process takes with it when it ends.
LEMMA ForgetsKeeps ==
  ASSUME QueueInv, OrderInv, NEW n \in Node, Forgets(n), UNCHANGED <<nextTask, restarts>>
  PROVE  QueueInv' /\ OrderInv'
<1>1. Orders(n) \subseteq Run
  BY DEF Orders, OrderInv, Order
<1>2. RunsIn(pending[n]) \subseteq Run
  BY RunsOfHeld DEF QueueInv
<1>3. pending' \in [Node -> {s \in Seq(Held(reports)) : Len(s) <= ResultBuffer}]
  BY EmptySeq, TasksAssumption DEF Forgets, QueueInv
<1>4. QueueInv'
  BY <1>1, <1>2, <1>3, QueuesKept DEF Forgets, QueueInv
<1>5. OrderInv'
  BY OrdersKept DEF Forgets, OrderInv
<1> QED
  BY <1>4, <1>5

LEMMA CrashesStep ==
  ASSUME IInv, NEW n \in Node, Crashes(n)
  PROVE  IInv'
<1>1. LinkInv'
  BY LinkStep DEF LinkSteps, Crashes, IInv
<1>2. UNCHANGED <<tasks, nextTask, rr, submits, restarts>>
  BY DEF Crashes, Crash, Forgets
<1> QED
  BY <1>1, <1>2, ForgetsKeeps, TasksKept DEF Crashes, IInv

LEMMA KilledStep ==
  ASSUME IInv, NEW n \in Node, NEW f \in toNode[n], Killed(n, f)
  PROVE  IInv'
<1>1. LinkInv'
  BY DEF Killed, IInv, LinkInv, LinksTypeOK, EventsTell, Connected
<1>2. UNCHANGED <<tasks, nextTask, rr, submits, restarts>>
  BY DEF Killed, Forgets
<1> QED
  BY <1>1, <1>2, ForgetsKeeps, TasksKept DEF Killed, IInv

LEMMA LosesOrderStep ==
  ASSUME IInv, NEW n \in Node, NEW f \in toNode[n], LosesOrder(n, f)
  PROVE  IInv'
<1>1. LinkInv' /\ TaskInv'
  BY TasksKept DEF LosesOrder, linkVars, IInv, LinkInv, LinksTypeOK, EventsTell, Connected
<1>2. f.kind = "task" => f.run \in Run
  BY DEF IInv, OrderInv, Order
<1>3. QueueInv'
  BY <1>2 DEF LosesOrder, IInv, QueueInv
<1>4. OrderInv'
  BY OrdersKept DEF LosesOrder, linkVars, IInv, OrderInv
<1> QED
  BY <1>1, <1>3, <1>4 DEF IInv

LEMMA LinkEndsStep ==
  ASSUME IInv, NEW n \in Node, UNCHANGED taskVars,
         NodeDrops(n) \/ Restart(n) \/ \E g \in Link : CenterDrops(n, g)
  PROVE  IInv'
<1>1. LinkInv'
  BY LinkStep DEF LinkSteps, IInv
<1>2. UNCHANGED <<nextTask, restarts>>
  BY DEF taskVars, NodeDrops, Restart, CenterDrops
<1> QED
  BY <1>1, <1>2, OrdersKept, TasksKept DEF taskVars, IInv, QueueInv, OrderInv

-----------------------------------------------------------------------------
\* The hub's side.

LEMMA RegistersStep ==
  ASSUME IInv, NEW n \in Node, NEW g \in Link, Registers(n, g)
  PROVE  IInv'
<1>1. LinkInv'
  BY LinkStep DEF LinkSteps, Registers, IInv
<1>2. UNCHANGED <<nextTask, restarts>>
  BY DEF Registers, taskVars, ConnUp
<1> QED
  BY <1>1, <1>2, OrdersKept, TasksKept DEF Registers, taskVars, IInv, QueueInv, OrderInv

LEMMA EndsStep ==
  ASSUME IInv, NEW n \in Node, NEW g \in Link, Ends(n, g)
  PROVE  IInv'
<1>1. LinkInv'
  BY LinkStep DEF LinkSteps, Ends, IInv
<1>2. QueueInv'
  <2>1. RunsIn(toCenter[n][g]) \subseteq Run
    BY RunsOf DEF IInv, QueueInv
  <2>2. toCenter' \in [Node -> [Link -> Seq(Frames(reports))]]
    BY EmptySeq DEF Ends, IInv, QueueInv
  <2> QED
    BY <2>1, <2>2, QueuesKept DEF Ends, IInv, QueueInv
<1>3. OrderInv' /\ TaskInv'
  BY OrdersKept, TasksKept DEF Ends, ConnDown, IInv, OrderInv
<1> QED
  BY <1>1, <1>2, <1>3 DEF IInv

LEMMA FrameStep ==
  ASSUME IInv, NEW n \in Node, NEW g \in Link, Frame(n, g)
  PROVE  IInv'
<1> DEFINE q == toCenter[n][g]
           f == Head(q)
<1>1. q \in Seq(Frames(reports)) /\ q # <<>>
  BY DEF Frame, IInv, QueueInv
<1>2. f \in Frames(reports) /\ Tail(q) \in Seq(Frames(reports))
  BY <1>1, HeadTailProperties
<1>3. QueueInv'
  <2>1. toCenter' = [toCenter EXCEPT ![n][g] = Tail(q)]
    BY DEF Frame
  <2>2. toCenter' \in [Node -> [Link -> Seq(Frames(reports))]]
    BY <1>2, <2>1 DEF IInv, QueueInv
  <2>3. lost' \in {lost, lost \union {f.run}} /\ (lost' # lost => f.kind = "result")
    BY DEF Frame
  <2>4. lost' \subseteq Run
    BY <1>2, <2>3 DEF Frames, Result, Report, IInv, QueueInv
  <2> QED
    BY <2>2, <2>4, QueuesKept DEF Frame, IInv, QueueInv
<1>4. LinkInv'
  <2>1. f.kind = "telemetry" => f.role \in {"worker", "leader"}
    BY <1>2 DEF Frames, Result, Report
  <2>2. \/ entry' = entry
        \/ f.kind = "telemetry" /\ entry' = [entry EXCEPT ![n].role = f.role]
    BY DEF Frame
  <2>3. /\ entry' \in [Node -> [listed : BOOLEAN, link : {0} \union Link,
                                role : {"worker", "leader"}, killed : BOOLEAN]]
        /\ \A m \in Node : entry'[m].link = entry[m].link
    <3> DEFINE Known == [listed : BOOLEAN, link : {0} \union Link,
                         role : {"worker", "leader"}, killed : BOOLEAN]
    <3>1. entry \in [Node -> Known] /\ entry[n] \in Known
      BY DEF IInv, LinkInv, LinksTypeOK
    <3>2. CASE entry' = entry
      BY <3>1, <3>2
    <3>3. CASE f.kind = "telemetry" /\ entry' = [entry EXCEPT ![n].role = f.role]
      <4> HIDE DEF f
      <4>1. [entry[n] EXCEPT !.role = f.role] \in Known
            /\ [entry[n] EXCEPT !.role = f.role].link = entry[n].link
        BY <2>1, <3>1, <3>3
      <4>2. entry' = [entry EXCEPT ![n] = [entry[n] EXCEPT !.role = f.role]]
        BY <3>3
      <4> QED
        BY <3>1, <4>1, <4>2
    <3> QED
      BY <2>2, <3>2, <3>3
  <2> QED
    BY <2>3, EntryStep DEF Frame, IInv, LinkInv, LinksTypeOK
<1>5. OrderInv'
  BY OrdersKept DEF Frame, IInv, OrderInv
<1>6. TaskInv'
  <2>1. CASE tasks' = tasks
    BY <2>1, TasksKept DEF Frame, IInv
  <2>2. CASE tasks' # tasks
    <3>1. f.kind = "result" /\ tasks' = Settled(tasks, f)
      BY <2>2 DEF Frame
    <3>2. f \in Result
      BY <1>2, <3>1 DEF Frames, Report
    <3> HIDE DEF f
    <3>3. /\ tasks' \in Seq(Entry) /\ Len(tasks') = Len(tasks)
          /\ \A k \in 1..Len(tasks) : tasks'[k].run = tasks[k].run
      BY <3>1, <3>2, SettledIs DEF IInv, TaskInv
    <3> QED
      BY <3>3 DEF Frame, IInv, TaskInv, WindowOf
  <2> QED
    BY <2>1, <2>2
<1> QED
  BY <1>3, <1>4, <1>5, <1>6 DEF IInv

LEMMA ChaosKillStep ==
  ASSUME IInv, NEW n \in Node, ChaosKill(n)
  PROVE  IInv'
<1>1. LinkInv'
  <2>1. faults' \in 0..MaxFaults
    BY LinksAssumption DEF ChaosKill, Fault, IInv, LinkInv, LinksTypeOK
  <2>2. /\ entry' \in [Node -> [listed : BOOLEAN, link : {0} \union Link,
                                role : {"worker", "leader"}, killed : BOOLEAN]]
        /\ \A m \in Node : entry'[m].link = entry[m].link
    BY DEF ChaosKill, MarkKilled, IInv, LinkInv, LinksTypeOK
  <2> QED
    BY <2>1, <2>2, EntryStep DEF ChaosKill, IInv
<1>2. OrderInv'
  <2>1. [kind |-> "kill", link |-> entry[n].link] \in Order
    BY DEF ChaosKill, MarkKilled, Connected, Order, IInv, LinkInv, LinksTypeOK
  <2>2. UNCHANGED <<nextTask, restarts, accepted>>
    BY DEF ChaosKill
  <2>3. toNode' = [toNode EXCEPT ![n] = @ \union {[kind |-> "kill", link |-> entry[n].link]}]
    BY DEF ChaosKill
  <2>4. toNode' \in [Node -> SUBSET Order]
    BY <2>1, <2>3 DEF IInv, OrderInv
  <2>5. \A m \in Node : \A f \in toNode'[m] : f.kind = "task" => f \in toNode[m]
    BY <2>3 DEF IInv, OrderInv
  <2> QED
    BY <2>2, <2>4, <2>5 DEF IInv, OrderInv, Given, GivenBy
<1>3. QueueInv' /\ TaskInv'
  BY TasksKept DEF ChaosKill, IInv, QueueInv
<1> QED
  BY <1>1, <1>2, <1>3 DEF IInv

LEMMA ExpireStep ==
  ASSUME IInv, Expire
  PROVE  IInv'
<1>1. /\ entry' \in [Node -> [listed : BOOLEAN, link : {0} \union Link,
                              role : {"worker", "leader"}, killed : BOOLEAN]]
      /\ \A m \in Node : entry'[m].link = entry[m].link
  BY DEF Expire, Expired, Unlisted, Connected, IInv, LinkInv, LinksTypeOK
<1>2. LinkInv'
  BY <1>1, EntryStep DEF Expire, IInv, LinkInv, LinksTypeOK
<1> QED
  BY <1>2, OrdersKept, TasksKept DEF Expire, taskVars, IInv, QueueInv, OrderInv

LEMMA SubmitStep ==
  ASSUME IInv, Submit
  PROVE  IInv'
<1>0. PICK i : i = [id |-> nextTask + 1, life |-> restarts]
  OBVIOUS
<1>1. /\ submits' = submits + 1 /\ nextTask' = nextTask + 1 /\ rr' = rr + 1
      /\ submits < MaxSubmits /\ UNCHANGED <<linkVars, leads, toCenter, pending, accepted,
                                              reports, lost>>
  BY DEF Submit
<1>2. PICK leader \in LeadersNow, as \in {"pending", "failed"} :
        /\ tasks' = Added(tasks, [run |-> i, leader |-> leader, state |-> as])
        /\ \/ toNode' = toNode
           \/ toNode' = [toNode EXCEPT ![leader] =
                @ \union {[kind |-> "task", run |-> i, link |-> entry[leader].link]}]
  BY <1>0 DEF Submit, SendFails
<1>3. leader \in Node /\ entry[leader].link \in Link
  BY DEF LeadersNow, Connected, IInv, LinkInv, LinksTypeOK
<1>4. i \in Run /\ restarts \in Nat /\ nextTask \in Nat
  BY <1>0, <1>1, LinksAssumption, TasksAssumption DEF Run, IInv, TaskInv, LinkInv, LinksTypeOK
<1>5. LinkInv' /\ QueueInv'
  BY <1>1 DEF linkVars, IInv, LinkInv, LinksTypeOK, EventsTell, Connected, QueueInv
<1>6. OrderInv'
  <2>1. [kind |-> "task", run |-> i, link |-> entry[leader].link] \in Order
    BY <1>3, <1>4 DEF Order
  <2>2. toNode' \in [Node -> SUBSET Order]
    BY <1>2, <2>1 DEF IInv, OrderInv
  <2>3. \A j \in Run : Given(j) => Given(j)'
    BY <1>1, <1>4 DEF Given, GivenBy, linkVars, Run
  <2>4. Given(i)'
    <3>1. i.id = nextTask' /\ i.life = restarts' /\ nextTask' \in Nat
      BY <1>0, <1>1, <1>4 DEF linkVars
    <3> QED
      BY <3>1 DEF Given, GivenBy
  <2>5. \A n \in Node : \A f \in toNode'[n] :
          f \in toNode[n] \/ f = [kind |-> "task", run |-> i, link |-> entry[leader].link]
    BY <1>2, <1>3 DEF IInv, OrderInv
  <2>6. \A n \in Node : \A f \in toNode[n] : f.kind = "task" => f.run \in Run
    BY DEF IInv, OrderInv, Order
  <2>7. ASSUME NEW n \in Node, NEW f \in toNode'[n], f.kind = "task"
        PROVE  Given(f.run)'
    <3>1. CASE f \in toNode[n]
      <4>1. f.run \in Run /\ Given(f.run)
        BY <2>6, <2>7, <3>1 DEF IInv, OrderInv
      <4> QED
        BY <2>3, <4>1
    <3>2. CASE f = [kind |-> "task", run |-> i, link |-> entry[leader].link]
      <4>1. f.run = i
        BY <3>2
      <4> QED
        BY <2>4, <4>1 DEF Given
    <3> QED
      BY <2>5, <3>1, <3>2
  <2>8. /\ accepted' = accepted /\ accepted \subseteq Run
        /\ \A j \in accepted : Given(j)'
    BY <1>1, <2>3 DEF IInv, OrderInv
  <2> QED
    BY <2>2, <2>7, <2>8 DEF OrderInv
<1>7. TaskInv'
  <2> DEFINE t == [run |-> i, leader |-> leader, state |-> as]
             full == Len(tasks) = MaxTasks
             kept == IF full THEN Tail(tasks) ELSE tasks
  <2>1. t \in Entry /\ t.run = i
    BY <1>3, <1>4 DEF Entry
  <2>2. /\ tasks \in Seq(Entry) /\ Len(tasks) <= MaxTasks /\ Len(tasks) \in Nat
        /\ Len(tasks) <= nextTask
        /\ \A k \in 1..Len(tasks) :
             tasks[k].run = [id |-> (nextTask - Len(tasks)) + k, life |-> restarts]
    BY LenProperties DEF IInv, TaskInv, WindowOf
  <2> HIDE DEF t
  <2>3. /\ tasks' = Append(kept, t)
        /\ kept \in Seq(Entry) /\ Len(kept) = IF full THEN Len(tasks) - 1 ELSE Len(tasks)
        /\ Len(kept) < MaxTasks
        /\ \A k \in 1..Len(kept) : kept[k] = IF full THEN tasks[k + 1] ELSE tasks[k]
    BY <1>2, <2>1, <2>2, AddedIs DEF t
  <2> HIDE DEF kept
  <2>4. /\ tasks' \in Seq(Entry) /\ Len(tasks') = Len(kept) + 1 /\ Len(kept) \in Nat
        /\ \A k \in 1..Len(kept) : tasks'[k] = kept[k]
        /\ tasks'[Len(kept) + 1] = t
    BY <2>1, <2>3, AppendProperties, LenProperties
  <2>5. Len(tasks') <= MaxTasks /\ Len(tasks') <= nextTask'
    BY <1>1, <1>4, <2>2, <2>3, <2>4, TasksAssumption
  <2>6. ASSUME NEW k \in 1..Len(tasks')
        PROVE  tasks'[k].run = [id |-> (nextTask' - Len(tasks')) + k, life |-> restarts']
    <3>0. restarts' = restarts
      BY <1>1 DEF linkVars
    <3>1. CASE k = Len(kept) + 1
      <4>1. (nextTask' - Len(tasks')) + k = nextTask + 1
        BY <1>1, <1>4, <2>4, <3>1
      <4> QED
        BY <1>0, <2>1, <2>4, <3>0, <3>1, <4>1
    <3>2. CASE k # Len(kept) + 1
      <4>1. k \in 1..Len(kept) /\ tasks'[k] = kept[k]
        BY <2>4, <3>2
      <4>2. CASE full
        <5>1. k + 1 \in 1..Len(tasks) /\ tasks'[k] = tasks[k + 1]
          BY <2>2, <2>3, <4>1, <4>2
        <5>2. (nextTask' - Len(tasks')) + k = (nextTask - Len(tasks)) + (k + 1)
          <6>1. nextTask' = nextTask + 1 /\ Len(tasks') = Len(tasks)
            BY <1>1, <2>2, <2>3, <2>4, <4>2
          <6> QED
            BY <1>4, <2>2, <6>1
        <5> QED
          BY <2>2, <3>0, <5>1, <5>2
      <4>3. CASE ~full
        <5>1. k \in 1..Len(tasks) /\ tasks'[k] = tasks[k]
          BY <2>2, <2>3, <4>1, <4>3
        <5>2. (nextTask' - Len(tasks')) + k = (nextTask - Len(tasks)) + k
          BY <1>1, <1>4, <2>2, <2>3, <2>4, <4>1, <4>3
        <5> QED
          BY <2>2, <3>0, <5>1, <5>2
      <4> QED
        BY <4>2, <4>3
    <3> QED
      BY <3>1, <3>2
  <2>7. submits' \in 0..MaxSubmits /\ nextTask' \in 0..submits' /\ rr' \in 0..submits'
    BY <1>1, TasksAssumption DEF IInv, TaskInv
  <2> QED
    BY <2>4, <2>5, <2>6, <2>7 DEF TaskInv, WindowOf
<1> QED
  BY <1>5, <1>6, <1>7 DEF IInv

LEMMA CenterRestartsStep ==
  ASSUME IInv, CenterRestarts
  PROVE  IInv'
<1>1. LinkInv'
  BY LinkStep DEF LinkSteps, CenterRestarts, IInv
<1>2. QueueInv'
  <2>1. \A n \in Node, g \in Link : RunsIn(toCenter[n][g]) \subseteq Run
    BY RunsOf DEF IInv, QueueInv
  <2>2. toCenter' \in [Node -> [Link -> Seq(Frames(reports))]]
    BY EmptySeq DEF CenterRestarts
  <2> QED
    BY <2>1, <2>2, QueuesKept DEF CenterRestarts, IInv, QueueInv
<1>3. OrderInv'
  <2>1. restarts' = restarts + 1 /\ restarts \in Nat
    BY LinksAssumption DEF CenterRestarts, CenterRestart, IInv, LinkInv, LinksTypeOK
  <2>2. \A i \in Run : Given(i) => Given(i)'
    BY <2>1 DEF Given, GivenBy, Run
  <2>3. \A n \in Node : \A f \in toNode[n] : f.kind = "task" => f.run \in Run
    BY DEF IInv, OrderInv, Order
  <2> QED
    BY <2>2, <2>3 DEF CenterRestarts, IInv, OrderInv
<1>4. TaskInv'
  BY EmptySeq, TasksAssumption DEF CenterRestarts, IInv, TaskInv, WindowOf
<1> QED
  BY <1>1, <1>2, <1>3, <1>4 DEF IInv

-----------------------------------------------------------------------------
LEMMA InitIInv == Init => IInv
<1> SUFFICES ASSUME Init PROVE IInv
  OBVIOUS
<1>1. LinkInv
  BY LinksAssumption DEF Init, LinksInit, LinkInv, LinksTypeOK, EventsTell, Connected,
      Unlisted, Stage
<1>2. QueueInv
  BY EmptySeq, TasksAssumption DEF Init, QueueInv
<1>3. OrderInv
  BY DEF Init, OrderInv
<1>4. TaskInv
  BY EmptySeq, TasksAssumption DEF Init, TaskInv, WindowOf
<1> QED
  BY <1>1, <1>2, <1>3, <1>4 DEF IInv

LEMMA NextIInv ==
  ASSUME IInv, [Next]_vars
  PROVE  IInv'
<1>1. CASE UNCHANGED vars
  <2>1. LinkInv' /\ QueueInv'
    BY <1>1 DEF vars, linkVars, taskVars, IInv, LinkInv, LinksTypeOK, EventsTell, Connected,
        QueueInv
  <2>2. OrderInv' /\ TaskInv'
    BY <1>1, OrdersKept, TasksKept DEF vars, linkVars, taskVars, IInv, OrderInv
  <2> QED
    BY <2>1, <2>2 DEF IInv
<1>2. CASE Next
  BY <1>2, ConnectsStep, RegistersStep, FrameStep, EndsStep, LinkEndsStep, SendTelemetryStep,
     RoleChangesStep, CrashesStep, ChaosKillStep, SubmittedStep, RefusedStep, KilledStep,
     LosesOrderStep, ReportsStep, SubmitStep, ExpireStep, CenterRestartsStep DEF Next
<1> QED
  BY <1>1, <1>2

LEMMA SpecIInv == Spec => []IInv
BY InitIInv, NextIInv, PTL DEF Spec

LEMMA TypesAndLinks == IInv => LinksTell
<1> SUFFICES ASSUME IInv PROVE LinksTell
  OBVIOUS
<1>1. \A n \in Node, g \in Link :
        \A k \in DOMAIN toCenter[n][g] : toCenter[n][g][k] \in Result \union Report
  <2>1. SUFFICES ASSUME NEW n \in Node, NEW g \in Link, NEW k \in DOMAIN toCenter[n][g]
                 PROVE  toCenter[n][g][k] \in Result \union Report
    OBVIOUS
  <2>2. toCenter[n][g] \in Seq(Frames(reports))
    BY DEF IInv, QueueInv
  <2>3. toCenter[n][g][k] \in Frames(reports)
    BY <2>2, ElementOfSeq, LenProperties
  <2> QED
    BY <2>3 DEF Frames
<1>2. \A n \in Node : /\ Len(pending[n]) <= ResultBuffer
                     /\ \A k \in DOMAIN pending[n] : pending[n][k] \in Result
  BY ElementOfSeq, LenProperties DEF IInv, QueueInv, Held
<1>3. Len(tasks) <= MaxTasks /\ \A k \in DOMAIN tasks : tasks[k] \in Entry
  BY ElementOfSeq, LenProperties DEF IInv, TaskInv
<1>4. nextTask \in 0..MaxSubmits /\ rr \in 0..MaxSubmits /\ submits \in 0..MaxSubmits
  BY TasksAssumption DEF IInv, TaskInv
<1> QED
  BY <1>1, <1>2, <1>3, <1>4 DEF LinksTell, TypeOK, IInv, LinkInv, QueueInv, OrderInv

\* Whichever links come, go and replace one another, the dashboard's node events tell
\* what is registered, and every frame and entry keeps its type (hub.go).
THEOREM LinksToldAsRegistered == Spec => []LinksTell
BY SpecIInv, TypesAndLinks, PTL
-----------------------------------------------------------------------------
\* The window of tasks is a register of outcomes.

\* What the invariant gives the refinement of the window.
LEMMA WindowFacts ==
  ASSUME IInv
  PROVE  /\ tasks \in Seq(Entry) /\ Len(tasks) \in Nat /\ Len(tasks) <= MaxTasks
         /\ nextTask \in Nat /\ restarts \in Nat /\ WindowOf(tasks, nextTask, restarts)
         /\ DOMAIN tasks = 1..Len(tasks) /\ \A k \in 1..Len(tasks) : tasks[k] \in Entry
BY LenProperties, ElementOfSeq, TasksAssumption, LinksAssumption
   DEF IInv, TaskInv, LinkInv, LinksTypeOK

LEMMA InitRegister == Init => Register!Init
<1> SUFFICES ASSUME Init PROVE Register!Init
  OBVIOUS
<1>1. /\ tasks = <<>> /\ nextTask = 0 /\ restarts = 0 /\ DOMAIN tasks = {}
      /\ \A i \in Run : reports[i] = 0
  BY DEF Init, LinksInit
<1>2. ASSUME NEW i \in Run
      PROVE  OutcomeOf(i) = "none"
  BY <1>1, LinksAssumption, TasksAssumption DEF OutcomeOf, Run
<1>3. [k \in DOMAIN tasks |-> tasks[k].run] = <<>>
  BY <1>1
<1>4. {i \in Run : reports[i] > 0} = {}
  BY <1>1
<1> QED
  BY <1>1, <1>2, <1>3, <1>4 DEF Register!Init

LEMMA RegisterStutters ==
  ASSUME UNCHANGED <<tasks, nextTask, restarts, reports>>
  PROVE  UNCHANGED Register!vars
BY DEF Register!vars, OutcomeOf

LEMMA ReportsWorks ==
  ASSUME IInv, NEW n \in Node, NEW i \in accepted, Reports(n, i)
  PROVE  Register!Work(i) /\ i \in Run
<1>1. i \in Run /\ Given(i) /\ reports \in [Run -> 0..MaxReports]
  BY DEF IInv, OrderInv, QueueInv
<1>2. OutcomeOf(i) # "none"
  <2>1. CASE \A k \in 1..Len(tasks) : tasks[k].run # i
    BY <1>1, <2>1, WindowFacts, ShownAt, OutcomeIsShown DEF Given
  <2>2. CASE \E k \in 1..Len(tasks) : tasks[k].run = i
    <3>1. PICK k \in 1..Len(tasks) : tasks[k].run = i
      BY <2>2
    <3>2. OutcomeOf(i) = tasks[k].state
      BY <3>1, WindowFacts, ShownAt, OutcomeIsShown
    <3> QED
      BY <3>2, WindowFacts DEF Entry
  <2> QED
    BY <2>1, <2>2
<1>3. /\ reports' = [reports EXCEPT ![i] = @ + 1]
      /\ UNCHANGED <<tasks, nextTask, restarts>>
  BY DEF Reports, linkVars
<1>4. {j \in Run : reports[j] > 0}' = {j \in Run : reports[j] > 0} \union {i}
  BY <1>1, <1>3, TasksAssumption
<1>5. [j \in Run |-> OutcomeOf(j)]' = [j \in Run |-> OutcomeOf(j)]
  BY <1>3 DEF OutcomeOf
<1> QED
  BY <1>1, <1>2, <1>3, <1>4, <1>5 DEF Register!Work

LEMMA RestartForgets ==
  ASSUME IInv, CenterRestarts
  PROVE  Register!Forget
<1>1. /\ restarts' = restarts + 1 /\ tasks' = <<>> /\ DOMAIN tasks' = {} /\ nextTask' = 0
      /\ reports' = reports
  BY DEF CenterRestarts, CenterRestart
<1>2. ASSUME NEW i \in Run
      PROVE  OutcomeOf(i)' = IF i.life <= restarts THEN "gone" ELSE OutcomeOf(i)
  <2>1. i.id \in Nat /\ i.id > 0 /\ i.life \in Nat /\ restarts \in Nat
    BY WindowFacts, LinksAssumption, TasksAssumption DEF Run
  <2>2. OutcomeOf(i)' = IF i.life <= restarts THEN "gone" ELSE "none"
    BY <1>1, <2>1 DEF OutcomeOf
  <2>3. ASSUME ~(i.life <= restarts)
        PROVE  OutcomeOf(i) = "none"
    <3>1. ~Given(i)
      BY <2>1, <2>3 DEF Given, GivenBy
    <3>2. \A k \in 1..Len(tasks) : GivenBy(nextTask, restarts, tasks[k].run)
      BY WindowFacts, ShownAt
    <3>3. \A k \in 1..Len(tasks) : tasks[k].run # i
      BY <3>1, <3>2 DEF Given
    <3> QED
      BY <3>1, <3>3, WindowFacts, ShownAt, OutcomeIsShown DEF Given
  <2> QED
    BY <2>2, <2>3
<1>3. [k \in DOMAIN tasks |-> tasks[k].run]' = <<>>
  BY <1>1
<1> QED
  BY <1>1, <1>2, <1>3 DEF Register!Forget

\* A result settles the pending task of its id, or nothing.
LEMMA FrameSettles ==
  ASSUME IInv, NEW n \in Node, NEW g \in Link, Frame(n, g)
  PROVE  \/ UNCHANGED Register!vars
         \/ \E i \in Run : \E as \in {"pending", "done", "failed"} : Register!Settle(i, as)
<1>1. PICK f : f = Head(toCenter[n][g])
  OBVIOUS
<1>2. f \in Frames(reports)
  BY <1>1, HeadTailProperties DEF Frame, IInv, QueueInv
<1>3. UNCHANGED <<nextTask, restarts, reports>>
  BY DEF Frame
<1>4. CASE tasks' = tasks
  BY <1>3, <1>4, RegisterStutters
<1>5. CASE tasks' # tasks
  <2>1. f.kind = "result" /\ tasks' = Settled(tasks, f)
    BY <1>1, <1>5 DEF Frame
  <2>2. f \in Result /\ (f.ok => reports[f.run] > 0)
    BY <1>2, <2>1 DEF Frames, Report
  <2>3. /\ tasks' \in Seq(Entry) /\ Len(tasks') = Len(tasks)
        /\ \A k \in 1..Len(tasks) :
              /\ tasks'[k].run = tasks[k].run
              /\ tasks'[k].state =
                   IF tasks[k].run.id # f.run.id \/ tasks[k].state # "pending" THEN tasks[k].state
                   ELSE IF f.ok THEN "done" ELSE "failed"
    BY <2>1, <2>2, WindowFacts, SettledIs
  <2>4. DOMAIN tasks' = DOMAIN tasks /\ DOMAIN tasks = 1..Len(tasks)
    BY <2>3, LenProperties, WindowFacts
  <2>5. [k \in DOMAIN tasks |-> tasks[k].run]' = [k \in DOMAIN tasks |-> tasks[k].run]
    BY <2>3, <2>4
  <2>6. IInv'
    BY FrameStep
  <2>7. /\ \A k \in 1..Len(tasks) : /\ OutcomeOf(tasks[k].run) = tasks[k].state
                                    /\ Shown(tasks', nextTask', restarts', tasks[k].run) = tasks'[k].state
        /\ \A i \in Run : (\A k \in 1..Len(tasks) : tasks[k].run # i) =>
              OutcomeOf(i)' = OutcomeOf(i)
    <3>1. /\ tasks' \in Seq(Entry) /\ WindowOf(tasks', nextTask', restarts')
          /\ nextTask' \in Nat /\ restarts' \in Nat
      BY <1>3, <2>3, WindowFacts DEF WindowOf
    <3>2. /\ \A k \in 1..Len(tasks') :
               Shown(tasks', nextTask', restarts', tasks'[k].run) = tasks'[k].state
          /\ \A i \in Run : (\A k \in 1..Len(tasks') : tasks'[k].run # i) =>
               Shown(tasks', nextTask', restarts', i) =
                 IF GivenBy(nextTask', restarts', i) THEN "gone" ELSE "none"
      BY <3>1, ShownAt
    <3>3. /\ \A k \in 1..Len(tasks) :
               Shown(tasks, nextTask, restarts, tasks[k].run) = tasks[k].state
          /\ \A i \in Run : (\A k \in 1..Len(tasks) : tasks[k].run # i) =>
               Shown(tasks, nextTask, restarts, i) =
                 IF GivenBy(nextTask, restarts, i) THEN "gone" ELSE "none"
      BY WindowFacts, ShownAt
    <3> QED
      BY <1>3, <2>3, <3>2, <3>3, OutcomeIsShown
  <2>8. CASE \A k \in 1..Len(tasks) : tasks'[k].state = tasks[k].state
    <3>1. \A i \in Run : OutcomeOf(i)' = OutcomeOf(i)
      BY <2>7, <2>8, OutcomeIsShown
    <3> QED
      BY <1>3, <2>5, <3>1 DEF Register!vars
  <2>9. CASE \E k \in 1..Len(tasks) : tasks'[k].state # tasks[k].state
    <3>1. PICK k \in 1..Len(tasks) : tasks'[k].state # tasks[k].state
      BY <2>9
    <3>2. PICK i \in Run : i = tasks[k].run
      BY WindowFacts DEF Entry
    <3>3. PICK as : as = IF f.ok THEN "done" ELSE "failed"
      OBVIOUS
    <3>4. i.id = f.run.id /\ tasks[k].state = "pending" /\ tasks'[k].state = as
      BY <2>3, <3>1, <3>2, <3>3
    <3>5. \A j \in 1..Len(tasks) : j # k => tasks[j].run.id # i.id
      BY <3>2, WindowFacts, ShownAt
    <3>6. ASSUME NEW u \in Run
          PROVE  OutcomeOf(u)' = IF u = i THEN as ELSE OutcomeOf(u)
      <4>1. CASE u = i
        BY <2>7, <3>2, <3>4, <4>1, OutcomeIsShown
      <4>2. CASE \E j \in 1..Len(tasks) : j # k /\ tasks[j].run = u
        <5>1. PICK j \in 1..Len(tasks) : j # k /\ tasks[j].run = u
          BY <4>2
        <5>2. tasks'[j].state = tasks[j].state /\ u # i
          BY <2>3, <3>4, <3>5, <5>1
        <5> QED
          BY <2>7, <5>1, <5>2, OutcomeIsShown
      <4>3. CASE u # i /\ \A j \in 1..Len(tasks) : tasks[j].run # u
        BY <2>7, <4>3
      <4> QED
        BY <3>2, <4>1, <4>2, <4>3
    <3>7. OutcomeOf(i) = "pending"
      BY <2>7, <3>2, <3>4
    <3>8. as = "done" => \E u \in {j \in Run : reports[j] > 0} : u.id = i.id
      BY <2>2, <3>3, <3>4 DEF Result
    <3>9. as \in {"done", "failed"}
      BY <3>3
    <3>10. [u \in Run |-> OutcomeOf(u)]' = [[u \in Run |-> OutcomeOf(u)] EXCEPT ![i] = as]
      BY <3>6
    <3>11. Register!Settle(i, as)
      BY <1>3, <2>5, <3>7, <3>8, <3>9, <3>10 DEF Register!Settle
    <3> QED
      BY <3>9, <3>11
  <2> QED
    BY <2>8, <2>9
<1> QED
  BY <1>4, <1>5

\* A submission takes the next id, and the oldest one leaves a full window.
LEMMA SubmitSubmits ==
  ASSUME IInv, Submit
  PROVE  \E i \in Run : \E as \in {"pending", "done", "failed"} : Register!Submit(i, as)
<1>1. PICK i : i = [id |-> nextTask + 1, life |-> restarts]
  OBVIOUS
<1>2. PICK leader \in LeadersNow, as \in {"pending", "failed"} :
        tasks' = Added(tasks, [run |-> i, leader |-> leader, state |-> as])
  BY <1>1 DEF Submit, SendFails
<1>3. PICK t : t = [run |-> i, leader |-> leader, state |-> as]
  OBVIOUS
<1>4. /\ i \in Run /\ i.id = nextTask + 1 /\ i.life = restarts
      /\ nextTask' = nextTask + 1 /\ UNCHANGED <<restarts, reports>>
  <2>1. submits < MaxSubmits /\ UNCHANGED <<linkVars, reports>> /\ nextTask' = nextTask + 1
    BY DEF Submit
  <2>2. i \in Run
    BY <1>1, <2>1, LinksAssumption, TasksAssumption DEF Run, IInv, TaskInv, LinkInv, LinksTypeOK
  <2> QED
    BY <1>1, <2>1, <2>2 DEF linkVars
<1>5. t \in Entry /\ t.run = i /\ t.state = as /\ tasks' = Added(tasks, t)
  BY <1>2, <1>3, <1>4 DEF Entry, LeadersNow
<1> DEFINE full == Len(tasks) = MaxTasks
           kept == IF full THEN Tail(tasks) ELSE tasks
           old == [k \in DOMAIN tasks |-> tasks[k].run]
<1>6. /\ kept \in Seq(Entry) /\ tasks' = Append(kept, t)
      /\ Len(kept) = IF full THEN Len(tasks) - 1 ELSE Len(tasks)
      /\ \A k \in 1..Len(kept) : kept[k] = IF full THEN tasks[k + 1] ELSE tasks[k]
  BY <1>5, WindowFacts, AddedIs
<1>7. /\ old \in Seq(Run) /\ Len(old) = Len(tasks)
      /\ \A k \in 1..Len(tasks) : old[k] = tasks[k].run
      /\ full => old # <<>> /\ Head(old) = tasks[1].run
  <2>1. old \in [1..Len(tasks) -> Run]
    BY WindowFacts DEF Entry
  <2>2. old \in Seq(Run) /\ Len(old) = Len(tasks)
    BY <2>1, WindowFacts
  <2>3. \A k \in 1..Len(tasks) : old[k] = tasks[k].run
    BY WindowFacts
  <2> HIDE DEF old
  <2>4. ASSUME full
        PROVE  old # <<>> /\ Head(old) = tasks[1].run
    <3>1. old # <<>>
      BY <2>2, <2>4, EmptySeq, TasksAssumption
    <3>2. Head(old) = old[1] /\ 1 \in 1..Len(tasks)
      BY <2>2, <2>4, <3>1, HeadTailProperties, TasksAssumption
    <3> QED
      BY <2>3, <3>1, <3>2
  <2> QED
    BY <2>2, <2>3, <2>4
<1> HIDE DEF kept, old
<1>8. /\ Len(kept) \in Nat /\ Len(tasks') = Len(kept) + 1 /\ DOMAIN tasks' = 1..(Len(kept) + 1)
      /\ \A k \in 1..Len(kept) : tasks'[k] = kept[k]
      /\ tasks'[Len(kept) + 1] = t
  BY <1>5, <1>6, AppendProperties, LenProperties
<1>9. [k \in DOMAIN tasks |-> tasks[k].run]' = Append(IF full THEN Tail(old) ELSE old, i)
  <2> DEFINE rest == IF full THEN Tail(old) ELSE old
  <2>1. /\ rest \in Seq(Run) /\ Len(rest) = Len(kept)
        /\ \A k \in 1..Len(rest) : rest[k] = kept[k].run
    <3>1. CASE full
      <4>1. Tail(old) \in Seq(Run) /\ Len(Tail(old)) = Len(old) - 1
            /\ \A k \in 1..Len(Tail(old)) : Tail(old)[k] = old[k + 1]
        BY <1>7, <3>1, HeadTailProperties
      <4> QED
        BY <1>6, <1>7, <3>1, <4>1, WindowFacts
    <3>2. CASE ~full
      BY <1>6, <1>7, <3>2
    <3> QED
      BY <3>1, <3>2
  <2> HIDE DEF rest
  <2>2. /\ Append(rest, i) \in Seq(Run) /\ Len(Append(rest, i)) = Len(kept) + 1
        /\ \A k \in 1..Len(kept) : Append(rest, i)[k] = kept[k].run
        /\ Append(rest, i)[Len(kept) + 1] = i
    BY <1>4, <2>1, AppendProperties
  <2>3. DOMAIN Append(rest, i) = 1..(Len(kept) + 1)
    BY <2>2, LenProperties
  <2>4. \A k \in 1..(Len(kept) + 1) : tasks'[k].run = Append(rest, i)[k]
    BY <1>5, <1>8, <2>2
  <2>5. [k \in 1..(Len(kept) + 1) |-> tasks'[k].run] = Append(rest, i)
    <3> DEFINE new == [k \in 1..(Len(kept) + 1) |-> tasks'[k].run]
    <3>1. \A k \in 1..(Len(kept) + 1) : Append(rest, i)[k] \in Run
      BY <2>2, ElementOfSeq
    <3>2. new \in [1..(Len(kept) + 1) -> Run]
      BY <2>4, <3>1
    <3>3. new \in Seq(Run) /\ Len(new) = Len(kept) + 1
      BY <1>8, <3>2
    <3>4. \A k \in 1..Len(new) : new[k] = Append(rest, i)[k]
      BY <2>4, <3>3
    <3> HIDE DEF new
    <3>5. new = Append(rest, i)
      BY <2>2, <3>3, <3>4, SeqEqual
    <3> QED
      BY <3>5 DEF new
  <2> QED
    BY <1>8, <2>5 DEF rest
<1>10. /\ \A k \in 1..Len(tasks) : Shown(tasks, nextTask, restarts, tasks[k].run) = tasks[k].state
       /\ \A u \in Run : (\A k \in 1..Len(tasks) : tasks[k].run # u) =>
            Shown(tasks, nextTask, restarts, u) = IF Given(u) THEN "gone" ELSE "none"
       /\ \A k \in 1..Len(tasks) : Given(tasks[k].run)
       /\ \A j, k \in 1..Len(tasks) : tasks[j].run.id = tasks[k].run.id => j = k
  BY WindowFacts, ShownAt DEF Given
<1>11. /\ \A k \in 1..Len(tasks') :
            Shown(tasks', nextTask', restarts', tasks'[k].run) = tasks'[k].state
       /\ \A u \in Run : (\A k \in 1..Len(tasks') : tasks'[k].run # u) =>
            Shown(tasks', nextTask', restarts', u) =
              IF GivenBy(nextTask', restarts', u) THEN "gone" ELSE "none"
  <2>1. IInv'
    BY SubmitStep
  <2>2. /\ tasks' \in Seq(Entry) /\ WindowOf(tasks', nextTask', restarts')
        /\ nextTask' \in Nat /\ restarts' \in Nat
    <3>1. tasks' \in Seq(Entry) /\ nextTask' \in Nat /\ restarts' \in Nat
      <4>1. Append(kept, t) \in Seq(Entry)
        BY <1>5, <1>6, AppendProperties
      <4>2. nextTask \in Nat /\ restarts \in Nat
        BY WindowFacts
      <4>3. nextTask' \in Nat /\ restarts' \in Nat
        BY <1>4, <4>2
      <4>4. tasks' = Append(kept, t)
        BY <1>6
      <4> QED
        BY <4>1, <4>3, <4>4
    <3>2. WindowOf(tasks', nextTask', restarts')
      BY <2>1 DEF IInv, TaskInv
    <3> QED
      BY <3>1, <3>2
  <2> QED
    BY <2>2, ShownAt
<1>12. ~Given(i) /\ \A k \in 1..Len(tasks) : tasks[k].run # i
  <2>1. ~Given(i)
    BY <1>4, WindowFacts DEF Given, GivenBy
  <2> QED
    BY <1>10, <2>1
<1>13. OutcomeOf(i) = "none"
  BY <1>4, <1>10, <1>12, OutcomeIsShown
<1>14. ASSUME NEW u \in Run
       PROVE  OutcomeOf(u)' = IF u = i THEN as
                              ELSE IF full /\ u = Head(old) THEN "gone" ELSE OutcomeOf(u)
  <2>1. CASE u = i
    <3>1. Len(kept) + 1 \in 1..Len(tasks') /\ tasks'[Len(kept) + 1].run = i
      BY <1>5, <1>8
    <3> QED
      BY <1>5, <1>8, <1>11, <2>1, <3>1, OutcomeIsShown
  <2>2. CASE full /\ u = Head(old)
    <3>1. u = tasks[1].run /\ 1 \in 1..Len(tasks)
      BY <1>7, <2>2, TasksAssumption
    <3>2. ASSUME NEW k \in 1..Len(tasks')
          PROVE  tasks'[k].run # u
      <4>1. CASE k = Len(kept) + 1
        BY <1>5, <1>8, <1>12, <3>1, <4>1
      <4>2. CASE k # Len(kept) + 1
        <5>1. k \in 1..Len(kept) /\ tasks'[k] = kept[k]
          BY <1>8, <4>2
        <5>2. tasks'[k] = tasks[k + 1] /\ k + 1 \in 1..Len(tasks)
          BY <1>6, <2>2, <5>1, WindowFacts
        <5> QED
          BY <1>10, <3>1, <5>1, <5>2
      <4> QED
        BY <4>1, <4>2
    <3>3. GivenBy(nextTask', restarts', u)
      <4>1. Given(u) /\ u.id \in Nat
        BY <1>10, <3>1 DEF Run
      <4> QED
        BY <1>4, <4>1, WindowFacts DEF Given, GivenBy
    <3>4. OutcomeOf(u)' = "gone"
      BY <1>11, <3>2, <3>3, OutcomeIsShown
    <3> QED
      BY <1>12, <2>2, <3>1, <3>4
  <2>3. CASE (~(full /\ u = Head(old))) /\ \E j \in 1..Len(tasks) : tasks[j].run = u
    <3>1. PICK j \in 1..Len(tasks) : tasks[j].run = u
      BY <2>3
    <3>2. \E k \in 1..Len(tasks') : tasks'[k] = tasks[j]
      <4>1. CASE full
        <5>1. j # 1
          BY <1>7, <2>3, <3>1, <4>1
        <5>2. PICK k \in Nat : j = k + 1
          BY <5>1, WindowFacts
        <5>3. k \in 1..Len(kept)
          BY <1>6, <4>1, <5>1, <5>2, WindowFacts
        <5>4. kept[k] = tasks[j] /\ k \in 1..Len(tasks')
          BY <1>6, <1>8, <4>1, <5>2, <5>3
        <5> QED
          BY <1>8, <5>3, <5>4
      <4>2. CASE ~full
        <5>1. j \in 1..Len(kept) /\ kept[j] = tasks[j]
          BY <1>6, <4>2
        <5> QED
          BY <1>8, <5>1
      <4> QED
        BY <4>1, <4>2
    <3>3. OutcomeOf(u)' = tasks[j].state
      BY <1>11, <3>1, <3>2, OutcomeIsShown
    <3>4. OutcomeOf(u) = tasks[j].state
      BY <1>10, <3>1, OutcomeIsShown
    <3> QED
      BY <1>12, <2>3, <3>1, <3>3, <3>4
  <2>4. CASE u # i /\ \A j \in 1..Len(tasks) : tasks[j].run # u
    <3>1. ASSUME NEW k \in 1..Len(tasks')
          PROVE  tasks'[k].run # u
      <4>1. CASE k = Len(kept) + 1
        BY <1>5, <1>8, <2>4, <4>1
      <4>2. CASE k # Len(kept) + 1
        <5>1. k \in 1..Len(kept) /\ tasks'[k] = kept[k]
          BY <1>8, <4>2
        <5>2. \E j \in 1..Len(tasks) : kept[k] = tasks[j]
          <6>1. CASE full
            BY <1>6, <5>1, <6>1, WindowFacts
          <6>2. CASE ~full
            BY <1>6, <5>1, <6>2, WindowFacts
          <6> QED
            BY <6>1, <6>2
        <5> QED
          BY <2>4, <5>1, <5>2
      <4> QED
        BY <4>1, <4>2
    <3>2. GivenBy(nextTask', restarts', u) <=> Given(u)
      <4>1. u.id \in Nat /\ u = [id |-> u.id, life |-> u.life]
        BY DEF Run
      <4>2. u.id # nextTask + 1 \/ u.life # restarts
        BY <1>1, <2>4, <4>1
      <4> QED
        BY <1>4, <4>1, <4>2, WindowFacts DEF Given, GivenBy
    <3>3. ~(full /\ u = Head(old))
      BY <1>7, <2>4, TasksAssumption
    <3> QED
      BY <1>10, <1>11, <2>4, <3>1, <3>2, <3>3, OutcomeIsShown
  <2> QED
    BY <2>1, <2>2, <2>3, <2>4
<1>15. [u \in Run |-> OutcomeOf(u)]' =
         [u \in Run |-> IF u = i THEN as
                        ELSE IF full /\ u = Head(old) THEN "gone" ELSE OutcomeOf(u)]
  BY <1>14
<1>16. Register!Submit(i, as)
  BY <1>4, <1>7, <1>9, <1>13, <1>15 DEF Register!Submit, old
<1> QED
  BY <1>4, <1>16

\* Every step is one of the register, or changes nothing of it.
LEMMA NextRegister ==
  ASSUME IInv, [Next]_vars
  PROVE  [Register!Next]_Register!vars
<1>1. CASE UNCHANGED vars
  BY <1>1, RegisterStutters DEF vars, linkVars, taskVars
<1>2. ASSUME NEW n \in Node, NEW g \in Link,
             Connects(n, g) \/ Registers(n, g) \/ Ends(n, g) \/ (CenterDrops(n, g) /\ UNCHANGED taskVars)
      PROVE  UNCHANGED Register!vars
  BY <1>2, RegisterStutters DEF Connects, Dial, Registers, ConnUp, Ends, ConnDown, CenterDrops,
     taskVars
<1>3. ASSUME NEW n \in Node, (NodeDrops(n) \/ Restart(n)) /\ UNCHANGED taskVars
      PROVE  UNCHANGED Register!vars
  BY <1>3, RegisterStutters DEF NodeDrops, Restart, taskVars
<1>4. ASSUME NEW n \in Node, SendTelemetry(n) \/ RoleChanges(n) \/ Crashes(n) \/ ChaosKill(n)
      PROVE  UNCHANGED Register!vars
  BY <1>4, RegisterStutters DEF SendTelemetry, RoleChanges, Crashes, Crash, Forgets, ChaosKill,
     linkVars
<1>5. ASSUME NEW n \in Node, NEW f \in toNode[n],
             Submitted(n, f) \/ Refused(n, f) \/ Killed(n, f) \/ LosesOrder(n, f)
      PROVE  UNCHANGED Register!vars
  BY <1>5, RegisterStutters DEF Submitted, Refused, Killed, Forgets, LosesOrder, linkVars
<1>6. ASSUME Expire
      PROVE  UNCHANGED Register!vars
  BY <1>6, RegisterStutters DEF Expire, taskVars
<1>7. ASSUME CenterRestarts
      PROVE  Register!Next
  BY <1>7, RestartForgets DEF Register!Next
<1>8. ASSUME Submit
      PROVE  Register!Next
  BY <1>8, SubmitSubmits DEF Register!Next
<1>9. ASSUME NEW n \in Node, NEW i \in accepted, Reports(n, i)
      PROVE  Register!Next
  BY <1>9, ReportsWorks DEF Register!Next
<1>10. ASSUME NEW n \in Node, NEW g \in Link, Frame(n, g)
       PROVE  [Register!Next]_Register!vars
  BY <1>10, FrameSettles DEF Register!Next
<1>11. CASE Next
  BY <1>2, <1>3, <1>4, <1>5, <1>6, <1>7, <1>8, <1>9, <1>10, <1>11 DEF Next
<1> QED
  BY <1>1, <1>11

\* The hub's window of tasks, with links that come and go, frames that are lost, nodes
\* that crash and a control center that restarts, comes to no more than a register of
\* outcomes: the newest submissions, each settled once, none done that nobody worked
\* (hub.go: submitTasks, addTask, applyResult).
THEOREM KeepsTheRegister == Spec => KeepsRegister
BY SpecIInv, InitRegister, NextRegister, PTL DEF Spec, KeepsRegister, Register!Spec

-----------------------------------------------------------------------------
(* The simulation settings. *)

Settings == [version : Nat \ {0}, positions : S!Positions, override : S!Override,
             dirty : BOOLEAN]

Listing == [listed : BOOLEAN, link : {0} \union S!Link, role : {"worker", "leader"},
            killed : BOOLEAN]

\* The types the argument rests on.
SimTypes ==
  /\ sim \in Settings
  /\ held \in [Node -> S!Config]
  /\ configs \in [Node -> SUBSET [link : S!Link, config : S!Config]]
  /\ entry \in [Node -> Listing]

\* No version was given out before the first settings: who has none holds nothing.
Unnumbered == \A c \in S!Copies : c.version = 0 => c = S!Nothing

SimInv == SimTypes /\ Unnumbered /\ S!VersionNames /\ S!ListedPlaced

\* Settings t follow s: under a version of their own, or with placements forgotten.
Follows(t, s) == t.version > s.version \/ S!Covers(s, t)

-----------------------------------------------------------------------------
\* Operations on placements and settings.

\* Joining two sets of placements gives placements, of the ids of both.
LEMMA Joint ==
  ASSUME NEW f \in S!Positions, NEW g \in S!Positions
  PROVE  /\ S!Over(f, g) \in S!Positions
         /\ DOMAIN S!Over(f, g) = DOMAIN f \cup DOMAIN g
         /\ \A id \in DOMAIN f : S!Over(f, g)[id] = f[id]
         /\ \A id \in DOMAIN g \ DOMAIN f : S!Over(f, g)[id] = g[id]
<1>1. PICK D \in SUBSET S!Id : f \in [D -> S!Position]
  BY DEF S!Positions
<1>2. PICK E \in SUBSET S!Id : g \in [E -> S!Position]
  BY DEF S!Positions
<1>3. S!Over(f, g) \in [D \cup E -> S!Position]
  BY <1>1, <1>2 DEF S!Over
<1>4. D \cup E \in SUBSET S!Id
  OBVIOUS
<1> QED
  BY <1>1, <1>2, <1>3, <1>4 DEF S!Positions, S!Over

\* The default places of some ids are placements.
LEMMA HomePlaced ==
  ASSUME NEW ids \in SUBSET S!Id
  PROVE  S!Home(ids) \in S!Positions /\ DOMAIN S!Home(ids) = ids
<1>1. S!Home(ids) \in [ids -> S!Position]
  BY DEF S!Home, S!Position
<1> QED
  BY <1>1 DEF S!Positions, S!Home

\* Some of the placements are placements.
LEMMA Some ==
  ASSUME NEW f \in S!Positions, NEW ids, ids \subseteq DOMAIN f
  PROVE  /\ S!Restrict(f, ids) \in S!Positions
         /\ DOMAIN S!Restrict(f, ids) = ids
         /\ \A id \in ids : S!Restrict(f, ids)[id] = f[id]
<1>1. PICK D \in SUBSET S!Id : f \in [D -> S!Position]
  BY DEF S!Positions
<1>2. S!Restrict(f, ids) \in [ids -> S!Position] /\ ids \in SUBSET S!Id
  BY <1>1 DEF S!Restrict
<1> QED
  BY <1>1, <1>2 DEF S!Positions, S!Restrict

\* makeRoom forgets, moves nobody, and keeps the listed.
LEMMA RoomierKeeps ==
  ASSUME NEW p \in S!Positions, NEW listed, NEW extra
  PROVE  LET q == S!Roomier(p, listed, extra)
         IN  /\ q \in S!Positions
             /\ DOMAIN q \subseteq DOMAIN p
             /\ \A id \in DOMAIN q : q[id] = p[id]
             /\ DOMAIN p \cap listed \subseteq DOMAIN q
<1>1. CASE S!Roomier(p, listed, extra) = p
  BY <1>1
<1>2. CASE S!Roomier(p, listed, extra) = S!Restrict(p, DOMAIN p \cap listed)
  BY <1>2, Some
<1> QED
  BY <1>1, <1>2 DEF S!Roomier

\* simJoin: the joiner has a place afterwards, under a new version unless it had one.
LEMMA JoinedFollows ==
  ASSUME NEW s \in Settings, NEW n \in Node, NEW listed
  PROVE  LET t == S!Joined(s, n, listed)
         IN  /\ t \in Settings /\ Follows(t, s)
             /\ n \in DOMAIN t.positions
             /\ DOMAIN s.positions \cap listed \subseteq DOMAIN t.positions
<1>1. CASE n \in DOMAIN s.positions
  BY <1>1 DEF S!Joined, Follows, S!Covers, Settings
<1>2. CASE n \notin DOMAIN s.positions
  <2> DEFINE q == S!Over(S!Home({n}), S!Roomier(s.positions, listed, 1))
  <2>1. s.positions \in S!Positions /\ s.version \in Nat \ {0} /\ s.version + 1 \in Nat \ {0}
    BY DEF Settings
  <2>2. S!Home({n}) \in S!Positions /\ DOMAIN S!Home({n}) = {n}
    BY HomePlaced DEF S!Id
  <2>3. /\ S!Roomier(s.positions, listed, 1) \in S!Positions
        /\ DOMAIN s.positions \cap listed \subseteq DOMAIN S!Roomier(s.positions, listed, 1)
    BY <2>1, RoomierKeeps
  <2>4. q \in S!Positions /\ DOMAIN q = {n} \cup DOMAIN S!Roomier(s.positions, listed, 1)
    BY <2>2, <2>3, Joint
  <2>5. S!Joined(s, n, listed) = [version |-> s.version + 1, positions |-> q,
                               override |-> s.override, dirty |-> TRUE]
    BY <1>2 DEF S!Joined, S!Bumped, Settings
  <2> HIDE DEF q
  <2> QED
    BY <2>1, <2>3, <2>4, <2>5 DEF Settings, Follows
<1> QED
  BY <1>1, <1>2

-----------------------------------------------------------------------------
(* What a step has to do. *)

\* Nothing but what the hub then holds is sent, and nobody gets older settings from nowhere.
Sent == S!Copies' \subseteq S!Copies \cup {S!ConfigOf(sim'), S!Nothing}

\* The step that this is about: the settings follow, and only they are sent.
LEMMA FollowedNames ==
  ASSUME SimInv, SimTypes', Follows(sim', sim), Sent
  PROVE  Unnumbered' /\ S!VersionNames'
<1> DEFINE new == S!ConfigOf(sim')
<1>1. sim \in Settings /\ sim' \in Settings
  BY DEF SimInv, SimTypes
<1>2. /\ new.version = sim'.version /\ new.override = sim'.override
      /\ new.positions = sim'.positions
  BY DEF S!ConfigOf
<1>3. sim.version \in Nat \ {0} /\ sim'.version \in Nat \ {0} /\ sim'.version >= sim.version
  BY <1>1 DEF Follows, S!Covers, Settings
<1>4. \A c \in S!Copies' : c.version \in Nat
  BY DEF SimTypes, S!Copies, S!Config
<1>5. S!Nothing.version = 0 /\ ~(new.version = 0)
  BY <1>2, <1>3 DEF S!Nothing
<1>6. \A c \in S!Copies' : c \in S!Copies \/ c = new \/ c = S!Nothing
  BY DEF Sent
<1>7. Unnumbered'
  BY <1>5, <1>6 DEF SimInv, Unnumbered
<1>8. ASSUME NEW c \in S!Copies'
      PROVE  c.version <= sim'.version /\ (c.version = sim'.version => S!Covers(c, sim'))
  <2>1. CASE c = new
    BY <2>1, <1>2, <1>3 DEF S!Covers
  <2>2. CASE c = S!Nothing
    BY <2>2, <1>3, <1>5
  <2>3. CASE c \in S!Copies
    <3>1. c.version <= sim.version /\ (c.version = sim.version => S!Covers(c, sim))
      BY <2>3 DEF SimInv, S!VersionNames
    <3>2. c.version \in Nat
      BY <1>4
    <3>3. CASE sim'.version > sim.version
      BY <3>1, <3>2, <3>3, <1>3
    <3>4. CASE S!Covers(sim, sim')
      BY <3>1, <3>4 DEF S!Covers
    <3> QED
      BY <3>3, <3>4 DEF Follows
  <2> QED
    BY <2>1, <2>2, <2>3, <1>6
<1>9. ASSUME NEW c \in S!Copies', NEW d \in S!Copies', c.version = d.version
      PROVE  S!Covers(c, d) \/ S!Covers(d, c)
  <2>1. CASE c = new
    BY <2>1, <1>2, <1>8, <1>9 DEF S!Covers
  <2>2. CASE d = new
    BY <2>2, <1>2, <1>8, <1>9 DEF S!Covers
  <2>3. CASE c = S!Nothing \/ d = S!Nothing
    <3>1. c = S!Nothing /\ d = S!Nothing
      BY <2>3, <1>5, <1>7, <1>9 DEF Unnumbered
    <3> QED
      BY <3>1 DEF S!Covers
  <2>4. CASE c \in S!Copies /\ d \in S!Copies
    BY <2>4, <1>9 DEF SimInv, S!VersionNames
  <2> QED
    BY <2>1, <2>2, <2>3, <2>4, <1>6
<1> QED
  BY <1>7, <1>8, <1>9 DEF S!VersionNames

\* No settings travel and none change: what is held and sent is what was, or less.
LEMMA OldNames ==
  ASSUME SimInv, UNCHANGED sim, S!Copies' \subseteq S!Copies
  PROVE  Unnumbered' /\ S!VersionNames'
BY DEF SimInv, Unnumbered, S!VersionNames, S!Covers

\* The settings as they are sent are settings.
LEMMA ConfigIs ==
  ASSUME NEW s \in Settings
  PROVE  S!ConfigOf(s) \in S!Config
BY DEF Settings, S!ConfigOf, S!Config

\* Config of settings that were only announced.
LEMMA Announced ==
  ASSUME NEW s \in Settings, NEW b \in BOOLEAN
  PROVE  [s EXCEPT !.dirty = b] \in Settings /\ S!ConfigOf([s EXCEPT !.dirty = b]) = S!ConfigOf(s)
BY DEF Settings, S!ConfigOf

\* broadcastSim sends what the hub holds, and nothing else.
LEMMA BroadcastSends ==
  ASSUME SimTypes, NEW s \in Settings, S!Broadcast(s), UNCHANGED held
  PROVE  /\ configs' \in [Node -> SUBSET [link : S!Link, config : S!Config]]
         /\ S!Copies' \subseteq S!Copies \cup {S!ConfigOf(s)}
<1>1. ASSUME NEW n \in Node, S!Connected(n)
      PROVE  /\ S!Frame(entry[n], s) \in [link : S!Link, config : S!Config]
             /\ S!Frame(entry[n], s).config = S!ConfigOf(s)
  BY <1>1, ConfigIs DEF SimTypes, Listing, S!Frame, S!Connected
<1>2. \A n \in Node : \/ configs'[n] = configs[n]
                      \/ /\ S!Connected(n)
                         /\ configs'[n] = configs[n] \cup {S!Frame(entry[n], s)}
  BY DEF S!Broadcast
<1>3. configs' \in [Node -> SUBSET [link : S!Link, config : S!Config]]
  BY <1>1 DEF SimTypes, S!Broadcast
<1>4. S!Copies' \subseteq S!Copies \cup {S!ConfigOf(s)}
  <2> SUFFICES ASSUME NEW c \in S!Copies', c \notin S!Copies
               PROVE  c = S!ConfigOf(s)
    OBVIOUS
  <2>1. c \notin {held[n] : n \in Node}
    BY DEF S!Copies
  <2>2. PICK n \in Node : \E f \in configs'[n] : c = f.config
    BY <2>1 DEF S!Copies
  <2>3. PICK f \in configs'[n] : c = f.config
    BY <2>2
  <2>4. f \notin configs[n]
    BY <2>3 DEF S!Copies
  <2>5. S!Connected(n) /\ f = S!Frame(entry[n], s)
    BY <1>2, <2>4
  <2> QED
    BY <1>1, <2>3, <2>5
<1> QED
  BY <1>3, <1>4

\* A step that keeps the types and the names, and lists only who has a place.
LEMMA Rest ==
  ASSUME SimInv, SimTypes', Unnumbered' /\ S!VersionNames',
         \A n \in Node : entry'[n].listed =>
           \/ n \in DOMAIN sim'.positions
           \/ entry[n].listed /\ DOMAIN sim.positions \cap {n} \subseteq DOMAIN sim'.positions
  PROVE  SimInv'
BY DEF SimInv, S!ListedPlaced

-----------------------------------------------------------------------------
(* The actions. *)

LEMMA RegistersKeeps ==
  ASSUME SimInv, NEW n \in Node, NEW g \in S!Link, S!Registers(n, g)
  PROVE  SimInv'
<1> DEFINE listed == {m \in Node : entry'[m].listed}
           s == S!Joined(sim, n, listed)
<1> USE DEF SimInv
<1>1. /\ sim' = s /\ UNCHANGED held
      /\ configs' = [configs EXCEPT ![n] = @ \union {S!Frame(entry'[n], s)}]
      /\ entry' = [entry EXCEPT ![n] = S!Registered(@, g)]
  BY DEF S!Registers, S!ConnUp
<1>2. entry' \in [Node -> Listing] /\ entry'[n].link = g
  BY <1>1 DEF SimTypes, Listing, S!Registered, S!Unlisted
<1>3. \A m \in Node \ {n} : entry'[m].listed => entry[m].listed
  BY <1>1 DEF SimTypes
<1>4. /\ s \in Settings /\ Follows(s, sim)
      /\ n \in DOMAIN s.positions
      /\ DOMAIN sim.positions \cap listed \subseteq DOMAIN s.positions
  BY JoinedFollows DEF SimTypes
<1> HIDE DEF s
<1>5. /\ S!Frame(entry'[n], s) \in [link : S!Link, config : S!Config]
      /\ S!Frame(entry'[n], s).config = S!ConfigOf(s)
  BY <1>2, <1>4, ConfigIs DEF S!Frame
<1>6. SimTypes'
  BY <1>1, <1>2, <1>4, <1>5 DEF SimTypes
<1>7. Sent
  <2> SUFFICES ASSUME NEW c \in S!Copies', c \notin S!Copies
               PROVE  c = S!ConfigOf(s)
    BY <1>1 DEF Sent
  <2>1. c \notin {held[m] : m \in Node}
    BY DEF S!Copies
  <2>2. PICK m \in Node : \E f \in configs'[m] : c = f.config
    BY <1>1, <2>1 DEF S!Copies
  <2>3. PICK f \in configs'[m] : c = f.config
    BY <2>2
  <2>4. f \notin configs[m]
    BY <2>3 DEF S!Copies
  <2>5. f = S!Frame(entry'[n], s)
    BY <1>1, <2>4 DEF SimTypes
  <2> QED
    BY <1>5, <2>3, <2>5
<1>8. Unnumbered' /\ S!VersionNames'
  BY <1>1, <1>4, <1>6, <1>7, FollowedNames
<1> QED
  BY <1>1, <1>3, <1>4, <1>6, <1>8, Rest

LEMMA TickKeeps ==
  ASSUME SimInv, S!Tick
  PROVE  SimInv'
<1> USE DEF SimInv
<1>1. PICK gone \in SUBSET Node : S!Expired(gone)
  BY DEF S!Tick
<1>2. sim' = [sim EXCEPT !.dirty = FALSE] /\ UNCHANGED held
  BY DEF S!Tick
<1>3. sim' \in Settings /\ S!ConfigOf(sim') = S!ConfigOf(sim)
  BY <1>2, Announced DEF SimTypes
<1>4. /\ entry' \in [Node -> Listing]
      /\ \A n \in Node : entry'[n].listed => entry[n].listed
  BY <1>1 DEF S!Expired, SimTypes, Listing, S!Unlisted
<1>5. /\ configs' \in [Node -> SUBSET [link : S!Link, config : S!Config]]
      /\ S!Copies' \subseteq S!Copies \cup {S!ConfigOf(sim)}
  <2>1. CASE S!Broadcast(sim)
    BY <1>2, <2>1, BroadcastSends DEF SimTypes
  <2>2. CASE UNCHANGED configs
    BY <1>2, <2>2 DEF SimTypes, S!Copies
  <2> QED
    BY <2>1, <2>2 DEF S!Tick
<1>6. SimTypes'
  BY <1>2, <1>3, <1>4, <1>5 DEF SimTypes
<1>7. Follows(sim', sim) /\ Sent
  BY <1>2, <1>3, <1>5 DEF Follows, S!Covers, Sent, SimTypes, Settings
<1>8. sim'.positions = sim.positions
  BY <1>2 DEF SimTypes, Settings
<1> QED
  BY <1>4, <1>6, <1>7, <1>8, FollowedNames, Rest

\* What an update asks for, applied: nobody loses a place.
LEMMA AppliedKeeps ==
  ASSUME NEW s \in Settings, NEW u \in S!Request
  PROVE  /\ S!Applied(s, u) \in Settings
         /\ DOMAIN s.positions \subseteq DOMAIN S!Applied(s, u).positions
<1> DEFINE p == IF u.reset THEN S!Home(DOMAIN s.positions) ELSE s.positions
<1>1. s.positions \in S!Positions /\ u.moves \in S!Positions
  BY DEF Settings, S!Request
<1>2. DOMAIN s.positions \in SUBSET S!Id
  BY <1>1 DEF S!Positions
<1>3. p \in S!Positions /\ DOMAIN p = DOMAIN s.positions
  BY <1>1, <1>2, HomePlaced
<1>4. S!Over(u.moves, p) \in S!Positions /\ DOMAIN s.positions \subseteq DOMAIN S!Over(u.moves, p)
  BY <1>1, <1>3, Joint
<1> DEFINE o == IF u.override = -1 THEN s.override ELSE u.override
<1>5. o \in S!Override
  BY DEF Settings, S!Request
<1>6. S!Applied(s, u) = [s EXCEPT !.override = o, !.positions = S!Over(u.moves, p)]
  BY DEF S!Applied
<1> HIDE DEF p, o
<1> QED
  BY <1>4, <1>5, <1>6 DEF Settings

\* bumpSim gives the same settings a version of their own.
LEMMA BumpedIs ==
  ASSUME NEW s \in Settings, NEW b \in BOOLEAN
  PROVE  LET t == [S!Bumped(s) EXCEPT !.dirty = b]
         IN  /\ S!Bumped(s) \in Settings /\ t \in Settings
             /\ S!ConfigOf(t) = S!ConfigOf(S!Bumped(s))
             /\ t.version > s.version /\ t.positions = s.positions
<1>1. s.version + 1 \in Nat \ {0} /\ s.version + 1 > s.version
  BY DEF Settings
<1>2. S!Bumped(s) \in Settings
  BY <1>1 DEF S!Bumped, Settings
<1>3. S!Bumped(s).version = s.version + 1 /\ S!Bumped(s).positions = s.positions
  BY DEF S!Bumped, Settings
<1> QED
  BY <1>1, <1>2, <1>3 DEF Settings, S!ConfigOf

LEMMA UpdateKeeps ==
  ASSUME S!SimAssumption, SimInv, NEW u \in Requests, S!Update(u)
  PROVE  SimInv'
<1> DEFINE listed == {n \in Node : entry[n].listed}
           new == S!Cardinality(DOMAIN u.moves \ DOMAIN sim.positions)
           roomy == IF new = 0 THEN sim
                    ELSE [sim EXCEPT !.positions = S!Roomier(@, listed, new)]
           s == S!Applied(roomy, u)
<1> USE DEF SimInv
<1>1. sim \in Settings /\ sim.positions \in S!Positions /\ UNCHANGED <<held, entry>>
  BY DEF SimTypes, Settings, S!Update, S!linkVars
<1>2. /\ roomy \in Settings /\ S!Covers(sim, roomy) /\ roomy.version = sim.version
      /\ DOMAIN sim.positions \cap listed \subseteq DOMAIN roomy.positions
  <2> DEFINE q == S!Roomier(sim.positions, listed, new)
  <2>1. /\ q \in S!Positions /\ DOMAIN q \subseteq DOMAIN sim.positions
        /\ \A id \in DOMAIN q : q[id] = sim.positions[id]
        /\ DOMAIN sim.positions \cap listed \subseteq DOMAIN q
    BY <1>1, RoomierKeeps
  <2> HIDE DEF q
  <2>2. CASE roomy = sim
    BY <1>1, <2>2 DEF S!Covers
  <2>3. CASE roomy = [sim EXCEPT !.positions = q]
    BY <1>1, <2>1, <2>3 DEF S!Covers, Settings
  <2> HIDE DEF new
  <2> QED
    BY <2>2, <2>3 DEF q
<1>3. u \in S!Request
  BY DEF S!SimAssumption
<1> HIDE DEF roomy
<1>4. s \in Settings /\ DOMAIN roomy.positions \subseteq DOMAIN s.positions
  BY <1>2, <1>3, AppliedKeeps
<1> HIDE DEF s
<1>5. \/ sim' = roomy /\ UNCHANGED configs
      \/ sim' = [S!Bumped(s) EXCEPT !.dirty = FALSE] /\ S!Broadcast(S!Bumped(s))
  BY DEF S!Update, roomy, s
<1>6. s.version = roomy.version
  BY <1>2, <1>3 DEF s, S!Applied, Settings
<1>7. CASE sim' = roomy /\ UNCHANGED configs
  <2>1. SimTypes' /\ Follows(sim', sim) /\ Sent
    BY <1>1, <1>2, <1>7 DEF SimTypes, Follows, Sent, S!Copies
  <2>2. Unnumbered' /\ S!VersionNames'
    BY <2>1, FollowedNames
  <2> QED
    BY <1>1, <1>2, <1>7, <2>1, <2>2, Rest
<1>8. CASE sim' = [S!Bumped(s) EXCEPT !.dirty = FALSE] /\ S!Broadcast(S!Bumped(s))
  <2>1. /\ S!Bumped(s) \in Settings /\ sim' \in Settings
        /\ S!ConfigOf(sim') = S!ConfigOf(S!Bumped(s))
        /\ sim'.version > sim.version /\ sim'.positions = s.positions
    BY <1>2, <1>4, <1>6, <1>8, BumpedIs
  <2>2. /\ configs' \in [Node -> SUBSET [link : S!Link, config : S!Config]]
        /\ S!Copies' \subseteq S!Copies \cup {S!ConfigOf(S!Bumped(s))}
    BY <1>1, <1>8, <2>1, BroadcastSends DEF SimTypes
  <2>3. SimTypes' /\ Follows(sim', sim) /\ Sent
    BY <1>1, <2>1, <2>2 DEF SimTypes, Follows, Sent
  <2>4. Unnumbered' /\ S!VersionNames'
    BY <2>3, FollowedNames
  <2> QED
    BY <1>1, <1>2, <1>4, <2>1, <2>3, <2>4, Rest
<1> QED
  BY <1>5, <1>7, <1>8

LEMMA SetPositionsKeeps ==
  ASSUME SimInv, NEW moves \in S!Positions, S!SetPositions(moves)
  PROVE  SimInv'
<1> DEFINE listed == {n \in DOMAIN moves : n \in Node /\ entry[n].listed}
           r == S!Restrict(moves, listed)
           p == S!Over(r, sim.positions)
           s == [sim EXCEPT !.positions = p]
<1> USE DEF SimInv
<1>1. /\ sim \in Settings /\ sim.positions \in S!Positions
      /\ UNCHANGED <<held, configs, entry>>
      /\ sim' = [S!Bumped(s) EXCEPT !.dirty = TRUE]
  BY DEF SimTypes, Settings, S!SetPositions, S!linkVars
<1>2. r \in S!Positions
  BY Some
<1> HIDE DEF listed, r
<1>3. p \in S!Positions /\ DOMAIN p = DOMAIN r \cup DOMAIN sim.positions
  BY <1>1, <1>2, Joint
<1> HIDE DEF p
<1>4. s \in Settings /\ s.version = sim.version /\ s.positions = p
  BY <1>1, <1>3 DEF Settings
<1> HIDE DEF s
<1>5. /\ sim' \in Settings /\ sim'.version > sim.version /\ sim'.positions = p
  BY <1>1, <1>4, BumpedIs
<1>6. SimTypes' /\ Follows(sim', sim) /\ Sent
  BY <1>1, <1>5 DEF SimTypes, Follows, Sent, S!Copies
<1> QED
  BY <1>1, <1>3, <1>5, <1>6, FollowedNames, Rest

LEMMA CenterRestartsKeeps ==
  ASSUME SimInv, S!CenterRestarts
  PROVE  SimInv'
<1> USE DEF SimInv
<1>1. /\ sim \in Settings /\ sim' = S!Fresh(sim.version) /\ UNCHANGED <<held, configs>>
      /\ entry' = [n \in Node |-> S!Unlisted]
  BY DEF SimTypes, S!CenterRestarts, S!CenterRestart
<1>2. <<>> \in S!Positions
  <2>1. <<>> \in [{} -> S!Position]
    OBVIOUS
  <2> QED
    BY <2>1 DEF S!Positions
<1>3. sim' \in Settings /\ sim'.version > sim.version
  BY <1>1, <1>2 DEF Settings, S!Fresh, S!Override
<1>4. SimTypes' /\ Follows(sim', sim) /\ Sent
  BY <1>1, <1>3 DEF SimTypes, Listing, S!Unlisted, Follows, Sent, S!Copies
<1>5. \A n \in Node : ~entry'[n].listed
  BY <1>1 DEF S!Unlisted
<1> QED
  BY <1>4, <1>5, FollowedNames, Rest

\* Steps in which the hub's settings stand still.
LEMMA StillKeeps ==
  ASSUME SimInv, SimTypes', UNCHANGED sim, S!Copies' \subseteq S!Copies \cup {S!Nothing},
         \A n \in Node : entry'[n].listed => entry[n].listed
  PROVE  SimInv'
<1>1. Follows(sim', sim) /\ Sent
  BY DEF Follows, S!Covers, Sent
<1> QED
  BY <1>1, FollowedNames, Rest DEF SimInv

LEMMA NodeSideKeeps ==
  ASSUME SimInv, NEW n \in Node,
         \/ S!Crashes(n) \/ S!Tunes(n)
         \/ \E f \in configs[n] : S!Receives(n, f) \/ S!LosesConfig(n, f)
  PROVE  SimInv'
<1> USE DEF SimInv
<1>1. CASE S!Tunes(n)
  BY <1>1, StillKeeps DEF S!Tunes, S!linkVars, SimTypes, S!Copies
<1>2. CASE S!Crashes(n)
  <2>1. /\ UNCHANGED <<sim, entry>>
        /\ configs' = [configs EXCEPT ![n] = {}] /\ held' = [held EXCEPT ![n] = S!Nothing]
    BY <1>2 DEF S!Crashes, S!Crash
  <2>2. S!Nothing \in S!Config
    <3>1. <<>> \in [{} -> S!Position]
      OBVIOUS
    <3> QED
      BY <3>1 DEF S!Nothing, S!Config, S!Positions, S!Override
  <2>3. SimTypes' /\ S!Copies' \subseteq S!Copies \cup {S!Nothing}
    BY <2>1, <2>2 DEF SimTypes, S!Copies
  <2> QED
    BY <2>1, <2>3, StillKeeps
<1>3. ASSUME NEW f \in configs[n], S!Receives(n, f)
      PROVE  SimInv'
  <2>1. /\ UNCHANGED <<sim, entry>>
        /\ configs' = [configs EXCEPT ![n] = @ \ {f}]
        /\ held' = held \/ held' = [held EXCEPT ![n] = f.config]
    BY <1>3 DEF S!Receives, S!linkVars
  <2>2. SimTypes' /\ S!Copies' \subseteq S!Copies
    BY <2>1 DEF SimTypes, S!Copies
  <2> QED
    BY <2>1, <2>2, StillKeeps
<1>4. ASSUME NEW f \in configs[n], S!LosesConfig(n, f)
      PROVE  SimInv'
  <2>1. UNCHANGED <<sim, entry, held>> /\ configs' = [configs EXCEPT ![n] = @ \ {f}]
    BY <1>4 DEF S!LosesConfig, S!linkVars
  <2>2. SimTypes' /\ S!Copies' \subseteq S!Copies
    BY <2>1 DEF SimTypes, S!Copies
  <2> QED
    BY <2>1, <2>2, StillKeeps
<1> QED
  BY <1>1, <1>2, <1>3, <1>4

LEMMA LinksKeep ==
  ASSUME SimInv, UNCHANGED S!simVars, NEW n \in Node,
         \/ \E g \in S!Link : S!Dial(n, g) \/ S!ConnDown(n, g) \/ S!CenterDrops(n, g)
         \/ S!NodeDrops(n) \/ S!Restart(n)
  PROVE  SimInv'
<1>1. entry' = entry \/ entry' = [entry EXCEPT ![n].link = 0]
  BY DEF S!Dial, S!ConnDown, S!CenterDrops, S!NodeDrops, S!Restart
<1>2. SimTypes' /\ S!Copies' = S!Copies /\ sim' = sim
  BY <1>1 DEF SimInv, SimTypes, Listing, S!Copies, S!simVars
<1>3. \A m \in Node : entry'[m].listed => entry[m].listed
  BY <1>1 DEF SimInv, SimTypes, Listing
<1> QED
  BY <1>2, <1>3, StillKeeps

-----------------------------------------------------------------------------
LEMMA InitSimInv == S!Init => SimInv
<1> SUFFICES ASSUME S!Init
             PROVE  SimInv
  OBVIOUS
<1>1. <<>> \in S!Positions
  <2>1. <<>> \in [{} -> S!Position]
    OBVIOUS
  <2> QED
    BY <2>1 DEF S!Positions
<1>2. S!Nothing \in S!Config
  BY <1>1 DEF S!Nothing, S!Config, S!Override
<1>3. SimTypes
  BY <1>1, <1>2 DEF S!Init, S!LinksInit, SimTypes, Settings, S!Fresh, S!Override, Listing,
     S!Unlisted
<1>4. S!Copies \subseteq {S!Nothing}
  BY DEF S!Init, S!Copies
<1>5. Unnumbered /\ S!VersionNames
  BY <1>4 DEF Unnumbered, S!VersionNames, S!Covers, S!Nothing, S!Init, S!Fresh
<1>6. S!ListedPlaced
  BY DEF S!Init, S!LinksInit, S!ListedPlaced, S!Unlisted
<1> QED
  BY <1>3, <1>5, <1>6 DEF SimInv

LEMMA NextSimInv ==
  ASSUME S!SimAssumption
  PROVE  SimInv /\ [S!Next]_S!vars => SimInv'
<1> SUFFICES ASSUME SimInv, [S!Next]_S!vars
             PROVE  SimInv'
  OBVIOUS
<1>1. CASE UNCHANGED S!vars
  BY <1>1, StillKeeps DEF S!vars, S!simVars, S!linkVars, SimInv, SimTypes, S!Copies
<1>2. ASSUME NEW n \in Node, NEW g \in S!Link, S!Registers(n, g)
      PROVE  SimInv'
  BY <1>2, RegistersKeeps
<1>3. ASSUME NEW n \in Node, UNCHANGED S!simVars,
             \/ \E g \in S!Link : S!Dial(n, g) \/ S!ConnDown(n, g) \/ S!CenterDrops(n, g)
             \/ S!NodeDrops(n) \/ S!Restart(n)
      PROVE  SimInv'
  BY <1>3, LinksKeep
<1>4. ASSUME NEW n \in Node,
             \/ S!Crashes(n) \/ S!Tunes(n)
             \/ \E f \in configs[n] : S!Receives(n, f) \/ S!LosesConfig(n, f)
      PROVE  SimInv'
  BY <1>4, NodeSideKeeps
<1>5. CASE S!Tick
  BY <1>5, TickKeeps
<1>6. CASE S!CenterRestarts
  BY <1>6, CenterRestartsKeeps
<1>7. ASSUME NEW u \in Requests, S!Update(u)
      PROVE  SimInv'
  BY <1>7, UpdateKeeps
<1>8. ASSUME NEW n \in Node, NEW p \in S!Position, S!SetPositions([id \in {n} |-> p])
      PROVE  SimInv'
  <2>1. [id \in {n} |-> p] \in [{n} -> S!Position] /\ {n} \in SUBSET S!Id
    BY DEF S!Id
  <2>2. [id \in {n} |-> p] \in S!Positions
    BY <2>1 DEF S!Positions
  <2> QED
    BY <1>8, <2>2, SetPositionsKeeps
<1> QED
  BY <1>1, <1>2, <1>3, <1>4, <1>5, <1>6, <1>7, <1>8 DEF S!Next

-----------------------------------------------------------------------------
(* What the nodes tune, and what is counted. *)

Tuning ==
  /\ passed \in [Node -> S!Override] /\ tuned \in [Node -> S!Override]
  /\ slot \in [Node -> {-1} \union S!Override]
  /\ missed \in [Node -> Nat] /\ refused \in BOOLEAN /\ updates \in 0..MaxUpdates

\* A set of numbers with a bound has a greatest one.
LEMMA GreatestOf ==
  ASSUME NEW b \in Nat, NEW nums \in SUBSET (0..b), nums # {}
  PROVE  S!Max(nums) \in Nat
<1> DEFINE below == {b - x : x \in nums}
<1>1. below \subseteq Nat /\ below # {}
  <2>1. \A x \in nums : x \in 0..b /\ b - x \in Nat
    OBVIOUS
  <2>2. \E x : x \in nums
    OBVIOUS
  <2> QED
    BY <2>1, <2>2
<1>2. PICK y \in below : \A x \in below : ~(<<x, y>> \in OpToRel(<, Nat))
  BY <1>1, WFMin, NatLessThanWellFounded
<1>3. PICK x \in nums : y = b - x
  BY <1>2
<1>4. \A z \in nums : x >= z
  <2> SUFFICES ASSUME NEW z \in nums
               PROVE  x >= z
    OBVIOUS
  <2>1. ~(b - z < b - x)
    BY <1>1, <1>2, <1>3 DEF OpToRel
  <2> QED
    BY <2>1
<1>5. S!Max(nums) \in nums
  BY <1>3, <1>4 DEF S!Max
<1>6. nums \subseteq Nat
  OBVIOUS
<1> QED
  BY <1>5, <1>6

LEMMA TuningKeeps ==
  ASSUME S!SimAssumption, SimInv, Tuning, [S!Next]_S!vars
  PROVE  Tuning'
<1> USE DEF Tuning
<1>1. CASE UNCHANGED S!vars
  BY <1>1 DEF S!vars, S!simVars
<1>2. ASSUME NEW n \in Node, NEW g \in S!Link, S!Registers(n, g)
      PROVE  Tuning'
  BY <1>2 DEF S!Registers
<1>3. ASSUME UNCHANGED S!simVars
      PROVE  Tuning'
  BY <1>3 DEF S!simVars
<1>4. ASSUME NEW n \in Node, S!Tunes(n)
      PROVE  Tuning'
  BY <1>4 DEF S!Tunes
<1>5. ASSUME NEW n \in Node, S!Crashes(n)
      PROVE  Tuning'
  <2> DEFINE nums == {missed[n]} \union {f.config.version : f \in configs[n]}
             b == missed[n] + sim.version
  <2>1. \A f \in configs[n] : f.config.version \in Nat /\ f.config.version <= sim.version
    BY DEF SimInv, SimTypes, S!Config, S!VersionNames, S!Copies
  <2>2. sim.version \in Nat /\ missed[n] \in Nat
    BY DEF SimInv, SimTypes, Settings
  <2>3. b \in Nat /\ nums \in SUBSET (0..b) /\ nums # {}
    BY <2>1, <2>2
  <2> HIDE DEF nums, b
  <2>4. S!Max(nums) \in Nat
    BY <2>3, GreatestOf
  <2>5. missed' = [missed EXCEPT ![n] = S!Max(nums)]
    BY <1>5 DEF S!Crashes, nums
  <2> QED
    BY <1>5, <2>4, <2>5 DEF S!Crashes, S!Override
<1>6. ASSUME NEW n \in Node, NEW f \in configs[n], S!Receives(n, f) \/ S!LosesConfig(n, f)
      PROVE  Tuning'
  <2>1. f.config.override \in S!Override /\ f.config.version \in Nat
    BY DEF SimInv, SimTypes, S!Config
  <2> QED
    BY <1>6, <2>1 DEF S!Receives, S!LosesConfig
<1>7. CASE S!Tick \/ S!CenterRestarts
  BY <1>7 DEF S!Tick, S!CenterRestarts
<1>8. ASSUME NEW u \in Requests, S!Update(u)
      PROVE  Tuning'
  <2>1. updates' \in 0..MaxUpdates
    BY <1>8 DEF S!Update, S!SimAssumption
  <2>2. refused' \in BOOLEAN /\ UNCHANGED <<passed, slot, tuned, missed>>
    BY <1>8 DEF S!Update
  <2> QED
    BY <2>1, <2>2
<1>9. ASSUME NEW n \in Node, NEW p \in S!Position, S!SetPositions([id \in {n} |-> p])
      PROVE  Tuning'
  BY <1>9 DEF S!SetPositions, S!SimAssumption
<1> QED
  BY <1>1, <1>2, <1>3, <1>4, <1>5, <1>6, <1>7, <1>8, <1>9 DEF S!Next

\* The settings go over the same links.
LEMMA LinksOfSettings ==
  ASSUME LinkInv, [S!Next]_S!vars
  PROVE  LinkInv'
<1>1. CASE UNCHANGED S!vars
  <2>1. UNCHANGED <<running, uplink, sock, entry, news, faults, restarts>>
    BY <1>1 DEF S!vars, S!linkVars
  <2> QED
    BY <2>1 DEF LinkInv, LinksTypeOK, EventsTell, Connected
<1>2. ASSUME NEW n \in Node, NEW g \in S!Link,
             S!Registers(n, g) \/ S!Dial(n, g) \/ S!ConnDown(n, g) \/ S!CenterDrops(n, g)
      PROVE  LinkInv'
  <2>1. /\ g \in Link
        /\ ConnUp(n, g) \/ Dial(n, g) \/ ConnDown(n, g) \/ CenterDrops(n, g)
    BY <1>2 DEF S!Link, Link, S!Registers, S!ConnUp, ConnUp, S!Registered, Registered,
       S!Unlisted, Unlisted, S!Dial, Dial, S!ConnDown, ConnDown, S!CenterDrops, CenterDrops,
       S!Fault, Fault
  <2> QED
    BY <2>1, LinkStep DEF LinkSteps
<1>3. ASSUME NEW n \in Node, S!Crashes(n) \/ S!NodeDrops(n) \/ S!Restart(n)
      PROVE  LinkInv'
  <2>1. Crash(n) \/ NodeDrops(n) \/ Restart(n)
    BY <1>3 DEF S!Crashes, S!Crash, Crash, S!NodeDrops, NodeDrops, S!Restart, Restart,
       S!Fault, Fault
  <2> QED
    BY <2>1, LinkStep DEF LinkSteps
<1>4. ASSUME NEW n \in Node, S!Tunes(n) \/ \E f \in configs[n] : S!Receives(n, f)
      PROVE  LinkInv'
  <2>1. UNCHANGED <<running, uplink, sock, entry, news, faults, restarts>>
    BY <1>4 DEF S!Tunes, S!Receives, S!linkVars
  <2> QED
    BY <2>1 DEF LinkInv, LinksTypeOK, EventsTell, Connected
<1>5. ASSUME NEW n \in Node, NEW f \in configs[n], S!LosesConfig(n, f)
      PROVE  LinkInv'
  <2>1. UNCHANGED <<running, uplink, sock, entry, news, restarts>> /\ faults' \in 0..MaxFaults
    BY <1>5, LinksAssumption DEF S!LosesConfig, S!linkVars, S!Fault, LinkInv, LinksTypeOK
  <2> QED
    BY <2>1, EntryStep DEF LinkInv, LinksTypeOK
<1>6. CASE S!Tick
  <2>1. /\ entry' \in [Node -> [listed : BOOLEAN, link : {0} \union Link,
                                role : {"worker", "leader"}, killed : BOOLEAN]]
        /\ \A m \in Node : entry'[m].link = entry[m].link
    BY <1>6 DEF S!Tick, S!Expired, S!Unlisted, S!Connected, LinkInv, LinksTypeOK
  <2> QED
    BY <1>6, <2>1, EntryStep DEF S!Tick, LinkInv, LinksTypeOK
<1>7. CASE S!CenterRestarts
  <2>1. CenterRestart
    BY <1>7 DEF S!CenterRestarts, S!CenterRestart, CenterRestart, S!Link, Link, S!Unlisted,
       Unlisted, S!Fault, Fault
  <2> QED
    BY <2>1, LinkStep DEF LinkSteps
<1>8. ASSUME NEW u, NEW moves, S!Update(u) \/ S!SetPositions(moves)
      PROVE  LinkInv'
  <2>1. UNCHANGED <<running, uplink, sock, entry, news, faults, restarts>>
    BY <1>8 DEF S!Update, S!SetPositions, S!linkVars
  <2> QED
    BY <2>1 DEF LinkInv, LinksTypeOK, EventsTell, Connected
<1> QED
  BY <1>1, <1>2, <1>3, <1>4, <1>5, <1>6, <1>7, <1>8 DEF S!Next

-----------------------------------------------------------------------------
(* Both parts. *)

\* The part of the run keeps its invariant; of the settings the types hold in any case.
Both ==
  /\ which \in {"tasks", "settings"}
  /\ which = "tasks" => IInv
  /\ which = "settings" => LinkInv /\ SimInv
  /\ sim \in Settings /\ held \in [Node -> S!Config]
  /\ configs \in [Node -> SUBSET [link : S!Link, config : S!Config]]
  /\ Tuning

LEMMA InitBoth ==
  ASSUME S!SimAssumption
  PROVE  MCInit => Both
<1> SUFFICES ASSUME MCInit
             PROVE  Both
  OBVIOUS
<1>1. IInv /\ which \in {"tasks", "settings"}
  BY InitIInv DEF MCInit
<1>2. SimInv
  BY InitSimInv DEF MCInit
<1>3. Tuning
  <2>1. 0 \in S!Override /\ -1 \in {-1} \union S!Override /\ 0 \in 0..MaxUpdates
    BY DEF S!Override, S!SimAssumption
  <2> QED
    BY <2>1 DEF MCInit, S!Init, Tuning
<1> QED
  BY <1>1, <1>2, <1>3 DEF Both, IInv, SimInv, SimTypes

LEMMA NextBoth ==
  ASSUME S!SimAssumption
  PROVE  Both /\ [MCNext]_<<which, vars, settings>> => Both'
<1> SUFFICES ASSUME Both, [MCNext]_<<which, vars, settings>>
             PROVE  Both'
  OBVIOUS
<1>1. CASE which = "tasks" /\ [Next]_vars /\ UNCHANGED <<which, settings>>
  <2>1. IInv'
    BY <1>1, NextIInv DEF Both
  <2> QED
    BY <1>1, <2>1 DEF Both, settings, Tuning
<1>2. CASE which = "settings" /\ [S!Next]_S!vars /\ UNCHANGED <<which, taskVars>>
  <2>1. LinkInv' /\ SimInv'
    BY <1>2, LinksOfSettings, NextSimInv DEF Both
  <2>2. Tuning'
    BY <1>2, TuningKeeps DEF Both
  <2> QED
    BY <1>2, <2>1, <2>2 DEF Both, SimInv, SimTypes
<1>3. CASE UNCHANGED <<which, vars, settings>>
  <2>1. UNCHANGED S!vars
    BY <1>3 DEF vars, linkVars, settings, S!vars, S!linkVars, S!simVars
  <2> QED
    BY <1>1, <1>2, <1>3, <2>1 DEF Both, vars
<1> QED
  BY <1>1, <1>2, <1>3 DEF MCNext

\* What the parts keep is what the run checks.
LEMMA BothSound == Both => SettingsSound
<1> SUFFICES ASSUME Both
             PROVE  SettingsSound
  OBVIOUS
<1>1. LinksTypeOK
  BY DEF Both, IInv, LinkInv
<1>2. S!LinksTypeOK
  BY <1>1 DEF LinksTypeOK, S!LinksTypeOK, S!Link, Link, S!Stage, Stage
<1>3. S!ConfigOf(sim) \in S!Config /\ sim.dirty \in BOOLEAN
  BY ConfigIs DEF Both, Settings
<1>4. S!TypeOK
  BY <1>2, <1>3 DEF S!TypeOK, Both, Tuning
<1> QED
  BY <1>4 DEF SettingsSound, S!SettingsSound, Both, SimInv

\* However versions overtake each other, links are replaced, requests are refused and the
\* center restarts: no node holds anything newer than the hub, two copies of one version
\* say the same of all that the later one names, and a listed node has a place (sim.go
\* bumpSim, simJoin, makeRoom, updateSim; hub.go mavSetPositions).
THEOREM SettingsNameOneContent == MCSpec => []SettingsSound
BY CenterAssumption, InitBoth, NextBoth, BothSound, PTL DEF MCSpec
=============================================================================
