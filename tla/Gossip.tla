-------------------------------- MODULE Gossip --------------------------------
(***************************************************************************)
(* SWIM-style membership as pkg/cluster runs it: every node keeps a table  *)
(* of member records, raises and times its own doubts, pushes what it saw  *)
(* first-hand, gossips its whole table to one peer at a time, and refutes  *)
(* rumours about itself.  One action is one event handled by a node's      *)
(* single-threaded loop (Node.Run), the trailing evaluate included.        *)
(*                                                                         *)
(* Abstracted: connections (handshakes complete and links break at any     *)
(* time), the failure detector's clocks and miss counts (a doubt may be    *)
(* raised, and an own doubt may time out, at any time), and the election's *)
(* answer (any role).  Frames may be lost (a full send queue, a broken     *)
(* link), delayed, and overtake each other.                                *)
(***************************************************************************)
EXTENDS MemberTable, FiniteSets

CONSTANTS Node,
          Subject,       \* the members whose records a run follows
          MaxSeq,        \* bound on the claims a life publishes
          MaxFaults,     \* bound on crashes, departures, broken links, doubts
          MaxNet,        \* bound on frames in flight; more are lost when sent
          ClockOutruns   \* the wall clock a restart reads has passed every
                         \* incarnation the node announced and the death
                         \* recorded past it (main.go's premise)

ASSUME GossipAssumption ==
  /\ Subject \subseteq Node
  /\ MaxSeq \in Nat \ {0}
  /\ MaxFaults \in Nat
  /\ MaxNet \in Nat
  /\ ClockOutruns \in BOOLEAN

VARIABLES up,        \* the processes running
          inc,       \* inc[n]: n's own incarnation (Node.incarnation)
          boot,      \* boot[n]: the incarnation n's process started with, the
                     \* one its handshakes carry (Pool Identity); 0 before any
          top,       \* top[n]: the highest incarnation n has announced (history)
          table,     \* table[n][m]: n's record of m (Node.table)
          doubt,     \* doubt[n][m]: the incarnation of n's first-hand doubt
                     \* about m (Node.suspects), 0 for none
          silent,    \* silent[n]: the members whose doubt was raised by
                     \* missed heartbeats (suspicion.silent)
          net,       \* frames and handshake events in flight
          faults     \* faults spent

vars == <<up, inc, boot, top, table, doubt, silent, net, faults>>

-----------------------------------------------------------------------------
NoView == [m \in Subject |-> NoRecord]
NoDoubts == [m \in Subject |-> 0]

View == [Subject -> Record \cup {NoRecord}]

Frame == [type: {"delta"}, from: Node, to: Node, view: View]
           \cup [type: {"leave"}, from: Node, to: Node]
           \cup [type: {"up"}, from: Subject, to: Node, inc: Incarnation]

Known(row, m) == row[m] # NoRecord

Only(row, m) == [NoView EXCEPT ![m] = row[m]]

Delta(n, q, row) == [type |-> "delta", from |-> n, to |-> q, view |-> row]

\* Transport.Broadcast: one frame to every connected peer.
Broadcast(n, row) == {Delta(n, q, row) : q \in up \ {n}}

\* pushRecord, announceSelf
Push(n, row, m) == IF Known(row, m) THEN Broadcast(n, Only(row, m)) ELSE {}

\* The frames in handled leave the network; any of those sent may get lost.
Post(handled, sends) ==
  \E kept \in SUBSET sends :
    /\ net' = (net \ handled) \cup kept
    /\ kept # {} => Cardinality(net') <= MaxNet

\* evaluate, as far as the table goes: the election answers role, and a node
\* writes and announces its own role only.
Evaluated(n, row, role) ==
  [m \in Subject |-> IF m = n /\ row[n].claim.seq < MaxSeq
                     THEN SetRole(row[n], role) ELSE row[m]]

\* The end of every handler: the table n is left with, evaluated when the
\* handler changed it, and the frames sent; the frame handled is gone.
Finish(n, row, changed, handled, sends) ==
  \E role \in IF changed THEN Role ELSE {"worker"} :
    LET last == IF changed THEN Evaluated(n, row, role) ELSE row
        told == IF last = row THEN {} ELSE Push(n, last, n)
    IN  /\ table' = [table EXCEPT ![n] = last]
        /\ Post(handled, sends \cup told)

Fault == faults < MaxFaults /\ faults' = faults + 1

-----------------------------------------------------------------------------
\* What the handlers do to one member's record and doubt.

\* markDead and markLeft: SetState dead, the doubt is gone with it.
Buried(row, m) ==
  IF Known(row, m) THEN [row EXCEPT ![m] = SetState(@, Dead)] ELSE row

\* delete(n.suspects, m)
NoDoubt(n, m) ==
  /\ doubt' = [doubt EXCEPT ![n][m] = 0]
  /\ silent' = [silent EXCEPT ![n] = @ \ {m}]

Bury(n, m, handled) ==
  /\ n \in up /\ m \in Subject \ {n}
  /\ NoDoubt(n, m)
  /\ LET row == Buried(table[n], m)
         changed == row # table[n]
     IN  Finish(n, row, changed, handled, IF changed THEN Push(n, row, m) ELSE {})
  /\ UNCHANGED <<up, inc, boot, top>>

\* suspect(): the record and the timer.  A doubt already timed keeps its timer;
\* a new one is timed at the incarnation held now.
Doubtable(row, m) == Known(row, m) /\ row[m].st # Dead

Suspected(row, m) ==
  IF Doubtable(row, m) THEN [row EXCEPT ![m] = SetState(@, Suspect)] ELSE row

\* Mutant: no timer for a member a rumour already made suspect.
TimedIfAlive(n, m) ==
  IF Known(table[n], m) /\ table[n][m].st = Alive /\ doubt[n][m] = 0
  THEN table[n][m].inc ELSE doubt[n][m]

Timed(n, m) ==
  IF Doubtable(table[n], m) /\ doubt[n][m] = 0 THEN table[n][m].inc ELSE doubt[n][m]

\* markSuspect, or markSilent when m is in beats.
Suspects(n, m, beats, evaluates) ==
  /\ n \in up /\ m \in Subject \ {n}
  /\ Fault
  /\ doubt' = [doubt EXCEPT ![n][m] = Timed(n, m)]
  /\ silent' = [silent EXCEPT ![n] =
                  IF Doubtable(table[n], m) THEN @ \cup beats ELSE @]
  /\ LET row == Suspected(table[n], m)
         changed == row # table[n]
     IN  Finish(n, row, changed \/ evaluates, {}, IF changed THEN Push(n, row, m) ELSE {})
  /\ UNCHANGED <<up, inc, boot, top>>

-----------------------------------------------------------------------------
\* Lives.

FirstRecord(i) == [st |-> Alive, inc |-> i,
                   claim |-> [role |-> "worker", score |-> NoScore, seq |-> 1]]

Init ==
  /\ up = {}
  /\ inc = [n \in Node |-> 0]
  /\ boot = [n \in Node |-> 0]
  /\ top = [n \in Node |-> 0]
  /\ table = [n \in Node |-> NoView]
  /\ doubt = [n \in Node |-> NoDoubts]
  /\ silent = [n \in Node |-> {}]
  /\ net = {}
  /\ faults = 0

\* NewNode and Run's first evaluate.  The incarnation is the wall clock, later
\* than at the last start; that of a node nobody follows is never read.
Start(n, i) ==
  /\ n \notin up
  /\ IF n \in Subject THEN i > boot[n] ELSE i = 1
  /\ ClockOutruns /\ n \in Subject /\ top[n] > 0 => i > top[n] + 1
  /\ up' = up \cup {n}
  /\ inc' = [inc EXCEPT ![n] = i]
  /\ boot' = [boot EXCEPT ![n] = i]
  /\ top' = [top EXCEPT ![n] = IF @ < i THEN i ELSE @]
  /\ LET row == IF n \in Subject THEN [NoView EXCEPT ![n] = FirstRecord(i)]
                ELSE NoView
     IN  Finish(n, row, TRUE, {}, {})
  /\ UNCHANGED <<doubt, silent, faults>>

Gone(n) ==
  /\ up' = up \ {n}
  /\ table' = [table EXCEPT ![n] = NoView]
  /\ doubt' = [doubt EXCEPT ![n] = NoDoubts]
  /\ silent' = [silent EXCEPT ![n] = {}]
  /\ UNCHANGED <<inc, boot, top>>

\* The process dies: its memory and the frames it had not read go with it.
Crash(n) ==
  /\ n \in up
  /\ Fault
  /\ Gone(n)
  /\ Post({f \in net : f.to = n}, {})

\* shutdown: a LEAVE to every peer.
Leave(n) ==
  /\ n \in up \cap Subject
  /\ Fault
  /\ Gone(n)
  /\ Post({f \in net : f.to = n},
          {[type |-> "leave", from |-> n, to |-> q] : q \in up \ {n}})

-----------------------------------------------------------------------------
\* Transport events.

\* A completed handshake queues a PeerUp at n with m's start incarnation.
Handshake(n, m) ==
  /\ n \in up /\ m \in (up \cap Subject) \ {n}
  /\ Post({}, {[type |-> "up", from |-> m, to |-> n, inc |-> boot[m]]})
  /\ UNCHANGED <<up, inc, boot, top, table, doubt, silent, faults>>

\* handlePeerEvent, PeerUp
PeerUp(n, f) ==
  /\ f \in net /\ f.type = "up" /\ f.to = n /\ n \in up /\ f.from # n
  /\ LET m == f.from
         old == table[n][m]
         met == [st |-> Alive, inc |-> f.inc,
                 claim |-> [role |-> IF old = NoRecord THEN "worker" ELSE old.claim.role,
                            score |-> IF old = NoRecord THEN NoScore ELSE old.claim.score,
                            seq |-> 0]]
         new == Revive(IF old = NoRecord THEN met ELSE Merge(old, met), f.inc)
         row == [table[n] EXCEPT ![m] = new]
     IN  /\ NoDoubt(n, m)
         /\ Finish(n, row, row # table[n], {f}, {Delta(n, m, row)})
  /\ UNCHANGED <<up, inc, boot, top, faults>>

\* handlePeerEvent, PeerDown without a goodbye.
PeerLost(n, m) == Suspects(n, m, {}, FALSE)

\* handlePeerEvent, PeerDown by a clean close or a protocol violation; also a
\* malformed payload (payloadOrPoison).
PeerGone(n, m) == Fault /\ Bury(n, m, {})

-----------------------------------------------------------------------------
\* Timers.

\* gossipRound: the whole table to one peer not held dead.
GossipRound(n, q) ==
  /\ n \in up /\ q \in Node \ {n}
  /\ q \in Subject => Known(table[n], q) /\ table[n][q].st # Dead
  /\ q \in up
  /\ Post({}, {Delta(n, q, table[n])})
  /\ UNCHANGED <<up, inc, boot, top, table, doubt, silent, faults>>

\* controlTick: doubts that no longer match the record are forgotten, those in
\* late are confirmed (expireSuspicions), then the tombstones in old are collected
\* (sweepTombstones).
Matches(n, m) ==
  /\ Known(table[n], m)
  /\ table[n][m].st = Suspect
  /\ table[n][m].inc = doubt[n][m]

\* Mutant: tombstones are never collected.
NoneCollected(row, old) == row

Collected(row, old) == [m \in Subject |-> IF m \in old THEN NoRecord ELSE row[m]]

ControlTick(n, late, old) ==
  /\ n \in up
  /\ late \subseteq {m \in Subject : doubt[n][m] # 0 /\ Matches(n, m)}
  /\ old \subseteq {m \in Subject \ {n} : Known(table[n], m) /\ table[n][m].st = Dead}
  /\ doubt' = [doubt EXCEPT ![n] = [m \in Subject |->
                  IF Matches(n, m) /\ m \notin late THEN doubt[n][m] ELSE 0]]
  /\ silent' = [silent EXCEPT ![n] = {m \in @ : Matches(n, m) /\ m \notin late}]
  /\ LET confirmed == [m \in Subject |->
                         IF m \in late THEN SetState(table[n][m], Dead) ELSE table[n][m]]
         pushed == UNION {Push(n, confirmed, m) : m \in late}
         row == Collected(confirmed, old)
     IN  Finish(n, row, late # {}, {}, pushed)
  /\ UNCHANGED <<up, inc, boot, top, faults>>

\* checkLeaderSilence, the tick on which leader m has missed its last beat.
LeaderSilent(n, m) == Suspects(n, m, {m}, TRUE)

\* handleHeartbeat: a current beat clears a doubt raised by silence
\* (beatResumed), at the incarnation the doubt was raised at.
BeatResumed(n, m) ==
  /\ n \in up /\ m \in Subject \ {n}
  /\ m \in silent[n]
  /\ NoDoubt(n, m)
  /\ LET row == IF Known(table[n], m)
                THEN [table[n] EXCEPT ![m] = Revive(@, doubt[n][m])]
                ELSE table[n]
     IN  Finish(n, row, row # table[n], {}, {})
  /\ UNCHANGED <<up, inc, boot, top, faults>>

\* applyProbeRound, updateSelfScore and the evaluate that follows them: the
\* members in missed reached SuspectAfter, those in failed DeadAfter, those in
\* clear were suspects that answered, and the median moved to score.  A running
\* member that misses its probes is a fault; so is an answer that outlives its
\* sender.
ProbeRound(n, missed, failed, clear, score) ==
  /\ n \in up
  /\ missed \cup failed \subseteq {m \in Subject \ {n} : Doubtable(table[n], m)}
  /\ clear \subseteq {m \in Subject \ {n} : Known(table[n], m) /\ table[n][m].st = Suspect}
  /\ clear \cap silent[n] = {}
  /\ missed \cap failed = {} /\ (missed \cup failed) \cap clear = {}
  /\ IF (missed \cup failed) \cap up = {} /\ clear \subseteq up
     THEN UNCHANGED faults ELSE Fault
  /\ LET row == [m \in Subject |->
                   IF m \in missed THEN SetState(table[n][m], Suspect)
                   ELSE IF m \in failed THEN SetState(table[n][m], Dead)
                   ELSE IF m \in clear THEN Revive(table[n][m], table[n][m].inc)
                   ELSE IF m = n /\ table[n][n].claim.seq < MaxSeq
                        THEN SetScore(table[n][n], score)
                   ELSE table[n][m]]
     IN  Finish(n, row, TRUE, {},
                UNION {Push(n, row, m) : m \in {k \in Subject \ clear : row[k] # table[n][k]}})
  /\ doubt' = [doubt EXCEPT ![n] = [m \in Subject |->
                  IF m \in missed THEN Timed(n, m)
                  ELSE IF m \in failed \cup clear THEN 0 ELSE doubt[n][m]]]
  /\ silent' = [silent EXCEPT ![n] = @ \ failed]
  /\ UNCHANGED <<up, inc, boot, top>>

\* evaluate with no table change before it: the floor timer, a rejected JOIN,
\* new tuning.
Reevaluate(n) ==
  /\ n \in up
  /\ Finish(n, table[n], TRUE, {}, {})
  /\ UNCHANGED <<up, inc, boot, top, doubt, silent, faults>>

-----------------------------------------------------------------------------
\* Frames.

\* handleMembershipDelta.  A record about the receiver goes to refuteIfNeeded;
\* the others are merged; the election runs only if one of them changed the table.
Refutes(n, view) ==
  /\ n \in Subject /\ Known(view, n)
  /\ view[n].st # Alive
  /\ view[n].inc >= inc[n]

HandleDelta(n, f) ==
  /\ f \in net /\ f.type = "delta" /\ f.to = n /\ n \in up
  /\ LET i == IF Refutes(n, f.view) THEN NextIncarnation(f.view[n].inc) ELSE inc[n]
         refuted == IF n \in Subject
                    THEN [table[n] EXCEPT ![n] =
                            Merge(@, [table[n][n] EXCEPT !.inc = i])]
                    ELSE table[n]
         row == [m \in Subject |->
                   IF m # n /\ Known(f.view, m)
                   THEN Heard(table[n][m], f.view[m], m = f.from)
                   ELSE refuted[m]]
     IN  /\ inc' = [inc EXCEPT ![n] = i]
         /\ top' = [top EXCEPT ![n] = IF @ < i THEN i ELSE @]
         /\ Finish(n, row, row # refuted, {f},
                   IF Refutes(n, f.view) THEN Push(n, refuted, n) ELSE {})
  /\ UNCHANGED <<up, boot, doubt, silent, faults>>

\* LEAVE ends in markLeft.
HandleLeave(n, f) ==
  /\ f \in net /\ f.type = "leave" /\ f.to = n
  /\ Bury(n, f.from, {f})
  /\ UNCHANGED faults

-----------------------------------------------------------------------------
Handle(n, f) == PeerUp(n, f) \/ HandleDelta(n, f) \/ HandleLeave(n, f)

Next ==
  \/ \E n \in Node, i \in Incarnation : Start(n, i)
  \/ \E n \in Node : Crash(n) \/ Leave(n) \/ Reevaluate(n)
  \/ \E n, m \in Node :
       \/ Handshake(n, m)
       \/ PeerLost(n, m)
       \/ PeerGone(n, m)
       \/ LeaderSilent(n, m)
       \/ BeatResumed(n, m)
       \/ GossipRound(n, m)
  \/ \E n \in Node, late, old \in SUBSET Subject : ControlTick(n, late, old)
  \/ \E n \in Node, missed, failed, clear \in SUBSET Subject, s \in Score :
       ProbeRound(n, missed, failed, clear, s)
  \/ \E n \in Node, f \in net : Handle(n, f)

Spec == Init /\ [][Next]_vars

-----------------------------------------------------------------------------
TypeOK ==
  /\ up \subseteq Node
  /\ inc \in [Node -> 0..MaxInc]
  /\ boot \in [Node -> 0..MaxInc]
  /\ top \in [Node -> 0..MaxInc]
  /\ table \in [Node -> View]
  /\ doubt \in [Node -> [Subject -> 0..MaxInc]]
  /\ silent \in [Node -> SUBSET Subject]
  /\ net \subseteq Frame
  /\ faults \in 0..MaxFaults

\* Every record of m, wherever it is: in a table or in a frame.
RecordsOf(m) ==
  {r \in {table[n][m] : n \in Node}
           \cup {f.view[m] : f \in {g \in net : g.type = "delta"}} : r # NoRecord}

\* A running node holds itself alive at the incarnation it speaks for: no rumour
\* about it ever reaches its own record (handleMembershipDelta sends every record
\* about the receiver to refuteIfNeeded).
OwnRecord == \A n \in up \cap Subject :
  table[n][n] # NoRecord /\ table[n][n].st = Alive /\ table[n][n].inc = inc[n]

\* Nobody but m makes m's incarnations: a record of m, in any table or frame, is at
\* an incarnation m has announced, or is the death one past it (SetState).
NoForgedLife == \A m \in Subject : \A r \in RecordsOf(m) :
  r.inc <= (IF r.st = Dead THEN NextIncarnation(top[m]) ELSE top[m])

\* What a running node says of itself is never outranked by an old "alive" or
\* "suspect" of its own (member.go: its own claim must defeat a stale rumour).
AuthorOutranks == \A m \in up \cap Subject : \A r \in RecordsOf(m) :
  r.st # Dead => r.inc <= inc[m]

\* Two records of m with the same incarnation and the same non-zero seq carry the
\* same role and score, so nodes that hold them elect from the same facts (Upsert's
\* fourth rule; without it nodes elected from different scores).
ClaimAgreement == \A m \in Subject : \A r, s \in RecordsOf(m) :
  (r.inc = s.inc /\ r.claim.seq = s.claim.seq /\ r.claim.seq > 0) => r.claim = s.claim

\* What a node says at one incarnation holds wherever it is held, and outranks
\* whatever was said of it before.
ClaimsHold == ClaimAgreement /\ AuthorOutranks

-----------------------------------------------------------------------------
(***************************************************************************)
(* Fairness.  Every timer fires again and again, a frame that keeps being  *)
(* sent gets through now and then, a frame that arrived is handled (the    *)
(* loop selects among ready channels at random), and a node that is down   *)
(* answers no probe.                                                       *)
(***************************************************************************)
Fairness ==
  /\ \A n \in Node : \A q \in Node \ {n} :
       /\ SF_vars(GossipRound(n, q) /\ Delta(n, q, table[n]) \in net')
       /\ WF_vars(\E f \in net : f.from = q /\ HandleDelta(n, f))
       /\ WF_vars(\E f \in net : f.from = q /\ f.type # "delta" /\ Handle(n, f))
  /\ \A n \in Node, m \in Subject :
       /\ WF_vars(ControlTick(n, {m}, {}))
       /\ WF_vars(ControlTick(n, {}, {}))
       /\ WF_vars(m \notin up /\ \E s \in Score : ProbeRound(n, {m}, {}, {}, s))

\* Tombstones do reach their TTL.
Collection == \A n \in Node, m \in Subject : WF_vars(ControlTick(n, {}, {m}))

LiveSpec == Spec /\ Fairness /\ Collection

\* No incarnation is left to refute with.
AtCeiling == \E m \in Subject : top[m] >= MaxInc - 1

\* However the faults fell, once they stop every running node ends up holding of
\* every running member exactly what that member says of itself.
Converged == \A n \in up, m \in up \cap Subject : table[n][m] = table[m][m]
Heals == <>[](Converged \/ AtCeiling)

\* A member that went down without a word is buried by every running node that
\* holds it, through the suspicion timer alone (SuspectAfter misses, then the
\* timeout), whatever rumours are about.
Ghost(n, m) == n \in up /\ m \notin up /\ Known(table[n], m) /\ table[n][m].st # Dead
CrashBuried == \A n \in Node, m \in Subject : Ghost(n, m) ~> ~Ghost(n, m)

\* A running member held dead by a running node.
WronglyDead(n, m) ==
  n \in up /\ m \in up /\ Known(table[n], m) /\ table[n][m].st = Dead

\* Nodes that collect a death at different times do not hand it back to each other
\* for ever (failure.go, sweepTombstones): on links that no longer break, a running
\* member ends up dead in nobody's table.
NoHandBack ==
  <>[][\A n, m \in Node : ~Handshake(n, m)]_vars
    => <>[](AtCeiling \/ \A n \in Node, m \in Subject : ~WronglyDead(n, m))
=============================================================================
