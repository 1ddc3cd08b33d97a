----------------------------- MODULE GossipProofs -----------------------------
(***************************************************************************)
(* Safety of Gossip for every set of nodes and every bound: the types, the *)
(* record a node holds of itself, that nobody invents a life of somebody   *)
(* else, and that a claim stays what its owner made it.  One inductive     *)
(* invariant carries the first three, a second one the claims.             *)
(***************************************************************************)
EXTENDS Gossip, TLAPS

-----------------------------------------------------------------------------
(***************************************************************************)
(* What Table's operations do to one record: they keep it a record, and    *)
(* none of them invents an incarnation.                                    *)
(***************************************************************************)

\* NextIncarnation stays under the ceiling and never goes back.
LEMMA NextIncarnationType ==
  ASSUME NEW i \in 0..MaxInc
  PROVE  /\ NextIncarnation(i) \in 0..MaxInc
         /\ NextIncarnation(i) >= i
         /\ i \in Incarnation => NextIncarnation(i) \in Incarnation
BY MaxIncAssumption DEF NextIncarnation, Incarnation

\* NextIncarnation keeps the order of two incarnations.
LEMMA NextIncarnationMonotone ==
  ASSUME NEW i \in 0..MaxInc, NEW j \in 0..MaxInc, i <= j
  PROVE  NextIncarnation(i) <= NextIncarnation(j)
BY MaxIncAssumption DEF NextIncarnation

\* The claim kept by a merge is a claim.
LEMMA MergedClaimType ==
  ASSUME NEW c \in Claim, NEW d \in Claim
  PROVE  MergedClaim(c, d) \in Claim
BY DEF MergedClaim, Claim

\* Merging two records gives a record.
LEMMA MergeType ==
  ASSUME NEW r \in Record, NEW s \in Record
  PROVE  Merge(r, s) \in Record
<1>1. MergedClaim(r.claim, s.claim) \in Claim
  BY MergedClaimType DEF Record
<1>2. Worse(r.st, s.st) \in State
  BY DEF Worse, Record
<1> QED
  BY <1>1, <1>2 DEF Merge, Record

LEMMA SetStateType ==
  ASSUME NEW r \in Record, NEW s \in State
  PROVE  SetState(r, s) \in Record
<1>1. r.inc \in Incarnation /\ r.inc \in 0..MaxInc
  BY DEF Record, Incarnation
<1>2. NextIncarnation(r.inc) \in Incarnation
  BY <1>1, NextIncarnationType
<1> QED
  BY <1>1, <1>2 DEF SetState, Record

LEMMA ReviveType ==
  ASSUME NEW r \in Record, NEW i \in 0..MaxInc
  PROVE  Revive(r, i) \in Record
<1>1. r.inc \in Incarnation
  BY DEF Record
<1>2. ~(i < r.inc) => i \in Incarnation
  BY <1>1, MaxIncAssumption DEF Incarnation
<1>3. Alive \in State
  BY DEF State
<1> QED
  BY <1>2, <1>3 DEF Revive, Record

\* The author's writes keep the record one, alive or not, at its incarnation.
LEMMA RestatedType ==
  ASSUME NEW r \in Record, NEW role \in Role, NEW score \in Score
  PROVE  /\ Restated(r, role, score) \in Record
         /\ Restated(r, role, score).st = r.st
         /\ Restated(r, role, score).inc = r.inc
<1>1. r.claim.seq + 1 \in Nat
  BY DEF Record, Claim
<1>2. [role |-> role, score |-> score, seq |-> r.claim.seq + 1] \in Claim
  BY <1>1 DEF Claim
<1> QED
  BY <1>2 DEF Restated, Record

LEMMA SetRoleType ==
  ASSUME NEW r \in Record, NEW role \in Role
  PROVE  /\ SetRole(r, role) \in Record
         /\ SetRole(r, role).st = r.st
         /\ SetRole(r, role).inc = r.inc
<1>1. r.claim.score \in Score
  BY DEF Record, Claim
<1> QED
  BY <1>1, RestatedType DEF SetRole

LEMMA SetScoreType ==
  ASSUME NEW r \in Record, NEW score \in Score
  PROVE  /\ SetScore(r, score) \in Record
         /\ SetScore(r, score).st = r.st
         /\ SetScore(r, score).inc = r.inc
<1>1. r.claim.role \in Role
  BY DEF Record, Claim
<1> QED
  BY <1>1, RestatedType DEF SetScore

LEMMA BelievedType ==
  ASSUME NEW held \in Record \cup {NoRecord}, NEW r \in Record,
         NEW firstHand
  PROVE  /\ Believed(held, r, firstHand) \in Record
         /\ Believed(held, r, firstHand).st = r.st
         /\ Believed(held, r, firstHand).inc = r.inc
<1>1. (IF held = NoRecord THEN "worker" ELSE held.claim.role) \in Role
  BY DEF Record, Claim, Role
<1> QED
  BY <1>1 DEF Believed, Record, Claim

\* A rumour leaves a record, or nothing where nothing was held.
LEMMA HeardType ==
  ASSUME NEW held \in Record \cup {NoRecord}, NEW r \in Record,
         NEW firstHand
  PROVE  Heard(held, r, firstHand) \in Record \cup {NoRecord}
BY BelievedType, MergeType DEF Heard

-----------------------------------------------------------------------------
\* A record is at an incarnation its member has announced (t is the highest), or
\* is the death one past it.
Fits(r, t) == r.inc <= IF r.st = Dead THEN NextIncarnation(t) ELSE t

GoodRow(row, tp) ==
  /\ row \in View
  /\ \A m \in Subject : row[m] # NoRecord => Fits(row[m], tp[m])

GoodFrame(f, tp) ==
  /\ f \in Frame
  /\ f.type = "delta" => GoodRow(f.view, tp)
  /\ f.type = "up" => f.inc <= tp[f.from]

\* A process started at an incarnation it has announced, and whatever is doubted
\* was announced: what a handshake or a resumed beat may bring back to life.
Announced ==
  /\ \A n \in Node : boot[n] <= top[n] /\ (n \in up => boot[n] >= 1)
  /\ \A n \in Node, m \in Subject : doubt[n][m] <= top[m]

IInv ==
  /\ TypeOK
  /\ OwnRecord
  /\ \A n \in Node : GoodRow(table[n], top)
  /\ \A f \in net : GoodFrame(f, top)
  /\ Announced

-----------------------------------------------------------------------------
\* Operations on one record keep it fitting.

LEMMA FitsMonotone ==
  ASSUME NEW r \in Record, NEW t \in 0..MaxInc, NEW u \in 0..MaxInc,
         t <= u, Fits(r, t)
  PROVE  Fits(r, u)
<1>1. NextIncarnation(t) <= NextIncarnation(u)
  BY NextIncarnationMonotone
<1>2. NextIncarnation(t) \in Int /\ NextIncarnation(u) \in Int /\ r.inc \in Int
  BY NextIncarnationType DEF Record, Incarnation
<1> QED
  BY <1>1, <1>2 DEF Fits

LEMMA FitsMerge ==
  ASSUME NEW r \in Record, NEW s \in Record, NEW t \in 0..MaxInc,
         Fits(r, t), Fits(s, t)
  PROVE  Fits(Merge(r, s), t)
<1>1. r.inc \in Int /\ s.inc \in Int /\ r.st \in State /\ s.st \in State
  BY DEF Record, Incarnation
<1>2. NextIncarnation(t) \in Int /\ NextIncarnation(t) >= t
  BY NextIncarnationType
<1>3. CASE r.inc = s.inc
  <2>1. Merge(r, s).inc = r.inc /\ Merge(r, s).st = Worse(r.st, s.st)
    BY <1>1, <1>3 DEF Merge, Record
  <2>2. Worse(r.st, s.st) \in {r.st, s.st}
    BY DEF Worse
  <2> QED
    BY <1>1, <1>2, <1>3, <2>1, <2>2 DEF Fits
<1>4. CASE r.inc # s.inc
  BY <1>1, <1>4 DEF Merge
<1> QED
  BY <1>3, <1>4

LEMMA FitsHeard ==
  ASSUME NEW held \in Record \cup {NoRecord}, NEW r \in Record,
         NEW firstHand, NEW t \in 0..MaxInc,
         held # NoRecord => Fits(held, t), Fits(r, t),
         Heard(held, r, firstHand) # NoRecord
  PROVE  Fits(Heard(held, r, firstHand), t)
<1> DEFINE b == Believed(held, r, firstHand)
<1>1. b \in Record /\ b.st = r.st /\ b.inc = r.inc
  BY BelievedType
<1>2. Fits(b, t)
  BY <1>1 DEF Fits
<1> QED
  BY <1>1, <1>2, FitsMerge DEF Heard

LEMMA FitsSetState ==
  ASSUME NEW r \in Record, NEW s \in {Suspect, Dead}, NEW t \in 0..MaxInc,
         Fits(r, t), s = Suspect => r.st # Dead
  PROVE  Fits(SetState(r, s), t)
<1>1. r.inc \in 0..MaxInc /\ r.inc \in Int
  BY DEF Record, Incarnation
<1>2. CASE r.st = s
  BY <1>2 DEF SetState
<1>3. CASE s = Dead /\ r.st # Dead
  <2>1. SetState(r, s).st = Dead /\ SetState(r, s).inc = NextIncarnation(r.inc)
    BY <1>3 DEF SetState, Record
  <2>2. r.inc <= t
    BY <1>3 DEF Fits
  <2> QED
    BY <1>1, <2>1, <2>2, NextIncarnationMonotone DEF Fits
<1>4. CASE s = Suspect /\ r.st # Suspect
  <2>1. SetState(r, s).st = Suspect /\ SetState(r, s).inc = r.inc
    BY <1>4 DEF SetState, Record, Suspect, Dead
  <2> QED
    BY <1>4, <2>1 DEF Fits, Suspect, Dead
<1> QED
  BY <1>2, <1>3, <1>4

LEMMA FitsRevive ==
  ASSUME NEW r \in Record, NEW i \in 0..MaxInc, NEW t \in 0..MaxInc,
         Fits(r, t), i <= t
  PROVE  Fits(Revive(r, i), t)
<1>1. CASE i < r.inc
  BY <1>1 DEF Revive
<1>2. CASE ~(i < r.inc)
  <2>1. Revive(r, i).st = Alive /\ Revive(r, i).inc = i
    BY <1>2 DEF Revive, Record
  <2> QED
    BY <2>1 DEF Fits, Alive, Dead
<1> QED
  BY <1>1, <1>2

-----------------------------------------------------------------------------
\* Frames.

LEMMA NoViewGood ==
  ASSUME NEW tp
  PROVE  GoodRow(NoView, tp)
BY DEF GoodRow, NoView, View

LEMMA DeltaGood ==
  ASSUME NEW n \in Node, NEW q \in Node, NEW row, NEW tp, GoodRow(row, tp)
  PROVE  GoodFrame(Delta(n, q, row), tp)
BY DEF GoodFrame, GoodRow, Delta, Frame

\* What a push tells of one member fits when the table it comes from does.
LEMMA PushGood ==
  ASSUME NEW n \in Node, NEW m \in Subject, NEW row, NEW tp,
         up \subseteq Node, GoodRow(row, tp)
  PROVE  \A f \in Push(n, row, m) : GoodFrame(f, tp)
<1>1. GoodRow(Only(row, m), tp)
  BY DEF Only, GoodRow, NoView, View
<1> QED
  BY <1>1, DeltaGood DEF Push, Broadcast

LEMMA PostGood ==
  ASSUME NEW handled, NEW sends, NEW tp, Post(handled, sends),
         \A f \in net : GoodFrame(f, tp), \A f \in sends : GoodFrame(f, tp)
  PROVE  \A f \in net' : GoodFrame(f, tp)
BY DEF Post

-----------------------------------------------------------------------------
\* The end of a handler.

LEMMA EvaluatedGood ==
  ASSUME NEW n \in Node, NEW row, NEW role \in Role, NEW tp, GoodRow(row, tp),
         n \in Subject => row[n] # NoRecord
  PROVE  /\ GoodRow(Evaluated(n, row, role), tp)
         /\ n \in Subject => /\ Evaluated(n, row, role)[n] # NoRecord
                             /\ Evaluated(n, row, role)[n].st = row[n].st
                             /\ Evaluated(n, row, role)[n].inc = row[n].inc
<1> DEFINE last == Evaluated(n, row, role)
<1>1. CASE n \notin Subject
  <2>1. last = row
    BY <1>1 DEF Evaluated, GoodRow, View
  <2> QED
    BY <1>1, <2>1
<1>2. CASE n \in Subject
  <2>1. row[n] \in Record
    BY <1>2 DEF GoodRow, View
  <2>2. /\ SetRole(row[n], role) \in Record
        /\ SetRole(row[n], role).st = row[n].st
        /\ SetRole(row[n], role).inc = row[n].inc
    BY <2>1, SetRoleType
  <2>3. \A m \in Subject : last[m] = row[m] \/ (m = n /\ last[m] = SetRole(row[n], role))
    BY DEF Evaluated
  <2>4. last \in View
    BY <2>2, <2>3 DEF GoodRow, View, Evaluated
  <2>5. \A m \in Subject : last[m] # NoRecord => Fits(last[m], tp[m])
    BY <1>2, <2>2, <2>3 DEF GoodRow, Fits
  <2> QED
    BY <1>2, <2>1, <2>2, <2>3, <2>4, <2>5, NoRecordAssumption DEF GoodRow
<1> QED
  BY <1>1, <1>2

\* A handler that ends in a good row and sends good frames leaves good ones.
LEMMA FinishGood ==
  ASSUME NEW n \in Node, NEW row, NEW changed, NEW handled, NEW sends,
         NEW tp, up \subseteq Node,
         GoodRow(row, tp), n \in Subject => row[n] # NoRecord,
         \A f \in net : GoodFrame(f, tp), \A f \in sends : GoodFrame(f, tp),
         Finish(n, row, changed, handled, sends)
  PROVE  /\ \A f \in net' : GoodFrame(f, tp)
         /\ \E last : /\ table' = [table EXCEPT ![n] = last]
                      /\ GoodRow(last, tp)
                      /\ n \in Subject => /\ last[n] # NoRecord
                                          /\ last[n].st = row[n].st
                                          /\ last[n].inc = row[n].inc
<1>1. PICK role \in Role :
        LET last == IF changed THEN Evaluated(n, row, role) ELSE row
            told == IF last = row THEN {} ELSE Push(n, last, n)
        IN  /\ table' = [table EXCEPT ![n] = last]
            /\ Post(handled, sends \cup told)
  BY DEF Finish, Role
<1> DEFINE last == IF changed THEN Evaluated(n, row, role) ELSE row
           told == IF last = row THEN {} ELSE Push(n, last, n)
<1>2. /\ GoodRow(last, tp)
      /\ n \in Subject => /\ last[n] # NoRecord
                          /\ last[n].st = row[n].st
                          /\ last[n].inc = row[n].inc
  BY EvaluatedGood
<1>3. \A f \in told : GoodFrame(f, tp)
  <2>1. CASE n \in Subject
    BY <1>2, <2>1, PushGood
  <2>2. CASE n \notin Subject
    <3>1. last = row
      BY <2>2 DEF Evaluated, GoodRow, View
    <3> QED
      BY <3>1
  <2> QED
    BY <2>1, <2>2
<1>4. \A f \in sends \cup told : GoodFrame(f, tp)
  BY <1>3
<1>5. table' = [table EXCEPT ![n] = last] /\ Post(handled, sends \cup told)
  BY <1>1
<1>6. \A f \in net' : GoodFrame(f, tp)
  BY <1>4, <1>5, PostGood
<1> QED
  BY <1>2, <1>5, <1>6

\* What the variables a handler assigns besides its table and the net must satisfy.
Others ==
  /\ up \subseteq Node
  /\ inc \in [Node -> 0..MaxInc]
  /\ boot \in [Node -> 0..MaxInc]
  /\ top \in [Node -> 0..MaxInc]
  /\ doubt \in [Node -> [Subject -> 0..MaxInc]]
  /\ silent \in [Node -> SUBSET Subject]
  /\ faults \in 0..MaxFaults
  /\ Announced

LEMMA GoodMonotone ==
  ASSUME NEW tp \in [Node -> 0..MaxInc], NEW tq \in [Node -> 0..MaxInc],
         \A k \in Node : tp[k] <= tq[k]
  PROVE  /\ \A row : GoodRow(row, tp) => GoodRow(row, tq)
         /\ \A f : GoodFrame(f, tp) => GoodFrame(f, tq)
<1>1. ASSUME NEW row, GoodRow(row, tp)
      PROVE  GoodRow(row, tq)
  <2>1. ASSUME NEW m \in Subject, row[m] # NoRecord
        PROVE  Fits(row[m], tq[m])
    <3>1. m \in Node /\ row[m] \in Record
      BY <1>1, <2>1, GossipAssumption DEF GoodRow, View
    <3> QED
      BY <1>1, <2>1, <3>1, FitsMonotone DEF GoodRow
  <2> QED
    BY <1>1, <2>1 DEF GoodRow
<1>2. ASSUME NEW f, GoodFrame(f, tp)
      PROVE  GoodFrame(f, tq)
  <2>1. f.type = "delta" => GoodRow(f.view, tq)
    BY <1>1, <1>2 DEF GoodFrame
  <2>2. ASSUME f.type = "up"
        PROVE  f.inc <= tq[f.from]
    <3>1. f.from \in Node /\ f.inc \in Int
      BY <1>2, <2>2, GossipAssumption DEF GoodFrame, Frame, Incarnation
    <3> QED
      BY <1>2, <2>2, <3>1 DEF GoodFrame
  <2> QED
    BY <1>2, <2>1, <2>2 DEF GoodFrame
<1> QED
  BY <1>1, <1>2

\* Every handler is an instance of this step.
LEMMA HandlerStep ==
  ASSUME IInv, NEW n \in Node, NEW row, NEW changed, NEW handled,
         NEW sends, Others', \A k \in Node : top[k] <= top'[k],
         GoodRow(row, top'), \A f \in sends : GoodFrame(f, top'),
         n \in Subject => row[n] # NoRecord,
         n \in up' \cap Subject => row[n].st = Alive /\ row[n].inc = inc'[n],
         \A k \in up' \ {n} : k \in up /\ inc'[k] = inc[k],
         Finish(n, row, changed, handled, sends)
  PROVE  IInv'
<1>1. /\ \A k \in Node : GoodRow(table[k], top')
      /\ \A f \in net : GoodFrame(f, top')
  BY GoodMonotone DEF IInv, TypeOK, Others
<1>2. /\ \A f \in net' : GoodFrame(f, top')
      /\ \E last : /\ table' = [table EXCEPT ![n] = last]
                   /\ GoodRow(last, top')
                   /\ n \in Subject => /\ last[n] # NoRecord
                                       /\ last[n].st = row[n].st
                                       /\ last[n].inc = row[n].inc
  <2>1. up \subseteq Node
    BY DEF IInv, TypeOK
  <2>2. PICK tp : tp = top'
    OBVIOUS
  <2>3. GoodRow(row, tp) /\ \A f \in net \cup sends : GoodFrame(f, tp)
    BY <1>1, <2>2
  <2>4. /\ \A f \in net' : GoodFrame(f, tp)
        /\ \E last : /\ table' = [table EXCEPT ![n] = last]
                     /\ GoodRow(last, tp)
                     /\ n \in Subject => /\ last[n] # NoRecord
                                         /\ last[n].st = row[n].st
                                         /\ last[n].inc = row[n].inc
    BY <2>1, <2>3, FinishGood
  <2> QED
    BY <2>2, <2>4
<1>3. PICK last : /\ table' = [table EXCEPT ![n] = last]
                  /\ GoodRow(last, top')
                  /\ n \in Subject => /\ last[n] # NoRecord
                                      /\ last[n].st = row[n].st
                                      /\ last[n].inc = row[n].inc
  BY <1>2
<1>4. table \in [Node -> View]
  BY DEF IInv, TypeOK
<1>5. \A k \in Node : GoodRow(table'[k], top')
  BY <1>1, <1>3, <1>4
<1>6. TypeOK'
  <2>1. table' \in [Node -> View]
    BY <1>3, <1>4 DEF GoodRow
  <2>2. net' \subseteq Frame
    BY <1>2 DEF GoodFrame
  <2> QED
    BY <2>1, <2>2 DEF Others, TypeOK
<1>7. OwnRecord'
  <2> SUFFICES ASSUME NEW k \in up' \cap Subject
               PROVE  table'[k][k] # NoRecord /\ table'[k][k].st = Alive
                        /\ table'[k][k].inc = inc'[k]
    BY DEF OwnRecord
  <2>1. CASE k = n
    BY <1>3, <1>4, <2>1
  <2>2. CASE k # n
    <3>1. table'[k] = table[k] /\ k \in up /\ inc'[k] = inc[k]
      BY <1>3, <1>4, <2>2
    <3> QED
      BY <3>1 DEF IInv, OwnRecord
  <2> QED
    BY <2>1, <2>2
<1> QED
  BY <1>2, <1>5, <1>6, <1>7 DEF IInv, Others

-----------------------------------------------------------------------------
\* What the invariant says of one node's row.
LEMMA RowFacts ==
  ASSUME IInv, NEW n \in Node
  PROVE  /\ GoodRow(table[n], top)
         /\ \A m \in Subject : /\ table[n][m] \in Record \cup {NoRecord}
                               /\ top[m] \in 0..MaxInc /\ top[m] \in Int
         /\ up \subseteq Node
         /\ n \in up \cap Subject => /\ table[n][n] # NoRecord
                                     /\ table[n][n].st = Alive
                                     /\ table[n][n].inc = inc[n]
<1>1. Subject \subseteq Node
  BY GossipAssumption
<1> QED
  BY <1>1 DEF IInv, TypeOK, GoodRow, View, OwnRecord

\* Handlers that start and end no life leave these alone.
LEMMA SameLives ==
  ASSUME IInv, UNCHANGED <<up, inc, boot, top>>,
         doubt' \in [Node -> [Subject -> 0..MaxInc]],
         silent' \in [Node -> SUBSET Subject],
         faults' \in 0..MaxFaults,
         \A n \in Node, m \in Subject : doubt'[n][m] <= top[m]
  PROVE  Others' /\ \A k \in Node : top[k] <= top'[k]
BY DEF IInv, TypeOK, Others, Announced

\* The common case of HandlerStep: no life starts or ends.
LEMMA QuietStep ==
  ASSUME IInv, NEW n \in up, NEW row, NEW changed, NEW handled, NEW sends,
         UNCHANGED <<up, inc, boot, top>>,
         doubt' \in [Node -> [Subject -> 0..MaxInc]],
         silent' \in [Node -> SUBSET Subject],
         faults' \in 0..MaxFaults,
         \A k \in Node, m \in Subject : doubt'[k][m] <= top[m],
         GoodRow(row, top), \A f \in sends : GoodFrame(f, top),
         n \in Subject => /\ row[n] # NoRecord
                          /\ row[n].st = Alive /\ row[n].inc = inc[n],
         Finish(n, row, changed, handled, sends)
  PROVE  IInv'
<1>1. n \in Node
  BY DEF IInv, TypeOK
<1>2. Others' /\ \A k \in Node : top[k] <= top'[k]
  BY SameLives
<1>3. GoodRow(row, top') /\ \A f \in sends : GoodFrame(f, top')
  OBVIOUS
<1>4. n \in up' \cap Subject => row[n].st = Alive /\ row[n].inc = inc'[n]
  OBVIOUS
<1>5. \A k \in up' \ {n} : k \in up /\ inc'[k] = inc[k]
  OBVIOUS
<1> QED
  BY <1>1, <1>2, <1>3, <1>4, <1>5, HandlerStep

LEMMA FaultType ==
  ASSUME IInv, Fault \/ UNCHANGED faults
  PROVE  faults' \in 0..MaxFaults
BY GossipAssumption DEF IInv, TypeOK, Fault

\* A row whose record of m became another fitting record is still good.
LEMMA OneRecord ==
  ASSUME NEW row, NEW tp, NEW m \in Subject, NEW r \in Record,
         GoodRow(row, tp), Fits(r, tp[m])
  PROVE  GoodRow([row EXCEPT ![m] = r], tp)
BY DEF GoodRow, View

-----------------------------------------------------------------------------
\* The handlers.

LEMMA BuryStep ==
  ASSUME IInv, NEW n \in Node, NEW m \in Node, NEW handled,
         Bury(n, m, handled), Fault \/ UNCHANGED faults
  PROVE  IInv'
<1> DEFINE row == Buried(table[n], m)
           changed == row # table[n]
           sends == IF changed THEN Push(n, row, m) ELSE {}
<1>1. /\ n \in up /\ m \in Subject /\ m # n
      /\ UNCHANGED <<up, inc, boot, top>>
      /\ Finish(n, row, changed, handled, sends)
  BY DEF Bury
<1>2. GoodRow(row, top)
  <2>1. CASE Known(table[n], m)
    <3>1. /\ table[n][m] \in Record /\ Fits(table[n][m], top[m])
          /\ top[m] \in 0..MaxInc /\ GoodRow(table[n], top)
      BY <1>1, <2>1, RowFacts DEF Known, GoodRow
    <3>2. Dead \in State
      BY DEF State
    <3>3. SetState(table[n][m], Dead) \in Record
      BY <3>1, <3>2, SetStateType
    <3>4. Fits(SetState(table[n][m], Dead), top[m])
      BY <3>1, FitsSetState DEF Suspect, Dead
    <3> QED
      BY <1>1, <2>1, <3>1, <3>3, <3>4, OneRecord DEF Buried
  <2>2. CASE ~Known(table[n], m)
    BY <2>2, RowFacts DEF Buried
  <2> QED
    BY <2>1, <2>2
<1>3. n \in Subject => row[n] # NoRecord /\ row[n].st = Alive /\ row[n].inc = inc[n]
  BY <1>1, RowFacts DEF Buried, GoodRow, View
<1>4. \A f \in sends : GoodFrame(f, top)
  BY <1>1, <1>2, PushGood, RowFacts
<1>5. /\ doubt' \in [Node -> [Subject -> 0..MaxInc]]
      /\ silent' \in [Node -> SUBSET Subject]
      /\ \A k \in Node, x \in Subject : doubt'[k][x] <= top[x]
  <2>1. doubt' = [doubt EXCEPT ![n][m] = 0] /\ silent' = [silent EXCEPT ![n] = @ \ {m}]
    BY DEF Bury, NoDoubt
  <2>2. \A x \in Subject : 0 <= top[x]
    BY RowFacts
  <2> QED
    BY <1>1, <2>1, <2>2, MaxIncAssumption DEF IInv, TypeOK, Announced
<1>6. faults' \in 0..MaxFaults
  BY FaultType
<1> HIDE DEF row, changed, sends
<1> QED
  BY <1>1, <1>2, <1>3, <1>4, <1>5, <1>6, QuietStep

LEMMA SuspectsStep ==
  ASSUME IInv, NEW n \in Node, NEW m \in Node, NEW beats \in SUBSET Subject,
         NEW evaluates, Suspects(n, m, beats, evaluates)
  PROVE  IInv'
<1> DEFINE row == Suspected(table[n], m)
           changed == row # table[n]
           sends == IF changed THEN Push(n, row, m) ELSE {}
<1>1. /\ n \in up /\ m \in Subject /\ m # n
      /\ UNCHANGED <<up, inc, boot, top>>
      /\ Finish(n, row, changed \/ evaluates, {}, sends)
  BY DEF Suspects
<1>2. Doubtable(table[n], m) =>
        /\ table[n][m] \in Record /\ Fits(table[n][m], top[m])
        /\ top[m] \in 0..MaxInc /\ GoodRow(table[n], top)
        /\ table[n][m].st # Dead /\ table[n][m].inc <= top[m]
  BY <1>1, RowFacts DEF Doubtable, Known, GoodRow, Fits
<1>3. GoodRow(row, top)
  <2>1. CASE Doubtable(table[n], m)
    <3>1. Suspect \in State
      BY DEF State
    <3>2. SetState(table[n][m], Suspect) \in Record
      BY <1>2, <2>1, <3>1, SetStateType
    <3>3. Fits(SetState(table[n][m], Suspect), top[m])
      BY <1>2, <2>1, FitsSetState DEF Suspect, Dead
    <3> QED
      BY <1>1, <1>2, <2>1, <3>2, <3>3, OneRecord DEF Suspected
  <2>2. CASE ~Doubtable(table[n], m)
    BY <2>2, RowFacts DEF Suspected
  <2> QED
    BY <2>1, <2>2
<1>4. n \in Subject => row[n] # NoRecord /\ row[n].st = Alive /\ row[n].inc = inc[n]
  BY <1>1, RowFacts DEF Suspected, GoodRow, View
<1>5. \A f \in sends : GoodFrame(f, top)
  BY <1>1, <1>3, PushGood, RowFacts
<1>6. Timed(n, m) \in 0..MaxInc /\ Timed(n, m) <= top[m]
  <2>1. doubt[n][m] \in 0..MaxInc /\ doubt[n][m] <= top[m]
    BY <1>1 DEF IInv, TypeOK, Announced
  <2>2. Doubtable(table[n], m) => table[n][m].inc \in 0..MaxInc
    BY <1>2 DEF Record, Incarnation
  <2> QED
    BY <1>2, <2>1, <2>2 DEF Timed
<1>7. /\ doubt' \in [Node -> [Subject -> 0..MaxInc]]
      /\ \A k \in Node, x \in Subject : doubt'[k][x] <= top[x]
  <2>1. doubt' = [doubt EXCEPT ![n][m] = Timed(n, m)]
    BY DEF Suspects
  <2> QED
    BY <1>1, <1>6, <2>1 DEF IInv, TypeOK, Announced
<1>8. silent' \in [Node -> SUBSET Subject]
  <2>1. silent' = [silent EXCEPT ![n] = IF Doubtable(table[n], m) THEN @ \cup beats ELSE @]
    BY DEF Suspects
  <2> QED
    BY <2>1 DEF IInv, TypeOK
<1>9. faults' \in 0..MaxFaults
  BY FaultType DEF Suspects
<1> HIDE DEF row, changed, sends
<1> QED
  BY <1>1, <1>3, <1>4, <1>5, <1>7, <1>8, <1>9, QuietStep

\* A start makes the first record of a new life, announced by it.
LEMMA StartStep ==
  ASSUME IInv, NEW n \in Node, NEW i \in Incarnation, Start(n, i)
  PROVE  IInv'
<1> DEFINE row == IF n \in Subject THEN [NoView EXCEPT ![n] = FirstRecord(i)]
                  ELSE NoView
<1>1. /\ up' = up \cup {n}
      /\ inc' = [inc EXCEPT ![n] = i]
      /\ boot' = [boot EXCEPT ![n] = i]
      /\ top' = [top EXCEPT ![n] = IF @ < i THEN i ELSE @]
      /\ UNCHANGED <<doubt, silent, faults>>
      /\ Finish(n, row, TRUE, {}, {})
  BY DEF Start
<1>2. i \in 0..MaxInc /\ i >= 1
  BY MaxIncAssumption DEF Incarnation
<1>3. /\ \A k \in Node : top[k] <= top'[k] /\ top'[k] \in 0..MaxInc
      /\ i <= top'[n]
      /\ top' \in [Node -> 0..MaxInc]
  BY <1>1, <1>2, MaxIncAssumption DEF IInv, TypeOK
<1>4. FirstRecord(i) \in Record /\ FirstRecord(i).st = Alive /\ FirstRecord(i).inc = i
  <2>1. Alive \in State /\ "worker" \in Role /\ NoScore \in Score
    BY ScoreAssumption DEF State, Role
  <2> QED
    BY <2>1 DEF FirstRecord, Record, Claim
<1>5. Fits(FirstRecord(i), top'[n])
  BY <1>3, <1>4 DEF Fits, Alive, Dead
<1>6. GoodRow(row, top')
  <2>1. GoodRow(NoView, top')
    BY NoViewGood
  <2> QED
    BY <1>4, <1>5, <2>1, OneRecord
<1>7. n \in Subject => row[n] = FirstRecord(i) /\ row[n] # NoRecord
  BY <1>4, NoRecordAssumption DEF NoView
<1>8. Announced'
  <2>1. ASSUME NEW k \in Node
        PROVE  boot'[k] <= top'[k] /\ (k \in up' => boot'[k] >= 1)
    <3>1. boot[k] \in 0..MaxInc /\ top[k] \in 0..MaxInc
          /\ boot[k] <= top[k] /\ (k \in up => boot[k] >= 1)
      BY DEF IInv, TypeOK, Announced
    <3> QED
      BY <1>1, <1>2, <1>3, <3>1 DEF IInv, TypeOK
  <2>2. ASSUME NEW k \in Node, NEW m \in Subject
        PROVE  doubt'[k][m] <= top'[m]
    <3>1. m \in Node
      BY GossipAssumption
    <3>2. /\ doubt[k][m] \in 0..MaxInc /\ top[m] \in 0..MaxInc
          /\ doubt[k][m] <= top[m]
      BY <3>1 DEF IInv, TypeOK, Announced
    <3> QED
      BY <1>1, <1>3, <3>1, <3>2
  <2> QED
    BY <2>1, <2>2 DEF Announced
<1>9. Others'
  <2>1. inc' \in [Node -> 0..MaxInc] /\ boot' \in [Node -> 0..MaxInc]
    BY <1>1, <1>2 DEF IInv, TypeOK
  <2> QED
    BY <1>1, <1>3, <1>8, <2>1 DEF IInv, TypeOK, Others
<1>10. n \in up' \cap Subject => row[n].st = Alive /\ row[n].inc = inc'[n]
  BY <1>1, <1>4, <1>7 DEF IInv, TypeOK
<1>11. \A k \in up' \ {n} : k \in up /\ inc'[k] = inc[k]
  BY <1>1 DEF IInv, TypeOK
<1> HIDE DEF row
<1>12. PICK yes, none : yes = TRUE /\ none = {}
  OBVIOUS
<1>13. Finish(n, row, yes, none, none) /\ \A f \in none : GoodFrame(f, top')
  BY <1>1, <1>12
<1> QED
  BY <1>3, <1>6, <1>7, <1>9, <1>10, <1>11, <1>13, HandlerStep

\* A process that stops takes its table with it; a LEAVE carries no record.
LEMMA GoneStep ==
  ASSUME IInv, NEW n \in Node, Gone(n), Fault, NEW handled, NEW sends,
         \A f \in sends : f \in [type : {"leave"}, from : Node, to : Node],
         Post(handled, sends)
  PROVE  IInv'
<1>1. /\ up' = up \ {n}
      /\ table' = [table EXCEPT ![n] = NoView]
      /\ doubt' = [doubt EXCEPT ![n] = NoDoubts]
      /\ silent' = [silent EXCEPT ![n] = {}]
      /\ UNCHANGED <<inc, boot, top>>
  BY DEF Gone
<1>2. faults' \in 0..MaxFaults
  BY FaultType
<1>3. \A f \in net' : GoodFrame(f, top)
  <2>1. \A f \in sends : GoodFrame(f, top)
    BY DEF GoodFrame, Frame
  <2>2. \A f \in net : GoodFrame(f, top)
    BY DEF IInv
  <2> QED
    BY <2>1, <2>2, PostGood
<1>4. \A k \in Node : GoodRow(table'[k], top)
  BY <1>1, NoViewGood DEF IInv, TypeOK
<1>5. TypeOK'
  <2>1. table' \in [Node -> View]
    BY <1>1, NoViewGood DEF IInv, TypeOK, GoodRow
  <2>2. net' \subseteq Frame
    BY <1>3 DEF GoodFrame
  <2>3. doubt' \in [Node -> [Subject -> 0..MaxInc]]
    BY <1>1, MaxIncAssumption DEF IInv, TypeOK, NoDoubts
  <2>4. silent' \in [Node -> SUBSET Subject]
    BY <1>1 DEF IInv, TypeOK
  <2> QED
    BY <1>1, <1>2, <2>1, <2>2, <2>3, <2>4 DEF IInv, TypeOK
<1>6. OwnRecord'
  BY <1>1 DEF IInv, TypeOK, OwnRecord
<1>7. Announced'
  <2>1. \A m \in Subject : 0 <= top[m]
    BY GossipAssumption DEF IInv, TypeOK
  <2> QED
    BY <1>1, <2>1 DEF IInv, TypeOK, Announced, NoDoubts
<1> QED
  BY <1>1, <1>3, <1>4, <1>5, <1>6, <1>7 DEF IInv

LEMMA LivesStep ==
  ASSUME IInv, NEW n \in Node, Crash(n) \/ Leave(n)
  PROVE  IInv'
<1>1. CASE Crash(n)
  <2>1. PICK sends : sends = {}
    OBVIOUS
  <2>2. Gone(n) /\ Fault /\ Post({f \in net : f.to = n}, sends)
    BY <1>1, <2>1 DEF Crash
  <2>3. \A f \in sends : f \in [type : {"leave"}, from : Node, to : Node]
    BY <2>1
  <2> QED
    BY <2>2, <2>3, GoneStep
<1>2. CASE Leave(n)
  <2> DEFINE sends == {[type |-> "leave", from |-> n, to |-> q] : q \in up \ {n}}
  <2>1. \A f \in sends : f \in [type : {"leave"}, from : Node, to : Node]
    BY DEF IInv, TypeOK
  <2>2. Gone(n) /\ Fault /\ Post({f \in net : f.to = n}, sends)
    BY <1>2 DEF Leave
  <2> HIDE DEF sends
  <2> QED
    BY <2>1, <2>2, GoneStep
<1> QED
  BY <1>1, <1>2

\* Handshakes and gossip rounds only send.
LEMMA SendStep ==
  ASSUME IInv, NEW sends, Post({}, sends), \A f \in sends : GoodFrame(f, top),
         UNCHANGED <<up, inc, boot, top, table, doubt, silent, faults>>
  PROVE  IInv'
<1>1. \A f \in net' : GoodFrame(f, top)
  BY PostGood DEF IInv
<1>2. net' \subseteq Frame
  BY <1>1 DEF GoodFrame
<1> QED
  BY <1>1, <1>2 DEF IInv, TypeOK, OwnRecord, Announced

LEMMA HandshakeStep ==
  ASSUME IInv, NEW n \in Node, NEW m \in Node, Handshake(n, m)
  PROVE  IInv'
<1> DEFINE f == [type |-> "up", from |-> m, to |-> n, inc |-> boot[m]]
<1>1. m \in up /\ m \in Subject
  BY DEF Handshake
<1>2. boot[m] \in Incarnation /\ boot[m] <= top[m]
  BY <1>1 DEF IInv, TypeOK, Announced, Incarnation
<1>3. GoodFrame(f, top)
  BY <1>1, <1>2 DEF GoodFrame, Frame
<1> QED
  BY <1>3, SendStep DEF Handshake

LEMMA GossipStep ==
  ASSUME IInv, NEW n \in Node, NEW q \in Node, GossipRound(n, q)
  PROVE  IInv'
<1>1. GoodFrame(Delta(n, q, table[n]), top)
  BY DeltaGood, RowFacts
<1> QED
  BY <1>1, SendStep DEF GossipRound

LEMMA ReevaluateStep ==
  ASSUME IInv, NEW n \in Node, Reevaluate(n)
  PROVE  IInv'
<1>1. n \in up /\ Finish(n, table[n], TRUE, {}, {})
      /\ UNCHANGED <<up, inc, boot, top, doubt, silent, faults>>
  BY DEF Reevaluate
<1>2. /\ doubt' \in [Node -> [Subject -> 0..MaxInc]]
      /\ silent' \in [Node -> SUBSET Subject]
      /\ faults' \in 0..MaxFaults
      /\ \A k \in Node, x \in Subject : doubt'[k][x] <= top[x]
  BY <1>1 DEF IInv, TypeOK, Announced
<1>3. GoodRow(table[n], top)
      /\ (n \in Subject => /\ table[n][n] # NoRecord
                           /\ table[n][n].st = Alive /\ table[n][n].inc = inc[n])
  BY <1>1, RowFacts
<1>4. PICK yes, none : yes = TRUE /\ none = {}
  OBVIOUS
<1>5. Finish(n, table[n], yes, none, none) /\ \A f \in none : GoodFrame(f, top)
  BY <1>1, <1>4
<1> QED
  BY <1>1, <1>2, <1>3, <1>5, QuietStep

\* A handshake revives at the incarnation the peer's process started with, which
\* it has announced.
LEMMA PeerUpStep ==
  ASSUME IInv, NEW n \in Node, NEW f \in net, PeerUp(n, f)
  PROVE  IInv'
<1> DEFINE m == f.from
           old == table[n][m]
           met == [st |-> Alive, inc |-> f.inc,
                   claim |-> [role |-> IF old = NoRecord THEN "worker" ELSE old.claim.role,
                              score |-> IF old = NoRecord THEN NoScore ELSE old.claim.score,
                              seq |-> 0]]
           base == IF old = NoRecord THEN met ELSE Merge(old, met)
           new == Revive(base, f.inc)
           row == [table[n] EXCEPT ![m] = new]
           sends == {Delta(n, m, row)}
<1>1. /\ f.type = "up" /\ n \in up /\ m # n
      /\ NoDoubt(n, m)
      /\ UNCHANGED <<up, inc, boot, top, faults>>
      /\ Finish(n, row, row # table[n], {f}, sends)
  BY DEF PeerUp
<1>2. /\ m \in Subject /\ m \in Node /\ f.inc \in Incarnation /\ f.inc <= top[m]
      /\ f.inc \in 0..MaxInc
  BY <1>1, GossipAssumption, MaxIncAssumption DEF IInv, GoodFrame, Frame, Incarnation
<1>3. /\ old \in Record \cup {NoRecord} /\ top[m] \in 0..MaxInc
      /\ GoodRow(table[n], top)
      /\ old # NoRecord => Fits(old, top[m])
  BY <1>2, RowFacts DEF GoodRow
<1>4. met \in Record /\ met.st = Alive /\ met.inc = f.inc
  <2>1. met.claim \in Claim
    BY <1>3, ScoreAssumption DEF Claim, Record, Role
  <2>2. Alive \in State
    BY DEF State
  <2> QED
    BY <1>2, <2>1, <2>2 DEF Record
<1>5. Fits(met, top[m])
  BY <1>2, <1>4 DEF Fits, Alive, Dead
<1> HIDE DEF met
<1>6. base \in Record /\ Fits(base, top[m])
  BY <1>3, <1>4, <1>5, MergeType, FitsMerge
<1> HIDE DEF base
<1>7. new \in Record /\ Fits(new, top[m])
  BY <1>2, <1>3, <1>6, ReviveType, FitsRevive
<1> HIDE DEF new
<1>8. GoodRow(row, top)
  BY <1>2, <1>3, <1>7, OneRecord
<1>9. n \in Subject => row[n] # NoRecord /\ row[n].st = Alive /\ row[n].inc = inc[n]
  BY <1>1, RowFacts DEF GoodRow, View
<1>10. \A g \in sends : GoodFrame(g, top)
  BY <1>2, <1>8, DeltaGood
<1>11. /\ doubt' \in [Node -> [Subject -> 0..MaxInc]]
       /\ silent' \in [Node -> SUBSET Subject]
       /\ faults' \in 0..MaxFaults
       /\ \A k \in Node, x \in Subject : doubt'[k][x] <= top[x]
  <2>1. doubt' = [doubt EXCEPT ![n][m] = 0] /\ silent' = [silent EXCEPT ![n] = @ \ {m}]
    BY <1>1 DEF NoDoubt
  <2>2. \A x \in Subject : 0 <= top[x]
    BY RowFacts
  <2> QED
    BY <1>1, <1>2, <2>1, <2>2, MaxIncAssumption DEF IInv, TypeOK, Announced
<1> HIDE DEF row, sends
<1> QED
  BY <1>1, <1>8, <1>9, <1>10, <1>11, QuietStep

\* A resumed beat revives at the doubted incarnation, which was announced.
LEMMA BeatResumedStep ==
  ASSUME IInv, NEW n \in Node, NEW m \in Node, BeatResumed(n, m)
  PROVE  IInv'
<1> DEFINE new == Revive(table[n][m], doubt[n][m])
           row == IF Known(table[n], m) THEN [table[n] EXCEPT ![m] = new] ELSE table[n]
<1>1. /\ n \in up /\ m \in Subject /\ m # n
      /\ NoDoubt(n, m)
      /\ UNCHANGED <<up, inc, boot, top, faults>>
      /\ Finish(n, row, row # table[n], {}, {})
  BY DEF BeatResumed
<1>2. doubt[n][m] \in 0..MaxInc /\ doubt[n][m] <= top[m] /\ top[m] \in 0..MaxInc
      /\ GoodRow(table[n], top)
  BY <1>1, RowFacts DEF IInv, TypeOK, Announced
<1>3. Known(table[n], m) => new \in Record /\ Fits(new, top[m])
  BY <1>1, <1>2, ReviveType, FitsRevive DEF Known, GoodRow, View
<1> HIDE DEF new
<1>4. GoodRow(row, top)
  BY <1>1, <1>2, <1>3, OneRecord
<1>5. n \in Subject => row[n] # NoRecord /\ row[n].st = Alive /\ row[n].inc = inc[n]
  BY <1>1, RowFacts DEF GoodRow, View
<1>6. /\ doubt' \in [Node -> [Subject -> 0..MaxInc]]
      /\ silent' \in [Node -> SUBSET Subject]
      /\ faults' \in 0..MaxFaults
      /\ \A k \in Node, x \in Subject : doubt'[k][x] <= top[x]
  <2>1. doubt' = [doubt EXCEPT ![n][m] = 0] /\ silent' = [silent EXCEPT ![n] = @ \ {m}]
    BY <1>1 DEF NoDoubt
  <2>2. \A x \in Subject : 0 <= top[x]
    BY RowFacts
  <2> QED
    BY <1>1, <2>1, <2>2, MaxIncAssumption DEF IInv, TypeOK, Announced
<1> HIDE DEF row
<1> QED
  BY <1>1, <1>4, <1>5, <1>6, QuietStep

\* A tick buries late doubts one past an announced incarnation, and collects.
LEMMA ControlTickStep ==
  ASSUME IInv, NEW n \in Node, NEW late \in SUBSET Subject, NEW old \in SUBSET Subject,
         ControlTick(n, late, old)
  PROVE  IInv'
<1> DEFINE confirmed == [m \in Subject |->
                           IF m \in late THEN SetState(table[n][m], Dead) ELSE table[n][m]]
           pushed == UNION {Push(n, confirmed, m) : m \in late}
           row == Collected(confirmed, old)
<1>1. /\ n \in up
      /\ late \subseteq {m \in Subject : doubt[n][m] # 0 /\ Matches(n, m)}
      /\ old \subseteq Subject \ {n}
      /\ UNCHANGED <<up, inc, boot, top, faults>>
      /\ Finish(n, row, late # {}, {}, pushed)
  BY DEF ControlTick
<1>2. GoodRow(confirmed, top)
  <2>1. ASSUME NEW m \in Subject
        PROVE  /\ confirmed[m] \in Record \cup {NoRecord}
               /\ confirmed[m] # NoRecord => Fits(confirmed[m], top[m])
    <3>1. /\ table[n][m] \in Record \cup {NoRecord} /\ top[m] \in 0..MaxInc
          /\ table[n][m] # NoRecord => Fits(table[n][m], top[m])
      BY RowFacts DEF GoodRow
    <3>2. CASE m \in late
      <4>1. table[n][m] \in Record
        BY <1>1, <3>1, <3>2 DEF Matches, Known
      <4>2. Dead \in State /\ Dead \in {Suspect, Dead} /\ Dead # Suspect
        BY DEF State, Dead, Suspect
      <4>3. SetState(table[n][m], Dead) \in Record
        BY <4>1, <4>2, SetStateType
      <4>4. Fits(SetState(table[n][m], Dead), top[m])
        BY <3>1, <4>1, <4>2, FitsSetState, NoRecordAssumption
      <4> QED
        BY <3>2, <4>3, <4>4
    <3>3. CASE m \notin late
      BY <3>1, <3>3
    <3> QED
      BY <3>2, <3>3
  <2> QED
    BY <2>1 DEF GoodRow, View
<1>3. GoodRow(row, top)
  BY <1>2 DEF GoodRow, View, Collected
<1>4. n \in Subject => row[n] # NoRecord /\ row[n].st = Alive /\ row[n].inc = inc[n]
  <2> SUFFICES ASSUME n \in Subject
               PROVE  row[n] = table[n][n]
    BY <1>1, RowFacts
  <2>1. table[n][n].st = Alive
    BY <1>1, RowFacts
  <2>2. n \notin late
    BY <1>1, <2>1 DEF Matches, Alive, Suspect
  <2> QED
    BY <1>1, <2>2 DEF Collected
<1>5. \A f \in pushed : GoodFrame(f, top)
  BY <1>2, PushGood, RowFacts
<1>6. /\ doubt' \in [Node -> [Subject -> 0..MaxInc]]
      /\ \A k \in Node, x \in Subject : doubt'[k][x] <= top[x]
  <2>1. doubt' = [doubt EXCEPT ![n] = [m \in Subject |->
                     IF Matches(n, m) /\ m \notin late THEN doubt[n][m] ELSE 0]]
    BY DEF ControlTick
  <2>2. \A x \in Subject : 0 <= top[x]
    BY RowFacts
  <2>3. \A m \in Subject : doubt[n][m] \in 0..MaxInc /\ doubt[n][m] <= top[m]
    BY DEF IInv, TypeOK, Announced
  <2>4. [m \in Subject |-> IF Matches(n, m) /\ m \notin late THEN doubt[n][m] ELSE 0]
          \in [Subject -> 0..MaxInc]
    BY <2>3, MaxIncAssumption
  <2> QED
    BY <2>1, <2>2, <2>3, <2>4 DEF IInv, TypeOK, Announced
<1>7. silent' \in [Node -> SUBSET Subject]
  <2>1. silent' = [silent EXCEPT ![n] = {m \in @ : Matches(n, m) /\ m \notin late}]
    BY DEF ControlTick
  <2> QED
    BY <2>1 DEF IInv, TypeOK
<1>8. faults' \in 0..MaxFaults
  BY <1>1, FaultType
<1>9. UNCHANGED <<up, inc, boot, top>>
  BY <1>1
<1> HIDE DEF row, pushed
<1>10. PICK some, none : some = (late # {}) /\ none = {}
  OBVIOUS
<1>11. Finish(n, row, some, none, pushed)
  BY <1>1, <1>10
<1> QED
  BY <1>1, <1>3, <1>4, <1>5, <1>6, <1>7, <1>8, <1>9, <1>11, QuietStep

\* A probe round doubts, buries or clears what fits, and restates the own score.
LEMMA ProbeRoundStep ==
  ASSUME IInv, NEW n \in Node, NEW missed \in SUBSET Subject,
         NEW failed \in SUBSET Subject, NEW clear \in SUBSET Subject,
         NEW score \in Score, ProbeRound(n, missed, failed, clear, score)
  PROVE  IInv'
<1> DEFINE row == [m \in Subject |->
                     IF m \in missed THEN SetState(table[n][m], Suspect)
                     ELSE IF m \in failed THEN SetState(table[n][m], Dead)
                     ELSE IF m \in clear THEN Revive(table[n][m], table[n][m].inc)
                     ELSE IF m = n /\ table[n][n].claim.seq < MaxSeq
                          THEN SetScore(table[n][n], score)
                     ELSE table[n][m]]
           sends == UNION {Push(n, row, m) : m \in {k \in Subject \ clear : row[k] # table[n][k]}}
<1>1. /\ n \in up
      /\ missed \cup failed \subseteq {m \in Subject \ {n} : Doubtable(table[n], m)}
      /\ clear \subseteq {m \in Subject \ {n} :
                            Known(table[n], m) /\ table[n][m].st = Suspect}
      /\ UNCHANGED <<up, inc, boot, top>>
      /\ Fault \/ UNCHANGED faults
      /\ Finish(n, row, TRUE, {}, sends)
  BY DEF ProbeRound
<1>2. \A m \in Subject :
        /\ table[n][m] \in Record \cup {NoRecord} /\ top[m] \in 0..MaxInc
        /\ table[n][m] # NoRecord => Fits(table[n][m], top[m])
  BY RowFacts DEF GoodRow
<1>3. GoodRow(row, top)
  <2>1. ASSUME NEW m \in Subject
        PROVE  /\ row[m] \in Record \cup {NoRecord}
               /\ row[m] # NoRecord => Fits(row[m], top[m])
    <3>1. CASE m \in missed \/ m \in failed \/ m \in clear
      <4>1. table[n][m] \in Record /\ Fits(table[n][m], top[m])
        BY <1>1, <1>2, <3>1, NoRecordAssumption DEF Doubtable, Known
      <4>2. Dead \in State /\ Suspect \in State /\ Dead # Suspect
        BY DEF State, Dead, Suspect
      <4>3. CASE m \in missed
        BY <1>1, <1>2, <4>1, <4>2, <4>3, SetStateType, FitsSetState DEF Doubtable
      <4>4. CASE m \notin missed /\ m \in failed
        BY <1>2, <4>1, <4>2, <4>4, SetStateType, FitsSetState
      <4>5. CASE m \notin missed /\ m \notin failed
        <5>1. m \in clear
          BY <3>1, <4>5
        <5>2. table[n][m].inc \in 0..MaxInc /\ table[n][m].inc <= top[m]
          BY <1>1, <1>2, <4>1, <4>2, <5>1 DEF Fits, Record, Incarnation
        <5>3. row[m] = Revive(table[n][m], table[n][m].inc)
          BY <4>5, <5>1
        <5> QED
          BY <1>2, <4>1, <5>2, <5>3, ReviveType, FitsRevive
      <4> QED
        BY <4>3, <4>4, <4>5
    <3>2. CASE m \notin missed /\ m \notin failed /\ m \notin clear
      <4>1. CASE m = n /\ table[n][n].claim.seq < MaxSeq
        <5>1. table[n][m] \in Record
          BY <1>1, <1>2, <4>1, RowFacts
        <5>2. row[m] = SetScore(table[n][m], score)
          BY <3>2, <4>1
        <5> QED
          BY <1>2, <5>1, <5>2, SetScoreType, NoRecordAssumption DEF Fits
      <4>2. CASE ~(m = n /\ table[n][n].claim.seq < MaxSeq)
        BY <1>2, <3>2, <4>2
      <4> QED
        BY <4>1, <4>2
    <3> QED
      BY <3>1, <3>2
  <2> QED
    BY <2>1 DEF GoodRow, View
<1>4. n \in Subject => row[n] # NoRecord /\ row[n].st = Alive /\ row[n].inc = inc[n]
  <2> SUFFICES ASSUME n \in Subject
               PROVE  row[n] # NoRecord /\ row[n].st = Alive /\ row[n].inc = inc[n]
    OBVIOUS
  <2>1. /\ table[n][n] \in Record /\ table[n][n].st = Alive
        /\ table[n][n].inc = inc[n]
    BY <1>1, RowFacts
  <2>2. n \notin missed /\ n \notin failed /\ n \notin clear
    BY <1>1
  <2>3. row[n] = table[n][n] \/ row[n] = SetScore(table[n][n], score)
    BY <2>2
  <2> QED
    BY <2>1, <2>3, SetScoreType, NoRecordAssumption
<1>5. \A f \in sends : GoodFrame(f, top)
  BY <1>3, PushGood, RowFacts
<1>6. /\ doubt' \in [Node -> [Subject -> 0..MaxInc]]
      /\ \A k \in Node, x \in Subject : doubt'[k][x] <= top[x]
  <2> DEFINE d == [m \in Subject |->
                     IF m \in missed THEN Timed(n, m)
                     ELSE IF m \in failed \cup clear THEN 0 ELSE doubt[n][m]]
  <2>1. doubt' = [doubt EXCEPT ![n] = d]
    BY DEF ProbeRound
  <2>2. ASSUME NEW m \in Subject
        PROVE  d[m] \in 0..MaxInc /\ d[m] <= top[m]
    <3>1. doubt[n][m] \in 0..MaxInc /\ doubt[n][m] <= top[m] /\ top[m] \in 0..MaxInc
      BY <1>2 DEF IInv, TypeOK, Announced
    <3>2. Doubtable(table[n], m) =>
            table[n][m].inc \in 0..MaxInc /\ table[n][m].inc <= top[m]
      BY <1>2 DEF Doubtable, Known, Fits, Record, Incarnation
    <3>3. Timed(n, m) \in 0..MaxInc /\ Timed(n, m) <= top[m]
      BY <3>1, <3>2 DEF Timed
    <3> QED
      BY <3>1, <3>3, MaxIncAssumption
  <2>3. d \in [Subject -> 0..MaxInc]
    BY <2>2
  <2> HIDE DEF d
  <2> QED
    BY <2>1, <2>2, <2>3 DEF IInv, TypeOK, Announced
<1>7. silent' \in [Node -> SUBSET Subject]
  <2>1. silent' = [silent EXCEPT ![n] = @ \ failed]
    BY DEF ProbeRound
  <2> QED
    BY <2>1 DEF IInv, TypeOK
<1>8. faults' \in 0..MaxFaults
  BY <1>1, FaultType
<1> HIDE DEF row, sends
<1>9. PICK yes, none : yes = TRUE /\ none = {}
  OBVIOUS
<1>10. Finish(n, row, yes, none, sends)
  BY <1>1, <1>9
<1> QED
  BY <1>1, <1>3, <1>4, <1>5, <1>6, <1>7, <1>8, <1>10, QuietStep

\* A delta: rumours about others are merged, one about the receiver makes it speak
\* at a later incarnation, which it thereby announces.
LEMMA HandleDeltaStep ==
  ASSUME IInv, NEW n \in Node, NEW f \in net, HandleDelta(n, f)
  PROVE  IInv'
<1> DEFINE i == IF Refutes(n, f.view) THEN NextIncarnation(f.view[n].inc) ELSE inc[n]
           spoken == Merge(table[n][n], [table[n][n] EXCEPT !.inc = i])
           refuted == IF n \in Subject THEN [table[n] EXCEPT ![n] = spoken] ELSE table[n]
           row == [m \in Subject |->
                     IF m # n /\ Known(f.view, m)
                     THEN Heard(table[n][m], f.view[m], m = f.from)
                     ELSE refuted[m]]
           sends == IF Refutes(n, f.view) THEN Push(n, refuted, n) ELSE {}
<1>1. /\ n \in up /\ f.type = "delta"
      /\ inc' = [inc EXCEPT ![n] = i]
      /\ top' = [top EXCEPT ![n] = IF @ < i THEN i ELSE @]
      /\ UNCHANGED <<up, boot, doubt, silent, faults>>
      /\ Finish(n, row, row # refuted, {f}, sends)
  BY DEF HandleDelta
<1>2. GoodRow(f.view, top)
  BY <1>1 DEF IInv, GoodFrame
<1>3. i \in 0..MaxInc /\ (n \in Subject => i \in Incarnation /\ i >= inc[n])
  <2>1. inc[n] \in 0..MaxInc
    BY DEF IInv, TypeOK
  <2>2. CASE Refutes(n, f.view)
    <3>1. f.view[n] \in Record /\ f.view[n].inc >= inc[n]
      BY <1>2, <2>2 DEF Refutes, Known, GoodRow, View
    <3>2. f.view[n].inc \in 0..MaxInc /\ f.view[n].inc \in Incarnation
      BY <3>1 DEF Record, Incarnation
    <3>3. i = NextIncarnation(f.view[n].inc)
      BY <2>2
    <3>4. i \in 0..MaxInc /\ i \in Incarnation /\ i >= f.view[n].inc
      BY <3>2, <3>3, NextIncarnationType
    <3> QED
      BY <2>1, <3>1, <3>2, <3>4
  <2>3. CASE ~Refutes(n, f.view)
    <3>1. i = inc[n]
      BY <2>3
    <3>2. n \in Subject => inc[n] \in Incarnation
      BY <1>1, RowFacts DEF Record
    <3> QED
      BY <2>1, <3>1, <3>2
  <2> QED
    BY <2>2, <2>3
<1> HIDE DEF i
<1>4. /\ top' \in [Node -> 0..MaxInc] /\ i <= top'[n]
      /\ \A k \in Node : top[k] <= top'[k]
  BY <1>1, <1>3 DEF IInv, TypeOK
<1>5. n \in Subject => spoken \in Record /\ spoken.st = Alive /\ spoken.inc = i
  <2> SUFFICES ASSUME n \in Subject
               PROVE  spoken \in Record /\ spoken.st = Alive /\ spoken.inc = i
    OBVIOUS
  <2>1. /\ table[n][n] \in Record /\ table[n][n].st = Alive
        /\ table[n][n].inc = inc[n] /\ inc[n] \in Int /\ i \in Int
    BY <1>1, <1>3, RowFacts DEF Record, Incarnation
  <2> DEFINE s == [table[n][n] EXCEPT !.inc = i]
  <2>2. s \in Record /\ s.st = Alive /\ s.inc = i
    BY <1>3, <2>1 DEF Record
  <2>3. spoken \in Record
    BY <2>1, <2>2, MergeType
  <2>4. CASE i = inc[n]
    <3>1. Merge(table[n][n], s).st = Worse(Alive, Alive)
          /\ Merge(table[n][n], s).inc = inc[n]
      BY <2>1, <2>2, <2>4 DEF Merge, Record
    <3> QED
      BY <2>3, <2>4, <3>1 DEF Worse
  <2>5. CASE i > inc[n]
    BY <2>1, <2>2, <2>3, <2>5 DEF Merge
  <2> QED
    BY <1>3, <2>1, <2>3, <2>4, <2>5
<1> HIDE DEF spoken
<1>6. GoodRow(table[n], top') /\ GoodRow(f.view, top')
  BY <1>2, <1>4, GoodMonotone, RowFacts DEF IInv, TypeOK
<1>7. GoodRow(refuted, top')
  <2>1. n \in Subject => Fits(spoken, top'[n])
    BY <1>4, <1>5 DEF Fits, Alive, Dead
  <2> QED
    BY <1>5, <1>6, <2>1, OneRecord
<1>8. n \in Subject => /\ refuted[n] # NoRecord
                       /\ refuted[n].st = Alive /\ refuted[n].inc = i
  BY <1>5, <1>6, NoRecordAssumption DEF GoodRow, View
<1> HIDE DEF refuted
<1>9. GoodRow(row, top')
  <2>1. ASSUME NEW m \in Subject
        PROVE  /\ row[m] \in Record \cup {NoRecord}
               /\ row[m] # NoRecord => Fits(row[m], top'[m])
    <3>1. CASE m # n /\ Known(f.view, m)
      <4>1. /\ table[n][m] \in Record \cup {NoRecord} /\ f.view[m] \in Record
            /\ top'[m] \in 0..MaxInc
            /\ table[n][m] # NoRecord => Fits(table[n][m], top'[m])
            /\ Fits(f.view[m], top'[m])
        BY <1>4, <1>6, <3>1, GossipAssumption DEF GoodRow, View, Known
      <4>2. PICK own : own = (m = f.from)
        OBVIOUS
      <4>3. row[m] = Heard(table[n][m], f.view[m], own)
        BY <3>1, <4>2
      <4> QED
        BY <4>1, <4>3, HeardType, FitsHeard
    <3>2. CASE ~(m # n /\ Known(f.view, m))
      BY <1>7, <3>2 DEF GoodRow, View
    <3> QED
      BY <3>1, <3>2
  <2> QED
    BY <2>1 DEF GoodRow, View
<1>10. n \in Subject => row[n] = refuted[n]
  OBVIOUS
<1>11. \A g \in sends : GoodFrame(g, top')
  <2>1. CASE Refutes(n, f.view)
    <3>1. n \in Subject
      BY <2>1 DEF Refutes
    <3> QED
      BY <1>7, <2>1, <3>1, PushGood, RowFacts
  <2>2. CASE ~Refutes(n, f.view)
    BY <2>2
  <2> QED
    BY <2>1, <2>2
<1>12. Announced'
  <2>1. ASSUME NEW k \in Node
        PROVE  boot'[k] <= top'[k] /\ (k \in up' => boot'[k] >= 1)
    <3>1. boot[k] \in 0..MaxInc /\ top[k] \in 0..MaxInc /\ top'[k] \in 0..MaxInc
          /\ boot[k] <= top[k] /\ (k \in up => boot[k] >= 1)
      BY <1>4 DEF IInv, TypeOK, Announced
    <3> QED
      BY <1>1, <1>4, <3>1
  <2>2. ASSUME NEW k \in Node, NEW m \in Subject
        PROVE  doubt'[k][m] <= top'[m]
    <3>1. m \in Node
      BY GossipAssumption
    <3>2. /\ doubt[k][m] \in 0..MaxInc /\ top[m] \in 0..MaxInc
          /\ top'[m] \in 0..MaxInc /\ doubt[k][m] <= top[m]
      BY <1>4, <3>1 DEF IInv, TypeOK, Announced
    <3> QED
      BY <1>1, <1>4, <3>1, <3>2
  <2> QED
    BY <2>1, <2>2 DEF Announced
<1>13. Others'
  <2>1. inc' \in [Node -> 0..MaxInc]
    BY <1>1, <1>3 DEF IInv, TypeOK
  <2> QED
    BY <1>1, <1>4, <1>12, <2>1 DEF IInv, TypeOK, Others
<1>14. n \in up' \cap Subject => row[n].st = Alive /\ row[n].inc = inc'[n]
  BY <1>1, <1>8, <1>10 DEF IInv, TypeOK
<1>15. \A k \in up' \ {n} : k \in up /\ inc'[k] = inc[k]
  BY <1>1 DEF IInv, TypeOK
<1>16. n \in Subject => row[n] # NoRecord
  BY <1>8, <1>10
<1> HIDE DEF row, sends
<1>17. PICK moved, handled : moved = (row # refuted) /\ handled = {f}
  OBVIOUS
<1>18. Finish(n, row, moved, handled, sends)
  BY <1>1, <1>17
<1> QED
  BY <1>4, <1>9, <1>11, <1>13, <1>14, <1>15, <1>16, <1>18, HandlerStep

LEMMA HandleLeaveStep ==
  ASSUME IInv, NEW n \in Node, NEW f \in net, HandleLeave(n, f)
  PROVE  IInv'
<1>1. f.from \in Node
  BY GossipAssumption DEF IInv, TypeOK, Frame
<1>2. PICK handled : handled = {f}
  OBVIOUS
<1>3. Bury(n, f.from, handled) /\ UNCHANGED faults
  BY <1>2 DEF HandleLeave
<1> QED
  BY <1>1, <1>3, BuryStep

-----------------------------------------------------------------------------
LEMMA InitIInv == Init => IInv
<1> SUFFICES ASSUME Init
             PROVE  IInv
  OBVIOUS
<1>1. TypeOK
  BY NoViewGood, MaxIncAssumption, GossipAssumption DEF Init, TypeOK, NoDoubts, GoodRow
<1>2. OwnRecord
  BY DEF Init, OwnRecord
<1>3. \A n \in Node : GoodRow(table[n], top)
  BY NoViewGood DEF Init
<1>4. Announced
  BY GossipAssumption DEF Init, Announced, NoDoubts
<1> QED
  BY <1>1, <1>2, <1>3, <1>4 DEF Init, IInv

LEMMA NextIInv == IInv /\ [Next]_vars => IInv'
<1> SUFFICES ASSUME IInv, [Next]_vars
             PROVE  IInv'
  OBVIOUS
<1>1. ASSUME NEW n \in Node, NEW i \in Incarnation, Start(n, i)
      PROVE  IInv'
  BY <1>1, StartStep
<1>2. ASSUME NEW n \in Node, Crash(n) \/ Leave(n) \/ Reevaluate(n)
      PROVE  IInv'
  BY <1>2, LivesStep, ReevaluateStep
<1>3. ASSUME NEW n \in Node, NEW m \in Node,
             \/ Handshake(n, m) \/ PeerLost(n, m) \/ PeerGone(n, m)
             \/ LeaderSilent(n, m) \/ BeatResumed(n, m) \/ GossipRound(n, m)
      PROVE  IInv'
  <2>1. CASE Handshake(n, m)
    BY <2>1, HandshakeStep
  <2>2. CASE PeerLost(n, m)
    <3>1. PICK beats, no : beats = {} /\ no = FALSE
      OBVIOUS
    <3>2. Suspects(n, m, beats, no) /\ beats \in SUBSET Subject
      BY <2>2, <3>1 DEF PeerLost
    <3> QED
      BY <3>2, SuspectsStep
  <2>3. CASE PeerGone(n, m)
    <3>1. PICK none : none = {}
      OBVIOUS
    <3>2. Bury(n, m, none) /\ Fault
      BY <2>3, <3>1 DEF PeerGone
    <3> QED
      BY <3>2, BuryStep
  <2>4. CASE LeaderSilent(n, m)
    <3>1. PICK beats, yes : beats = {m} /\ yes = TRUE
      OBVIOUS
    <3>2. Suspects(n, m, beats, yes)
      BY <2>4, <3>1 DEF LeaderSilent
    <3>3. beats \in SUBSET Subject
      BY <3>1, <3>2 DEF Suspects
    <3> QED
      BY <3>2, <3>3, SuspectsStep
  <2>5. CASE BeatResumed(n, m)
    BY <2>5, BeatResumedStep
  <2>6. CASE GossipRound(n, m)
    BY <2>6, GossipStep
  <2> QED
    BY <1>3, <2>1, <2>2, <2>3, <2>4, <2>5, <2>6
<1>4. ASSUME NEW n \in Node, NEW late \in SUBSET Subject, NEW old \in SUBSET Subject,
             ControlTick(n, late, old)
      PROVE  IInv'
  BY <1>4, ControlTickStep
<1>5. ASSUME NEW n \in Node, NEW missed \in SUBSET Subject,
             NEW failed \in SUBSET Subject, NEW clear \in SUBSET Subject,
             NEW s \in Score, ProbeRound(n, missed, failed, clear, s)
      PROVE  IInv'
  BY <1>5, ProbeRoundStep
<1>6. ASSUME NEW n \in Node, NEW f \in net, Handle(n, f)
      PROVE  IInv'
  BY <1>6, PeerUpStep, HandleDeltaStep, HandleLeaveStep DEF Handle
<1>7. CASE UNCHANGED vars
  BY <1>7 DEF vars, IInv, TypeOK, OwnRecord, Announced
<1> QED
  BY <1>1, <1>2, <1>3, <1>4, <1>5, <1>6, <1>7 DEF Next

LEMMA SpecIInv == Spec => []IInv
BY InitIInv, NextIInv, PTL DEF Spec

\* The types of every table, doubt and frame, for every set of nodes and members.
THEOREM TypeCorrect == Spec => []TypeOK
<1>1. IInv => TypeOK
  BY DEF IInv
<1> QED
  BY <1>1, SpecIInv, PTL

\* A running node holds itself alive at the incarnation it speaks for, whatever
\* rumours reach it and in whatever order (handleMembershipDelta, refuteIfNeeded).
THEOREM OwnRecordHolds == Spec => []OwnRecord
<1>1. IInv => OwnRecord
  BY DEF IInv
<1> QED
  BY <1>1, SpecIInv, PTL

\* No merge, death, revival or relay invents a life: every record of a member, in
\* every table and frame, is at an incarnation it announced or the death one past.
THEOREM NobodyForgesALife == Spec => []NoForgedLife
<1>1. ASSUME IInv
      PROVE  NoForgedLife
  <2> SUFFICES ASSUME NEW m \in Subject, NEW r \in RecordsOf(m)
               PROVE  Fits(r, top[m])
    BY DEF NoForgedLife, Fits
  <2>1. ASSUME NEW n \in Node, r = table[n][m], r # NoRecord
        PROVE  Fits(r, top[m])
    BY <1>1, <2>1 DEF IInv, GoodRow
  <2>2. ASSUME NEW f \in net, f.type = "delta", r = f.view[m], r # NoRecord
        PROVE  Fits(r, top[m])
    BY <1>1, <2>2 DEF IInv, GoodFrame, GoodRow
  <2> QED
    BY <2>1, <2>2 DEF RecordsOf
<1>2. IInv => NoForgedLife
  BY <1>1
<1> QED
  BY <1>2, SpecIInv, PTL

-----------------------------------------------------------------------------
(***************************************************************************)
(* Claims: wherever a member's claim is held, at whatever incarnation it   *)
(* was copied to, it is the one the member made, and what the member says  *)
(* now outranks all of it.                                                 *)
(*                                                                         *)
(* What a member ever said is a voice: the claim it made under each        *)
(* sequence number, at each incarnation.  The model has no variable for    *)
(* it, since no node keeps it, so the invariant says that some voice       *)
(* agrees with every record there is.                                      *)
(***************************************************************************)


Voice == [Incarnation -> [Nat -> Claim]]

\* An incarnation the member spoke at: a death recorded past it repeats what was
\* said, and belongs to the same life as it (the life at hand began at b).
Whole(v, b, i) ==
  /\ v[i] = v[NextIncarnation(i)]
  /\ i < b => NextIncarnation(i) < b

\* Record r repeats voice v of a member whose life began at b and that has made
\* k claims in it.
Told(r, v, b, k) ==
  /\ b >= 1
  /\ r.claim.seq > 0 => r.claim = v[r.inc][r.claim.seq]
  /\ r.st # Dead => Whole(v, b, r.inc)
  /\ r.inc >= b => r.claim.seq <= k

ToldRow(row, v, b, k) ==
  \A m \in Subject : row[m] # NoRecord => Told(row[m], v[m], b[m], k[m])

ToldFrame(f, v, b, k) ==
  /\ f.type = "delta" => ToldRow(f.view, v, b, k)
  /\ f.type = "up" => b[f.from] >= 1 /\ Whole(v[f.from], b[f.from], f.inc)

\* Within one life a member says the same at whichever incarnation.
Steady(v, b) == \A m \in Subject, i \in Incarnation :
  b[m] >= 1 /\ i >= b[m] => v[m][i] = v[m][b[m]]

\* A doubt is about a record held, and no later than it: reviving at the doubted
\* incarnation carries no claim to an incarnation it was not made at.
DoubtTold(d, r, v, b) ==
  d # 0 => /\ r # NoRecord
           /\ d <= r.inc
           /\ Whole(v, b, d)

VoiceInv(v, k) ==
  /\ \A n \in Node : ToldRow(table[n], v, boot, k)
  /\ \A f \in net : ToldFrame(f, v, boot, k)
  /\ Steady(v, boot)
  /\ \A n \in Node, m \in Subject : DoubtTold(doubt[n][m], table[n][m], v[m], boot[m])
  /\ \A n \in Node \ up, m \in Subject : doubt[n][m] = 0
  /\ \A m \in up \cap Subject : k[m] = table[m][m].claim.seq /\ inc[m] = top[m]

Voiced == \E v \in [Subject -> Voice], k \in [Subject -> Nat] : VoiceInv(v, k)

-----------------------------------------------------------------------------
\* Operations on one record repeat what was said.

LEMMA NextIn ==
  ASSUME NEW i \in Incarnation
  PROVE  NextIncarnation(i) \in Incarnation /\ NextIncarnation(i) >= i /\ i \in Int
         /\ NextIncarnation(i) \in Int
BY NextIncarnationType DEF Incarnation

\* What a record is made of.
LEMMA RecordParts ==
  ASSUME NEW r \in Record
  PROVE  /\ r.inc \in Incarnation /\ r.inc \in Int /\ r.st \in State
         /\ r.claim \in Claim /\ r.claim.seq \in Nat
BY DEF Record, Claim, Incarnation

LEMMA ToldMerge ==
  ASSUME NEW r \in Record, NEW s \in Record, NEW v \in Voice, NEW b \in 0..MaxInc,
         NEW k \in Nat, Told(r, v, b, k), Told(s, v, b, k)
  PROVE  Told(Merge(r, s), v, b, k) /\ Merge(r, s).inc >= r.inc
<1>1. r.inc \in Int /\ s.inc \in Int /\ r.claim.seq \in Nat /\ s.claim.seq \in Nat
  BY RecordParts
<1>2. CASE r.inc = s.inc
  <2> DEFINE c == MergedClaim(r.claim, s.claim)
  <2>1. /\ Merge(r, s).inc = r.inc /\ Merge(r, s).st = Worse(r.st, s.st)
        /\ Merge(r, s).claim = c
    BY <1>1, <1>2 DEF Merge, Record
  <2>2. Worse(r.st, s.st) # Dead => r.st # Dead
    BY RecordParts DEF Worse, State, Alive, Suspect, Dead
  <2>3. c = r.claim \/ c = s.claim \/ c.seq = 0
    BY <1>1 DEF MergedClaim, Record, Claim
  <2>4. c.seq > 0 => c = v[r.inc][c.seq]
    BY <1>2, <2>3 DEF Told
  <2>5. r.inc >= b => c.seq <= k
    BY <1>2, <2>3 DEF Told
  <2> QED
    BY <1>1, <2>1, <2>2, <2>4, <2>5 DEF Told
<1>3. CASE r.inc # s.inc
  BY <1>1, <1>3 DEF Merge
<1> QED
  BY <1>2, <1>3

LEMMA ToldHeard ==
  ASSUME NEW held \in Record \cup {NoRecord}, NEW r \in Record, NEW firstHand,
         NEW v \in Voice, NEW b \in 0..MaxInc, NEW k \in Nat,
         held # NoRecord => Told(held, v, b, k), Told(r, v, b, k)
  PROVE  /\ Heard(held, r, firstHand) # NoRecord => Told(Heard(held, r, firstHand), v, b, k)
         /\ held # NoRecord => /\ Heard(held, r, firstHand) # NoRecord
                               /\ Heard(held, r, firstHand).inc >= held.inc
<1> DEFINE t == Believed(held, r, firstHand)
<1>1. t \in Record /\ t.st = r.st /\ t.inc = r.inc
  BY BelievedType
<1>2. t.claim.seq = r.claim.seq /\ (r.claim.seq > 0 => t.claim = r.claim)
  <2>1. r.claim \in Claim /\ r.claim.seq \in Nat
    BY RecordParts
  <2> QED
    BY <2>1 DEF Believed, Record, Claim
<1>3. Told(t, v, b, k)
  BY <1>1, <1>2 DEF Told
<1> HIDE DEF t
<1>4. CASE held = NoRecord
  BY <1>3, <1>4 DEF Heard, t
<1>5. CASE held # NoRecord
  <2>1. Heard(held, r, firstHand) = Merge(held, t)
    BY <1>5 DEF Heard, t
  <2>2. Merge(held, t) \in Record
    BY <1>1, <1>5, MergeType
  <2> QED
    BY <1>1, <1>3, <1>5, <2>1, <2>2, ToldMerge, NoRecordAssumption
<1> QED
  BY <1>4, <1>5

\* A death is the one of an incarnation spoken at.
LEMMA ToldSetState ==
  ASSUME NEW r \in Record, NEW s \in {Suspect, Dead}, NEW v \in Voice,
         NEW b \in 0..MaxInc, NEW k \in Nat, Told(r, v, b, k),
         s = Suspect => r.st # Dead
  PROVE  Told(SetState(r, s), v, b, k) /\ SetState(r, s).inc >= r.inc
<1>1. r.inc \in Incarnation /\ r.claim.seq \in Nat
  BY RecordParts
<1>2. /\ NextIncarnation(r.inc) \in Int /\ NextIncarnation(r.inc) >= r.inc
      /\ r.inc \in Int
  BY <1>1, NextIn
<1>3. CASE r.st = s
  BY <1>2, <1>3 DEF SetState
<1>4. CASE s = Dead /\ r.st # Dead
  <2>1. /\ SetState(r, s).st = Dead /\ SetState(r, s).inc = NextIncarnation(r.inc)
        /\ SetState(r, s).claim = r.claim
    BY <1>4 DEF SetState, Record
  <2>2. Whole(v, b, r.inc)
    BY <1>4 DEF Told
  <2>3. NextIncarnation(r.inc) >= b => r.inc >= b
    BY <1>2, <2>2 DEF Whole
  <2> QED
    BY <1>2, <2>1, <2>2, <2>3 DEF Told, Whole
<1>5. CASE s = Suspect /\ r.st # Suspect
  <2>1. /\ SetState(r, s).st = Suspect /\ SetState(r, s).inc = r.inc
        /\ SetState(r, s).claim = r.claim
    BY <1>5 DEF SetState, Record, Suspect, Dead
  <2> QED
    BY <1>2, <1>5, <2>1 DEF Told
<1> QED
  BY <1>3, <1>4, <1>5

\* Evidence no later than the record brings it back at its own incarnation, if at
\* all.
LEMMA ToldRevive ==
  ASSUME NEW r \in Record, NEW i \in Int, NEW v \in Voice, NEW b \in 0..MaxInc,
         NEW k \in Nat, Told(r, v, b, k), i <= r.inc, Whole(v, b, i)
  PROVE  Told(Revive(r, i), v, b, k) /\ Revive(r, i).inc = r.inc
<1>1. r.inc \in Int
  BY RecordParts
<1>2. CASE i < r.inc
  BY <1>2 DEF Revive
<1>3. CASE i = r.inc
  <2>1. /\ Revive(r, i).st = Alive /\ Revive(r, i).inc = r.inc
        /\ Revive(r, i).claim = r.claim
    BY <1>1, <1>3 DEF Revive, Record
  <2> QED
    BY <1>1, <1>3, <2>1 DEF Told
<1> QED
  BY <1>1, <1>2, <1>3

-----------------------------------------------------------------------------
(***************************************************************************)
(* A new claim.  The voice says it at every incarnation of the life at     *)
(* hand; nothing that was told is told differently.                        *)
(***************************************************************************)

\* Voice v with k claims, and what n says next, of lives that began at b: whatever
\* repeats the former repeats the latter.
Grows(v, k, w, j, b, n) ==
  /\ \A row \in View : ToldRow(row, v, b, k) => ToldRow(row, w, b, j)
  /\ \A f \in Frame : ToldFrame(f, v, b, k) => ToldFrame(f, w, b, j)
  /\ \A m \in Subject, i \in Incarnation : Whole(v[m], b[m], i) => Whole(w[m], b[m], i)
  /\ Steady(w, b)
  /\ \A m \in Subject \ {n} : j[m] = k[m]

LEMMA GrowsNot ==
  ASSUME NEW v, NEW k, NEW b, NEW n, Steady(v, b)
  PROVE  Grows(v, k, v, k, b, n)
BY DEF Grows

LEMMA GrowsAgain ==
  ASSUME NEW v, NEW k, NEW w, NEW j, NEW x, NEW l, NEW b, NEW n,
         Grows(v, k, w, j, b, n), Grows(w, j, x, l, b, n)
  PROVE  Grows(v, k, x, l, b, n)
BY DEF Grows

\* What n says at incarnation i under its next number, from b on.
Spoken(v, b, n, c) ==
  [v EXCEPT ![n] = [i \in Incarnation |->
                      IF i >= b[n] THEN [v[n][i] EXCEPT ![c.seq] = c] ELSE v[n][i]]]

LEMMA SpokenParts ==
  ASSUME NEW v \in [Subject -> Voice], NEW k \in [Subject -> Nat],
         NEW b \in [Node -> 0..MaxInc], NEW n \in Subject,
         NEW c \in Claim, c.seq = k[n] + 1
  PROVE  /\ Spoken(v, b, n, c) \in [Subject -> Voice]
         /\ \A m \in Subject \ {n} : Spoken(v, b, n, c)[m] = v[m]
         /\ \A i \in Incarnation :
              Spoken(v, b, n, c)[n][i] =
                IF i >= b[n] THEN [v[n][i] EXCEPT ![c.seq] = c] ELSE v[n][i]
<1> DEFINE said == [i \in Incarnation |->
                      IF i >= b[n] THEN [v[n][i] EXCEPT ![c.seq] = c] ELSE v[n][i]]
<1>1. v[n] \in [Incarnation -> [Nat -> Claim]]
  BY DEF Voice
<1>2. ASSUME NEW i \in Incarnation
      PROVE  said[i] \in [Nat -> Claim]
  BY <1>1
<1>3. said \in Voice
  BY <1>2 DEF Voice
<1>4. Spoken(v, b, n, c) = [v EXCEPT ![n] = said]
  BY DEF Spoken
<1>5. \A i \in Incarnation :
        said[i] = IF i >= b[n] THEN [v[n][i] EXCEPT ![c.seq] = c] ELSE v[n][i]
  OBVIOUS
<1> HIDE DEF said
<1> QED
  BY <1>3, <1>4, <1>5

\* A word of one life keeps what was told, except of the claim it adds.
LEMMA ToldSpoken ==
  ASSUME NEW v \in Voice, NEW w \in Voice, NEW b \in 0..MaxInc, NEW k \in Nat,
         NEW c \in Claim, c.seq = k + 1,
         \A i \in Incarnation :
           w[i] = IF i >= b THEN [v[i] EXCEPT ![c.seq] = c] ELSE v[i]
  PROVE  /\ \A i \in Incarnation : Whole(v, b, i) => Whole(w, b, i)
         /\ \A r \in Record : Told(r, v, b, k) => Told(r, w, b, k + 1)
<1>1. ASSUME NEW i \in Incarnation, Whole(v, b, i)
      PROVE  Whole(w, b, i)
  <2>1. NextIncarnation(i) \in Incarnation /\ NextIncarnation(i) >= i /\ i \in Int
        /\ NextIncarnation(i) \in Int /\ b \in Int
    BY NextIn
  <2>2. (i >= b) <=> (NextIncarnation(i) >= b)
    BY <1>1, <2>1 DEF Whole
  <2> QED
    BY <1>1, <2>1, <2>2 DEF Whole
<1>2. ASSUME NEW r \in Record, Told(r, v, b, k)
      PROVE  Told(r, w, b, k + 1)
  <2>1. r.inc \in Incarnation /\ r.claim.seq \in Nat
    BY RecordParts
  <2>2. v[r.inc] \in [Nat -> Claim]
    BY <2>1 DEF Voice
  <2>3. r.inc >= b => r.claim.seq # c.seq
    BY <1>2, <2>1 DEF Told
  <2>4. w[r.inc][r.claim.seq] = v[r.inc][r.claim.seq]
    BY <2>1, <2>2, <2>3
  <2>5. r.inc >= b => r.claim.seq <= k + 1
    BY <1>2, <2>1 DEF Told
  <2> QED
    BY <1>1, <1>2, <2>1, <2>4, <2>5 DEF Told
<1> QED
  BY <1>1, <1>2

LEMMA SpokenGrows ==
  ASSUME NEW v \in [Subject -> Voice], NEW k \in [Subject -> Nat],
         NEW b \in [Node -> 0..MaxInc], NEW n \in Subject,
         NEW c \in Claim, c.seq = k[n] + 1, Steady(v, b)
  PROVE  Grows(v, k, Spoken(v, b, n, c), [k EXCEPT ![n] = k[n] + 1], b, n)
<1> DEFINE j == [k EXCEPT ![n] = k[n] + 1]
<1>1. PICK w \in [Subject -> Voice] :
        /\ w = Spoken(v, b, n, c)
        /\ \A m \in Subject \ {n} : w[m] = v[m]
        /\ \A i \in Incarnation :
             w[n][i] = IF i >= b[n] THEN [v[n][i] EXCEPT ![c.seq] = c] ELSE v[n][i]
  BY SpokenParts
<1>2. /\ \A m \in Subject \ {n} : j[m] = k[m]
      /\ j[n] = k[n] + 1
  OBVIOUS
<1>3. ASSUME NEW m \in Subject
      PROVE  /\ \A i \in Incarnation : Whole(v[m], b[m], i) => Whole(w[m], b[m], i)
             /\ \A r \in Record : Told(r, v[m], b[m], k[m]) => Told(r, w[m], b[m], j[m])
  <2>1. /\ \A i \in Incarnation : Whole(v[n], b[n], i) => Whole(w[n], b[n], i)
        /\ \A r \in Record : Told(r, v[n], b[n], k[n]) => Told(r, w[n], b[n], k[n] + 1)
    <3>1. v[n] \in Voice /\ w[n] \in Voice /\ b[n] \in 0..MaxInc /\ k[n] \in Nat
      BY GossipAssumption
    <3>2. PICK vn, wn, bn, kn : vn = v[n] /\ wn = w[n] /\ bn = b[n] /\ kn = k[n]
      OBVIOUS
    <3>3. \A i \in Incarnation :
            wn[i] = IF i >= bn THEN [vn[i] EXCEPT ![c.seq] = c] ELSE vn[i]
      BY <1>1, <3>2
    <3>4. /\ \A i \in Incarnation : Whole(vn, bn, i) => Whole(wn, bn, i)
          /\ \A r \in Record : Told(r, vn, bn, kn) => Told(r, wn, bn, kn + 1)
      BY <3>1, <3>2, <3>3, ToldSpoken
    <3> QED
      BY <3>2, <3>4
  <2>2. CASE m = n
    BY <1>2, <2>1, <2>2
  <2>3. CASE m # n
    BY <1>1, <1>2, <2>3
  <2> QED
    BY <2>2, <2>3
<1> HIDE DEF j
<1>4. ASSUME NEW row \in View, ToldRow(row, v, b, k)
      PROVE  ToldRow(row, w, b, j)
  BY <1>3, <1>4 DEF ToldRow, View
<1>5. ASSUME NEW f \in Frame, ToldFrame(f, v, b, k)
      PROVE  ToldFrame(f, w, b, j)
  <2>1. f.type = "delta" => ToldRow(f.view, w, b, j)
    BY <1>4, <1>5 DEF ToldFrame, Frame
  <2>2. f.type = "up" => f.from \in Subject /\ f.inc \in Incarnation
    BY <1>5 DEF Frame
  <2> QED
    BY <1>3, <1>5, <2>1, <2>2 DEF ToldFrame
<1>6. Steady(w, b)
  <2> SUFFICES ASSUME NEW m \in Subject, NEW i \in Incarnation, b[m] >= 1, i >= b[m]
               PROVE  w[m][i] = w[m][b[m]]
    BY DEF Steady
  <2>1. v[m][i] = v[m][b[m]]
    BY DEF Steady
  <2>2. CASE m = n
    <3>1. b[n] \in Incarnation /\ b[n] >= b[n] /\ i >= b[n]
      BY <2>2, GossipAssumption DEF Incarnation
    <3>2. /\ w[n][i] = [v[n][i] EXCEPT ![c.seq] = c]
          /\ w[n][b[n]] = [v[n][b[n]] EXCEPT ![c.seq] = c]
      BY <1>1, <3>1
    <3>3. v[n][i] = v[n][b[n]]
      BY <2>1, <2>2
    <3> QED
      BY <2>2, <3>2, <3>3
  <2>3. CASE m # n
    BY <1>1, <2>1, <2>3
  <2> QED
    BY <2>2, <2>3
<1> QED
  BY <1>1, <1>2, <1>3, <1>4, <1>5, <1>6 DEF Grows, j

\* The record a member holds of itself, of the life that began at b, once it has
\* made k claims.
Own(r, b, k) ==
  /\ r # NoRecord /\ r.st = Alive
  /\ r.inc >= b /\ r.claim.seq = k

\* The row with x for n's own record is told by some voice that grows from v.
Retold(v, k, b, n, row, x) ==
  \E w \in [Subject -> Voice], j \in [Subject -> Nat] :
    /\ Grows(v, k, w, j, b, n)
    /\ ToldRow([row EXCEPT ![n] = x], w, b, j)
    /\ Own(x, b[n], j[n])
    /\ x \in Record /\ x.inc = row[n].inc

\* What n writes to its own record is told from now on.
LEMMA RestateTold ==
  ASSUME NEW v \in [Subject -> Voice], NEW k \in [Subject -> Nat],
         NEW b \in [Node -> 0..MaxInc], NEW n \in Subject, NEW row \in View,
         Steady(v, b), ToldRow(row, v, b, k), Own(row[n], b[n], k[n]),
         NEW x, x = row[n] \/ \E role \in Role, score \in Score :
                                x = Restated(row[n], role, score)
  PROVE  Retold(v, k, b, n, row, x)
<1>0. row[n] \in Record
  BY DEF Own, View
<1>1. CASE x = row[n]
  <2>1. [row EXCEPT ![n] = x] = row
    BY <1>1 DEF View
  <2> QED
    BY <1>0, <1>1, <2>1, GrowsNot DEF Retold
<1>2. CASE x # row[n]
  <2>1. PICK role \in Role, score \in Score : x = Restated(row[n], role, score)
    BY <1>2
  <2> DEFINE c == [role |-> role, score |-> score, seq |-> row[n].claim.seq + 1]
  <2>2. x \in Record /\ x.st = Alive /\ x.inc = row[n].inc
    BY <1>0, <2>1, RestatedType DEF Own
  <2>3. x.claim = c
    BY <1>0, <2>1 DEF Restated, Record
  <2>4. c \in Claim /\ c.seq = k[n] + 1
    BY <1>0 DEF Own, Claim, Record
  <2> HIDE DEF c
  <2> DEFINE w == Spoken(v, b, n, c)
             j == [k EXCEPT ![n] = k[n] + 1]
  <2>5. Grows(v, k, w, j, b, n)
    BY <2>4, SpokenGrows
  <2>6. /\ w \in [Subject -> Voice] /\ j \in [Subject -> Nat] /\ j[n] = k[n] + 1
        /\ \A i \in Incarnation :
             w[n][i] = IF i >= b[n] THEN [v[n][i] EXCEPT ![c.seq] = c] ELSE v[n][i]
    BY <2>4, SpokenParts
  <2> HIDE DEF w, j
  <2>7. ToldRow(row, w, b, j)
    BY <2>5 DEF Grows
  <2>8. Told(x, w[n], b[n], j[n])
    <3>1. row[n].inc \in Incarnation /\ row[n].inc >= b[n] /\ row[n].st # Dead
          /\ row[n] # NoRecord
      BY <1>0, RecordParts DEF Own, Alive, Dead
    <3>2. Told(row[n], w[n], b[n], j[n])
      BY <2>7, <3>1 DEF ToldRow
    <3>3. v[n][row[n].inc] \in [Nat -> Claim] /\ c.seq \in Nat
      BY <2>4, <3>1 DEF Voice
    <3>4. w[n][x.inc][c.seq] = c
      BY <2>2, <2>6, <3>1, <3>3
    <3> QED
      BY <2>2, <2>3, <2>4, <2>6, <3>1, <3>2, <3>4 DEF Told
  <2>9. ToldRow([row EXCEPT ![n] = x], w, b, j)
    BY <2>7, <2>8 DEF ToldRow, View
  <2>10. Own(x, b[n], j[n])
    BY <2>2, <2>3, <2>4, <2>6, NoRecordAssumption DEF Own
  <2> QED
    BY <2>2, <2>5, <2>6, <2>9, <2>10 DEF Retold
<1> QED
  BY <1>1, <1>2

-----------------------------------------------------------------------------
\* Frames and the end of a handler.

LEMMA PushTold ==
  ASSUME NEW n \in Node, NEW m \in Subject, NEW row \in View,
         NEW v, NEW b, NEW k, up \subseteq Node, ToldRow(row, v, b, k)
  PROVE  \A f \in Push(n, row, m) : f \in Frame /\ ToldFrame(f, v, b, k)
<1>1. Only(row, m) \in View /\ ToldRow(Only(row, m), v, b, k)
  BY DEF Only, NoView, View, ToldRow
<1>2. \A q \in Node : /\ Delta(n, q, Only(row, m)) \in Frame
                      /\ ToldFrame(Delta(n, q, Only(row, m)), v, b, k)
  BY <1>1 DEF Delta, Frame, ToldFrame
<1> QED
  BY <1>2 DEF Push, Broadcast

\* What a record held before is still held, at no lower incarnation.
Above(last, row) == \A m \in Subject : row[m] # NoRecord =>
  last[m] # NoRecord /\ last[m].inc >= row[m].inc

\* The step leaves n with a row, and the net with frames, told by some voice that
\* grows from v.
Ends(v, k, b, n, row) ==
  \E w \in [Subject -> Voice], j \in [Subject -> Nat], last \in View :
    /\ Grows(v, k, w, j, b, n)
    /\ \A f \in net' : ToldFrame(f, w, b, j)
    /\ table' = [table EXCEPT ![n] = last]
    /\ ToldRow(last, w, b, j)
    /\ n \in Subject => Own(last[n], b[n], j[n])
    /\ Above(last, row)

\* A handler that ends in a told row and sends told frames leaves told ones, for a
\* voice that may have grown by the role the evaluation published.
LEMMA FinishTold ==
  ASSUME NEW v \in [Subject -> Voice], NEW k \in [Subject -> Nat],
         NEW b \in [Node -> 0..MaxInc], NEW n \in Node, NEW row \in View,
         NEW changed, NEW handled, NEW sends, up \subseteq Node,
         Steady(v, b), ToldRow(row, v, b, k),
         n \in Subject => Own(row[n], b[n], k[n]),
         \A f \in net \cup sends : f \in Frame /\ ToldFrame(f, v, b, k),
         Finish(n, row, changed, handled, sends)
  PROVE  Ends(v, k, b, n, row)
<1>1. PICK role \in Role :
        LET last == IF changed THEN Evaluated(n, row, role) ELSE row
            told == IF last = row THEN {} ELSE Push(n, last, n)
        IN  /\ table' = [table EXCEPT ![n] = last]
            /\ Post(handled, sends \cup told)
  BY DEF Finish, Role
<1> DEFINE last == IF changed THEN Evaluated(n, row, role) ELSE row
           told == IF last = row THEN {} ELSE Push(n, last, n)
<1>2. table' = [table EXCEPT ![n] = last] /\ Post(handled, sends \cup told)
  BY <1>1
<1>3. CASE last = row
  <2>1. \A f \in net' : ToldFrame(f, v, b, k)
    BY <1>2, <1>3 DEF Post
  <2>2. Above(row, row)
    BY RecordParts DEF Above, View
  <2> QED
    BY <1>2, <1>3, <2>1, <2>2, GrowsNot DEF Ends
<1>4. CASE last # row
  <2>0. PICK x : x = SetRole(row[n], role)
    OBVIOUS
  <2>1. n \in Subject /\ last = [row EXCEPT ![n] = x]
    <3>1. changed /\ last = Evaluated(n, row, role)
      BY <1>4
    <3>2. \E m \in Subject : last[m] # row[m]
      BY <1>4, <3>1 DEF Evaluated, View
    <3>3. n \in Subject /\ row[n].claim.seq < MaxSeq
      BY <3>1, <3>2 DEF Evaluated
    <3> QED
      BY <2>0, <3>1, <3>3 DEF Evaluated, View
  <2>2. row[n] \in Record
    BY <2>1 DEF Own, View
  <2>3. row[n].claim.score \in Score
    BY <2>2 DEF Record, Claim
  <2>4. x = row[n] \/ \E r \in Role, s \in Score : x = Restated(row[n], r, s)
    BY <2>0, <2>3 DEF SetRole
  <2> HIDE DEF last
  <2>5. PICK w \in [Subject -> Voice], j \in [Subject -> Nat] :
          /\ Grows(v, k, w, j, b, n)
          /\ ToldRow([row EXCEPT ![n] = x], w, b, j)
          /\ Own(x, b[n], j[n])
          /\ x \in Record /\ x.inc = row[n].inc
    <3>1. Retold(v, k, b, n, row, x)
      BY <2>1, <2>4, RestateTold
    <3> QED
      BY <3>1 DEF Retold
  <2>6. last \in View /\ ToldRow(last, w, b, j) /\ Own(last[n], b[n], j[n])
    BY <2>1, <2>5 DEF View
  <2>7. \A f \in told : f \in Frame /\ ToldFrame(f, w, b, j)
    BY <2>1, <2>6, PushTold
  <2>8. \A f \in net \cup sends : ToldFrame(f, w, b, j)
    BY <2>5 DEF Grows
  <2>9. \A f \in net' : ToldFrame(f, w, b, j)
    BY <1>2, <2>7, <2>8 DEF Post
  <2>10. Above(last, row)
    <3> SUFFICES ASSUME NEW m \in Subject, row[m] # NoRecord
                 PROVE  last[m] # NoRecord /\ last[m].inc >= row[m].inc
      BY DEF Above
    <3>1. row[m].inc \in Int
      BY RecordParts DEF View
    <3> QED
      BY <2>1, <2>5, <3>1, NoRecordAssumption DEF View
  <2> QED
    BY <1>2, <2>5, <2>6, <2>9, <2>10 DEF Ends
<1> QED
  BY <1>3, <1>4

\* Every handler is an instance of this step: v and k are what is said once the
\* handler itself is done, before the evaluation that ends it.
LEMMA VoiceStep ==
  ASSUME IInv, IInv', NEW v \in [Subject -> Voice], NEW k \in [Subject -> Nat],
         NEW n \in Node, NEW row \in View, NEW changed, NEW handled, NEW sends,
         Steady(v, boot'),
         \A q \in Node \ {n} : ToldRow(table[q], v, boot', k),
         \A f \in net \cup sends : f \in Frame /\ ToldFrame(f, v, boot', k),
         ToldRow(row, v, boot', k),
         n \in Subject => Own(row[n], boot'[n], k[n]) /\ inc'[n] = top'[n],
         \A m \in (up' \cap Subject) \ {n} : k[m] = table[m][m].claim.seq /\ inc'[m] = top'[m],
         \A m \in Subject :
           /\ DoubtTold(doubt'[n][m], row[m], v[m], boot'[m])
           /\ \A q \in Node \ {n} : DoubtTold(doubt'[q][m], table[q][m], v[m], boot'[m]),
         \A q \in Node \ up', m \in Subject : doubt'[q][m] = 0,
         Finish(n, row, changed, handled, sends)
  PROVE  Voiced'
<1>1. PICK b : b = boot'
  OBVIOUS
<1>2. /\ b \in [Node -> 0..MaxInc] /\ up \subseteq Node /\ table \in [Node -> View]
      /\ doubt' \in [Node -> [Subject -> 0..MaxInc]]
  BY <1>1 DEF IInv, TypeOK
<1>3. /\ Steady(v, b) /\ ToldRow(row, v, b, k)
      /\ n \in Subject => Own(row[n], b[n], k[n])
      /\ \A f \in net \cup sends : f \in Frame /\ ToldFrame(f, v, b, k)
  BY <1>1
<1>4. PICK w \in [Subject -> Voice], j \in [Subject -> Nat], last \in View :
        /\ Grows(v, k, w, j, b, n)
        /\ \A f \in net' : ToldFrame(f, w, b, j)
        /\ table' = [table EXCEPT ![n] = last]
        /\ ToldRow(last, w, b, j)
        /\ n \in Subject => Own(last[n], b[n], j[n])
        /\ Above(last, row)
  <2>1. Ends(v, k, b, n, row)
    BY <1>2, <1>3, FinishTold
  <2> QED
    BY <2>1 DEF Ends
<1>5. /\ table'[n] = last
      /\ \A q \in Node \ {n} : table'[q] = table[q]
  BY <1>2, <1>4
<1>6. \A q \in Node : ToldRow(table'[q], w, b, j)
  <2> SUFFICES ASSUME NEW q \in Node
               PROVE  ToldRow(table'[q], w, b, j)
    OBVIOUS
  <2>1. CASE q = n
    BY <1>4, <1>5, <2>1
  <2>2. CASE q # n
    <3>1. table[q] \in View /\ ToldRow(table[q], v, b, k)
      BY <1>1, <1>2, <2>2
    <3> QED
      BY <1>4, <1>5, <2>2, <3>1 DEF Grows
  <2> QED
    BY <2>1, <2>2
<1>7. ASSUME NEW q \in Node, NEW m \in Subject
      PROVE  DoubtTold(doubt'[q][m], table'[q][m], w[m], b[m])
  <2> SUFFICES ASSUME doubt'[q][m] # 0
               PROVE  /\ table'[q][m] # NoRecord /\ doubt'[q][m] <= table'[q][m].inc
                      /\ Whole(w[m], b[m], doubt'[q][m])
    BY DEF DoubtTold
  <2>1. doubt'[q][m] \in Incarnation
    BY <1>2, MaxIncAssumption DEF Incarnation
  <2>2. \A i \in Incarnation : Whole(v[m], b[m], i) => Whole(w[m], b[m], i)
    BY <1>4 DEF Grows
  <2>3. CASE q = n
    <3>1. /\ row[m] # NoRecord /\ doubt'[n][m] <= row[m].inc
          /\ Whole(v[m], b[m], doubt'[n][m])
      BY <1>1, <2>3 DEF DoubtTold
    <3>2. last[m] # NoRecord /\ last[m].inc >= row[m].inc
      BY <1>4, <3>1 DEF Above
    <3>3. row[m].inc \in Int /\ last[m].inc \in Int /\ doubt'[n][m] \in Int
      BY <2>1, <2>3, <3>1, <3>2, RecordParts DEF View, Incarnation
    <3> QED
      BY <1>5, <2>1, <2>2, <2>3, <3>1, <3>2, <3>3
  <2>4. CASE q # n
    <3>1. /\ table[q][m] # NoRecord /\ doubt'[q][m] <= table[q][m].inc
          /\ Whole(v[m], b[m], doubt'[q][m])
      BY <1>1, <2>4 DEF DoubtTold
    <3> QED
      BY <1>5, <2>1, <2>2, <2>4, <3>1
  <2> QED
    BY <2>3, <2>4
<1>8. ASSUME NEW m \in up' \cap Subject
      PROVE  j[m] = table'[m][m].claim.seq /\ inc'[m] = top'[m]
  <2>1. m \in Node
    BY GossipAssumption
  <2>2. CASE m = n
    BY <1>4, <1>5, <2>2 DEF Own
  <2>3. CASE m # n
    BY <1>4, <1>5, <2>1, <2>3 DEF Grows
  <2> QED
    BY <2>2, <2>3
<1>9. Steady(w, b)
  BY <1>4 DEF Grows
<1>10. VoiceInv(w, j)'
  BY <1>1, <1>4, <1>6, <1>7, <1>8, <1>9 DEF VoiceInv
<1> QED
  BY <1>10 DEF Voiced

\* The common case of VoiceStep: no life starts or ends, and n adds to its voice at
\* most the claim its own row already carries.
LEMMA QuietVoice ==
  ASSUME IInv, IInv', NEW v \in [Subject -> Voice], NEW k \in [Subject -> Nat],
         VoiceInv(v, k), NEW w \in [Subject -> Voice], NEW j \in [Subject -> Nat],
         NEW n \in up, NEW row \in View, NEW changed, NEW handled, NEW sends,
         Grows(v, k, w, j, boot, n),
         UNCHANGED <<up, inc, boot, top>>,
         ToldRow(row, w, boot, j), n \in Subject => Own(row[n], boot[n], j[n]),
         \A f \in sends : f \in Frame /\ ToldFrame(f, w, boot, j),
         \A m \in Subject :
           /\ DoubtTold(doubt'[n][m], row[m], v[m], boot[m])
           /\ \A q \in Node \ {n} : doubt'[q][m] = doubt[q][m],
         Finish(n, row, changed, handled, sends)
  PROVE  Voiced'
<1>1. /\ n \in Node /\ boot' = boot
      /\ table \in [Node -> View] /\ net \subseteq Frame
      /\ doubt \in [Node -> [Subject -> 0..MaxInc]]
      /\ doubt' \in [Node -> [Subject -> 0..MaxInc]]
  BY DEF IInv, TypeOK
<1>2. ASSUME NEW d \in 0..MaxInc, NEW r, NEW m \in Subject,
             DoubtTold(d, r, v[m], boot[m])
      PROVE  DoubtTold(d, r, w[m], boot'[m])
  BY <1>1, <1>2, MaxIncAssumption DEF DoubtTold, Grows, Incarnation
<1>3. ASSUME NEW m \in Subject
      PROVE  /\ DoubtTold(doubt'[n][m], row[m], w[m], boot'[m])
             /\ \A q \in Node \ {n} : DoubtTold(doubt'[q][m], table[q][m], w[m], boot'[m])
  <2>1. DoubtTold(doubt'[n][m], row[m], w[m], boot'[m])
    BY <1>1, <1>2
  <2>2. ASSUME NEW q \in Node \ {n}
        PROVE  DoubtTold(doubt'[q][m], table[q][m], w[m], boot'[m])
    <3>1. /\ doubt'[q][m] = doubt[q][m] /\ doubt[q][m] \in 0..MaxInc
          /\ DoubtTold(doubt[q][m], table[q][m], v[m], boot[m])
      BY <1>1 DEF VoiceInv
    <3> QED
      BY <1>2, <3>1
  <2> QED
    BY <2>1, <2>2
<1>4. Steady(w, boot')
  BY <1>1 DEF Grows
<1>5. \A q \in Node \ {n} : ToldRow(table[q], w, boot', j)
  BY <1>1 DEF Grows, VoiceInv
<1>6. \A f \in net \cup sends : f \in Frame /\ ToldFrame(f, w, boot', j)
  BY <1>1 DEF Grows, VoiceInv
<1>7. ToldRow(row, w, boot', j)
  BY <1>1
<1>8. n \in Subject => Own(row[n], boot'[n], j[n]) /\ inc'[n] = top'[n]
  BY <1>1 DEF VoiceInv
<1>9. \A m \in (up' \cap Subject) \ {n} : j[m] = table[m][m].claim.seq /\ inc'[m] = top'[m]
  BY DEF VoiceInv, Grows
<1>10. \A q \in Node \ up', m \in Subject : doubt'[q][m] = 0
  BY DEF VoiceInv
<1> QED
  BY <1>1, <1>3, <1>4, <1>5, <1>6, <1>7, <1>8, <1>9, <1>10, VoiceStep

\* What the invariants say of one node's row and doubts.
LEMMA VoiceFacts ==
  ASSUME IInv, NEW v, NEW k, VoiceInv(v, k), NEW n \in Node
  PROVE  /\ table[n] \in View /\ ToldRow(table[n], v, boot, k)
         /\ up \subseteq Node /\ Steady(v, boot)
         /\ \A m \in Subject :
              /\ table[n][m] \in Record \cup {NoRecord}
              /\ boot[m] \in 0..MaxInc /\ top[m] \in 0..MaxInc
              /\ doubt[n][m] \in 0..MaxInc
              /\ DoubtTold(doubt[n][m], table[n][m], v[m], boot[m])
              /\ table[n][m] # NoRecord => Told(table[n][m], v[m], boot[m], k[m])
         /\ n \in up \cap Subject => Own(table[n][n], boot[n], k[n])
<1>1. Subject \subseteq Node
  BY GossipAssumption
<1>2. n \in up \cap Subject => Own(table[n][n], boot[n], k[n])
  BY <1>1 DEF IInv, TypeOK, OwnRecord, Announced, VoiceInv, Own
<1> QED
  BY <1>1, <1>2 DEF IInv, TypeOK, View, VoiceInv, ToldRow

\* A row whose record of m became another told one.
LEMMA OneTold ==
  ASSUME NEW row \in View, NEW m \in Subject, NEW r \in Record,
         NEW v, NEW b, NEW k, ToldRow(row, v, b, k), Told(r, v[m], b[m], k[m])
  PROVE  [row EXCEPT ![m] = r] \in View /\ ToldRow([row EXCEPT ![m] = r], v, b, k)
BY DEF View, ToldRow

\* A doubt holds of a later record that is still held.
LEMMA DoubtMonotone ==
  ASSUME NEW d \in 0..MaxInc, NEW r \in Record \cup {NoRecord},
         NEW s \in Record \cup {NoRecord}, NEW v, NEW b, DoubtTold(d, r, v, b),
         r # NoRecord => s # NoRecord /\ s.inc >= r.inc
  PROVE  DoubtTold(d, s, v, b)
<1>1. r # NoRecord => r.inc \in Int /\ s.inc \in Int
  BY RecordParts
<1> QED
  BY <1>1 DEF DoubtTold

-----------------------------------------------------------------------------
\* The handlers.

LEMMA BuryVoice ==
  ASSUME IInv, IInv', Voiced, NEW n \in Node, NEW m \in Node, NEW handled,
         Bury(n, m, handled)
  PROVE  Voiced'
<1>0. PICK v \in [Subject -> Voice], k \in [Subject -> Nat] : VoiceInv(v, k)
  BY DEF Voiced
<1> DEFINE row == Buried(table[n], m)
           changed == row # table[n]
           sends == IF changed THEN Push(n, row, m) ELSE {}
<1>1. /\ n \in up /\ m \in Subject /\ m # n
      /\ UNCHANGED <<up, inc, boot, top>>
      /\ doubt' = [doubt EXCEPT ![n][m] = 0]
      /\ Finish(n, row, changed, handled, sends)
  BY DEF Bury, NoDoubt
<1>2. /\ row \in View /\ ToldRow(row, v, boot, k)
      /\ \A x \in Subject \ {m} : row[x] = table[n][x]
  <2>1. CASE Known(table[n], m)
    <3>1. /\ table[n][m] \in Record /\ Told(table[n][m], v[m], boot[m], k[m])
          /\ v[m] \in Voice /\ boot[m] \in 0..MaxInc /\ k[m] \in Nat
      BY <1>0, <1>1, <2>1, VoiceFacts DEF Known
    <3>2. PICK vm, bm, km : vm = v[m] /\ bm = boot[m] /\ km = k[m]
      OBVIOUS
    <3>3. Dead \in State /\ Dead \in {Suspect, Dead} /\ Dead # Suspect
      BY DEF State, Dead, Suspect
    <3>4. SetState(table[n][m], Dead) \in Record
      BY <3>1, <3>3, SetStateType
    <3>5. Told(SetState(table[n][m], Dead), vm, bm, km)
      BY <3>1, <3>2, <3>3, ToldSetState
    <3> QED
      BY <1>0, <1>1, <2>1, <3>2, <3>4, <3>5, VoiceFacts, OneTold DEF Buried, View
  <2>2. CASE ~Known(table[n], m)
    BY <1>0, <2>2, VoiceFacts DEF Buried
  <2> QED
    BY <2>1, <2>2
<1>3. n \in Subject => Own(row[n], boot[n], k[n])
  BY <1>0, <1>1, <1>2, VoiceFacts
<1>4. \A f \in sends : f \in Frame /\ ToldFrame(f, v, boot, k)
  BY <1>0, <1>1, <1>2, PushTold, VoiceFacts
<1>5. \A x \in Subject : /\ DoubtTold(doubt'[n][x], row[x], v[x], boot[x])
                         /\ \A q \in Node \ {n} : doubt'[q][x] = doubt[q][x]
  <2>1. doubt \in [Node -> [Subject -> 0..MaxInc]]
    BY DEF IInv, TypeOK
  <2>2. \A x \in Subject \ {m} : DoubtTold(doubt[n][x], table[n][x], v[x], boot[x])
    BY <1>0, VoiceFacts
  <2>3. doubt'[n][m] = 0
    BY <1>1, <2>1
  <2> QED
    BY <1>1, <1>2, <2>1, <2>2, <2>3 DEF DoubtTold
<1>6. Grows(v, k, v, k, boot, n)
  BY <1>0, GrowsNot DEF VoiceInv
<1> HIDE DEF row, changed, sends
<1> QED
  BY <1>0, <1>1, <1>2, <1>3, <1>4, <1>5, <1>6, QuietVoice

\* A doubt is timed at the incarnation of a record that is held and not dead.
LEMMA TimedTold ==
  ASSUME IInv, NEW v, NEW k, VoiceInv(v, k), NEW n \in Node, NEW m \in Subject
  PROVE  DoubtTold(Timed(n, m), table[n][m], v[m], boot[m])
<1>1. /\ table[n][m] \in Record \cup {NoRecord}
      /\ DoubtTold(doubt[n][m], table[n][m], v[m], boot[m])
      /\ table[n][m] # NoRecord => Told(table[n][m], v[m], boot[m], k[m])
  BY VoiceFacts
<1>2. CASE Doubtable(table[n], m) /\ doubt[n][m] = 0
  <2>1. /\ table[n][m] # NoRecord /\ table[n][m].inc \in Int
        /\ Whole(v[m], boot[m], table[n][m].inc)
    BY <1>1, <1>2, RecordParts DEF Doubtable, Known, Told
  <2> QED
    BY <1>2, <2>1 DEF Timed, DoubtTold
<1>3. CASE ~(Doubtable(table[n], m) /\ doubt[n][m] = 0)
  BY <1>1, <1>3 DEF Timed
<1> QED
  BY <1>2, <1>3

LEMMA SuspectsVoice ==
  ASSUME IInv, IInv', Voiced, NEW n \in Node, NEW m \in Node,
         NEW beats, NEW evaluates, Suspects(n, m, beats, evaluates)
  PROVE  Voiced'
<1>0. PICK v \in [Subject -> Voice], k \in [Subject -> Nat] : VoiceInv(v, k)
  BY DEF Voiced
<1> DEFINE row == Suspected(table[n], m)
           changed == row # table[n]
           sends == IF changed THEN Push(n, row, m) ELSE {}
<1>1. /\ n \in up /\ m \in Subject /\ m # n
      /\ UNCHANGED <<up, inc, boot, top>>
      /\ doubt' = [doubt EXCEPT ![n][m] = Timed(n, m)]
      /\ Finish(n, row, changed \/ evaluates, {}, sends)
  BY DEF Suspects
<1>2. /\ row \in View /\ ToldRow(row, v, boot, k)
      /\ \A x \in Subject \ {m} : row[x] = table[n][x]
      /\ row[m] \in Record \cup {NoRecord}
      /\ table[n][m] # NoRecord => row[m] # NoRecord /\ row[m].inc >= table[n][m].inc
  <2>1. CASE Doubtable(table[n], m)
    <3>1. /\ table[n][m] \in Record /\ Told(table[n][m], v[m], boot[m], k[m])
          /\ v[m] \in Voice /\ boot[m] \in 0..MaxInc /\ k[m] \in Nat
          /\ table[n][m].st # Dead
      BY <1>0, <1>1, <2>1, VoiceFacts DEF Doubtable, Known
    <3>2. PICK vm, bm, km : vm = v[m] /\ bm = boot[m] /\ km = k[m]
      OBVIOUS
    <3>3. Suspect \in State /\ Suspect \in {Suspect, Dead}
      BY DEF State, Suspect
    <3>4. SetState(table[n][m], Suspect) \in Record
      BY <3>1, <3>3, SetStateType
    <3>5. /\ Told(SetState(table[n][m], Suspect), vm, bm, km)
          /\ SetState(table[n][m], Suspect).inc >= table[n][m].inc
      BY <3>1, <3>2, <3>3, ToldSetState
    <3>6. row = [table[n] EXCEPT ![m] = SetState(table[n][m], Suspect)]
      BY <2>1 DEF Suspected
    <3>7. Told(SetState(table[n][m], Suspect), v[m], boot[m], k[m])
      BY <3>2, <3>5
    <3>8. table[n] \in View /\ ToldRow(table[n], v, boot, k)
      BY <1>0, VoiceFacts
    <3>9. row \in View /\ ToldRow(row, v, boot, k)
      BY <1>1, <3>4, <3>6, <3>7, <3>8, OneTold
    <3> QED
      BY <1>1, <3>4, <3>5, <3>6, <3>8, <3>9, NoRecordAssumption DEF View
  <2>2. CASE ~Doubtable(table[n], m)
    <3>1. row = table[n]
      BY <2>2 DEF Suspected
    <3> QED
      BY <1>0, <1>1, <3>1, VoiceFacts, RecordParts
  <2> QED
    BY <2>1, <2>2
<1>3. n \in Subject => Own(row[n], boot[n], k[n])
  BY <1>0, <1>1, <1>2, VoiceFacts
<1>4. \A f \in sends : f \in Frame /\ ToldFrame(f, v, boot, k)
  BY <1>0, <1>1, <1>2, PushTold, VoiceFacts
<1>5. \A x \in Subject : /\ DoubtTold(doubt'[n][x], row[x], v[x], boot[x])
                         /\ \A q \in Node \ {n} : doubt'[q][x] = doubt[q][x]
  <2>1. /\ doubt \in [Node -> [Subject -> 0..MaxInc]]
        /\ doubt' \in [Node -> [Subject -> 0..MaxInc]]
    BY DEF IInv, TypeOK
  <2>2. \A x \in Subject \ {m} : DoubtTold(doubt[n][x], table[n][x], v[x], boot[x])
    BY <1>0, VoiceFacts
  <2>3. doubt'[n][m] = Timed(n, m) /\ Timed(n, m) \in 0..MaxInc
    BY <1>1, <2>1
  <2>4. DoubtTold(Timed(n, m), table[n][m], v[m], boot[m])
    BY <1>0, <1>1, TimedTold
  <2>5. table[n][m] \in Record \cup {NoRecord}
    BY <1>0, <1>1, VoiceFacts
  <2>6. DoubtTold(Timed(n, m), row[m], v[m], boot[m])
    BY <1>2, <2>3, <2>4, <2>5, DoubtMonotone
  <2> QED
    BY <1>1, <1>2, <2>1, <2>2, <2>3, <2>6
<1>6. Grows(v, k, v, k, boot, n)
  BY <1>0, GrowsNot DEF VoiceInv
<1> HIDE DEF row, changed, sends
<1>7. PICK evaluated, none : evaluated = (changed \/ evaluates) /\ none = {}
  OBVIOUS
<1>8. Finish(n, row, evaluated, none, sends)
  BY <1>1, <1>7
<1> QED
  BY <1>0, <1>1, <1>2, <1>3, <1>4, <1>5, <1>6, <1>8, QuietVoice

LEMMA ReevaluateVoice ==
  ASSUME IInv, IInv', Voiced, NEW n \in Node, Reevaluate(n)
  PROVE  Voiced'
<1>0. PICK v \in [Subject -> Voice], k \in [Subject -> Nat] : VoiceInv(v, k)
  BY DEF Voiced
<1>1. /\ n \in up /\ Finish(n, table[n], TRUE, {}, {})
      /\ UNCHANGED <<up, inc, boot, top, doubt>>
  BY DEF Reevaluate
<1>2. /\ table[n] \in View /\ ToldRow(table[n], v, boot, k)
      /\ n \in Subject => Own(table[n][n], boot[n], k[n])
      /\ \A x \in Subject : DoubtTold(doubt[n][x], table[n][x], v[x], boot[x])
  BY <1>0, <1>1, VoiceFacts
<1>3. Grows(v, k, v, k, boot, n)
  BY <1>0, GrowsNot DEF VoiceInv
<1>4. PICK yes, none : yes = TRUE /\ none = {}
  OBVIOUS
<1>5. /\ Finish(n, table[n], yes, none, none)
      /\ \A f \in none : f \in Frame /\ ToldFrame(f, v, boot, k)
      /\ \A x \in Subject : /\ DoubtTold(doubt'[n][x], table[n][x], v[x], boot[x])
                            /\ \A q \in Node \ {n} : doubt'[q][x] = doubt[q][x]
  BY <1>1, <1>2, <1>4
<1> QED
  BY <1>0, <1>1, <1>2, <1>3, <1>5, QuietVoice

\* Handshakes and gossip rounds only send: what a table holds, or the incarnation a
\* running process began with.
LEMMA SendVoice ==
  ASSUME Voiced, NEW sends, Post({}, sends),
         \A v \in [Subject -> Voice], k \in [Subject -> Nat] :
           VoiceInv(v, k) => \A f \in sends : ToldFrame(f, v, boot, k),
         UNCHANGED <<up, inc, boot, top, table, doubt>>
  PROVE  Voiced'
<1>0. PICK v \in [Subject -> Voice], k \in [Subject -> Nat] : VoiceInv(v, k)
  BY DEF Voiced
<1>1. \A f \in net' : ToldFrame(f, v, boot, k)
  BY <1>0 DEF Post, VoiceInv
<1>2. VoiceInv(v, k)'
  BY <1>0, <1>1 DEF VoiceInv
<1> QED
  BY <1>2 DEF Voiced

LEMMA HandshakeVoice ==
  ASSUME IInv, Voiced, NEW n \in Node, NEW m \in Node, Handshake(n, m)
  PROVE  Voiced'
<1> DEFINE f == [type |-> "up", from |-> m, to |-> n, inc |-> boot[m]]
<1>1. /\ m \in up /\ m \in Subject /\ Post({}, {f})
      /\ UNCHANGED <<up, inc, boot, top, table, doubt>>
  BY DEF Handshake
<1>2. boot[m] \in Incarnation /\ boot[m] >= 1
  BY <1>1 DEF IInv, TypeOK, Announced, Incarnation
<1>3. ASSUME NEW v \in [Subject -> Voice], NEW k \in [Subject -> Nat], VoiceInv(v, k)
      PROVE  ToldFrame(f, v, boot, k)
  <2>1. /\ NextIncarnation(boot[m]) \in Incarnation /\ NextIncarnation(boot[m]) >= boot[m]
    BY <1>2, NextIn
  <2>2. v[m][NextIncarnation(boot[m])] = v[m][boot[m]]
    BY <1>1, <1>2, <1>3, <2>1 DEF VoiceInv, Steady
  <2>3. Whole(v[m], boot[m], boot[m])
    BY <1>2, <2>1, <2>2 DEF Whole, Incarnation
  <2> QED
    BY <1>2, <2>3 DEF ToldFrame
<1> HIDE DEF f
<1> QED
  BY <1>1, <1>3, SendVoice

LEMMA GossipVoice ==
  ASSUME IInv, Voiced, NEW n \in Node, NEW q \in Node, GossipRound(n, q)
  PROVE  Voiced'
<1>1. /\ Post({}, {Delta(n, q, table[n])})
      /\ UNCHANGED <<up, inc, boot, top, table, doubt>>
  BY DEF GossipRound
<1>2. \A v, k : VoiceInv(v, k) => ToldFrame(Delta(n, q, table[n]), v, boot, k)
  BY DEF VoiceInv, ToldFrame, Delta
<1> QED
  BY <1>1, <1>2, SendVoice

\* A process that stops takes its table and its doubts with it.
LEMMA GoneVoice ==
  ASSUME IInv, IInv', Voiced, NEW n \in Node, Gone(n), NEW handled, NEW sends,
         Post(handled, sends), \A f \in sends : f.type = "leave"
  PROVE  Voiced'
<1>0. PICK v \in [Subject -> Voice], k \in [Subject -> Nat] : VoiceInv(v, k)
  BY DEF Voiced
<1>1. /\ up' = up \ {n}
      /\ table' = [table EXCEPT ![n] = NoView]
      /\ doubt' = [doubt EXCEPT ![n] = NoDoubts]
      /\ UNCHANGED <<inc, boot, top>>
      /\ table \in [Node -> View] /\ doubt \in [Node -> [Subject -> 0..MaxInc]]
  BY DEF Gone, IInv, TypeOK
<1>2. \A f \in net' : ToldFrame(f, v, boot, k)
  <2>1. \A f \in sends : ToldFrame(f, v, boot, k)
    BY DEF ToldFrame
  <2> QED
    BY <1>0, <2>1 DEF Post, VoiceInv
<1>3. \A q \in Node : ToldRow(table'[q], v, boot, k)
  BY <1>0, <1>1 DEF VoiceInv, ToldRow, NoView
<1>4. \A q \in Node, m \in Subject : DoubtTold(doubt'[q][m], table'[q][m], v[m], boot[m])
  BY <1>0, <1>1 DEF VoiceInv, DoubtTold, NoDoubts
<1>5. \A m \in up' \cap Subject : k[m] = table'[m][m].claim.seq /\ inc'[m] = top'[m]
  BY <1>0, <1>1, GossipAssumption DEF VoiceInv
<1>6. \A q \in Node \ up', m \in Subject : doubt'[q][m] = 0
  BY <1>0, <1>1 DEF VoiceInv, NoDoubts
<1>7. VoiceInv(v, k)'
  BY <1>0, <1>1, <1>2, <1>3, <1>4, <1>5, <1>6 DEF VoiceInv
<1> QED
  BY <1>7 DEF Voiced

LEMMA LivesVoice ==
  ASSUME IInv, IInv', Voiced, NEW n \in Node, Crash(n) \/ Leave(n)
  PROVE  Voiced'
<1>1. CASE Crash(n)
  <2>1. PICK sends : sends = {}
    OBVIOUS
  <2>2. Gone(n) /\ Post({f \in net : f.to = n}, sends)
    BY <1>1, <2>1 DEF Crash
  <2>3. \A f \in sends : f.type = "leave"
    BY <2>1
  <2> QED
    BY <2>2, <2>3, GoneVoice
<1>2. CASE Leave(n)
  <2> DEFINE sends == {[type |-> "leave", from |-> n, to |-> q] : q \in up \ {n}}
  <2>1. \A f \in sends : f.type = "leave"
    OBVIOUS
  <2>2. Gone(n) /\ Post({f \in net : f.to = n}, sends)
    BY <1>2 DEF Leave
  <2> HIDE DEF sends
  <2> QED
    BY <2>1, <2>2, GoneVoice
<1> QED
  BY <1>1, <1>2

\* A handshake brings a record back at the incarnation the peer's process began
\* with: without a claim, or with the claim it has at that incarnation.
LEMMA PeerUpVoice ==
  ASSUME IInv, IInv', Voiced, NEW n \in Node, NEW f \in net, PeerUp(n, f)
  PROVE  Voiced'
<1>0. PICK v \in [Subject -> Voice], k \in [Subject -> Nat] : VoiceInv(v, k)
  BY DEF Voiced
<1> DEFINE m == f.from
           old == table[n][m]
           met == [st |-> Alive, inc |-> f.inc,
                   claim |-> [role |-> IF old = NoRecord THEN "worker" ELSE old.claim.role,
                              score |-> IF old = NoRecord THEN NoScore ELSE old.claim.score,
                              seq |-> 0]]
           base == IF old = NoRecord THEN met ELSE Merge(old, met)
           new == Revive(base, f.inc)
           row == [table[n] EXCEPT ![m] = new]
           sends == {Delta(n, m, row)}
<1>1. /\ f.type = "up" /\ n \in up /\ m # n
      /\ doubt' = [doubt EXCEPT ![n][m] = 0]
      /\ UNCHANGED <<up, inc, boot, top>>
      /\ Finish(n, row, row # table[n], {f}, sends)
  BY DEF PeerUp, NoDoubt
<1>2. /\ m \in Subject /\ m \in Node /\ f.inc \in Incarnation /\ f.inc \in Int
      /\ f.inc \in 0..MaxInc
      /\ boot[m] >= 1 /\ Whole(v[m], boot[m], f.inc)
  <2>1. f \in Frame /\ ToldFrame(f, v, boot, k)
    BY <1>0 DEF IInv, TypeOK, VoiceInv
  <2> QED
    BY <1>1, <2>1, GossipAssumption, MaxIncAssumption DEF Frame, Incarnation, ToldFrame
<1>3. /\ old \in Record \cup {NoRecord}
      /\ old # NoRecord => Told(old, v[m], boot[m], k[m])
      /\ v[m] \in Voice /\ boot[m] \in 0..MaxInc /\ k[m] \in Nat
      /\ table[n] \in View /\ ToldRow(table[n], v, boot, k)
  BY <1>0, <1>2, VoiceFacts
<1>4. met \in Record /\ met.st = Alive /\ met.inc = f.inc /\ met.claim.seq = 0
  <2>1. met.claim \in Claim
    BY <1>3, ScoreAssumption DEF Claim, Record, Role
  <2>2. Alive \in State
    BY DEF State
  <2> QED
    BY <1>2, <2>1, <2>2 DEF Record
<1> HIDE DEF met
<1>5. PICK vm, bm, km : vm = v[m] /\ bm = boot[m] /\ km = k[m]
  OBVIOUS
<1>6. Told(met, vm, bm, km)
  BY <1>2, <1>3, <1>4, <1>5 DEF Told
<1>7. /\ base \in Record /\ Told(base, vm, bm, km) /\ base.inc >= f.inc
  <2>1. CASE old = NoRecord
    BY <1>2, <1>4, <1>6, <2>1
  <2>2. CASE old # NoRecord
    <3>1. old \in Record /\ Told(old, vm, bm, km)
      BY <1>3, <1>5, <2>2
    <3>2. Merge(old, met) \in Record /\ Told(Merge(old, met), vm, bm, km)
      BY <1>3, <1>4, <1>5, <1>6, <3>1, MergeType, ToldMerge
    <3>3. Merge(old, met).inc >= f.inc
      BY <1>2, <1>4, <3>1, RecordParts DEF Merge, Record
    <3> QED
      BY <2>2, <3>2, <3>3
  <2> QED
    BY <2>1, <2>2
<1> HIDE DEF base
<1>8. new \in Record /\ Told(new, vm, bm, km)
  <2>1. f.inc <= base.inc /\ Whole(vm, bm, f.inc)
    BY <1>2, <1>5, <1>7, RecordParts
  <2> QED
    BY <1>2, <1>3, <1>5, <1>7, <2>1, ReviveType, ToldRevive
<1> HIDE DEF new
<1>9. row \in View /\ ToldRow(row, v, boot, k)
  <2>1. Told(new, v[m], boot[m], k[m])
    BY <1>5, <1>8
  <2> QED
    BY <1>2, <1>3, <1>8, <2>1, OneTold
<1>10. \A x \in Subject \ {m} : row[x] = table[n][x]
  BY <1>3 DEF View
<1>11. n \in Subject => Own(row[n], boot[n], k[n])
  BY <1>0, <1>1, <1>10, VoiceFacts
<1> HIDE DEF row
<1>12. \A g \in sends : g \in Frame /\ ToldFrame(g, v, boot, k)
  BY <1>2, <1>9 DEF Delta, Frame, ToldFrame
<1>13. \A x \in Subject : /\ DoubtTold(doubt'[n][x], row[x], v[x], boot[x])
                          /\ \A q \in Node \ {n} : doubt'[q][x] = doubt[q][x]
  <2>1. doubt \in [Node -> [Subject -> 0..MaxInc]]
    BY DEF IInv, TypeOK
  <2>2. \A x \in Subject \ {m} : DoubtTold(doubt[n][x], table[n][x], v[x], boot[x])
    BY <1>0, VoiceFacts
  <2> QED
    BY <1>1, <1>2, <1>10, <2>1, <2>2 DEF DoubtTold
<1>14. Grows(v, k, v, k, boot, n)
  BY <1>0, GrowsNot DEF VoiceInv
<1> HIDE DEF sends
<1> QED
  BY <1>0, <1>1, <1>9, <1>11, <1>12, <1>13, <1>14, QuietVoice

\* A resumed beat revives at the doubted incarnation, which the record has not left
\* behind unless it is a later one.
LEMMA BeatResumedVoice ==
  ASSUME IInv, IInv', Voiced, NEW n \in Node, NEW m \in Node, BeatResumed(n, m)
  PROVE  Voiced'
<1>0. PICK v \in [Subject -> Voice], k \in [Subject -> Nat] : VoiceInv(v, k)
  BY DEF Voiced
<1> DEFINE new == Revive(table[n][m], doubt[n][m])
           row == IF Known(table[n], m) THEN [table[n] EXCEPT ![m] = new] ELSE table[n]
<1>1. /\ n \in up /\ m \in Subject /\ m # n /\ m \in silent[n]
      /\ doubt' = [doubt EXCEPT ![n][m] = 0]
      /\ UNCHANGED <<up, inc, boot, top>>
      /\ Finish(n, row, row # table[n], {}, {})
  BY DEF BeatResumed, NoDoubt
<1>2. /\ table[n][m] \in Record \cup {NoRecord}
      /\ table[n][m] # NoRecord => Told(table[n][m], v[m], boot[m], k[m])
      /\ v[m] \in Voice /\ boot[m] \in 0..MaxInc /\ k[m] \in Nat
      /\ table[n] \in View /\ ToldRow(table[n], v, boot, k)
      /\ doubt[n][m] \in 0..MaxInc
      /\ DoubtTold(doubt[n][m], table[n][m], v[m], boot[m])
  BY <1>0, <1>1, VoiceFacts
<1>3. Known(table[n], m) => new \in Record /\ Told(new, v[m], boot[m], k[m])
  <2> SUFFICES ASSUME Known(table[n], m)
               PROVE  new \in Record /\ Told(new, v[m], boot[m], k[m])
    OBVIOUS
  <2>1. PICK vm, bm, km : vm = v[m] /\ bm = boot[m] /\ km = k[m]
    OBVIOUS
  <2>2. table[n][m] \in Record /\ Told(table[n][m], vm, bm, km)
    BY <1>2, <2>1 DEF Known
  <2>3. CASE doubt[n][m] # 0
    <3>1. doubt[n][m] <= table[n][m].inc /\ Whole(vm, bm, doubt[n][m])
          /\ doubt[n][m] \in Int
      BY <1>2, <2>1, <2>3 DEF DoubtTold
    <3> QED
      BY <1>2, <2>1, <2>2, <3>1, ReviveType, ToldRevive
  <2>4. CASE doubt[n][m] = 0
    <3>1. doubt[n][m] < table[n][m].inc
      BY <2>2, <2>4 DEF Record, Incarnation
    <3> QED
      BY <2>1, <2>2, <3>1 DEF Revive
  <2> QED
    BY <2>3, <2>4
<1> HIDE DEF new
<1>4. row \in View /\ ToldRow(row, v, boot, k)
  BY <1>1, <1>2, <1>3, OneTold
<1>5. \A x \in Subject \ {m} : row[x] = table[n][x]
  BY <1>2 DEF View
<1>6. n \in Subject => Own(row[n], boot[n], k[n])
  BY <1>0, <1>1, <1>5, VoiceFacts
<1> HIDE DEF row
<1>7. \A x \in Subject : /\ DoubtTold(doubt'[n][x], row[x], v[x], boot[x])
                         /\ \A q \in Node \ {n} : doubt'[q][x] = doubt[q][x]
  <2>1. doubt \in [Node -> [Subject -> 0..MaxInc]]
    BY DEF IInv, TypeOK
  <2>2. \A x \in Subject \ {m} : DoubtTold(doubt[n][x], table[n][x], v[x], boot[x])
    BY <1>0, VoiceFacts
  <2> QED
    BY <1>1, <1>5, <2>1, <2>2 DEF DoubtTold
<1>8. Grows(v, k, v, k, boot, n)
  BY <1>0, GrowsNot DEF VoiceInv
<1>9. PICK none : none = {}
  OBVIOUS
<1>10. /\ Finish(n, row, row # table[n], none, none)
       /\ \A g \in none : g \in Frame /\ ToldFrame(g, v, boot, k)
  BY <1>1, <1>9
<1> QED
  BY <1>0, <1>1, <1>4, <1>6, <1>7, <1>8, <1>10, QuietVoice

\* A tick buries late doubts and collects tombstones, of which no doubt is left.
LEMMA ControlTickVoice ==
  ASSUME IInv, IInv', Voiced, NEW n \in Node, NEW late \in SUBSET Subject,
         NEW old \in SUBSET Subject, ControlTick(n, late, old)
  PROVE  Voiced'
<1>0. PICK v \in [Subject -> Voice], k \in [Subject -> Nat] : VoiceInv(v, k)
  BY DEF Voiced
<1> DEFINE confirmed == [m \in Subject |->
                           IF m \in late THEN SetState(table[n][m], Dead) ELSE table[n][m]]
           pushed == UNION {Push(n, confirmed, m) : m \in late}
           row == Collected(confirmed, old)
<1>1. /\ n \in up
      /\ late \subseteq {m \in Subject : doubt[n][m] # 0 /\ Matches(n, m)}
      /\ old \subseteq {m \in Subject \ {n} : Known(table[n], m) /\ table[n][m].st = Dead}
      /\ doubt' = [doubt EXCEPT ![n] = [m \in Subject |->
                     IF Matches(n, m) /\ m \notin late THEN doubt[n][m] ELSE 0]]
      /\ UNCHANGED <<up, inc, boot, top>>
      /\ Finish(n, row, late # {}, {}, pushed)
  BY DEF ControlTick
<1>2. confirmed \in View /\ ToldRow(confirmed, v, boot, k)
  <2>1. ASSUME NEW m \in Subject
        PROVE  /\ confirmed[m] \in Record \cup {NoRecord}
               /\ confirmed[m] # NoRecord => Told(confirmed[m], v[m], boot[m], k[m])
    <3>1. /\ table[n][m] \in Record \cup {NoRecord}
          /\ table[n][m] # NoRecord => Told(table[n][m], v[m], boot[m], k[m])
          /\ v[m] \in Voice /\ boot[m] \in 0..MaxInc /\ k[m] \in Nat
      BY <1>0, VoiceFacts
    <3>2. CASE m \in late
      <4>1. table[n][m] \in Record /\ Told(table[n][m], v[m], boot[m], k[m])
        BY <1>1, <3>1, <3>2 DEF Matches, Known
      <4>2. Dead \in State /\ Dead \in {Suspect, Dead} /\ Dead # Suspect
        BY DEF State, Dead, Suspect
      <4>3. PICK vm, bm, km : vm = v[m] /\ bm = boot[m] /\ km = k[m]
        OBVIOUS
      <4>4. SetState(table[n][m], Dead) \in Record
        BY <4>1, <4>2, SetStateType
      <4>5. Told(SetState(table[n][m], Dead), vm, bm, km)
        BY <3>1, <4>1, <4>2, <4>3, ToldSetState
      <4> QED
        BY <3>2, <4>3, <4>4, <4>5
    <3>3. CASE m \notin late
      BY <3>1, <3>3
    <3> QED
      BY <3>2, <3>3
  <2> QED
    BY <2>1 DEF View, ToldRow
<1>3. row \in View /\ ToldRow(row, v, boot, k)
  BY <1>2 DEF Collected, View, ToldRow
<1>4. \A m \in Subject : m \notin late /\ m \notin old => row[m] = table[n][m]
  BY DEF Collected
<1>5. n \in Subject => Own(row[n], boot[n], k[n])
  <2> SUFFICES ASSUME n \in Subject
               PROVE  Own(row[n], boot[n], k[n])
    OBVIOUS
  <2>1. Own(table[n][n], boot[n], k[n])
    BY <1>0, <1>1, VoiceFacts
  <2>2. n \notin late /\ n \notin old
    BY <1>1, <2>1 DEF Own, Matches, Alive, Suspect
  <2> QED
    BY <1>4, <2>1, <2>2
<1>6. \A f \in pushed : f \in Frame /\ ToldFrame(f, v, boot, k)
  BY <1>0, <1>2, PushTold, VoiceFacts
<1>7. \A x \in Subject : /\ DoubtTold(doubt'[n][x], row[x], v[x], boot[x])
                         /\ \A q \in Node \ {n} : doubt'[q][x] = doubt[q][x]
  <2>1. doubt \in [Node -> [Subject -> 0..MaxInc]]
    BY DEF IInv, TypeOK
  <2>2. ASSUME NEW x \in Subject
        PROVE  DoubtTold(doubt'[n][x], row[x], v[x], boot[x])
    <3>1. doubt'[n][x] = IF Matches(n, x) /\ x \notin late THEN doubt[n][x] ELSE 0
      BY <1>1, <2>1
    <3>2. CASE Matches(n, x) /\ x \notin late
      <4>1. x \notin old
        BY <1>1, <3>2 DEF Matches, Suspect, Dead
      <4> QED
        BY <1>0, <1>4, <3>1, <3>2, <4>1, VoiceFacts
    <3>3. CASE ~(Matches(n, x) /\ x \notin late)
      BY <3>1, <3>3 DEF DoubtTold
    <3> QED
      BY <3>2, <3>3
  <2> QED
    BY <1>1, <2>1, <2>2
<1>8. Grows(v, k, v, k, boot, n)
  BY <1>0, GrowsNot DEF VoiceInv
<1> HIDE DEF row, pushed
<1>9. PICK some, none : some = (late # {}) /\ none = {}
  OBVIOUS
<1>10. Finish(n, row, some, none, pushed)
  BY <1>1, <1>9
<1> QED
  BY <1>0, <1>1, <1>3, <1>5, <1>6, <1>7, <1>8, <1>10, QuietVoice

\* A probe round doubts, buries or clears what was told, and restates the own score.
LEMMA ProbeRoundVoice ==
  ASSUME IInv, IInv', Voiced, NEW n \in Node, NEW missed \in SUBSET Subject,
         NEW failed \in SUBSET Subject, NEW clear \in SUBSET Subject,
         NEW score \in Score, ProbeRound(n, missed, failed, clear, score)
  PROVE  Voiced'
<1>0. PICK v \in [Subject -> Voice], k \in [Subject -> Nat] : VoiceInv(v, k)
  BY DEF Voiced
<1> DEFINE own == IF table[n][n].claim.seq < MaxSeq
                  THEN SetScore(table[n][n], score) ELSE table[n][n]
           seen(m) == IF m \in missed THEN SetState(table[n][m], Suspect)
                      ELSE IF m \in failed THEN SetState(table[n][m], Dead)
                      ELSE IF m \in clear THEN Revive(table[n][m], table[n][m].inc)
                      ELSE table[n][m]
           rest == [m \in Subject |-> seen(m)]
           row == [m \in Subject |->
                     IF m \in missed THEN SetState(table[n][m], Suspect)
                     ELSE IF m \in failed THEN SetState(table[n][m], Dead)
                     ELSE IF m \in clear THEN Revive(table[n][m], table[n][m].inc)
                     ELSE IF m = n /\ table[n][n].claim.seq < MaxSeq
                          THEN SetScore(table[n][n], score)
                     ELSE table[n][m]]
           sends == UNION {Push(n, row, m) : m \in {x \in Subject \ clear : row[x] # table[n][x]}}
           told == [m \in Subject |-> IF m \in missed THEN Timed(n, m)
                                      ELSE IF m \in failed \cup clear THEN 0 ELSE doubt[n][m]]
<1>1. /\ n \in up
      /\ missed \cup failed \subseteq {m \in Subject \ {n} : Doubtable(table[n], m)}
      /\ clear \subseteq {m \in Subject \ {n} :
                            Known(table[n], m) /\ table[n][m].st = Suspect}
      /\ UNCHANGED <<up, inc, boot, top>>
      /\ doubt' = [doubt EXCEPT ![n] = told]
      /\ Finish(n, row, TRUE, {}, sends)
  BY DEF ProbeRound
<1>2. ASSUME NEW m \in Subject
      PROVE  /\ seen(m) \in Record \cup {NoRecord}
             /\ seen(m) # NoRecord => Told(seen(m), v[m], boot[m], k[m])
             /\ table[n][m] # NoRecord =>
                  seen(m) # NoRecord /\ seen(m).inc >= table[n][m].inc
  <2>1. /\ table[n][m] \in Record \cup {NoRecord}
        /\ table[n][m] # NoRecord => Told(table[n][m], v[m], boot[m], k[m])
        /\ v[m] \in Voice /\ boot[m] \in 0..MaxInc /\ k[m] \in Nat
    BY <1>0, VoiceFacts
  <2>2. CASE m \in missed \/ m \in failed \/ m \in clear
    <3>1. table[n][m] \in Record /\ Told(table[n][m], v[m], boot[m], k[m])
      BY <1>1, <2>1, <2>2 DEF Doubtable, Known
    <3>2. PICK vm, bm, km : vm = v[m] /\ bm = boot[m] /\ km = k[m]
      OBVIOUS
    <3>3. PICK r : r = table[n][m]
      OBVIOUS
    <3>4. r \in Record /\ Told(r, vm, bm, km) /\ r.inc \in Int
          /\ r.inc \in 0..MaxInc
      BY <3>1, <3>2, <3>3, RecordParts DEF Incarnation
    <3>5. Dead \in State /\ Suspect \in State /\ Dead # Suspect
      BY DEF State, Dead, Suspect
    <3>6. CASE m \in missed
      <4>1. r.st # Dead
        BY <1>1, <3>3, <3>6 DEF Doubtable
      <4>2. /\ SetState(r, Suspect) \in Record /\ Told(SetState(r, Suspect), vm, bm, km)
            /\ SetState(r, Suspect).inc >= r.inc
        BY <2>1, <3>2, <3>4, <3>5, <4>1, SetStateType, ToldSetState
      <4> QED
        BY <3>2, <3>3, <3>6, <4>2, NoRecordAssumption
    <3>7. CASE m \notin missed /\ m \in failed
      <4>1. /\ SetState(r, Dead) \in Record /\ Told(SetState(r, Dead), vm, bm, km)
            /\ SetState(r, Dead).inc >= r.inc
        BY <2>1, <3>2, <3>4, <3>5, SetStateType, ToldSetState
      <4> QED
        BY <3>2, <3>3, <3>7, <4>1, NoRecordAssumption
    <3>8. CASE m \notin missed /\ m \notin failed /\ m \in clear
      <4>1. Whole(vm, bm, r.inc)
        BY <1>1, <3>3, <3>4, <3>5, <3>8 DEF Told
      <4>2. /\ Revive(r, r.inc) \in Record /\ Told(Revive(r, r.inc), vm, bm, km)
            /\ Revive(r, r.inc).inc >= r.inc
        BY <2>1, <3>2, <3>4, <4>1, ReviveType, ToldRevive
      <4> QED
        BY <3>2, <3>3, <3>8, <4>2, NoRecordAssumption
    <3> QED
      BY <2>2, <3>6, <3>7, <3>8
  <2>3. CASE m \notin missed /\ m \notin failed /\ m \notin clear
    BY <2>1, <2>3, RecordParts
  <2> QED
    BY <2>2, <2>3
<1>3. \A m \in Subject : m # n => row[m] = seen(m)
  OBVIOUS
<1>4. n \in Subject => row[n] = own /\ seen(n) = table[n][n]
  BY <1>1
<1>5. \A m \in Subject : m \notin missed \cup failed \cup clear => seen(m) = table[n][m]
  OBVIOUS
<1>6. rest \in View /\ ToldRow(rest, v, boot, k) /\ \A m \in Subject : rest[m] = seen(m)
  BY <1>2 DEF View, ToldRow
<1> HIDE DEF rest, seen
<1>7. \E w \in [Subject -> Voice], j \in [Subject -> Nat] :
        /\ Grows(v, k, w, j, boot, n)
        /\ row \in View /\ ToldRow(row, w, boot, j)
        /\ n \in Subject => /\ Own(row[n], boot[n], j[n])
                            /\ row[n] \in Record /\ row[n].inc = table[n][n].inc
  <2>1. CASE n \in Subject
    <3>1. Own(table[n][n], boot[n], k[n]) /\ table[n][n] \in Record
      BY <1>0, <1>1, <2>1, VoiceFacts DEF Own
    <3>2. own = rest[n] \/ \E role \in Role, s \in Score : own = Restated(rest[n], role, s)
      BY <1>4, <1>6, <2>1, <3>1 DEF SetScore, Record, Claim
    <3>3. PICK x : x = own
      OBVIOUS
    <3>4. row = [rest EXCEPT ![n] = x]
      <4>1. rest = [m \in Subject |-> rest[m]] /\ row = [m \in Subject |-> row[m]]
        BY <1>6 DEF View
      <4>2. \A m \in Subject : row[m] = IF m = n THEN x ELSE rest[m]
        BY <1>3, <1>4, <1>6, <2>1, <3>3
      <4> HIDE DEF row
      <4> QED
        BY <4>1, <4>2
    <3>5. Own(rest[n], boot[n], k[n])
      BY <1>4, <1>6, <2>1, <3>1
    <3>6. Steady(v, boot) /\ boot \in [Node -> 0..MaxInc]
      BY <1>0 DEF VoiceInv, IInv, TypeOK
    <3> HIDE DEF own, row
    <3>7. Retold(v, k, boot, n, rest, x)
      <4>1. x = rest[n] \/ \E role \in Role, s \in Score : x = Restated(rest[n], role, s)
        BY <3>2, <3>3
      <4>2. PICK b : b = boot
        OBVIOUS
      <4>3. Retold(v, k, b, n, rest, x)
        BY <1>6, <2>1, <3>5, <3>6, <4>1, <4>2, RestateTold
      <4> QED
        BY <4>2, <4>3
    <3>8. PICK w \in [Subject -> Voice], j \in [Subject -> Nat] :
            /\ Grows(v, k, w, j, boot, n)
            /\ ToldRow([rest EXCEPT ![n] = x], w, boot, j)
            /\ Own(x, boot[n], j[n])
            /\ x \in Record /\ x.inc = rest[n].inc
      BY <3>7 DEF Retold
    <3>9. row \in View /\ row[n] = x
      BY <1>6, <2>1, <3>4, <3>8 DEF View
    <3> QED
      BY <1>4, <1>6, <2>1, <3>4, <3>8, <3>9
  <2>2. CASE n \notin Subject
    <3>1. row = rest
      <4>1. rest = [m \in Subject |-> rest[m]] /\ row = [m \in Subject |-> row[m]]
        BY <1>6 DEF View
      <4>2. \A m \in Subject : row[m] = rest[m]
        BY <1>3, <1>6, <2>2
      <4> HIDE DEF row
      <4> QED
        BY <4>1, <4>2
    <3>2. Grows(v, k, v, k, boot, n)
      BY <1>0, GrowsNot DEF VoiceInv
    <3> QED
      BY <1>6, <2>2, <3>1, <3>2
  <2> QED
    BY <2>1, <2>2
<1>8. PICK w \in [Subject -> Voice], j \in [Subject -> Nat] :
        /\ Grows(v, k, w, j, boot, n)
        /\ row \in View /\ ToldRow(row, w, boot, j)
        /\ n \in Subject => /\ Own(row[n], boot[n], j[n])
                            /\ row[n] \in Record /\ row[n].inc = table[n][n].inc
  BY <1>7
<1> HIDE DEF row, own
<1>9. \A f \in sends : f \in Frame /\ ToldFrame(f, w, boot, j)
  BY <1>0, <1>8, PushTold, VoiceFacts
<1>10. \A x \in Subject : /\ DoubtTold(doubt'[n][x], row[x], v[x], boot[x])
                          /\ \A q \in Node \ {n} : doubt'[q][x] = doubt[q][x]
  <2>1. /\ doubt \in [Node -> [Subject -> 0..MaxInc]]
        /\ doubt' \in [Node -> [Subject -> 0..MaxInc]]
    BY DEF IInv, TypeOK
  <2>2. ASSUME NEW x \in Subject
        PROVE  DoubtTold(doubt'[n][x], row[x], v[x], boot[x])
    <3>1. /\ doubt'[n][x] = IF x \in missed THEN Timed(n, x)
                            ELSE IF x \in failed \cup clear THEN 0 ELSE doubt[n][x]
          /\ doubt'[n][x] \in 0..MaxInc
      BY <1>1, <2>1
    <3>2. /\ table[n][x] \in Record \cup {NoRecord}
          /\ DoubtTold(doubt[n][x], table[n][x], v[x], boot[x])
          /\ DoubtTold(Timed(n, x), table[n][x], v[x], boot[x])
      BY <1>0, VoiceFacts, TimedTold
    <3>3. DoubtTold(doubt'[n][x], table[n][x], v[x], boot[x])
      BY <3>1, <3>2 DEF DoubtTold
    <3>4. /\ row[x] \in Record \cup {NoRecord}
          /\ table[n][x] # NoRecord => row[x] # NoRecord /\ row[x].inc >= table[n][x].inc
      <4>1. CASE x = n
        BY <1>8, <3>2, <4>1, RecordParts, NoRecordAssumption
      <4>2. CASE x # n
        BY <1>2, <1>3, <4>2
      <4> QED
        BY <4>1, <4>2
    <3> QED
      BY <3>1, <3>2, <3>3, <3>4, DoubtMonotone
  <2> QED
    BY <1>1, <2>1, <2>2
<1> HIDE DEF sends, told
<1>11. PICK yes, none : yes = TRUE /\ none = {}
  OBVIOUS
<1>12. Finish(n, row, yes, none, sends)
  BY <1>1, <1>11
<1>13. n \in Subject => Own(row[n], boot[n], j[n])
  BY <1>8
<1> QED
  BY <1>0, <1>1, <1>8, <1>9, <1>10, <1>12, <1>13, QuietVoice

\* A delta: what was told is merged into what was told, and what the receiver says of
\* itself it says again at the incarnation it refutes with.
LEMMA HandleDeltaVoice ==
  ASSUME IInv, IInv', Voiced, NEW n \in Node, NEW f \in net, HandleDelta(n, f)
  PROVE  Voiced'
<1>0. PICK v \in [Subject -> Voice], k \in [Subject -> Nat] : VoiceInv(v, k)
  BY DEF Voiced
<1> DEFINE i == IF Refutes(n, f.view) THEN NextIncarnation(f.view[n].inc) ELSE inc[n]
           spoken == Merge(table[n][n], [table[n][n] EXCEPT !.inc = i])
           refuted == IF n \in Subject THEN [table[n] EXCEPT ![n] = spoken] ELSE table[n]
           row == [m \in Subject |->
                     IF m # n /\ Known(f.view, m)
                     THEN Heard(table[n][m], f.view[m], m = f.from)
                     ELSE refuted[m]]
           sends == IF Refutes(n, f.view) THEN Push(n, refuted, n) ELSE {}
<1>1. /\ n \in up /\ f.type = "delta"
      /\ inc' = [inc EXCEPT ![n] = i]
      /\ top' = [top EXCEPT ![n] = IF @ < i THEN i ELSE @]
      /\ UNCHANGED <<up, boot, doubt>>
      /\ Finish(n, row, row # refuted, {f}, sends)
  BY DEF HandleDelta
<1>2. f.view \in View /\ ToldRow(f.view, v, boot, k)
  BY <1>0, <1>1 DEF VoiceInv, ToldFrame, IInv, GoodFrame, GoodRow
<1>3. /\ table[n] \in View /\ ToldRow(table[n], v, boot, k)
      /\ up \subseteq Node /\ Steady(v, boot)
      /\ n \in Subject => Own(table[n][n], boot[n], k[n])
  BY <1>0, <1>1, VoiceFacts
<1>4. n \in Subject => i \in Incarnation /\ i >= inc[n] /\ inc[n] = top[n]
                       /\ table[n][n].inc = inc[n] /\ inc[n] \in Incarnation
  <2> SUFFICES ASSUME n \in Subject
               PROVE  /\ i \in Incarnation /\ i >= inc[n] /\ inc[n] = top[n]
                      /\ table[n][n].inc = inc[n] /\ inc[n] \in Incarnation
    OBVIOUS
  <2>1. table[n][n].inc = inc[n] /\ inc[n] \in Incarnation /\ inc[n] = top[n]
    BY <1>0, <1>1, <1>3, RowFacts, RecordParts DEF VoiceInv
  <2>2. CASE Refutes(n, f.view)
    <3>1. f.view[n] \in Record /\ f.view[n].inc >= inc[n]
      BY <1>2, <2>2 DEF Refutes, Known, View
    <3>2. f.view[n].inc \in Incarnation
      BY <3>1, RecordParts
    <3>3. i \in Incarnation /\ i >= f.view[n].inc /\ f.view[n].inc \in Int /\ i \in Int
      BY <2>2, <3>2, NextIn
    <3> QED
      BY <2>1, <3>1, <3>3 DEF Incarnation
  <2>3. CASE ~Refutes(n, f.view)
    BY <2>1, <2>3 DEF Incarnation
  <2> QED
    BY <2>1, <2>2, <2>3
<1> HIDE DEF i
<1>5. n \in Subject => /\ spoken \in Record /\ Own(spoken, boot[n], k[n])
                       /\ Told(spoken, v[n], boot[n], k[n])
                       /\ spoken.inc >= table[n][n].inc
  <2> SUFFICES ASSUME n \in Subject
               PROVE  /\ spoken \in Record /\ Own(spoken, boot[n], k[n])
                      /\ Told(spoken, v[n], boot[n], k[n])
                      /\ spoken.inc >= table[n][n].inc
    OBVIOUS
  <2>1. PICK o : o = table[n][n]
    OBVIOUS
  <2>2. PICK b, vn, kn : b = boot[n] /\ vn = v[n] /\ kn = k[n]
    OBVIOUS
  <2>3. /\ o \in Record /\ Own(o, b, kn) /\ Told(o, vn, b, kn)
        /\ b \in 0..MaxInc /\ b >= 1 /\ kn \in Nat
    BY <1>0, <1>3, <2>1, <2>2, VoiceFacts DEF Own, Told
  <2>4. /\ o.inc \in Incarnation /\ o.inc \in Int /\ o.inc >= b
        /\ i \in Incarnation /\ i \in Int /\ i >= o.inc /\ i >= b
    BY <1>4, <2>1, <2>3 DEF Own, Incarnation
  <2> DEFINE s == [o EXCEPT !.inc = i]
  <2>5. s \in Record /\ s.st = o.st /\ s.inc = i /\ s.claim = o.claim
    BY <2>3, <2>4 DEF Record
  <2>6. \A x \in Incarnation : x >= b => vn[x] = vn[b]
    BY <1>3, <2>2, <2>3 DEF Steady
  <2>7. Told(s, vn, b, kn)
    <3>1. vn[i] = vn[o.inc]
      BY <2>4, <2>6
    <3>2. NextIncarnation(i) \in Incarnation /\ NextIncarnation(i) >= i
          /\ NextIncarnation(i) \in Int
      BY <2>4, NextIn
    <3>3. Whole(vn, b, i)
      BY <2>3, <2>4, <2>6, <3>2 DEF Whole
    <3> QED
      BY <2>3, <2>4, <2>5, <3>1, <3>3 DEF Told
  <2>8. Merge(o, s) \in Record /\ Told(Merge(o, s), vn, b, kn) /\ Merge(o, s).inc >= o.inc
    <3>1. vn \in Voice
      BY <2>2
    <3> QED
      BY <2>3, <2>5, <2>7, <3>1, MergeType, ToldMerge
  <2>9. Merge(o, s).st = Alive /\ Merge(o, s).claim.seq = kn
    <3>1. CASE i = o.inc
      <4>1. s = o
        BY <2>3, <2>5, <3>1 DEF Record
      <4>2. MergedClaim(o.claim, o.claim).seq = o.claim.seq
        BY <2>3, RecordParts DEF MergedClaim, Record, Claim
      <4> QED
        BY <2>3, <2>4, <4>1, <4>2 DEF Merge, Own, Worse, Record
    <3>2. CASE i # o.inc
      BY <2>3, <2>4, <2>5, <3>2 DEF Merge, Own
    <3> QED
      BY <3>1, <3>2
  <2>10. Own(Merge(o, s), b, kn)
    BY <2>3, <2>4, <2>8, <2>9, RecordParts, NoRecordAssumption DEF Own
  <2> QED
    BY <2>1, <2>2, <2>8, <2>10
<1> HIDE DEF spoken
<1>6. /\ refuted \in View /\ ToldRow(refuted, v, boot, k)
      /\ \A m \in Subject : m # n => refuted[m] = table[n][m]
      /\ n \in Subject => refuted[n] = spoken
  BY <1>3, <1>5, OneTold DEF View
<1> HIDE DEF refuted
<1>7. ASSUME NEW m \in Subject
      PROVE  /\ row[m] \in Record \cup {NoRecord}
             /\ row[m] # NoRecord => Told(row[m], v[m], boot[m], k[m])
             /\ table[n][m] # NoRecord => row[m] # NoRecord /\ row[m].inc >= table[n][m].inc
  <2>1. CASE m # n /\ Known(f.view, m)
    <3>1. /\ table[n][m] \in Record \cup {NoRecord} /\ f.view[m] \in Record
          /\ table[n][m] # NoRecord => Told(table[n][m], v[m], boot[m], k[m])
          /\ Told(f.view[m], v[m], boot[m], k[m])
          /\ v[m] \in Voice /\ boot[m] \in 0..MaxInc /\ k[m] \in Nat
      BY <1>0, <1>2, <2>1, VoiceFacts DEF ToldRow, View, Known
    <3>2. PICK own, vm, bm, km :
            own = (m = f.from) /\ vm = v[m] /\ bm = boot[m] /\ km = k[m]
      OBVIOUS
    <3>3. row[m] = Heard(table[n][m], f.view[m], own)
      BY <2>1, <3>2
    <3>4. Heard(table[n][m], f.view[m], own) \in Record \cup {NoRecord}
      BY <3>1, HeardType
    <3>5. /\ Heard(table[n][m], f.view[m], own) # NoRecord
               => Told(Heard(table[n][m], f.view[m], own), vm, bm, km)
          /\ table[n][m] # NoRecord =>
               /\ Heard(table[n][m], f.view[m], own) # NoRecord
               /\ Heard(table[n][m], f.view[m], own).inc >= table[n][m].inc
      BY <3>1, <3>2, ToldHeard
    <3> QED
      BY <3>2, <3>3, <3>4, <3>5
  <2>2. CASE ~(m # n /\ Known(f.view, m))
    <3>1. row[m] = refuted[m]
      BY <2>2
    <3> HIDE DEF row
    <3>2. CASE m = n
      <4>1. n \in Subject /\ row[n] = spoken
        BY <1>6, <3>1, <3>2
      <4>2. spoken \in Record /\ Told(spoken, v[n], boot[n], k[n])
            /\ spoken.inc >= table[n][n].inc
        BY <1>5, <4>1
      <4> QED
        BY <3>2, <4>1, <4>2, NoRecordAssumption
    <3>3. CASE m # n
      <4>1. row[m] = table[n][m]
        BY <1>6, <3>1, <3>3
      <4> QED
        BY <1>0, <4>1, VoiceFacts, RecordParts
    <3> QED
      BY <3>2, <3>3
  <2> QED
    BY <2>1, <2>2
<1>8. row \in View /\ ToldRow(row, v, boot, k)
  BY <1>7 DEF View, ToldRow
<1>9. n \in Subject => Own(row[n], boot[n], k[n])
  <2>1. n \in Subject => row[n] = refuted[n]
    OBVIOUS
  <2> HIDE DEF row
  <2> QED
    BY <1>5, <1>6, <2>1
<1>10. \A g \in sends : g \in Frame /\ ToldFrame(g, v, boot, k)
  <2>1. CASE Refutes(n, f.view)
    <3>1. n \in Subject
      BY <2>1 DEF Refutes
    <3> QED
      BY <1>3, <1>6, <2>1, <3>1, PushTold
  <2>2. CASE ~Refutes(n, f.view)
    BY <2>2
  <2> QED
    BY <2>1, <2>2
<1> HIDE DEF row, sends
<1>11. /\ boot' = boot /\ doubt' = doubt /\ up' = up
       /\ inc \in [Node -> 0..MaxInc] /\ top \in [Node -> 0..MaxInc]
       /\ net \subseteq Frame /\ doubt \in [Node -> [Subject -> 0..MaxInc]]
  BY <1>1 DEF IInv, TypeOK
<1>12. n \in Subject => Own(row[n], boot'[n], k[n]) /\ inc'[n] = top'[n]
  <2> SUFFICES ASSUME n \in Subject
               PROVE  Own(row[n], boot'[n], k[n]) /\ inc'[n] = top'[n]
    OBVIOUS
  <2>1. i \in Int /\ top[n] \in Int /\ i >= top[n]
    BY <1>4 DEF Incarnation
  <2>2. inc'[n] = i /\ top'[n] = IF top[n] < i THEN i ELSE top[n]
    BY <1>1, <1>11
  <2>3. inc'[n] = top'[n]
    BY <2>1, <2>2
  <2> QED
    BY <1>9, <1>11, <2>3
<1>13. \A m \in (up' \cap Subject) \ {n} : k[m] = table[m][m].claim.seq /\ inc'[m] = top'[m]
  <2> SUFFICES ASSUME NEW m \in (up' \cap Subject) \ {n}
               PROVE  k[m] = table[m][m].claim.seq /\ inc'[m] = top'[m]
    OBVIOUS
  <2>1. m \in Node /\ k[m] = table[m][m].claim.seq /\ inc[m] = top[m]
    BY <1>0, <1>11, GossipAssumption DEF VoiceInv
  <2> QED
    BY <1>1, <1>11, <2>1
<1>14. \A m \in Subject :
         /\ DoubtTold(doubt'[n][m], row[m], v[m], boot'[m])
         /\ \A q \in Node \ {n} : DoubtTold(doubt'[q][m], table[q][m], v[m], boot'[m])
  <2> SUFFICES ASSUME NEW m \in Subject
               PROVE  /\ DoubtTold(doubt[n][m], row[m], v[m], boot[m])
                      /\ \A q \in Node : DoubtTold(doubt[q][m], table[q][m], v[m], boot[m])
    BY <1>11
  <2>1. \A q \in Node : DoubtTold(doubt[q][m], table[q][m], v[m], boot[m])
    BY <1>0 DEF VoiceInv
  <2>2. table[n][m] \in Record \cup {NoRecord} /\ doubt[n][m] \in 0..MaxInc
    BY <1>3, <1>11 DEF View
  <2>3. DoubtTold(doubt[n][m], row[m], v[m], boot[m])
    BY <1>7, <2>1, <2>2, DoubtMonotone
  <2> QED
    BY <2>1, <2>3
<1>15. \A q \in Node \ up', m \in Subject : doubt'[q][m] = 0
  BY <1>0, <1>11 DEF VoiceInv
<1>16. /\ Steady(v, boot') /\ ToldRow(row, v, boot', k)
       /\ \A q \in Node \ {n} : ToldRow(table[q], v, boot', k)
       /\ \A g \in net \cup sends : g \in Frame /\ ToldFrame(g, v, boot', k)
  BY <1>0, <1>3, <1>8, <1>10, <1>11 DEF VoiceInv
<1>17. PICK moved, handled : moved = (row # refuted) /\ handled = {f}
  OBVIOUS
<1>18. Finish(n, row, moved, handled, sends)
  BY <1>1, <1>17
<1> QED
  BY <1>8, <1>12, <1>13, <1>14, <1>15, <1>16, <1>18, VoiceStep

\* A life that begins past everything its member announced, and past the death
\* recorded one further: what was told of the lives before stays told, whatever is
\* said from i on.
LEMMA ToldBefore ==
  ASSUME NEW v \in Voice, NEW w \in Voice, NEW b \in 0..MaxInc, NEW t \in 0..MaxInc,
         NEW i \in Incarnation, i > t + 1, NEW k \in Nat, NEW j \in Nat,
         \A x \in Incarnation : x < i => w[x] = v[x]
  PROVE  /\ \A x \in Incarnation : x <= t /\ Whole(v, b, x) => Whole(w, i, x)
         /\ \A r \in Record : Fits(r, t) /\ Told(r, v, b, k) => Told(r, w, i, j)
<1>1. ASSUME NEW x \in Incarnation, x <= t, Whole(v, b, x)
      PROVE  Whole(w, i, x)
  <2>1. /\ NextIncarnation(x) \in Incarnation /\ NextIncarnation(x) <= x + 1
        /\ NextIncarnation(x) \in Int /\ x \in Int /\ i \in Int
    BY NextIn DEF NextIncarnation, Incarnation
  <2>2. x < i /\ NextIncarnation(x) < i
    BY <1>1, <2>1
  <2> QED
    BY <1>1, <2>1, <2>2 DEF Whole
<1>2. ASSUME NEW r \in Record, Fits(r, t), Told(r, v, b, k)
      PROVE  Told(r, w, i, j)
  <2>1. r.inc \in Incarnation /\ r.inc \in Int /\ i \in Int /\ i >= 1
    BY RecordParts DEF Incarnation
  <2>2. NextIncarnation(t) <= t + 1 /\ NextIncarnation(t) \in Int
    BY NextIncarnationType DEF NextIncarnation
  <2>3. r.inc < i /\ (r.st # Dead => r.inc <= t)
    BY <1>2, <2>1, <2>2 DEF Fits
  <2> QED
    BY <1>1, <1>2, <2>1, <2>3 DEF Told
<1> QED
  BY <1>1, <1>2

\* A start, by a clock that has outrun the announced incarnations, begins a voice of
\* its own.
LEMMA StartVoice ==
  ASSUME ClockOutruns, IInv, IInv', Voiced, NEW n \in Node, NEW i \in Incarnation,
         Start(n, i)
  PROVE  Voiced'
<1>0. PICK v \in [Subject -> Voice], k \in [Subject -> Nat] : VoiceInv(v, k)
  BY DEF Voiced
<1> DEFINE first == FirstRecord(i)
           said == [x \in Incarnation |-> IF x < i THEN v[n][x] ELSE [q \in Nat |-> first.claim]]
           w == [m \in Subject |-> IF m = n THEN said ELSE v[m]]
           j == [m \in Subject |-> IF m = n THEN 1 ELSE k[m]]
           row == IF n \in Subject THEN [NoView EXCEPT ![n] = first] ELSE NoView
<1>1. /\ n \notin up /\ up' = up \cup {n}
      /\ inc' = [inc EXCEPT ![n] = i]
      /\ boot' = [boot EXCEPT ![n] = i]
      /\ top' = [top EXCEPT ![n] = IF @ < i THEN i ELSE @]
      /\ n \in Subject /\ top[n] > 0 => i > top[n] + 1
      /\ doubt' = doubt
      /\ Finish(n, row, TRUE, {}, {})
  BY DEF Start
<1>2. /\ inc \in [Node -> 0..MaxInc] /\ boot \in [Node -> 0..MaxInc]
      /\ top \in [Node -> 0..MaxInc] /\ table \in [Node -> View]
      /\ doubt \in [Node -> [Subject -> 0..MaxInc]]
      /\ net \subseteq Frame /\ i \in Int /\ i >= 1
      /\ boot' \in [Node -> 0..MaxInc]
  BY DEF IInv, TypeOK, Incarnation
<1>3. /\ first \in Record /\ first.st = Alive /\ first.inc = i /\ first.claim.seq = 1
      /\ first.claim \in Claim
  <2>1. Alive \in State /\ "worker" \in Role /\ NoScore \in Score
    BY ScoreAssumption DEF State, Role
  <2> QED
    BY <2>1 DEF FirstRecord, Record, Claim
<1> HIDE DEF first
<1>4. n \in Subject =>
        /\ said \in Voice
        /\ \A x \in Incarnation : x < i => said[x] = v[n][x]
        /\ \A x \in Incarnation : x >= i => said[x] = [q \in Nat |-> first.claim]
  <2> SUFFICES ASSUME n \in Subject
               PROVE  /\ said \in Voice
                      /\ \A x \in Incarnation : x < i => said[x] = v[n][x]
                      /\ \A x \in Incarnation : x >= i => said[x] = [q \in Nat |-> first.claim]
    OBVIOUS
  <2>1. v[n] \in [Incarnation -> [Nat -> Claim]]
    BY DEF Voice
  <2>2. [q \in Nat |-> first.claim] \in [Nat -> Claim]
    BY <1>3
  <2>3. said \in Voice
    BY <2>1, <2>2 DEF Voice
  <2> QED
    BY <1>2, <2>3 DEF Incarnation
<1> HIDE DEF said
<1>5. /\ w \in [Subject -> Voice] /\ j \in [Subject -> Nat]
      /\ n \in Subject => w[n] = said /\ j[n] = 1
      /\ \A m \in Subject : m # n => w[m] = v[m] /\ j[m] = k[m] /\ boot'[m] = boot[m]
  <2>1. w \in [Subject -> Voice] /\ j \in [Subject -> Nat]
    BY <1>4
  <2>2. \A m \in Subject : m # n => boot'[m] = boot[m]
    BY <1>1, <1>2, GossipAssumption
  <2> QED
    BY <2>1, <2>2
<1> HIDE DEF w, j
<1>6. boot'[n] = i
  BY <1>1, <1>2
\* Of a member that was heard of before, the new life is past it all.
<1>7. ASSUME NEW m \in Subject, boot[m] >= 1
      PROVE  /\ \A x \in Incarnation :
                  x <= top[m] /\ Whole(v[m], boot[m], x) => Whole(w[m], boot'[m], x)
             /\ \A r \in Record :
                  Fits(r, top[m]) /\ Told(r, v[m], boot[m], k[m]) => Told(r, w[m], boot'[m], j[m])
  <2>1. CASE m = n
    <3>1. boot[n] >= 1 /\ boot[n] <= top[n] /\ n \in Subject
      BY <1>7, <2>1 DEF IInv, Announced
    <3>2. i > top[n] + 1
      BY <1>1, <1>2, <3>1
    <3>3. PICK b, t, vn, wn, kn, jn : /\ b = boot[n] /\ t = top[n] /\ vn = v[n]
                                      /\ wn = w[n] /\ kn = k[n] /\ jn = j[n]
      OBVIOUS
    <3>4. /\ b \in 0..MaxInc /\ t \in 0..MaxInc /\ vn \in Voice /\ wn \in Voice
          /\ kn \in Nat /\ jn \in Nat
      BY <1>2, <1>4, <1>5, <3>1, <3>3
    <3>5. i > t + 1 /\ \A x \in Incarnation : x < i => wn[x] = vn[x]
      BY <1>4, <1>5, <3>1, <3>2, <3>3
    <3>6. /\ \A x \in Incarnation : x <= t /\ Whole(vn, b, x) => Whole(wn, i, x)
          /\ \A r \in Record : Fits(r, t) /\ Told(r, vn, b, kn) => Told(r, wn, i, jn)
      BY <3>4, <3>5, ToldBefore
    <3> QED
      BY <1>6, <2>1, <3>3, <3>6
  <2>2. CASE m # n
    BY <1>5, <2>2
  <2> QED
    BY <2>1, <2>2
<1>8. ASSUME NEW old \in View, ToldRow(old, v, boot, k), GoodRow(old, top)
      PROVE  ToldRow(old, w, boot', j)
  <2> SUFFICES ASSUME NEW m \in Subject, old[m] # NoRecord
               PROVE  Told(old[m], w[m], boot'[m], j[m])
    BY DEF ToldRow
  <2>1. /\ old[m] \in Record /\ Fits(old[m], top[m])
        /\ Told(old[m], v[m], boot[m], k[m])
    BY <1>8 DEF ToldRow, GoodRow, View
  <2>2. boot[m] >= 1
    BY <2>1 DEF Told
  <2> QED
    BY <1>7, <2>1, <2>2
<1>9. \A q \in Node \ {n} : ToldRow(table[q], w, boot', j)
  BY <1>0, <1>2, <1>8 DEF VoiceInv, IInv
<1>10. \A f \in net : f \in Frame /\ ToldFrame(f, w, boot', j)
  <2> SUFFICES ASSUME NEW f \in net
               PROVE  ToldFrame(f, w, boot', j)
    BY <1>2
  <2>1. f \in Frame /\ GoodFrame(f, top) /\ ToldFrame(f, v, boot, k)
    BY <1>0, <1>2 DEF VoiceInv, IInv
  <2>2. f.type = "delta" => ToldRow(f.view, w, boot', j)
    BY <1>8, <2>1 DEF GoodFrame, GoodRow, ToldFrame
  <2>3. ASSUME f.type = "up"
        PROVE  boot'[f.from] >= 1 /\ Whole(w[f.from], boot'[f.from], f.inc)
    <3>1. /\ f.from \in Subject /\ f.inc \in Incarnation /\ f.inc <= top[f.from]
          /\ boot[f.from] >= 1 /\ Whole(v[f.from], boot[f.from], f.inc)
      BY <2>1, <2>3 DEF Frame, GoodFrame, ToldFrame
    <3>2. boot'[f.from] >= 1
      BY <1>1, <1>2, <3>1, GossipAssumption
    <3> QED
      BY <1>7, <3>1, <3>2
  <2> QED
    BY <2>2, <2>3 DEF ToldFrame
<1>11. Steady(w, boot')
  <2> SUFFICES ASSUME NEW m \in Subject, NEW x \in Incarnation, boot'[m] >= 1, x >= boot'[m]
               PROVE  w[m][x] = w[m][boot'[m]]
    BY DEF Steady
  <2>1. CASE m = n
    BY <1>2, <1>4, <1>5, <1>6, <2>1
  <2>2. CASE m # n
    BY <1>0, <1>5, <2>2 DEF VoiceInv, Steady
  <2> QED
    BY <2>1, <2>2
<1>12. n \in Subject => Told(first, w[n], boot'[n], j[n]) /\ Own(first, boot'[n], j[n])
  <2> SUFFICES ASSUME n \in Subject
               PROVE  Told(first, w[n], boot'[n], j[n]) /\ Own(first, boot'[n], j[n])
    OBVIOUS
  <2>1. /\ NextIncarnation(i) \in Incarnation /\ NextIncarnation(i) >= i
        /\ NextIncarnation(i) \in Int
    BY NextIn
  <2>2. said[i] = [q \in Nat |-> first.claim] /\ said[NextIncarnation(i)] = said[i]
    BY <1>2, <1>4, <2>1
  <2>3. Told(first, said, i, 1)
    BY <1>2, <1>3, <2>1, <2>2 DEF Told, Whole
  <2>4. Own(first, i, 1)
    BY <1>2, <1>3, NoRecordAssumption DEF Own
  <2> QED
    BY <1>5, <1>6, <2>3, <2>4
<1>13. row \in View /\ ToldRow(row, w, boot', j) /\ (n \in Subject => row[n] = first)
       /\ \A m \in Subject : m # n => row[m] = NoRecord
  <2>1. NoView \in View /\ ToldRow(NoView, w, boot', j)
        /\ \A m \in Subject : NoView[m] = NoRecord
    BY DEF NoView, View, ToldRow
  <2>2. CASE n \in Subject
    <3>1. row = [NoView EXCEPT ![n] = first]
      BY <2>2
    <3> HIDE DEF row
    <3> QED
      BY <1>3, <1>12, <2>1, <2>2, <3>1 DEF View, ToldRow
  <2>3. CASE n \notin Subject
    BY <2>1, <2>3
  <2> QED
    BY <2>2, <2>3
<1>14. n \in Subject => Own(row[n], boot'[n], j[n]) /\ inc'[n] = top'[n]
  <2> SUFFICES ASSUME n \in Subject
               PROVE  Own(row[n], boot'[n], j[n]) /\ inc'[n] = top'[n]
    OBVIOUS
  <2>1. top[n] \in 0..MaxInc /\ (top[n] > 0 => i > top[n] + 1)
    BY <1>1, <1>2
  <2>2. inc'[n] = i /\ top'[n] = IF top[n] < i THEN i ELSE top[n]
    BY <1>1, <1>2
  <2>3. inc'[n] = top'[n]
    BY <1>2, <2>1, <2>2
  <2> QED
    BY <1>12, <1>13, <2>3
<1> HIDE DEF row
<1>15. \A m \in (up' \cap Subject) \ {n} : j[m] = table[m][m].claim.seq /\ inc'[m] = top'[m]
  <2> SUFFICES ASSUME NEW m \in (up' \cap Subject) \ {n}
               PROVE  j[m] = table[m][m].claim.seq /\ inc'[m] = top'[m]
    OBVIOUS
  <2>1. m \in Node /\ k[m] = table[m][m].claim.seq /\ inc[m] = top[m]
    BY <1>0, <1>1, GossipAssumption DEF VoiceInv
  <2> QED
    BY <1>1, <1>2, <1>5, <2>1
<1>16. \A m \in Subject :
         /\ DoubtTold(doubt'[n][m], row[m], w[m], boot'[m])
         /\ \A q \in Node \ {n} : DoubtTold(doubt'[q][m], table[q][m], w[m], boot'[m])
  <2> SUFFICES ASSUME NEW m \in Subject
               PROVE  /\ DoubtTold(doubt[n][m], row[m], w[m], boot'[m])
                      /\ \A q \in Node : DoubtTold(doubt[q][m], table[q][m], w[m], boot'[m])
    BY <1>1
  <2>1. doubt[n][m] = 0
    BY <1>0, <1>1 DEF VoiceInv
  <2>2. ASSUME NEW q \in Node
        PROVE  DoubtTold(doubt[q][m], table[q][m], w[m], boot'[m])
    <3> SUFFICES ASSUME doubt[q][m] # 0
                 PROVE  DoubtTold(doubt[q][m], table[q][m], w[m], boot'[m])
      BY DEF DoubtTold
    <3>1. /\ table[q][m] # NoRecord /\ doubt[q][m] <= table[q][m].inc
          /\ Whole(v[m], boot[m], doubt[q][m])
          /\ Told(table[q][m], v[m], boot[m], k[m])
      BY <1>0 DEF VoiceInv, DoubtTold, ToldRow
    <3>2. doubt[q][m] \in Incarnation /\ doubt[q][m] <= top[m]
      BY <1>2, MaxIncAssumption DEF Incarnation, IInv, Announced
    <3>3. boot[m] >= 1
      BY <3>1 DEF Told
    <3> QED
      BY <1>7, <3>1, <3>2, <3>3 DEF DoubtTold
  <2> QED
    BY <2>1, <2>2 DEF DoubtTold
<1>17. \A q \in Node \ up', m \in Subject : doubt'[q][m] = 0
  BY <1>0, <1>1 DEF VoiceInv
<1>18. PICK yes, none : yes = TRUE /\ none = {}
  OBVIOUS
<1>19. /\ Finish(n, row, yes, none, none)
       /\ \A f \in net \cup none : f \in Frame /\ ToldFrame(f, w, boot', j)
  BY <1>1, <1>10, <1>18
<1> QED
  BY <1>5, <1>9, <1>11, <1>13, <1>14, <1>15, <1>16, <1>17, <1>19, VoiceStep

-----------------------------------------------------------------------------
LEMMA InitVoiced == Init => Voiced
<1> SUFFICES ASSUME Init
             PROVE  Voiced
  OBVIOUS
<1> DEFINE word == [role |-> "worker", score |-> NoScore, seq |-> 0]
           v == [m \in Subject |-> [i \in Incarnation |-> [q \in Nat |-> word]]]
           k == [m \in Subject |-> 0]
<1>1. word \in Claim
  BY ScoreAssumption DEF Claim, Role
<1> HIDE DEF word
<1>2. v \in [Subject -> Voice] /\ k \in [Subject -> Nat]
  BY <1>1 DEF Voice
<1> HIDE DEF v, k
<1>3. \A n \in Node : ToldRow(table[n], v, boot, k)
  BY DEF Init, ToldRow, NoView
<1>4. Steady(v, boot)
  BY GossipAssumption DEF Init, Steady
<1>5. \A n \in Node, m \in Subject : /\ doubt[n][m] = 0
                                     /\ DoubtTold(doubt[n][m], table[n][m], v[m], boot[m])
  BY DEF Init, NoDoubts, DoubtTold
<1>6. VoiceInv(v, k)
  BY <1>3, <1>4, <1>5 DEF Init, VoiceInv
<1> QED
  BY <1>2, <1>6 DEF Voiced

LEMMA NextVoiced == ClockOutruns /\ IInv /\ IInv' /\ Voiced /\ [Next]_vars => Voiced'
<1> SUFFICES ASSUME ClockOutruns, IInv, IInv', Voiced, [Next]_vars
             PROVE  Voiced'
  OBVIOUS
<1>1. ASSUME NEW n \in Node, NEW i \in Incarnation, Start(n, i)
      PROVE  Voiced'
  BY <1>1, StartVoice
<1>2. ASSUME NEW n \in Node, Crash(n) \/ Leave(n) \/ Reevaluate(n)
      PROVE  Voiced'
  BY <1>2, LivesVoice, ReevaluateVoice
<1>3. ASSUME NEW n \in Node, NEW m \in Node,
             \/ Handshake(n, m) \/ PeerLost(n, m) \/ PeerGone(n, m)
             \/ LeaderSilent(n, m) \/ BeatResumed(n, m) \/ GossipRound(n, m)
      PROVE  Voiced'
  <2>1. CASE Handshake(n, m)
    BY <2>1, HandshakeVoice
  <2>2. CASE PeerLost(n, m)
    <3>1. PICK beats, no : beats = {} /\ no = FALSE
      OBVIOUS
    <3>2. Suspects(n, m, beats, no)
      BY <2>2, <3>1 DEF PeerLost
    <3> QED
      BY <3>2, SuspectsVoice
  <2>3. CASE PeerGone(n, m)
    <3>1. PICK none : none = {}
      OBVIOUS
    <3>2. Bury(n, m, none)
      BY <2>3, <3>1 DEF PeerGone
    <3> QED
      BY <3>2, BuryVoice
  <2>4. CASE LeaderSilent(n, m)
    <3>1. PICK beats, yes : beats = {m} /\ yes = TRUE
      OBVIOUS
    <3>2. Suspects(n, m, beats, yes)
      BY <2>4, <3>1 DEF LeaderSilent
    <3> QED
      BY <3>2, SuspectsVoice
  <2>5. CASE BeatResumed(n, m)
    BY <2>5, BeatResumedVoice
  <2>6. CASE GossipRound(n, m)
    BY <2>6, GossipVoice
  <2> QED
    BY <1>3, <2>1, <2>2, <2>3, <2>4, <2>5, <2>6
<1>4. ASSUME NEW n \in Node, NEW late \in SUBSET Subject, NEW old \in SUBSET Subject,
             ControlTick(n, late, old)
      PROVE  Voiced'
  BY <1>4, ControlTickVoice
<1>5. ASSUME NEW n \in Node, NEW missed \in SUBSET Subject,
             NEW failed \in SUBSET Subject, NEW clear \in SUBSET Subject,
             NEW s \in Score, ProbeRound(n, missed, failed, clear, s)
      PROVE  Voiced'
  BY <1>5, ProbeRoundVoice
<1>6. ASSUME NEW n \in Node, NEW f \in net, Handle(n, f)
      PROVE  Voiced'
  <2>1. CASE HandleLeave(n, f)
    <3>1. f.from \in Node
      BY <2>1, GossipAssumption DEF HandleLeave, IInv, TypeOK, Frame
    <3>2. PICK handled : handled = {f}
      OBVIOUS
    <3>3. Bury(n, f.from, handled)
      BY <2>1, <3>2 DEF HandleLeave
    <3> QED
      BY <3>1, <3>3, BuryVoice
  <2> QED
    BY <1>6, <2>1, PeerUpVoice, HandleDeltaVoice DEF Handle
<1>7. CASE UNCHANGED vars
  BY <1>7 DEF vars, Voiced, VoiceInv, ToldFrame
<1> QED
  BY <1>1, <1>2, <1>3, <1>4, <1>5, <1>6, <1>7 DEF Next

LEMMA SpecVoiced ==
  ASSUME ClockOutruns
  PROVE  Spec => [](IInv /\ Voiced)
<1>1. Init => IInv /\ Voiced
  BY InitIInv, InitVoiced
<1>2. IInv /\ Voiced /\ [Next]_vars => (IInv /\ Voiced)'
  BY NextIInv, NextVoiced
<1> QED
  BY <1>1, <1>2, PTL DEF Spec

\* What is told of a member is told by one voice.
LEMMA VoicedAgrees ==
  ASSUME IInv, Voiced
  PROVE  ClaimAgreement
<1>0. PICK v \in [Subject -> Voice], k \in [Subject -> Nat] : VoiceInv(v, k)
  BY DEF Voiced
<1>1. ASSUME NEW m \in Subject, NEW r \in RecordsOf(m), r.claim.seq > 0
      PROVE  r.claim = v[m][r.inc][r.claim.seq]
  <2>1. ASSUME NEW n \in Node, r = table[n][m], r # NoRecord
        PROVE  Told(r, v[m], boot[m], k[m])
    BY <1>0, <2>1 DEF VoiceInv, ToldRow
  <2>2. ASSUME NEW f \in net, f.type = "delta", r = f.view[m], r # NoRecord
        PROVE  Told(r, v[m], boot[m], k[m])
    BY <1>0, <2>2 DEF VoiceInv, ToldFrame, ToldRow
  <2>3. Told(r, v[m], boot[m], k[m])
    BY <2>1, <2>2 DEF RecordsOf
  <2> QED
    BY <1>1, <2>3 DEF Told
<1>2. \A m \in Subject : \A r, s \in RecordsOf(m) :
        (r.inc = s.inc /\ r.claim.seq = s.claim.seq /\ r.claim.seq > 0) => r.claim = s.claim
  <2> SUFFICES ASSUME NEW m \in Subject, NEW r \in RecordsOf(m), NEW s \in RecordsOf(m),
                      r.inc = s.inc, r.claim.seq = s.claim.seq, r.claim.seq > 0
               PROVE  r.claim = s.claim
    OBVIOUS
  <2>1. r.claim = v[m][r.inc][r.claim.seq] /\ s.claim = v[m][s.inc][s.claim.seq]
    BY <1>1
  <2> QED
    BY <2>1
<1> QED
  BY <1>2 DEF ClaimAgreement

\* A running member speaks at the highest incarnation it announced, which no record
\* but a death is past.
LEMMA VoicedOutranks ==
  ASSUME IInv, Voiced
  PROVE  AuthorOutranks
<1>0. PICK v \in [Subject -> Voice], k \in [Subject -> Nat] : VoiceInv(v, k)
  BY DEF Voiced
<1> SUFFICES ASSUME NEW m \in up \cap Subject, NEW r \in RecordsOf(m), r.st # Dead
             PROVE  r.inc <= inc[m]
  BY DEF AuthorOutranks
<1>1. ASSUME NEW n \in Node, r = table[n][m], r # NoRecord
      PROVE  Fits(r, top[m])
  BY <1>1 DEF IInv, GoodRow
<1>2. ASSUME NEW f \in net, f.type = "delta", r = f.view[m], r # NoRecord
      PROVE  Fits(r, top[m])
  BY <1>2 DEF IInv, GoodFrame, GoodRow
<1>3. Fits(r, top[m])
  BY <1>1, <1>2 DEF RecordsOf
<1> QED
  BY <1>0, <1>3 DEF Fits, VoiceInv

\* When the clock of a restart has outrun what was announced, what a member said
\* under a number is the same wherever it is held, at whatever incarnation it was
\* copied to, and what it says now outranks every record of it but a death: merges,
\* deaths recorded one incarnation past, revivals, refutations and relays in any
\* order tell two stories of nobody (member.go, Upsert, SetState, refuteIfNeeded).
THEOREM OneStoryEach ==
  ASSUME ClockOutruns
  PROVE  Spec => []ClaimsHold
<1>1. IInv /\ Voiced => ClaimsHold
  BY VoicedAgrees, VoicedOutranks DEF ClaimsHold
<1>2. Spec => [](IInv /\ Voiced)
  BY SpecVoiced
<1> QED
  BY <1>1, <1>2, PTL
=============================================================================
