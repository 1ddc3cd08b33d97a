------------------------------ MODULE TasksProofs ------------------------------
(***************************************************************************)
(* Safety of the replicated ledger, for every number of nodes and tasks,   *)
(* every ledger size and every bound on failures.  The proof follows one   *)
(* event of one node's loop: what each operation does to the event keeps   *)
(* EventInv, and an event that keeps it may be handled.                    *)
(***************************************************************************)
EXTENDS Tasks, SequenceTheorems, FiniteSetTheorems, WellFoundedInduction, TLAPS

\* What is made of the tasks in S.
Bodies(S) == [task: S, whole: BOOLEAN]
Records(S) == [task: S, done: BOOLEAN, to: Node \cup {None}, whole: BOOLEAN]
Unique(g) == \A i, j \in DOMAIN g : g[i].task = g[j].task => i = j
Ledgers(S) == {g \in Seq(Records(S)) : Len(g) <= LedgerSize /\ Unique(g)}
Runs(S) == {R \in SUBSET [task: S, whole: BOOLEAN, origin: Node \cup {None}] :
              IsFiniteSet(R) /\ Cardinality(R) <= MaxInflight}

States(S) == [leaders: SUBSET Node, leader: Node \cup {None}, waiting: BOOLEAN,
              attached: SUBSET Node, lost: SUBSET Node, doubted: SUBSET Node,
              dead: SUBSET Node, term: Nat, ledger: Ledgers(S), version: Nat,
              held: BOOLEAN, heldTerm: Nat, next: Nat, reissueDue: BOOLEAN,
              handoff: Seq(Bodies(S)), running: Runs(S)]

Joins == [type: {"join"}, current: BOOLEAN]
Acks == [type: {"ack"}, ok: BOOLEAN, current: BOOLEAN]
Syncs(S) == [type: {"sync"}, term: Nat, version: Nat, ledger: Ledgers(S)]
CtrlFrames(S) == Joins \cup Acks \cup Syncs(S)
DataFrames(S) == [type: {"task"}, task: Bodies(S)]
                   \cup [type: {"result"}, task: S, by: Node]
Links(F) == [Node -> [Node -> Seq(F)]]

Types ==
  /\ node \in [Node -> States(submitted)]
  /\ ctrl \in Links(CtrlFrames(submitted)) /\ data \in Links(DataFrames(submitted))
  /\ submitted \subseteq Task /\ reported \subseteq submitted
  /\ up \subseteq Node /\ elected \subseteq Node

\* Behind: a key and a ledger that l, when it has the fields s, may have sent before:
\* in this term nothing newer, and with this key nothing else.
Behind(t, v, g, s, l) ==
  /\ t <= s.term
  /\ l \in s.leaders /\ t = s.term => v <= s.version /\ (v = s.version => g = s.ledger)

\* The snapshots on l's links are of l's past.
SentInPast(l) ==
  \A q \in Node : \A i \in DOMAIN ctrl[l][q] :
    LET f == ctrl[l][q][i]
    IN  f.type = "sync" => Behind(f.term, f.version, f.ledger, node[l], l)

\* What w, with the fields s, holds of the leader that accepted it is of that one's past.
HeldInPast(s, w) ==
  \A l \in up \ {w} :
    s.held /\ s.leader = l /\ ~s.waiting /\ w \notin s.leaders
      => Behind(s.heldTerm, s.version, s.ledger, node[l], l)

Keys == (\A l \in up : SentInPast(l)) /\ (\A w \in Node : HeldInPast(node[w], w))

TasksInv == Types /\ Keys

-----------------------------------------------------------------------------
\* One event of n's loop, so far.

\* Its terms and versions grew: a ledger changes with its version, a role with its term.
Grown(a, s, n) ==
  /\ a.term <= s.term
  /\ n \in s.leaders /\ a.term = s.term =>
       n \in a.leaders /\ a.version <= s.version /\ (a.version = s.version => a.ledger = s.ledger)

\* What it had finished it still holds unchanged, or no more.
Kept(a, s, n) ==
  n \in a.leaders /\ n \in s.leaders =>
    \A i \in DOMAIN a.ledger : a.ledger[i].done =>
      \A j \in DOMAIN s.ledger : s.ledger[j].task = a.ledger[i].task => s.ledger[j] = a.ledger[i]

\* No snapshot is on these links that was not there before.
OldSyncs(c) ==
  \A p, q \in Node : \A i \in DOMAIN c[p][q] :
    c[p][q][i].type = "sync" => \E j \in DOMAIN ctrl[p][q] : ctrl[p][q][j] = c[p][q][i]

Past(s, n) == Grown(node[n], s, n) /\ Kept(node[n], s, n) /\ HeldInPast(s, n)

Events(S) == [s: States(S), ctrl: Links(CtrlFrames(S)), data: Links(DataFrames(S)),
              reported: SUBSET S]

EventInv(e, n, S) == e \in Events(S) /\ Past(e.s, n) /\ OldSyncs(e.ctrl)

-----------------------------------------------------------------------------
\* Of finitely many numbers there is one with i below it.
LEMMA NthIsThere ==
  ASSUME NEW T \in SUBSET Nat, IsFiniteSet(T), NEW i \in Nat, i < Cardinality(T)
  PROVE  Nth(T, i) \in T
<1> DEFINE Rank == [k \in T |-> Cardinality({j \in T : j < k})]
<1>1. Cardinality(T) \in Nat
  BY FS_CardinalityType
<1>2. ASSUME NEW k \in T
      PROVE  Rank[k] \in Nat /\ Rank[k] < Cardinality(T)
  <2>1. {j \in T : j < k} \in SUBSET T /\ {j \in T : j < k} # T
    OBVIOUS
  <2>2. /\ IsFiniteSet({j \in T : j < k})
        /\ Cardinality({j \in T : j < k}) <= Cardinality(T)
        /\ Cardinality(T) # Cardinality({j \in T : j < k})
    BY <2>1, FS_Subset
  <2>3. Cardinality({j \in T : j < k}) \in Nat
    BY <2>2, FS_CardinalityType
  <2> QED
    BY <1>1, <2>2, <2>3
<1>3. ASSUME NEW k \in T, NEW m \in T, k < m
      PROVE  Rank[k] < Rank[m]
  <2> DEFINE A == {j \in T : j < k}
  <2> DEFINE B == {j \in T : j < m}
  <2>1. IsFiniteSet(B)
    <3>1. B \in SUBSET T
      OBVIOUS
    <3> QED
      BY <3>1, FS_Subset
  <2>2. A \in SUBSET B /\ k \in B /\ k \notin A
    <3>1. k \in Nat /\ m \in Nat
      OBVIOUS
    <3>2. ASSUME NEW j \in T, j < k
          PROVE  j < m
      <4>1. j \in Nat
        OBVIOUS
      <4> QED
        BY <1>3, <3>1, <3>2, <4>1
    <3>3. ~(k < k)
      BY <3>1
    <3> QED
      BY <1>3, <3>2, <3>3
  <2>3. Cardinality(A) <= Cardinality(B) /\ Cardinality(B) # Cardinality(A)
    BY <2>1, <2>2, FS_Subset
  <2>4. Rank[k] \in Nat /\ Rank[m] \in Nat
    BY <1>2
  <2>5. Rank[k] = Cardinality(A) /\ Rank[m] = Cardinality(B)
    OBVIOUS
  <2> HIDE DEF A, B, Rank
  <2> QED
    BY <2>3, <2>4, <2>5
<1>4. \E k \in T : Rank[k] = i
  <2> SUFFICES ASSUME \A k \in T : Rank[k] # i
               PROVE  FALSE
    OBVIOUS
  <2> DEFINE Free == (0..(Cardinality(T) - 1)) \ {i}
  <2>1. Rank \in [T -> Free]
    BY <1>1, <1>2
  <2>2. IsFiniteSet(0..(Cardinality(T) - 1)) /\ Cardinality(0..(Cardinality(T) - 1)) = Cardinality(T)
    <3>1. 0 \in Int /\ Cardinality(T) - 1 \in Int
      BY <1>1
    <3>2. IsFiniteSet(0..(Cardinality(T) - 1))
           /\ Cardinality(0..(Cardinality(T) - 1)) =
                IF 0 > Cardinality(T) - 1 THEN 0 ELSE (Cardinality(T) - 1) - 0 + 1
      BY <3>1, FS_Interval
    <3> QED
      BY <1>1, <3>2
  <2>3. i \in 0..(Cardinality(T) - 1)
    BY <1>1
  <2>4. IsFiniteSet(Free) /\ Cardinality(Free) = Cardinality(T) - 1
    BY <2>2, <2>3, FS_RemoveElement
  <2>5. Cardinality(T) > Cardinality(Free)
    BY <1>1, <2>4
  <2>6. PICK k \in T, m \in T : k # m /\ Rank[k] = Rank[m]
    <3> HIDE DEF Rank, Free
    <3> QED
      BY <2>1, <2>4, <2>5, FS_PigeonHole
  <2>7. Rank[k] \in Nat /\ Rank[m] \in Nat /\ k \in Nat /\ m \in Nat
    BY <1>2
  <2>8. CASE k < m
    <3>1. Rank[k] < Rank[m]
      BY <1>3, <2>8
    <3> HIDE DEF Rank
    <3> QED
      BY <2>6, <2>7, <3>1
  <2>9. CASE m < k
    <3>1. Rank[m] < Rank[k]
      BY <1>3, <2>9
    <3> HIDE DEF Rank
    <3> QED
      BY <2>6, <2>7, <3>1
  <2> QED
    BY <2>6, <2>7, <2>8, <2>9
<1> QED
  BY <1>4 DEF Nth

\* An interval's subset is finite.
LEMMA SomeOfMany ==
  ASSUME NEW m \in Nat, NEW T \in SUBSET (1..m)
  PROVE  IsFiniteSet(T) /\ Cardinality(T) \in Nat /\ T \in SUBSET Nat
<1>1. IsFiniteSet(1..m)
  BY FS_Interval
<1>2. IsFiniteSet(T)
  BY <1>1, FS_Subset
<1> QED
  BY <1>2, FS_CardinalityType

\* What is pending is in the ledger, not done.
LEMMA PendingFacts ==
  ASSUME NEW S, NEW s, s.ledger \in Seq(Records(S)), NEW A
  PROVE  /\ PendingTasks(s, A) \in Seq(Bodies(S))
         /\ \A i \in 1..Len(PendingTasks(s, A)) : \E j \in DOMAIN s.ledger :
              s.ledger[j].task = PendingTasks(s, A)[i].task /\ ~s.ledger[j].done
<1> DEFINE P == {i \in DOMAIN s.ledger : ~s.ledger[i].done /\ s.ledger[i].to \in A}
<1>1. /\ DOMAIN s.ledger = 1..Len(s.ledger) /\ Len(s.ledger) \in Nat
      /\ \A i \in DOMAIN s.ledger : s.ledger[i] \in Records(S)
  BY ElementOfSeq, LenProperties
<1>2. IsFiniteSet(P) /\ Cardinality(P) \in Nat /\ P \in SUBSET Nat
  BY <1>1, SomeOfMany
<1>3. ASSUME NEW i \in 1..Cardinality(P)
      PROVE  Nth(P, i - 1) \in P
  <2>1. i - 1 \in Nat /\ i - 1 < Cardinality(P)
    BY <1>2
  <2> HIDE DEF P
  <2> QED
    BY <1>2, <2>1, NthIsThere
<1>4. PendingTasks(s, A) =
        [i \in 1..Cardinality(P) |-> [task |-> s.ledger[Nth(P, i - 1)].task,
                                      whole |-> s.ledger[Nth(P, i - 1)].whole]]
  BY DEF PendingTasks
<1>5. ASSUME NEW i \in 1..Cardinality(P)
      PROVE  /\ PendingTasks(s, A)[i] \in Bodies(S)
             /\ \E j \in DOMAIN s.ledger :
                  s.ledger[j].task = PendingTasks(s, A)[i].task /\ ~s.ledger[j].done
  <2>1. Nth(P, i - 1) \in DOMAIN s.ledger /\ ~s.ledger[Nth(P, i - 1)].done
    BY <1>3
  <2>2. s.ledger[Nth(P, i - 1)] \in Records(S)
    BY <1>1, <2>1
  <2>3. PendingTasks(s, A)[i] = [task |-> s.ledger[Nth(P, i - 1)].task,
                                 whole |-> s.ledger[Nth(P, i - 1)].whole]
    BY <1>4
  <2> HIDE DEF P
  <2> QED
    BY <2>1, <2>2, <2>3 DEF Bodies, Records
<1> HIDE DEF P
<1>6. PendingTasks(s, A) \in Seq(Bodies(S)) /\ Len(PendingTasks(s, A)) = Cardinality(P)
  BY <1>2, <1>4, <1>5, IsASeq
<1> QED
  BY <1>5, <1>6

-----------------------------------------------------------------------------
\* The ledger.

\* The fields of a state, one by one.
LEMMA StateFields ==
  ASSUME NEW S, NEW s \in States(S)
  PROVE  /\ s.leaders \in SUBSET Node /\ s.leader \in Node \cup {None} /\ s.waiting \in BOOLEAN
         /\ s.attached \in SUBSET Node /\ s.lost \in SUBSET Node /\ s.doubted \in SUBSET Node
         /\ s.dead \in SUBSET Node /\ s.term \in Nat /\ s.ledger \in Ledgers(S)
         /\ s.version \in Nat /\ s.held \in BOOLEAN /\ s.heldTerm \in Nat /\ s.next \in Nat
         /\ s.reissueDue \in BOOLEAN /\ s.handoff \in Seq(Bodies(S)) /\ s.running \in Runs(S)
BY DEF States

LEMMA LedgerFacts ==
  ASSUME NEW S, NEW g \in Ledgers(S)
  PROVE  /\ g \in Seq(Records(S)) /\ Len(g) \in Nat /\ Len(g) <= LedgerSize
         /\ DOMAIN g = 1..Len(g)
         /\ \A i \in DOMAIN g : g[i] \in Records(S)
         /\ \A i, j \in DOMAIN g : g[i].task = g[j].task => i = j
BY ElementOfSeq, LenProperties DEF Ledgers, Unique

\* A record may be replaced by another of the same task.
LEMMA RecordReplaced ==
  ASSUME NEW S, NEW g \in Ledgers(S), NEW i \in DOMAIN g,
         NEW r \in Records(S), r.task = g[i].task
  PROVE  /\ [g EXCEPT ![i] = r] \in Ledgers(S)
         /\ DOMAIN [g EXCEPT ![i] = r] = DOMAIN g
         /\ \A j \in DOMAIN g : [g EXCEPT ![i] = r][j] = IF j = i THEN r ELSE g[j]
<1> DEFINE h == [g EXCEPT ![i] = r]
<1>1. h \in Seq(Records(S)) /\ Len(h) = Len(g)
  BY LedgerFacts, ExceptSeq
<1>2. DOMAIN h = DOMAIN g /\ \A j \in DOMAIN g : h[j] = IF j = i THEN r ELSE g[j]
  OBVIOUS
<1>3. \A j, k \in DOMAIN h : h[j].task = h[k].task => j = k
  BY <1>2, LedgerFacts
<1> HIDE DEF h
<1>4. h \in Ledgers(S)
  BY <1>1, <1>3, LedgerFacts DEF Ledgers, Unique
<1> QED
  BY <1>2, <1>4 DEF h

LEMMA IndexFacts ==
  ASSUME NEW s, NEW t, Holds(s, t)
  PROVE  IndexOf(s, t) \in DOMAIN s.ledger /\ s.ledger[IndexOf(s, t)].task = t
BY DEF Holds, IndexOf

\* s with another ledger is newer by its version.
Edits(s, z, S) ==
  /\ z \in States(S)
  /\ z = [s EXCEPT !.ledger = z.ledger, !.version = z.version]
  /\ s.version <= z.version /\ (s.version = z.version => z.ledger = s.ledger)

LEMMA EditIs ==
  ASSUME NEW S, NEW s \in States(S), NEW g \in Ledgers(S)
  PROVE  /\ Edits(s, Changed([s EXCEPT !.ledger = g]), S)
         /\ Changed([s EXCEPT !.ledger = g]).ledger = g
<1> DEFINE z == Changed([s EXCEPT !.ledger = g])
<1>1. s.version \in Nat /\ s.version + 1 \in Nat
  BY StateFields
<1>2. z = [s EXCEPT !.ledger = g, !.version = s.version + 1]
  BY DEF Changed, States
<1>3. z \in States(S)
  BY <1>1, <1>2 DEF States
<1>4. z.ledger = g /\ z.version = s.version + 1
  BY <1>2 DEF States
<1> HIDE DEF z
<1>5. s.version <= z.version /\ s.version # z.version
  BY <1>1, <1>4
<1>6. Edits(s, z, S)
  BY <1>2, <1>3, <1>4, <1>5 DEF Edits
<1> QED
  BY <1>4, <1>6 DEF z

\* A record that is not of t stays as it is.
LEMMA SetAssigneeIs ==
  ASSUME NEW S, NEW s \in States(S), NEW t, NEW w \in Node
  PROVE  /\ Edits(s, SetAssignee(s, t, w), S)
         /\ \A j \in DOMAIN SetAssignee(s, t, w).ledger :
              \/ SetAssignee(s, t, w).ledger[j].task = t
              \/ \E i \in DOMAIN s.ledger : SetAssignee(s, t, w).ledger[j] = s.ledger[i]
<1>1. CASE Holds(s, t) /\ s.ledger[IndexOf(s, t)].to # w
  <2> DEFINE i == IndexOf(s, t)
  <2> DEFINE r == [s.ledger[i] EXCEPT !.to = w]
  <2> DEFINE g == [s.ledger EXCEPT ![i] = r]
  <2>1. i \in DOMAIN s.ledger /\ s.ledger[i].task = t
    BY <1>1, IndexFacts
  <2>2. s.ledger \in Ledgers(S) /\ s.ledger[i] \in Records(S)
    BY <2>1, StateFields, LedgerFacts
  <2>3. r \in Records(S) /\ r.task = s.ledger[i].task
    BY <2>2 DEF Records
  <2>4. /\ g \in Ledgers(S) /\ DOMAIN g = DOMAIN s.ledger
        /\ \A j \in DOMAIN s.ledger : g[j] = IF j = i THEN r ELSE s.ledger[j]
    <3> HIDE DEF r, i
    <3> QED
      BY <2>1, <2>2, <2>3, RecordReplaced
  <2>5. SetAssignee(s, t, w) = Changed([s EXCEPT !.ledger = g])
    BY <1>1 DEF SetAssignee
  <2>6. Edits(s, SetAssignee(s, t, w), S) /\ SetAssignee(s, t, w).ledger = g
    <3> HIDE DEF g
    <3> QED
      BY <2>4, <2>5, EditIs
  <2> HIDE DEF g, r, i
  <2> QED
    BY <2>1, <2>3, <2>4, <2>6
<1>2. CASE ~(Holds(s, t) /\ s.ledger[IndexOf(s, t)].to # w)
  <2>1. SetAssignee(s, t, w) = s
    BY <1>2 DEF SetAssignee
  <2>2. s = [s EXCEPT !.ledger = s.ledger, !.version = s.version]
    BY DEF States
  <2>3. s.version \in Nat
    BY StateFields
  <2> QED
    BY <2>1, <2>2, <2>3 DEF Edits
<1> QED
  BY <1>1, <1>2

\* Leaving one record out leaves the others.
LEMMA RecordRemoved ==
  ASSUME NEW S, NEW g \in Ledgers(S), NEW v \in DOMAIN g
  PROVE  /\ RemoveAt(g, v) \in Ledgers(S) /\ Len(RemoveAt(g, v)) = Len(g) - 1
         /\ \A j \in DOMAIN RemoveAt(g, v) : \E i \in DOMAIN g : RemoveAt(g, v)[j] = g[i]
<1> DEFINE n == Len(g)
<1> DEFINE h == RemoveAt(g, v)
<1>1. /\ n \in Nat /\ n <= LedgerSize /\ DOMAIN g = 1..n /\ g \in Seq(Records(S))
      /\ \A i \in DOMAIN g : g[i] \in Records(S)
  BY LedgerFacts
<1>2. v \in 1..n
  BY <1>1
<1>3. /\ SubSeq(g, 1, v - 1) \in Seq(Records(S)) /\ Len(SubSeq(g, 1, v - 1)) = v - 1
      /\ \A i \in 1..(v - 1) : SubSeq(g, 1, v - 1)[i] = g[i]
  <2>1. \A i \in 1..(v - 1) : i \in 1..n
    BY <1>1, <1>2
  <2> QED
    BY <1>1, <1>2, <2>1, SubSeqProperties
<1>4. /\ SubSeq(g, v + 1, n) \in Seq(Records(S)) /\ Len(SubSeq(g, v + 1, n)) = n - v
      /\ \A i \in 1..(n - v) : SubSeq(g, v + 1, n)[i] = g[v + i]
  <2>1. \A i \in (v + 1)..n : i \in 1..n
    BY <1>1, <1>2
  <2> QED
    BY <1>1, <1>2, <2>1, SubSeqProperties
<1>5. h = SubSeq(g, 1, v - 1) \o SubSeq(g, v + 1, n)
  BY DEF RemoveAt
<1>6. /\ h \in Seq(Records(S)) /\ Len(h) = n - 1
      /\ \A j \in 1..(n - 1) : h[j] = IF j < v THEN g[j] ELSE g[j + 1]
  <2> HIDE DEF n, h
  <2> DEFINE a == SubSeq(g, 1, v - 1)
  <2> DEFINE b == SubSeq(g, v + 1, n)
  <2>1. /\ h \in Seq(Records(S)) /\ Len(h) = Len(a) + Len(b)
        /\ \A j \in 1..(Len(a) + Len(b)) : h[j] = IF j <= Len(a) THEN a[j] ELSE b[j - Len(a)]
    BY <1>3, <1>4, <1>5, ConcatProperties
  <2>2. Len(a) = v - 1 /\ Len(b) = n - v
    BY <1>3, <1>4
  <2>3. ASSUME NEW j \in 1..(n - 1)
        PROVE  h[j] = IF j < v THEN g[j] ELSE g[j + 1]
    <3>1. j \in 1..(Len(a) + Len(b))
      BY <1>1, <1>2, <2>2
    <3>2. CASE j < v
      BY <1>1, <1>2, <1>3, <2>1, <2>2, <3>1, <3>2
    <3>3. CASE ~(j < v)
      <4>1. j - Len(a) \in 1..(n - v) /\ v + (j - Len(a)) = j + 1
        BY <1>1, <1>2, <2>2, <3>3
      <4>2. h[j] = b[j - Len(a)]
        <5>1. ~(j <= Len(a))
          BY <1>1, <1>2, <2>2, <3>3
        <5> QED
          BY <2>1, <3>1, <5>1
      <4>3. b[j - Len(a)] = g[v + (j - Len(a))]
        BY <1>4, <4>1
      <4> QED
        BY <3>3, <4>1, <4>2, <4>3
    <3> QED
      BY <3>2, <3>3
  <2> QED
    BY <1>1, <1>2, <2>1, <2>2, <2>3
<1> HIDE DEF h, n
<1>7. DOMAIN h = 1..(n - 1)
  BY <1>6, LenProperties
<1>8. Unique(h)
  <2> SUFFICES ASSUME NEW i \in 1..(n - 1), NEW j \in 1..(n - 1), h[i].task = h[j].task
               PROVE  i = j
    BY <1>7 DEF Unique
  <2> DEFINE At(k) == IF k < v THEN k ELSE k + 1
  <2>1. At(i) \in 1..n /\ At(j) \in 1..n /\ (At(i) = At(j) => i = j)
    BY <1>1, <1>2
  <2>2. h[i] = g[At(i)] /\ h[j] = g[At(j)]
    BY <1>6
  <2> HIDE DEF At
  <2> QED
    BY <1>1, <2>1, <2>2, LedgerFacts
<1>9. h \in Ledgers(S)
  BY <1>1, <1>6, <1>8, TasksAssumption DEF Ledgers
<1>10. ASSUME NEW j \in DOMAIN h
       PROVE  \E i \in DOMAIN g : h[j] = g[i]
  <2>1. h[j] = g[j] \/ h[j] = g[j + 1]
    BY <1>6, <1>7
  <2>2. j \in 1..n /\ j + 1 \in 1..n
    BY <1>1, <1>7
  <2> QED
    BY <1>1, <2>1, <2>2
<1> QED
  BY <1>6, <1>9, <1>10 DEF h, n

\* A new task is recorded, and no other record is new.
LEMMA LedgerAppendIs ==
  ASSUME NEW S, NEW s \in States(S), NEW r \in Records(S), ~Holds(s, r.task)
  PROVE  /\ Edits(s, LedgerAppend(s, r), S)
         /\ \A j \in DOMAIN LedgerAppend(s, r).ledger :
              \/ LedgerAppend(s, r).ledger[j].task = r.task
              \/ \E i \in DOMAIN s.ledger : LedgerAppend(s, r).ledger[j] = s.ledger[i]
<1> DEFINE finished == {i \in DOMAIN s.ledger : s.ledger[i].done}
<1> DEFINE victim == IF finished = {} THEN 1
                     ELSE CHOOSE i \in finished : \A j \in finished : i <= j
<1> DEFINE kept == IF Len(s.ledger) >= LedgerSize THEN RemoveAt(s.ledger, victim) ELSE s.ledger
<1>1. s.ledger \in Ledgers(S)
  BY StateFields
<1>2. /\ Len(s.ledger) \in Nat /\ Len(s.ledger) <= LedgerSize /\ DOMAIN s.ledger = 1..Len(s.ledger)
      /\ LedgerSize \in Nat \ {0}
  BY <1>1, LedgerFacts, TasksAssumption
<1>3. Len(s.ledger) >= LedgerSize => victim \in DOMAIN s.ledger
  <2> SUFFICES ASSUME Len(s.ledger) >= LedgerSize
               PROVE  victim \in DOMAIN s.ledger
    OBVIOUS
  <2>1. CASE finished = {}
    BY <1>2, <2>1
  <2>2. CASE finished # {}
    <3>1. finished \in SUBSET Nat
      BY <1>2
    <3>2. PICK i \in finished : \A j \in finished : ~(<<j, i>> \in OpToRel(<, Nat))
      <4> HIDE DEF finished
      <4> QED
        BY <2>2, <3>1, WFMin, NatLessThanWellFounded
    <3>3. \A j \in finished : i <= j
      <4> SUFFICES ASSUME NEW j \in finished
                   PROVE  i <= j
        OBVIOUS
      <4>1. i \in Nat /\ j \in Nat
        BY <3>1, <3>2
      <4>2. ~(j < i)
        BY <3>2, <4>1 DEF OpToRel
      <4> QED
        BY <4>1, <4>2
    <3>4. victim \in finished
      <4> HIDE DEF finished
      <4> QED
        BY <2>2, <3>2, <3>3
    <3> QED
      BY <3>4
  <2> QED
    BY <2>1, <2>2
<1>4. /\ kept \in Ledgers(S) /\ Len(kept) < LedgerSize
      /\ \A j \in DOMAIN kept : \E i \in DOMAIN s.ledger : kept[j] = s.ledger[i]
  <2> HIDE DEF victim
  <2>1. CASE Len(s.ledger) >= LedgerSize
    <3>1. kept = RemoveAt(s.ledger, victim)
      BY <2>1
    <3>2. /\ RemoveAt(s.ledger, victim) \in Ledgers(S)
          /\ Len(RemoveAt(s.ledger, victim)) = Len(s.ledger) - 1
          /\ \A j \in DOMAIN RemoveAt(s.ledger, victim) :
               \E i \in DOMAIN s.ledger : RemoveAt(s.ledger, victim)[j] = s.ledger[i]
      BY <1>1, <1>3, <2>1, RecordRemoved
    <3> HIDE DEF kept
    <3> QED
      BY <1>2, <3>1, <3>2
  <2>2. CASE ~(Len(s.ledger) >= LedgerSize)
    BY <1>1, <1>2, <2>2
  <2> QED
    BY <2>1, <2>2
<1> HIDE DEF kept
<1>5. DOMAIN kept = 1..Len(kept) /\ Len(kept) \in Nat /\ kept \in Seq(Records(S))
  BY <1>4, LedgerFacts
<1> DEFINE g == Append(kept, r)
<1>6. /\ g \in Seq(Records(S)) /\ Len(g) = Len(kept) + 1 /\ DOMAIN g = 1..(Len(kept) + 1)
      /\ \A j \in 1..Len(kept) : g[j] = kept[j]
      /\ g[Len(kept) + 1] = r
  BY <1>5, AppendProperties, LenProperties
<1>7. \A j \in 1..Len(kept) : g[j].task # r.task
  BY <1>4, <1>5, <1>6 DEF Holds
<1>8. Unique(g)
  <2> SUFFICES ASSUME NEW i \in 1..(Len(kept) + 1), NEW j \in 1..(Len(kept) + 1),
                      g[i].task = g[j].task
               PROVE  i = j
    BY <1>6 DEF Unique
  <2>1. CASE i \in 1..Len(kept) /\ j \in 1..Len(kept)
    BY <1>4, <1>5, <1>6, <2>1, LedgerFacts
  <2>2. CASE ~(i \in 1..Len(kept) /\ j \in 1..Len(kept))
    <3> HIDE DEF g
    <3> QED
      BY <1>5, <1>6, <1>7, <2>2
  <2> QED
    BY <2>1, <2>2
<1>9. g \in Ledgers(S)
  BY <1>2, <1>4, <1>5, <1>6, <1>8 DEF Ledgers
<1>10. LedgerAppend(s, r) = Changed([s EXCEPT !.ledger = g])
  BY DEF LedgerAppend, kept
<1>11. Edits(s, LedgerAppend(s, r), S) /\ LedgerAppend(s, r).ledger = g
  <2> HIDE DEF g
  <2> QED
    BY <1>9, <1>10, EditIs
<1>12. ASSUME NEW j \in DOMAIN g
       PROVE  g[j].task = r.task \/ \E i \in DOMAIN s.ledger : g[j] = s.ledger[i]
  <2>1. j \in 1..Len(kept) \/ j = Len(kept) + 1
    BY <1>5, <1>6
  <2> QED
    BY <1>4, <1>5, <1>6, <2>1
<1> HIDE DEF g
<1> QED
  BY <1>11, <1>12

-----------------------------------------------------------------------------
\* What one operation does to an event.

LEMMA EventFields ==
  ASSUME NEW S, NEW e \in Events(S)
  PROVE  /\ e.s \in States(S) /\ e.ctrl \in Links(CtrlFrames(S))
         /\ e.data \in Links(DataFrames(S)) /\ e.reported \in SUBSET S
BY DEF Events

LEMMA EventMoved ==
  ASSUME NEW S, NEW n \in Node, NEW e, EventInv(e, n, S), NEW z \in States(S), Past(z, n)
  PROVE  EventInv([e EXCEPT !.s = z], n, S)
<1>1. e \in Events(S) /\ OldSyncs(e.ctrl)
  BY DEF EventInv
<1> DEFINE d == [e EXCEPT !.s = z]
<1>2. d \in Events(S) /\ d.s = z /\ d.ctrl = e.ctrl
  BY <1>1 DEF Events
<1> HIDE DEF d
<1>3. EventInv(d, n, S)
  BY <1>1, <1>2 DEF EventInv
<1> QED
  BY <1>3 DEF d

\* The fields that Past is about.
SameBooks(s, z) ==
  /\ z.leaders = s.leaders /\ z.leader = s.leader /\ z.waiting = s.waiting /\ z.term = s.term
  /\ z.ledger = s.ledger /\ z.version = s.version /\ z.held = s.held
  /\ z.heldTerm = s.heldTerm

LEMMA SamePast ==
  ASSUME NEW n, NEW s, NEW z, SameBooks(s, z), Past(s, n)
  PROVE  Past(z, n)
BY DEF SameBooks, Past, Grown, Kept, HeldInPast, Behind

LEMMA EventRestated ==
  ASSUME NEW S, NEW n \in Node, NEW e, EventInv(e, n, S), NEW z \in States(S),
         SameBooks(e.s, z)
  PROVE  EventInv([e EXCEPT !.s = z], n, S)
<1>1. Past(z, n)
  BY SamePast DEF EventInv
<1> QED
  BY <1>1, EventMoved

\* No task that n, leading, has finished.
Fresh(n, t) ==
  n \in node[n].leaders =>
    \A i \in DOMAIN node[n].ledger : node[n].ledger[i].done => node[n].ledger[i].task # t

\* What z's ledger has that s's had not is not of a task that n has finished.
Carries(s, z, n) ==
  \A j \in DOMAIN z.ledger :
    Fresh(n, z.ledger[j].task) \/ \E i \in DOMAIN s.ledger : z.ledger[j] = s.ledger[i]

LEMMA EventEdited ==
  ASSUME NEW S, NEW n \in Node, Types, NEW e, EventInv(e, n, S), Leads(e.s, n),
         NEW z, Edits(e.s, z, S), Carries(e.s, z, n)
  PROVE  EventInv([e EXCEPT !.s = z], n, S) /\ z.leaders = e.s.leaders
<1>1. e \in Events(S) /\ Past(e.s, n) /\ e.s \in States(S)
  BY EventFields DEF EventInv
<1>2. z \in States(S)
  BY DEF Edits
<1>3. /\ z.leaders = e.s.leaders /\ z.leader = e.s.leader /\ z.waiting = e.s.waiting
      /\ z.term = e.s.term /\ z.held = e.s.held
  BY <1>1 DEF Edits, States
<1>4. e.s.version <= z.version /\ (e.s.version = z.version => z.ledger = e.s.ledger)
  BY DEF Edits
<1>5. node[n] \in States(submitted)
  BY DEF Types
<1>6. node[n].version \in Nat /\ e.s.version \in Nat /\ z.version \in Nat
  BY <1>1, <1>2, <1>5, StateFields
<1>7. Grown(node[n], z, n)
  <2>1. Grown(node[n], e.s, n)
    BY <1>1 DEF Past
  <2> QED
    BY <1>3, <1>4, <1>6, <2>1 DEF Grown
<1>8. Kept(node[n], z, n)
  <2>1. Kept(node[n], e.s, n)
    BY <1>1 DEF Past
  <2> SUFFICES ASSUME n \in node[n].leaders,
                      NEW i \in DOMAIN node[n].ledger, node[n].ledger[i].done,
                      NEW j \in DOMAIN z.ledger, z.ledger[j].task = node[n].ledger[i].task
               PROVE  z.ledger[j] = node[n].ledger[i]
    BY DEF Kept
  <2>2. PICK k \in DOMAIN e.s.ledger : z.ledger[j] = e.s.ledger[k]
    BY DEF Fresh, Carries
  <2> QED
    BY <2>1, <2>2 DEF Kept, Leads
<1>9. HeldInPast(z, n)
  BY <1>3 DEF HeldInPast, Leads
<1> QED
  BY <1>2, <1>3, <1>7, <1>8, <1>9, EventMoved DEF Past

LEMMA CompleteTaskKeeps ==
  ASSUME NEW S, NEW n \in Node, Types, NEW e, EventInv(e, n, S), NEW t \in S, NEW by \in Node
  PROVE  /\ EventInv(CompleteTask(e, n, t, by), n, S)
         /\ CompleteTask(e, n, t, by).s.leaders = e.s.leaders
<1>1. CASE ~MayComplete(e.s, n, t)
  BY <1>1 DEF CompleteTask
<1>2. CASE MayComplete(e.s, n, t)
  <2> DEFINE i == IndexOf(e.s, t)
  <2> DEFINE r == [e.s.ledger[i] EXCEPT !.done = TRUE, !.to = by, !.whole = FALSE]
  <2> DEFINE g == [e.s.ledger EXCEPT ![i] = r]
  <2> DEFINE z == Changed([e.s EXCEPT !.ledger = g])
  <2>1. Leads(e.s, n) /\ i \in DOMAIN e.s.ledger /\ e.s.ledger[i].task = t /\ ~e.s.ledger[i].done
    BY <1>2, IndexFacts DEF MayComplete
  <2>2. e \in Events(S) /\ e.s \in States(S) /\ Past(e.s, n) /\ e.s.ledger \in Ledgers(S)
    BY EventFields, StateFields DEF EventInv
  <2>3. e.s.ledger[i] \in Records(S)
    BY <2>1, <2>2, LedgerFacts
  <2>4. r \in Records(S) /\ r.task = t
    BY <2>1, <2>3 DEF Records
  <2>5. /\ g \in Ledgers(S) /\ DOMAIN g = DOMAIN e.s.ledger
        /\ \A j \in DOMAIN e.s.ledger : g[j] = IF j = i THEN r ELSE e.s.ledger[j]
    <3> HIDE DEF i, r
    <3> QED
      BY <2>1, <2>2, <2>4, RecordReplaced
  <2>6. Edits(e.s, z, S) /\ z.ledger = g
    <3> HIDE DEF g
    <3> QED
      BY <2>2, <2>5, EditIs
  <2>7. Fresh(n, t)
    BY <2>1, <2>2 DEF Fresh, Past, Kept, Leads
  <2>8. EventInv([e EXCEPT !.s = z], n, S) /\ z.leaders = e.s.leaders
    <3>1. Carries(e.s, z, n)
      <4> HIDE DEF z, g, r, i
      <4> QED
        BY <2>4, <2>5, <2>6, <2>7 DEF Carries
    <3> HIDE DEF z
    <3> QED
      BY <2>1, <2>6, <3>1, EventEdited
  <2>9. CompleteTask(e, n, t, by) = [e EXCEPT !.s = z, !.reported = @ \cup {t}]
    <3>1. [e.s EXCEPT !.ledger[i] = r] = [e.s EXCEPT !.ledger = g]
      BY <2>2 DEF States
    <3>2. CompleteTask(e, n, t, by) =
            [e EXCEPT !.s = Changed([e.s EXCEPT !.ledger[i] = r]), !.reported = @ \cup {t}]
      BY <1>2 DEF CompleteTask
    <3> HIDE DEF g, i, r
    <3> QED
      BY <3>1, <3>2
  <2> HIDE DEF z
  <2> DEFINE d == [e EXCEPT !.s = z]
  <2> DEFINE c == [e EXCEPT !.s = z, !.reported = @ \cup {t}]
  <2>10. d \in Events(S) /\ d.s = z /\ d.ctrl = e.ctrl /\ Past(d.s, n) /\ OldSyncs(d.ctrl)
    BY <2>2, <2>8 DEF EventInv, Events
  <2>11. c \in Events(S) /\ c.s = z /\ c.ctrl = e.ctrl
    <3>1. e.reported \cup {t} \in SUBSET S
      BY <2>2, EventFields
    <3>2. z \in States(S)
      BY <2>6 DEF Edits
    <3> QED
      BY <2>2, <3>1, <3>2 DEF Events
  <2> HIDE DEF c, d
  <2> QED
    BY <2>8, <2>9, <2>10, <2>11 DEF EventInv, c
<1> QED
  BY <1>1, <1>2

\* One more frame on a link.
LEMMA LinkGrows ==
  ASSUME NEW F, NEW c \in Links(F), NEW n \in Node, NEW q \in Node, NEW f \in F
  PROVE  [c EXCEPT ![n][q] = Append(@, f)] \in Links(F)
<1>1. Append(c[n][q], f) \in Seq(F)
  BY AppendProperties DEF Links
<1> QED
  BY <1>1 DEF Links

LEMMA SentDataKeeps ==
  ASSUME NEW S, NEW n \in Node, NEW e, EventInv(e, n, S),
         NEW q \in Node, NEW f \in DataFrames(S)
  PROVE  EventInv(SentData(e, n, q, f), n, S) /\ SentData(e, n, q, f).s = e.s
<1>1. e \in Events(S) /\ e.data \in Links(DataFrames(S))
  BY EventFields DEF EventInv
<1>2. CASE q \in up
  <2> DEFINE d == [e.data EXCEPT ![n][q] = Append(@, f)]
  <2>1. d \in Links(DataFrames(S))
    BY <1>1, LinkGrows
  <2>2. SentData(e, n, q, f) = [e EXCEPT !.data = d]
    BY <1>1, <1>2 DEF SentData, Events
  <2> HIDE DEF d
  <2>3. [e EXCEPT !.data = d] \in Events(S)
    BY <1>1, <2>1 DEF Events
  <2>4. [e EXCEPT !.data = d].s = e.s /\ [e EXCEPT !.data = d].ctrl = e.ctrl
    BY <1>1 DEF Events
  <2> QED
    BY <2>2, <2>3, <2>4 DEF EventInv
<1>3. CASE q \notin up
  BY <1>3 DEF SentData
<1> QED
  BY <1>2, <1>3

LEMMA SentCtrlKeeps ==
  ASSUME NEW S, NEW n \in Node, NEW e \in Events(S), OldSyncs(e.ctrl),
         NEW q \in Node, NEW f \in Joins \cup Acks
  PROVE  /\ SentCtrl(e, n, q, f) \in Events(S) /\ OldSyncs(SentCtrl(e, n, q, f).ctrl)
         /\ SentCtrl(e, n, q, f).s = e.s
<1>1. e \in Events(S) /\ e.ctrl \in Links(CtrlFrames(S)) /\ OldSyncs(e.ctrl)
  BY EventFields
<1>2. CASE q \in up
  <2> DEFINE d == [e.ctrl EXCEPT ![n][q] = Append(@, f)]
  <2>1. /\ d \in Links(CtrlFrames(S))
        /\ \A a, b \in Node :
             d[a][b] = IF a = n /\ b = q THEN Append(e.ctrl[n][q], f) ELSE e.ctrl[a][b]
    <3>1. f \in CtrlFrames(S)
      BY DEF CtrlFrames
    <3>2. d \in Links(CtrlFrames(S))
      BY <1>1, <3>1, LinkGrows
    <3>3. \A a, b \in Node :
             d[a][b] = IF a = n /\ b = q THEN Append(e.ctrl[n][q], f) ELSE e.ctrl[a][b]
      BY <1>1 DEF Links
    <3> QED
      BY <3>2, <3>3
  <2>2. SentCtrl(e, n, q, f) = [e EXCEPT !.ctrl = d]
    BY <1>1, <1>2 DEF SentCtrl, Events
  <2> HIDE DEF d
  <2>3. OldSyncs(d)
    <3> SUFFICES ASSUME NEW a \in Node, NEW b \in Node, NEW i \in DOMAIN d[a][b],
                        d[a][b][i].type = "sync"
                 PROVE  \E j \in DOMAIN ctrl[a][b] : ctrl[a][b][j] = d[a][b][i]
      BY DEF OldSyncs
    <3>1. CASE a = n /\ b = q
      <4>1. e.ctrl[n][q] \in Seq(CtrlFrames(S))
        BY <1>1 DEF Links
      <4>2. /\ d[a][b] = Append(e.ctrl[n][q], f)
            /\ DOMAIN e.ctrl[n][q] = 1..Len(e.ctrl[n][q]) /\ Len(e.ctrl[n][q]) \in Nat
        BY <2>1, <3>1, <4>1, LenProperties
      <4>3. i \in 1..Len(e.ctrl[n][q]) \/ i = Len(e.ctrl[n][q]) + 1
        BY <4>1, <4>2, AppendProperties, LenProperties
      <4>4. d[a][b][Len(e.ctrl[n][q]) + 1] = f
        BY <4>1, <4>2, AppendProperties
      <4>5. f.type # "sync"
        BY DEF Joins, Acks
      <4>6. i \in DOMAIN e.ctrl[n][q] /\ d[a][b][i] = e.ctrl[n][q][i]
        BY <4>1, <4>2, <4>3, <4>4, <4>5, AppendProperties
      <4> QED
        BY <1>1, <3>1, <4>6 DEF OldSyncs
    <3>2. CASE ~(a = n /\ b = q)
      BY <1>1, <2>1, <3>2 DEF OldSyncs
    <3> QED
      BY <3>1, <3>2
  <2>4. [e EXCEPT !.ctrl = d] \in Events(S)
    BY <1>1, <2>1 DEF Events
  <2>5. [e EXCEPT !.ctrl = d].s = e.s /\ [e EXCEPT !.ctrl = d].ctrl = d
    BY <1>1 DEF Events
  <2> QED
    BY <2>2, <2>3, <2>4, <2>5 DEF EventInv
<1>3. CASE q \notin up
  BY <1>3 DEF SentCtrl
<1> QED
  BY <1>2, <1>3

LEMMA SendResultKeeps ==
  ASSUME NEW S, NEW n \in Node, Types, NEW e, EventInv(e, n, S),
         NEW to \in Node, NEW t \in S, NEW by \in Node
  PROVE  /\ EventInv(SendResult(e, n, to, t, by), n, S)
         /\ SendResult(e, n, to, t, by).s.leaders = e.s.leaders
<1> DEFINE result == [type |-> "result", task |-> t, by |-> by]
<1>1. result \in DataFrames(S)
  BY DEF DataFrames
<1>2. e.s.leader \in Node \cup {None}
  BY EventFields, StateFields DEF EventInv
<1>3. \/ SendResult(e, n, to, t, by) = SentData(e, n, to, result)
      \/ SendResult(e, n, to, t, by) = CompleteTask(e, n, t, by)
      \/ /\ SendResult(e, n, to, t, by) = SentData(e, n, e.s.leader, result)
         /\ e.s.leader \in Node
      \/ SendResult(e, n, to, t, by) = e
  <2>1. CASE Reaches(e.s, to)
    BY <2>1 DEF SendResult
  <2>2. CASE ~Reaches(e.s, to)
    BY <1>2, <2>2 DEF SendResult
  <2> QED
    BY <2>1, <2>2
<1> HIDE DEF result
<1> QED
  BY <1>1, <1>3, SentDataKeeps, CompleteTaskKeeps

LEMMA TaskOutcomeKeeps ==
  ASSUME NEW S, NEW n \in Node, Types, NEW e, EventInv(e, n, S),
         NEW t \in S
  PROVE  \A origin \in Node \cup {None} :
           /\ EventInv(TaskOutcome(e, n, origin, t), n, S)
           /\ TaskOutcome(e, n, origin, t).s.leaders = e.s.leaders
<1> TAKE origin \in Node \cup {None}
<1>1. CASE origin = None
  BY <1>1, CompleteTaskKeeps DEF TaskOutcome
<1>2. CASE origin # None
  <2>1. origin \in Node
    BY <1>2
  <2> QED
    BY <1>2, <2>1, SendResultKeeps DEF TaskOutcome
<1> QED
  BY <1>1, <1>2

LEMMA LaunchKeeps ==
  ASSUME NEW S, NEW n \in Node, Types, NEW e, EventInv(e, n, S),
         NEW p \in Bodies(S), NEW origin \in Node \cup {None}
  PROVE  /\ EventInv(Launch(e, n, p, origin), n, S)
         /\ Launch(e, n, p, origin).s.leaders = e.s.leaders
<1>1. p.task \in S /\ p.whole \in BOOLEAN
  BY DEF Bodies
<1>2. e \in Events(S) /\ e.s \in States(S) /\ e.s.running \in Runs(S)
  BY EventFields, StateFields DEF EventInv
<1>3. CASE Cardinality(e.s.running) >= MaxInflight
  <2>1. Launch(e, n, p, origin) = TaskOutcome(e, n, origin, p.task)
    BY <1>3 DEF Launch
  <2> QED
    <3>1. PICK t \in S : t = p.task
      BY <1>1
    <3>2. /\ EventInv(TaskOutcome(e, n, origin, t), n, S)
          /\ TaskOutcome(e, n, origin, t).s.leaders = e.s.leaders
      BY ONLY TaskOutcomeKeeps, Types, n \in Node, EventInv(e, n, S), <3>1,
              origin \in Node \cup {None}
    <3> QED
      BY <2>1, <3>1, <3>2
<1>4. CASE ~(Cardinality(e.s.running) >= MaxInflight)
  <2> DEFINE r == [task |-> p.task, whole |-> p.whole, origin |-> origin]
  <2> DEFINE z == [e.s EXCEPT !.running = @ \cup {r}]
  <2>1. r \in [task: S, whole: BOOLEAN, origin: Node \cup {None}]
    BY <1>1
  <2>2. e.s.running \cup {r} \in Runs(S)
    <3>1. IsFiniteSet(e.s.running) /\ Cardinality(e.s.running) \in Nat
      BY <1>2, FS_CardinalityType DEF Runs
    <3>2. /\ IsFiniteSet(e.s.running \cup {r})
          /\ Cardinality(e.s.running \cup {r}) =
               IF r \in e.s.running THEN Cardinality(e.s.running) ELSE Cardinality(e.s.running) + 1
      BY <3>1, FS_AddElement
    <3>3. Cardinality(e.s.running \cup {r}) <= MaxInflight
      <4> HIDE DEF r
      <4> QED
        BY <1>4, <3>1, <3>2, TasksAssumption
    <3>4. e.s.running \cup {r} \in SUBSET [task: S, whole: BOOLEAN, origin: Node \cup {None}]
      BY <1>2, <2>1 DEF Runs
    <3> QED
      BY <3>2, <3>3, <3>4 DEF Runs
  <2>3. z \in States(S) /\ SameBooks(e.s, z)
    <3> HIDE DEF r
    <3> QED
      BY <1>2, <2>2 DEF States, SameBooks
  <2>4. Launch(e, n, p, origin) = [e EXCEPT !.s = z]
    BY <1>2, <1>4 DEF Launch, Events, States
  <2> HIDE DEF z
  <2>5. EventInv([e EXCEPT !.s = z], n, S)
    BY <2>3, EventRestated
  <2>6. [e EXCEPT !.s = z].s = z
    BY <1>2 DEF Events
  <2> QED
    BY <2>3, <2>4, <2>5, <2>6 DEF SameBooks
<1> QED
  BY <1>3, <1>4

\* A leader's edit for a task that it has not finished.
LEMMA AssignedKeeps ==
  ASSUME NEW S, NEW n \in Node, Types, NEW e, EventInv(e, n, S), Leads(e.s, n),
         NEW t, Fresh(n, t), NEW w \in Node
  PROVE  /\ EventInv([e EXCEPT !.s = SetAssignee(e.s, t, w)], n, S)
         /\ SetAssignee(e.s, t, w).leaders = e.s.leaders
<1>1. e.s \in States(S)
  BY EventFields DEF EventInv
<1>2. Edits(e.s, SetAssignee(e.s, t, w), S)
  BY <1>1, SetAssigneeIs
<1>3. Carries(e.s, SetAssignee(e.s, t, w), n)
  BY <1>1, SetAssigneeIs DEF Carries
<1> QED
  BY <1>2, <1>3, EventEdited

LEMMA AssignKeeps ==
  ASSUME NEW S, NEW n \in Node, Types, NEW e, EventInv(e, n, S), Leads(e.s, n),
         NEW p \in Bodies(S), Fresh(n, p.task)
  PROVE  EventInv(Assign(e, n, p), n, S) /\ Assign(e, n, p).s.leaders = e.s.leaders
<1> DEFINE size == Cardinality(e.s.attached)
<1> DEFINE at(k) == Nth(e.s.attached, (e.s.next + k) % size)
<1> DEFINE takers == {k \in 0..(size - 1) : Reaches(e.s, at(k))}
<1> DEFINE k == CHOOSE i \in takers : \A j \in takers : i <= j
<1> DEFINE sent == SentData(e, n, at(k), [type |-> "task", task |-> p])
<1> DEFINE turned == [e.s EXCEPT !.next = (@ + k + 1) % size]
<1>1. e \in Events(S) /\ e.s \in States(S) /\ e.s.attached \in SUBSET Node /\ e.s.next \in Nat
  BY EventFields, StateFields DEF EventInv
<1>2. IsFiniteSet(e.s.attached) /\ size \in Nat /\ e.s.attached \in SUBSET Nat
  BY <1>1, TasksAssumption, FS_Subset, FS_CardinalityType
<1>3. CASE takers = {}
  <2> DEFINE d == [e EXCEPT !.s = SetAssignee(e.s, p.task, n)]
  <2>1. EventInv(d, n, S) /\ SetAssignee(e.s, p.task, n).leaders = e.s.leaders
    BY AssignedKeeps
  <2>2. d.s = SetAssignee(e.s, p.task, n)
    BY <1>1 DEF Events
  <2>3. Assign(e, n, p) = Launch(d, n, p, None)
    BY <1>3 DEF Assign
  <2> HIDE DEF d
  <2> QED
    BY <2>1, <2>2, <2>3, LaunchKeeps
<1>4. CASE takers # {}
  <2>1. takers \in SUBSET Nat
    OBVIOUS
  <2>2. k \in takers
    <3>1. PICK i \in takers : \A j \in takers : ~(<<j, i>> \in OpToRel(<, Nat))
      <4> HIDE DEF takers
      <4> QED
        BY <1>4, <2>1, WFMin, NatLessThanWellFounded
    <3>2. \A j \in takers : i <= j
      <4> SUFFICES ASSUME NEW j \in takers
                   PROVE  i <= j
        OBVIOUS
      <4>1. i \in Nat /\ j \in Nat
        BY <2>1, <3>1
      <4>2. ~(j < i)
        BY <3>1, <4>1 DEF OpToRel
      <4> QED
        BY <4>1, <4>2
    <3> HIDE DEF takers
    <3> QED
      BY <3>1, <3>2
  <2>3. k \in Nat /\ size > 0
    <3>1. k \in 0..(size - 1)
      BY <2>2
    <3> HIDE DEF k, size
    <3> QED
      BY <1>2, <3>1
  <2> DEFINE turn == (e.s.next + k) % size
  <2>4. turn \in Nat /\ turn < size /\ (e.s.next + k + 1) % size \in Nat
    <3> HIDE DEF k, size
    <3>1. e.s.next + k \in Nat /\ e.s.next + k + 1 \in Nat
      BY <1>1, <2>3
    <3> QED
      BY <1>2, <2>3, <3>1
  <2>5. at(k) \in Node
    <3>1. Nth(e.s.attached, turn) \in e.s.attached
      <4> HIDE DEF turn
      <4> QED
        BY <1>2, <2>4, NthIsThere
    <3> QED
      BY <1>1, <3>1
  <2>6. [type |-> "task", task |-> p] \in DataFrames(S)
    BY DEF DataFrames
  <2>7. turned \in States(S) /\ SameBooks(e.s, turned)
    <3> HIDE DEF k, size
    <3> QED
      BY <1>1, <2>4 DEF States, SameBooks
  <2>8. Assign(e, n, p) = [sent EXCEPT !.s = SetAssignee(turned, p.task, at(k))]
    BY <1>4 DEF Assign
  <2> HIDE DEF k, size, turned
  <2>9. PICK w \in Node : w = at(k)
    BY <2>5
  <2> HIDE DEF at
  <2>10. EventInv(sent, n, S) /\ sent.s = e.s
    BY <2>6, <2>9, SentDataKeeps
  <2> HIDE DEF sent
  <2> DEFINE d == [sent EXCEPT !.s = turned]
  <2>11. EventInv(d, n, S)
    BY <2>7, <2>10, EventRestated
  <2>12. d.s = turned /\ Leads(turned, n)
    BY <2>7, <2>10 DEF EventInv, Events, SameBooks, Leads
  <2> DEFINE z == SetAssignee(turned, p.task, w)
  <2>13. EventInv([d EXCEPT !.s = z], n, S) /\ z.leaders = turned.leaders
    <3> HIDE DEF d
    <3> QED
      BY <2>11, <2>12, AssignedKeeps
  <2> HIDE DEF z
  <2>14. [d EXCEPT !.s = z] = [sent EXCEPT !.s = z] /\ [sent EXCEPT !.s = z].s = z
    BY <2>10 DEF EventInv, Events
  <2>15. Assign(e, n, p) = [sent EXCEPT !.s = z]
    BY <2>8, <2>9 DEF z
  <2> HIDE DEF d
  <2> QED
    BY <2>7, <2>13, <2>14, <2>15 DEF SameBooks
<1> QED
  BY <1>3, <1>4

\* The recursion of AssignAll has its function.
LEMMA AssignAllIs ==
  ASSUME NEW e, NEW n, NEW payloads, Len(payloads) \in Nat
  PROVE  \E f : /\ AssignAll(e, n, payloads) = f[Len(payloads)] /\ f[0] = e
                /\ \A i \in 1..Len(payloads) : f[i] = Assign(f[i - 1], n, payloads[i])
<1> DEFINE N == Len(payloads)
<1> DEFINE Fits(f, m) ==
      f = [i \in 0..m |-> IF i = 0 THEN e ELSE Assign(f[i - 1], n, payloads[i])]
<1> DEFINE Bad == {m \in Nat : ~\E f : Fits(f, m)}
<1>1. Bad = {}
  <2> SUFFICES ASSUME Bad # {}
               PROVE  FALSE
    OBVIOUS
  <2>1. Bad \in SUBSET Nat
    OBVIOUS
  <2>2. PICK m \in Bad : \A j \in Bad : ~(<<j, m>> \in OpToRel(<, Nat))
    <3> HIDE DEF Bad
    <3> QED
      BY <2>1, WFMin, NatLessThanWellFounded
  <2>3. m \in Nat /\ ~\E f : Fits(f, m)
    OBVIOUS
  <2>4. CASE m = 0
    <3>1. Fits([i \in 0..0 |-> e], 0)
      OBVIOUS
    <3> QED
      BY <2>3, <2>4, <3>1
  <2>5. CASE m # 0
    <3>1. m - 1 \in Nat /\ m - 1 < m
      BY <2>3, <2>5
    <3>2. m - 1 \notin Bad
      BY <2>2, <2>3, <3>1 DEF OpToRel
    <3>3. PICK f : Fits(f, m - 1)
      BY <3>1, <3>2
    <3> DEFINE g == [i \in 0..m |-> IF i = m THEN Assign(f[m - 1], n, payloads[m]) ELSE f[i]]
    <3>4. ASSUME NEW i \in 0..m
          PROVE  g[i] = IF i = 0 THEN e ELSE Assign(g[i - 1], n, payloads[i])
      <4>1. i = 0 => f[i] = e /\ i # m
        BY <2>5, <3>1, <3>3
      <4>2. i # 0 => i - 1 \in 0..m /\ i - 1 # m
        BY <2>3
      <4>3. i # 0 /\ i # m => i \in 0..(m - 1)
        BY <2>3
      <4>4. i # 0 /\ i # m => f[i] = Assign(f[i - 1], n, payloads[i])
        BY <3>3, <4>3
      <4> HIDE DEF Fits
      <4> QED
        BY <4>1, <4>2, <4>4
    <3>5. Fits(g, m)
      BY <3>4
    <3> QED
      BY <2>3, <3>5
  <2> QED
    BY <2>4, <2>5
<1> DEFINE f == CHOOSE f : Fits(f, N)
<1>2. Fits(f, N)
  <2>1. \E g : Fits(g, N)
    BY <1>1
  <2> HIDE DEF Fits
  <2> QED
    BY <2>1
<1>3. AssignAll(e, n, payloads) = f[N]
  BY DEF AssignAll
<1> HIDE DEF f
<1>4. f[0] = e
  BY <1>2
<1>5. \A i \in 1..N : f[i] = Assign(f[i - 1], n, payloads[i])
  BY <1>2
<1> QED
  BY <1>3, <1>4, <1>5

LEMMA AssignAllKeeps ==
  ASSUME NEW S, NEW n \in Node, Types, NEW e, EventInv(e, n, S), Leads(e.s, n),
         NEW payloads \in Seq(Bodies(S)),
         \A i \in 1..Len(payloads) : Fresh(n, payloads[i].task)
  PROVE  /\ EventInv(AssignAll(e, n, payloads), n, S)
         /\ AssignAll(e, n, payloads).s.leaders = e.s.leaders
<1>1. Len(payloads) \in Nat /\ \A i \in 1..Len(payloads) : payloads[i] \in Bodies(S)
  BY ElementOfSeq, LenProperties
<1>2. PICK f : /\ AssignAll(e, n, payloads) = f[Len(payloads)] /\ f[0] = e
               /\ \A i \in 1..Len(payloads) : f[i] = Assign(f[i - 1], n, payloads[i])
  <2>1. Len(payloads) \in Nat
    BY <1>1
  <2> QED
    BY ONLY <2>1, AssignAllIs
<1> DEFINE Good(i) == EventInv(f[i], n, S) /\ f[i].s.leaders = e.s.leaders
<1> DEFINE Bad == {i \in 0..Len(payloads) : ~Good(i)}
<1>3. Bad = {}
  <2> SUFFICES ASSUME Bad # {}
               PROVE  FALSE
    OBVIOUS
  <2>1. Bad \in SUBSET Nat
    BY <1>1
  <2>2. PICK m \in Bad : \A j \in Bad : ~(<<j, m>> \in OpToRel(<, Nat))
    <3> HIDE DEF Bad
    <3> QED
      BY <2>1, WFMin, NatLessThanWellFounded
  <2>3. m \in 0..Len(payloads) /\ ~Good(m)
    OBVIOUS
  <2>4. m # 0
    BY <1>2, <2>3
  <2>5. m \in 1..Len(payloads) /\ m - 1 \in 0..Len(payloads) /\ m - 1 < m
    BY <1>1, <2>3, <2>4
  <2>6. Good(m - 1)
    <3>1. m - 1 \notin Bad
      <4>1. m - 1 \in Nat /\ m \in Nat
        BY <1>1, <2>5
      <4> HIDE DEF Bad
      <4> QED
        BY <2>2, <2>5, <4>1 DEF OpToRel
    <3> QED
      BY <2>5, <3>1
  <2>7. f[m] = Assign(f[m - 1], n, payloads[m])
    BY <1>2, <2>5
  <2>8. PICK d : d = f[m - 1]
    OBVIOUS
  <2>9. EventInv(d, n, S) /\ Leads(d.s, n) /\ d.s.leaders = e.s.leaders
    BY <2>6, <2>8 DEF Leads
  <2>10. payloads[m] \in Bodies(S) /\ Fresh(n, payloads[m].task)
    BY <1>1, <2>5
  <2>11. /\ EventInv(Assign(d, n, payloads[m]), n, S)
         /\ Assign(d, n, payloads[m]).s.leaders = d.s.leaders
    BY <2>9, <2>10, AssignKeeps
  <2>12. Good(m)
    BY <2>7, <2>8, <2>9, <2>11
  <2> QED
    BY <2>3, <2>12
<1>4. Good(Len(payloads))
  BY <1>1, <1>3
<1> QED
  BY <1>2, <1>4

\* What was pending when the event began is not finished.
LEMMA PendingFresh ==
  ASSUME NEW S, NEW n \in Node, NEW s \in States(S), s.ledger = node[n].ledger, NEW A
  PROVE  /\ PendingTasks(s, A) \in Seq(Bodies(S))
         /\ \A i \in 1..Len(PendingTasks(s, A)) : Fresh(n, PendingTasks(s, A)[i].task)
<1>1. s.ledger \in Ledgers(S)
  BY StateFields
<1>2. s.ledger \in Seq(Records(S))
  BY <1>1, LedgerFacts
<1>3. PendingTasks(s, A) \in Seq(Bodies(S))
  BY <1>2, PendingFacts
<1>4. ASSUME NEW i \in 1..Len(PendingTasks(s, A))
      PROVE  Fresh(n, PendingTasks(s, A)[i].task)
  <2>1. PICK j \in DOMAIN s.ledger :
               s.ledger[j].task = PendingTasks(s, A)[i].task /\ ~s.ledger[j].done
    BY <1>2, PendingFacts
  <2>2. \A k \in DOMAIN s.ledger : s.ledger[k].task = s.ledger[j].task => k = j
    BY <1>1, LedgerFacts
  <2> QED
    BY <2>1, <2>2 DEF Fresh
<1> QED
  BY <1>3, <1>4

LEMMA LeadTaskKeeps ==
  ASSUME NEW S, NEW n \in Node, Types, NEW e, EventInv(e, n, S), Leads(e.s, n),
         e.s.ledger = node[n].ledger, NEW p \in Bodies(S)
  PROVE  EventInv(LeadTask(e, n, p), n, S)
<1>1. CASE Holds(e.s, p.task)
  BY <1>1 DEF LeadTask
<1>2. CASE ~Holds(e.s, p.task)
  <2> DEFINE r == [task |-> p.task, done |-> FALSE, to |-> None,
                   whole |-> p.whole /\ p.task \notin Large]
  <2> DEFINE z == LedgerAppend(e.s, r)
  <2>1. r \in Records(S) /\ r.task = p.task
    BY DEF Records, Bodies
  <2>2. e \in Events(S) /\ e.s \in States(S)
    BY EventFields DEF EventInv
  <2>3. LeadTask(e, n, p) = Assign([e EXCEPT !.s = z], n, p)
    BY <1>2 DEF LeadTask
  <2>4. Fresh(n, p.task)
    BY <1>2 DEF Fresh, Holds
  <2> HIDE DEF r
  <2>5. Edits(e.s, z, S) /\ Carries(e.s, z, n)
    <3>1. ~Holds(e.s, r.task)
      BY <1>2, <2>1
    <3> QED
      BY <2>1, <2>2, <2>4, <3>1, LedgerAppendIs DEF Carries
  <2> HIDE DEF z
  <2>6. EventInv([e EXCEPT !.s = z], n, S) /\ z.leaders = e.s.leaders
    BY <2>5, EventEdited
  <2>7. [e EXCEPT !.s = z].s = z
    BY <2>2 DEF Events
  <2>8. Leads([e EXCEPT !.s = z].s, n)
    BY <2>6, <2>7 DEF Leads
  <2>9. EventInv(Assign([e EXCEPT !.s = z], n, p), n, S)
    <3> DEFINE d == [e EXCEPT !.s = z]
    <3>1. EventInv(d, n, S) /\ Leads(d.s, n)
      BY <2>6, <2>8
    <3> HIDE DEF d
    <3>2. EventInv(Assign(d, n, p), n, S)
      BY <2>4, <3>1, AssignKeeps
    <3> QED
      BY <3>2 DEF d
  <2> QED
    BY <2>3, <2>9
<1> QED
  BY <1>1, <1>2

LEMMA HandleTaskKeeps ==
  ASSUME NEW S, NEW n \in Node, Types, NEW e, EventInv(e, n, S),
         e.s.ledger = node[n].ledger, NEW from \in Node, NEW p \in Bodies(S)
  PROVE  EventInv(HandleTask(e, n, from, p), n, S)
<1>1. \/ HandleTask(e, n, from, p) = Launch(e, n, p, from)
      \/ Leads(e.s, n) /\ HandleTask(e, n, from, p) = LeadTask(e, n, p)
      \/ HandleTask(e, n, from, p) = e
  <2>1. CASE from = e.s.leader /\ ~Leads(e.s, n)
    BY <2>1 DEF HandleTask
  <2>2. CASE Leads(e.s, n) /\ from \in e.s.attached
    BY <2>2 DEF HandleTask
  <2>3. CASE ~(from = e.s.leader /\ ~Leads(e.s, n)) /\ ~(Leads(e.s, n) /\ from \in e.s.attached)
    <3>1. HandleTask(e, n, from, p) = IF from \in e.s.leaders THEN Launch(e, n, p, from)
                                      ELSE IF Leads(e.s, n) THEN LeadTask(e, n, p) ELSE e
      BY <2>3 DEF HandleTask
    <3> QED
      BY <3>1
  <2> QED
    BY <2>1, <2>2, <2>3
<1> QED
  BY <1>1, LaunchKeeps, LeadTaskKeeps

-----------------------------------------------------------------------------
\* A change of role or of leader.

\* z differs from s in the leader it follows, and in what no key depends on.
Reroled(s, z, S) ==
  /\ z \in States(S)
  /\ z.leaders = s.leaders /\ z.waiting = s.waiting /\ z.term = s.term /\ z.ledger = s.ledger
  /\ z.version = s.version /\ z.heldTerm = s.heldTerm

LEMMA PendingIs ==
  ASSUME NEW S, NEW s \in States(S), NEW A
  PROVE  PendingTasks(s, A) \in Seq(Bodies(S))
<1>1. s.ledger \in Seq(Records(S))
  BY StateFields, LedgerFacts
<1> QED
  BY <1>1, PendingFacts

LEMMA LeadingIs ==
  ASSUME NEW S, NEW n \in Node, NEW s \in States(S)
  PROVE  Reroled(s, Leading(s, n), S) /\ Leading(s, n).held = s.held
BY DEF Leading, Reroled, States

LEMMA AdoptOrphansIs ==
  ASSUME NEW S, NEW s \in States(S)
  PROVE  /\ Reroled(s, AdoptOrphans(s), S) /\ AdoptOrphans(s).held = s.held
         /\ AdoptOrphans(s).leader = s.leader
<1>1. CASE s.held
  <2>1. AdoptOrphans(s) = [s EXCEPT !.handoff = PendingTasks(s, Anyone)]
    BY <1>1 DEF AdoptOrphans
  <2>2. PICK h \in Seq(Bodies(S)) : h = PendingTasks(s, Anyone)
    BY PendingIs
  <2> QED
    BY <2>1, <2>2 DEF Reroled, States
<1>2. CASE ~s.held
  BY <1>2 DEF AdoptOrphans, Reroled
<1> QED
  BY <1>1, <1>2

LEMMA FollowingIs ==
  ASSUME NEW S, NEW s \in States(S), NEW usable
  PROVE  /\ Reroled(s, Following(s, usable), S) /\ Following(s, usable).held = s.held
         /\ Following(s, usable).leader \in {s.leader, None}
<1> DEFINE left == IF s.leader \in s.doubted \cup s.dead THEN AdoptOrphans(s) ELSE s
<1>1. Reroled(s, left, S) /\ left.held = s.held /\ left.leader = s.leader
  BY AdoptOrphansIs DEF Reroled
<1>2. Following(s, usable) = IF s.leader # None /\ s.leader \notin usable
                             THEN [left EXCEPT !.attached = {}, !.leader = None]
                             ELSE [s EXCEPT !.attached = {}]
  BY DEF Following
<1> HIDE DEF left
<1>3. CASE s.leader # None /\ s.leader \notin usable
  BY <1>1, <1>2, <1>3 DEF Reroled, States
<1>4. CASE ~(s.leader # None /\ s.leader \notin usable)
  BY <1>2, <1>4 DEF Reroled, States
<1> QED
  BY <1>3, <1>4

LEMMA RoleChangedIs ==
  ASSUME NEW S, NEW n \in Node, NEW s \in States(S), NEW led \in BOOLEAN
  PROVE  /\ Reroled(s, RoleChanged(s, n, led), S)
         /\ RoleChanged(s, n, led).leader = s.leader
         /\ RoleChanged(s, n, led).held => s.held /\ led = Leads(s, n)
<1>1. CASE led = Leads(s, n)
  BY <1>1 DEF RoleChanged, Reroled
<1>2. CASE led # Leads(s, n)
  <2> DEFINE z == [s EXCEPT !.held = FALSE]
  <2>1. z \in States(S) /\ Reroled(s, z, S) /\ ~z.held /\ z.leader = s.leader
    BY DEF Reroled, States
  <2>2. RoleChanged(s, n, led) =
          [z EXCEPT !.reissueDue = Leads(s, n),
                    !.handoff = IF Leads(s, n) THEN << >> ELSE PendingTasks(z, Anyone)]
    BY <1>2 DEF RoleChanged, TasksRoleChanged
  <2> HIDE DEF z
  <2>3. PICK h \in Seq(Bodies(S)) : h = IF Leads(s, n) THEN << >> ELSE PendingTasks(z, Anyone)
    <3>1. PendingTasks(z, Anyone) \in Seq(Bodies(S)) /\ << >> \in Seq(Bodies(S))
      BY <2>1, PendingIs, EmptySeq
    <3> QED
      BY <3>1
  <2>4. Leads(s, n) \in BOOLEAN
    BY DEF Leads
  <2> QED
    BY <2>1, <2>2, <2>3, <2>4 DEF Reroled, States
<1> QED
  BY <1>1, <1>2

LEMMA OutdatedKeeps ==
  ASSUME NEW S, NEW n \in Node, NEW c \in Links(CtrlFrames(S)), OldSyncs(c)
  PROVE  Outdated(c, n) \in Links(CtrlFrames(S)) /\ OldSyncs(Outdated(c, n))
<1> DEFINE Stale(f, p, q) == (p = n /\ f.type = "join") \/ (q = n /\ f.type = "ack")
<1> DEFINE Now(f, p, q) == IF Stale(f, p, q) THEN [f EXCEPT !.current = FALSE] ELSE f
<1> DEFINE d == Outdated(c, n)
<1>1. ASSUME NEW p \in Node, NEW q \in Node
      PROVE  /\ d[p][q] \in Seq(CtrlFrames(S)) /\ DOMAIN d[p][q] = DOMAIN c[p][q]
             /\ \A i \in DOMAIN c[p][q] : d[p][q][i].type = "sync" => d[p][q][i] = c[p][q][i]
  <2>1. c[p][q] \in Seq(CtrlFrames(S))
    BY DEF Links
  <2>2. CASE n \notin {p, q}
    <3>1. d[p][q] = c[p][q]
      BY <2>2 DEF Outdated
    <3> QED
      BY <2>1, <3>1
  <2>3. CASE n \in {p, q}
    <3>1. d[p][q] = [i \in DOMAIN c[p][q] |-> Now(c[p][q][i], p, q)]
      BY <2>3 DEF Outdated
    <3>2. /\ DOMAIN c[p][q] = 1..Len(c[p][q]) /\ Len(c[p][q]) \in Nat
          /\ \A i \in DOMAIN c[p][q] : c[p][q][i] \in CtrlFrames(S)
      BY <2>1, ElementOfSeq, LenProperties
    <3>3. ASSUME NEW f \in CtrlFrames(S)
          PROVE  Now(f, p, q) \in CtrlFrames(S) /\ (Now(f, p, q).type = "sync" => Now(f, p, q) = f)
      <4>1. CASE f \in Joins
        BY <4>1 DEF CtrlFrames, Joins
      <4>2. CASE f \in Acks
        BY <4>2 DEF CtrlFrames, Acks
      <4>3. CASE f \in Syncs(S)
        <5>1. Now(f, p, q) = f
          BY <4>3 DEF Syncs
        <5> QED
          BY <5>1
      <4> QED
        BY <4>1, <4>2, <4>3 DEF CtrlFrames
    <3> HIDE DEF Now, d
    <3>4. d[p][q] \in Seq(CtrlFrames(S))
      <4>1. \A i \in 1..Len(c[p][q]) : Now(c[p][q][i], p, q) \in CtrlFrames(S)
        BY <3>2, <3>3
      <4>2. d[p][q] = [i \in 1..Len(c[p][q]) |-> Now(c[p][q][i], p, q)]
        BY <3>1, <3>2
      <4> QED
        BY <3>2, <4>1, <4>2, IsASeq
    <3> QED
      BY <3>1, <3>2, <3>3, <3>4
  <2> QED
    BY <2>2, <2>3
<1>2. d \in Links(CtrlFrames(S))
  <2>1. d = [p \in Node |-> [q \in Node |-> d[p][q]]]
    BY DEF Outdated
  <2> HIDE DEF d
  <2> QED
    BY <1>1, <2>1 DEF Links
<1>3. OldSyncs(d)
  <2> HIDE DEF d
  <2> SUFFICES ASSUME NEW p \in Node, NEW q \in Node, NEW i \in DOMAIN d[p][q],
                      d[p][q][i].type = "sync"
               PROVE  \E j \in DOMAIN ctrl[p][q] : ctrl[p][q][j] = d[p][q][i]
    BY DEF OldSyncs
  <2>1. i \in DOMAIN c[p][q] /\ d[p][q][i] = c[p][q][i]
    BY <1>1
  <2> QED
    BY <2>1 DEF OldSyncs
<1> QED
  BY <1>2, <1>3

Joining(s, l) == [s EXCEPT !.leader = l, !.waiting = TRUE]

LEMMA JoinKeeps ==
  ASSUME NEW S, NEW n \in Node, NEW e \in Events(S), OldSyncs(e.ctrl), NEW l \in Node
  PROVE  /\ Join(e, n, l) \in Events(S) /\ OldSyncs(Join(e, n, l).ctrl)
         /\ Join(e, n, l).s = Joining(e.s, l)
<1> DEFINE z == [e.s EXCEPT !.leader = l, !.waiting = TRUE]
<1> DEFINE d == [e EXCEPT !.s.leader = l, !.s.waiting = TRUE, !.ctrl = Outdated(@, n)]
<1>1. e.ctrl \in Links(CtrlFrames(S)) /\ e.s \in States(S)
  BY EventFields
<1>2. Outdated(e.ctrl, n) \in Links(CtrlFrames(S)) /\ OldSyncs(Outdated(e.ctrl, n))
  BY <1>1, OutdatedKeeps
<1>3. z \in States(S)
  BY <1>1 DEF States
<1>4. d \in Events(S) /\ d.s = z /\ d.ctrl = Outdated(e.ctrl, n)
  <2>1. d = [e EXCEPT !.s = z, !.ctrl = Outdated(@, n)]
    BY <1>1 DEF Events, States
  <2> QED
    BY <1>2, <1>3, <2>1 DEF Events
<1> DEFINE f == [type |-> "join", current |-> TRUE]
<1>5. f \in Joins \cup Acks
  BY DEF Joins
<1>6. Join(e, n, l) = SentCtrl(d, n, l, f)
  BY DEF Join
<1> HIDE DEF d, f
<1>7. /\ SentCtrl(d, n, l, f) \in Events(S) /\ OldSyncs(SentCtrl(d, n, l, f).ctrl)
      /\ SentCtrl(d, n, l, f).s = d.s
  BY <1>2, <1>4, <1>5, SentCtrlKeeps
<1> QED
  BY <1>4, <1>6, <1>7 DEF Joining

\* An event that ends in an evaluate, and has not changed the role before.
LEMMA EvaluateKeeps ==
  ASSUME NEW S, NEW n \in Node, Types, NEW e, EventInv(e, n, S),
         e.s.leaders = node[n].leaders,
         NEW leaders \in SUBSET Node, NEW best \in Node \cup {None}
  PROVE  EventInv(Evaluate(e, n, leaders, best), n, S)
<1> DEFINE s == e.s
<1> DEFINE led == Leads(s, n)
<1> DEFINE new == [s EXCEPT !.leaders = leaders,
                            !.term = IF leaders = s.leaders THEN @ ELSE @ + 1]
<1> DEFINE acted == IF n \in leaders THEN Leading(new, n) ELSE Following(new, Usable(new, leaders))
<1> DEFINE role == [e EXCEPT !.s = acted]
<1> DEFINE to == IF best = None THEN role ELSE Join(role, n, best)
<1> DEFINE z == RoleChanged(to.s, n, led)
<1>1. e \in Events(S) /\ s \in States(S) /\ Past(s, n) /\ OldSyncs(e.ctrl)
  BY EventFields DEF EventInv
<1>2. led \in BOOLEAN
  BY DEF Leads
<1>3. /\ new \in States(S) /\ new.leaders = leaders
      /\ new.term = (IF leaders = s.leaders THEN s.term ELSE s.term + 1)
      /\ new.leader = s.leader /\ new.waiting = s.waiting /\ new.ledger = s.ledger
      /\ new.version = s.version /\ new.held = s.held /\ new.heldTerm = s.heldTerm
  <2>1. s.term \in Nat /\ s.term + 1 \in Nat
    BY <1>1, StateFields
  <2> QED
    BY <1>1, <2>1 DEF States
<1>4. Evaluate(e, n, leaders, best) = [to EXCEPT !.s = z]
  BY DEF Evaluate
<1> HIDE DEF new
<1>5. /\ Reroled(new, acted, S) /\ acted.held = new.held
      /\ n \notin leaders => acted.leader \in {new.leader, None}
  <2>1. CASE n \in leaders
    BY <1>3, <2>1, LeadingIs
  <2>2. CASE n \notin leaders
    <3>1. acted = Following(new, Usable(new, leaders))
      BY <2>2
    <3>2. PICK usable : usable = Usable(new, leaders)
      OBVIOUS
    <3> HIDE DEF acted
    <3> QED
      BY <1>3, <3>1, <3>2, FollowingIs
  <2> QED
    BY <2>1, <2>2
<1> HIDE DEF acted
<1>6. acted \in States(S)
  BY <1>5 DEF Reroled
<1>7. /\ to \in Events(S) /\ OldSyncs(to.ctrl)
      /\ Reroled(acted, [to.s EXCEPT !.waiting = acted.waiting], S)
      /\ to.s.held = acted.held
      /\ ~to.s.waiting => ~acted.waiting /\ to.s.leader = acted.leader
  <2>1. role \in Events(S) /\ role.s = acted /\ role.ctrl = e.ctrl
    BY <1>1, <1>6 DEF Events
  <2>2. CASE best = None
    <3>1. to = role
      BY <2>2
    <3>2. [acted EXCEPT !.waiting = acted.waiting] = acted
      BY <1>6 DEF States
    <3> HIDE DEF to, role
    <3> QED
      BY <1>1, <1>6, <2>1, <3>1, <3>2 DEF Reroled
  <2>3. CASE best # None
    <3> DEFINE y == [acted EXCEPT !.leader = best, !.waiting = TRUE]
    <3>1. best \in Node
      BY <2>3
    <3>2. y.waiting /\ y.held = acted.held /\ Reroled(acted, [y EXCEPT !.waiting = acted.waiting], S)
      BY <1>6, <3>1 DEF States, Reroled
    <3>3. to = Join(role, n, best)
      BY <2>3
    <3> HIDE DEF role, to
    <3>4. OldSyncs(role.ctrl)
      BY <1>1, <2>1
    <3>5. /\ Join(role, n, best) \in Events(S) /\ OldSyncs(Join(role, n, best).ctrl)
          /\ Join(role, n, best).s = Joining(role.s, best)
      BY <2>1, <3>1, <3>4, JoinKeeps
    <3>6. to \in Events(S) /\ OldSyncs(to.ctrl) /\ to.s = y
      BY <2>1, <3>3, <3>5 DEF Joining
    <3> HIDE DEF y
    <3> QED
      BY <3>2, <3>6
  <2> QED
    BY <2>2, <2>3
<1> HIDE DEF to
<1>8. to.s \in States(S)
  BY <1>7, EventFields
<1>9. /\ Reroled(to.s, z, S) /\ z.leader = to.s.leader
      /\ z.held => to.s.held /\ led = Leads(to.s, n)
  BY <1>2, <1>8, RoleChangedIs
<1>10. /\ z.leaders = leaders /\ z.term = new.term /\ z.ledger = s.ledger
       /\ z.version = s.version /\ z.heldTerm = s.heldTerm /\ z.waiting = to.s.waiting
       /\ to.s.leaders = leaders
  BY <1>3, <1>5, <1>7, <1>8, <1>9 DEF Reroled, States
<1> HIDE DEF z
<1>11. Grown(node[n], z, n)
  <2>1. Grown(node[n], s, n)
    BY <1>1 DEF Past
  <2>2. z.term = IF leaders = s.leaders THEN s.term ELSE s.term + 1
    BY <1>3, <1>10
  <2>3. node[n] \in States(submitted)
    BY DEF Types
  <2>4. node[n].term \in Nat /\ s.term \in Nat
    BY <1>1, <2>3, StateFields
  <2> HIDE DEF s
  <2> QED
    BY <1>10, <2>1, <2>2, <2>4 DEF Grown
<1>12. Kept(node[n], z, n)
  <2>1. Kept(node[n], s, n)
    BY <1>1 DEF Past
  <2> QED
    BY <1>10, <2>1 DEF Kept
<1>13. HeldInPast(z, n)
  <2> SUFFICES ASSUME NEW l \in up \ {n}, z.held, z.leader = l, ~z.waiting, n \notin z.leaders
               PROVE  Behind(z.heldTerm, z.version, z.ledger, node[l], l)
    BY DEF HeldInPast
  <2>1. l \in Node /\ l # None
    BY TasksAssumption DEF Types
  <2>2. to.s.held /\ led = Leads(to.s, n) /\ ~to.s.waiting /\ to.s.leader = l /\ n \notin leaders
    BY <1>9, <1>10
  <2>3. acted.held /\ ~acted.waiting /\ acted.leader = l
    BY <1>7, <2>2
  <2>4. n \notin s.leaders
    BY <1>10, <2>2 DEF Leads
  <2>5. s.leader = l /\ s.held /\ ~s.waiting
    BY <1>3, <1>5, <2>1, <2>2, <2>3 DEF Reroled
  <2>6. Behind(s.heldTerm, s.version, s.ledger, node[l], l)
    BY <1>1, <2>4, <2>5 DEF Past, HeldInPast
  <2> QED
    BY <1>10, <2>6
<1>14. z \in States(S)
  BY <1>9 DEF Reroled
<1>15. /\ [to EXCEPT !.s = z] \in Events(S) /\ [to EXCEPT !.s = z].s = z
       /\ [to EXCEPT !.s = z].ctrl = to.ctrl
  BY <1>7, <1>14 DEF Events
<1> QED
  BY <1>4, <1>7, <1>11, <1>12, <1>13, <1>15 DEF EventInv, Past

-----------------------------------------------------------------------------
\* The end of an event.

\* What l sent is of its past still when l has gone on.
LEMMA BehindGrows ==
  ASSUME NEW t \in Nat, NEW v \in Nat, NEW g, NEW l, NEW A, NEW B,
         NEW a \in States(A), NEW b \in States(B), Behind(t, v, g, a, l), Grown(a, b, l)
  PROVE  Behind(t, v, g, b, l)
<1>1. a.term \in Nat /\ b.term \in Nat /\ a.version \in Nat /\ b.version \in Nat
  BY StateFields
<1>2. t <= b.term
  BY <1>1 DEF Behind, Grown
<1>3. ASSUME l \in b.leaders, t = b.term
      PROVE  v <= b.version /\ (v = b.version => g = b.ledger)
  <2>1. t = a.term /\ a.term = b.term
    BY <1>1, <1>3 DEF Behind, Grown
  <2>2. /\ l \in a.leaders /\ a.version <= b.version
        /\ a.version = b.version => a.ledger = b.ledger
    BY <1>3, <2>1 DEF Grown
  <2>3. v <= a.version /\ (v = a.version => g = a.ledger)
    BY <2>1, <2>2 DEF Behind
  <2> QED
    BY <1>1, <2>2, <2>3
<1> QED
  BY <1>2, <1>3 DEF Behind

\* More tasks, more of everything.
LEMMA LedgersGrow ==
  ASSUME NEW S, NEW T, S \subseteq T
  PROVE  /\ Bodies(S) \subseteq Bodies(T) /\ Records(S) \subseteq Records(T)
         /\ Ledgers(S) \subseteq Ledgers(T) /\ Runs(S) \subseteq Runs(T)
<1>1. Bodies(S) \subseteq Bodies(T) /\ Records(S) \subseteq Records(T)
  BY DEF Bodies, Records
<1>2. Ledgers(S) \subseteq Ledgers(T)
  BY <1>1, SeqMonotonic DEF Ledgers
<1>3. Runs(S) \subseteq Runs(T)
  BY DEF Runs
<1> QED
  BY <1>1, <1>2, <1>3

LEMMA StatesGrow ==
  ASSUME NEW S, NEW T, S \subseteq T
  PROVE  States(S) \subseteq States(T)
<1>1. Seq(Bodies(S)) \subseteq Seq(Bodies(T))
  BY LedgersGrow, SeqMonotonic
<1> QED
  BY <1>1, LedgersGrow DEF States

LEMMA LinksGrow ==
  ASSUME NEW S, NEW T, S \subseteq T
  PROVE  /\ Links(CtrlFrames(S)) \subseteq Links(CtrlFrames(T))
         /\ Links(DataFrames(S)) \subseteq Links(DataFrames(T))
<1>1. CtrlFrames(S) \subseteq CtrlFrames(T)
  BY LedgersGrow DEF CtrlFrames, Syncs
<1>2. DataFrames(S) \subseteq DataFrames(T)
  BY LedgersGrow DEF DataFrames
<1>3. Seq(CtrlFrames(S)) \subseteq Seq(CtrlFrames(T)) /\ Seq(DataFrames(S)) \subseteq Seq(DataFrames(T))
  BY <1>1, <1>2, SeqMonotonic
<1> QED
  BY <1>3 DEF Links

\* A frame on a link.
LEMMA FrameIs ==
  ASSUME NEW S, NEW c \in Links(CtrlFrames(S)), NEW p \in Node, NEW q \in Node,
         NEW i \in DOMAIN c[p][q]
  PROVE  /\ c[p][q][i] \in CtrlFrames(S)
         /\ c[p][q][i].type = "sync" =>
              c[p][q][i].term \in Nat /\ c[p][q][i].version \in Nat /\ c[p][q][i] \in Syncs(S)
<1>1. c[p][q] \in Seq(CtrlFrames(S))
  BY DEF Links
<1>2. c[p][q][i] \in CtrlFrames(S)
  BY <1>1, ElementOfSeq, LenProperties
<1> QED
  BY <1>2 DEF CtrlFrames, Joins, Acks, Syncs

\* The snapshots on these links were there, or are of what their senders hold now.
NewSyncs(c, now) ==
  \A p, q \in Node : \A i \in DOMAIN c[p][q] :
    c[p][q][i].type = "sync" =>
      c[p][q][i] = Snapshot(now[p]) \/ \E j \in DOMAIN ctrl[p][q] : ctrl[p][q][j] = c[p][q][i]

\* A step of nodes that have each gone on.
LEMMA KeysStep ==
  ASSUME NEW S, TasksInv, node' \in [Node -> States(S)], up' \subseteq up,
         \A m \in up' : Grown(node[m], node'[m], m),
         \A m \in Node : HeldInPast(node'[m], m),
         NewSyncs(ctrl', node')
  PROVE  Keys'
<1>1. PICK now \in [Node -> States(S)] : now = node'
  OBVIOUS
<1>2. /\ node \in [Node -> States(submitted)] /\ ctrl \in Links(CtrlFrames(submitted))
      /\ up' \subseteq Node
  BY DEF TasksInv, Types
<1>3. ASSUME NEW l \in up', NEW t \in Nat, NEW v \in Nat, NEW g, Behind(t, v, g, node[l], l)
      PROVE  Behind(t, v, g, now[l], l)
  <2>1. node[l] \in States(submitted) /\ now[l] \in States(S) /\ Grown(node[l], now[l], l)
    BY <1>1, <1>2
  <2> QED
    BY <1>3, <2>1, BehindGrows
<1>4. ASSUME NEW l \in up'
      PROVE  SentInPast(l)'
  <2> SUFFICES ASSUME NEW q \in Node, NEW i \in DOMAIN ctrl'[l][q],
                      ctrl'[l][q][i].type = "sync"
               PROVE  Behind(ctrl'[l][q][i].term, ctrl'[l][q][i].version, ctrl'[l][q][i].ledger,
                             now[l], l)
    BY <1>1 DEF SentInPast
  <2>1. l \in Node /\ l \in up
    BY <1>2
  <2>2. CASE ctrl'[l][q][i] = Snapshot(now[l])
    <3>1. now[l] \in States(S)
      BY <2>1
    <3>2. now[l].term \in Nat /\ now[l].version \in Nat
      BY <3>1, StateFields
    <3> QED
      BY <2>2, <3>2 DEF Behind, Snapshot
  <2>3. CASE \E j \in DOMAIN ctrl[l][q] : ctrl[l][q][j] = ctrl'[l][q][i]
    <3>1. PICK j \in DOMAIN ctrl[l][q] : ctrl[l][q][j] = ctrl'[l][q][i]
      BY <2>3
    <3>2. PICK f : f = ctrl[l][q][j]
      OBVIOUS
    <3>3. f.type = "sync" /\ f.term \in Nat /\ f.version \in Nat
      BY <1>2, <2>1, <3>1, <3>2, FrameIs
    <3>4. Behind(f.term, f.version, f.ledger, node[l], l)
      BY <2>1, <3>2, <3>3 DEF TasksInv, Keys, SentInPast
    <3>5. Behind(f.term, f.version, f.ledger, now[l], l)
      BY <1>3, <3>3, <3>4
    <3> QED
      BY <3>1, <3>2, <3>5
  <2> QED
    BY <1>1, <2>1, <2>2, <2>3 DEF NewSyncs
<1>5. ASSUME NEW w \in Node
      PROVE  HeldInPast(now[w], w)'
  <2>1. now[w] \in States(S) /\ HeldInPast(now[w], w)
    BY <1>1
  <2>2. now[w].heldTerm \in Nat /\ now[w].version \in Nat
    BY <2>1, StateFields
  <2> SUFFICES ASSUME NEW l \in up' \ {w}, now[w].held, now[w].leader = l, ~now[w].waiting,
                      w \notin now[w].leaders
               PROVE  Behind(now[w].heldTerm, now[w].version, now[w].ledger, now[l], l)
    BY <1>1 DEF HeldInPast
  <2>3. Behind(now[w].heldTerm, now[w].version, now[w].ledger, node[l], l)
    BY <2>1 DEF HeldInPast
  <2> QED
    BY <1>3, <2>2, <2>3
<1>6. \A w \in Node : HeldInPast(node[w], w)'
  BY <1>1, <1>5 DEF HeldInPast
<1> QED
  BY <1>4, <1>6 DEF Keys

\* The links after n has sent its snapshot.
LEMMA SentSyncIs ==
  ASSUME NEW S, NEW n \in Node, NEW e \in Events(S), OldSyncs(e.ctrl),
         NEW now, now[n] = e.s
  PROVE  /\ SentSync(e, n).s = e.s /\ SentSync(e, n).data = e.data
         /\ SentSync(e, n).reported = e.reported
         /\ SentSync(e, n).ctrl \in Links(CtrlFrames(S)) /\ NewSyncs(SentSync(e, n).ctrl, now)
<1> DEFINE c == e.ctrl
<1> DEFINE sends(q) == q \in e.s.attached \cap up
<1> DEFINE over(q) == c[n][q] # << >> /\ Last(c[n][q]).type = "sync"
<1> DEFINE row == [q \in Node |-> IF ~sends(q) THEN c[n][q]
                                  ELSE IF over(q) THEN Append(Front(c[n][q]), Snapshot(e.s))
                                  ELSE Append(c[n][q], Snapshot(e.s))]
<1> DEFINE d == [c EXCEPT ![n] = row]
<1>1. c \in Links(CtrlFrames(S)) /\ e.s \in States(S)
  BY EventFields
<1>2. Snapshot(e.s) \in CtrlFrames(S)
  <2>1. e.s.term \in Nat /\ e.s.version \in Nat /\ e.s.ledger \in Ledgers(S)
    BY <1>1, StateFields
  <2> QED
    BY <2>1 DEF Snapshot, CtrlFrames, Syncs
<1>3. SentSync(e, n) = [e EXCEPT !.ctrl = d]
  BY <1>1 DEF SentSync, Events, Links
<1>4. ASSUME NEW q \in Node
      PROVE  /\ row[q] \in Seq(CtrlFrames(S))
             /\ \A i \in DOMAIN row[q] :
                  row[q][i] = Snapshot(e.s) \/ \E j \in DOMAIN c[n][q] : row[q][i] = c[n][q][j]
  <2>1. PICK old \in Seq(CtrlFrames(S)) : old = c[n][q]
    BY <1>1 DEF Links
  <2>2. DOMAIN old = 1..Len(old) /\ Len(old) \in Nat
    BY LenProperties
  <2>3. PICK snap \in CtrlFrames(S) : snap = Snapshot(e.s)
    BY <1>2
  <2>4. ASSUME NEW kept \in Seq(CtrlFrames(S)), Len(kept) <= Len(old),
               \A i \in 1..Len(kept) : kept[i] = old[i]
        PROVE  /\ Append(kept, snap) \in Seq(CtrlFrames(S))
               /\ \A i \in DOMAIN Append(kept, snap) :
                    Append(kept, snap)[i] = snap
                      \/ \E j \in DOMAIN old : Append(kept, snap)[i] = old[j]
    <3>1. /\ Append(kept, snap) \in Seq(CtrlFrames(S)) /\ Len(kept) \in Nat
          /\ DOMAIN Append(kept, snap) = 1..(Len(kept) + 1)
          /\ \A i \in 1..Len(kept) : Append(kept, snap)[i] = kept[i]
          /\ Append(kept, snap)[Len(kept) + 1] = snap
      BY AppendProperties, LenProperties
    <3>2. ASSUME NEW i \in 1..(Len(kept) + 1)
          PROVE  Append(kept, snap)[i] = snap
                   \/ \E j \in DOMAIN old : Append(kept, snap)[i] = old[j]
      <4>1. i \in 1..Len(kept) \/ i = Len(kept) + 1
        BY <3>1
      <4>2. i \in 1..Len(kept) => i \in DOMAIN old
        BY <2>2, <2>4, <3>1
      <4> QED
        BY <2>4, <3>1, <4>1, <4>2
    <3> QED
      BY <3>1, <3>2
  <2>5. CASE ~sends(q)
    BY <2>1, <2>5
  <2>6. CASE sends(q) /\ over(q)
    <3>1. row[q] = Append(Front(old), snap)
      BY <2>1, <2>3, <2>6
    <3>2. old # << >>
      BY <2>1, <2>6
    <3>3. Len(old) > 0
      BY <2>2, <3>2, EmptySeq
    <3>4. /\ Front(old) \in Seq(CtrlFrames(S)) /\ Len(Front(old)) = Len(old) - 1
          /\ \A i \in 1..(Len(old) - 1) : Front(old)[i] = old[i]
      <4>1. \A i \in 1..(Len(old) - 1) : i \in 1..Len(old)
        BY <2>2
      <4> QED
        BY <2>2, <3>3, <4>1, SubSeqProperties DEF Front
    <3>5. Len(Front(old)) <= Len(old) /\ \A i \in 1..Len(Front(old)) : Front(old)[i] = old[i]
      BY <2>2, <3>4
    <3> HIDE DEF row
    <3> QED
      BY <2>1, <2>3, <2>4, <3>1, <3>4, <3>5
  <2>7. CASE sends(q) /\ ~over(q)
    <3>1. row[q] = Append(old, snap)
      BY <2>1, <2>3, <2>7
    <3>2. Len(old) <= Len(old) /\ \A i \in 1..Len(old) : old[i] = old[i]
      BY <2>2
    <3> HIDE DEF row
    <3> QED
      BY <2>1, <2>3, <2>4, <3>1, <3>2
  <2> QED
    BY <2>5, <2>6, <2>7
<1>5. row = [q \in Node |-> row[q]]
  OBVIOUS
<1> HIDE DEF row
<1>6. d \in Links(CtrlFrames(S))
  <2>1. row \in [Node -> Seq(CtrlFrames(S))]
    BY <1>4, <1>5
  <2> QED
    BY <1>1, <2>1 DEF Links
<1>7. NewSyncs(d, now)
  <2> SUFFICES ASSUME NEW p \in Node, NEW q \in Node, NEW i \in DOMAIN d[p][q],
                      d[p][q][i].type = "sync"
               PROVE  d[p][q][i] = Snapshot(now[p])
                        \/ \E j \in DOMAIN ctrl[p][q] : ctrl[p][q][j] = d[p][q][i]
    BY DEF NewSyncs
  <2>1. CASE p = n
    <3>1. d[p][q] = row[q]
      BY <1>1, <2>1 DEF Links
    <3>2. \/ row[q][i] = Snapshot(e.s)
          \/ \E j \in DOMAIN c[n][q] : row[q][i] = c[n][q][j]
      BY <1>4, <3>1
    <3>3. CASE row[q][i] = Snapshot(e.s)
      BY <2>1, <3>1, <3>3
    <3>4. CASE \E j \in DOMAIN c[n][q] : row[q][i] = c[n][q][j]
      <4>1. PICK j \in DOMAIN c[n][q] : row[q][i] = c[n][q][j]
        BY <3>4
      <4>2. c[n][q][j].type = "sync"
        BY <3>1, <4>1
      <4> QED
        BY <2>1, <3>1, <4>1, <4>2 DEF OldSyncs
    <3> QED
      BY <3>2, <3>3, <3>4
  <2>2. CASE p # n
    <3>1. d[p][q] = c[p][q]
      BY <1>1, <2>2 DEF Links
    <3> QED
      BY <3>1 DEF OldSyncs
  <2> QED
    BY <2>1, <2>2
<1> HIDE DEF d
<1> QED
  BY <1>3, <1>6, <1>7 DEF Events

\* n has handled the event, and whom it leaves alone has not moved.
LEMMA FlushedIs ==
  ASSUME NEW S, NEW n \in Node, Types, NEW e, EventInv(e, n, S),
         NEW now, now[n] = Flushed(e, n).s
  PROVE  /\ Flushed(e, n).s \in States(S) /\ Past(Flushed(e, n).s, n)
         /\ Flushed(e, n).ctrl \in Links(CtrlFrames(S)) /\ NewSyncs(Flushed(e, n).ctrl, now)
         /\ Flushed(e, n).data = e.data /\ Flushed(e, n).reported = e.reported
<1> DEFINE rostered == IF e.s.attached # node[n].attached THEN [e EXCEPT !.s = Changed(e.s)] ELSE e
<1>1. e \in Events(S) /\ e.s \in States(S) /\ OldSyncs(e.ctrl)
  BY EventFields DEF EventInv
<1>2. e.ctrl \in Links(CtrlFrames(S)) /\ NewSyncs(e.ctrl, now)
  BY <1>1, EventFields DEF OldSyncs, NewSyncs
<1>3. CASE ~Leads(e.s, n)
  <2>1. Flushed(e, n) = e
    BY <1>3 DEF Flushed
  <2> QED
    BY <1>1, <1>2, <2>1 DEF EventInv
<1>4. CASE Leads(e.s, n)
  <2>1. /\ EventInv(rostered, n, S) /\ rostered.data = e.data /\ rostered.ctrl = e.ctrl
        /\ rostered.reported = e.reported
    <3>1. CASE e.s.attached = node[n].attached
      BY <3>1
    <3>2. CASE e.s.attached # node[n].attached
      <4> DEFINE z == Changed(e.s)
      <4>1. Edits(e.s, z, S) /\ Carries(e.s, z, n)
        <5>1. e.s = [e.s EXCEPT !.ledger = e.s.ledger] /\ e.s.ledger \in Ledgers(S)
          BY <1>1, StateFields DEF States
        <5>2. PICK g \in Ledgers(S) : g = e.s.ledger
          BY <5>1
        <5>3. Edits(e.s, Changed([e.s EXCEPT !.ledger = g]), S)
              /\ Changed([e.s EXCEPT !.ledger = g]).ledger = g
          BY <1>1, EditIs
        <5>4. [e.s EXCEPT !.ledger = g] = e.s
          BY <5>1, <5>2
        <5> QED
          BY <5>2, <5>3, <5>4 DEF Carries
      <4> HIDE DEF z
      <4>2. EventInv([e EXCEPT !.s = z], n, S)
        BY <1>4, <4>1, EventEdited
      <4>3. rostered = [e EXCEPT !.s = z]
        BY <3>2 DEF z
      <4> HIDE DEF rostered
      <4> QED
        BY <1>1, <4>2, <4>3 DEF Events
    <3> QED
      BY <3>1, <3>2
  <2>2. Flushed(e, n) = rostered \/ Flushed(e, n) = SentSync(rostered, n)
    BY <1>4, Zenon DEF Flushed
  <2> HIDE DEF rostered
  <2>3. rostered \in Events(S) /\ OldSyncs(rostered.ctrl) /\ rostered.s \in States(S)
        /\ Past(rostered.s, n)
    BY <2>1, EventFields DEF EventInv
  <2>4. CASE Flushed(e, n) = rostered
    BY <1>2, <2>1, <2>3, <2>4
  <2>5. CASE Flushed(e, n) = SentSync(rostered, n)
    <3>1. SentSync(rostered, n).s = rostered.s
      <4>1. PICK past : past = [m \in Node |-> rostered.s]
        OBVIOUS
      <4>2. past[n] = rostered.s
        BY <4>1
      <4> QED
        BY <2>3, <4>2, SentSyncIs
    <3>2. now[n] = rostered.s
      BY <2>5, <3>1
    <3>3. /\ SentSync(rostered, n).s = rostered.s /\ SentSync(rostered, n).data = rostered.data
          /\ SentSync(rostered, n).reported = rostered.reported
          /\ SentSync(rostered, n).ctrl \in Links(CtrlFrames(S))
          /\ NewSyncs(SentSync(rostered, n).ctrl, now)
      BY <2>3, <3>2, SentSyncIs
    <3> QED
      BY <2>1, <2>3, <2>5, <3>3
  <2> QED
    BY <2>2, <2>4, <2>5
<1> QED
  BY <1>3, <1>4

-----------------------------------------------------------------------------
\* The steps of n's loop.

\* A step keeps the invariant, and what each node has finished.
Sound == TasksInv' /\ \A m \in Node : Kept(node[m], node'[m], m)

\* Nothing happens to a node that keeps its fields.
LEMMA Unmoved ==
  ASSUME TasksInv, NEW m \in Node
  PROVE  Grown(node[m], node[m], m) /\ Kept(node[m], node[m], m) /\ HeldInPast(node[m], m)
<1>1. node[m] \in States(submitted)
  BY DEF TasksInv, Types
<1>2. node[m].term \in Nat /\ node[m].version \in Nat /\ node[m].ledger \in Ledgers(submitted)
  BY <1>1, StateFields
<1>3. Grown(node[m], node[m], m)
  BY <1>2 DEF Grown
<1>4. Kept(node[m], node[m], m)
  BY <1>2, LedgerFacts DEF Kept
<1> QED
  BY <1>3, <1>4 DEF TasksInv, Keys

\* What is submitted, and who runs and leads, in a step.
Submits(S) == submitted \subseteq S /\ S \subseteq Task /\ submitted' = S
Roster == up' = up /\ elected' \subseteq Node

LEMMA HandledKeeps ==
  ASSUME NEW S, TasksInv, Submits(S), Roster,
         NEW n \in Node, NEW e, EventInv(e, n, S), Handled(n, e)
  PROVE  Sound
<1>1. PICK now : now = [node EXCEPT ![n] = Flushed(e, n).s]
  OBVIOUS
<1>2. node \in [Node -> States(submitted)] /\ Types
  BY DEF TasksInv, Types
<1>3. now[n] = Flushed(e, n).s /\ node' = now
  BY <1>1, <1>2 DEF Handled
<1>4. /\ now[n] \in States(S) /\ Past(now[n], n)
      /\ Flushed(e, n).ctrl \in Links(CtrlFrames(S)) /\ NewSyncs(Flushed(e, n).ctrl, now)
      /\ Flushed(e, n).data = e.data /\ Flushed(e, n).reported = e.reported
  BY <1>2, <1>3, FlushedIs
<1>5. \A m \in Node : m # n => now[m] = node[m]
  BY <1>1, <1>2
<1>6. States(submitted) \subseteq States(S)
  BY StatesGrow DEF Submits
<1>7. now \in [Node -> States(S)]
  BY <1>1, <1>2, <1>4, <1>6
<1>8. ASSUME NEW m \in Node
      PROVE  Grown(node[m], now[m], m) /\ Kept(node[m], now[m], m) /\ HeldInPast(now[m], m)
  <2>1. CASE m = n
    BY <1>4, <2>1 DEF Past
  <2>2. CASE m # n
    BY <1>5, <2>2, Unmoved
  <2> QED
    BY <2>1, <2>2
<1>9. /\ ctrl' = Flushed(e, n).ctrl /\ data' = e.data /\ reported' = reported \cup e.reported
  BY <1>4 DEF Handled
<1>10. Keys'
  <2>1. up' \subseteq up /\ \A m \in up' : m \in Node
    BY <1>2 DEF Roster, Types
  <2>2. NewSyncs(ctrl', node') /\ node' \in [Node -> States(S)]
    BY <1>3, <1>4, <1>7, <1>9
  <2>3. \A m \in up' : Grown(node[m], node'[m], m)
    BY <1>3, <1>8, <2>1
  <2>4. \A m \in Node : HeldInPast(node'[m], m)
    BY <1>3, <1>8
  <2> QED
    BY <2>1, <2>2, <2>3, <2>4, KeysStep
<1>11. Types'
  <2>1. e.data \in Links(DataFrames(S)) /\ e.reported \in SUBSET S
    BY EventFields DEF EventInv
  <2>2. reported \subseteq submitted /\ up \subseteq Node
    BY <1>2 DEF Types
  <2> QED
    BY <1>3, <1>4, <1>7, <1>9, <2>1, <2>2 DEF Types, Submits, Roster
<1> QED
  BY <1>3, <1>8, <1>10, <1>11 DEF Sound, TasksInv

\* An event before anything has come of it.
LEMMA EventBegins ==
  ASSUME NEW S, TasksInv, submitted \subseteq S, NEW n \in Node
  PROVE  /\ EventInv(Event(n), n, S) /\ Event(n).s = node[n]
         /\ Event(n).ctrl = ctrl /\ Event(n).data = data
<1>1. /\ node[n] \in States(S) /\ ctrl \in Links(CtrlFrames(S)) /\ data \in Links(DataFrames(S))
  BY StatesGrow, LinksGrow DEF TasksInv, Types
<1>2. Event(n) \in Events(S)
  BY <1>1 DEF Event, Events
<1>3. OldSyncs(ctrl)
  BY DEF OldSyncs
<1> QED
  BY <1>2, <1>3, Unmoved DEF Event, EventInv, Past

\* A frame off a link.
LEMMA FrameTaken ==
  ASSUME NEW F, NEW c \in Links(F), NEW p \in Node, NEW n \in Node, c[p][n] # << >>
  PROVE  /\ Head(c[p][n]) \in F /\ Head(c[p][n]) = c[p][n][1] /\ 1 \in DOMAIN c[p][n]
         /\ [c EXCEPT ![p][n] = Tail(@)] \in Links(F)
         /\ \A r, q \in Node : \A i \in DOMAIN [c EXCEPT ![p][n] = Tail(@)][r][q] :
              \E j \in DOMAIN c[r][q] : c[r][q][j] = [c EXCEPT ![p][n] = Tail(@)][r][q][i]
<1> DEFINE d == [c EXCEPT ![p][n] = Tail(@)]
<1>1. PICK old \in Seq(F) : old = c[p][n]
  BY DEF Links
<1>2. /\ Head(old) \in F /\ Tail(old) \in Seq(F) /\ Len(Tail(old)) = Len(old) - 1
      /\ Len(old) \in Nat /\ Len(old) > 0 /\ DOMAIN old = 1..Len(old)
      /\ \A i \in 1..(Len(old) - 1) : Tail(old)[i] = old[i + 1]
      /\ Head(old) = old[1]
  BY <1>1, HeadTailProperties, EmptySeq, LenProperties
<1>3. d \in Links(F)
  BY <1>1, <1>2 DEF Links
<1>4. d[p][n] = Tail(old) /\ \A r, q \in Node : <<r, q>> # <<p, n>> => d[r][q] = c[r][q]
  BY <1>1 DEF Links
<1>5. ASSUME NEW i \in DOMAIN Tail(old)
      PROVE  \E j \in DOMAIN old : old[j] = Tail(old)[i]
  <2>1. i \in 1..(Len(old) - 1)
    BY <1>2, LenProperties
  <2>2. i + 1 \in 1..Len(old)
    BY <1>2, <2>1
  <2> QED
    BY <1>2, <2>1, <2>2
<1> HIDE DEF d
<1>6. ASSUME NEW r \in Node, NEW q \in Node, NEW i \in DOMAIN d[r][q]
      PROVE  \E j \in DOMAIN c[r][q] : c[r][q][j] = d[r][q][i]
  <2>1. CASE r = p /\ q = n
    BY <1>1, <1>4, <1>5, <2>1
  <2>2. CASE ~(r = p /\ q = n)
    <3>1. <<r, q>> # <<p, n>>
      BY <2>2
    <3>2. d[r][q] = c[r][q]
      BY <1>4, <3>1
    <3> QED
      BY <3>2
  <2> QED
    BY <2>1, <2>2
<1>7. Head(c[p][n]) \in F /\ Head(c[p][n]) = c[p][n][1] /\ 1 \in DOMAIN c[p][n]
  BY <1>1, <1>2
<1> QED
  BY <1>3, <1>6, <1>7 DEF d

LEMMA HandleJoinKeeps ==
  ASSUME NEW S, NEW n \in Node, NEW e, EventInv(e, n, S), NEW w \in Node, NEW f \in Joins
  PROVE  EventInv(HandleJoin(e, n, w, f), n, S)
<1> DEFINE s == IF Leads(e.s, n) THEN [e.s EXCEPT !.attached = @ \cup {w}] ELSE e.s
<1> DEFINE d == [e EXCEPT !.s = s]
<1> DEFINE ack == [type |-> "ack", ok |-> Leads(e.s, n), current |-> f.current]
<1>1. e \in Events(S) /\ e.s \in States(S)
  BY EventFields DEF EventInv
<1>2. s \in States(S) /\ SameBooks(e.s, s)
  BY <1>1 DEF States, SameBooks
<1>3. EventInv(d, n, S)
  <2> HIDE DEF s
  <2> QED
    BY <1>2, EventRestated
<1>4. ack \in Joins \cup Acks
  <2>1. Leads(e.s, n) \in BOOLEAN
    BY DEF Leads
  <2>2. f.current \in BOOLEAN
    BY DEF Joins
  <2> QED
    BY <2>1, <2>2 DEF Acks
<1>5. HandleJoin(e, n, w, f) = SentCtrl(d, n, w, ack)
  BY DEF HandleJoin
<1> HIDE DEF d, ack
<1>6. d \in Events(S) /\ OldSyncs(d.ctrl) /\ Past(d.s, n)
  BY <1>3 DEF EventInv
<1>7. /\ SentCtrl(d, n, w, ack) \in Events(S) /\ OldSyncs(SentCtrl(d, n, w, ack).ctrl)
      /\ SentCtrl(d, n, w, ack).s = d.s
  BY <1>4, <1>6, SentCtrlKeeps
<1> QED
  BY <1>5, <1>6, <1>7 DEF EventInv

LEMMA HandOffKeeps ==
  ASSUME NEW S, NEW n \in Node, Types, NEW e, EventInv(e, n, S)
  PROVE  EventInv(HandOff(e, n), n, S)
<1> DEFINE to == e.s.leader
<1> DEFINE frames == [i \in DOMAIN e.s.handoff |-> [type |-> "task", task |-> e.s.handoff[i]]]
<1> DEFINE sent == IF Reaches(e.s, to) /\ to \in up THEN [e EXCEPT !.data[n][to] = @ \o frames]
                   ELSE e
<1>1. e \in Events(S) /\ e.s \in States(S) /\ e.data \in Links(DataFrames(S))
  BY EventFields DEF EventInv
<1>2. frames \in Seq(DataFrames(S))
  <2>1. e.s.handoff \in Seq(Bodies(S))
    BY <1>1, StateFields
  <2>2. /\ Len(e.s.handoff) \in Nat /\ DOMAIN e.s.handoff = 1..Len(e.s.handoff)
        /\ \A i \in 1..Len(e.s.handoff) : e.s.handoff[i] \in Bodies(S)
    BY <2>1, ElementOfSeq, LenProperties
  <2>3. ASSUME NEW i \in 1..Len(e.s.handoff)
        PROVE  [type |-> "task", task |-> e.s.handoff[i]] \in DataFrames(S)
    BY <2>2 DEF DataFrames
  <2>4. PICK m \in Nat : m = Len(e.s.handoff)
    BY <2>2
  <2>5. frames = [i \in 1..m |-> [type |-> "task", task |-> e.s.handoff[i]]]
    BY <2>2, <2>4
  <2>6. \A i \in 1..m : [type |-> "task", task |-> e.s.handoff[i]] \in DataFrames(S)
    BY <2>3, <2>4
  <2> HIDE DEF frames
  <2> QED
    BY <2>5, <2>6, IsASeq
<1>3. sent \in Events(S) /\ sent.s = e.s /\ sent.ctrl = e.ctrl
  <2> HIDE DEF frames
  <2>1. CASE Reaches(e.s, to) /\ to \in up
    <3>1. to \in Node
      BY <2>1 DEF Types
    <3>2. e.data[n] \in [Node -> Seq(DataFrames(S))] /\ e.data[n][to] \in Seq(DataFrames(S))
      BY <1>1, <3>1 DEF Links
    <3>3. e.data[n][to] \o frames \in Seq(DataFrames(S))
      BY <1>2, <3>2, ConcatProperties
    <3>4. [e.data EXCEPT ![n][to] = @ \o frames] \in Links(DataFrames(S))
      BY <1>1, <3>2, <3>3 DEF Links
    <3>5. sent = [e EXCEPT !.data = [e.data EXCEPT ![n][to] = @ \o frames]]
      BY <1>1, <2>1 DEF Events
    <3> HIDE DEF sent
    <3> QED
      BY <1>1, <3>4, <3>5 DEF Events
  <2>2. CASE ~(Reaches(e.s, to) /\ to \in up)
    BY <1>1, <2>2
  <2> QED
    BY <2>1, <2>2
<1>4. HandOff(e, n) = [sent EXCEPT !.s.handoff = << >>]
  BY DEF HandOff
<1> HIDE DEF sent
<1>5. EventInv(sent, n, S)
  BY <1>3 DEF EventInv
<1> DEFINE z == [sent.s EXCEPT !.handoff = << >>]
<1>6. z \in States(S) /\ SameBooks(sent.s, z)
  <2>1. << >> \in Seq(Bodies(S))
    OBVIOUS
  <2> QED
    BY <1>1, <1>3, <2>1 DEF States, SameBooks
<1>7. HandOff(e, n) = [sent EXCEPT !.s = z]
  BY <1>3, <1>4 DEF Events
<1> HIDE DEF z
<1> QED
  BY <1>5, <1>6, <1>7, EventRestated

LEMMA HandleAckKeeps ==
  ASSUME NEW S, NEW n \in Node, Types, NEW e, EventInv(e, n, S), NEW from
  PROVE  EventInv(HandleAck(e, n, from), n, S)
<1> DEFINE z == [e.s EXCEPT !.waiting = FALSE, !.held = FALSE]
<1>1. e \in Events(S) /\ e.s \in States(S) /\ Past(e.s, n)
  BY EventFields DEF EventInv
<1>2. /\ z \in States(S) /\ ~z.held /\ z.leaders = e.s.leaders /\ z.term = e.s.term
      /\ z.ledger = e.s.ledger /\ z.version = e.s.version
  BY <1>1 DEF States
<1>3. HandleAck(e, n, from) = HandOff([e EXCEPT !.s = z], n)
  BY <1>1 DEF HandleAck, NewSession, States, Events
<1> HIDE DEF z
<1>4. Past(z, n)
  BY <1>1, <1>2 DEF Past, Grown, Kept, HeldInPast
<1>5. EventInv([e EXCEPT !.s = z], n, S)
  BY <1>2, <1>4, EventMoved
<1> QED
  BY <1>3, <1>5, HandOffKeeps

LEMMA HandleSyncKeeps ==
  ASSUME NEW S, NEW n \in Node, Types, NEW e, EventInv(e, n, S), NEW from \in Node,
         NEW f \in Syncs(S),
         from \in up => Behind(f.term, f.version, f.ledger, node[from], from)
  PROVE  EventInv([e EXCEPT !.s = HandleSync(@, n, from, f)], n, S)
<1> DEFINE s == e.s
<1> DEFINE z == HandleSync(s, n, from, f)
<1> DEFINE most == IF f.term > s.term THEN f.term ELSE s.term
<1>1. e \in Events(S) /\ s \in States(S) /\ Past(s, n)
  BY EventFields DEF EventInv
<1>2. /\ f.term \in Nat /\ f.version \in Nat /\ f.ledger \in Ledgers(S)
      /\ Len(f.ledger) \in Nat /\ Len(f.ledger) <= LedgerSize
  BY LedgerFacts DEF Syncs
<1>3. s.term \in Nat /\ most \in Nat /\ s.term <= most
  BY <1>1, <1>2, StateFields
<1>4. CASE Leads(s, n) \/ from # s.leader
  <2>1. z = s
    BY <1>4 DEF HandleSync
  <2> QED
    BY <1>1, <2>1, EventMoved
<1>5. CASE ~Leads(s, n) /\ from = s.leader
  <2>1. /\ z \in States(S) /\ z.leaders = s.leaders /\ z.leader = s.leader
        /\ z.waiting = s.waiting /\ z.term = most
        /\ \/ z.ledger = s.ledger /\ z.version = s.version /\ z.heldTerm = s.heldTerm
              /\ z.held = s.held
           \/ z.ledger = f.ledger /\ z.version = f.version /\ z.heldTerm = f.term
    <3> DEFINE heard == [s EXCEPT !.term = most]
    <3>1. CASE s.held /\ ~Newer(s, f)
      <4>1. z = heard
        BY <1>1, <1>5, <3>1 DEF HandleSync, States
      <4> HIDE DEF z, most
      <4> QED
        BY <1>1, <1>3, <4>1 DEF States
    <3>2. CASE ~(s.held /\ ~Newer(s, f))
      <4>1. ~(Len(f.ledger) - LedgerSize > 0)
        BY <1>2, TasksAssumption
      <4>2. z = [heard EXCEPT !.ledger = f.ledger, !.version = f.version, !.heldTerm = f.term,
                              !.held = TRUE]
        BY <1>1, <1>5, <3>2, <4>1 DEF HandleSync, States
      <4> HIDE DEF z, most
      <4> QED
        BY <1>1, <1>2, <1>3, <4>2 DEF States
    <3> QED
      BY <3>1, <3>2
  <2>2. node[n].term \in Nat
    BY StateFields DEF Types
  <2> HIDE DEF z, most
  <2>3. Grown(node[n], z, n)
    BY <1>1, <1>3, <1>5, <2>1, <2>2 DEF Past, Grown, Leads
  <2>4. Kept(node[n], z, n)
    BY <1>5, <2>1 DEF Kept, Leads
  <2>5. HeldInPast(z, n)
    <3> SUFFICES ASSUME NEW l \in up \ {n}, z.held, z.leader = l, ~z.waiting, n \notin z.leaders
                 PROVE  Behind(z.heldTerm, z.version, z.ledger, node[l], l)
      BY DEF HeldInPast
    <3>1. CASE z.ledger = s.ledger /\ z.version = s.version /\ z.heldTerm = s.heldTerm
               /\ z.held = s.held
      BY <1>1, <2>1, <3>1 DEF Past, HeldInPast
    <3>2. CASE z.ledger = f.ledger /\ z.version = f.version /\ z.heldTerm = f.term
      BY <1>5, <2>1, <3>2
    <3> QED
      BY <2>1, <3>1, <3>2
  <2> QED
    BY <2>1, <2>3, <2>4, <2>5, EventMoved DEF Past, z
<1> QED
  BY <1>4, <1>5

LEMMA EvaluatesKeeps ==
  ASSUME NEW S, TasksInv, Submits(S), Roster,
         NEW n \in Node, NEW e, EventInv(e, n, S), e.s.leaders = node[n].leaders, Evaluates(n, e)
  PROVE  Sound
<1>1. PICK leaders : leaders = Result(e.s)
  OBVIOUS
<1>2. Types /\ e.s \in States(S)
  BY EventFields DEF TasksInv, EventInv
<1>3. leaders \in SUBSET Node
  <2>1. e.s.leaders \in SUBSET Node
    BY <1>2, StateFields
  <2> QED
    BY <1>1, <1>2, <2>1 DEF Result, Types
<1>4. PICK best \in Candidates(e, n, leaders) : Handled(n, Evaluate(e, n, leaders, best))
  BY <1>1 DEF Evaluates
<1>5. best \in Node \cup {None}
  <2>1. Usable(e.s, leaders) \subseteq Node
    BY <1>3 DEF Usable
  <2> QED
    BY <2>1 DEF Candidates
<1>6. EventInv(Evaluate(e, n, leaders, best), n, S)
  BY <1>2, <1>3, <1>5, EvaluateKeeps
<1> QED
  BY <1>4, <1>6, HandledKeeps

\* No node's fields change.
LEMMA QuietKeeps ==
  ASSUME NEW S, TasksInv, Submits(S), Roster, node' = node, reported' = reported,
         ctrl' \in Links(CtrlFrames(S)), NewSyncs(ctrl', node), data' \in Links(DataFrames(S))
  PROVE  Sound
<1>1. Types /\ node \in [Node -> States(S)]
  BY StatesGrow DEF Submits, TasksInv, Types
<1>2. Keys'
  <2>1. up' \subseteq up /\ \A m \in up' : m \in Node
    BY <1>1 DEF Roster, Types
  <2>2. NewSyncs(ctrl', node')
    OBVIOUS
  <2>3. \A m \in up' : Grown(node[m], node'[m], m)
    BY <2>1, Unmoved
  <2>4. \A m \in Node : HeldInPast(node'[m], m)
    BY Unmoved
  <2> QED
    BY <1>1, <2>1, <2>2, <2>3, <2>4, KeysStep
<1>3. Types'
  BY <1>1 DEF Types, Submits, Roster
<1>4. \A m \in Node : Kept(node[m], node'[m], m)
  BY Unmoved
<1> QED
  BY <1>2, <1>3, <1>4 DEF Sound, TasksInv

\* The links and their types stay as they are.
LEMMA LinksStay ==
  ASSUME TasksInv, NEW S, submitted \subseteq S
  PROVE  /\ ctrl \in Links(CtrlFrames(S)) /\ data \in Links(DataFrames(S))
         /\ \A now : NewSyncs(ctrl, now)
  BY LinksGrow DEF TasksInv, Types, NewSyncs

\* Nothing is submitted.
LEMMA NoneSubmitted ==
  ASSUME TasksInv, UNCHANGED <<submitted, up, elected>>
  PROVE  Submits(submitted) /\ Roster
BY DEF TasksInv, Types, Submits, Roster

LEMMA SubmitKeeps ==
  ASSUME TasksInv, NEW n \in Node, NEW t \in Task, Submit(n, t)
  PROVE  Sound
<1> DEFINE S == submitted \cup {t}
<1> DEFINE p == [task |-> t, whole |-> TRUE]
<1> DEFINE e == Event(n)
<1> DEFINE frame == [type |-> "task", task |-> p]
<1>1. submitted \subseteq S /\ Submits(S) /\ Roster /\ Types
  BY DEF Submit, Submits, Roster, TasksInv, Types
<1>2. p \in Bodies(S) /\ frame \in DataFrames(S)
  BY DEF Bodies, DataFrames
<1> HIDE DEF S
<1>3. EventInv(e, n, S) /\ e.s = node[n] /\ e.ctrl = ctrl /\ e.data = data
  BY <1>1, EventBegins
<1>4. \/ Leads(e.s, n) /\ Handled(n, LeadTask(e, n, p))
      \/ /\ e.s.leader # None
         /\ Handled(n, SentData(e, n, e.s.leader, frame))
      \/ UNCHANGED <<node, ctrl, data, reported>>
  BY Zenon DEF Submit
<1> HIDE DEF e, p, frame
<1>5. CASE Leads(e.s, n) /\ Handled(n, LeadTask(e, n, p))
  <2>1. EventInv(LeadTask(e, n, p), n, S)
    BY <1>1, <1>2, <1>3, <1>5, LeadTaskKeeps
  <2> QED
    BY <1>1, <1>5, <2>1, HandledKeeps
<1>6. CASE e.s.leader # None /\ Handled(n, SentData(e, n, e.s.leader, frame))
  <2>1. e.s.leader \in Node
    BY <1>1, <1>3, <1>6, StateFields DEF Types
  <2>2. EventInv(SentData(e, n, e.s.leader, frame), n, S)
    BY <1>2, <1>3, <2>1, SentDataKeeps
  <2> QED
    BY <1>1, <1>6, <2>2, HandledKeeps
<1>7. CASE UNCHANGED <<node, ctrl, data, reported>>
  BY <1>1, <1>7, LinksStay, QuietKeeps
<1> QED
  BY <1>4, <1>5, <1>6, <1>7

LEMMA ReevaluateKeeps ==
  ASSUME TasksInv, NEW n \in Node, Reevaluate(n)
  PROVE  Sound
<1>1. Submits(submitted) /\ Roster
  BY NoneSubmitted DEF Reevaluate
<1>2. EventInv(Event(n), n, submitted) /\ Event(n).s = node[n]
  BY EventBegins
<1> QED
  BY <1>1, <1>2, EvaluatesKeeps DEF Reevaluate

LEMMA ReissueIfDueKeeps ==
  ASSUME TasksInv, NEW n \in Node, ReissueIfDue(n)
  PROVE  Sound
<1> DEFINE e == Event(n)
<1> DEFINE z == [e.s EXCEPT !.reissueDue = FALSE]
<1> DEFINE d == [e EXCEPT !.s = z]
<1> DEFINE pending == PendingTasks(e.s, Anyone)
<1>1. Submits(submitted) /\ Roster /\ Types
  BY NoneSubmitted DEF ReissueIfDue, TasksInv
<1>2. /\ EventInv(e, n, submitted) /\ e.s = node[n] /\ e \in Events(submitted)
      /\ e.s \in States(submitted)
  <2>1. EventInv(e, n, submitted) /\ e.s = node[n]
    BY EventBegins
  <2> QED
    BY <2>1, EventFields DEF EventInv
<1>3. [e EXCEPT !.s.reissueDue = FALSE] = d
  BY <1>2 DEF Events
<1>4. Handled(n, AssignAll(d, n, pending)) /\ Leads(e.s, n)
  BY <1>2, <1>3 DEF ReissueIfDue
<1> HIDE DEF e
<1>5. z \in States(submitted) /\ SameBooks(e.s, z)
  BY <1>2 DEF States, SameBooks
<1>6. EventInv(d, n, submitted) /\ d.s = z
  <2> HIDE DEF z
  <2>1. d.s = z
    BY <1>2 DEF Events
  <2> QED
    BY <1>2, <1>5, <2>1, EventRestated
<1>7. /\ pending \in Seq(Bodies(submitted))
      /\ \A i \in 1..Len(pending) : Fresh(n, pending[i].task)
  BY <1>2, PendingFresh
<1>8. Leads(d.s, n)
  BY <1>4, <1>5, <1>6 DEF Leads, SameBooks
<1> HIDE DEF d, pending
<1>9. EventInv(AssignAll(d, n, pending), n, submitted)
  BY <1>1, <1>6, <1>7, <1>8, AssignAllKeeps
<1> QED
  BY <1>1, <1>4, <1>9, HandledKeeps

LEMMA PeriodicSyncKeeps ==
  ASSUME TasksInv, NEW n \in Node, PeriodicSync(n)
  PROVE  Sound
<1>1. Submits(submitted) /\ Roster /\ Types
  BY NoneSubmitted DEF PeriodicSync, TasksInv
<1>2. /\ Event(n) \in Events(submitted) /\ Event(n).s = node[n] /\ OldSyncs(Event(n).ctrl)
  BY EventBegins DEF EventInv
<1>3. /\ SentSync(Event(n), n).ctrl \in Links(CtrlFrames(submitted))
      /\ NewSyncs(SentSync(Event(n), n).ctrl, node)
  BY <1>2, SentSyncIs
<1>4. /\ node' = node /\ reported' = reported /\ data' = data
      /\ ctrl' = SentSync(Event(n), n).ctrl
  BY DEF PeriodicSync
<1> QED
  BY <1>1, <1>3, <1>4, LinksStay, QuietKeeps

LEMMA FinishTaskKeeps ==
  ASSUME TasksInv, NEW n \in Node, NEW r \in node[n].running, FinishTask(n, r)
  PROVE  Sound
<1> DEFINE e == Event(n)
<1> DEFINE z == [e.s EXCEPT !.running = @ \ {r}]
<1> DEFINE d == [e EXCEPT !.s = z]
<1>1. Submits(submitted) /\ Roster /\ Types
  BY NoneSubmitted DEF FinishTask, TasksInv
<1>2. /\ EventInv(e, n, submitted) /\ e.s = node[n] /\ e \in Events(submitted)
      /\ e.s \in States(submitted)
  <2>1. EventInv(e, n, submitted) /\ e.s = node[n]
    BY EventBegins
  <2> QED
    BY <2>1, EventFields DEF EventInv
<1>3. [e EXCEPT !.s.running = @ \ {r}] = d
  BY <1>2 DEF Events
<1>4. Handled(n, TaskOutcome(d, n, r.origin, r.task))
  BY <1>3 DEF FinishTask
<1> HIDE DEF e
<1>5. e.s.running \in Runs(submitted)
  BY <1>2, StateFields
<1>6. r.task \in submitted /\ r.origin \in Node \cup {None}
  BY <1>2, <1>5 DEF Runs
<1>7. e.s.running \ {r} \in Runs(submitted)
  <2>1. /\ IsFiniteSet(e.s.running) /\ Cardinality(e.s.running) <= MaxInflight
        /\ Cardinality(e.s.running) \in Nat
    BY <1>5, FS_CardinalityType DEF Runs
  <2>2. /\ IsFiniteSet(e.s.running \ {r})
        /\ Cardinality(e.s.running \ {r}) <= Cardinality(e.s.running)
        /\ Cardinality(e.s.running \ {r}) \in Nat
    BY <2>1, FS_Subset, FS_CardinalityType
  <2>3. Cardinality(e.s.running \ {r}) <= MaxInflight
    BY <2>1, <2>2, TasksAssumption
  <2> QED
    BY <1>5, <2>2, <2>3 DEF Runs
<1>8. z \in States(submitted) /\ SameBooks(e.s, z)
  BY <1>2, <1>7 DEF States, SameBooks
<1> HIDE DEF z
<1>9. EventInv(d, n, submitted)
  BY <1>2, <1>8, EventRestated
<1> HIDE DEF d
<1>10. EventInv(TaskOutcome(d, n, r.origin, r.task), n, submitted)
  BY <1>1, <1>6, <1>9, TaskOutcomeKeeps
<1> QED
  BY <1>1, <1>4, <1>10, HandledKeeps

\* Flushing sends and numbers a ledger, and leaves the term.
LEMMA FlushedTerm ==
  ASSUME NEW S, NEW n, NEW e \in Events(S)
  PROVE  Flushed(e, n).s.term = e.s.term
<1> DEFINE rostered == IF e.s.attached # node[n].attached THEN [e EXCEPT !.s = Changed(e.s)] ELSE e
<1>1. rostered.s.term = e.s.term
  BY EventFields DEF Changed, Events, States
<1>2. \/ Flushed(e, n) = e
      \/ Flushed(e, n) = rostered
      \/ Flushed(e, n) = SentSync(rostered, n)
  BY Zenon DEF Flushed
<1>3. SentSync(rostered, n).s = rostered.s
  BY DEF SentSync, Events
<1> HIDE DEF rostered
<1> QED
  BY <1>1, <1>2, <1>3

LEMMA BeatKeeps ==
  ASSUME TasksInv, NEW n \in Node, NEW w \in Node, Beat(n, w)
  PROVE  Sound
<1> DEFINE most == IF node[n].term > node[w].term THEN node[n].term ELSE node[w].term
<1> DEFINE z == [node[n] EXCEPT !.term = most, !.attached = @ \ {w}]
<1> DEFINE e == [Event(n) EXCEPT !.s = z]
<1> DEFINE f == Flushed(e, n)
<1>1. Submits(submitted) /\ Roster /\ Types
  BY NoneSubmitted DEF Beat, TasksInv
<1>2. /\ EventInv(Event(n), n, submitted) /\ Event(n).s = node[n] /\ Event(n).data = data
      /\ Event(n) \in Events(submitted)
      /\ node[n] \in States(submitted) /\ node[w] \in States(submitted)
  BY <1>1, EventBegins DEF Types, EventInv
<1>3. node' = [node EXCEPT ![n] = f.s, ![w].term = most] /\ ctrl' = f.ctrl
  <2>1. [Event(n) EXCEPT !.s.term = most, !.s.attached = @ \ {w}] = e
    BY <1>2 DEF Events, States
  <2> QED
    BY <2>1 DEF Beat
<1>4. most \in Nat /\ node[n].term <= most /\ node[w].term <= most
  <2>1. node[n].term \in Nat /\ node[w].term \in Nat
    BY <1>2, StateFields
  <2> QED
    BY <2>1
<1>5. /\ z \in States(submitted) /\ z.leaders = node[n].leaders /\ z.leader = node[n].leader
      /\ z.waiting = node[n].waiting /\ z.term = most /\ z.ledger = node[n].ledger
      /\ z.version = node[n].version /\ z.held = node[n].held /\ z.heldTerm = node[n].heldTerm
  <2> HIDE DEF most
  <2> QED
    BY <1>2, <1>4 DEF States
<1> HIDE DEF z, most
<1>6. node[n].version \in Nat /\ Past(node[n], n)
  BY <1>2, StateFields DEF EventInv
<1>7. Past(z, n)
  BY <1>4, <1>5, <1>6 DEF Past, Grown, Kept, HeldInPast
<1>8. EventInv(e, n, submitted)
  BY <1>2, <1>5, <1>7, EventMoved
<1>9. f.s.term = most
  <2>1. e.s = z
    BY <1>2 DEF Events
  <2> HIDE DEF e
  <2> QED
    BY <1>5, <1>8, <2>1, FlushedTerm DEF EventInv
<1> HIDE DEF e
<1>10. PICK now : now = [node EXCEPT ![n] = f.s, ![w].term = most]
  OBVIOUS
<1>11. /\ f.s \in States(submitted) /\ Past(f.s, n)
       /\ f.ctrl \in Links(CtrlFrames(submitted))
  <2>1. PICK other : other = [m \in Node |-> f.s]
    OBVIOUS
  <2>2. other[n] = Flushed(e, n).s
    BY <2>1
  <2> QED
    BY <1>1, <1>8, <2>2, FlushedIs
<1> HIDE DEF f
<1>12. node \in [Node -> States(submitted)]
  BY <1>1 DEF Types
<1>13. /\ now[n] = f.s
       /\ w # n => now[w] = [node[w] EXCEPT !.term = most]
       /\ \A m \in Node \ {n, w} : now[m] = node[m]
  <2>1. [f.s EXCEPT !.term = most] = f.s
    BY <1>9, <1>11 DEF States
  <2>2. CASE w = n
    BY <1>10, <1>12, <2>1, <2>2
  <2>3. CASE w # n
    BY <1>10, <1>12, <2>3
  <2> QED
    BY <2>2, <2>3
<1>14. ASSUME NEW m \in Node
       PROVE  /\ now[m] \in States(submitted)
              /\ Grown(node[m], now[m], m) /\ Kept(node[m], now[m], m) /\ HeldInPast(now[m], m)
  <2>1. CASE m = n
    BY <1>11, <1>13, <2>1 DEF Past
  <2>2. CASE m = w /\ w # n
    <3>1. now[w] = [node[w] EXCEPT !.term = most]
      BY <1>13, <2>2
    <3>2. /\ now[w] \in States(submitted) /\ now[w].term = most
          /\ now[w].leaders = node[w].leaders /\ now[w].leader = node[w].leader
          /\ now[w].waiting = node[w].waiting /\ now[w].ledger = node[w].ledger
          /\ now[w].version = node[w].version /\ now[w].held = node[w].held
          /\ now[w].heldTerm = node[w].heldTerm
      BY <1>2, <1>4, <3>1 DEF States
    <3>3. node[w].version \in Nat
      BY <1>2, StateFields
    <3>4. Kept(node[w], node[w], w) /\ HeldInPast(node[w], w)
      BY Unmoved
    <3> QED
      BY <1>4, <2>2, <3>2, <3>3, <3>4 DEF Grown, Kept, HeldInPast
  <2>3. CASE m \notin {n, w}
    BY <1>12, <1>13, <2>3, Unmoved
  <2> QED
    BY <2>1, <2>2, <2>3
<1>15. now \in [Node -> States(submitted)] /\ node' = now
  <2>1. DOMAIN now = Node /\ now = [m \in DOMAIN now |-> now[m]]
    BY <1>10, <1>12
  <2> QED
    BY <1>3, <1>10, <1>14, <2>1
<1>16. NewSyncs(f.ctrl, now)
  BY <1>1, <1>8, <1>13, FlushedIs DEF f
<1>17. Keys'
  <2>1. up' \subseteq up /\ \A m \in up' : m \in Node
    BY <1>1 DEF Roster, Types
  <2>2. NewSyncs(ctrl', node') /\ node' \in [Node -> States(submitted)]
    BY <1>3, <1>15, <1>16
  <2>3. \A m \in up' : Grown(node[m], node'[m], m)
    BY <1>14, <1>15, <2>1
  <2>4. \A m \in Node : HeldInPast(node'[m], m)
    BY <1>14, <1>15
  <2> QED
    BY <2>1, <2>2, <2>3, <2>4, KeysStep
<1>18. Types'
  BY <1>1, <1>3, <1>11, <1>15 DEF Types, Submits, Roster, Beat
<1> QED
  BY <1>14, <1>15, <1>17, <1>18 DEF Sound, TasksInv

LEMMA TakeCtrlKeeps ==
  ASSUME TasksInv, NEW n \in Node, NEW p \in Node, TakeCtrl(n, p)
  PROVE  Sound
<1> DEFINE f == Head(ctrl[p][n])
<1> DEFINE e == [Event(n) EXCEPT !.ctrl = TakenCtrl(p, n)]
<1> DEFINE answered == f.type = "ack" /\ f.current /\ e.s.waiting /\ e.s.leader = p
<1>1. Submits(submitted) /\ Roster /\ Types
  BY NoneSubmitted DEF TakeCtrl, TasksInv
<1>2. /\ EventInv(Event(n), n, submitted) /\ Event(n).s = node[n] /\ Event(n).ctrl = ctrl
      /\ Event(n) \in Events(submitted) /\ node[n] \in States(submitted)
  BY <1>1, EventBegins DEF Types, EventInv
<1>3. ctrl[p][n] # << >> /\ ctrl \in Links(CtrlFrames(submitted))
  BY <1>1 DEF TakeCtrl, Types
<1>4. /\ f \in CtrlFrames(submitted) /\ f = ctrl[p][n][1] /\ 1 \in DOMAIN ctrl[p][n]
      /\ TakenCtrl(p, n) \in Links(CtrlFrames(submitted)) /\ OldSyncs(TakenCtrl(p, n))
  <2>1. /\ TakenCtrl(p, n) \in Links(CtrlFrames(submitted))
        /\ \A r, q \in Node : \A i \in DOMAIN TakenCtrl(p, n)[r][q] :
              \E j \in DOMAIN ctrl[r][q] : ctrl[r][q][j] = TakenCtrl(p, n)[r][q][i]
        /\ f \in CtrlFrames(submitted) /\ f = ctrl[p][n][1] /\ 1 \in DOMAIN ctrl[p][n]
    BY <1>3, FrameTaken DEF TakenCtrl
  <2> QED
    BY <2>1 DEF OldSyncs
<1>5. EventInv(e, n, submitted) /\ e.s = node[n] /\ e \in Events(submitted)
  <2>1. e \in Events(submitted) /\ e.s = node[n] /\ e.ctrl = TakenCtrl(p, n)
    BY <1>2, <1>4 DEF Events
  <2> HIDE DEF e
  <2> QED
    BY <1>2, <1>4, <2>1 DEF EventInv
<1>6. \/ f.type = "join" /\ Handled(n, HandleJoin(e, n, p, f))
      \/ f.type = "sync" /\ Handled(n, [e EXCEPT !.s = HandleSync(@, n, p, f)])
      \/ Handled(n, HandleAck(e, n, p))
      \/ Evaluates(n, [e EXCEPT !.s.waiting = FALSE, !.s.leader = None])
      \/ Handled(n, e)
  BY Zenon DEF TakeCtrl
<1> HIDE DEF e, f
<1>7. CASE f.type = "join" /\ Handled(n, HandleJoin(e, n, p, f))
  <2>1. f \in Joins
    BY <1>4, <1>7 DEF CtrlFrames, Acks, Syncs
  <2>2. EventInv(HandleJoin(e, n, p, f), n, submitted)
    BY <1>5, <2>1, HandleJoinKeeps
  <2> QED
    BY <1>1, <1>7, <2>2, HandledKeeps
<1>8. CASE f.type = "sync" /\ Handled(n, [e EXCEPT !.s = HandleSync(@, n, p, f)])
  <2>1. f \in Syncs(submitted)
    BY <1>4, <1>8 DEF CtrlFrames, Acks, Joins
  <2>2. p \in up => Behind(f.term, f.version, f.ledger, node[p], p)
    BY <1>4, <1>8 DEF TasksInv, Keys, SentInPast
  <2>3. EventInv([e EXCEPT !.s = HandleSync(@, n, p, f)], n, submitted)
    BY <1>1, <1>5, <2>1, <2>2, HandleSyncKeeps
  <2> QED
    BY <1>1, <1>8, <2>3, HandledKeeps
<1>9. CASE Handled(n, HandleAck(e, n, p))
  <2>1. EventInv(HandleAck(e, n, p), n, submitted)
    BY <1>1, <1>5, HandleAckKeeps
  <2> QED
    BY <1>1, <1>9, <2>1, HandledKeeps
<1>10. CASE Evaluates(n, [e EXCEPT !.s.waiting = FALSE, !.s.leader = None])
  <2> DEFINE z == [e.s EXCEPT !.waiting = FALSE, !.leader = None]
  <2> DEFINE d == [e EXCEPT !.s = z]
  <2>1. [e EXCEPT !.s.waiting = FALSE, !.s.leader = None] = d
    BY <1>2, <1>5 DEF Events, States
  <2>2. /\ z \in States(submitted) /\ z.leaders = e.s.leaders /\ z.term = e.s.term
        /\ z.ledger = e.s.ledger /\ z.version = e.s.version /\ z.leader = None
    BY <1>2, <1>5 DEF States
  <2>3. d.s = z
    BY <1>5 DEF Events
  <2> HIDE DEF z
  <2>4. Past(z, n)
    <3>1. None \notin up
      BY <1>1, TasksAssumption DEF Types
    <3> QED
      BY <1>5, <2>2, <3>1 DEF EventInv, Past, Grown, Kept, HeldInPast
  <2>5. EventInv(d, n, submitted)
    BY <1>5, <2>2, <2>4, EventMoved
  <2> HIDE DEF d
  <2> QED
    BY <1>1, <1>5, <1>10, <2>1, <2>2, <2>3, <2>5, EvaluatesKeeps
<1>11. CASE Handled(n, e)
  BY <1>1, <1>5, <1>11, HandledKeeps
<1> QED
  BY <1>6, <1>7, <1>8, <1>9, <1>10, <1>11

LEMMA TakeDataKeeps ==
  ASSUME TasksInv, NEW n \in Node, NEW p \in Node, TakeData(n, p)
  PROVE  Sound
<1> DEFINE f == Head(data[p][n])
<1> DEFINE e == [Event(n) EXCEPT !.data = TakenData(p, n)]
<1>1. Submits(submitted) /\ Roster /\ Types
  BY NoneSubmitted DEF TakeData, TasksInv
<1>2. /\ EventInv(Event(n), n, submitted) /\ Event(n).s = node[n]
      /\ Event(n) \in Events(submitted)
  BY <1>1, EventBegins DEF EventInv
<1>3. data[p][n] # << >> /\ data \in Links(DataFrames(submitted))
  BY <1>1 DEF TakeData, Types
<1>4. f \in DataFrames(submitted) /\ TakenData(p, n) \in Links(DataFrames(submitted))
  BY <1>3, FrameTaken DEF TakenData
<1>5. EventInv(e, n, submitted) /\ e.s = node[n]
  <2>1. e \in Events(submitted) /\ e.s = node[n] /\ e.ctrl = Event(n).ctrl
    BY <1>2, <1>4 DEF Events
  <2> HIDE DEF e
  <2> QED
    BY <1>2, <2>1 DEF EventInv
<1>6. Handled(n, IF f.type = "task" THEN HandleTask(e, n, p, f.task)
                 ELSE CompleteTask(e, n, f.task, f.by))
  BY Zenon DEF TakeData
<1> HIDE DEF e, f
<1>7. CASE f.type = "task"
  <2>1. f.task \in Bodies(submitted)
    BY <1>4, <1>7 DEF DataFrames
  <2>2. EventInv(HandleTask(e, n, p, f.task), n, submitted)
    BY <1>1, <1>5, <2>1, HandleTaskKeeps
  <2> QED
    BY <1>1, <1>6, <1>7, <2>2, HandledKeeps
<1>8. CASE f.type # "task"
  <2>1. f.task \in submitted /\ f.by \in Node
    BY <1>4, <1>8 DEF DataFrames
  <2>2. EventInv(CompleteTask(e, n, f.task, f.by), n, submitted)
    BY <1>1, <1>5, <2>1, CompleteTaskKeeps
  <2> QED
    BY <1>1, <1>6, <1>8, <2>2, HandledKeeps
<1> QED
  BY <1>7, <1>8

LEMMA ShedKeeps ==
  ASSUME TasksInv, NEW n \in Node, NEW p \in Node, Shed(n, p)
  PROVE  Sound
<1>1. Submits(submitted) /\ Roster
  BY NoneSubmitted DEF Shed
<1>2. data' \in Links(DataFrames(submitted))
  <2>1. data[p][n] # << >> /\ data \in Links(DataFrames(submitted))
    BY DEF Shed, TasksInv, Types
  <2>2. TakenData(p, n) \in Links(DataFrames(submitted))
    BY <2>1, FrameTaken DEF TakenData
  <2> QED
    BY <2>2 DEF Shed
<1> QED
  BY <1>1, <1>2, LinksStay, QuietKeeps DEF Shed

LEMMA CrashKeeps ==
  ASSUME TasksInv, NEW n \in Node, Crash(n)
  PROVE  Sound
<1>1. PICK now : now = [node EXCEPT ![n] = Booted({}, None)]
  OBVIOUS
<1>2. Types /\ node \in [Node -> States(submitted)]
  BY DEF TasksInv, Types
<1>3. /\ Booted({}, None) \in States(submitted)
      /\ ~Booted({}, None).held /\ Booted({}, None).leaders = {}
  <2>1. << >> \in Ledgers(submitted)
    BY TasksAssumption, EmptySeq DEF Ledgers, Unique
  <2>2. {} \in Runs(submitted)
    BY FS_EmptySet, TasksAssumption DEF Runs
  <2>3. << >> \in Seq(Bodies(submitted))
    OBVIOUS
  <2> QED
    BY <2>1, <2>2, <2>3 DEF Booted, States
<1>4. /\ now \in [Node -> States(submitted)] /\ now[n] = Booted({}, None)
      /\ \A m \in Node : m # n => now[m] = node[m]
      /\ node' = now /\ up' = up \ {n}
  BY <1>1, <1>2, <1>3 DEF Crash
<1>5. /\ Without(ctrl, n) \in Links(CtrlFrames(submitted))
      /\ Without(data, n) \in Links(DataFrames(submitted)) /\ NewSyncs(Without(ctrl, n), now)
  BY <1>2 DEF Without, Links, NewSyncs, Types
<1>6. ASSUME NEW m \in Node
      PROVE  /\ Kept(node[m], now[m], m) /\ HeldInPast(now[m], m)
             /\ m # n => Grown(node[m], now[m], m)
  <2>1. CASE m = n
    BY <1>3, <1>4, <2>1 DEF Kept, HeldInPast
  <2>2. CASE m # n
    BY <1>4, <2>2, Unmoved
  <2> QED
    BY <2>1, <2>2
<1>7. Keys'
  <2>1. up' \subseteq up /\ \A m \in up' : m \in Node /\ m # n
    BY <1>2, <1>4 DEF Types
  <2>2. NewSyncs(ctrl', node') /\ node' \in [Node -> States(submitted)]
    BY <1>4, <1>5 DEF Crash
  <2>3. \A m \in up' : Grown(node[m], node'[m], m)
    BY <1>4, <1>6, <2>1
  <2>4. \A m \in Node : HeldInPast(node'[m], m)
    BY <1>4, <1>6
  <2> QED
    BY <2>1, <2>2, <2>3, <2>4, KeysStep
<1>8. Types'
  BY <1>2, <1>4, <1>5 DEF Types, Crash
<1> QED
  BY <1>4, <1>6, <1>7, <1>8 DEF Sound, TasksInv

\* An event that begins with what n comes to know of others.
LEMMA EventNoted ==
  ASSUME TasksInv, NEW n \in Node, NEW z \in States(submitted), SameBooks(node[n], z)
  PROVE  /\ EventInv([Event(n) EXCEPT !.s = z], n, submitted)
         /\ [Event(n) EXCEPT !.s = z].s = z
         /\ Event(n) \in Events(submitted) /\ Event(n).s = node[n]
<1>1. EventInv(Event(n), n, submitted) /\ Event(n).s = node[n]
  BY EventBegins
<1>2. Event(n) \in Events(submitted)
  BY <1>1 DEF EventInv
<1>3. [Event(n) EXCEPT !.s = z].s = z
  BY <1>2 DEF Events
<1> QED
  BY <1>1, <1>2, <1>3, EventRestated

LEMMA PeerDownKeeps ==
  ASSUME TasksInv, NEW n \in Node, NEW m \in Node, PeerDown(n, m)
  PROVE  Sound
<1> DEFINE z == [node[n] EXCEPT !.attached = @ \ {m}, !.lost = @ \cup {m}]
<1> DEFINE y == [z EXCEPT !.doubted = @ \cup {m}]
<1> DEFINE e == [Event(n) EXCEPT !.s = z]
<1> DEFINE d == [Event(n) EXCEPT !.s = y]
<1>1. Submits(submitted) /\ Roster /\ node[n] \in States(submitted)
  BY NoneSubmitted DEF PeerDown, TasksInv, Types
<1>2. /\ z \in States(submitted) /\ SameBooks(node[n], z)
      /\ y \in States(submitted) /\ SameBooks(node[n], y)
  BY <1>1 DEF States, SameBooks
<1>3. Event(n) \in Events(submitted) /\ Event(n).s = node[n]
  BY EventBegins DEF EventInv
<1>4. Handled(n, e) \/ Evaluates(n, d)
  <2>1. [Event(n) EXCEPT !.s.attached = @ \ {m}, !.s.lost = @ \cup {m}] = e
    BY <1>1, <1>3 DEF Events, States
  <2>2. [e EXCEPT !.s.doubted = @ \cup {m}] = d
    BY <1>1, <1>3 DEF Events, States
  <2> HIDE DEF e, d
  <2> QED
    BY <2>1, <2>2 DEF PeerDown
<1> HIDE DEF z, y
<1>5. EventInv(e, n, submitted) /\ EventInv(d, n, submitted) /\ d.s = y
  BY <1>2, EventNoted
<1> HIDE DEF e, d
<1>6. d.s.leaders = node[n].leaders
  BY <1>2, <1>5 DEF SameBooks
<1> QED
  BY <1>1, <1>4, <1>5, <1>6, HandledKeeps, EvaluatesKeeps

LEMMA ReassignFromKeeps ==
  ASSUME NEW S, NEW n \in Node, Types, NEW e, EventInv(e, n, S),
         e.s.ledger = node[n].ledger, NEW w
  PROVE  /\ EventInv(ReassignFrom(e, n, w), n, S)
         /\ ReassignFrom(e, n, w).s.leaders = e.s.leaders
<1>1. e.s \in States(S)
  BY EventFields DEF EventInv
<1>2. CASE ~Leads(e.s, n)
  BY <1>2 DEF ReassignFrom
<1>3. CASE Leads(e.s, n)
  <2>1. PICK pending : pending = PendingTasks(e.s, {w})
    OBVIOUS
  <2>2. /\ pending \in Seq(Bodies(S))
        /\ \A i \in 1..Len(pending) : Fresh(n, pending[i].task)
    BY <1>1, <2>1, PendingFresh
  <2>3. /\ EventInv(AssignAll(e, n, pending), n, S)
        /\ AssignAll(e, n, pending).s.leaders = e.s.leaders
    BY <1>3, <2>2, AssignAllKeeps
  <2> QED
    BY <1>3, <2>1, <2>3 DEF ReassignFrom
<1> QED
  BY <1>2, <1>3

LEMMA ConfirmKeeps ==
  ASSUME TasksInv, NEW n \in Node, NEW m \in Node, Confirm(n, m)
  PROVE  Sound
<1> DEFINE z == [node[n] EXCEPT !.doubted = @ \ {m}]
<1> DEFINE y == [z EXCEPT !.attached = @ \ {m}, !.dead = @ \cup {m}]
<1> DEFINE e == [Event(n) EXCEPT !.s = z]
<1> DEFINE d == [Event(n) EXCEPT !.s = y]
<1>1. Submits(submitted) /\ Roster /\ node[n] \in States(submitted) /\ Types
  BY NoneSubmitted DEF Confirm, TasksInv, Types
<1>2. /\ z \in States(submitted) /\ SameBooks(node[n], z)
      /\ y \in States(submitted) /\ SameBooks(node[n], y)
  BY <1>1 DEF States, SameBooks
<1>3. Event(n) \in Events(submitted) /\ Event(n).s = node[n]
  BY EventBegins DEF EventInv
<1>4. Handled(n, e) \/ Evaluates(n, ReassignFrom(d, n, m))
  <2>1. [Event(n) EXCEPT !.s.doubted = @ \ {m}] = e
    BY <1>1, <1>3 DEF Events, States
  <2>2. [e EXCEPT !.s.attached = @ \ {m}, !.s.dead = @ \cup {m}] = d
    BY <1>1, <1>3 DEF Events, States
  <2> HIDE DEF e, d
  <2> QED
    BY <2>1, <2>2 DEF Confirm
<1> HIDE DEF z, y
<1>5. EventInv(e, n, submitted) /\ EventInv(d, n, submitted) /\ d.s = y
  BY <1>2, EventNoted
<1> HIDE DEF e, d
<1>6. d.s.leaders = node[n].leaders /\ d.s.ledger = node[n].ledger
  BY <1>2, <1>5 DEF SameBooks
<1>7. /\ EventInv(ReassignFrom(d, n, m), n, submitted)
      /\ ReassignFrom(d, n, m).s.leaders = node[n].leaders
  BY <1>1, <1>5, <1>6, ReassignFromKeeps
<1> QED
  BY <1>1, <1>4, <1>5, <1>7, HandledKeeps, EvaluatesKeeps

LEMMA HearDeathKeeps ==
  ASSUME TasksInv, NEW n \in Node, NEW m \in Node, HearDeath(n, m)
  PROVE  Sound
<1> DEFINE z == [node[n] EXCEPT !.dead = @ \cup {m}]
<1> DEFINE e == [Event(n) EXCEPT !.s = z]
<1>1. Submits(submitted) /\ Roster /\ node[n] \in States(submitted)
  BY NoneSubmitted DEF HearDeath, TasksInv, Types
<1>2. z \in States(submitted) /\ SameBooks(node[n], z)
  BY <1>1 DEF States, SameBooks
<1>3. Event(n) \in Events(submitted) /\ Event(n).s = node[n]
  BY EventBegins DEF EventInv
<1>4. Evaluates(n, e)
  <2>1. [Event(n) EXCEPT !.s.dead = @ \cup {m}] = e
    BY <1>1, <1>3 DEF Events, States
  <2> HIDE DEF e
  <2> QED
    BY <2>1 DEF HearDeath
<1> HIDE DEF z
<1>5. EventInv(e, n, submitted) /\ e.s = z
  BY <1>2, EventNoted
<1> HIDE DEF e
<1>6. e.s.leaders = node[n].leaders
  BY <1>2, <1>5 DEF SameBooks
<1> QED
  BY <1>1, <1>4, <1>5, <1>6, EvaluatesKeeps

LEMMA ElectKeeps ==
  ASSUME TasksInv, Elect
  PROVE  Sound
<1>1. /\ Submits(submitted) /\ Roster
      /\ node' = node /\ reported' = reported /\ ctrl' = ctrl /\ data' = data
  BY TasksAssumption DEF Elect, Submits, Roster, TasksInv, Types
<1> QED
  BY <1>1, LinksStay, QuietKeeps

LEMMA StutterKeeps ==
  ASSUME TasksInv, UNCHANGED vars
  PROVE  Sound
<1>1. /\ Submits(submitted) /\ Roster
      /\ node' = node /\ reported' = reported /\ ctrl' = ctrl /\ data' = data
  BY DEF vars, Submits, Roster, TasksInv, Types
<1> QED
  BY <1>1, LinksStay, QuietKeeps

LEMMA NextKeeps ==
  ASSUME TasksInv, [Next]_vars
  PROVE  Sound
<1>1. ASSUME NEW n \in Node, NEW t \in Task, Submit(n, t)
      PROVE  Sound
  BY <1>1, SubmitKeeps
<1>2. ASSUME NEW n \in Node,
             Reevaluate(n) \/ ReissueIfDue(n) \/ PeriodicSync(n) \/ Crash(n)
      PROVE  Sound
  BY <1>2, ReevaluateKeeps, ReissueIfDueKeeps, PeriodicSyncKeeps, CrashKeeps
<1>3. ASSUME NEW n \in Node, NEW r \in node[n].running, FinishTask(n, r)
      PROVE  Sound
  BY <1>3, FinishTaskKeeps
<1>4. ASSUME NEW n \in Node, NEW m \in Node,
             Beat(n, m) \/ TakeCtrl(n, m) \/ TakeData(n, m) \/ Shed(n, m)
      PROVE  Sound
  BY <1>4, BeatKeeps, TakeCtrlKeeps, TakeDataKeeps, ShedKeeps
<1>5. ASSUME NEW n \in Node, NEW m \in Node,
             PeerDown(n, m) \/ Confirm(n, m) \/ HearDeath(n, m)
      PROVE  Sound
  BY <1>5, PeerDownKeeps, ConfirmKeeps, HearDeathKeeps
<1>6. CASE Elect
  BY <1>6, ElectKeeps
<1>7. CASE UNCHANGED vars
  BY <1>7, StutterKeeps
<1> QED
  BY <1>1, <1>2, <1>3, <1>4, <1>5, <1>6, <1>7 DEF Next

-----------------------------------------------------------------------------
\* What follows.

LEMMA InitSound == Init => TasksInv
<1> SUFFICES ASSUME Init
             PROVE  TasksInv
  OBVIOUS
<1> DEFINE workers == Node \ {First}
<1> DEFINE settled == [Booted({First}, First) EXCEPT !.version = Cardinality(workers)]
<1>1. First \in Node /\ First # None /\ Cardinality(workers) \in Nat
  BY TasksAssumption, FS_Subset, FS_CardinalityType
<1>2. /\ node = [n \in Node |-> IF n = First THEN [settled EXCEPT !.attached = workers]
                                ELSE [settled EXCEPT !.held = TRUE]]
      /\ ctrl = [p \in Node |-> [q \in Node |-> << >>]]
      /\ data = [p \in Node |-> [q \in Node |-> << >>]]
      /\ up = Node /\ elected = {First} /\ submitted = {} /\ reported = {}
  BY Zenon DEF Init
<1>3. /\ settled \in States({}) /\ settled.leaders = {First} /\ settled.leader = First
      /\ settled.term = 1 /\ settled.heldTerm = 1 /\ settled.version = Cardinality(workers)
      /\ settled.ledger = << >>
  <2>1. << >> \in Ledgers({})
    BY TasksAssumption, EmptySeq DEF Ledgers, Unique
  <2>2. {} \in Runs({})
    BY FS_EmptySet, TasksAssumption DEF Runs
  <2>3. << >> \in Seq(Bodies({}))
    OBVIOUS
  <2> QED
    BY <1>1, <2>1, <2>2, <2>3 DEF Booted, States
<1> HIDE DEF settled
<1>4. ASSUME NEW n \in Node
      PROVE  /\ node[n] \in States({}) /\ node[n].leaders = {First} /\ node[n].leader = First
             /\ node[n].term = 1 /\ node[n].heldTerm = 1
             /\ node[n].version = Cardinality(workers) /\ node[n].ledger = << >>
  <2>1. \/ node[n] = [settled EXCEPT !.attached = workers]
        \/ node[n] = [settled EXCEPT !.held = TRUE]
    BY <1>2
  <2> QED
    BY <1>3, <2>1 DEF States
<1>5. Types
  <2>1. ctrl \in Links(CtrlFrames({})) /\ data \in Links(DataFrames({}))
    BY <1>2 DEF Links
  <2>2. node \in [Node -> States({})]
    BY <1>2, <1>4
  <2> QED
    BY <1>1, <1>2, <2>1, <2>2 DEF Types
<1>6. \A l \in up : SentInPast(l)
  BY <1>2 DEF SentInPast
<1>7. ASSUME NEW w \in Node
      PROVE  HeldInPast(node[w], w)
  <2> HIDE DEF workers
  <2> SUFFICES ASSUME NEW l \in up \ {w}
               PROVE  Behind(node[w].heldTerm, node[w].version, node[w].ledger, node[l], l)
    BY DEF HeldInPast
  <2> QED
    BY <1>1, <1>2, <1>4 DEF Behind
<1> QED
  BY <1>5, <1>6, <1>7 DEF TasksInv, Keys

LEMMA TasksInvHolds == Spec => []TasksInv
<1>1. TasksInv /\ [Next]_vars => TasksInv'
  BY NextKeeps DEF Sound
<1> QED
  BY <1>1, InitSound, PTL DEF Spec

LEMMA InvSound == TasksInv => LedgersSound
<1> SUFFICES ASSUME TasksInv
             PROVE  LedgersSound
  OBVIOUS
<1>1. submitted \subseteq Task /\ reported \subseteq submitted /\ up \subseteq Node
  BY DEF TasksInv, Types
<1>2. ASSUME NEW n \in Node
      PROVE  node[n] \in States(submitted)
  BY DEF TasksInv, Types
<1>3. TypeOK
  <2> SUFFICES ASSUME NEW n \in Node, NEW s, s = node[n]
               PROVE  /\ {s.leader} \subseteq Node \cup {None}
                      /\ s.leaders \cup s.attached \cup s.lost \cup s.doubted \cup s.dead
                           \subseteq Node
                      /\ {s.term, s.version, s.heldTerm, s.next} \subseteq Nat
                      /\ {s.waiting, s.held, s.reissueDue} \subseteq BOOLEAN
                      /\ Range(s.ledger) \subseteq Record /\ Len(s.ledger) <= LedgerSize
                      /\ Range(s.handoff) \subseteq Payload
                      /\ Cardinality(s.running) <= MaxInflight
    BY <1>1 DEF TypeOK
  <2>1. s \in States(submitted)
    BY <1>2
  <2>2. /\ {s.leader} \subseteq Node \cup {None}
        /\ s.leaders \cup s.attached \cup s.lost \cup s.doubted \cup s.dead \subseteq Node
        /\ {s.term, s.version, s.heldTerm, s.next} \subseteq Nat
        /\ {s.waiting, s.held, s.reissueDue} \subseteq BOOLEAN
    BY <2>1, StateFields
  <2>3. Range(s.ledger) \subseteq Record /\ Len(s.ledger) <= LedgerSize
    <3>1. s.ledger \in Ledgers(submitted)
      BY <2>1, StateFields
    <3>2. Len(s.ledger) <= LedgerSize /\ \A i \in DOMAIN s.ledger : s.ledger[i] \in Records(submitted)
      BY <3>1, LedgerFacts
    <3>3. Records(submitted) \subseteq Record
      BY <1>1 DEF Records, Record
    <3> QED
      BY <3>2, <3>3 DEF Range
  <2>4. Range(s.handoff) \subseteq Payload
    <3>1. s.handoff \in Seq(Bodies(submitted))
      BY <2>1, StateFields
    <3>2. \A i \in DOMAIN s.handoff : s.handoff[i] \in Bodies(submitted)
      BY <3>1, ElementOfSeq, LenProperties
    <3>3. Bodies(submitted) \subseteq Payload
      BY <1>1 DEF Bodies, Payload
    <3> QED
      BY <3>2, <3>3 DEF Range
  <2>5. Cardinality(s.running) <= MaxInflight
    BY <2>1, StateFields DEF Runs
  <2> QED
    BY <2>2, <2>3, <2>4, <2>5
<1>4. LedgerUnique
  BY <1>2, StateFields, LedgerFacts DEF LedgerUnique
<1>5. SameKeySameLedger
  BY <1>1 DEF SameKeySameLedger, TasksInv, Keys, HeldInPast, Attached, Leads, Behind
<1> QED
  BY <1>3, <1>4, <1>5 DEF LedgersSound

\* The replicated ledger is sound: what each node holds is of its type and bounds,
\* no ledger records a task twice, and a worker with the key of its leader's ledger
\* has that ledger (leadTask, newerSnapshot, handleStateSync).
THEOREM LedgersAreSound == Spec => []LedgersSound
<1>1. TasksInv => LedgersSound
  BY InvSound
<1> QED
  BY <1>1, TasksInvHolds, PTL

\* The first result of a task stays recorded as long as its leader leads: completeTask
\* takes no second one, and no re-issue, hand-off or repeated submission touches it.
THEOREM FirstResultKept == Spec => FirstKept
<1>1. TasksInv /\ [Next]_vars =>
        [\A n \in up : Leads(node[n], n) /\ Leads(node'[n], n) =>
           \A i \in DOMAIN node[n].ledger : node[n].ledger[i].done =>
             \A j \in DOMAIN node'[n].ledger :
               node'[n].ledger[j].task = node[n].ledger[i].task => node'[n].ledger[j] = node[n].ledger[i]]_vars
  <2> SUFFICES ASSUME TasksInv, [Next]_vars
               PROVE  \A n \in up : Leads(node[n], n) /\ Leads(node'[n], n) =>
                        \A i \in DOMAIN node[n].ledger : node[n].ledger[i].done =>
                          \A j \in DOMAIN node'[n].ledger :
                            node'[n].ledger[j].task = node[n].ledger[i].task
                              => node'[n].ledger[j] = node[n].ledger[i]
    OBVIOUS
  <2>1. \A n \in Node : Kept(node[n], node'[n], n)
    BY NextKeeps DEF Sound
  <2>2. up \subseteq Node
    BY DEF TasksInv, Types
  <2> QED
    BY <2>1, <2>2 DEF Kept, Leads
<1> QED
  BY <1>1, TasksInvHolds, PTL DEF Spec, FirstKept
=============================================================================
