------------------------------ MODULE RulesProofs ------------------------------
(***************************************************************************)
(* The rules a node applies to what it hears, for every value of their     *)
(* constants.                                                              *)
(*                                                                         *)
(* The merge (MergeOrder): the inductive invariant says what a node holds  *)
(* in terms of the SET of rumours it has heard, never of their order:      *)
(* their join.                                                             *)
(*                                                                         *)
(* The scores (Latency): two peers are compared by the averages they had   *)
(* before the round in flight, which the samples of that round may have    *)
(* reached one and not the other; and what a node claims follows from the  *)
(* k-th lowest of its scores being one of them.                            *)
(*                                                                         *)
(* The failure detector (Probing): what the PINGs of a round know of the   *)
(* doubts that were raised before it.                                      *)
(*                                                                         *)
(* The election (Election): the seats change hands one incumbent at a time,*)
(* in the order of their ids; from turn to turn the newcomers seated only  *)
(* go and the incumbents only come, so what one turn decides no later turn *)
(* takes back.                                                             *)
(***************************************************************************)
EXTENDS MCRules, SequenceTheorems, FiniteSetTheorems, WellFoundedInduction, TLAPS

-----------------------------------------------------------------------------
(***************************************************************************)
(* Merge is a join.  Two records of one member are coherent when the same  *)
(* incarnation and seq name the same claim, and ordered when their claims  *)
(* carry a seq at all.                                                     *)
(***************************************************************************)

\* The claim kept by a merge is a claim.
LEMMA MergedClaimType ==
  ASSUME NEW c \in Claim, NEW d \in Claim
  PROVE  MergedClaim(c, d) \in Claim
BY DEF MergedClaim, Claim

\* Merging two records gives a record.
LEMMA MergeType ==
  ASSUME NEW r \in Record, NEW s \in Record
  PROVE  Merge(r, s) \in Record
<1>1. MergedClaim(r.claim, s.claim) \in Claim
  BY MergedClaimType DEF Record
<1>2. Worse(r.st, s.st) \in State
  BY DEF Worse, Record
<1> QED
  BY <1>1, <1>2 DEF Merge, Record

Ordered(r) == r.claim.seq # 0

CoherentPair(r, s) ==
  (r.inc = s.inc /\ r.claim.seq = s.claim.seq) => r.claim = s.claim

\* What a merge keeps, part by part, of two records at one incarnation.
LEMMA MergeSameIncarnation ==
  ASSUME NEW r \in Record, NEW s \in Record, r.inc = s.inc, Ordered(s)
  PROVE  /\ Merge(r, s).inc = r.inc
         /\ Merge(r, s).st = (IF r.st < s.st THEN s.st ELSE r.st)
         /\ Merge(r, s).claim = (IF s.claim.seq > r.claim.seq THEN s.claim ELSE r.claim)
<1>1. /\ r.inc \in Int /\ s.inc \in Int
      /\ r = [st |-> r.st, inc |-> r.inc, claim |-> r.claim]
  BY DEF Record, Incarnation
<1>2. Merge(r, s) = [r EXCEPT !.st = Worse(r.st, s.st),
                              !.claim = MergedClaim(r.claim, s.claim)]
  BY <1>1 DEF Merge
<1>3. MergedClaim(r.claim, s.claim)
        = IF s.claim.seq > r.claim.seq THEN s.claim ELSE r.claim
  BY DEF MergedClaim, Ordered
<1> QED
  BY <1>1, <1>2, <1>3 DEF Worse

\* Two records with the same parts are the same record.
LEMMA SameParts ==
  ASSUME NEW r \in Record, NEW s \in Record,
         r.inc = s.inc, r.st = s.st, r.claim = s.claim
  PROVE  r = s
BY DEF Record

\* Upsert does not care which of two published records of a member came first:
\* the order of arrival leaves no trace (member.go, Upsert's merge rule).
THEOREM MergeCommutes ==
  ASSUME NEW r \in Record, NEW s \in Record,
         Ordered(r), Ordered(s), CoherentPair(r, s)
  PROVE  Merge(r, s) = Merge(s, r)
<1>1. r.inc \in Int /\ s.inc \in Int /\ r.st \in Int /\ s.st \in Int
      /\ r.claim.seq \in Nat /\ s.claim.seq \in Nat
  BY DEF Record, Incarnation, Claim, State, Alive, Suspect, Dead
<1>2. CASE r.inc = s.inc
  <2>1. Merge(r, s) \in Record /\ Merge(s, r) \in Record
    BY MergeType
  <2>2. Merge(r, s).inc = Merge(s, r).inc /\ Merge(r, s).st = Merge(s, r).st
    BY <1>1, <1>2, MergeSameIncarnation
  <2>3. Merge(r, s).claim = Merge(s, r).claim
    BY <1>1, <1>2, MergeSameIncarnation DEF CoherentPair
  <2> QED
    BY <2>1, <2>2, <2>3, SameParts
<1>3. CASE r.inc < s.inc
  BY <1>1, <1>3 DEF Merge
<1>4. CASE s.inc < r.inc
  BY <1>1, <1>4 DEF Merge
<1> QED
  BY <1>1, <1>2, <1>3, <1>4

\* Hearing a record again changes nothing, however often gossip repeats it.
THEOREM MergeAbsorbs ==
  ASSUME NEW r \in Record, NEW s \in Record, Ordered(s)
  PROVE  Merge(Merge(r, s), s) = Merge(r, s)
<1> DEFINE m == Merge(r, s)
<1>1. m \in Record /\ Merge(m, s) \in Record
  BY MergeType
<1>2. r.inc \in Int /\ s.inc \in Int /\ r.st \in Int /\ s.st \in Int
      /\ r.claim.seq \in Nat /\ s.claim.seq \in Nat
  BY DEF Record, Incarnation, Claim, State, Alive, Suspect, Dead
<1>3. CASE r.inc = s.inc
  <2>1. /\ m.inc = s.inc
        /\ m.st = (IF r.st < s.st THEN s.st ELSE r.st)
        /\ m.claim = (IF s.claim.seq > r.claim.seq THEN s.claim ELSE r.claim)
    BY <1>3, MergeSameIncarnation
  <2>2. /\ Merge(m, s).inc = m.inc
        /\ Merge(m, s).st = (IF m.st < s.st THEN s.st ELSE m.st)
        /\ Merge(m, s).claim = (IF s.claim.seq > m.claim.seq THEN s.claim ELSE m.claim)
    BY <1>1, <2>1, MergeSameIncarnation
  <2>3. Merge(m, s).st = m.st /\ Merge(m, s).claim = m.claim
    BY <1>2, <2>1, <2>2
  <2> QED
    BY <1>1, <2>2, <2>3, SameParts
<1>4. CASE s.inc < r.inc
  BY <1>2, <1>4 DEF Merge
<1>5. CASE s.inc > r.inc
  <2>1. m = s
    BY <1>5 DEF Merge
  <2>2. /\ Merge(s, s).inc = s.inc /\ Merge(s, s).st = s.st
        /\ Merge(s, s).claim = s.claim
    BY <1>2, MergeSameIncarnation
  <2> QED
    BY <1>1, <2>1, <2>2, SameParts
<1> QED
  BY <1>2, <1>3, <1>4, <1>5

-----------------------------------------------------------------------------
(* What a node holds after any number of merges. *)

\* r is the join of the records in H: the latest incarnation, and at it the worst
\* state and the newest claim.
Joined(r, H) ==
  /\ \A x \in H : x.inc <= r.inc
  /\ \A x \in H : x.inc = r.inc => x.st <= r.st /\ x.claim.seq <= r.claim.seq
  /\ \E x \in H : x.inc = r.inc /\ x.st = r.st
  /\ \E x \in H : x.inc = r.inc /\ x.claim = r.claim

\* What a node had to go by: what it knew first and what it has heard.
Facts(h) == First \cup heard[h]

Inv ==
  /\ held \in [Hearer -> Record]
  /\ heard \in [Hearer -> SUBSET Published]
  /\ Coherent(First \cup Rumours)
  /\ \A h \in Hearer : Joined(held[h], Facts(h))

-----------------------------------------------------------------------------
LEMMA PublishedIsOrdered ==
  ASSUME NEW r \in Published
  PROVE  r \in Record /\ Ordered(r)
BY MergeOrderAssumption DEF Published, Record, Claim, Ordered

LEMMA FirstIsOrdered ==
  ASSUME NEW r \in First
  PROVE  r \in Record /\ Ordered(r)
<1>1. r = [st |-> Alive, inc |-> 1,
           claim |-> [role |-> "worker", score |-> NoScore, seq |-> 1]]
  BY DEF First
<1>2. 1 \in Incarnation
  BY MaxIncAssumption DEF Incarnation
<1>3. Alive \in State /\ "worker" \in Role /\ NoScore \in Score
  BY ScoreAssumption DEF State, Role
<1> QED
  BY <1>1, <1>2, <1>3 DEF Record, Claim, Ordered

\* The parts of a record are numbers, so they are ordered.
LEMMA Numbers ==
  ASSUME NEW r \in Record
  PROVE  r.inc \in Int /\ r.st \in Int /\ r.claim.seq \in Int
BY DEF Record, Incarnation, Claim, State, Alive, Suspect, Dead

\* Coherent facts have one join, whatever order it was built in.
LEMMA JoinIsUnique ==
  ASSUME NEW r \in Record, NEW s \in Record, NEW H \in SUBSET Record,
         Coherent(H), Joined(r, H), Joined(s, H)
  PROVE  r = s
<1>1. r.inc = s.inc
  BY Numbers DEF Joined
<1>2. r.st = s.st
  BY <1>1, Numbers DEF Joined
<1>3. r.claim.seq = s.claim.seq
  BY <1>1, Numbers DEF Joined
<1>4. r.claim = s.claim
  <2>1. PICK x \in H : x.inc = r.inc /\ x.claim = r.claim
    BY DEF Joined
  <2>2. PICK y \in H : y.inc = s.inc /\ y.claim = s.claim
    BY DEF Joined
  <2> QED
    BY <1>1, <1>3, <2>1, <2>2 DEF Coherent
<1> QED
  BY <1>1, <1>2, <1>4, SameParts

\* Merging one more coherent record into the join of H gives the join of both.
LEMMA MergeJoins ==
  ASSUME NEW r \in Record, NEW H \in SUBSET Record, NEW s \in Record,
         Ordered(s), Joined(r, H)
  PROVE  Joined(Merge(r, s), H \cup {s})
<1> DEFINE m == Merge(r, s)
<1>1. m \in Record
  BY MergeType
<1>2. /\ r.inc \in Int /\ r.st \in Int /\ r.claim.seq \in Int
      /\ s.inc \in Int /\ s.st \in Int /\ s.claim.seq \in Int
  BY Numbers
<1>3. \A x \in H : x.inc \in Int /\ x.st \in Int /\ x.claim.seq \in Int
  BY Numbers
<1>4. CASE s.inc > r.inc
  <2>1. m = s
    BY <1>4 DEF Merge
  <2>2. \A x \in H : x.inc < s.inc
    BY <1>2, <1>3, <1>4 DEF Joined
  <2> QED
    BY <1>2, <1>3, <2>1, <2>2 DEF Joined
<1>5. CASE s.inc < r.inc
  <2>1. m = r
    BY <1>2, <1>5 DEF Merge
  <2> QED
    BY <1>2, <1>5, <2>1 DEF Joined
<1>6. CASE s.inc = r.inc
  <2>1. /\ m.inc = r.inc
        /\ m.st = (IF r.st < s.st THEN s.st ELSE r.st)
        /\ m.claim = (IF s.claim.seq > r.claim.seq THEN s.claim ELSE r.claim)
    BY <1>6, MergeSameIncarnation
  <2>2. /\ m.st >= r.st /\ m.st >= s.st
        /\ m.claim.seq >= r.claim.seq /\ m.claim.seq >= s.claim.seq
    BY <1>2, <2>1
  <2>3. \A x \in H \cup {s} : x.inc <= m.inc
    BY <1>2, <1>6, <2>1 DEF Joined
  <2>4. \A x \in H \cup {s} : x.inc = m.inc => x.st <= m.st /\ x.claim.seq <= m.claim.seq
    <3>1. m.st \in Int /\ m.claim.seq \in Int
      BY <1>1, Numbers
    <3>2. \A x \in H : x.inc = m.inc => x.st <= r.st /\ x.claim.seq <= r.claim.seq
      BY <2>1 DEF Joined
    <3> QED
      BY <1>2, <1>3, <2>2, <3>1, <3>2
  <2>5. \E x \in H \cup {s} : x.inc = m.inc /\ x.st = m.st
    BY <1>6, <2>1 DEF Joined
  <2>6. \E x \in H \cup {s} : x.inc = m.inc /\ x.claim = m.claim
    BY <1>6, <2>1 DEF Joined
  <2> QED
    BY <2>3, <2>4, <2>5, <2>6 DEF Joined
<1> QED
  BY <1>2, <1>4, <1>5, <1>6

-----------------------------------------------------------------------------
LEMMA InitInv ==
  ASSUME FirstHeld = "known", Init
  PROVE  Inv
<1> DEFINE f == [st |-> Alive, inc |-> 1,
                 claim |-> [role |-> "worker", score |-> NoScore, seq |-> 1]]
<1>1. First = {f}
  BY DEF First
<1>2. f \in Record
  BY <1>1, FirstIsOrdered
<1>3. held \in [Hearer -> {f}]
  BY <1>1 DEF Init
<1>4. heard = [h \in Hearer |-> {}] /\ Rumours = {}
  BY DEF Init, Rumours, Hearer
<1>5. Coherent(First \cup Rumours)
  BY <1>1, <1>4 DEF Coherent
<1>6. \A h \in Hearer : held[h] = f /\ Facts(h) = {f}
  BY <1>1, <1>3, <1>4 DEF Facts
<1>7. Joined(f, {f})
  BY <1>2, Numbers DEF Joined
<1> QED
  BY <1>2, <1>3, <1>4, <1>5, <1>6, <1>7 DEF Inv

\* One rumour heard: the facts grow by it, and the record held by the merge.
LEMMA HearStep ==
  ASSUME Inv, NEW h \in Hearer, NEW r \in Published, Hear(h, r)
  PROVE  /\ r \in Record /\ Ordered(r)
         /\ held' = [held EXCEPT ![h] = Merge(held[h], r)]
         /\ heard' = [heard EXCEPT ![h] = heard[h] \cup {r}]
<1>1. r \in Record /\ Ordered(r)
  BY PublishedIsOrdered
<1>2. held[h] \in Record /\ held[h] # NoRecord
  BY NoRecordAssumption DEF Inv
<1>3. Heard(held[h], r, FALSE) = Merge(held[h], r)
  BY <1>1, <1>2 DEF Heard, Believed, Ordered
<1> QED
  BY <1>1, <1>3 DEF Hear

LEMMA NextInv ==
  ASSUME Inv, [Next]_vars
  PROVE  Inv'
<1>1. CASE UNCHANGED vars
  BY <1>1 DEF vars, Inv, Rumours, Facts
<1>2. ASSUME NEW h \in Hearer, NEW r \in Published, Hear(h, r)
      PROVE  Inv'
  <2>1. /\ r \in Record /\ Ordered(r)
        /\ held' = [held EXCEPT ![h] = Merge(held[h], r)]
        /\ heard' = [heard EXCEPT ![h] = heard[h] \cup {r}]
    BY <1>2, HearStep
  <2>2. held' \in [Hearer -> Record]
    BY <2>1, MergeType DEF Inv
  <2>3. heard' \in [Hearer -> SUBSET Published]
    BY <2>1 DEF Inv
  <2>4. Coherent(First \cup Rumours)'
    <3>1. (First \cup Rumours)' \subseteq First \cup Rumours \cup {r}
      BY <2>1 DEF Rumours, Inv, Hearer, First
    <3>2. Coherent(Rumours \cup First \cup {r})
      BY <1>2 DEF Hear
    <3> QED
      BY <3>1, <3>2 DEF Coherent
  <2>5. ASSUME NEW k \in Hearer
        PROVE  Joined(held'[k], Facts(k)')
    <3>1. CASE k = h
      <4>1. held'[k] = Merge(held[h], r) /\ Facts(k)' = Facts(h) \cup {r}
        BY <2>1, <3>1 DEF Facts, Inv, First
      <4>2. Facts(h) \in SUBSET Record
        BY PublishedIsOrdered, FirstIsOrdered DEF Facts, Inv
      <4>3. held[h] \in Record /\ Joined(held[h], Facts(h))
        BY DEF Inv
      <4> QED
        BY <2>1, <4>1, <4>2, <4>3, MergeJoins
    <3>2. CASE k # h
      <4>1. held'[k] = held[k] /\ Facts(k)' = Facts(k)
        BY <2>1, <3>2 DEF Facts, Inv, First
      <4> QED
        BY <4>1 DEF Inv
    <3> QED
      BY <3>1, <3>2
  <2> QED
    BY <2>2, <2>3, <2>4, <2>5 DEF Inv
<1> QED
  BY <1>1, <1>2 DEF Next

LEMMA InvImpliesOrderFree == Inv => OrderFree
<1> SUFFICES ASSUME Inv, heard[1] = heard[2]
             PROVE  held[1] = held[2]
  BY DEF OrderFree
<1>1. 1 \in Hearer /\ 2 \in Hearer
  BY DEF Hearer
<1>2. held[1] \in Record /\ held[2] \in Record
  BY <1>1 DEF Inv
<1>3. Facts(1) = Facts(2) /\ Facts(1) \in SUBSET Record
  BY <1>1, PublishedIsOrdered, FirstIsOrdered DEF Facts, Inv
<1>4. Coherent(Facts(1))
  BY <1>1 DEF Facts, Rumours, Coherent, Inv
<1>5. Joined(held[1], Facts(1)) /\ Joined(held[2], Facts(1))
  BY <1>1, <1>3 DEF Inv
<1> QED
  BY <1>2, <1>3, <1>4, <1>5, JoinIsUnique

\* Nodes that knew the member and have heard the same rumours hold the same record,
\* in whatever order and however often they heard them, for every bound.
THEOREM KnownMemberOrderFree ==
  ASSUME FirstHeld = "known"
  PROVE  Spec => []OrderFree
<1>1. Init => Inv
  BY InitInv
<1>2. Inv /\ [Next]_vars => Inv'
  BY NextInv
<1>3. Inv => OrderFree
  BY InvImpliesOrderFree
<1> QED
  BY <1>1, <1>2, <1>3, PTL DEF Spec

\* What a node holds of a member it knows never moves back, for every bound.
THEOREM KnownMemberMovesForward ==
  ASSUME FirstHeld = "known"
  PROVE  Spec => MovesForward
<1>1. Init => Inv
  BY InitInv
<1>2. Inv /\ [Next]_vars => Inv'
  BY NextInv
<1>3. Inv /\ [Next]_vars => [\A h \in Hearer : Forward(held[h], held'[h])]_vars
  <2> SUFFICES ASSUME Inv, NEW h \in Hearer, NEW r \in Published, Hear(h, r),
                      NEW k \in Hearer
               PROVE  Forward(held[k], held'[k])
    BY DEF Next
  <2>1. /\ r \in Record /\ Ordered(r)
        /\ held' = [held EXCEPT ![h] = Merge(held[h], r)]
    BY HearStep
  <2>2. held[k] \in Record
    BY DEF Inv
  <2>3. CASE k # h
    <3>1. held'[k] = held[k]
      BY <2>1, <2>3 DEF Inv
    <3> QED
      BY <2>2, <3>1, Numbers, NoRecordAssumption DEF Forward
  <2>4. CASE k = h
    <3> DEFINE m == Merge(held[h], r)
    <3>1. held'[k] = m /\ m \in Record
      BY <2>1, <2>2, <2>4, MergeType DEF Inv
    <3>2. \/ m.inc > held[h].inc
          \/ m.inc = held[h].inc /\ m.st >= held[h].st
               /\ m.claim.seq >= held[h].claim.seq
      <4>1. CASE r.inc = held[h].inc
        BY <2>1, <2>2, <2>4, <4>1, MergeSameIncarnation, Numbers
      <4>2. CASE r.inc # held[h].inc
        BY <2>1, <2>2, <2>4, <4>2, Numbers DEF Merge
      <4> QED
        BY <4>1, <4>2
    <3> QED
      BY <2>4, <3>1, <3>2, NoRecordAssumption DEF Forward
  <2> QED
    BY <2>3, <2>4
<1> QED
  BY <1>1, <1>2, <1>3, PTL DEF Spec, MovesForward

-----------------------------------------------------------------------------
(* The scores. *)

\* Averages of which the first is no better.
Level(a, b) ==
  \/ a = L!Absent /\ b = L!Absent
  \/ a \in Nat /\ b \in Nat /\ a >= b

Sampled(s) == s \notin {L!Absent, L!Cancelled}

\* An average a, with what the round in flight has brought.
With(a, s) == IF Sampled(s) THEN L!Record(a, s) ELSE a

\* A round's score is the average it left, or that of a failed probe.
ScoredAs(p) ==
  Sampled(results[p].sample) =>
    \/ results[p].sample = L!Penalty /\ results[p].score = L!NaN
    \/ results[p].sample \in Answers /\ results[p].score = samples[p]

\* p did no better than q before the round in flight, whose samples are in the averages.
Trails(p, q) ==
  \E a, b \in Nat \cup {L!Absent} :
    /\ Level(a, b)
    /\ samples[p] = With(a, results[p].sample)
    /\ samples[q] = With(b, results[q].sample)

Paired(p, q) ==
  /\ p \notin dead /\ q \notin dead
  /\ ScoredAs(p) /\ ScoredAs(q)
  /\ Trails(p, q)
  /\ ~L!Better(local[p], local[q])

ScoreTypes ==
  /\ dead \subseteq Peers /\ out \subseteq Peers
  /\ evidence \subseteq Peers \X Peers
  /\ samples \in [Peers -> Nat \cup {L!Absent}]
  /\ local \in [Peers -> Nat \cup {L!Absent, L!NaN}]
  /\ results \in [Peers -> [score : Nat \cup {L!Absent, L!NaN},
                            sample : Nat \cup {L!Absent, L!Cancelled}]]
  /\ \A p \in out : results[p].sample = L!Absent

ScoreInv ==
  /\ ScoreTypes
  /\ \A pair \in evidence : Paired(pair[1], pair[2])

LEMMA ScoreFacts ==
  /\ Timeout \in Nat \ {0} /\ Unit \in Nat \ {0} /\ Margin \in Nat
  /\ Answers \subseteq 0..Timeout
  /\ L!Penalty \in Nat /\ L!Penalty = 2 * Timeout
  /\ \A rtt \in Answers : rtt \in Nat /\ rtt < L!Penalty
  /\ IsFiniteSet(Peers)
<1>1. L!LatencyAssumption
  BY RulesAssumption
<1>2. L!Penalty = 2 * Timeout
  BY DEF L!Penalty
<1>3. /\ Timeout \in Nat \ {0} /\ Unit \in Nat \ {0} /\ Margin \in Nat
      /\ Answers \subseteq 0..Timeout /\ IsFiniteSet(Peers)
  <2>1. L!IsFiniteSet(Peers) <=> IsFiniteSet(Peers)
    BY DEF L!IsFiniteSet, IsFiniteSet
  <2> QED
    BY <1>1, <2>1 DEF L!LatencyAssumption
<1>4. ASSUME NEW rtt \in Answers
      PROVE  rtt \in Nat /\ rtt < L!Penalty
  <2>1. rtt \in 0..Timeout
    BY <1>3
  <2> QED
    BY <1>2, <1>3, <2>1
<1>5. L!Penalty \in Nat
  BY <1>2, <1>3
<1> QED
  BY <1>2, <1>3, <1>4, <1>5

LEMMA RecordType ==
  ASSUME NEW a \in Nat \cup {L!Absent}, NEW s \in Nat
  PROVE  L!Record(a, s) \in Nat
<1>1. s * Unit \in Nat
  BY ScoreFacts
<1>2. CASE a = L!Absent
  BY <1>1, <1>2 DEF L!Record
<1>3. CASE a \in Nat
  <2>1. (s * Unit + a) \div 2 \in Nat
    BY <1>1, <1>3
  <2>2. a # L!Absent
    BY <1>3 DEF L!Absent
  <2> QED
    BY <2>1, <2>2 DEF L!Record
<1> QED
  BY <1>2, <1>3

\* The average of the worse answer stays the worse one.
LEMMA RecordLevel ==
  ASSUME NEW a \in Nat \cup {L!Absent}, NEW b \in Nat \cup {L!Absent}, Level(a, b),
         NEW s \in Nat, NEW t \in Nat, s >= t
  PROVE  Level(L!Record(a, s), L!Record(b, t))
<1>1. s * Unit \in Nat /\ t * Unit \in Nat /\ s * Unit >= t * Unit
  <2>1. Unit \in Nat
    BY ScoreFacts
  <2>2. PICK d \in Nat : s = t + d
    <3>1. s - t \in Nat /\ s = t + (s - t)
      OBVIOUS
    <3> QED
      BY <3>1
  <2>3. s * Unit = t * Unit + d * Unit
    BY <2>1, <2>2
  <2>4. d * Unit \in Nat /\ t * Unit \in Nat
    BY <2>1, <2>2
  <2> QED
    BY <2>3, <2>4
<1>2. L!Record(a, s) \in Nat /\ L!Record(b, t) \in Nat
  BY RecordType
<1>3. CASE a = L!Absent /\ b = L!Absent
  BY <1>1, <1>2, <1>3 DEF Level, L!Record
<1>4. CASE a \in Nat /\ b \in Nat /\ a >= b
  <2>1. a # L!Absent /\ b # L!Absent
    BY <1>4 DEF L!Absent
  <2>2. (s * Unit + a) \div 2 >= (t * Unit + b) \div 2
    BY <1>1, <1>4
  <2>3. L!Record(a, s) >= L!Record(b, t)
    BY <2>1, <2>2 DEF L!Record
  <2> QED
    BY <1>2, <2>3 DEF Level
<1> QED
  BY <1>3, <1>4 DEF Level

\* The lower average never ranks behind.
LEMMA LevelIsNotBetter ==
  ASSUME NEW a, NEW b, Level(a, b)
  PROVE  ~L!Better(a, b)
BY DEF Level, L!Better, L!Valid, L!Absent

LEMMA ScoreInit == L!Init => ScoreInv
<1> SUFFICES ASSUME L!Init PROVE ScoreInv
  OBVIOUS
<1>1. /\ dead = {} /\ out = {} /\ evidence = Peers \X Peers
      /\ samples = [p \in Peers |-> L!Absent] /\ local = [p \in Peers |-> L!Absent]
      /\ results = [p \in Peers |-> [score |-> L!Absent, sample |-> L!Absent]]
  BY DEF L!Init, L!Empty
<1>2. ScoreTypes
  BY <1>1 DEF ScoreTypes
<1>3. ASSUME NEW p \in Peers, NEW q \in Peers
      PROVE  Paired(p, q)
  <2>1. results[p].sample = L!Absent /\ results[q].sample = L!Absent
        /\ samples[p] = L!Absent /\ samples[q] = L!Absent
        /\ local[p] = L!Absent /\ p \notin dead /\ q \notin dead
    BY <1>1
  <2>2. Trails(p, q)
    BY <2>1 DEF Trails, Level, With, Sampled
  <2>3. ~L!Better(local[p], local[q])
    BY <2>1 DEF L!Better, L!Valid, L!Absent
  <2> QED
    BY <2>1, <2>2, <2>3 DEF Paired, ScoredAs, Sampled
<1> QED
  BY <1>1, <1>2, <1>3 DEF ScoreInv

\* A probe of the round ends with sample s, or without one.
LEMMA ScoreEnds ==
  ASSUME ScoreInv, NEW p \in Peers, NEW score \in Nat \cup {L!NaN},
         NEW s \in Nat \cup {L!Cancelled}, L!Ends(p, score, s),
         samples' = [samples EXCEPT ![p] = With(samples[p], s)],
         Sampled(s) =>
           \/ s = L!Penalty /\ score = L!NaN
           \/ s \in Answers /\ score = With(samples[p], s)
  PROVE  ScoreInv'
<1>1. /\ p \in out /\ out' = out \ {p}
      /\ results' = [results EXCEPT ![p] = [score |-> score, sample |-> s]]
      /\ UNCHANGED <<dead, local, evidence>>
  BY DEF L!Ends
<1>2. /\ ScoreTypes /\ \A pair \in evidence : Paired(pair[1], pair[2])
  BY DEF ScoreInv
<1>3. results[p].sample = L!Absent /\ samples[p] \in Nat \cup {L!Absent}
  BY <1>1, <1>2 DEF ScoreTypes
<1>4. With(samples[p], s) \in Nat \cup {L!Absent}
  BY <1>3, RecordType DEF With, Sampled
<1>5. ScoreTypes'
  <2>1. samples' \in [Peers -> Nat \cup {L!Absent}]
    BY <1>2, <1>4 DEF ScoreTypes
  <2>2. results' \in [Peers -> [score : Nat \cup {L!Absent, L!NaN},
                                sample : Nat \cup {L!Absent, L!Cancelled}]]
    BY <1>1, <1>2 DEF ScoreTypes
  <2>3. \A q \in out' : results'[q].sample = L!Absent
    BY <1>1, <1>2 DEF ScoreTypes
  <2> QED
    BY <1>1, <1>2, <2>1, <2>2, <2>3 DEF ScoreTypes
<1>6. \A q \in Peers : ScoredAs(q) => ScoredAs(q)'
  <2>1. ScoredAs(p)'
    <3>1. results'[p].sample = s /\ results'[p].score = score
          /\ samples'[p] = With(samples[p], s)
      BY <1>1, <1>2 DEF ScoreTypes
    <3> QED
      BY <3>1 DEF ScoredAs
  <2>2. \A q \in Peers \ {p} : results'[q] = results[q] /\ samples'[q] = samples[q]
    BY <1>1, <1>2 DEF ScoreTypes
  <2> QED
    BY <2>1, <2>2 DEF ScoredAs
<1>7. ASSUME NEW q \in Peers, NEW a \in Nat \cup {L!Absent},
             samples[q] = With(a, results[q].sample)
      PROVE  samples'[q] = With(a, results'[q].sample)
  <2>1. CASE q = p
    <3>1. samples[p] = a
      BY <1>3, <1>7, <2>1 DEF With, Sampled
    <3>2. results'[p].sample = s /\ samples'[p] = With(samples[p], s)
      BY <1>1, <1>2 DEF ScoreTypes
    <3> QED
      BY <2>1, <3>1, <3>2
  <2>2. CASE q # p
    <3>1. results'[q] = results[q] /\ samples'[q] = samples[q]
      BY <1>1, <1>2, <2>2 DEF ScoreTypes
    <3> QED
      BY <1>7, <3>1
  <2> QED
    BY <2>1, <2>2
<1>8. ASSUME NEW pair \in evidence'
      PROVE  Paired(pair[1], pair[2])'
  <2>1. pair \in evidence /\ pair[1] \in Peers /\ pair[2] \in Peers
    BY <1>1, <1>2 DEF ScoreTypes
  <2>2. Paired(pair[1], pair[2])
    BY <1>2, <2>1
  <2>3. Trails(pair[1], pair[2])'
    <3>1. PICK a \in Nat \cup {L!Absent}, b \in Nat \cup {L!Absent} :
             /\ Level(a, b)
             /\ samples[pair[1]] = With(a, results[pair[1]].sample)
             /\ samples[pair[2]] = With(b, results[pair[2]].sample)
      BY <2>2 DEF Paired, Trails
    <3>2. /\ samples'[pair[1]] = With(a, results'[pair[1]].sample)
          /\ samples'[pair[2]] = With(b, results'[pair[2]].sample)
      BY <1>7, <2>1, <3>1
    <3> QED
      BY <3>1, <3>2 DEF Trails
  <2>4. ScoredAs(pair[1])' /\ ScoredAs(pair[2])'
    BY <1>6, <2>1, <2>2 DEF Paired
  <2>5. /\ pair[1] \notin dead' /\ pair[2] \notin dead'
        /\ ~L!Better(local'[pair[1]], local'[pair[2]])
    BY <1>1, <2>2 DEF Paired
  <2> QED
    BY <2>3, <2>4, <2>5 DEF Paired
<1> QED
  BY <1>5, <1>8 DEF ScoreInv

\* The round is applied: those that stay paired were sampled alike.
LEMMA ScoreApplied ==
  ASSUME ScoreInv, L!ApplyProbeRound
  PROVE  ScoreInv'
<1>1. /\ out = {} /\ out' = {} /\ dead' = dead /\ samples' = samples
      /\ local' = [p \in Peers |-> L!Scored(p)]
      /\ results' = [p \in Peers |-> [score |-> L!Absent, sample |-> L!Absent]]
      /\ evidence' = {pair \in evidence : L!Agrees(pair[1], pair[2])}
  BY DEF L!ApplyProbeRound, L!Empty
<1>2. /\ ScoreTypes /\ \A pair \in evidence : Paired(pair[1], pair[2])
  BY DEF ScoreInv
<1>3. \A p \in Peers : L!Scored(p) \in Nat \cup {L!Absent, L!NaN}
  BY <1>2 DEF ScoreTypes, L!Scored
<1>4. ScoreTypes'
  BY <1>1, <1>2, <1>3 DEF ScoreTypes
<1>5. ASSUME NEW p \in Peers, NEW q \in Peers, Paired(p, q), L!Agrees(p, q)
      PROVE  Paired(p, q)'
  <2>1. /\ results'[p].sample = L!Absent /\ results'[q].sample = L!Absent
        /\ local'[p] = L!Scored(p) /\ local'[q] = L!Scored(q)
        /\ samples'[p] = samples[p] /\ samples'[q] = samples[q]
        /\ p \notin dead' /\ q \notin dead' /\ p \notin dead /\ q \notin dead
    BY <1>1, <1>5 DEF Paired
  <2>2. PICK a \in Nat \cup {L!Absent}, b \in Nat \cup {L!Absent} :
          /\ Level(a, b)
          /\ samples[p] = With(a, results[p].sample)
          /\ samples[q] = With(b, results[q].sample)
    BY <1>5 DEF Paired, Trails
  <2>3. Level(samples[p], samples[q])
    <3>1. CASE ~Sampled(results[p].sample)
      BY <1>5, <2>2, <3>1 DEF L!Agrees, Sampled, With
    <3>2. CASE Sampled(results[p].sample)
      <4>1. Sampled(results[q].sample) /\ results[p].sample >= results[q].sample
        BY <1>5, <3>2 DEF L!Agrees, Sampled
      <4>2. results[p].sample \in Nat /\ results[q].sample \in Nat
        BY <1>2, <3>2, <4>1 DEF ScoreTypes, Sampled
      <4> QED
        BY <2>2, <3>2, <4>1, <4>2, RecordLevel DEF With
    <3> QED
      BY <3>1, <3>2
  <2>4. samples[p] \in Nat \cup {L!Absent} /\ samples[q] \in Nat \cup {L!Absent}
    BY <1>2 DEF ScoreTypes
  <2>5. Trails(p, q)'
    <3>1. /\ samples'[p] = With(samples[p], results'[p].sample)
          /\ samples'[q] = With(samples[q], results'[q].sample)
      BY <2>1 DEF With, Sampled
    <3>2. PICK a1 \in Nat \cup {L!Absent}, b1 \in Nat \cup {L!Absent} :
             a1 = samples[p] /\ b1 = samples[q]
      BY <2>4
    <3> QED
      BY <2>3, <3>1, <3>2 DEF Trails
  <2>6. ~L!Better(local'[p], local'[q])
    <3>1. CASE ~Sampled(results[p].sample)
      <4>1. local'[p] = local[p] /\ local'[q] = local[q]
        BY <1>5, <2>1, <3>1 DEF L!Agrees, Sampled, L!Scored
      <4> QED
        BY <1>5, <4>1 DEF Paired
    <3>2. CASE Sampled(results[p].sample)
      <4>1. Sampled(results[q].sample) /\ results[p].sample >= results[q].sample
        BY <1>5, <3>2 DEF L!Agrees, Sampled
      <4>2. local'[p] = results[p].score /\ local'[q] = results[q].score
        BY <2>1, <3>2, <4>1 DEF Sampled, L!Scored
      <4>3. CASE results[p].score = L!NaN
        BY <4>2, <4>3 DEF L!Better, L!Valid, L!NaN
      <4>4. CASE results[p].sample \in Answers /\ results[p].score = samples[p]
        <5>1. results[q].sample # L!Penalty
          <6>1. results[p].sample < L!Penalty /\ results[p].sample \in Nat
            BY <4>4, ScoreFacts
          <6>2. results[q].sample \in Nat
            BY <1>2, <4>1 DEF ScoreTypes, Sampled
          <6> QED
            BY <4>1, <6>1, <6>2, ScoreFacts
        <5>2. results[q].score = samples[q]
          BY <1>5, <4>1, <5>1 DEF Paired, ScoredAs
        <5> QED
          BY <2>3, <4>2, <4>4, <5>2, LevelIsNotBetter
      <4> QED
        BY <1>5, <3>2, <4>3, <4>4 DEF Paired, ScoredAs
    <3> QED
      BY <3>1, <3>2
  <2>7. ScoredAs(p)' /\ ScoredAs(q)'
    BY <2>1 DEF ScoredAs, Sampled
  <2> QED
    BY <2>1, <2>5, <2>6, <2>7 DEF Paired
<1>6. ASSUME NEW pair \in evidence'
      PROVE  Paired(pair[1], pair[2])'
  <2>1. /\ pair \in evidence /\ L!Agrees(pair[1], pair[2])
        /\ pair[1] \in Peers /\ pair[2] \in Peers
    BY <1>1, <1>2 DEF ScoreTypes
  <2> QED
    BY <1>2, <1>5, <2>1
<1> QED
  BY <1>4, <1>6 DEF ScoreInv

\* Steps that leave a pair that stays as it was.
LEMMA ScoreKept ==
  ASSUME ScoreInv, ScoreTypes', evidence' \subseteq evidence, results' = results,
         \A pair \in evidence' :
           \A p \in {pair[1], pair[2]} :
             p \notin dead' /\ samples'[p] = samples[p] /\ local'[p] = local[p]
  PROVE  ScoreInv'
<1>1. ASSUME NEW pair \in evidence'
      PROVE  Paired(pair[1], pair[2])'
  <2>1. Paired(pair[1], pair[2])
    BY DEF ScoreInv
  <2>2. /\ pair[1] \notin dead' /\ samples'[pair[1]] = samples[pair[1]]
        /\ local'[pair[1]] = local[pair[1]]
        /\ pair[2] \notin dead' /\ samples'[pair[2]] = samples[pair[2]]
        /\ local'[pair[2]] = local[pair[2]]
    OBVIOUS
  <2>3. Trails(pair[1], pair[2])'
    BY <2>1, <2>2 DEF Paired, Trails
  <2>4. ScoredAs(pair[1])' /\ ScoredAs(pair[2])'
    BY <2>1, <2>2 DEF Paired, ScoredAs
  <2>5. ~L!Better(local[pair[1]], local[pair[2]])
    BY <2>1 DEF Paired
  <2> QED
    BY <2>2, <2>3, <2>4, <2>5 DEF Paired
<1> QED
  BY <1>1 DEF ScoreInv

LEMMA ScoreDies ==
  ASSUME ScoreInv, NEW p \in Peers, L!PeerDies(p)
  PROVE  ScoreInv'
<1>1. /\ dead' = dead \cup {p} /\ out' = out /\ results' = results
      /\ samples' = [q \in Peers |-> IF q \in dead' THEN L!Absent ELSE samples[q]]
      /\ local' = [q \in Peers |-> IF q \in dead' THEN L!Absent ELSE local[q]]
      /\ evidence' = {pair \in evidence : pair[1] \notin dead' /\ pair[2] \notin dead'}
  BY DEF L!PeerDies, L!Retain
<1>2. ScoreTypes
  BY DEF ScoreInv
<1>3. ScoreTypes'
  BY <1>1, <1>2 DEF ScoreTypes
<1>4. evidence' \subseteq evidence
  BY <1>1
<1>5. ASSUME NEW pair \in evidence', NEW q \in {pair[1], pair[2]}
      PROVE  q \notin dead' /\ samples'[q] = samples[q] /\ local'[q] = local[q]
  <2>1. pair[1] \in Peers /\ pair[2] \in Peers
    BY <1>2, <1>4 DEF ScoreTypes
  <2> QED
    BY <1>1, <2>1
<1> QED
  BY <1>1, <1>3, <1>4, <1>5, ScoreKept

LEMMA ScoreReturns ==
  ASSUME ScoreInv, NEW p \in Peers, L!PeerReturns(p)
  PROVE  ScoreInv'
<1>1. /\ dead' = dead \ {p} /\ UNCHANGED <<samples, out, results, local, evidence>>
  BY DEF L!PeerReturns
<1>2. ScoreTypes'
  BY <1>1 DEF ScoreInv, ScoreTypes
<1>3. \A pair \in evidence : pair[1] \notin dead /\ pair[2] \notin dead
  BY DEF ScoreInv, Paired
<1> QED
  BY <1>1, <1>2, <1>3, ScoreKept

LEMMA ScoreStarts ==
  ASSUME ScoreInv, L!StartProbeRound
  PROVE  ScoreInv'
<1>1. /\ out = {} /\ L!Ended = {} /\ out' = Peers \ dead
      /\ UNCHANGED <<dead, samples, results, local, evidence>>
  BY DEF L!StartProbeRound, L!Probing
<1>2. \A p \in Peers : results[p].sample = L!Absent
  BY <1>1 DEF L!Ended
<1>3. ScoreTypes'
  BY <1>1, <1>2 DEF ScoreInv, ScoreTypes
<1>4. \A pair \in evidence : pair[1] \notin dead /\ pair[2] \notin dead
  BY DEF ScoreInv, Paired
<1> QED
  BY <1>1, <1>3, <1>4, ScoreKept

LEMMA ScoreStep ==
  ASSUME ScoreInv, L!Next
  PROVE  ScoreInv'
<1>1. CASE L!StartProbeRound
  BY <1>1, ScoreStarts
<1>2. CASE L!ApplyProbeRound
  BY <1>2, ScoreApplied
<1>3. ASSUME NEW p \in Peers, NEW rtt \in Answers, L!Answered(p, rtt)
      PROVE  ScoreInv'
  <2>1. /\ samples' = [samples EXCEPT ![p] = L!Record(samples[p], rtt)]
        /\ L!Ends(p, L!Record(samples[p], rtt), rtt)
    BY <1>3 DEF L!Answered
  <2>2. rtt \in Nat /\ Sampled(rtt)
    BY ScoreFacts DEF Sampled, L!Absent, L!Cancelled
  <2>3. samples[p] \in Nat \cup {L!Absent}
    BY DEF ScoreInv, ScoreTypes
  <2>4. L!Record(samples[p], rtt) \in Nat
    BY <2>2, <2>3, RecordType
  <2>5. With(samples[p], rtt) = L!Record(samples[p], rtt)
    BY <2>2 DEF With
  <2> QED
    BY <2>1, <2>2, <2>4, <2>5, ScoreEnds
<1>4. ASSUME NEW p \in Peers, L!Failed(p)
      PROVE  ScoreInv'
  <2>1. /\ samples' = [samples EXCEPT ![p] = L!Record(samples[p], L!Penalty)]
        /\ L!Ends(p, L!NaN, L!Penalty)
    BY <1>4 DEF L!Failed
  <2>2. L!Penalty \in Nat /\ Sampled(L!Penalty)
    BY ScoreFacts DEF Sampled, L!Absent, L!Cancelled
  <2>3. With(samples[p], L!Penalty) = L!Record(samples[p], L!Penalty)
    BY <2>2 DEF With
  <2> QED
    BY <2>1, <2>2, <2>3, ScoreEnds
<1>5. ASSUME NEW p \in Peers, L!Stopped(p)
      PROVE  ScoreInv'
  <2>1. samples' = samples /\ L!Ends(p, L!NaN, L!Cancelled)
    BY <1>5 DEF L!Stopped
  <2>2. ~Sampled(L!Cancelled)
    BY DEF Sampled
  <2>3. samples' = [samples EXCEPT ![p] = With(samples[p], L!Cancelled)]
    <3>1. samples \in [Peers -> Nat \cup {L!Absent}]
      BY DEF ScoreInv, ScoreTypes
    <3> QED
      BY <2>1, <2>2, <3>1 DEF With
  <2> QED
    BY <2>1, <2>2, <2>3, ScoreEnds
<1>6. ASSUME NEW p \in Peers, L!PeerDies(p) \/ L!PeerReturns(p)
      PROVE  ScoreInv'
  BY <1>6, ScoreDies, ScoreReturns
<1> QED
  BY <1>1, <1>2, <1>3, <1>4, <1>5, <1>6 DEF L!Next

LEMMA ScoreIdle ==
  ASSUME ScoreInv, UNCHANGED scoring
  PROVE  ScoreInv'
<1>1. UNCHANGED <<dead, samples, out, results, local, evidence>>
  BY DEF scoring
<1> QED
  BY <1>1 DEF ScoreInv, ScoreTypes, Paired, Trails, ScoredAs

LEMMA ScoreRanks == ScoreInv => WorseNeverBetter
<1> SUFFICES ASSUME ScoreInv, ~L!Probing, NEW pair \in evidence
             PROVE  /\ ~L!Better(samples[pair[1]], samples[pair[2]])
                    /\ ~L!Better(local[pair[1]], local[pair[2]])
  BY DEF WorseNeverBetter, L!WorseNeverBetter
<1>1. Paired(pair[1], pair[2]) /\ pair[1] \in Peers /\ pair[2] \in Peers
  BY DEF ScoreInv, ScoreTypes
<1>2. results[pair[1]].sample = L!Absent /\ results[pair[2]].sample = L!Absent
  BY <1>1 DEF L!Probing, L!Ended
<1>3. Level(samples[pair[1]], samples[pair[2]])
  BY <1>1, <1>2 DEF Paired, Trails, With, Sampled
<1> QED
  BY <1>1, <1>3, LevelIsNotBetter DEF Paired

Measured(scores) == {p \in Peers : L!Valid(scores[p])}

\* The k-th lowest of the valid scores.
Nth(scores, k) ==
  CHOOSE s \in {scores[p] : p \in Measured(scores)} :
    /\ L!Cardinality({p \in Measured(scores) : scores[p] < s}) < k
    /\ L!Cardinality({p \in Measured(scores) : scores[p] <= s}) >= k

LEMMA SameCount == \A T : L!Cardinality(T) = Cardinality(T)
BY DEF L!Cardinality, Cardinality

LEMMA SelfScoreIs ==
  ASSUME NEW scores
  PROVE  L!SelfScore(scores) =
           IF \A p \in Peers : scores[p] = L!Absent THEN 0
           ELSE IF L!Cardinality(Measured(scores)) = 0 THEN L!NaN
           ELSE IF L!Cardinality(Measured(scores)) % 2 = 1
                THEN Nth(scores, L!Cardinality(Measured(scores)) \div 2 + 1)
           ELSE (Nth(scores, L!Cardinality(Measured(scores)) \div 2)
                   + Nth(scores, L!Cardinality(Measured(scores)) \div 2 + 1)) \div 2
BY DEF L!SelfScore, Nth, Measured

\* Among finitely many scores there is a k-th lowest.
LEMMA NthIsThere ==
  ASSUME NEW scores \in [Peers -> Nat \cup {L!Absent, L!NaN}],
         NEW k \in Nat \ {0}, k <= Cardinality(Measured(scores))
  PROVE  Nth(scores, k) \in Nat /\ \E p \in Peers : Nth(scores, k) = scores[p]
<1> DEFINE valid == Measured(scores)
<1> DEFINE Under(s) == {p \in valid : scores[p] <= s}
<1> DEFINE High == {s \in Nat : Cardinality(Under(s)) >= k}
<1>1. IsFiniteSet(valid) /\ Cardinality(valid) \in Nat
  <2>1. valid \in SUBSET Peers
    BY DEF Measured
  <2> QED
    BY <2>1, ScoreFacts, FS_Subset, FS_CardinalityType
<1>2. \A p \in valid : p \in Peers /\ scores[p] \in Nat
  BY DEF Measured, L!Valid, L!Absent, L!NaN
<1>3. ASSUME NEW T \in SUBSET valid
      PROVE  IsFiniteSet(T) /\ Cardinality(T) \in Nat /\ Cardinality(T) <= Cardinality(valid)
  BY <1>1, FS_Subset, FS_CardinalityType
<1>4. High # {}
  <2> DEFINE Missing == {Cardinality(valid \ Under(s)) : s \in Nat}
  <2>1. Missing \subseteq Nat
    BY <1>3
  <2>2. Missing # {}
    OBVIOUS
  <2>3. PICK c \in Missing : \A d \in Missing : ~(<<d, c>> \in OpToRel(<, Nat))
    BY <2>1, <2>2, WFMin, NatLessThanWellFounded
  <2>4. PICK s \in Nat : c = Cardinality(valid \ Under(s))
    BY <2>3
  <2>5. valid \ Under(s) = {}
    <3> SUFFICES ASSUME NEW p \in valid \ Under(s)
                 PROVE  FALSE
      OBVIOUS
    <3>1. scores[p] \in Nat /\ scores[p] > s /\ p \in valid
      BY <1>2, <2>4
    <3>2. valid \ Under(scores[p]) \subseteq valid \ Under(s)
      BY <1>2, <2>4, <3>1
    <3>3. p \notin valid \ Under(scores[p])
      BY <3>1
    <3>4. Cardinality(valid \ Under(scores[p])) < Cardinality(valid \ Under(s))
      <4>1. valid \ Under(s) \in SUBSET valid /\ valid \ Under(scores[p]) \in SUBSET (valid \ Under(s))
        BY <3>2
      <4>2. IsFiniteSet(valid \ Under(s)) /\ Cardinality(valid \ Under(s)) \in Nat
        BY <1>3, <4>1
      <4>3. /\ Cardinality(valid \ Under(scores[p])) <= Cardinality(valid \ Under(s))
            /\ Cardinality(valid \ Under(s)) = Cardinality(valid \ Under(scores[p]))
                 => valid \ Under(s) = valid \ Under(scores[p])
        BY <4>1, <4>2, FS_Subset
      <4>4. Cardinality(valid \ Under(scores[p])) \in Nat
        BY <1>3
      <4>5. valid \ Under(s) # valid \ Under(scores[p])
        BY <3>3
      <4> HIDE DEF valid, Under
      <4> QED
        BY <4>2, <4>3, <4>4, <4>5
    <3>5. Cardinality(valid \ Under(scores[p])) \in Missing
      BY <3>1
    <3>6. Cardinality(valid \ Under(scores[p])) \in Nat /\ c \in Nat
      BY <2>1, <3>5, <2>3
    <3>7. <<Cardinality(valid \ Under(scores[p])), c>> \in OpToRel(<, Nat)
      BY <2>4, <3>4, <3>6 DEF OpToRel
    <3> QED
      BY <2>3, <3>5, <3>7
  <2>6. Under(s) = valid
    BY <2>5
  <2>7. Cardinality(Under(s)) >= k
    BY <2>6
  <2> QED
    BY <2>4, <2>7
<1>5. PICK m \in High : \A t \in High : ~(<<t, m>> \in OpToRel(<, Nat))
  <2>1. High \subseteq Nat
    OBVIOUS
  <2> QED
    BY <1>4, <2>1, WFMin, NatLessThanWellFounded
<1>6. m \in Nat /\ Cardinality(Under(m)) >= k
  BY <1>5
<1> DEFINE less == {p \in valid : scores[p] < m}
<1>7. Cardinality(less) < k
  <2>1. CASE m = 0
    <3>1. less = {}
      BY <1>2, <2>1
    <3> QED
      BY <3>1, FS_EmptySet
  <2>2. CASE m # 0
    <3>1. m - 1 \in Nat
      BY <1>6, <2>2
    <3>2. less = Under(m - 1)
      BY <1>2, <1>6, <3>1
    <3>3. <<m - 1, m>> \in OpToRel(<, Nat)
      BY <1>6, <3>1 DEF OpToRel
    <3>4. ~(Cardinality(Under(m - 1)) >= k)
      BY <1>5, <3>1, <3>3
    <3>5. Cardinality(less) \in Nat
      BY <1>3
    <3> HIDE DEF less, Under
    <3> QED
      BY <3>2, <3>4, <3>5
  <2> QED
    BY <2>1, <2>2
<1>8. m \in {scores[p] : p \in valid}
  <2>1. less # Under(m)
    <3>1. Cardinality(less) \in Nat /\ Cardinality(Under(m)) \in Nat
      BY <1>3
    <3> HIDE DEF less, Under
    <3> QED
      BY <1>6, <1>7, <3>1
  <2>2. less \subseteq Under(m)
    BY <1>2, <1>6
  <2>3. PICK p \in Under(m) : p \notin less
    BY <2>1, <2>2
  <2> QED
    BY <1>2, <1>6, <2>3
<1>9. /\ L!Cardinality({p \in Measured(scores) : scores[p] < m}) < k
      /\ L!Cardinality({p \in Measured(scores) : scores[p] <= m}) >= k
  BY <1>6, <1>7, SameCount
<1>10. Nth(scores, k) \in {scores[p] : p \in Measured(scores)}
  <2> HIDE DEF High, Under, less
  <2> QED
    BY <1>8, <1>9, Zenon DEF Nth
<1> QED
  BY <1>2, <1>10

\* What a node makes of its scores: nothing exactly if it has entries and none is valid.
LEMMA SelfScoreTold ==
  ASSUME NEW scores \in [Peers -> Nat \cup {L!Absent, L!NaN}]
  PROVE  /\ L!SelfScore(scores) \in Nat \cup {L!NaN}
         /\ L!SelfScore(scores) = L!NaN <=>
              /\ \A p \in Peers : ~L!Valid(scores[p])
              /\ \E p \in Peers : scores[p] # L!Absent
<1> DEFINE n == L!Cardinality(Measured(scores))
<1>1. n \in Nat /\ (n = 0 <=> Measured(scores) = {})
  <2>1. Measured(scores) \in SUBSET Peers
    BY DEF Measured
  <2>2. IsFiniteSet(Measured(scores))
    BY <2>1, ScoreFacts, FS_Subset
  <2> QED
    BY <2>2, SameCount, FS_CardinalityType, FS_EmptySet
<1>2. Measured(scores) = {} <=> \A p \in Peers : ~L!Valid(scores[p])
  BY DEF Measured
<1>3. ~L!Valid(L!Absent) /\ L!NaN \notin Nat /\ 0 # L!NaN
  BY DEF L!Valid, L!Absent, L!NaN
<1>4. CASE \A p \in Peers : scores[p] = L!Absent
  <2>1. L!SelfScore(scores) = 0
    BY <1>4, SelfScoreIs
  <2> QED
    BY <1>3, <1>4, <2>1
<1>5. CASE (\E p \in Peers : scores[p] # L!Absent) /\ n = 0
  <2>1. L!SelfScore(scores) = L!NaN
    BY <1>5, SelfScoreIs
  <2> QED
    BY <1>1, <1>2, <1>5, <2>1
<1>6. CASE (\E p \in Peers : scores[p] # L!Absent) /\ n # 0
  <2>1. L!SelfScore(scores) =
           IF n % 2 = 1 THEN Nth(scores, n \div 2 + 1)
           ELSE (Nth(scores, n \div 2) + Nth(scores, n \div 2 + 1)) \div 2
    BY <1>6, SelfScoreIs
  <2>2. PICK k \in Nat : k = n \div 2 /\ k + 1 \in Nat \ {0}
    <3> HIDE DEF n
    <3>1. n \div 2 \in Nat
      BY <1>1
    <3> QED
      BY <3>1
  <2>3. k + 1 <= n
    <3> HIDE DEF n
    <3> QED
      BY <1>1, <1>6, <2>2
  <2>4. Nth(scores, k + 1) \in Nat
    BY <2>2, <2>3, SameCount, NthIsThere
  <2>5. CASE n % 2 = 1
    BY <1>1, <1>2, <1>3, <1>6, <2>1, <2>2, <2>4, <2>5
  <2>6. CASE n % 2 # 1
    <3>1. k \in Nat \ {0} /\ k <= n
      <4> HIDE DEF n
      <4> QED
        BY <1>1, <1>6, <2>2, <2>6
    <3>2. Nth(scores, k) \in Nat
      BY <3>1, SameCount, NthIsThere
    <3>3. (Nth(scores, k) + Nth(scores, k + 1)) \div 2 \in Nat
      BY <2>4, <3>2
    <3> QED
      BY <1>1, <1>2, <1>3, <1>6, <2>1, <2>2, <2>6, <3>3
  <2> QED
    BY <2>5, <2>6
<1> QED
  BY <1>4, <1>5, <1>6

\* What the node claims is one of the two, and near the second if it is the first.
LEMMA ClaimIs ==
  ASSUME NEW old \in Nat \cup {L!NaN}, NEW new \in Nat \cup {L!NaN}
  PROVE  /\ L!Claim(old, new) \in Nat \cup {L!NaN}
         /\ L!Claim(old, new) = L!NaN <=> new = L!NaN
         /\ L!Valid(new) => /\ L!Claim(old, new) - new <= Margin * Unit
                            /\ new - L!Claim(old, new) <= Margin * Unit
<1>1. PICK near \in Nat : near = Margin * Unit
  <2>1. Margin * Unit \in Nat
    BY ScoreFacts
  <2> QED
    BY <2>1
<1>2. L!Claim(old, new) =
        IF L!Valid(old) /\ L!Valid(new) /\ new - old < near /\ old - new < near THEN old ELSE new
  BY <1>1 DEF L!Claim
<1> QED
  BY ONLY <1>1, <1>2, old \in Nat \cup {L!NaN}, new \in Nat \cup {L!NaN} DEF L!Valid, L!NaN

Told == told \in Nat \cup {L!NaN}

LEMMA HonestStep ==
  ASSUME ScoreInv, Told, L!ApplyProbeRound
  PROVE  /\ Told'
         /\ told' = L!NaN <=> /\ \A p \in Peers : ~L!Valid(local'[p])
                              /\ \E p \in Peers : local'[p] # L!Absent
         /\ L!Valid(L!SelfScore(local')) =>
              /\ told' - L!SelfScore(local') <= Margin * Unit
              /\ L!SelfScore(local') - told' <= Margin * Unit
<1>1. local' \in [Peers -> Nat \cup {L!Absent, L!NaN}]
  BY ScoreApplied DEF ScoreInv, ScoreTypes
<1>2. told' = L!Claim(told, L!SelfScore(local'))
  BY DEF L!ApplyProbeRound
<1>3. PICK scores \in [Peers -> Nat \cup {L!Absent, L!NaN}] : scores = local'
  BY <1>1
<1>4. PICK truth \in Nat \cup {L!NaN} : truth = L!SelfScore(scores)
  BY SelfScoreTold
<1>5. truth = L!NaN <=> /\ \A p \in Peers : ~L!Valid(scores[p])
                        /\ \E p \in Peers : scores[p] # L!Absent
  BY <1>4, SelfScoreTold
<1>6. told' = L!Claim(told, truth) /\ L!SelfScore(local') = truth
  BY <1>2, <1>3, <1>4
<1>7. PICK old \in Nat \cup {L!NaN} : old = told
  BY DEF Told
<1>8. /\ L!Claim(old, truth) \in Nat \cup {L!NaN}
      /\ L!Claim(old, truth) = L!NaN <=> truth = L!NaN
      /\ L!Valid(truth) => /\ L!Claim(old, truth) - truth <= Margin * Unit
                           /\ truth - L!Claim(old, truth) <= Margin * Unit
  BY <1>4, ClaimIs
<1> QED
  BY <1>3, <1>5, <1>6, <1>7, <1>8 DEF Told

LEMMA ToldStep ==
  ASSUME ScoreInv, Told, L!Next \/ UNCHANGED scoring
  PROVE  Told'
<1>1. CASE L!ApplyProbeRound
  BY <1>1, HonestStep
<1>2. CASE ~L!ApplyProbeRound
  <2>1. told' = told
    BY <1>2 DEF L!Next, L!StartProbeRound, L!Answered, L!Failed, L!Stopped, L!Ends, L!PeerDies,
                L!PeerReturns, scoring
  <2> QED
    BY <2>1 DEF Told
<1> QED
  BY <1>1, <1>2

-----------------------------------------------------------------------------
(* The failure detector. *)

ProbeRecord == [st : {P!M!Alive, P!M!Suspect, P!M!Dead}, inc : 1..Lives]
ProbeDoubt == [on : BOOLEAN, inc : 0..Lives, sameRound : BOOLEAN, silent : BOOLEAN, due : BOOLEAN]

ProbeTypes ==
  /\ rec \in [Peer -> ProbeRecord]
  /\ doubt \in [Peer -> ProbeDoubt]
  /\ probing \in BOOLEAN
  /\ probe \in [Peer -> {"none", "begun", "out", "ok", "failed"}]
  /\ ping \in [Peer -> SUBSET {"now", "old"}]
  /\ newer \in [Peer -> SUBSET {"now", "old"}]
  /\ own \in [Peer -> 1..Lives]
  /\ after \in [Peer -> BOOLEAN]

\* The PINGs of a round that may clear a doubt were sent after the doubt was raised.
Newer(p) ==
  (probing /\ doubt[p].on /\ ~doubt[p].sameRound) =>
    /\ (probe[p] = "out" /\ "now" \in ping[p]) => "now" \in newer[p]
    /\ probe[p] = "ok" => after[p]

ProbeInv == ProbeTypes /\ \A p \in Peer : Newer(p)

\* What a handler makes of a doubt: it keeps the round it was raised in, or is of this one.
Keeps(d, e) ==
  e.on => \/ d.on /\ e.sameRound = d.sameRound
          \/ ~d.on /\ e.sameRound = probing

Fits(d, o) ==
  o.rec \in ProbeRecord /\ o.doubt \in ProbeDoubt /\ Keeps(d, o.doubt)

LEMMA LifeFacts == Lives \in Nat \ {0} /\ DeadAfter \in Nat \ {0}
BY RulesAssumption DEF P!ProbingAssumption

LEMMA NextLifeIs ==
  ASSUME NEW i \in 1..Lives
  PROVE  P!M!NextIncarnation(i) \in 1..Lives
BY LifeFacts DEF P!M!NextIncarnation

LEMMA SetStateFits ==
  ASSUME NEW r \in ProbeRecord, NEW s \in {P!M!Alive, P!M!Suspect, P!M!Dead}
  PROVE  P!M!SetState(r, s) \in ProbeRecord /\ P!M!SetState(r, s).st = s
<1>1. r.inc \in 1..Lives /\ P!M!NextIncarnation(r.inc) \in 1..Lives
  BY NextLifeIs DEF ProbeRecord
<1> QED
  BY <1>1 DEF P!M!SetState, ProbeRecord

LEMMA ReviveFits ==
  ASSUME NEW r \in ProbeRecord, NEW i \in 0..Lives
  PROVE  P!M!Revive(r, i) \in ProbeRecord
<1>1. r.inc \in 1..Lives
  BY DEF ProbeRecord
<1>2. ~(i < r.inc) => i \in 1..Lives
  BY <1>1, LifeFacts
<1> QED
  BY <1>1, <1>2 DEF P!M!Revive, ProbeRecord

LEMMA NoDoubtFits == P!NoDoubt \in ProbeDoubt /\ ~P!NoDoubt.on
BY LifeFacts DEF P!NoDoubt, ProbeDoubt

LEMMA BuriedFits ==
  ASSUME NEW r \in ProbeRecord, NEW d \in ProbeDoubt
  PROVE  Fits(d, P!Buried(r)) /\ P!Buried(r).rec.st = P!M!Dead
<1>1. P!M!SetState(r, P!M!Dead) \in ProbeRecord /\ P!M!SetState(r, P!M!Dead).st = P!M!Dead
  BY SetStateFits
<1> QED
  BY <1>1, NoDoubtFits DEF P!Buried, Fits, Keeps

LEMMA DoubtedFits ==
  ASSUME NEW r \in ProbeRecord, NEW d \in ProbeDoubt, NEW m, NEW s \in BOOLEAN, probing \in BOOLEAN
  PROVE  Fits(d, P!Doubted(r, m, d, s)) /\ P!Doubted(r, m, d, s).rec.st = P!M!Suspect
<1>1. P!M!SetState(r, P!M!Suspect) \in ProbeRecord /\ P!M!SetState(r, P!M!Suspect).st = P!M!Suspect
  BY SetStateFits
<1>2. P!Timed(r, d, s) \in ProbeDoubt /\ Keeps(d, P!Timed(r, d, s))
  <2>1. CASE d.on
    <3>1. P!Timed(r, d, s) = [d EXCEPT !.silent = d.silent \/ s]
      BY <2>1 DEF P!Timed
    <3>2. d.silent \/ s \in BOOLEAN
      BY DEF ProbeDoubt
    <3> QED
      BY <2>1, <3>1, <3>2 DEF ProbeDoubt, Keeps
  <2>2. CASE ~d.on
    <3>1. P!Timed(r, d, s)
            = [on |-> TRUE, inc |-> r.inc, sameRound |-> probing, silent |-> s, due |-> FALSE]
      BY <2>2 DEF P!Timed
    <3>2. r.inc \in 0..Lives
      BY LifeFacts DEF ProbeRecord
    <3> QED
      BY <2>2, <3>1, <3>2 DEF ProbeDoubt, Keeps
  <2> QED
    BY <2>1, <2>2
<1> QED
  BY <1>1, <1>2 DEF P!Doubted, Fits

LEMMA SameFits ==
  ASSUME NEW r \in ProbeRecord, NEW d \in ProbeDoubt, NEW m
  PROVE  Fits(d, [rec |-> r, missed |-> m, doubt |-> d])
BY DEF Fits, Keeps

LEMMA MissedFits ==
  ASSUME NEW r \in ProbeRecord, NEW d \in ProbeDoubt, NEW m, probing \in BOOLEAN
  PROVE  Fits(d, P!Missed(r, m, d)) /\ (r.st = P!M!Suspect => P!Missed(r, m, d).rec.st # P!M!Alive)
<1>1. CASE P!Missed(r, m, d) = P!Buried(r)
  BY <1>1, BuriedFits DEF P!M!Dead, P!M!Alive
<1>2. CASE P!Missed(r, m, d) = P!Doubted(r, m, d, FALSE)
  <2>1. FALSE \in BOOLEAN
    OBVIOUS
  <2>2. Fits(d, P!Doubted(r, m, d, FALSE)) /\ P!Doubted(r, m, d, FALSE).rec.st = P!M!Suspect
    BY <2>1, DoubtedFits
  <2>3. P!M!Suspect # P!M!Alive
    BY DEF P!M!Suspect, P!M!Alive
  <2> QED
    BY <1>2, <2>2, <2>3
<1>3. CASE P!Missed(r, m, d) = [rec |-> r, missed |-> m, doubt |-> d]
  BY <1>3, SameFits DEF P!M!Suspect, P!M!Alive
<1> QED
  BY <1>1, <1>2, <1>3 DEF P!Missed

LEMMA AnsweredFits ==
  ASSUME NEW r \in ProbeRecord, NEW d \in ProbeDoubt
  PROVE  /\ Fits(d, P!Answered(r, d))
         /\ (r.st = P!M!Suspect /\ P!Answered(r, d).rec.st = P!M!Alive /\ d.on) => ~d.sameRound
<1>1. CASE r.st = P!M!Suspect /\ P!MayClear(d)
  <2>1. P!Answered(r, d) = [rec |-> P!M!Revive(r, r.inc), missed |-> 0, doubt |-> P!NoDoubt]
    BY <1>1 DEF P!Answered
  <2>2. r.inc \in 0..Lives
    BY LifeFacts DEF ProbeRecord
  <2> QED
    BY <1>1, <2>1, <2>2, ReviveFits, NoDoubtFits DEF Fits, Keeps, P!MayClear
<1>2. CASE ~(r.st = P!M!Suspect /\ P!MayClear(d))
  <2>1. P!Answered(r, d) = [rec |-> r, missed |-> 0, doubt |-> d]
    BY <1>2 DEF P!Answered
  <2> QED
    BY <2>1, SameFits DEF P!M!Suspect, P!M!Alive
<1> QED
  BY <1>1, <1>2

\* A step of the loop: doubts are kept or raised, and the round's probes stay as they are.
LEMMA DoubtsKept ==
  ASSUME ProbeInv, ProbeTypes', probing' = probing, probe' = probe, after' = after, ping' = ping,
         \A p \in Peer : Keeps(doubt[p], doubt'[p]),
         \A p \in Peer : (newer'[p] = newer[p]) \/ (doubt'[p].on /\ ~doubt[p].on)
  PROVE  ProbeInv'
<1>1. ASSUME NEW p \in Peer
      PROVE  Newer(p)'
  <2>1. Newer(p) /\ Keeps(doubt[p], doubt'[p])
        /\ ((newer'[p] = newer[p]) \/ (doubt'[p].on /\ ~doubt[p].on))
    BY DEF ProbeInv
  <2> QED
    BY <2>1 DEF Newer, Keeps
<1> QED
  BY <1>1 DEF ProbeInv

\* The loop's own steps, peer by peer.
LEMMA LoopStep ==
  ASSUME ProbeInv, UNCHANGED <<probing, probe, ping, after, own>>,
         P!Noted \/ newer' = newer,
         rec' = [p \in Peer |-> rec'[p]], doubt' = [p \in Peer |-> doubt'[p]],
         \A p \in Peer : /\ rec'[p] \in ProbeRecord /\ doubt'[p] \in ProbeDoubt
                         /\ Keeps(doubt[p], doubt'[p])
  PROVE  ProbeInv'
<1>1. ProbeTypes
  BY DEF ProbeInv
<1>2. \A p \in Peer : newer'[p] = newer[p] \/ (doubt'[p].on /\ ~doubt[p].on)
  BY DEF P!Noted
<1>3. newer' \in [Peer -> SUBSET {"now", "old"}]
  BY <1>1 DEF P!Noted, ProbeTypes
<1>4. rec' \in [Peer -> ProbeRecord] /\ doubt' \in [Peer -> ProbeDoubt]
  OBVIOUS
<1>5. ProbeTypes'
  BY <1>1, <1>3, <1>4 DEF ProbeTypes
<1> QED
  BY <1>2, <1>5, DoubtsKept

\* What a round makes of each peer it probed.
RoundFor(p) ==
  IF probe[p] = "failed" THEN P!Missed(rec[p], missed[p] + 1, doubt[p])
  ELSE P!Answered(rec[p], doubt[p])

LEMMA RoundFits ==
  ASSUME ProbeInv, NEW p \in Peer
  PROVE  /\ Fits(doubt[p], RoundFor(p))
         /\ (/\ rec[p].st = P!M!Suspect /\ RoundFor(p).rec.st = P!M!Alive /\ doubt[p].on)
              => probe[p] # "failed" /\ ~doubt[p].sameRound
<1>1. rec[p] \in ProbeRecord /\ doubt[p] \in ProbeDoubt /\ probing \in BOOLEAN
  BY DEF ProbeInv, ProbeTypes
<1> QED
  BY <1>1, MissedFits, AnsweredFits DEF RoundFor

LEMMA RoundApplied ==
  ASSUME ProbeInv, P!ApplyRound
  PROVE  /\ ProbeInv'
         /\ \A p \in Peer :
              (doubt[p].on /\ rec[p].st = P!M!Suspect /\ rec'[p].st = P!M!Alive) => after[p]
<1>1. /\ probing /\ P!AllEnded /\ probing' = FALSE
      /\ probe' = [p \in Peer |-> "none"]
      /\ P!Noted
      /\ ping' = ping /\ after' = after /\ own' = own
  BY DEF P!ApplyRound, P!world
<1>2. ProbeTypes /\ \A p \in Peer : Newer(p)
  BY DEF ProbeInv
<1> DEFINE Probed == {p \in P!Targets : probe[p] # "none"}
<1>3. /\ rec' = [p \in Peer |-> IF p \in Probed THEN RoundFor(p).rec ELSE rec[p]]
      /\ doubt' = [p \in Peer |-> IF p \in Probed THEN RoundFor(p).doubt ELSE doubt[p]]
  BY DEF P!ApplyRound, P!Set, RoundFor
<1> HIDE DEF Probed
<1>4. ASSUME NEW p \in Peer
      PROVE  rec'[p] \in ProbeRecord /\ doubt'[p] \in ProbeDoubt
  <2>1. Fits(doubt[p], RoundFor(p))
    BY RoundFits
  <2>2. rec[p] \in ProbeRecord /\ doubt[p] \in ProbeDoubt
    BY <1>2 DEF ProbeTypes
  <2> QED
    BY <1>3, <2>1, <2>2 DEF Fits
<1>5. rec' \in [Peer -> ProbeRecord] /\ doubt' \in [Peer -> ProbeDoubt]
  BY <1>3, <1>4
<1>6. newer' \in [Peer -> SUBSET {"now", "old"}]
  BY <1>1, <1>2 DEF P!Noted, ProbeTypes
<1>7. ProbeTypes'
  BY <1>1, <1>2, <1>5, <1>6 DEF ProbeTypes
<1>8. ProbeInv'
  BY <1>1, <1>7 DEF ProbeInv, Newer
<1>9. ASSUME NEW p \in Peer, doubt[p].on, rec[p].st = P!M!Suspect, rec'[p].st = P!M!Alive
      PROVE  after[p]
  <2>1. p \in Probed /\ rec'[p] = RoundFor(p).rec
    BY <1>3, <1>9 DEF P!M!Suspect, P!M!Alive
  <2>2. probe[p] # "failed" /\ ~doubt[p].sameRound
    BY <1>9, <2>1, RoundFits
  <2>3. probe[p] = "ok"
    BY <1>1, <2>1, <2>2 DEF P!AllEnded, Probed
  <2>4. Newer(p)
    BY <1>2
  <2> QED
    BY <1>1, <1>9, <2>2, <2>3, <2>4 DEF Newer
<1> QED
  BY <1>8, <1>9

LEMMA RoundStarts ==
  ASSUME ProbeInv, P!StartRound
  PROVE  ProbeInv'
<1>1. /\ ~probing /\ probing' = TRUE
      /\ probe' = [p \in Peer |-> IF p \in P!Targets THEN "begun" ELSE "none"]
      /\ doubt' = [p \in Peer |-> [doubt[p] EXCEPT !.sameRound = FALSE]]
      /\ ping' = [p \in Peer |-> IF ping[p] = {} THEN {} ELSE {"old"}]
      /\ newer' = [p \in Peer |-> IF "now" \in newer[p] /\ "old" \notin ping[p] THEN {"old"} ELSE {}]
      /\ rec' = rec /\ after' = after /\ own' = own
  BY DEF P!StartRound, P!world
<1>2. ProbeTypes
  BY DEF ProbeInv
<1>3. \A p \in Peer : [doubt[p] EXCEPT !.sameRound = FALSE] \in ProbeDoubt
  BY <1>2 DEF ProbeTypes, ProbeDoubt
<1>4. ProbeTypes'
  BY <1>1, <1>2, <1>3 DEF ProbeTypes
<1>5. \A p \in Peer : Newer(p)'
  BY <1>1 DEF Newer
<1> QED
  BY <1>4, <1>5 DEF ProbeInv

LEMMA PingSent ==
  ASSUME ProbeInv, NEW p \in Peer, P!SendPing(p)
  PROVE  ProbeInv'
<1>1. /\ probing' = probing /\ after' = after /\ rec' = rec /\ doubt' = doubt /\ own' = own
      /\ \/ /\ probe' = [probe EXCEPT ![p] = "out"]
            /\ ping' = [ping EXCEPT ![p] = ping[p] \cup {"now"}]
            /\ newer' = [newer EXCEPT ![p] = newer[p] \cup {"now"}]
         \/ /\ probe' = [probe EXCEPT ![p] = "failed"]
            /\ ping' = ping /\ newer' = newer
  BY DEF P!SendPing, P!loop, P!world
<1>2. ProbeTypes /\ \A q \in Peer : Newer(q)
  BY DEF ProbeInv
<1>3. ProbeTypes'
  <2>1. ping[p] \cup {"now"} \in SUBSET {"now", "old"} /\ newer[p] \cup {"now"} \in SUBSET {"now", "old"}
    BY <1>2 DEF ProbeTypes
  <2> QED
    BY <1>1, <1>2, <2>1 DEF ProbeTypes
<1>4. ASSUME NEW q \in Peer
      PROVE  Newer(q)'
  <2>1. Newer(q)
    BY <1>2
  <2>2. CASE q = p
    BY <1>1, <1>2, <2>2 DEF Newer, ProbeTypes
  <2>3. CASE q # p
    <3>1. probe'[q] = probe[q] /\ ping'[q] = ping[q] /\ newer'[q] = newer[q]
      BY <1>1, <1>2, <2>3 DEF ProbeTypes
    <3> QED
      BY <1>1, <2>1, <3>1 DEF Newer
  <2> QED
    BY <2>2, <2>3
<1> QED
  BY <1>3, <1>4 DEF ProbeInv

LEMMA PongHeard ==
  ASSUME ProbeInv, NEW p \in Peer, P!Pong(p)
  PROVE  ProbeInv'
<1>1. PICK t \in ping[p] :
        /\ ping' = [ping EXCEPT ![p] = ping[p] \ {t}]
        /\ IF probe[p] = "out" /\ t = "now"
           THEN probe' = [probe EXCEPT ![p] = "ok"] /\ after' = [after EXCEPT ![p] = t \in newer[p]]
           ELSE UNCHANGED <<probe, after>>
  BY DEF P!Pong, P!Matches
<1>2. probing' = probing /\ newer' = newer /\ rec' = rec /\ doubt' = doubt /\ own' = own
  BY DEF P!Pong, P!loop, P!world
<1>3. ProbeTypes /\ \A q \in Peer : Newer(q)
  BY DEF ProbeInv
<1>4. ProbeTypes'
  <2>1. ping[p] \ {t} \in SUBSET {"now", "old"} /\ (t \in newer[p]) \in BOOLEAN
    BY <1>3 DEF ProbeTypes
  <2>2. ping' \in [Peer -> SUBSET {"now", "old"}]
    BY <1>1, <1>3, <2>1 DEF ProbeTypes
  <2>3. probe' \in [Peer -> {"none", "begun", "out", "ok", "failed"}]
    BY <1>1, <1>3 DEF ProbeTypes
  <2>4. after' \in [Peer -> BOOLEAN]
    BY <1>1, <1>3, <2>1 DEF ProbeTypes
  <2> QED
    BY <1>2, <1>3, <2>2, <2>3, <2>4 DEF ProbeTypes
<1>5. ASSUME NEW q \in Peer
      PROVE  Newer(q)'
  <2>1. Newer(q)
    BY <1>3
  <2>2. CASE q = p
    <3>1. ping'[p] \subseteq ping[p]
      BY <1>1, <1>3 DEF ProbeTypes
    <3>2. CASE probe[p] = "out" /\ t = "now"
      <4>1. probe'[p] = "ok" /\ after'[p] = ("now" \in newer[p])
        BY <1>1, <1>3, <3>2 DEF ProbeTypes
      <4>2. "now" \in ping[p]
        BY <3>2
      <4> QED
        BY <1>2, <2>1, <2>2, <3>2, <4>1, <4>2 DEF Newer
    <3>3. CASE ~(probe[p] = "out" /\ t = "now")
      <4>1. probe' = probe /\ after' = after
        BY <1>1, <3>3
      <4> QED
        BY <1>2, <2>1, <2>2, <3>1, <4>1 DEF Newer
    <3> QED
      BY <3>2, <3>3
  <2>3. CASE q # p
    <3>1. probe'[q] = probe[q] /\ ping'[q] = ping[q] /\ after'[q] = after[q]
      BY <1>1, <1>3, <2>3 DEF ProbeTypes
    <3> QED
      BY <1>2, <2>1, <3>1 DEF Newer
  <2> QED
    BY <2>2, <2>3
<1> QED
  BY <1>4, <1>5 DEF ProbeInv

LEMMA ProbeTimedOut ==
  ASSUME ProbeInv, NEW p \in Peer, P!ProbeTimeout(p)
  PROVE  ProbeInv'
<1>1. /\ probe' = [probe EXCEPT ![p] = "failed"]
      /\ UNCHANGED <<probing, ping, newer, after, rec, doubt, own>>
  BY DEF P!ProbeTimeout, P!loop, P!world
<1>2. ProbeTypes /\ \A q \in Peer : Newer(q)
  BY DEF ProbeInv
<1>3. ProbeTypes'
  BY <1>1, <1>2 DEF ProbeTypes
<1>4. ASSUME NEW q \in Peer
      PROVE  Newer(q)'
  <2>1. probe'[q] = probe[q] \/ probe'[q] = "failed"
    BY <1>1, <1>2 DEF ProbeTypes
  <2>2. Newer(q)
    BY <1>2
  <2> QED
    BY <1>1, <2>1, <2>2 DEF Newer
<1> QED
  BY <1>3, <1>4 DEF ProbeInv

\* The other events of the loop.
LEMMA LoopEvents ==
  ASSUME ProbeInv, NEW p \in Peer,
         \/ P!LinkLost(p) \/ P!Rumour(p) \/ P!Silent(p) \/ P!BeatResumed(p) \/ P!Age(p)
  PROVE  ProbeInv'
<1>1. /\ ProbeTypes /\ rec[p] \in ProbeRecord /\ doubt[p] \in ProbeDoubt /\ probing \in BOOLEAN
  BY DEF ProbeInv, ProbeTypes
<1>2. \A q \in Peer : rec[q] \in ProbeRecord /\ doubt[q] \in ProbeDoubt /\ Keeps(doubt[q], doubt[q])
  BY <1>1 DEF ProbeTypes, Keeps
<1>3. \A s \in BOOLEAN : Fits(doubt[p], P!Doubted(rec[p], missed[p], doubt[p], s))
  BY <1>1, DoubtedFits
<1>4. ASSUME NEW s \in BOOLEAN,
             rec' = [q \in Peer |-> IF q \in {p}
                                    THEN P!Doubted(rec[q], missed[q], doubt[q], s).rec ELSE rec[q]],
             doubt' = [q \in Peer |-> IF q \in {p}
                                    THEN P!Doubted(rec[q], missed[q], doubt[q], s).doubt ELSE doubt[q]],
             P!Noted, UNCHANGED <<probing, probe, ping, after, own>>
      PROVE  ProbeInv'
  <2>1. ASSUME NEW q \in Peer
        PROVE  rec'[q] \in ProbeRecord /\ doubt'[q] \in ProbeDoubt /\ Keeps(doubt[q], doubt'[q])
    <3>1. CASE q = p
      BY <1>3, <1>4, <3>1 DEF Fits
    <3>2. CASE q # p
      BY <1>2, <1>4, <3>2
    <3> QED
      BY <3>1, <3>2
  <2> QED
    BY <1>4, <2>1, LoopStep
<1>5. ASSUME NEW r \in ProbeRecord, NEW d \in ProbeDoubt, Keeps(doubt[p], d),
             rec' = [rec EXCEPT ![p] = r], doubt' = [doubt EXCEPT ![p] = d],
             UNCHANGED <<probing, probe, ping, after, own, newer>>
      PROVE  ProbeInv'
  <2>1. ASSUME NEW q \in Peer
        PROVE  rec'[q] \in ProbeRecord /\ doubt'[q] \in ProbeDoubt /\ Keeps(doubt[q], doubt'[q])
    <3>1. CASE q = p
      BY <1>1, <1>5, <3>1 DEF ProbeTypes
    <3>2. CASE q # p
      BY <1>1, <1>2, <1>5, <3>2 DEF ProbeTypes
    <3> QED
      BY <3>1, <3>2
  <2>2. rec' = [q \in Peer |-> rec'[q]] /\ doubt' = [q \in Peer |-> doubt'[q]]
    BY <1>1, <1>5 DEF ProbeTypes
  <2> QED
    BY <1>5, <2>1, <2>2, LoopStep
<1>6. rec = [rec EXCEPT ![p] = rec[p]] /\ doubt = [doubt EXCEPT ![p] = doubt[p]]
      /\ Keeps(doubt[p], doubt[p])
  BY <1>1 DEF ProbeTypes, Keeps
<1>7. CASE P!LinkLost(p)
  <2>1. CASE rec[p].st = P!M!Dead
    <3>1. rec' = rec /\ doubt' = doubt
      BY <1>7, <2>1 DEF P!LinkLost, P!loop
    <3>2. newer' = newer
      BY <1>1, <1>7, <3>1 DEF P!LinkLost, P!Noted, ProbeTypes
    <3>3. UNCHANGED <<probing, probe, ping, after, own>>
      BY <1>7 DEF P!LinkLost
    <3> QED
      BY <1>1, <1>5, <1>6, <3>1, <3>2, <3>3
  <2>2. CASE rec[p].st # P!M!Dead
    <3>1. /\ rec' = [q \in Peer |-> IF q \in {p}
                       THEN P!Doubted(rec[q], missed[q], doubt[q], FALSE).rec ELSE rec[q]]
          /\ doubt' = [q \in Peer |-> IF q \in {p}
                       THEN P!Doubted(rec[q], missed[q], doubt[q], FALSE).doubt ELSE doubt[q]]
      BY <1>7, <2>2 DEF P!LinkLost, P!Set
    <3>2. P!Noted /\ UNCHANGED <<probing, probe, ping, after, own>>
      BY <1>7 DEF P!LinkLost
    <3> QED
      BY <1>4, <3>1, <3>2
  <2> QED
    BY <2>1, <2>2
<1>8. CASE P!Silent(p)
  <2>1. /\ rec' = [q \in Peer |-> IF q \in {p}
                     THEN P!Doubted(rec[q], missed[q], doubt[q], TRUE).rec ELSE rec[q]]
        /\ doubt' = [q \in Peer |-> IF q \in {p}
                     THEN P!Doubted(rec[q], missed[q], doubt[q], TRUE).doubt ELSE doubt[q]]
    BY <1>8 DEF P!Silent, P!Set
  <2>2. P!Noted /\ UNCHANGED <<probing, probe, ping, after, own>>
    BY <1>8 DEF P!Silent, P!world
  <2> QED
    BY <1>4, <2>1, <2>2
<1>9. CASE P!Rumour(p)
  <2>1. /\ rec' = [rec EXCEPT ![p] = P!M!SetState(rec[p], P!M!Suspect)]
        /\ doubt' = doubt /\ UNCHANGED <<probing, probe, ping, after, own, newer>>
    BY <1>9 DEF P!Rumour, P!round, P!world
  <2>2. P!M!SetState(rec[p], P!M!Suspect) \in ProbeRecord
    BY <1>1, SetStateFits
  <2> QED
    BY <1>1, <1>5, <1>6, <2>1, <2>2
<1>10. CASE P!BeatResumed(p)
  <2>1. /\ rec' = [rec EXCEPT ![p] = P!M!Revive(rec[p], doubt[p].inc)]
        /\ doubt' = [doubt EXCEPT ![p] = P!NoDoubt]
        /\ UNCHANGED <<probing, probe, ping, after, own, newer>>
    BY <1>10 DEF P!BeatResumed, P!round, P!world
  <2>2. P!M!Revive(rec[p], doubt[p].inc) \in ProbeRecord
    <3>1. doubt[p].inc \in 0..Lives
      BY <1>1 DEF ProbeDoubt
    <3> QED
      BY <1>1, <3>1, ReviveFits
  <2>3. P!NoDoubt \in ProbeDoubt /\ Keeps(doubt[p], P!NoDoubt)
    BY NoDoubtFits DEF Keeps
  <2> QED
    BY <1>5, <2>1, <2>2, <2>3
<1>11. CASE P!Age(p)
  <2>1. /\ doubt' = [doubt EXCEPT ![p] = [doubt[p] EXCEPT !.due = TRUE]]
        /\ rec' = rec /\ UNCHANGED <<probing, probe, ping, after, own, newer>>
    BY <1>11 DEF P!Age, P!round, P!world
  <2>2. [doubt[p] EXCEPT !.due = TRUE] \in ProbeDoubt
        /\ Keeps(doubt[p], [doubt[p] EXCEPT !.due = TRUE])
    BY <1>1 DEF ProbeDoubt, Keeps
  <2> QED
    BY <1>1, <1>5, <1>6, <2>1, <2>2
<1> QED
  BY <1>7, <1>8, <1>9, <1>10, <1>11

\* A new link and a refutation also write the member's own incarnation.
LEMMA PeerSpeaks ==
  ASSUME ProbeInv, NEW p \in Peer, P!LinkUp(p) \/ P!Refuted(p)
  PROVE  ProbeInv'
<1>1. /\ ProbeTypes /\ rec[p] \in ProbeRecord /\ own[p] \in 0..Lives /\ rec[p].inc \in 1..Lives
  BY LifeFacts DEF ProbeInv, ProbeTypes, ProbeRecord
<1>2. UNCHANGED <<probing, probe, ping, after, newer>>
  BY DEF P!LinkUp, P!Refuted, P!round
<1>3. /\ rec' \in [Peer -> ProbeRecord] /\ own' \in [Peer -> 1..Lives]
      /\ doubt' = doubt \/ doubt' = [doubt EXCEPT ![p] = P!NoDoubt]
  <2>1. CASE P!LinkUp(p)
    <3>1. P!M!Revive(rec[p], own[p]) \in ProbeRecord
      BY <1>1, ReviveFits
    <3> QED
      BY <1>1, <2>1, <3>1 DEF P!LinkUp, ProbeTypes
  <2>2. CASE P!Refuted(p)
    <3>1. /\ own' = [own EXCEPT ![p] = rec[p].inc + 1]
          /\ rec' = [rec EXCEPT ![p] = [st |-> P!M!Alive, inc |-> own'[p]]]
          /\ doubt' = doubt
          /\ rec[p].inc < Lives
      BY <2>2 DEF P!Refuted
    <3>2. own'[p] = rec[p].inc + 1 /\ own'[p] \in 1..Lives
      BY <1>1, <3>1, LifeFacts DEF ProbeTypes
    <3>3. [st |-> P!M!Alive, inc |-> own'[p]] \in ProbeRecord
      BY <3>2 DEF ProbeRecord
    <3> QED
      BY <1>1, <3>1, <3>2, <3>3 DEF ProbeTypes
  <2> QED
    BY <2>1, <2>2
<1>4. doubt' \in [Peer -> ProbeDoubt] /\ \A q \in Peer : Keeps(doubt[q], doubt'[q])
  BY <1>1, <1>3, NoDoubtFits DEF ProbeTypes, Keeps
<1>5. ProbeTypes'
  BY <1>1, <1>2, <1>3, <1>4 DEF ProbeTypes
<1> QED
  BY <1>2, <1>4, <1>5, DoubtsKept

TickFor(p) ==
  IF P!Settled(p) THEN [rec |-> rec[p], missed |-> missed[p], doubt |-> P!NoDoubt]
  ELSE IF doubt[p].due THEN P!Buried(rec[p])
  ELSE [rec |-> rec[p], missed |-> missed[p], doubt |-> doubt[p]]

LEMMA TickStep ==
  ASSUME ProbeInv, P!ControlTick
  PROVE  ProbeInv'
<1>1. /\ rec' = [p \in Peer |-> IF p \in {q \in Peer : doubt[q].on} THEN TickFor(p).rec ELSE rec[p]]
      /\ doubt' = [p \in Peer |-> IF p \in {q \in Peer : doubt[q].on} THEN TickFor(p).doubt ELSE doubt[p]]
      /\ UNCHANGED <<probing, probe, ping, newer, after, own>>
  BY DEF P!ControlTick, P!Set, TickFor, P!round, P!world
<1>2. ASSUME NEW p \in Peer
      PROVE  rec'[p] \in ProbeRecord /\ doubt'[p] \in ProbeDoubt /\ Keeps(doubt[p], doubt'[p])
  <2>1. rec[p] \in ProbeRecord /\ doubt[p] \in ProbeDoubt
    BY DEF ProbeInv, ProbeTypes
  <2>2. Fits(doubt[p], TickFor(p))
    <3>1. CASE TickFor(p) = [rec |-> rec[p], missed |-> missed[p], doubt |-> P!NoDoubt]
      BY <2>1, <3>1, NoDoubtFits DEF Fits, Keeps
    <3>2. CASE TickFor(p) = P!Buried(rec[p])
      BY <2>1, <3>2, BuriedFits
    <3>3. CASE TickFor(p) = [rec |-> rec[p], missed |-> missed[p], doubt |-> doubt[p]]
      BY <2>1, <3>3, SameFits
    <3> QED
      BY <3>1, <3>2, <3>3 DEF TickFor
  <2>3. Keeps(doubt[p], doubt[p])
    BY DEF Keeps
  <2> QED
    BY <1>1, <2>1, <2>2, <2>3 DEF Fits
<1>3. rec' = [p \in Peer |-> rec'[p]] /\ doubt' = [p \in Peer |-> doubt'[p]]
  BY <1>1
<1> QED
  BY <1>1, <1>2, <1>3, LoopStep

LEMMA ProbeInit == P!Init => ProbeInv
<1> SUFFICES ASSUME P!Init PROVE ProbeInv
  OBVIOUS
<1>1. P!NoDoubt \in ProbeDoubt /\ [st |-> P!M!Alive, inc |-> 1] \in ProbeRecord
  BY NoDoubtFits, LifeFacts DEF ProbeRecord
<1>2. 1 \in 1..Lives
  BY LifeFacts
<1>3. ProbeTypes
  BY <1>1, <1>2 DEF P!Init, ProbeTypes
<1> QED
  BY <1>3 DEF P!Init, ProbeInv, Newer

LEMMA ProbeStep ==
  ASSUME ProbeInv, P!Next
  PROVE  ProbeInv'
<1>1. ASSUME NEW p \in Peer, P!Crash(p)
      PROVE  ProbeInv'
  BY <1>1 DEF P!Crash, P!loop, P!round, ProbeInv, ProbeTypes, Newer
<1> QED
  BY <1>1, RoundStarts, RoundApplied, TickStep, PingSent, PongHeard, ProbeTimedOut, LoopEvents,
     PeerSpeaks DEF P!Next

LEMMA ProbeIdle ==
  ASSUME ProbeInv, UNCHANGED detector
  PROVE  ProbeInv'
BY DEF detector, ProbeInv, ProbeTypes, Newer

\* The misses that bury nobody, and the peers there are.
Misses == 0..(DeadAfter - 1)
ProbeRest ==
  /\ missed \in [Peer -> Misses]
  /\ link \in SUBSET Peer /\ up \in SUBSET Peer

LEMMA MissesKept ==
  ASSUME ProbeRest, P!Next
  PROVE  missed' \in [Peer -> Misses]
<1>1. DeadAfter \in Nat \ {0} /\ 0 \in Misses
  BY LifeFacts DEF Misses
<1>2. \A p \in Peer : missed[p] \in Misses
  BY DEF ProbeRest
<1>3. CASE missed' = missed
  BY <1>3 DEF ProbeRest
<1>4. CASE P!ApplyRound
  <2>1. missed' = [p \in Peer |-> IF p \in {q \in P!Targets : probe[q] # "none"}
                                  THEN RoundFor(p).missed ELSE missed[p]]
    BY <1>4 DEF P!ApplyRound, P!Set, RoundFor
  <2>2. ASSUME NEW p \in Peer
        PROVE  RoundFor(p).missed \in Misses
    <3>1. missed[p] \in 0..(DeadAfter - 1)
      BY <1>2 DEF Misses
    <3>2. CASE probe[p] = "failed"
      <4>1. RoundFor(p) = P!Missed(rec[p], missed[p] + 1, doubt[p])
        BY <3>2 DEF RoundFor
      <4>2. CASE missed[p] + 1 >= DeadAfter
        <5>1. RoundFor(p) = P!Buried(rec[p])
          BY <4>1, <4>2 DEF P!Missed
        <5> QED
          BY <1>1, <5>1 DEF P!Buried
      <4>3. CASE ~(missed[p] + 1 >= DeadAfter)
        <5>1. RoundFor(p).missed = missed[p] + 1
          BY <4>1, <4>3 DEF P!Missed, P!Doubted
        <5> QED
          BY <1>1, <3>1, <4>3, <5>1 DEF Misses
      <4> QED
        BY <4>2, <4>3
    <3>3. CASE probe[p] # "failed"
      <4>1. RoundFor(p) = P!Answered(rec[p], doubt[p])
        BY <3>3 DEF RoundFor
      <4> QED
        BY <1>1, <4>1 DEF P!Answered
    <3> QED
      BY <3>2, <3>3
  <2> QED
    BY <1>2, <2>1, <2>2
<1>5. CASE P!ControlTick
  <2>1. missed' = [p \in Peer |-> IF p \in {q \in Peer : doubt[q].on}
                                  THEN TickFor(p).missed ELSE missed[p]]
    BY <1>5 DEF P!ControlTick, P!Set, TickFor
  <2>2. \A p \in Peer : TickFor(p).missed \in Misses
    BY <1>1, <1>2 DEF TickFor, P!Buried
  <2> QED
    BY <1>2, <2>1, <2>2
<1>6. ASSUME NEW p \in Peer, P!LinkLost(p)
      PROVE  missed' \in [Peer -> Misses]
  <2>1. CASE rec[p].st = P!M!Dead
    BY <1>3, <1>6, <2>1 DEF P!LinkLost, P!loop
  <2>2. CASE rec[p].st # P!M!Dead
    <3>1. missed' = [q \in Peer |-> IF q \in {p}
                       THEN P!Doubted(rec[q], missed[q], doubt[q], FALSE).missed ELSE missed[q]]
      BY <1>6, <2>2 DEF P!LinkLost, P!Set
    <3> QED
      BY <1>2, <3>1 DEF P!Doubted
  <2> QED
    BY <2>1, <2>2
<1>7. ASSUME NEW p \in Peer, P!Silent(p)
      PROVE  missed' \in [Peer -> Misses]
  <2>1. missed' = [q \in Peer |-> IF q \in {p}
                     THEN P!Doubted(rec[q], missed[q], doubt[q], TRUE).missed ELSE missed[q]]
    BY <1>7 DEF P!Silent, P!Set
  <2> QED
    BY <1>2, <2>1 DEF P!Doubted
<1>8. CASE P!StartRound
  BY <1>3, <1>8 DEF P!StartRound
<1>9. ASSUME NEW p \in Peer, P!SendPing(p) \/ P!Pong(p) \/ P!ProbeTimeout(p) \/ P!Crash(p)
      PROVE  missed' \in [Peer -> Misses]
  BY <1>3, <1>9 DEF P!SendPing, P!Pong, P!ProbeTimeout, P!Crash, P!loop
<1>10. ASSUME NEW p \in Peer,
              P!LinkUp(p) \/ P!Refuted(p) \/ P!Rumour(p) \/ P!BeatResumed(p) \/ P!Age(p)
       PROVE  missed' \in [Peer -> Misses]
  BY <1>3, <1>10 DEF P!LinkUp, P!Refuted, P!Rumour, P!BeatResumed, P!Age
<1> QED
  BY <1>4, <1>5, <1>6, <1>7, <1>8, <1>9, <1>10 DEF P!Next

LEMMA ProbeRestStep ==
  ASSUME ProbeRest, P!Next \/ UNCHANGED detector
  PROVE  ProbeRest'
<1>1. CASE UNCHANGED detector
  BY <1>1 DEF detector, ProbeRest
<1>2. CASE P!Next
  <2>1. link' \in SUBSET Peer /\ up' \in SUBSET Peer
    <3>1. /\ link' = link \/ \E p \in Peer : link' = link \ {p} \/ link' = link \cup {p}
          /\ up' = up \/ \E p \in Peer : up' = up \ {p}
      BY <1>2 DEF P!Next, P!StartRound, P!ApplyRound, P!ControlTick, P!SendPing, P!Pong,
                  P!ProbeTimeout, P!LinkLost, P!LinkUp, P!Refuted, P!Rumour, P!Silent,
                  P!BeatResumed, P!Age, P!Crash, P!world
    <3> QED
      BY <3>1 DEF ProbeRest
  <2> QED
    BY <1>2, <2>1, MissesKept DEF ProbeRest
<1> QED
  BY <1>1, <1>2

LEMMA ProbeRestStarts == P!Init => ProbeRest
<1> SUFFICES ASSUME P!Init PROVE ProbeRest
  OBVIOUS
<1>1. 0 \in Misses
  BY LifeFacts DEF Misses
<1> QED
  BY <1>1 DEF P!Init, ProbeRest

LEMMA ProbeTypesAre == ProbeInv /\ ProbeRest => P!TypeOK
<1> SUFFICES ASSUME ProbeInv, ProbeRest PROVE P!TypeOK
  OBVIOUS
<1> QED
  BY DEF ProbeInv, ProbeTypes, ProbeRest, ProbeRecord, ProbeDoubt, Misses, P!TypeOK

\* No average is above what a failed probe is worth.
Most == L!Penalty * Unit

ScoreBounds ==
  /\ \A p \in Peers : samples[p] <= Most /\ local[p] <= Most /\ results[p].score <= Most
  /\ told <= Most
  /\ rounds \in 0..MaxRounds /\ deaths \in 0..MaxDeaths

LEMMA MostIs ==
  /\ Most \in Nat
  /\ \A s \in Nat : s <= L!Penalty => s * Unit \in Nat /\ s * Unit <= Most
  /\ L!Absent <= Most /\ L!NaN <= Most /\ 0 <= Most
  /\ MaxRounds \in Nat /\ MaxDeaths \in Nat
<1>1. L!Penalty \in Nat /\ Unit \in Nat
  BY ScoreFacts
<1>2. Most \in Nat
  BY <1>1 DEF Most
<1>3. ASSUME NEW s \in Nat, s <= L!Penalty
      PROVE  s * Unit \in Nat /\ s * Unit <= Most
  <2>1. PICK d \in Nat : L!Penalty = s + d
    <3>1. L!Penalty - s \in Nat /\ L!Penalty = s + (L!Penalty - s)
      BY <1>1, <1>3
    <3> QED
      BY <3>1
  <2>2. s * Unit \in Nat /\ d * Unit \in Nat
    BY <1>1
  <2>3. Most = s * Unit + d * Unit
    BY <1>1, <2>1 DEF Most
  <2> QED
    BY <1>2, <2>2, <2>3
<1>4. MaxRounds \in Nat /\ MaxDeaths \in Nat
  BY RulesAssumption DEF L!LatencyAssumption
<1> QED
  BY <1>2, <1>3, <1>4 DEF L!Absent, L!NaN

LEMMA RecordBounded ==
  ASSUME NEW a \in Nat \cup {L!Absent}, a <= Most, NEW s \in Nat, s <= L!Penalty
  PROVE  L!Record(a, s) <= Most
<1>1. s * Unit \in Nat /\ s * Unit <= Most /\ Most \in Nat
  BY MostIs
<1>2. CASE a = L!Absent
  BY <1>1, <1>2 DEF L!Record
<1>3. CASE a # L!Absent
  <2>1. L!Record(a, s) = (s * Unit + a) \div 2
    BY <1>3 DEF L!Record
  <2>2. a \in Nat
    BY <1>3
  <2> QED
    BY <1>1, <2>1, <2>2
<1> QED
  BY <1>2, <1>3

\* The median of scores is none above them.
LEMMA SelfScoreBounded ==
  ASSUME NEW scores \in [Peers -> Nat \cup {L!Absent, L!NaN}], \A p \in Peers : scores[p] <= Most
  PROVE  L!SelfScore(scores) <= Most
<1> DEFINE n == L!Cardinality(Measured(scores))
<1>1. n \in Nat
  <2>1. Measured(scores) \in SUBSET Peers
    BY DEF Measured
  <2>2. IsFiniteSet(Measured(scores))
    BY <2>1, ScoreFacts, FS_Subset
  <2> QED
    BY <2>2, SameCount, FS_CardinalityType
<1>2. ASSUME NEW k \in Nat \ {0}, k <= n
      PROVE  Nth(scores, k) \in Nat /\ Nth(scores, k) <= Most
  BY <1>2, SameCount, NthIsThere
<1>3. CASE \A p \in Peers : scores[p] = L!Absent
  BY <1>3, MostIs, SelfScoreIs
<1>4. CASE (\E p \in Peers : scores[p] # L!Absent) /\ n = 0
  BY <1>4, MostIs, SelfScoreIs
<1>5. CASE (\E p \in Peers : scores[p] # L!Absent) /\ n # 0
  <2>1. L!SelfScore(scores) =
           IF n % 2 = 1 THEN Nth(scores, n \div 2 + 1)
           ELSE (Nth(scores, n \div 2) + Nth(scores, n \div 2 + 1)) \div 2
    BY <1>5, SelfScoreIs
  <2> HIDE DEF n
  <2>2. PICK k \in Nat : k = n \div 2 /\ k + 1 \in Nat \ {0} /\ k + 1 <= n
    <3>1. n \div 2 \in Nat /\ n \div 2 + 1 <= n
      BY <1>1, <1>5
    <3> QED
      BY <3>1
  <2>3. Nth(scores, k + 1) \in Nat /\ Nth(scores, k + 1) <= Most
    BY <1>2, <2>2
  <2>4. CASE n % 2 = 1
    BY <2>1, <2>2, <2>3, <2>4
  <2>5. CASE n % 2 # 1
    <3>1. k \in Nat \ {0} /\ k <= n
      BY <1>1, <1>5, <2>2, <2>5
    <3>2. Nth(scores, k) \in Nat /\ Nth(scores, k) <= Most
      BY <1>2, <3>1
    <3>3. L!SelfScore(scores) = (Nth(scores, k) + Nth(scores, k + 1)) \div 2
      BY <2>1, <2>2, <2>5
    <3>4. Most \in Nat
      BY MostIs
    <3> QED
      BY <2>3, <3>2, <3>3, <3>4
  <2> QED
    BY <2>4, <2>5
<1> QED
  BY <1>3, <1>4, <1>5

LEMMA BoundsStart == L!Init => ScoreBounds
<1> SUFFICES ASSUME L!Init PROVE ScoreBounds
  OBVIOUS
<1>1. /\ \A p \in Peers : samples[p] = L!Absent /\ local[p] = L!Absent
                          /\ results[p].score = L!Absent
      /\ told = 0 /\ rounds = 0 /\ deaths = 0
  BY DEF L!Init, L!Empty
<1> QED
  BY <1>1, MostIs DEF ScoreBounds

\* A probe that ends brings an average no higher than it may be.
LEMMA BoundsEnd ==
  ASSUME ScoreInv, ScoreBounds, NEW p \in Peers, NEW score, NEW s, score <= Most,
         L!Ends(p, score, s),
         samples' = samples \/ \E a : a <= Most /\ samples' = [samples EXCEPT ![p] = a]
  PROVE  ScoreBounds'
<1>1. /\ results' = [results EXCEPT ![p] = [score |-> score, sample |-> s]]
      /\ UNCHANGED <<local, told, rounds, deaths>>
  BY DEF L!Ends
<1>2. DOMAIN samples = Peers /\ DOMAIN results = Peers
  BY DEF ScoreInv, ScoreTypes
<1> QED
  BY <1>1, <1>2 DEF ScoreBounds

LEMMA BoundsStep ==
  ASSUME ScoreInv, Told, ScoreBounds, L!Next \/ UNCHANGED scoring
  PROVE  ScoreBounds'
<1>1. CASE UNCHANGED scoring
  BY <1>1 DEF scoring, ScoreBounds
<1>2. ASSUME NEW p \in Peers
      PROVE  samples[p] \in Nat \cup {L!Absent} /\ samples[p] <= Most
  BY DEF ScoreInv, ScoreTypes, ScoreBounds
<1>3. CASE L!StartProbeRound
  <2>1. rounds + 1 \in 0..MaxRounds
    BY <1>3, MostIs DEF L!StartProbeRound, ScoreBounds
  <2> QED
    BY <1>3, <2>1 DEF L!StartProbeRound, ScoreBounds
<1>4. CASE L!ApplyProbeRound
  <2>1. /\ local' \in [Peers -> Nat \cup {L!Absent, L!NaN}]
        /\ local' = [p \in Peers |-> L!Scored(p)]
        /\ results' = L!Empty /\ told' = L!Claim(told, L!SelfScore(local'))
        /\ UNCHANGED <<samples, rounds, deaths>>
    BY <1>4, ScoreApplied DEF ScoreInv, ScoreTypes, L!ApplyProbeRound
  <2>2. \A p \in Peers : local'[p] <= Most
    BY <2>1 DEF L!Scored, ScoreBounds
  <2>3. PICK scores \in [Peers -> Nat \cup {L!Absent, L!NaN}] : scores = local'
    BY <2>1
  <2>4. L!SelfScore(scores) <= Most
    BY <2>2, <2>3, SelfScoreBounded
  <2>5. told' <= Most
    BY <2>1, <2>3, <2>4 DEF L!Claim, ScoreBounds
  <2>6. \A p \in Peers : results'[p].score <= Most
    BY <2>1, MostIs DEF L!Empty
  <2> QED
    BY <2>1, <2>2, <2>5, <2>6 DEF ScoreBounds
<1>5. ASSUME NEW p \in Peers, NEW rtt \in Answers, L!Answered(p, rtt)
      PROVE  ScoreBounds'
  <2>1. rtt \in Nat /\ rtt < L!Penalty /\ L!Penalty \in Nat
    BY ScoreFacts
  <2>2. PICK a \in Nat \cup {L!Absent} : a = samples[p] /\ a <= Most
    BY <1>2
  <2>3. rtt <= L!Penalty
    BY <2>1
  <2>4. L!Record(a, rtt) <= Most
    BY <2>1, <2>2, <2>3, RecordBounded
  <2> QED
    BY <1>5, <2>2, <2>4, BoundsEnd DEF L!Answered
<1>6. ASSUME NEW p \in Peers, L!Failed(p)
      PROVE  ScoreBounds'
  <2>1. L!Penalty \in Nat /\ L!Penalty <= L!Penalty
    BY ScoreFacts
  <2>2. L!Record(samples[p], L!Penalty) <= Most
    BY <1>2, <2>1, RecordBounded
  <2> QED
    BY <1>6, <2>2, MostIs, BoundsEnd DEF L!Failed
<1>7. ASSUME NEW p \in Peers, L!Stopped(p)
      PROVE  ScoreBounds'
  BY <1>7, MostIs, BoundsEnd DEF L!Stopped
<1>8. ASSUME NEW p \in Peers, L!PeerDies(p)
      PROVE  ScoreBounds'
  <2>1. /\ samples' = [q \in Peers |-> IF q \in dead' THEN L!Absent ELSE samples[q]]
        /\ local' = [q \in Peers |-> IF q \in dead' THEN L!Absent ELSE local[q]]
        /\ deaths < MaxDeaths /\ deaths' = deaths + 1
        /\ UNCHANGED <<results, told, rounds>>
    BY <1>8 DEF L!PeerDies, L!Retain
  <2>2. deaths' \in 0..MaxDeaths
    BY <2>1, MostIs DEF ScoreBounds
  <2>3. \A q \in Peers : samples'[q] <= Most /\ local'[q] <= Most
    BY <2>1, MostIs DEF ScoreBounds
  <2> QED
    BY <2>1, <2>2, <2>3 DEF ScoreBounds
<1>9. ASSUME NEW p \in Peers, L!PeerReturns(p)
      PROVE  ScoreBounds'
  BY <1>9 DEF L!PeerReturns, ScoreBounds
<1> QED
  BY <1>1, <1>3, <1>4, <1>5, <1>6, <1>7, <1>8, <1>9 DEF L!Next

LEMMA ScoreTypesAre == ScoreInv /\ Told /\ ScoreBounds => L!TypeOK
<1> SUFFICES ASSUME ScoreInv, Told, ScoreBounds PROVE L!TypeOK
  OBVIOUS
<1>1. Most \in Nat
  BY MostIs
<1>2. ASSUME NEW p \in Peers
      PROVE  /\ samples[p] \in {L!Absent} \cup 0..Most
             /\ local[p] \in {L!Absent, L!NaN} \cup 0..Most
  BY <1>1 DEF ScoreInv, ScoreTypes, ScoreBounds
<1>3. told \in {L!NaN} \cup 0..Most
  BY <1>1 DEF Told, ScoreBounds
<1> QED
  BY <1>2, <1>3 DEF ScoreInv, ScoreTypes, ScoreBounds, L!TypeOK, Most

-----------------------------------------------------------------------------
(***************************************************************************)
(* The election.  First what ranks are: the members of a finite set, in a  *)
(* strict order of all of them, that have fewer than k before them.        *)
(***************************************************************************)

Strict(R, A) ==
  /\ \A x \in A : <<x, x>> \notin R
  /\ \A x, y \in A : x = y \/ <<x, y>> \in R \/ <<y, x>> \in R
  /\ \A x, y, z \in A : <<x, y>> \in R /\ <<y, z>> \in R => <<x, z>> \in R

Before(R, A, x) == {y \in A : <<y, x>> \in R}
Rank(R, A, x) == Cardinality(Before(R, A, x))
Leading(R, A, k) == {x \in A : Rank(R, A, x) < k}

LEMMA RankIsNat ==
  ASSUME NEW R, NEW A, IsFiniteSet(A), NEW x
  PROVE  Before(R, A, x) \in SUBSET A /\ IsFiniteSet(Before(R, A, x)) /\ Rank(R, A, x) \in Nat
<1>1. Before(R, A, x) \in SUBSET A
  BY DEF Before
<1>2. IsFiniteSet(Before(R, A, x))
  BY <1>1, FS_Subset
<1> QED
  BY <1>1, <1>2, FS_CardinalityType DEF Rank

\* Fewer members, fewer of them.
LEMMA FewerCounted ==
  ASSUME NEW T, IsFiniteSet(T), NEW D \in SUBSET T, NEW x \in T, x \notin D
  PROVE  /\ Cardinality(D) \in Nat /\ Cardinality(T) \in Nat
         /\ Cardinality(D) < Cardinality(T)
<1>1. IsFiniteSet(D) /\ Cardinality(D) <= Cardinality(T)
      /\ (Cardinality(D) = Cardinality(T) => D = T)
  BY FS_Subset
<1>2. Cardinality(D) \in Nat /\ Cardinality(T) \in Nat
  BY <1>1, FS_CardinalityType
<1>3. D # T
  OBVIOUS
<1> QED
  BY <1>1, <1>2, <1>3

LEMMA RankGrows ==
  ASSUME NEW R, NEW A, IsFiniteSet(A), Strict(R, A), NEW x \in A, NEW y \in A, <<x, y>> \in R
  PROVE  Rank(R, A, x) < Rank(R, A, y)
<1>1. Before(R, A, x) \in SUBSET Before(R, A, y)
  BY DEF Before, Strict
<1>2. x \in Before(R, A, y) /\ x \notin Before(R, A, x)
  BY DEF Before, Strict
<1>3. IsFiniteSet(Before(R, A, y))
  BY RankIsNat
<1> QED
  BY <1>1, <1>2, <1>3, FewerCounted DEF Rank

\* A set of naturals that is not empty has a least one.
LEMMA LeastOf ==
  ASSUME NEW D \in SUBSET Nat, D # {}
  PROVE  \E m \in D : \A j \in D : m <= j
<1>1. PICK m \in D : \A j \in D : ~(<<j, m>> \in OpToRel(<, Nat))
  BY WFMin, NatLessThanWellFounded
<1>2. ASSUME NEW j \in D PROVE m <= j
  <2>1. ~(j < m)
    BY <1>1 DEF OpToRel
  <2> QED
    BY <2>1
<1> QED
  BY <1>2

LEMMA FirstIs ==
  ASSUME NEW R, NEW A, IsFiniteSet(A), Strict(R, A), NEW B \in SUBSET A, B # {}
  PROVE  \E m \in B : \A y \in B \ {m} : <<m, y>> \in R
<1> DEFINE ranks == {Rank(R, A, x) : x \in B}
<1>1. ranks \in SUBSET Nat /\ ranks # {}
  BY RankIsNat
<1>2. PICK r \in ranks : \A q \in ranks : r <= q
  <2> HIDE DEF ranks
  <2> QED
    BY <1>1, LeastOf
<1>3. PICK m \in B : r = Rank(R, A, m)
  BY <1>2
<1>4. ASSUME NEW y \in B \ {m}
      PROVE  <<m, y>> \in R
  <2>1. Rank(R, A, m) <= Rank(R, A, y)
    BY <1>2, <1>3
  <2>2. Rank(R, A, m) \in Nat /\ Rank(R, A, y) \in Nat
    BY RankIsNat
  <2>3. <<y, m>> \notin R
    <3> SUFFICES ASSUME <<y, m>> \in R
                 PROVE  FALSE
      OBVIOUS
    <3>1. Rank(R, A, y) < Rank(R, A, m)
      BY RankGrows
    <3> QED
      BY <2>1, <2>2, <3>1
  <2> QED
    BY <2>3 DEF Strict
<1> QED
  BY <1>4

\* From 0 up to n.
LEMMA Upward ==
  ASSUME NEW n \in Nat, NEW D, 0 \in D, \A i \in 1..n : i - 1 \in D => i \in D
  PROVE  \A i \in 0..n : i \in D
<1> SUFFICES ASSUME NEW k \in 0..n, k \notin D
             PROVE  FALSE
  OBVIOUS
<1> DEFINE Missing == {i \in 0..n : i \notin D}
<1>1. Missing \in SUBSET Nat /\ Missing # {}
  OBVIOUS
<1>2. PICK m \in Missing : \A j \in Missing : m <= j
  <2> HIDE DEF Missing
  <2> QED
    BY <1>1, LeastOf
<1>3. m \in 1..n /\ m - 1 \in 0..n /\ ~(m <= m - 1)
  BY <1>2
<1>4. m - 1 \in D
  BY <1>2, <1>3
<1> QED
  BY <1>2, <1>3, <1>4

LEMMA LeadingCount ==
  ASSUME NEW R, NEW A, IsFiniteSet(A), Strict(R, A), NEW k \in Nat, k <= Cardinality(A)
  PROVE  Cardinality(Leading(R, A, k)) = k
<1> DEFINE Good == {i \in Nat : Cardinality(Leading(R, A, i)) = i}
<1>1. 0 \in Good
  <2>1. Leading(R, A, 0) = {}
    BY RankIsNat DEF Leading
  <2> QED
    BY <2>1, FS_EmptySet
<1>2. ASSUME NEW i \in 1..k, i - 1 \in Good
      PROVE  i \in Good
  <2> DEFINE Led == Leading(R, A, i - 1)
  <2>1. i - 1 \in Nat /\ i \in Nat /\ Cardinality(Led) = i - 1 /\ Led \in SUBSET A
    BY <1>2 DEF Leading
  <2>2. IsFiniteSet(Led) /\ Cardinality(A) \in Nat
    BY <2>1, FS_Subset, FS_CardinalityType
  <2>3. A \ Led # {}
    <3> HIDE DEF Led
    <3> SUFFICES ASSUME A \ Led = {} PROVE FALSE
      OBVIOUS
    <3>1. A = Led
      BY <2>1
    <3> QED
      BY <2>1, <2>2, <3>1
  <2>4. PICK m \in A \ Led : \A y \in (A \ Led) \ {m} : <<m, y>> \in R
    <3>1. PICK B \in SUBSET A : B = A \ Led
      OBVIOUS
    <3>2. B # {}
      BY <2>3, <3>1
    <3>3. \E m \in B : \A y \in B \ {m} : <<m, y>> \in R
      BY <3>2, FirstIs
    <3> HIDE DEF Led
    <3> QED
      BY <3>1, <3>3
  <2>5. Before(R, A, m) = Led
    <3>1. ASSUME NEW x \in Before(R, A, m)
          PROVE  x \in Led
      <4>1. x \in A /\ <<x, m>> \in R /\ x # m
        BY <3>1 DEF Before, Strict
      <4>2. <<m, x>> \notin R
        BY <4>1 DEF Strict
      <4> QED
        BY <2>4, <4>1, <4>2
    <3>2. ASSUME NEW x \in Led
          PROVE  x \in Before(R, A, m)
      <4>1. x \in A /\ Rank(R, A, x) < i - 1
        BY DEF Leading
      <4>2. ~(Rank(R, A, m) < i - 1)
        BY <2>4 DEF Leading
      <4>3. <<m, x>> \notin R
        <5> SUFFICES ASSUME <<m, x>> \in R PROVE FALSE
          OBVIOUS
        <5>1. Rank(R, A, m) < Rank(R, A, x)
          BY <2>4, <4>1, RankGrows
        <5>2. Rank(R, A, m) \in Nat /\ Rank(R, A, x) \in Nat
          BY RankIsNat
        <5> QED
          BY <2>1, <4>1, <4>2, <5>1, <5>2
      <4>4. x # m
        BY <2>4
      <4>5. <<x, m>> \in R
        BY <2>4, <4>1, <4>3, <4>4 DEF Strict
      <4> QED
        BY <4>1, <4>5 DEF Before
    <3> QED
      BY <3>1, <3>2
  <2>6. Rank(R, A, m) = i - 1
    BY <2>1, <2>5 DEF Rank
  <2>7. Leading(R, A, i) = Led \cup {m}
    <3>1. ASSUME NEW x \in Led
          PROVE  x \in Leading(R, A, i)
      <4>1. x \in A /\ Rank(R, A, x) < i - 1 /\ Rank(R, A, x) \in Nat
        BY RankIsNat DEF Leading
      <4>2. Rank(R, A, x) < i
        BY <2>1, <4>1
      <4> QED
        BY <4>1, <4>2 DEF Leading
    <3>2. m \in Leading(R, A, i)
      <4>1. Rank(R, A, m) < i
        BY <2>1, <2>6
      <4> QED
        BY <2>4, <4>1 DEF Leading
    <3>3. ASSUME NEW x \in Leading(R, A, i), x \notin Led, x # m
          PROVE  FALSE
      <4>1. x \in A /\ Rank(R, A, x) < i /\ Rank(R, A, x) \in Nat
        BY RankIsNat DEF Leading
      <4>2. <<m, x>> \in R
        BY <2>4, <3>3, <4>1
      <4>3. Rank(R, A, m) < Rank(R, A, x)
        BY <2>4, <4>1, <4>2, RankGrows
      <4> QED
        BY <2>1, <2>6, <4>1, <4>3
    <3> HIDE DEF Led
    <3> QED
      BY <3>1, <3>2, <3>3
  <2>8. Cardinality(Led \cup {m}) = Cardinality(Led) + 1
    <3> HIDE DEF Led
    <3> QED
      BY <2>2, <2>4, FS_AddElement
  <2> HIDE DEF Led
  <2>9. Cardinality(Leading(R, A, i)) = i
    BY <2>1, <2>7, <2>8
  <2> QED
    BY <2>1, <2>9
<1>3. \A i \in 0..k : i \in Good
  <2> HIDE DEF Good
  <2> QED
    BY <1>1, <1>2, Upward
<1> QED
  BY <1>3

\* The only set of k that holds whoever is before one of it.
LEMMA LeadingOnly ==
  ASSUME NEW R, NEW A, IsFiniteSet(A), Strict(R, A), NEW U \in SUBSET A,
         \A y \in U : \A x \in A : <<x, y>> \in R => x \in U
  PROVE  U = Leading(R, A, Cardinality(U))
<1>1. IsFiniteSet(U) /\ Cardinality(U) \in Nat /\ Cardinality(U) <= Cardinality(A)
  BY FS_Subset, FS_CardinalityType
<1>2. U \subseteq Leading(R, A, Cardinality(U))
  <2> SUFFICES ASSUME NEW y \in U
               PROVE  y \in Leading(R, A, Cardinality(U))
    OBVIOUS
  <2>1. Before(R, A, y) \in SUBSET U /\ y \notin Before(R, A, y)
    BY DEF Before, Strict
  <2>2. Rank(R, A, y) < Cardinality(U)
    BY <1>1, <2>1, FewerCounted DEF Rank
  <2> QED
    BY <2>2 DEF Leading
<1>3. Cardinality(Leading(R, A, Cardinality(U))) = Cardinality(U)
  BY <1>1, LeadingCount
<1>4. IsFiniteSet(Leading(R, A, Cardinality(U)))
  <2>1. Leading(R, A, Cardinality(U)) \in SUBSET A
    BY DEF Leading
  <2> QED
    BY <2>1, FS_Subset
<1> QED
  BY <1>2, <1>3, <1>4, FS_Subset

LEMMA LeadingCloses ==
  ASSUME NEW R, NEW A, IsFiniteSet(A), Strict(R, A), NEW k \in Nat,
         NEW y \in Leading(R, A, k), NEW x \in A, <<x, y>> \in R
  PROVE  x \in Leading(R, A, k)
<1>1. y \in A /\ Rank(R, A, y) < k
  BY DEF Leading
<1>2. Rank(R, A, x) < Rank(R, A, y)
  BY <1>1, RankGrows
<1>3. Rank(R, A, x) \in Nat /\ Rank(R, A, y) \in Nat
  BY RankIsNat
<1> QED
  BY <1>1, <1>2, <1>3 DEF Leading

-----------------------------------------------------------------------------
(* The election over one view, of members up to n. *)

Scored(v) == \A i \in DOMAIN v : v[i].score \in Int \cup {NoScore}
View(v, n) == DOMAIN v \subseteq 1..n /\ Scored(v)

LEMMA ElectionFacts ==
  /\ NoScore \notin Int
  /\ Hysteresis \in Nat
  /\ ShareOf \in Nat \ {0} /\ SharePart \in 1..ShareOf
  /\ Members \in Nat \ {0} /\ Scores \subseteq Int
BY RulesAssumption DEF E!ViewsAssumption, E!ElectionAssumption

LEMMA ElectionCount == \A T : E!Cardinality(T) = Cardinality(T)
BY DEF E!Cardinality, Cardinality

LEMMA ShareIs ==
  ASSUME NEW n \in Nat
  PROVE  /\ E!LeaderCount(n) \in 0..n
         /\ n # 0 => E!LeaderCount(n) # 0
<1>1. PICK k \in Int : k = (n * SharePart + ShareOf - 1) \div ShareOf
  <2>1. SharePart \in Nat /\ ShareOf \in Nat \ {0}
    BY ElectionFacts
  <2>2. n * SharePart \in Nat
    BY <2>1
  <2>3. n * SharePart + ShareOf - 1 \in Int
    BY <2>1, <2>2
  <2>4. (n * SharePart + ShareOf - 1) \div ShareOf \in Int
    BY <2>1, <2>3
  <2> QED
    BY <2>4
<1>2. E!LeaderCount(n) = IF n = 0 THEN 0 ELSE IF k < 1 THEN 1 ELSE IF k > n THEN n ELSE k
  BY <1>1 DEF E!LeaderCount
<1> QED
  BY <1>1, <1>2

LEMMA ElectorateIs ==
  ASSUME NEW n \in Nat, NEW v, View(v, n)
  PROVE  /\ E!Eligible(v) \in SUBSET E!Electorate(v) /\ E!Electorate(v) \in SUBSET DOMAIN v
         /\ DOMAIN v \in SUBSET (1..n)
         /\ IsFiniteSet(DOMAIN v) /\ IsFiniteSet(E!Electorate(v)) /\ IsFiniteSet(E!Eligible(v))
         /\ \A i \in E!Eligible(v) : i \in 1..n /\ v[i].score \in Int
<1>1. E!Eligible(v) \in SUBSET E!Electorate(v) /\ E!Electorate(v) \in SUBSET DOMAIN v
  BY DEF E!Eligible, E!Electorate, E!Ids
<1>2. IsFiniteSet(1..n)
  BY FS_Interval
<1>3. IsFiniteSet(DOMAIN v) /\ IsFiniteSet(E!Electorate(v)) /\ IsFiniteSet(E!Eligible(v))
  BY <1>1, <1>2, FS_Subset DEF View
<1>4. ASSUME NEW i \in E!Eligible(v)
      PROVE  i \in 1..n /\ v[i].score \in Int
  BY <1>1 DEF View, Scored, E!Eligible
<1> QED
  BY <1>1, <1>3, <1>4 DEF View

\* The order Elect ranks by, and the one an incumbent looks for a newcomer by.
Ranked(v) == {p \in E!Eligible(v) \X E!Eligible(v) : E!Ahead(v, p[1], p[2])}
Weaker(v, i, j) == \/ E!Better(v[j].score, v[i].score)
                   \/ ~E!Better(v[i].score, v[j].score) /\ i < j
Yielding(v) == {p \in E!Eligible(v) \X E!Eligible(v) : Weaker(v, p[1], p[2])}

LEMMA AheadIs ==
  ASSUME NEW n \in Nat, NEW v, View(v, n), NEW i \in E!Eligible(v), NEW j \in E!Eligible(v)
  PROVE  /\ E!Ahead(v, i, j) <=> v[i].score < v[j].score \/ (v[i].score = v[j].score /\ i < j)
         /\ Weaker(v, i, j) <=> v[i].score > v[j].score \/ (v[i].score = v[j].score /\ i < j)
         /\ <<i, j>> \in Ranked(v) <=> E!Ahead(v, i, j)
         /\ <<i, j>> \in Yielding(v) <=> Weaker(v, i, j)
<1>1. /\ v[i].score \in Int /\ v[j].score \in Int
      /\ i \in Int /\ j \in Int
  BY ElectorateIs
<1>2. v[i].score # NoScore /\ v[j].score # NoScore
  BY <1>1, ElectionFacts
<1>3. E!Ahead(v, i, j) <=> v[i].score < v[j].score \/ (v[i].score = v[j].score /\ i < j)
  BY <1>1, <1>2 DEF E!Ahead, E!Better
<1>4. Weaker(v, i, j) <=> v[i].score > v[j].score \/ (v[i].score = v[j].score /\ i < j)
  BY <1>1, <1>2 DEF Weaker, E!Better
<1>5. <<i, j>> \in Ranked(v) <=> E!Ahead(v, i, j)
  BY DEF Ranked
<1>6. <<i, j>> \in Yielding(v) <=> Weaker(v, i, j)
  BY DEF Yielding
<1> QED
  BY <1>3, <1>4, <1>5, <1>6

LEMMA OrdersAreStrict ==
  ASSUME NEW n \in Nat, NEW v, View(v, n)
  PROVE  Strict(Ranked(v), E!Eligible(v)) /\ Strict(Yielding(v), E!Eligible(v))
<1> DEFINE A == E!Eligible(v)
<1>1. \A i \in A : i \in Int /\ v[i].score \in Int
  BY ElectorateIs
<1>2. \A i, j \in A : /\ <<i, j>> \in Ranked(v) <=>
                           v[i].score < v[j].score \/ (v[i].score = v[j].score /\ i < j)
                      /\ <<i, j>> \in Yielding(v) <=>
                           v[i].score > v[j].score \/ (v[i].score = v[j].score /\ i < j)
  BY AheadIs
<1> HIDE DEF A
<1>3. Strict(Ranked(v), A)
  <2>1. ASSUME NEW x \in A PROVE <<x, x>> \notin Ranked(v)
    BY <1>1, <1>2
  <2>2. ASSUME NEW x \in A, NEW y \in A
        PROVE  x = y \/ <<x, y>> \in Ranked(v) \/ <<y, x>> \in Ranked(v)
    <3>1. x \in Int /\ v[x].score \in Int /\ y \in Int /\ v[y].score \in Int
      BY <1>1
    <3> QED
      BY <1>2, <3>1
  <2>3. ASSUME NEW x \in A, NEW y \in A, NEW z \in A,
               <<x, y>> \in Ranked(v), <<y, z>> \in Ranked(v)
        PROVE  <<x, z>> \in Ranked(v)
    <3>1. /\ x \in Int /\ v[x].score \in Int /\ y \in Int /\ v[y].score \in Int
          /\ z \in Int /\ v[z].score \in Int
      BY <1>1
    <3> QED
      BY <1>2, <2>3, <3>1
  <2> QED
    BY <2>1, <2>2, <2>3 DEF Strict
<1>4. Strict(Yielding(v), A)
  <2>1. ASSUME NEW x \in A PROVE <<x, x>> \notin Yielding(v)
    BY <1>1, <1>2
  <2>2. ASSUME NEW x \in A, NEW y \in A
        PROVE  x = y \/ <<x, y>> \in Yielding(v) \/ <<y, x>> \in Yielding(v)
    <3>1. x \in Int /\ v[x].score \in Int /\ y \in Int /\ v[y].score \in Int
      BY <1>1
    <3> QED
      BY <1>2, <3>1
  <2>3. ASSUME NEW x \in A, NEW y \in A, NEW z \in A,
               <<x, y>> \in Yielding(v), <<y, z>> \in Yielding(v)
        PROVE  <<x, z>> \in Yielding(v)
    <3>1. /\ x \in Int /\ v[x].score \in Int /\ y \in Int /\ v[y].score \in Int
          /\ z \in Int /\ v[z].score \in Int
      BY <1>1
    <3> QED
      BY <1>2, <2>3, <3>1
  <2> QED
    BY <2>1, <2>2, <2>3 DEF Strict
<1> QED
  BY <1>3, <1>4 DEF A

\* There are seats for some of the eligible: one at least if there are any.
LEMMA SeatsAre ==
  ASSUME NEW n \in Nat, NEW v, View(v, n)
  PROVE  /\ E!Seats(v) \in Nat /\ E!Seats(v) <= Cardinality(E!Eligible(v))
         /\ E!Eligible(v) # {} => E!Seats(v) # 0
<1>1. Cardinality(E!Electorate(v)) \in Nat /\ Cardinality(E!Eligible(v)) \in Nat
  BY ElectorateIs, FS_CardinalityType
<1>2. PICK want \in Nat : want = E!LeaderCount(Cardinality(E!Electorate(v)))
  BY <1>1, ShareIs
<1>3. E!Seats(v) = IF want > Cardinality(E!Eligible(v)) THEN Cardinality(E!Eligible(v)) ELSE want
  BY <1>2, ElectionCount DEF E!Seats
<1>4. E!Eligible(v) # {} => Cardinality(E!Eligible(v)) # 0 /\ want # 0
  <2> SUFFICES ASSUME E!Eligible(v) # {}
               PROVE  Cardinality(E!Eligible(v)) # 0 /\ want # 0
    OBVIOUS
  <2>1. E!Electorate(v) # {}
    BY ElectorateIs
  <2>2. Cardinality(E!Electorate(v)) # 0 /\ Cardinality(E!Eligible(v)) # 0
    BY <2>1, ElectorateIs, FS_EmptySet
  <2> QED
    BY <1>1, <1>2, <2>2, ShareIs
<1> QED
  BY <1>1, <1>2, <1>3, <1>4

LEMMA TopIs ==
  ASSUME NEW n \in Nat, NEW v, View(v, n)
  PROVE  /\ E!Top(v) = Leading(Ranked(v), E!Eligible(v), E!Seats(v))
         /\ E!Top(v) \in SUBSET E!Eligible(v)
         /\ Cardinality(E!Top(v)) = E!Seats(v)
<1> DEFINE A == E!Eligible(v)
<1>1. ASSUME NEW i \in A
      PROVE  {j \in A : E!Ahead(v, j, i)} = Before(Ranked(v), A, i)
  BY AheadIs DEF Before
<1>2. E!Top(v) = {i \in A : Cardinality({j \in A : E!Ahead(v, j, i)}) < E!Seats(v)}
  BY ElectionCount DEF E!Top
<1>3. E!Top(v) = Leading(Ranked(v), A, E!Seats(v))
  <2> HIDE DEF A
  <2> QED
    BY <1>1, <1>2 DEF Leading, Rank
<1>4. Cardinality(E!Top(v)) = E!Seats(v)
  BY <1>3, ElectorateIs, OrdersAreStrict, SeatsAre, LeadingCount
<1> QED
  BY <1>3, <1>4 DEF Leading

\* Whoever ranks before one of the top is of the top.
LEMMA TopCloses ==
  ASSUME NEW n \in Nat, NEW v, View(v, n), NEW j \in E!Top(v), NEW i \in E!Eligible(v),
         v[i].score < v[j].score \/ (v[i].score = v[j].score /\ i < j)
  PROVE  i \in E!Top(v)
<1>1. <<i, j>> \in Ranked(v)
  BY TopIs, AheadIs
<1> QED
  BY <1>1, TopIs, ElectorateIs, OrdersAreStrict, SeatsAre, LeadingCloses

LEMMA TopOnly ==
  ASSUME NEW n \in Nat, NEW v, View(v, n), NEW U \in SUBSET E!Eligible(v),
         Cardinality(U) = E!Seats(v),
         \A j \in U : \A i \in E!Eligible(v) :
           (v[i].score < v[j].score \/ (v[i].score = v[j].score /\ i < j)) => i \in U
  PROVE  E!Top(v) = U
<1>1. \A j \in U : \A i \in E!Eligible(v) : <<i, j>> \in Ranked(v) => i \in U
  BY AheadIs
<1> QED
  BY <1>1, TopIs, ElectorateIs, OrdersAreStrict, LeadingOnly

-----------------------------------------------------------------------------
(* The seats that change hands. *)

New(v, seated) == {i \in seated : ~E!Leads(v, i)}
Fallen(v) == {i \in E!Eligible(v) : E!Leads(v, i)} \ E!Top(v)
Turn(v, seated, i) == IF i \in Fallen(v) THEN E!Reseat(v, seated, i) ELSE seated

\* The newcomer to displace is one, and the others are no worse.
LEMMA WeakestIs ==
  ASSUME NEW n \in Nat, NEW v, View(v, n), NEW B \in SUBSET E!Eligible(v), B # {}
  PROVE  /\ E!Weakest(v, B) \in B
         /\ \A j \in B \ {E!Weakest(v, B)} :
              v[E!Weakest(v, B)].score > v[j].score
                \/ (v[E!Weakest(v, B)].score = v[j].score /\ E!Weakest(v, B) < j)
         /\ \A i \in B : (\A j \in B \ {i} : v[i].score > v[j].score
                                               \/ (v[i].score = v[j].score /\ i < j))
                           => i = E!Weakest(v, B)
<1> DEFINE Worst(i) == \A j \in B \ {i} : Weaker(v, i, j)
<1>1. E!Weakest(v, B) = CHOOSE i \in B : Worst(i)
  BY DEF E!Weakest, Weaker
<1>2. \E i \in B : Worst(i)
  <2>1. PICK m \in B : \A y \in B \ {m} : <<m, y>> \in Yielding(v)
    BY ElectorateIs, OrdersAreStrict, FirstIs
  <2> QED
    BY <2>1, AheadIs
<1>3. PICK w \in B : w = E!Weakest(v, B) /\ Worst(w)
  <2>1. (CHOOSE i \in B : Worst(i)) \in B /\ Worst(CHOOSE i \in B : Worst(i))
    BY <1>2
  <2> HIDE DEF Worst
  <2> QED
    BY <1>1, <2>1
<1>4. \A i \in B : i \in Int /\ v[i].score \in Int
  BY ElectorateIs
<1>5. \A i, j \in B : Weaker(v, i, j)
                        <=> v[i].score > v[j].score \/ (v[i].score = v[j].score /\ i < j)
  BY AheadIs
<1>6. \A j \in B \ {w} : v[w].score > v[j].score \/ (v[w].score = v[j].score /\ w < j)
  BY <1>3, <1>5
<1>7. ASSUME NEW i \in B,
             \A j \in B \ {i} : v[i].score > v[j].score \/ (v[i].score = v[j].score /\ i < j)
      PROVE  i = w
  BY <1>4, <1>6, <1>7
<1> QED
  BY <1>3, <1>6, <1>7

\* A newcomer gives its seat back, or the seats stay.
LEMMA ReseatIs ==
  ASSUME NEW n \in Nat, NEW v, View(v, n), NEW seated \in SUBSET E!Eligible(v),
         NEW i \in E!Eligible(v)
  PROVE  \/ /\ New(v, seated) = {}
            /\ E!Reseat(v, seated, i) = seated
         \/ \E weak \in New(v, seated) :
              /\ weak = E!Weakest(v, New(v, seated))
              /\ \A j \in New(v, seated) : v[j].score <= v[weak].score
              /\ v[i].score - v[weak].score >= Hysteresis
              /\ E!Reseat(v, seated, i) = seated
         \/ \E weak \in New(v, seated) :
              /\ weak = E!Weakest(v, New(v, seated))
              /\ ~(v[i].score - v[weak].score >= Hysteresis)
              /\ E!Reseat(v, seated, i) = (seated \ {weak}) \cup {i}
<1>1. E!Reseat(v, seated, i) =
        IF New(v, seated) = {}
           \/ v[i].score - v[E!Weakest(v, New(v, seated))].score >= Hysteresis
        THEN seated ELSE (seated \ {E!Weakest(v, New(v, seated))}) \cup {i}
  BY DEF E!Reseat, New
<1>2. CASE New(v, seated) = {}
  BY <1>1, <1>2
<1>3. CASE New(v, seated) # {}
  <2>1. New(v, seated) \in SUBSET E!Eligible(v)
    BY DEF New
  <2>2. PICK weak \in New(v, seated) :
          /\ weak = E!Weakest(v, New(v, seated))
          /\ \A j \in New(v, seated) \ {weak} :
               v[weak].score > v[j].score \/ (v[weak].score = v[j].score /\ weak < j)
    BY <1>3, <2>1, WeakestIs
  <2>3. \A j \in New(v, seated) : v[j].score <= v[weak].score
    <3>1. \A j \in New(v, seated) : v[j].score \in Int
      BY <2>1, ElectorateIs
    <3> QED
      BY <2>2, <3>1
  <2> QED
    BY <1>1, <1>3, <2>2, <2>3
<1> QED
  BY <1>2, <1>3

\* The incumbents without a seat in turn, up to the n-th member.
Seating(v, n, f) ==
  f = [i \in 0..n |-> IF i = 0 THEN E!Top(v) ELSE Turn(v, f[i - 1], i)]

LEMMA SeatingExists ==
  ASSUME NEW n \in Nat, NEW v
  PROVE  \E f : Seating(v, n, f)
<1> DEFINE Found == {m \in Nat : \E f : Seating(v, m, f)}
<1>1. 0 \in Found
  <2>1. Seating(v, 0, [i \in 0..0 |-> E!Top(v)])
    BY DEF Seating
  <2> QED
    BY <2>1
<1>2. ASSUME NEW m \in 1..n, m - 1 \in Found
      PROVE  m \in Found
  <2>1. m \in Nat /\ m # 0 /\ m - 1 \in Nat
    OBVIOUS
  <2>2. PICK f : Seating(v, m - 1, f)
    BY <1>2
  <2> DEFINE g == [i \in 0..m |-> IF i = m THEN Turn(v, f[m - 1], m) ELSE f[i]]
  <2>3. ASSUME NEW i \in 0..m
        PROVE  g[i] = IF i = 0 THEN E!Top(v) ELSE Turn(v, g[i - 1], i)
    <3>1. i = 0 => f[i] = E!Top(v) /\ i # m
      BY <2>1, <2>2 DEF Seating
    <3>2. i # 0 => i - 1 \in 0..m /\ i - 1 # m
      OBVIOUS
    <3>3. i # 0 /\ i # m => i \in 0..(m - 1)
      OBVIOUS
    <3>4. i # 0 /\ i # m => f[i] = Turn(v, f[i - 1], i)
      BY <2>2, <3>3 DEF Seating
    <3> QED
      BY <3>1, <3>2, <3>4
  <2>4. Seating(v, m, g)
    BY <2>3 DEF Seating
  <2> QED
    BY <2>1, <2>4
<1>3. \A i \in 0..n : i \in Found
  <2> HIDE DEF Found
  <2> QED
    BY <1>1, <1>2, Upward
<1> QED
  BY <1>3

LEMMA SeatingTurns ==
  ASSUME NEW n \in Nat, NEW v, NEW f, Seating(v, n, f)
  PROVE  /\ f[0] = E!Top(v)
         /\ \A i \in 1..n : f[i] = Turn(v, f[i - 1], i)
<1>1. f[0] = E!Top(v)
  BY DEF Seating
<1>2. ASSUME NEW i \in 1..n
      PROVE  f[i] = Turn(v, f[i - 1], i)
  <2>1. i \in 0..n /\ i # 0
    OBVIOUS
  <2>2. f[i] = IF i = 0 THEN E!Top(v) ELSE Turn(v, f[i - 1], i)
    BY <2>1 DEF Seating
  <2> QED
    BY <2>1, <2>2
<1> QED
  BY <1>1, <1>2

\* Damped ends with the last of them.
LEMMA DampedIs ==
  ASSUME NEW n \in Nat, NEW v, View(v, n), NEW f, Seating(v, n, f)
  PROVE  E!Damped(v) = IF Hysteresis = 0 THEN E!Top(v) ELSE f[n]
<1> DEFINE last == IF Fallen(v) = {} THEN 0
                   ELSE CHOOSE i \in Fallen(v) : \A j \in Fallen(v) : j <= i
<1>1. last \in 0..n /\ \A i \in Fallen(v) : i <= last
  <2>1. Fallen(v) \in SUBSET (1..n)
    BY ElectorateIs DEF Fallen
  <2>2. CASE Fallen(v) = {}
    BY <2>2
  <2>3. CASE Fallen(v) # {}
    <3> DEFINE gaps == {n - i : i \in Fallen(v)}
    <3>1. gaps \in SUBSET Nat /\ gaps # {}
      BY <2>1, <2>3
    <3>2. PICK c \in gaps : \A d \in gaps : c <= d
      <4> HIDE DEF gaps
      <4> QED
        BY <3>1, LeastOf
    <3>3. PICK m \in Fallen(v) : c = n - m
      BY <3>2
    <3>4. ASSUME NEW j \in Fallen(v)
          PROVE  j <= m
      <4>1. n - m <= n - j
        BY <3>2, <3>3
      <4>2. j \in Int /\ m \in Int
        BY <2>1
      <4> QED
        BY <4>1, <4>2
    <3>5. last \in Fallen(v) /\ \A j \in Fallen(v) : j <= last
      BY <2>3, <3>4
    <3> HIDE DEF last
    <3> QED
      BY <2>1, <3>5
  <2> QED
    BY <2>2, <2>3
<1> HIDE DEF last
<1> DEFINE g == CHOOSE g : Seating(v, last, g)
<1>2. Seating(v, last, g)
  <2>1. \E h : Seating(v, last, h)
    BY <1>1, SeatingExists
  <2> QED
    BY <2>1
<1>3. E!Damped(v) = IF Hysteresis = 0 THEN E!Top(v) ELSE g[last]
  BY DEF E!Damped, Seating, Turn, Fallen, last
<1> HIDE DEF g
<1> DEFINE Agreed == {i \in Nat : f[i] = g[IF i <= last THEN i ELSE last]}
<1>4. 0 \in Agreed
  BY <1>1, <1>2, SeatingTurns
<1>5. ASSUME NEW i \in 1..n, i - 1 \in Agreed
      PROVE  i \in Agreed
  <2>1. f[i] = Turn(v, f[i - 1], i)
    BY SeatingTurns
  <2>2. CASE i <= last
    <3>1. i \in 1..last /\ i - 1 <= last
      BY <1>1, <2>2
    <3>2. g[i] = Turn(v, g[i - 1], i)
      BY <1>1, <1>2, <3>1, SeatingTurns
    <3>3. f[i - 1] = g[i - 1]
      BY <1>5, <3>1
    <3> QED
      BY <2>1, <2>2, <3>2, <3>3
  <2>3. CASE ~(i <= last)
    <3>1. i \notin Fallen(v)
      BY <1>1, <2>3
    <3>2. f[i] = f[i - 1]
      BY <2>1, <3>1 DEF Turn
    <3>3. f[i - 1] = g[IF i - 1 <= last THEN i - 1 ELSE last]
      BY <1>5
    <3>4. (IF i - 1 <= last THEN i - 1 ELSE last) = last
      BY <1>1, <2>3
    <3> QED
      BY <2>3, <3>2, <3>3, <3>4
  <2> QED
    BY <2>2, <2>3
<1>6. n \in Agreed
  <2> HIDE DEF Agreed
  <2> QED
    BY <1>4, <1>5, Upward
<1>7. f[n] = g[last]
  <2>1. f[n] = g[IF n <= last THEN n ELSE last]
    BY <1>6
  <2>2. (IF n <= last THEN n ELSE last) = last
    BY <1>1
  <2> QED
    BY <2>1, <2>2
<1> QED
  BY <1>3, <1>7

\* What one turn does: the newcomers only go, the incumbents only come, and as many sit.
LEMMA TurnIsFair ==
  ASSUME NEW n \in Nat, NEW v, View(v, n), NEW seated \in SUBSET E!Eligible(v), NEW i \in 1..n,
         i \notin seated \/ i \notin Fallen(v)
  PROVE  /\ Turn(v, seated, i) \in SUBSET E!Eligible(v)
         /\ Turn(v, seated, i) \in SUBSET (seated \cup (Fallen(v) \cap {i}))
         /\ Cardinality(Turn(v, seated, i)) = Cardinality(seated)
         /\ New(v, Turn(v, seated, i)) \subseteq New(v, seated)
         /\ \A x \in seated : E!Leads(v, x) => x \in Turn(v, seated, i)
<1>1. CASE Turn(v, seated, i) = seated
  BY <1>1
<1>2. CASE Turn(v, seated, i) # seated
  <2>1. i \in Fallen(v) /\ i \in E!Eligible(v) /\ E!Leads(v, i) /\ i \notin seated
    BY <1>2 DEF Turn, Fallen
  <2>2. PICK weak \in New(v, seated) : Turn(v, seated, i) = (seated \ {weak}) \cup {i}
    BY <1>2, <2>1, ReseatIs DEF Turn
  <2>3. weak \in seated /\ ~E!Leads(v, weak)
    BY <2>2 DEF New
  <2>4. IsFiniteSet(seated)
    BY ElectorateIs, FS_Subset
  <2>5. Cardinality((seated \ {weak}) \cup {i}) = Cardinality(seated)
    <3>1. IsFiniteSet(seated \ {weak}) /\ Cardinality(seated \ {weak}) = Cardinality(seated) - 1
      BY <2>3, <2>4, FS_RemoveElement
    <3>2. Cardinality((seated \ {weak}) \cup {i}) = Cardinality(seated \ {weak}) + 1
      BY <2>1, <3>1, FS_AddElement
    <3>3. Cardinality(seated) \in Nat
      BY <2>4, FS_CardinalityType
    <3> QED
      BY <3>1, <3>2, <3>3
  <2> QED
    BY <2>1, <2>2, <2>3, <2>5 DEF New
<1> QED
  BY <1>1, <1>2

LEMMA SeatingFits ==
  ASSUME NEW n \in Nat, NEW v, View(v, n), NEW f, Seating(v, n, f)
  PROVE  \A i \in 0..n : /\ f[i] \in SUBSET E!Eligible(v)
                         /\ f[i] \in SUBSET (E!Top(v) \cup (Fallen(v) \cap (1..i)))
                         /\ Cardinality(f[i]) = E!Seats(v)
<1> DEFINE Good == {i \in Nat : /\ f[i] \in SUBSET E!Eligible(v)
                                /\ f[i] \in SUBSET (E!Top(v) \cup (Fallen(v) \cap (1..i)))
                                /\ Cardinality(f[i]) = E!Seats(v)}
<1>1. 0 \in Good
  BY SeatingTurns, TopIs
<1>2. ASSUME NEW i \in 1..n, i - 1 \in Good
      PROVE  i \in Good
  <2>1. f[i] = Turn(v, f[i - 1], i) /\ i \in Nat /\ i - 1 \in Nat
    BY SeatingTurns
  <2>2. PICK seated \in SUBSET E!Eligible(v) :
          /\ seated = f[i - 1]
          /\ seated \in SUBSET (E!Top(v) \cup (Fallen(v) \cap (1..(i - 1))))
          /\ Cardinality(seated) = E!Seats(v)
    BY <1>2
  <2>3. i \notin seated \/ i \notin Fallen(v)
    BY <2>2 DEF Fallen
  <2>4. /\ Turn(v, seated, i) \in SUBSET E!Eligible(v)
        /\ Turn(v, seated, i) \in SUBSET (seated \cup (Fallen(v) \cap {i}))
        /\ Cardinality(Turn(v, seated, i)) = Cardinality(seated)
    BY <2>3, TurnIsFair
  <2>5. (1..(i - 1)) \cup {i} \subseteq 1..i
    BY <2>1
  <2>6. Turn(v, seated, i) \in SUBSET (E!Top(v) \cup (Fallen(v) \cap (1..i)))
    BY <2>2, <2>4, <2>5
  <2> QED
    BY <2>1, <2>2, <2>4, <2>6
<1>3. \A i \in 0..n : i \in Good
  <2> HIDE DEF Good
  <2> QED
    BY <1>1, <1>2, Upward
<1> QED
  BY <1>3

\* From turn to turn the newcomers only go and the incumbents only come.
LEMMA SeatingFlows ==
  ASSUME NEW n \in Nat, NEW v, View(v, n), NEW f, Seating(v, n, f), NEW i \in 0..n
  PROVE  /\ New(v, f[n]) \subseteq New(v, f[i])
         /\ \A x \in f[i] : E!Leads(v, x) => x \in f[n]
         /\ f[n] \subseteq f[i] \cup {x \in Fallen(v) : i < x}
<1> DEFINE Good == {j \in Nat : i <= j => /\ New(v, f[j]) \subseteq New(v, f[i])
                                          /\ \A x \in f[i] : E!Leads(v, x) => x \in f[j]
                                          /\ f[j] \subseteq f[i] \cup {x \in Fallen(v) : i < x}}
<1>1. 0 \in Good
  OBVIOUS
<1>2. ASSUME NEW j \in 1..n, j - 1 \in Good
      PROVE  j \in Good
  <2>1. CASE j <= i
    BY <2>1
  <2>2. CASE ~(j <= i)
    <3>1. j \in Nat /\ j - 1 \in 0..n /\ i <= j - 1
      BY <2>2
    <3>2. /\ New(v, f[j - 1]) \subseteq New(v, f[i])
          /\ \A x \in f[i] : E!Leads(v, x) => x \in f[j - 1]
          /\ f[j - 1] \subseteq f[i] \cup {x \in Fallen(v) : i < x}
      BY <1>2, <3>1
    <3>3. f[j] = Turn(v, f[j - 1], j)
      BY SeatingTurns
    <3>4. PICK seated \in SUBSET E!Eligible(v) :
            /\ seated = f[j - 1]
            /\ seated \in SUBSET (E!Top(v) \cup (Fallen(v) \cap (1..(j - 1))))
      BY <3>1, SeatingFits
    <3>5. j \notin seated \/ j \notin Fallen(v)
      BY <3>4 DEF Fallen
    <3>6. /\ New(v, Turn(v, seated, j)) \subseteq New(v, seated)
          /\ \A x \in seated : E!Leads(v, x) => x \in Turn(v, seated, j)
          /\ Turn(v, seated, j) \in SUBSET (seated \cup (Fallen(v) \cap {j}))
      BY <3>5, TurnIsFair
    <3>7. New(v, f[j]) \subseteq New(v, f[i])
      BY <3>2, <3>3, <3>4, <3>6
    <3>8. \A x \in f[i] : E!Leads(v, x) => x \in f[j]
      BY <3>2, <3>3, <3>4, <3>6
    <3>9. f[j] \subseteq f[i] \cup {x \in Fallen(v) : i < x}
      <4>1. i < j
        BY <2>2
      <4> QED
        BY <3>2, <3>3, <3>4, <3>6, <4>1
    <3> QED
      BY <3>1, <3>7, <3>8, <3>9
  <2> QED
    BY <2>1, <2>2
<1>3. n \in Good
  <2> HIDE DEF Good
  <2> QED
    BY <1>1, <1>2, Upward
<1> QED
  BY <1>3

\* Two views in which every turn goes alike seat the same members.
LEMMA SeatingSame ==
  ASSUME NEW n \in Nat, NEW v, NEW w, NEW f, NEW g, Seating(v, n, f), Seating(w, n, g),
         E!Top(w) = E!Top(v), \A i \in 1..n : Turn(w, f[i - 1], i) = Turn(v, f[i - 1], i)
  PROVE  g[n] = f[n]
<1> DEFINE Good == {i \in Nat : g[i] = f[i]}
<1>1. 0 \in Good
  BY SeatingTurns
<1>2. ASSUME NEW i \in 1..n, i - 1 \in Good
      PROVE  i \in Good
  <2>1. g[i - 1] = f[i - 1] /\ i \in Nat
    BY <1>2
  <2>2. g[i] = Turn(w, g[i - 1], i) /\ f[i] = Turn(v, f[i - 1], i)
    BY SeatingTurns
  <2> QED
    BY <2>1, <2>2
<1>3. n \in Good
  <2> HIDE DEF Good
  <2> QED
    BY <1>1, <1>2, Upward
<1> QED
  BY <1>3

LEMMA ElectIs ==
  ASSUME NEW n \in Nat, NEW v, View(v, n), NEW f, Seating(v, n, f)
  PROVE  /\ E!Electorate(v) = {} => E!Elect(v) = {}
         /\ E!Electorate(v) # {} /\ E!Eligible(v) = {} =>
              /\ E!Elect(v) = {CHOOSE i \in E!Electorate(v) : \A j \in E!Electorate(v) : i <= j}
              /\ E!Elect(v) \in SUBSET E!Electorate(v)
         /\ E!Eligible(v) # {} =>
              /\ E!Elect(v) = IF Hysteresis = 0 THEN E!Top(v) ELSE f[n]
              /\ E!Elect(v) \in SUBSET E!Eligible(v)
              /\ Cardinality(E!Elect(v)) = E!Seats(v)
<1>1. E!Electorate(v) = {} => E!Elect(v) = {}
  BY DEF E!Elect
<1>2. ASSUME E!Electorate(v) # {}, E!Eligible(v) = {}
      PROVE  /\ E!Elect(v) = {CHOOSE i \in E!Electorate(v) : \A j \in E!Electorate(v) : i <= j}
             /\ E!Elect(v) \in SUBSET E!Electorate(v)
  <2>1. E!Elect(v) = {CHOOSE i \in E!Electorate(v) : \A j \in E!Electorate(v) : i <= j}
    BY <1>2 DEF E!Elect
  <2>2. E!Electorate(v) \in SUBSET Nat
    BY ElectorateIs
  <2>3. \E i \in E!Electorate(v) : \A j \in E!Electorate(v) : i <= j
    BY <1>2, <2>2, LeastOf
  <2> QED
    BY <2>1, <2>3
<1>3. ASSUME E!Eligible(v) # {}
      PROVE  /\ E!Elect(v) = IF Hysteresis = 0 THEN E!Top(v) ELSE f[n]
             /\ E!Elect(v) \in SUBSET E!Eligible(v)
             /\ Cardinality(E!Elect(v)) = E!Seats(v)
  <2>1. E!Electorate(v) # {}
    BY <1>3, ElectorateIs
  <2>2. E!Elect(v) = IF Hysteresis = 0 THEN E!Top(v) ELSE f[n]
    BY <1>3, <2>1, DampedIs DEF E!Elect
  <2>3. n \in 0..n
    OBVIOUS
  <2> QED
    BY <2>2, <2>3, TopIs, SeatingFits
<1> QED
  BY <1>1, <1>2, <1>3

\* Whoever is elected may stand.
LEMMA ElectedMayStand ==
  ASSUME NEW n \in Nat, NEW v, View(v, n)
  PROVE  E!Elect(v) \in SUBSET E!Electorate(v)
<1>1. PICK f : Seating(v, n, f)
  BY SeatingExists
<1> QED
  BY <1>1, ElectIs, ElectorateIs

-----------------------------------------------------------------------------
(* What an election promises, of every view. *)

SwapsEarned(v) ==
  \A old \in E!Eligible(v) \ E!Elect(v), new \in E!Elect(v) :
    (E!Leads(v, old) /\ ~E!Leads(v, new) /\ v[new].score # NoScore)
      => v[old].score - v[new].score >= Hysteresis

\* An incumbent in the top stays; one that is not meets the weakest of the newcomers, and
\* whoever is new in the end was new then.
LEMMA SwapsAreEarned ==
  ASSUME NEW n \in Nat, NEW v, View(v, n)
  PROVE  SwapsEarned(v)
<1> SUFFICES ASSUME NEW old \in E!Eligible(v) \ E!Elect(v), NEW new \in E!Elect(v),
                    E!Leads(v, old), ~E!Leads(v, new)
             PROVE  v[old].score - v[new].score >= Hysteresis
  BY DEF SwapsEarned
<1>1. PICK f : Seating(v, n, f)
  BY SeatingExists
<1>2. /\ E!Elect(v) = IF Hysteresis = 0 THEN E!Top(v) ELSE f[n]
      /\ new \in E!Eligible(v)
  BY <1>1, ElectIs
<1>3. /\ old \in 1..n /\ v[old].score \in Int
      /\ new \in 1..n /\ v[new].score \in Int
  BY <1>2, ElectorateIs
<1>4. Hysteresis \in Nat
  BY ElectionFacts
<1>5. CASE Hysteresis = 0
  <2>1. new \in E!Top(v) /\ old \notin E!Top(v)
    BY <1>2, <1>5
  <2>2. ~(v[old].score < v[new].score)
    BY <2>1, TopCloses
  <2> QED
    BY <1>3, <1>5, <2>2
<1>6. CASE Hysteresis # 0
  <2>1. new \in f[n] /\ old \notin f[n]
    BY <1>2, <1>6
  <2>2. old \in Fallen(v)
    <3>1. old \notin f[0]
      <4>1. 0 \in 0..n
        OBVIOUS
      <4> QED
        BY <1>1, <2>1, <4>1, SeatingFlows
    <3> QED
      BY <1>1, <3>1, SeatingTurns DEF Fallen
  <2>3. old - 1 \in 0..n /\ old \in 0..n
    BY <1>3
  <2>4. PICK seated \in SUBSET E!Eligible(v) : seated = f[old - 1]
    BY <1>1, <2>3, SeatingFits
  <2>5. new \in New(v, seated)
    BY <1>1, <2>1, <2>3, <2>4, SeatingFlows DEF New
  <2>6. f[old] = E!Reseat(v, seated, old)
    BY <1>1, <1>3, <2>2, <2>4, SeatingTurns DEF Turn
  <2>7. old \notin f[old]
    BY <1>1, <2>1, <2>3, SeatingFlows
  <2>8. PICK weak \in New(v, seated) :
          /\ v[new].score <= v[weak].score
          /\ v[old].score - v[weak].score >= Hysteresis
    BY <2>5, <2>6, <2>7, ReseatIs
  <2>9. v[weak].score \in Int
    BY <2>8, ElectorateIs DEF New
  <2> QED
    BY <1>3, <1>4, <2>8, <2>9
<1> QED
  BY <1>5, <1>6

AllStaffed(v) ==
  E!Electorate(v) # {} =>
    /\ E!Elect(v) \subseteq E!Electorate(v)
    /\ E!Cardinality(E!Elect(v)) = IF E!Eligible(v) = {} THEN 1 ELSE E!Seats(v)

LEMMA SeatsAreStaffed ==
  ASSUME NEW n \in Nat, NEW v, View(v, n)
  PROVE  AllStaffed(v)
<1>1. PICK f : Seating(v, n, f)
  BY SeatingExists
<1>2. E!Elect(v) \subseteq E!Electorate(v)
  BY ElectedMayStand
<1>3. ASSUME E!Electorate(v) # {}, E!Eligible(v) = {}
      PROVE  Cardinality(E!Elect(v)) = 1
  BY <1>1, <1>3, ElectIs, FS_Singleton
<1>4. ASSUME E!Eligible(v) # {}
      PROVE  Cardinality(E!Elect(v)) = E!Seats(v)
  BY <1>1, <1>4, ElectIs
<1> QED
  BY <1>2, <1>3, <1>4, ElectionCount DEF AllStaffed

\* Two views that differ in nothing the ranks are made of have the same top.
LEMMA TopSame ==
  ASSUME NEW n \in Nat, NEW v, NEW w, View(v, n), View(w, n),
         E!Electorate(w) = E!Electorate(v),
         \A i \in E!Electorate(v) : w[i].score = v[i].score
  PROVE  E!Eligible(w) = E!Eligible(v) /\ E!Seats(w) = E!Seats(v) /\ E!Top(w) = E!Top(v)
<1>1. E!Eligible(w) = E!Eligible(v)
  BY DEF E!Eligible
<1>2. E!Seats(w) = E!Seats(v)
  BY <1>1 DEF E!Seats
<1>3. \A i \in E!Eligible(v) : w[i].score = v[i].score
  BY ElectorateIs
<1>4. E!Top(v) \in SUBSET E!Eligible(w) /\ Cardinality(E!Top(v)) = E!Seats(w)
  BY <1>1, <1>2, TopIs
<1>5. ASSUME NEW j \in E!Top(v), NEW i \in E!Eligible(w),
             w[i].score < w[j].score \/ (w[i].score = w[j].score /\ i < j)
      PROVE  i \in E!Top(v)
  <2>1. i \in E!Eligible(v) /\ w[i].score = v[i].score /\ w[j].score = v[j].score
    BY <1>1, <1>3, TopIs
  <2> QED
    BY <1>5, <2>1, TopCloses
<1> QED
  BY <1>1, <1>2, <1>4, <1>5, TopOnly

\* If moreover every turn goes alike, the same are elected.
LEMMA ElectsAlike ==
  ASSUME NEW n \in Nat, NEW v, NEW w, View(v, n), View(w, n),
         E!Electorate(w) = E!Electorate(v), E!Eligible(w) = E!Eligible(v), E!Top(w) = E!Top(v),
         NEW f, Seating(v, n, f),
         E!Eligible(v) # {} /\ Hysteresis # 0 =>
           \A i \in 1..n : Turn(w, f[i - 1], i) = Turn(v, f[i - 1], i)
  PROVE  E!Elect(w) = E!Elect(v)
<1>1. PICK g : Seating(w, n, g)
  BY SeatingExists
<1>2. CASE E!Electorate(v) = {}
  BY <1>1, <1>2, ElectIs
<1>3. CASE E!Electorate(v) # {} /\ E!Eligible(v) = {}
  BY <1>1, <1>3, ElectIs
<1>4. CASE E!Eligible(v) # {}
  <2>1. Hysteresis # 0 => g[n] = f[n]
    BY <1>1, <1>4, SeatingSame
  <2>2. E!Elect(v) = IF Hysteresis = 0 THEN E!Top(v) ELSE f[n]
    BY <1>4, ElectIs
  <2>3. E!Elect(w) = IF Hysteresis = 0 THEN E!Top(w) ELSE g[n]
    BY <1>1, <1>4, ElectIs
  <2> QED
    BY <2>1, <2>2, <2>3
<1> QED
  BY <1>2, <1>3, <1>4

\* The worst of some newcomers is their worst in every view that scores them so.
LEMMA WeakestStays ==
  ASSUME NEW n \in Nat, NEW v, NEW w, View(v, n), View(w, n), E!Eligible(w) = E!Eligible(v),
         NEW B \in SUBSET E!Eligible(v), NEW C \in SUBSET B, NEW weak \in C,
         weak = E!Weakest(v, B), w[weak].score = v[weak].score,
         \A j \in C : w[j].score <= v[j].score
  PROVE  E!Weakest(w, C) = weak
<1>1. \A j \in B : j \in Int /\ v[j].score \in Int /\ w[j].score \in Int
  BY ElectorateIs
<1>2. \A j \in B \ {weak} : v[weak].score > v[j].score
                              \/ (v[weak].score = v[j].score /\ weak < j)
  BY WeakestIs
<1>3. \A j \in C \ {weak} : w[weak].score > w[j].score
                              \/ (w[weak].score = w[j].score /\ weak < j)
  BY <1>1, <1>2
<1>4. C \in SUBSET E!Eligible(w) /\ C # {}
  OBVIOUS
<1> QED
  BY <1>3, <1>4, WeakestIs

Doubting(v) ==
  \A i \in E!Ids(v) :
    (E!Leads(v, i) /\ v[i].st = "alive")
      => E!Elect([v EXCEPT ![i].st = "suspect"]) = E!Elect(v)

LEMMA DoubtsMoveNoSeat ==
  ASSUME NEW n \in Nat, NEW v \in [1..n -> E!Member], View(v, n)
  PROVE  Doubting(v)
<1> SUFFICES ASSUME NEW i \in E!Ids(v), E!Leads(v, i), v[i].st = "alive"
             PROVE  E!Elect([v EXCEPT ![i].st = "suspect"]) = E!Elect(v)
  BY DEF Doubting
<1> DEFINE w == [v EXCEPT ![i].st = "suspect"]
<1>1. /\ DOMAIN w = 1..n /\ DOMAIN v = 1..n /\ i \in 1..n
      /\ \A j \in 1..n : /\ w[j].score = v[j].score /\ w[j].role = v[j].role
                         /\ j # i => w[j].st = v[j].st
      /\ w[i].st = "suspect"
  BY DEF E!Ids, E!Member
<1> HIDE DEF w
<1>2. View(w, n)
  BY <1>1 DEF View, Scored
<1>3. \A j \in 1..n : E!Leads(w, j) <=> E!Leads(v, j)
  BY <1>1 DEF E!Leads
<1>4. E!Electorate(w) = E!Electorate(v)
  BY <1>1, <1>3 DEF E!Electorate, E!Ids
<1>5. \A j \in E!Electorate(v) : w[j].score = v[j].score
  BY <1>1, ElectorateIs
<1>6. E!Eligible(w) = E!Eligible(v) /\ E!Top(w) = E!Top(v)
  BY <1>2, <1>4, <1>5, TopSame
<1>7. PICK f : Seating(v, n, f)
  BY SeatingExists
<1>8. Fallen(w) = Fallen(v)
  BY <1>1, <1>3, <1>6, ElectorateIs DEF Fallen
<1>9. ASSUME NEW k \in 1..n
      PROVE  Turn(w, f[k - 1], k) = Turn(v, f[k - 1], k)
  <2>1. PICK seated \in SUBSET E!Eligible(v) : seated = f[k - 1]
    BY <1>7, SeatingFits
  <2>2. New(w, seated) = New(v, seated) /\ New(v, seated) \in SUBSET E!Eligible(v)
    BY <1>1, <1>3, ElectorateIs DEF New
  <2>3. ASSUME New(v, seated) # {}
        PROVE  /\ E!Weakest(w, New(w, seated)) = E!Weakest(v, New(v, seated))
               /\ E!Weakest(v, New(v, seated)) \in 1..n
    <3>1. PICK B \in SUBSET E!Eligible(v) : B = New(v, seated) /\ B # {}
      BY <2>2, <2>3
    <3>2. PICK weak \in B : weak = E!Weakest(v, B)
      BY <3>1, WeakestIs
    <3>3. \A j \in B : j \in 1..n /\ v[j].score \in Int /\ w[j].score = v[j].score
      BY <1>1, ElectorateIs
    <3>4. w[weak].score = v[weak].score /\ \A j \in B : w[j].score <= v[j].score
      BY <3>3
    <3>5. E!Weakest(w, B) = weak
      BY <1>2, <1>6, <3>2, <3>4, WeakestStays
    <3> QED
      BY <2>2, <3>1, <3>2, <3>3, <3>5
  <2>4. E!Reseat(w, seated, k) = E!Reseat(v, seated, k)
    <3>1. w[k].score = v[k].score
      BY <1>1
    <3>2. New(v, seated) # {} => w[E!Weakest(w, New(w, seated))].score
                                   = v[E!Weakest(v, New(v, seated))].score
      BY <1>1, <2>3
    <3> QED
      BY <2>2, <2>3, <3>1, <3>2 DEF E!Reseat, New
  <2> QED
    BY <1>8, <2>1, <2>4 DEF Turn
<1>10. E!Elect(w) = E!Elect(v)
  BY <1>2, <1>4, <1>6, <1>7, <1>9, ElectsAlike
<1> QED
  BY <1>10 DEF w

BetterStays(v) ==
  \A i \in E!Elect(v), s \in Scores :
    E!Better(s, v[i].score) => i \in E!Elect([v EXCEPT ![i].score = s])

\* An incumbent's seat is its own; a newcomer's goes to an incumbent only while it is the
\* weakest of the newcomers, and only to one not behind it by the margin.
LEMMA BetterScoresStay ==
  ASSUME NEW n \in Nat, NEW v \in [1..n -> E!Member], View(v, n)
  PROVE  BetterStays(v)
<1> SUFFICES ASSUME NEW i \in E!Elect(v), NEW s \in Scores, E!Better(s, v[i].score)
             PROVE  i \in E!Elect([v EXCEPT ![i].score = s])
  BY DEF BetterStays
<1> DEFINE w == [v EXCEPT ![i].score = s]
<1>1. i \in E!Electorate(v) /\ i \in 1..n /\ s \in Int /\ s # NoScore /\ Hysteresis \in Nat
  BY ElectedMayStand, ElectorateIs, ElectionFacts
<1>2. /\ DOMAIN w = 1..n /\ DOMAIN v = 1..n
      /\ \A j \in 1..n : /\ w[j].st = v[j].st /\ w[j].role = v[j].role
                         /\ j # i => w[j].score = v[j].score
      /\ w[i].score = s
  BY <1>1 DEF E!Member
<1> SUFFICES i \in E!Elect(w)
  OBVIOUS
<1> HIDE DEF w
<1>3. View(w, n)
  BY <1>1, <1>2 DEF View, Scored
<1>4. \A j \in 1..n : E!Leads(w, j) <=> E!Leads(v, j)
  BY <1>2 DEF E!Leads
<1>5. E!Electorate(w) = E!Electorate(v)
  BY <1>2, <1>4 DEF E!Electorate, E!Ids
<1>6. i \in E!Eligible(w)
  BY <1>1, <1>2, <1>5 DEF E!Eligible
<1>7. PICK f : Seating(v, n, f)
  BY SeatingExists
<1>8. PICK g : Seating(w, n, g)
  BY SeatingExists
<1>9. E!Elect(w) = IF Hysteresis = 0 THEN E!Top(w) ELSE g[n]
  BY <1>3, <1>6, <1>8, ElectIs
<1>10. CASE E!Eligible(v) = {}
  <2>1. E!Electorate(v) \in SUBSET (1..n) /\ E!Elect(w) \in SUBSET E!Eligible(w)
    BY <1>3, <1>6, <1>8, ElectorateIs, ElectIs
  <2>2. E!Eligible(w) \subseteq {i}
    BY <1>2, <1>5, <1>10, <2>1 DEF E!Eligible
  <2>3. E!Elect(w) # {}
    BY <1>3, <1>6, <1>8, ElectIs, SeatsAre, FS_EmptySet
  <2> QED
    BY <2>1, <2>2, <2>3
<1>11. CASE E!Eligible(v) # {}
  <2>1. E!Elect(v) = IF Hysteresis = 0 THEN E!Top(v) ELSE f[n]
    BY <1>7, <1>11, ElectIs
  <2>2. i \in E!Eligible(v) /\ v[i].score \in Int
    BY <1>7, <1>11, ElectIs, ElectorateIs
  <2>3. s < v[i].score
    BY <2>2, ElectionFacts DEF E!Better
  <2>4. E!Eligible(w) = E!Eligible(v)
    <3>1. \A j \in E!Electorate(v) : j \in 1..n
      BY ElectorateIs
    <3>2. \A j \in E!Electorate(v) : w[j].score # NoScore <=> v[j].score # NoScore
      BY <1>1, <1>2, <2>2, <3>1, ElectionFacts
    <3> QED
      BY <1>5, <3>2 DEF E!Eligible
  <2>5. E!Seats(w) = E!Seats(v)
    BY <1>5, <2>4 DEF E!Seats
  <2>6. \A j \in E!Eligible(v) : /\ j \in 1..n /\ v[j].score \in Int /\ w[j].score \in Int
                                 /\ w[j].score <= v[j].score
                                 /\ j # i => w[j].score = v[j].score
    BY <1>1, <1>2, <2>2, <2>3, ElectorateIs
  <2>7. i \in E!Top(v) \/ i \notin E!Top(w) => E!Top(w) = E!Top(v)
    <3>1. ASSUME i \in E!Top(v)
          PROVE  E!Top(w) = E!Top(v)
      <4>1. E!Top(v) \in SUBSET E!Eligible(w) /\ Cardinality(E!Top(v)) = E!Seats(w)
        BY <2>4, <2>5, TopIs
      <4>2. ASSUME NEW j \in E!Top(v), NEW k \in E!Eligible(w),
                   w[k].score < w[j].score \/ (w[k].score = w[j].score /\ k < j)
            PROVE  k \in E!Top(v)
        <5>1. CASE k = i
          BY <3>1, <5>1
        <5>2. CASE k # i
          <6>1. v[k].score < v[j].score \/ (v[k].score = v[j].score /\ k < j)
            BY <2>4, <2>6, <4>1, <4>2, <5>2
          <6> QED
            BY <2>4, <6>1, TopCloses
        <5> QED
          BY <5>1, <5>2
      <4> QED
        BY <1>3, <4>1, <4>2, TopOnly
    <3>2. ASSUME i \notin E!Top(w)
          PROVE  E!Top(v) = E!Top(w)
      <4>1. E!Top(w) \in SUBSET E!Eligible(v) /\ Cardinality(E!Top(w)) = E!Seats(v)
        BY <1>3, <2>4, <2>5, TopIs
      <4>2. ASSUME NEW j \in E!Top(w), NEW k \in E!Eligible(v),
                   v[k].score < v[j].score \/ (v[k].score = v[j].score /\ k < j)
            PROVE  k \in E!Top(w)
        <5>1. j # i
          BY <3>2
        <5>2. w[k].score < w[j].score \/ (w[k].score = w[j].score /\ k < j)
          <6>1. w[j].score = v[j].score /\ v[j].score \in Int
            BY <2>6, <4>1, <5>1
          <6>2. w[k].score <= v[k].score /\ v[k].score \in Int /\ w[k].score \in Int
            BY <2>6
          <6> QED
            BY <4>2, <6>1, <6>2
        <5> QED
          BY <1>3, <2>4, <5>2, TopCloses
      <4> QED
        BY <4>1, <4>2, TopOnly
    <3> QED
      BY <3>1, <3>2
  <2>8. CASE i \notin E!Top(v) /\ i \in E!Top(w)
    <3>1. i \in f[n] /\ Hysteresis # 0
      BY <2>1, <2>8
    <3>2. i \in Fallen(v)
      BY <1>7, <2>8, <3>1, SeatingFits
    <3>3. E!Leads(w, i)
      BY <1>1, <1>4, <3>2 DEF Fallen
    <3>4. i \in g[0] /\ 0 \in 0..n
      BY <1>8, <2>8, SeatingTurns
    <3>5. i \in g[n]
      BY <1>3, <1>8, <3>3, <3>4, SeatingFlows
    <3> QED
      BY <1>9, <3>1, <3>5
  <2>9. CASE E!Top(w) = E!Top(v)
    <3>1. Fallen(w) = Fallen(v)
      BY <1>4, <2>4, <2>6, <2>9 DEF Fallen
    <3>2. ASSUME NEW k \in 1..n, Hysteresis # 0
          PROVE  Turn(w, f[k - 1], k) = Turn(v, f[k - 1], k)
      <4>1. k - 1 \in 0..n /\ k \in 0..n
        OBVIOUS
      <4>2. PICK seated \in SUBSET E!Eligible(v) :
              /\ seated = f[k - 1]
              /\ seated \in SUBSET (E!Top(v) \cup (Fallen(v) \cap (1..(k - 1))))
        BY <1>7, <4>1, SeatingFits
      <4>3. i \in f[n] /\ f[k] = Turn(v, seated, k)
        BY <1>7, <2>1, <3>2, <4>2, SeatingTurns
      <4>4. PICK B \in SUBSET E!Eligible(v) : B = New(v, seated) /\ B = New(w, seated)
        BY <1>4, <2>6 DEF New
      <4>5. CASE k \notin Fallen(v)
        BY <3>1, <4>2, <4>5 DEF Turn
      <4>6. CASE k \in Fallen(v) /\ B = {}
        <5>1. E!Reseat(v, seated, k) = seated /\ E!Reseat(w, seated, k) = seated
          BY <4>4, <4>6 DEF E!Reseat, New
        <5> QED
          BY <3>1, <4>2, <5>1 DEF Turn
      <4>7. CASE k \in Fallen(v) /\ B # {}
        <5>1. k \in E!Eligible(v) /\ E!Leads(v, k) /\ k \notin seated /\ v[k].score \in Int
          BY <2>6, <4>2, <4>7 DEF Fallen
        <5>2. PICK weak \in B : /\ weak = E!Weakest(v, B)
                                /\ \A j \in B : v[j].score <= v[weak].score
          <6>1. PICK weak \in B : weak = E!Weakest(v, B)
            BY <4>7, WeakestIs
          <6>2. \A j \in B : v[j].score <= v[weak].score
            BY <2>6, <6>1, WeakestIs
          <6> QED
            BY <6>1, <6>2
        <5>3. /\ Turn(v, seated, k) = IF v[k].score - v[weak].score >= Hysteresis THEN seated
                                      ELSE (seated \ {weak}) \cup {k}
              /\ Turn(w, seated, k) =
                   IF w[k].score - w[E!Weakest(w, B)].score >= Hysteresis THEN seated
                   ELSE (seated \ {E!Weakest(w, B)}) \cup {k}
          BY <3>1, <4>4, <4>7, <5>2 DEF Turn, E!Reseat, New
        <5>4. CASE i = weak
          <6>1. v[k].score - v[weak].score >= Hysteresis
            <7> SUFFICES ASSUME ~(v[k].score - v[weak].score >= Hysteresis)
                         PROVE  FALSE
              OBVIOUS
            <7>1. f[k] = (seated \ {weak}) \cup {k}
              BY <4>3, <5>3
            <7>2. i \notin f[k] /\ ~E!Leads(v, i)
              BY <4>4, <5>1, <5>2, <5>4, <7>1 DEF New
            <7>3. i \in New(v, f[n])
              BY <4>3, <7>2 DEF New
            <7> QED
              BY <1>7, <4>1, <7>2, <7>3, SeatingFlows DEF New
          <6>2. PICK other \in B : other = E!Weakest(w, B)
            BY <1>3, <2>4, <4>7, WeakestIs
          <6>3. w[other].score <= v[weak].score /\ w[other].score \in Int /\ v[weak].score \in Int
            <7>1. /\ w[other].score <= v[other].score /\ v[other].score <= v[weak].score
                  /\ w[other].score \in Int /\ v[other].score \in Int /\ v[weak].score \in Int
              BY <2>6, <5>2, <6>2
            <7> QED
              BY <7>1
          <6>4. k # i
            BY <4>4, <5>1, <5>2, <5>4 DEF New
          <6>5. w[k].score = v[k].score
            BY <2>6, <5>1, <6>4
          <6>6. w[k].score - w[other].score >= Hysteresis
            BY <1>1, <5>1, <6>1, <6>3, <6>5
          <6> QED
            BY <4>2, <5>3, <6>1, <6>2, <6>6
        <5>5. CASE i # weak
          <6>1. w[weak].score = v[weak].score /\ \A j \in B : w[j].score <= v[j].score
            BY <2>6, <5>2, <5>5
          <6>2. E!Weakest(w, B) = weak
            BY <1>3, <2>4, <5>2, <6>1, WeakestStays
          <6>3. CASE k # i
            <7>1. w[k].score = v[k].score
              BY <2>6, <5>1, <6>3
            <7> QED
              BY <4>2, <5>3, <6>1, <6>2, <7>1
          <6>4. CASE k = i
            <7>1. i \in f[k]
              <8>1. f[n] \subseteq f[k] \cup {x \in Fallen(v) : k < x}
                BY <1>7, <4>1, SeatingFlows
              <8> QED
                BY <4>3, <6>4, <8>1
            <7>2. ~(v[k].score - v[weak].score >= Hysteresis)
              BY <4>3, <5>1, <5>3, <6>4, <7>1
            <7>3. ~(w[k].score - w[weak].score >= Hysteresis)
              <8>1. /\ w[k].score <= v[k].score /\ w[k].score \in Int
                    /\ w[weak].score = v[weak].score /\ v[weak].score \in Int
                BY <2>6, <5>1, <5>2, <6>1
              <8> QED
                BY <1>1, <5>1, <7>2, <8>1
            <7> QED
              BY <4>2, <5>3, <6>2, <7>2, <7>3
          <6> QED
            BY <6>3, <6>4
        <5> QED
          BY <5>4, <5>5
      <4> QED
        BY <4>5, <4>6, <4>7
    <3>3. E!Elect(w) = E!Elect(v)
      BY <1>3, <1>5, <1>7, <2>4, <2>9, <3>2, ElectsAlike
    <3> QED
      BY <3>3
  <2> QED
    BY <2>7, <2>8, <2>9
<1> QED
  BY <1>10, <1>11

\* Held again with the roles it gave, an election gives each seat as before: an incumbent
\* that took one back takes it back again, from the same newcomer, and one that could not
\* cannot still.
LEMMA ElectionSettles ==
  ASSUME NEW n \in Nat, NEW v \in [1..n -> E!Member], View(v, n)
  PROVE  /\ E!Claimed(v) \in [1..n -> E!Member] /\ View(E!Claimed(v), n)
         /\ E!Elect(E!Claimed(v)) = E!Elect(v)
<1> DEFINE w == E!Claimed(v)
<1> DEFINE elected == E!Elect(v)
<1>1. /\ DOMAIN w = 1..n /\ DOMAIN v = 1..n
      /\ \A j \in 1..n :
           /\ v[j].st = "alive" => w[j] = [v[j] EXCEPT !.role = E!RoleIn(elected, j)]
           /\ v[j].st # "alive" => w[j] = v[j]
  BY DEF E!Claimed, E!Ids
<1>2. \A j \in 1..n : v[j] \in E!Member
  OBVIOUS
<1> HIDE DEF w, elected
<1>3. ASSUME NEW j \in 1..n
      PROVE  /\ w[j] \in E!Member
             /\ w[j].st = v[j].st /\ w[j].score = v[j].score
             /\ v[j].st # "alive" => (E!Leads(w, j) <=> E!Leads(v, j))
             /\ v[j].st = "alive" => (E!Leads(w, j) <=> j \in elected)
  <2>1. CASE v[j].st = "alive"
    <3>1. w[j] = [v[j] EXCEPT !.role = E!RoleIn(elected, j)]
      BY <1>1, <2>1
    <3>2. v[j] \in [st: {"alive", "suspect"}, role: {"worker", "leader"}, score: Scores \cup {NoScore}]
      BY <1>2, <2>1 DEF E!Member
    <3>3. E!RoleIn(elected, j) = IF j \in elected THEN "leader" ELSE "worker"
      BY DEF E!RoleIn
    <3>4. E!RoleIn(elected, j) \in {"worker", "leader"}
      BY <3>3
    <3>5. w[j] \in [st: {"alive", "suspect"}, role: {"worker", "leader"}, score: Scores \cup {NoScore}]
      BY <3>1, <3>2, <3>4
    <3>6. w[j].st = v[j].st /\ w[j].score = v[j].score /\ w[j].role = E!RoleIn(elected, j)
      BY <3>1, <3>2
    <3> QED
      BY <2>1, <3>3, <3>5, <3>6 DEF E!Member, E!Leads
  <2>2. CASE v[j].st # "alive"
    <3>1. w[j] = v[j]
      BY <1>1, <2>2
    <3> QED
      BY <1>2, <2>2, <3>1 DEF E!Leads
  <2> QED
    BY <2>1, <2>2
<1>4. w \in [1..n -> E!Member]
  <2>1. w = [j \in 1..n |-> w[j]]
    BY DEF w, E!Claimed, E!Ids
  <2> QED
    BY <1>3, <2>1
<1>5. View(w, n)
  BY <1>1, <1>3 DEF View, Scored
<1>6. E!Electorate(w) = E!Electorate(v)
  BY <1>1, <1>3 DEF E!Electorate, E!Ids
<1>7. \A j \in E!Electorate(v) : w[j].score = v[j].score
  BY <1>3, ElectorateIs
<1>8. E!Eligible(w) = E!Eligible(v) /\ E!Top(w) = E!Top(v)
  BY <1>5, <1>6, <1>7, TopSame
<1>9. PICK f : Seating(v, n, f)
  BY SeatingExists
<1>10. ASSUME NEW k \in 1..n, E!Eligible(v) # {}, Hysteresis # 0
       PROVE  Turn(w, f[k - 1], k) = Turn(v, f[k - 1], k)
  <2>1. k - 1 \in 0..n /\ k \in 0..n /\ n \in 0..n /\ Hysteresis \in Nat
    BY ElectionFacts
  <2>2. PICK seated \in SUBSET E!Eligible(v) :
          /\ seated = f[k - 1]
          /\ seated \in SUBSET (E!Top(v) \cup (Fallen(v) \cap (1..(k - 1))))
    BY <1>9, <2>1, SeatingFits
  <2>3. /\ elected = f[n] /\ f[k] = Turn(v, seated, k)
        /\ elected \in SUBSET (E!Top(v) \cup Fallen(v))
    BY <1>9, <1>10, <2>1, <2>2, ElectIs, SeatingTurns, SeatingFits DEF elected
  <2>4. /\ New(v, elected) \subseteq New(v, f[k]) /\ New(v, elected) \subseteq New(v, seated)
        /\ \A x \in f[k] : E!Leads(v, x) => x \in elected
        /\ \A x \in seated : E!Leads(v, x) => x \in elected
    BY <1>9, <2>1, <2>2, <2>3, SeatingFlows
  <2>5. \A j \in E!Eligible(v) : /\ j \in 1..n /\ v[j].score \in Int
                                 /\ w[j].score = v[j].score
                                 /\ v[j].st # "alive" => E!Leads(v, j)
    BY <1>3, ElectorateIs DEF E!Eligible, E!Electorate
  <2>6. Fallen(w) \subseteq Fallen(v)
    <3> SUFFICES ASSUME NEW j \in Fallen(w), j \notin Fallen(v)
                 PROVE  FALSE
      OBVIOUS
    <3>1. j \in E!Eligible(v) /\ j \notin E!Top(v) /\ E!Leads(w, j) /\ ~E!Leads(v, j)
      BY <1>8 DEF Fallen
    <3>2. j \in elected
      BY <1>3, <2>5, <3>1
    <3>3. j \in Fallen(v)
      BY <2>3, <3>1, <3>2
    <3> QED
      BY <3>3
  <2>7. New(w, seated) \subseteq New(v, seated)
    <3> SUFFICES ASSUME NEW x \in seated, ~E!Leads(w, x), E!Leads(v, x)
                 PROVE  FALSE
      BY DEF New
    <3> QED
      BY <1>3, <2>4, <2>5
  <2>8. New(v, seated) \in SUBSET E!Eligible(v)
    BY DEF New
  <2>9. CASE k \notin Fallen(v)
    BY <2>2, <2>6, <2>9 DEF Turn
  <2>10. CASE k \in Fallen(v) /\ Turn(v, seated, k) = seated
    <3>1. k \in E!Eligible(v) /\ k \notin seated /\ v[k].score \in Int
      BY <2>2, <2>5, <2>10 DEF Fallen
    <3>2. E!Reseat(v, seated, k) = seated
      BY <2>10 DEF Turn
    <3>3. E!Reseat(w, seated, k) = seated
      <4>1. CASE New(w, seated) = {}
        BY <4>1 DEF E!Reseat, New
      <4>2. CASE New(w, seated) # {}
        <5>1. PICK weak \in New(v, seated) :
                /\ \A j \in New(v, seated) : v[j].score <= v[weak].score
                /\ v[k].score - v[weak].score >= Hysteresis
          BY <2>7, <3>1, <3>2, <4>2, ReseatIs
        <5>2. PICK other \in New(w, seated) : other = E!Weakest(w, New(w, seated))
          <6>1. New(w, seated) \in SUBSET E!Eligible(w)
            BY <1>8, <2>7, <2>8
          <6> QED
            BY <1>5, <4>2, <6>1, WeakestIs
        <5>3. /\ w[other].score <= v[weak].score /\ w[other].score \in Int
              /\ v[weak].score \in Int /\ w[k].score = v[k].score
          BY <2>5, <2>7, <2>8, <3>1, <5>1, <5>2
        <5>4. w[k].score - w[other].score >= Hysteresis
          BY <2>1, <3>1, <5>1, <5>3
        <5> QED
          BY <5>2, <5>4 DEF E!Reseat, New
      <4> QED
        BY <4>1, <4>2
    <3> QED
      BY <2>2, <2>10, <3>3 DEF Turn
  <2>11. CASE k \in Fallen(v) /\ Turn(v, seated, k) # seated
    <3>1. k \in E!Eligible(v) /\ k \notin seated /\ E!Leads(v, k) /\ k \notin E!Top(v)
      BY <2>2, <2>11 DEF Fallen
    <3>2. PICK weak \in New(v, seated) :
            /\ weak = E!Weakest(v, New(v, seated))
            /\ ~(v[k].score - v[weak].score >= Hysteresis)
            /\ Turn(v, seated, k) = (seated \ {weak}) \cup {k}
      BY <2>11, <3>1, ReseatIs DEF Turn
    <3>3. k \in elected
      BY <2>3, <2>4, <3>1, <3>2
    <3>4. k \in Fallen(w)
      BY <1>3, <1>8, <2>5, <3>1, <3>3 DEF Fallen
    <3>5. weak \in seated /\ ~E!Leads(v, weak) /\ weak # k
      BY <3>1, <3>2 DEF New
    <3>6. weak \notin elected
      <4>1. weak \notin f[k]
        BY <2>3, <3>2, <3>5
      <4> QED
        BY <2>4, <3>5, <4>1 DEF New
    <3>7. ~E!Leads(w, weak)
      BY <1>3, <2>5, <3>5, <3>6
    <3>8. PICK B \in SUBSET E!Eligible(v), C \in SUBSET E!Eligible(v) :
            B = New(v, seated) /\ C = New(w, seated) /\ C \subseteq B /\ weak \in C
      BY <2>7, <2>8, <3>5, <3>7 DEF New
    <3>9. /\ w[weak].score = v[weak].score /\ \A j \in C : w[j].score <= v[j].score
          /\ w[k].score = v[k].score
      <4>1. \A j \in C : w[j].score = v[j].score /\ v[j].score \in Int
        BY <2>5, <3>8
      <4> QED
        BY <2>5, <3>1, <3>8, <4>1
    <3>10. E!Weakest(w, C) = weak
      BY <1>5, <1>8, <3>2, <3>8, <3>9, WeakestStays
    <3>11. E!Reseat(w, seated, k) = (seated \ {weak}) \cup {k}
      BY <3>2, <3>8, <3>9, <3>10 DEF E!Reseat, New
    <3> QED
      BY <2>2, <3>2, <3>4, <3>11 DEF Turn
  <2> QED
    BY <2>9, <2>10, <2>11
<1>11. E!Elect(w) = E!Elect(v)
  BY <1>5, <1>6, <1>8, <1>9, <1>10, ElectsAlike
<1> QED
  BY <1>4, <1>5, <1>11 DEF w

-----------------------------------------------------------------------------
(* The types of the merge, whether or not the member is known at first. *)

LEMMA MergeTypesStart == Init => TypeOK
<1> SUFFICES ASSUME Init PROVE TypeOK
  OBVIOUS
<1>1. First \subseteq Record
  BY FirstIsOrdered
<1>2. held \in [Hearer -> Record \cup (IF First = {} THEN {NoRecord} ELSE {})]
  <2>1. CASE First = {}
    BY <2>1 DEF Init
  <2>2. CASE First # {}
    BY <1>1, <2>2 DEF Init
  <2> QED
    BY <2>1, <2>2
<1>3. heard \in [Hearer -> SUBSET Published]
  BY DEF Init
<1> QED
  BY <1>2, <1>3 DEF TypeOK

LEMMA MergeTypesStep ==
  ASSUME TypeOK, Next \/ UNCHANGED vars
  PROVE  TypeOK'
<1>1. CASE UNCHANGED vars
  BY <1>1 DEF vars, TypeOK, First
<1>2. ASSUME NEW h \in Hearer, NEW r \in Published, Hear(h, r)
      PROVE  TypeOK'
  <2>1. r \in Record /\ Ordered(r)
    BY PublishedIsOrdered
  <2>2. /\ held' = [held EXCEPT ![h] = Heard(held[h], r, FALSE)]
        /\ heard' = [heard EXCEPT ![h] = heard[h] \cup {r}]
    BY <1>2 DEF Hear
  <2>3. Believed(held[h], r, FALSE) = r
    BY <2>1 DEF Believed, Ordered
  <2>4. CASE held[h] = NoRecord
    <3>1. Heard(held[h], r, FALSE) = IF r.st = Dead THEN NoRecord ELSE r
      BY <2>3, <2>4 DEF Heard
    <3>2. First = {}
      BY <2>4, NoRecordAssumption DEF TypeOK
    <3>3. held' \in [Hearer -> Record \cup {NoRecord}]
      BY <2>1, <2>2, <3>1, <3>2 DEF TypeOK
    <3>4. First' = {}
      BY <3>2 DEF First
    <3> QED
      BY <2>2, <3>3, <3>4 DEF TypeOK
  <2>5. CASE held[h] # NoRecord
    <3>1. held[h] \in Record
      BY <2>5 DEF TypeOK
    <3>2. Heard(held[h], r, FALSE) \in Record
      BY <2>1, <2>3, <2>5, <3>1, MergeType DEF Heard
    <3>3. First' = First
      BY DEF First
    <3> QED
      BY <2>2, <3>2, <3>3 DEF TypeOK
  <2> QED
    BY <2>4, <2>5
<1> QED
  BY <1>1, <1>2 DEF Next

-----------------------------------------------------------------------------
(* The types of a swarm of views. *)

SwarmTypes ==
  /\ S!TypeOK
  /\ \A n \in S!Node : DOMAIN lag[n] = S!Node

LEMMA SwarmFacts ==
  /\ SwarmMembers \in Nat \ {0} /\ S!Node = 1..SwarmMembers
  /\ SwarmScores \cup Booted \cup {NoScore} \subseteq Int \cup {NoScore}
  /\ MaxLag \in Nat \ {0} /\ MaxMoves \in Nat /\ MaxFaults \in Nat
<1>1. S!SwarmAssumption
  BY RulesAssumption
<1>2. /\ SwarmMembers \in Nat \ {0} /\ SwarmScores \subseteq Int \cup {NoScore}
      /\ Booted \subseteq {0, NoScore} /\ MaxLag \in Nat \ {0} /\ MaxMoves \in Nat
      /\ {MaxFaults, MaxTroubles} \subseteq Nat
  BY <1>1 DEF S!SwarmAssumption
<1>3. SwarmScores \cup Booted \cup {NoScore} \subseteq Int \cup {NoScore}
  <2>1. \A s \in Booted : s = 0 \/ s = NoScore
    BY <1>2
  <2>2. \A s \in Booted : s \in Int \cup {NoScore}
    BY <2>1
  <2> QED
    BY <1>2, <2>2
<1>4. MaxFaults \in Nat
  BY <1>2
<1> QED
  BY <1>2, <1>3, <1>4 DEF S!Node

\* The election of the swarm is the election of one view.
LEMMA SameElection == \A v : S!Elect(v) = E!Elect(v)
<1>1. \A v : S!Damped(v) = E!Damped(v)
  BY DEF S!Damped, E!Damped, S!Reseat, E!Reseat, S!Weakest, E!Weakest, S!Top, E!Top,
         S!Seats, E!Seats, S!LeaderCount, E!LeaderCount, S!Ahead, E!Ahead,
         S!Better, E!Better, S!Eligible, E!Eligible, S!Electorate, E!Electorate,
         S!Leads, E!Leads, S!Ids, E!Ids, S!Cardinality, E!Cardinality
<1> QED
  BY <1>1 DEF S!Elect, E!Elect, S!Eligible, E!Eligible, S!Electorate, E!Electorate,
              S!Leads, E!Leads, S!Ids, E!Ids

\* A row elects members it knows.
LEMMA RowElects ==
  ASSUME NEW K \in SUBSET S!Node, NEW row \in [K -> S!Entry]
  PROVE  S!Elect(row) \in SUBSET K
<1>1. View(row, SwarmMembers)
  BY SwarmFacts DEF View, Scored, S!Entry
<1>2. E!Elect(row) \in SUBSET E!Electorate(row)
  BY <1>1, SwarmFacts, ElectedMayStand
<1>3. E!Electorate(row) \in SUBSET DOMAIN row
  BY <1>1, SwarmFacts, ElectorateIs
<1> QED
  BY <1>2, <1>3, SameElection

LEMMA ClaimsSaid ==
  ASSUME NEW a \in S!Claim, NEW b \in S!Claim, NEW c \in S!Claim
  PROVE  S!Said(a, b, c) \in Seq(S!Claim)
<1>1. <<b>> \in Seq(S!Claim) /\ <<c>> \in Seq(S!Claim) /\ << >> \in Seq(S!Claim)
  OBVIOUS
<1>2. /\ (IF b # a THEN <<b>> ELSE << >>) \in Seq(S!Claim)
      /\ (IF c # b THEN <<c>> ELSE << >>) \in Seq(S!Claim)
  BY <1>1
<1> QED
  BY <1>2, ConcatProperties DEF S!Said

\* A full queue keeps its newest claims.
LEMMA QueueFits ==
  ASSUME NEW queue \in Seq(S!Claim), NEW claims \in Seq(S!Claim)
  PROVE  S!Queued(queue, claims) \in Seq(S!Claim) /\ Len(S!Queued(queue, claims)) <= MaxLag
<1>1. PICK q \in Seq(S!Claim) : q = queue \o claims
  BY ConcatProperties
<1>2. Len(q) \in Nat /\ MaxLag \in Nat
  BY LenProperties, SwarmFacts
<1>3. PICK extra \in Nat : /\ extra = IF Len(q) > MaxLag THEN Len(q) - MaxLag ELSE 0
                           /\ Len(q) - extra <= MaxLag
  <2>1. CASE Len(q) > MaxLag
    <3>1. Len(q) - MaxLag \in Nat /\ Len(q) - (Len(q) - MaxLag) <= MaxLag
      BY <1>2, <2>1
    <3> QED
      BY <2>1, <3>1
  <2>2. CASE ~(Len(q) > MaxLag)
    BY <1>2, <2>2
  <2> QED
    BY <2>1, <2>2
<1>4. S!Queued(queue, claims) = SubSeq(q, extra + 1, Len(q))
  BY <1>1, <1>3 DEF S!Queued
<1>5. \A i \in (extra + 1)..Len(q) : q[i] \in S!Claim
  <2>1. \A i \in (extra + 1)..Len(q) : i \in 1..Len(q)
    BY <1>2, <1>3
  <2> QED
    BY <2>1, ElementOfSeq
<1>6. extra + 1 \in Int /\ Len(q) \in Int
  BY <1>2, <1>3
<1>7. /\ SubSeq(q, extra + 1, Len(q)) \in Seq(S!Claim)
      /\ Len(SubSeq(q, extra + 1, Len(q)))
           = IF extra + 1 <= Len(q) THEN Len(q) - (extra + 1) + 1 ELSE 0
  BY <1>5, <1>6, SubSeqProperties
<1> QED
  BY <1>2, <1>3, <1>4, <1>7

LEMMA SwarmTypesStart == S!Init => SwarmTypes
<1> SUFFICES ASSUME S!Init PROVE SwarmTypes
  OBVIOUS
<1>1. PICK boots \in [S!Node -> Booted] :
        /\ views = [n \in S!Node |-> [m \in {n} |->
                     [st |-> "alive", role |-> "leader", score |-> boots[m]]]]
        /\ lag = [n \in S!Node |-> [m \in S!Node |->
                   IF m = n THEN << >> ELSE <<[role |-> "leader", score |-> boots[m]]>>]]
  BY DEF S!Init
<1>2. ASSUME NEW n \in S!Node
      PROVE  n \in S!Known(n) /\ S!Known(n) \subseteq S!Node
             /\ views[n] \in [S!Known(n) -> S!Entry]
  <2>1. views[n] = [m \in {n} |-> [st |-> "alive", role |-> "leader", score |-> boots[m]]]
    BY <1>1
  <2>2. S!Known(n) = {n}
    BY <2>1 DEF S!Known
  <2> QED
    BY <2>1, <2>2 DEF S!Entry
<1>3. ASSUME NEW n \in S!Node, NEW m \in S!Node
      PROVE  lag[n][m] \in Seq(S!Claim) /\ Len(lag[n][m]) <= MaxLag
  <2>1. PICK c \in S!Claim : c = [role |-> "leader", score |-> boots[m]]
    BY DEF S!Claim
  <2>2. lag[n][m] = IF m = n THEN << >> ELSE <<c>>
    BY <1>1, <2>1
  <2>3. << >> \in Seq(S!Claim) /\ <<c>> \in Seq(S!Claim) /\ Len(<< >>) = 0 /\ Len(<<c>>) = 1
    OBVIOUS
  <2>4. 0 <= MaxLag /\ 1 <= MaxLag
    BY SwarmFacts
  <2> QED
    BY <2>2, <2>3, <2>4
<1>4. \A n \in S!Node : DOMAIN lag[n] = S!Node
  BY <1>1
<1>5. /\ running = S!Node /\ DOMAIN views = S!Node
      /\ leaders = [n \in S!Node |-> {n}] /\ moves = 0 /\ faults = 0
  BY <1>1 DEF S!Init
<1>6. running \subseteq S!Node /\ leaders \in [S!Node -> SUBSET S!Node]
      /\ moves \in 0..MaxMoves /\ faults \in 0..MaxFaults
  BY <1>5, SwarmFacts
<1> QED
  BY <1>2, <1>3, <1>4, <1>5, <1>6 DEF SwarmTypes, S!TypeOK

\* What every handler ends in keeps the tables, the claims and the outcomes typed.
LEMMA FinishFits ==
  ASSUME SwarmTypes, NEW n \in S!Node, NEW K \in SUBSET S!Node, n \in K,
         NEW row \in [K -> S!Entry], NEW queues,
         \A m \in S!Node : queues[m] \in Seq(S!Claim) /\ Len(queues[m]) <= MaxLag,
         S!Finish(n, row, queues),
         running' \subseteq S!Node, moves' \in 0..MaxMoves, faults' \in 0..MaxFaults
  PROVE  SwarmTypes'
<1>1. PICK elected \in SUBSET S!Node : elected = S!Elect(row)
  BY RowElects
<1>2. PICK last \in [K -> S!Entry] : last = S!OwnRole(n, row, elected)
  <2>1. S!RoleIn(elected, n) \in {"worker", "leader"}
    BY DEF S!RoleIn
  <2>2. [row[n] EXCEPT !.role = S!RoleIn(elected, n)] \in S!Entry
    BY <2>1 DEF S!Entry
  <2>3. S!OwnRole(n, row, elected) = [row EXCEPT ![n] = [row[n] EXCEPT !.role = S!RoleIn(elected, n)]]
    BY DEF S!OwnRole
  <2> QED
    BY <2>2, <2>3
<1>3. PICK said \in Seq(S!Claim) :
        said = S!Said(S!ClaimOf(views[n][n]), S!ClaimOf(row[n]), S!ClaimOf(last[n]))
  <2>1. views[n][n] \in S!Entry
    BY DEF SwarmTypes, S!TypeOK
  <2>2. \A entry \in S!Entry : S!ClaimOf(entry) \in S!Claim
    BY DEF S!Entry, S!Claim, S!ClaimOf
  <2> QED
    BY <1>2, <2>1, <2>2, ClaimsSaid
<1>4. /\ views' = [views EXCEPT ![n] = last]
      /\ leaders' = [leaders EXCEPT ![n] = elected]
      /\ lag' = [q \in S!Node |-> [m \in S!Node |->
                  IF q = n THEN queues[m]
                  ELSE IF m = n THEN S!Queued(lag[q][n], said)
                  ELSE lag[q][m]]]
  BY <1>1, <1>2, <1>3 DEF S!Finish
<1>5. DOMAIN views' = S!Node /\ leaders' \in [S!Node -> SUBSET S!Node]
  BY <1>4 DEF SwarmTypes, S!TypeOK
<1>6. ASSUME NEW m \in S!Node
      PROVE  m \in DOMAIN views'[m] /\ DOMAIN views'[m] \subseteq S!Node
             /\ views'[m] \in [DOMAIN views'[m] -> S!Entry]
  <2>1. m \in DOMAIN views[m] /\ DOMAIN views[m] \subseteq S!Node
        /\ views[m] \in [DOMAIN views[m] -> S!Entry] /\ DOMAIN views = S!Node
    BY DEF SwarmTypes, S!TypeOK, S!Known
  <2>2. CASE m = n
    <3>1. views'[m] = last
      BY <1>4, <2>1, <2>2
    <3> QED
      BY <2>2, <3>1
  <2>3. CASE m # n
    <3>1. views'[m] = views[m]
      BY <1>4, <2>1, <2>3
    <3> QED
      BY <2>1, <3>1
  <2> QED
    BY <2>2, <2>3
<1>7. ASSUME NEW q \in S!Node, NEW m \in S!Node
      PROVE  lag'[q][m] \in Seq(S!Claim) /\ Len(lag'[q][m]) <= MaxLag
  <2>1. \A k \in S!Node : lag[q][k] \in Seq(S!Claim) /\ Len(lag[q][k]) <= MaxLag
    BY DEF SwarmTypes, S!TypeOK
  <2>2. lag'[q][m] = IF q = n THEN queues[m]
                     ELSE IF m = n THEN S!Queued(lag[q][n], said)
                     ELSE lag[q][m]
    BY <1>4
  <2> QED
    BY <2>1, <2>2, QueueFits
<1>8. \A q \in S!Node : DOMAIN lag'[q] = S!Node
  BY <1>4
<1> QED
  BY <1>5, <1>6, <1>7, <1>8 DEF SwarmTypes, S!TypeOK, S!Known

LEMMA SwarmTypesStep ==
  ASSUME SwarmTypes, S!Next \/ UNCHANGED swarm
  PROVE  SwarmTypes'
<1>1. CASE UNCHANGED swarm
  BY <1>1 DEF swarm, SwarmTypes, S!TypeOK, S!Known
<1>2. /\ running \subseteq S!Node /\ moves \in 0..MaxMoves /\ faults \in 0..MaxFaults
      /\ MaxMoves \in Nat /\ MaxFaults \in Nat
  BY SwarmFacts DEF SwarmTypes, S!TypeOK
<1>3. ASSUME NEW n \in S!Node
      PROVE  /\ n \in S!Known(n) /\ S!Known(n) \in SUBSET S!Node
             /\ views[n] \in [S!Known(n) -> S!Entry]
             /\ \A m \in S!Node : lag[n][m] \in Seq(S!Claim) /\ Len(lag[n][m]) <= MaxLag
  BY DEF SwarmTypes, S!TypeOK
<1>4. ASSUME S!Fault
      PROVE  faults' \in 0..MaxFaults
  BY <1>2, <1>4 DEF S!Fault
<1>5. ASSUME NEW n \in S!Node, NEW m \in S!Node, S!Meet(n, m)
      PROVE  SwarmTypes'
  <2>1. PICK K \in SUBSET S!Node : K = S!Known(n) \cup {m} /\ n \in K
    <3>1. S!Known(n) \cup {m} \in SUBSET S!Node /\ n \in S!Known(n) \cup {m}
      BY <1>3
    <3> QED
      BY <3>1
  <2>2. PICK row \in [K -> S!Entry] :
          row = [k \in K |-> IF k = m THEN [st |-> "alive", role |-> "worker", score |-> NoScore]
                             ELSE views[n][k]]
    <3>1. [st |-> "alive", role |-> "worker", score |-> NoScore] \in S!Entry
      BY DEF S!Entry
    <3> QED
      BY <1>3, <2>1, <3>1
  <2>3. S!Finish(n, row, lag[n]) /\ UNCHANGED <<running, moves, faults>>
    BY <1>5, <2>1, <2>2 DEF S!Meet
  <2> QED
    BY <1>2, <1>3, <2>1, <2>3, FinishFits
<1>6. ASSUME NEW n \in S!Node, NEW m \in S!Node, S!Hear(n, m)
      PROVE  SwarmTypes'
  <2>1. m \in S!Known(n) /\ lag[n][m] # << >> /\ UNCHANGED <<running, moves, faults>>
    BY <1>6 DEF S!Hear
  <2>2. PICK claim \in S!Claim : claim = Head(lag[n][m])
    BY <1>3, <2>1, HeadTailProperties
  <2>3. PICK row \in [S!Known(n) -> S!Entry] :
          row = [views[n] EXCEPT ![m].role = claim.role, ![m].score = claim.score]
    <3>1. [views[n][m] EXCEPT !.role = claim.role, !.score = claim.score] \in S!Entry
      <4>1. PICK e \in S!Entry : e = views[n][m]
        BY <1>3, <2>1
      <4>2. [e EXCEPT !.role = claim.role, !.score = claim.score] \in S!Entry
        BY DEF S!Entry, S!Claim
      <4> QED
        BY <4>1, <4>2
    <3>2. [views[n] EXCEPT ![m].role = claim.role, ![m].score = claim.score]
            = [views[n] EXCEPT ![m] = [views[n][m] EXCEPT !.role = claim.role, !.score = claim.score]]
      BY <1>3, <2>1
    <3> QED
      BY <1>3, <3>1, <3>2
  <2>4. S!Finish(n, row, [lag[n] EXCEPT ![m] = Tail(lag[n][m])])
    BY <1>6, <2>2, <2>3 DEF S!Hear
  <2>5. PICK queues : queues = [lag[n] EXCEPT ![m] = Tail(lag[n][m])]
    OBVIOUS
  <2>6. ASSUME NEW k \in S!Node
        PROVE  queues[k] \in Seq(S!Claim) /\ Len(queues[k]) <= MaxLag
    <3>1. DOMAIN lag[n] = S!Node
      BY DEF SwarmTypes
    <3>2. CASE k = m
      <4>1. queues[k] = Tail(lag[n][m])
        BY <2>5, <3>1, <3>2
      <4>2. Tail(lag[n][m]) \in Seq(S!Claim) /\ Len(Tail(lag[n][m])) = Len(lag[n][m]) - 1
        BY <1>3, <2>1, HeadTailProperties
      <4>3. Len(lag[n][m]) \in Nat /\ Len(lag[n][m]) <= MaxLag /\ MaxLag \in Nat
        BY <1>3, LenProperties, SwarmFacts
      <4> QED
        BY <4>1, <4>2, <4>3
    <3>3. CASE k # m
      <4>1. queues[k] = lag[n][k]
        BY <2>5, <3>1, <3>3
      <4> QED
        BY <1>3, <4>1
    <3> QED
      BY <3>2, <3>3
  <2> QED
    BY <1>2, <1>3, <2>1, <2>4, <2>5, <2>6, FinishFits
<1>7. ASSUME NEW n \in S!Node, NEW m \in S!Node, NEW s \in {"alive", "suspect", "dead"},
             m \in S!Known(n),
             S!Finish(n, [views[n] EXCEPT ![m].st = s], lag[n]),
             UNCHANGED <<running, moves>>, faults' \in 0..MaxFaults
      PROVE  SwarmTypes'
  <2>1. PICK row \in [S!Known(n) -> S!Entry] : row = [views[n] EXCEPT ![m].st = s]
    <3>1. [views[n][m] EXCEPT !.st = s] \in S!Entry
      <4>1. PICK e \in S!Entry : e = views[n][m]
        BY <1>3, <1>7
      <4>2. [e EXCEPT !.st = s] \in S!Entry
        BY DEF S!Entry
      <4> QED
        BY <4>1, <4>2
    <3> QED
      BY <1>3, <1>7, <3>1
  <2> QED
    BY <1>2, <1>3, <1>7, <2>1, FinishFits
<1>8. ASSUME NEW n \in S!Node, NEW m \in S!Node, S!Doubt(n, m)
      PROVE  SwarmTypes'
  <2>1. faults' \in 0..MaxFaults
    BY <1>2, <1>4, <1>8 DEF S!Doubt
  <2> QED
    BY <1>7, <1>8, <2>1 DEF S!Doubt
<1>9. ASSUME NEW n \in S!Node, NEW m \in S!Node, S!Resolve(n, m)
      PROVE  SwarmTypes'
  <2>1. PICK s \in {"alive", "suspect", "dead"} : s = IF m \in running THEN "alive" ELSE "dead"
    OBVIOUS
  <2>2. /\ m \in S!Known(n) /\ S!Finish(n, [views[n] EXCEPT ![m].st = s], lag[n])
        /\ UNCHANGED <<running, moves, faults>>
    BY <1>9, <2>1 DEF S!Resolve
  <2> QED
    BY <1>2, <1>7, <2>2
<1>10. ASSUME NEW n \in S!Node, NEW s \in SwarmScores, S!Measure(n, s)
       PROVE  SwarmTypes'
  <2>1. PICK row \in [S!Known(n) -> S!Entry] : row = [views[n] EXCEPT ![n].score = s]
    <3>1. [views[n][n] EXCEPT !.score = s] \in S!Entry
      BY <1>3 DEF S!Entry
    <3> QED
      BY <1>3, <3>1
  <2>2. moves' \in 0..MaxMoves
    BY <1>2, <1>10 DEF S!Measure
  <2>3. S!Finish(n, row, lag[n]) /\ UNCHANGED <<running, faults>>
    BY <1>10, <2>1 DEF S!Measure
  <2> QED
    BY <1>2, <1>3, <2>2, <2>3, FinishFits
<1>11. ASSUME NEW m \in S!Node, S!Crash(m)
       PROVE  SwarmTypes'
  <2>1. /\ running' \subseteq S!Node /\ faults' \in 0..MaxFaults
        /\ UNCHANGED <<views, lag, leaders, moves>>
    BY <1>2, <1>4, <1>11 DEF S!Crash
  <2> QED
    BY <2>1 DEF SwarmTypes, S!TypeOK, S!Known
<1> QED
  BY <1>1, <1>5, <1>6, <1>8, <1>9, <1>10, <1>11 DEF S!Next

-----------------------------------------------------------------------------
(* The election over one view, held again and again. *)

SeatView == view \in [1..Members -> E!Member] /\ View(view, Members)

LEMMA SeatViewFits ==
  ASSUME view \in [1..Members -> E!Member]
  PROVE  View(view, Members)
<1>1. \A i \in 1..Members : view[i].score \in Int \cup {NoScore}
  <2>1. \A m \in E!Member : m.score \in Scores \cup {NoScore, 0}
    BY DEF E!Member
  <2>2. \A x \in Scores : x \in Int
    BY ElectionFacts
  <2> QED
    BY <2>1, <2>2
<1> QED
  BY <1>1 DEF View, Scored

LEMMA SeatViewStep ==
  ASSUME SeatView, E!Next \/ UNCHANGED view
  PROVE  SeatView'
<1>1. CASE E!Next
  <2>1. PICK w : w = view
    OBVIOUS
  <2>2. Members \in Nat /\ w \in [1..Members -> E!Member] /\ View(w, Members)
    BY <2>1, ElectionFacts DEF SeatView
  <2>3. E!Claimed(w) \in [1..Members -> E!Member] /\ View(E!Claimed(w), Members)
    BY <2>2, ElectionSettles
  <2>4. view' = E!Claimed(w)
    BY <1>1, <2>1 DEF E!Next
  <2> QED
    BY <2>3, <2>4 DEF SeatView, View, Scored, E!Member
<1>2. CASE UNCHANGED view
  BY <1>2 DEF SeatView, View, Scored, E!Member
<1> QED
  BY <1>1, <1>2

LEMMA SeatsHold ==
  ASSUME SeatView
  PROVE  /\ E!ChallengersEarnSeats /\ E!Staffed /\ E!Settled
         /\ E!DoubtMovesNoSeat /\ E!BetterKeepsSeat
<1>1. Members \in Nat /\ view \in [1..Members -> E!Member] /\ View(view, Members)
  BY ElectionFacts DEF SeatView
<1>2. E!ChallengersEarnSeats
  BY <1>1, SwapsAreEarned DEF SwapsEarned, E!ChallengersEarnSeats
<1>3. E!Staffed
  BY <1>1, SeatsAreStaffed DEF AllStaffed, E!Staffed
<1>4. E!Settled
  BY <1>1, ElectionSettles DEF E!Settled
<1>5. E!DoubtMovesNoSeat
  BY <1>1, DoubtsMoveNoSeat DEF Doubting, E!DoubtMovesNoSeat
<1>6. E!BetterKeepsSeat
  BY <1>1, BetterScoresStay DEF BetterStays, E!BetterKeepsSeat
<1> QED
  BY <1>2, <1>3, <1>4, <1>5, <1>6

-----------------------------------------------------------------------------
(* The theorems about the scores, the detector and the election. *)

Parts == <<which, vars, view, swarm, detector, scoring>>

\* Each part takes its own steps only.
LEMMA PartSteps ==
  [MCNext]_Parts => /\ L!Next \/ UNCHANGED scoring
                    /\ P!Next \/ UNCHANGED detector
                    /\ S!Next \/ UNCHANGED swarm
                    /\ Next \/ UNCHANGED vars
                    /\ (which = "election" /\ E!Next) \/ UNCHANGED view
                    /\ UNCHANGED which
BY DEF MCNext, Parts

\* A peer that did at least as badly as another in every round both were probed in never
\* ranks ahead of it, for any answers and time-outs, however the probes of a round end and
\* whoever dies meanwhile (latency.go record, classify).
THEOREM NoBetterForWorse == MCSpec => []WorseNeverBetter
<1>1. MCInit => ScoreInv
  BY ScoreInit DEF MCInit
<1>2. ScoreInv /\ [MCNext]_Parts => ScoreInv'
  BY PartSteps, ScoreStep, ScoreIdle
<1>3. ScoreInv => WorseNeverBetter
  BY ScoreRanks
<1> QED
  BY <1>1, <1>2, <1>3, PTL DEF MCSpec, Parts

\* A finished round clears a doubt only with the answer to a PING sent after the doubt was
\* raised, and what a node claims of itself is within the margin of what it measured,
\* nothing exactly if it measured nothing, for every set of peers (failure.go probeClears,
\* node.go selfScore, updateSelfScore).
THEOREM ClaimsRestOnEvidence == MCSpec => OnEvidence
<1>1. MCInit => ScoreInv /\ Told /\ ProbeInv
  <2>1. L!Init => Told
    BY DEF L!Init, Told
  <2> QED
    BY <2>1, ScoreInit, ProbeInit DEF MCInit
<1>2. ASSUME ScoreInv, Told, ProbeInv, [MCNext]_Parts
      PROVE  /\ ScoreInv' /\ Told' /\ ProbeInv'
             /\ [\A p \in Peer :
                   (P!ApplyRound /\ doubt[p].on /\ rec[p].st = P!M!Suspect /\ rec'[p].st = P!M!Alive)
                     => after[p]]_P!vars
             /\ [L!ApplyProbeRound =>
                   LET truth == L!SelfScore(local')
                   IN  /\ told' = L!NaN <=> /\ \A p \in Peers : ~L!Valid(local'[p])
                                            /\ \E p \in Peers : local'[p] # L!Absent
                       /\ L!Valid(truth) => told' - truth <= Margin * Unit
                                              /\ truth - told' <= Margin * Unit]_L!vars
  <2>1. (L!Next \/ UNCHANGED scoring) /\ (P!Next \/ UNCHANGED detector)
    BY <1>2, PartSteps
  <2>2. ScoreInv' /\ Told' /\ ProbeInv'
    BY <1>2, <2>1, ScoreStep, ScoreIdle, ToldStep, ProbeStep, ProbeIdle
  <2>3. ASSUME P!ApplyRound, NEW p \in Peer,
               doubt[p].on, rec[p].st = P!M!Suspect, rec'[p].st = P!M!Alive
        PROVE  after[p]
    BY <1>2, <2>3, RoundApplied
  <2>4. ASSUME L!ApplyProbeRound
        PROVE  /\ told' = L!NaN <=> /\ \A p \in Peers : ~L!Valid(local'[p])
                                    /\ \E p \in Peers : local'[p] # L!Absent
               /\ L!Valid(L!SelfScore(local')) =>
                    /\ told' - L!SelfScore(local') <= Margin * Unit
                    /\ L!SelfScore(local') - told' <= Margin * Unit
    BY <1>2, <2>4, HonestStep
  <2> QED
    BY <2>2, <2>3, <2>4
<1> QED
  BY <1>1, <1>2, PTL DEF MCSpec, Parts, OnEvidence, P!ClearedByNewerEvidence, L!HonestClaim

Typed == /\ TypeOK /\ SwarmTypes /\ ProbeInv /\ ProbeRest
         /\ ScoreInv /\ Told /\ ScoreBounds

Seated == Typed /\ (which = "election" => SeatView)

\* Of any view, with any number of members and seats: a challenger takes an incumbent's
\* seat only with a score better by the margin; every seat the measured can staff is
\* staffed, by members who may stand; the election held again with the roles it gave
\* elects the same leaders; and neither a doubt about a leader nor a better score costs a
\* seat (election.go Elect, applyHysteresis).  With it the types of all the rules.
THEOREM SeatsAreKept == MCSpec => []SeatRules
<1>1. MCInit => Seated
  <2> SUFFICES ASSUME MCInit PROVE Seated
    OBVIOUS
  <2>1. Init /\ S!Init /\ P!Init /\ L!Init
    BY DEF MCInit
  <2>2. Told
    BY <2>1 DEF L!Init, Told
  <2>3. Typed
    BY <2>1, <2>2, MergeTypesStart, SwarmTypesStart, ProbeInit, ProbeRestStarts, ScoreInit,
       BoundsStart DEF Typed
  <2>4. ASSUME which = "election"
        PROVE  SeatView
    <3>1. view \in [1..Members -> E!Member]
      BY <2>4 DEF MCInit, E!Init
    <3> QED
      BY <3>1, SeatViewFits DEF SeatView
  <2> QED
    BY <2>3, <2>4 DEF Seated
<1>2. ASSUME Seated, [MCNext]_Parts
      PROVE  Seated'
  <2>1. /\ L!Next \/ UNCHANGED scoring
        /\ P!Next \/ UNCHANGED detector
        /\ S!Next \/ UNCHANGED swarm
        /\ Next \/ UNCHANGED vars
        /\ (which = "election" /\ E!Next) \/ UNCHANGED view
        /\ which' = which
    BY <1>2, PartSteps
  <2>2. TypeOK' /\ SwarmTypes'
    BY <1>2, <2>1, MergeTypesStep, SwarmTypesStep DEF Seated, Typed
  <2>3. ProbeInv' /\ ProbeRest'
    BY <1>2, <2>1, ProbeStep, ProbeIdle, ProbeRestStep DEF Seated, Typed
  <2>4. ScoreInv' /\ Told' /\ ScoreBounds'
    BY <1>2, <2>1, ScoreStep, ScoreIdle, ToldStep, BoundsStep DEF Seated, Typed
  <2>5. ASSUME which' = "election"
        PROVE  SeatView'
    BY <1>2, <2>1, <2>5, SeatViewStep DEF Seated
  <2> QED
    BY <2>2, <2>3, <2>4, <2>5 DEF Seated, Typed
<1>3. Seated => SeatRules
  <2> SUFFICES ASSUME Seated PROVE SeatRules
    OBVIOUS
  <2>1. TypeOK /\ S!TypeOK /\ P!TypeOK /\ L!TypeOK
    BY ProbeTypesAre, ScoreTypesAre DEF Seated, Typed, SwarmTypes
  <2> QED
    BY <2>1, SeatsHold DEF Seated, SeatRules, TypesOK
<1> QED
  BY <1>1, <1>2, <1>3, PTL DEF MCSpec, Parts

=============================================================================
