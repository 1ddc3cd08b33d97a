----------------------------- MODULE MemberTable -----------------------------
(***************************************************************************)
(* The membership record of pkg/cluster/member.go and every operation      *)
(* Table has on one record.  Records of different members never meet in a  *)
(* merge, so each operator maps the record held (and its input) to the     *)
(* record held afterwards; "the table changed" is "the record differs".    *)
(*                                                                         *)
(* A record keeps its liveness state, its incarnation and its CLAIM: the   *)
(* role and score the member reports of itself, ordered by seq.  Addr is   *)
(* left out: a member's address is fixed for the life of its process.      *)
(***************************************************************************)
EXTENDS Integers

CONSTANTS MaxInc,     \* math.MaxInt64, the ceiling of an incarnation
          Score,      \* the self-reported scores
          NoScore,    \* NaN: no report (health.ScoreUnavailable)
          NoRecord    \* what a table holds of a member it does not know

ASSUME MaxIncAssumption == MaxInc \in Nat \ {0}
ASSUME ScoreAssumption == NoScore \in Score

\* State, ordered by how bad the news is.
Alive == 0
Suspect == 1
Dead == 2
State == {Alive, Suspect, Dead}

Role == {"worker", "leader"}

\* Incarnations are Unix seconds, so positive; 0 never names a life.
Incarnation == 1..MaxInc

Claim == [role: Role, score: Score, seq: Nat]

Record == [st: State, inc: Incarnation, claim: Claim]

ASSUME NoRecordAssumption == NoRecord \notin Record

-----------------------------------------------------------------------------

UnboundedNext(inc) == inc + 1   \* mutant: no saturation

NextIncarnation(inc) == IF inc = MaxInc THEN inc ELSE inc + 1

Worse(s, t) == IF s < t THEN t ELSE s

\* Mutant: whichever claim came last.
LastClaim(old, new) == new

\* The claim kept when both records have the same incarnation.
MergedClaim(old, new) ==
  IF new.seq > old.seq THEN new
  ELSE IF new.seq = 0 /\ old.seq = 0
       THEN [new EXCEPT !.score = IF @ = NoScore THEN old.score ELSE @]
       ELSE old

\* Mutants: the clamp on the state forgotten; the higher incarnation forgotten.
UnclampedMerge(old, new) ==
  IF new.inc < old.inc THEN old
  ELSE IF new.inc = old.inc
       THEN [new EXCEPT !.claim = MergedClaim(old.claim, new.claim)]
       ELSE new
StateOnlyMerge(old, new) ==
  IF new.inc # old.inc THEN old
  ELSE [old EXCEPT !.st = Worse(old.st, new.st),
                   !.claim = MergedClaim(old.claim, new.claim)]

\* Upsert of new over the record old already held.
Merge(old, new) ==
  IF new.inc > old.inc THEN new
  ELSE IF new.inc < old.inc THEN old
  ELSE [old EXCEPT !.st = Worse(old.st, new.st),
                   !.claim = MergedClaim(old.claim, new.claim)]

\* Mutant: a doubt bumps too.
EveryStateBumps(rec, s) ==
  IF rec.st = s THEN rec
  ELSE [rec EXCEPT !.st = s, !.inc = NextIncarnation(@)]

\* SetState: a death, and only a death, is recorded one incarnation past the
\* member's own.
SetState(rec, s) ==
  IF rec.st = s THEN rec
  ELSE [rec EXCEPT !.st = s,
                   !.inc = IF s = Dead THEN NextIncarnation(@) ELSE @]

\* Mutant: the guard against stale evidence forgotten.
UnguardedRevive(rec, inc) == [rec EXCEPT !.st = Alive]

\* Revive: first-hand evidence of life at incarnation inc.
Revive(rec, inc) ==
  IF inc < rec.inc THEN rec
  ELSE [rec EXCEPT !.st = Alive, !.inc = inc]

\* The author's own writes.
Restated(rec, role, score) ==
  [rec EXCEPT !.claim = [role |-> role, score |-> score, seq |-> rec.claim.seq + 1]]

SetRole(rec, role) ==
  IF rec.claim.role = role THEN rec ELSE Restated(rec, role, rec.claim.score)

SetScore(rec, score) ==
  IF rec.claim.score = score THEN rec ELSE Restated(rec, rec.claim.role, score)

(***************************************************************************)
(* One record of a MEMBERSHIP_DELTA about another member, applied to what  *)
(* the receiver holds of it.  A role without a seq is believed only from   *)
(* its owner; a death of an unknown member is dropped.                     *)
(***************************************************************************)
Believed(held, rec, firstHand) ==
  IF rec.claim.seq = 0 /\ ~firstHand
  THEN [rec EXCEPT !.claim.role =
                     IF held = NoRecord THEN "worker" ELSE held.claim.role]
  ELSE rec

Heard(held, rec, firstHand) ==
  IF held = NoRecord
  THEN IF rec.st = Dead THEN NoRecord ELSE Believed(held, rec, firstHand)
  ELSE Merge(held, Believed(held, rec, firstHand))
=============================================================================
