------------------------------ MODULE MergeOrder ------------------------------
(***************************************************************************)
(* Two nodes hear the same rumours about one member, each in its own order *)
(* and as often as gossip repeats them, and apply them with the merge of   *)
(* pkg/cluster (Table.Upsert behind handleMembershipDelta).  The question  *)
(* is the one docs/concepts/monotonic-merge-and-incarnation.md answers     *)
(* with yes: does the order of arrival leave no trace?                     *)
(***************************************************************************)
EXTENDS MemberTable, FiniteSets

CONSTANTS MaxSeq,       \* bound on the claims of one life
          MaxRumours,   \* bound on the different records in circulation
          FirstHeld     \* "known": both nodes already hold the member;
                        \* "unknown": neither has heard of it

ASSUME MergeOrderAssumption ==
  /\ MaxSeq \in Nat \ {0}
  /\ MaxRumours \in Nat
  /\ FirstHeld \in {"known", "unknown"}

VARIABLES held,     \* what each node holds of the member
          heard     \* the rumours each node has applied

vars == <<held, heard>>

Hearer == {1, 2}

\* A record whose claim was published by the member: seq starts at 1, and a
\* death is recorded one incarnation past the member's own.
Published ==
  {r \in [st: State, inc: Incarnation,
          claim: [role: Role, score: Score, seq: 1..MaxSeq]] :
     r.st = Dead => r.inc > 1}

\* Only the member bumps seq, so one (incarnation, seq) names one claim.
Coherent(R) == \A r, s \in R :
  (r.inc = s.inc /\ r.claim.seq = s.claim.seq) => r.claim = s.claim

\* What the nodes knew before: the member's first record, or nothing.
First == IF FirstHeld = "known"
         THEN {[st |-> Alive, inc |-> 1,
                claim |-> [role |-> "worker", score |-> NoScore, seq |-> 1]]}
         ELSE {}

Rumours == heard[1] \cup heard[2]

\* A known member stays known: no rumour deletes its record.
TypeOK ==
  /\ held \in [Hearer -> Record \cup (IF First = {} THEN {NoRecord} ELSE {})]
  /\ heard \in [Hearer -> SUBSET Published]

Init ==
  /\ held \in [Hearer -> IF First = {} THEN {NoRecord} ELSE First]
  /\ heard = [h \in Hearer |-> {}]

Hear(h, r) ==
  /\ Cardinality(Rumours \cup {r}) <= MaxRumours
  /\ Coherent(Rumours \cup First \cup {r})
  /\ held' = [held EXCEPT ![h] = Heard(@, r, FALSE)]
  /\ heard' = [heard EXCEPT ![h] = @ \cup {r}]

Next == \E h \in Hearer, r \in Published : Hear(h, r)

Spec == Init /\ [][Next]_vars

-----------------------------------------------------------------------------
\* Nodes that have applied the same rumours hold the same record, whatever the
\* order and however often each one arrived (Upsert's merge rule).
OrderFree == heard[1] = heard[2] => held[1] = held[2]

\* Whatever arrives, what a node holds of the member only moves forward: a later
\* incarnation, or the same one with no better state and no older claim.
Forward(r, s) ==
  \/ r = NoRecord
  \/ /\ s # NoRecord
     /\ \/ s.inc > r.inc
        \/ s.inc = r.inc /\ s.st >= r.st /\ s.claim.seq >= r.claim.seq
MovesForward == [][\A h \in Hearer : Forward(held[h], held'[h])]_vars
=============================================================================
