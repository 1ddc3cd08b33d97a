------------------------------- MODULE Election -------------------------------
(***************************************************************************)
(* The pure functions of pkg/cluster's election and affinity.  A view maps *)
(* each known member to what its record says: st, role, score.  Scores are *)
(* integers (the code's are floats), lower is better, NoScore is NaN.      *)
(***************************************************************************)
EXTENDS Integers, FiniteSets

CONSTANTS NoScore,       \* health.ScoreUnavailable
          Margin,        \* Config.Hysteresis, in score units
          SharePart,     \* Config.Threshold is SharePart / ShareOf
          ShareOf

\* What the constants are; a module that instantiates this one assumes it.
ElectionAssumption ==
  /\ NoScore \notin Int
  /\ Margin \in Nat
  /\ ShareOf \in Nat \ {0}
  /\ SharePart \in 1..ShareOf

-----------------------------------------------------------------------------
\* health.Better
Better(a, b) == a # NoScore /\ (b = NoScore \/ a < b)

LeaderCount(n) ==
  LET k == (n * SharePart + ShareOf - 1) \div ShareOf
  IN  IF n = 0 THEN 0 ELSE IF k < 1 THEN 1 ELSE IF k > n THEN n ELSE k

Ids(view) == DOMAIN view
Leads(view, i) == view[i].role = "leader"

Electorate(view) ==
  {i \in Ids(view) : \/ view[i].st = "alive"
                     \/ view[i].st = "suspect" /\ Leads(view, i)}

Eligible(view) == {i \in Electorate(view) : view[i].score # NoScore}

\* The ranking: score, then id.
Ahead(view, i, j) ==
  \/ Better(view[i].score, view[j].score)
  \/ ~Better(view[j].score, view[i].score) /\ i < j

Seats(view) ==
  LET want == LeaderCount(Cardinality(Electorate(view)))
      able == Cardinality(Eligible(view))
  IN  IF want > able THEN able ELSE want

\* The best Seats(view) of the eligible.
Top(view) ==
  LET able == Eligible(view)
      seats == Seats(view)
  IN  {i \in able : Cardinality({j \in able : Ahead(view, j, i)}) < seats}

\* Mutant of Weakest: the incumbent fights the strongest newcomer.
Strongest(view, seated) ==
  CHOOSE i \in seated : \A j \in seated \ {i} : Ahead(view, i, j)

\* The newcomer an incumbent has the best claim to displace.
Weakest(view, seated) ==
  CHOOSE i \in seated : \A j \in seated \ {i} :
    \/ Better(view[j].score, view[i].score)
    \/ ~Better(view[i].score, view[j].score) /\ i < j

\* One displaced incumbent takes that seat back unless the newcomer is better by
\* the margin.
Reseat(view, seated, inc) ==
  LET new == {i \in seated : ~Leads(view, i)}
      weak == Weakest(view, new)
  IN  IF new = {} \/ view[inc].score - view[weak].score >= Margin
      THEN seated
      ELSE (seated \ {weak}) \cup {inc}

\* applyHysteresis: the incumbents without a seat, by id.
Damped(view) ==
  LET top == Top(view)
      displaced == {i \in Eligible(view) : Leads(view, i)} \ top
      last == IF displaced = {} THEN 0 ELSE CHOOSE i \in displaced : \A j \in displaced : j <= i
      seated[i \in 0..last] ==
        IF i = 0 THEN top
        ELSE IF i \in displaced THEN Reseat(view, seated[i - 1], i)
        ELSE seated[i - 1]
  IN  IF Margin = 0 THEN top ELSE seated[last]

\* Elect: nobody measured, then the lowest id.
Elect(view) ==
  IF Electorate(view) = {} THEN {}
  ELSE IF Eligible(view) = {}
       THEN {CHOOSE i \in Electorate(view) : \A j \in Electorate(view) : i <= j}
  ELSE Damped(view)

\* What evaluate makes of a role, from the leaders it elected.
RoleIn(elected, i) == IF i \in elected THEN "leader" ELSE "worker"
=============================================================================
