---------------------------- MODULE ElectionViews ----------------------------
(***************************************************************************)
(* Elect over every view of a few members: the view is the state, and in a *)
(* step every member claims the role the election just gave it.            *)
(***************************************************************************)
EXTENDS Election

CONSTANTS Members, Scores

\* What the constants are; a module that instantiates this one assumes it.
ViewsAssumption == ElectionAssumption /\ Members \in Nat \ {0} /\ Scores \subseteq Int

VARIABLE view

\* What a dead member last said is no matter: it leads, with the best score.
Member == [st: {"alive", "suspect"}, role: {"worker", "leader"}, score: Scores \cup {NoScore}]
            \cup [st: {"dead"}, role: {"leader"}, score: {0}]

\* Evaluate everywhere: each writes its own role; a suspect is one not heard from.
Claimed(v) ==
  LET elected == Elect(v)
  IN  [i \in Ids(v) |-> IF v[i].st = "alive"
                        THEN [v[i] EXCEPT !.role = RoleIn(elected, i)]
                        ELSE v[i]]

Init == view \in [1..Members -> Member]
Next == view' = Claimed(view)
Spec == Init /\ [][Next]_view

-----------------------------------------------------------------------------
\* "every swap costs a cluster-wide re-home" (election.go, applyHysteresis): a
\* challenger sits where an incumbent lost its seat only if it is better by the
\* margin, however many seats change hands in one election.
ChallengersEarnSeats ==
  LET elected == Elect(view)
  IN  \A old \in Eligible(view) \ elected, new \in elected :
        (Leads(view, old) /\ ~Leads(view, new) /\ view[new].score # NoScore)
          => view[old].score - view[new].score >= Margin

\* As many leaders as the formula asks for and the measured can staff, out of those
\* who may stand; one at least, whoever is measured (election.go, Elect).
Staffed ==
  LET elected == Elect(view)
  IN  Electorate(view) # {} =>
        /\ elected \subseteq Electorate(view)
        /\ Cardinality(elected) = IF Eligible(view) = {} THEN 1 ELSE Seats(view)

\* Leadership does not chase its own result: once everyone claims the role it was
\* elected to, the same election elects the same leaders (election.go, Elect, "It
\* is idempotent"; without it evaluate would announce for ever).
Settled == Elect(Claimed(view)) = Elect(view)

\* A doubt moves no seat: making any one leader suspect leaves the result alone
\* (election.go, "Suspect members").
DoubtMovesNoSeat == \A i \in Ids(view) :
  (Leads(view, i) /\ view[i].st = "alive")
    => Elect([view EXCEPT ![i].st = "suspect"]) = Elect(view)

\* Getting better never costs a leader its seat (election.go, applyHysteresis: the
\* margin favours whoever sits).
BetterKeepsSeat == \A i \in Elect(view), s \in Scores :
  Better(s, view[i].score) => i \in Elect([view EXCEPT ![i].score = s])
=============================================================================
