------------------------------ MODULE MCRules ------------------------------
(***************************************************************************)
(* The rules a node applies to what it hears, for TLC, one at a time: the  *)
(* merge of a member's records (MergeOrder), the election over one view    *)
(* (ElectionViews) and in a swarm of views (ElectionSwarm), the failure    *)
(* detector (Probing) and the score a node gives its peers and itself      *)
(* (Latency).  They share nothing; the parts that a run is not about stand *)
(* still.                                                                  *)
(***************************************************************************)
EXTENDS MergeOrder

CONSTANTS
  Hysteresis, SharePart, ShareOf, Members, Scores,               \* ElectionViews
  SwarmMembers, SwarmScores, Booted, MaxLag, MaxMoves, MaxFaults,
  MaxTroubles,                                                   \* ElectionSwarm
  Peer, SuspectAfter, DeadAfter, Lives,                          \* Probing
  Peers, Answers, Timeout, Margin, Unit, MaxRounds, MaxDeaths    \* Latency

VARIABLES
  which,                                                         \* the part of this run
  view,
  running, views, lag, leaders, moves, faults,
  rec, missed, doubt, probing, probe, ping, link, up, own, newer, after,
  dead, samples, out, results, local, told, rounds, deaths, evidence

swarm == <<running, views, lag, leaders, moves, faults>>
detector == <<rec, missed, doubt, probing, probe, ping, link, up, own, newer, after>>
scoring == <<dead, samples, out, results, local, told, rounds, deaths, evidence>>

E == INSTANCE ElectionViews WITH Margin <- Hysteresis
S == INSTANCE ElectionSwarm WITH Margin <- Hysteresis, Members <- SwarmMembers,
       Scores <- SwarmScores, up <- running, view <- views
P == INSTANCE Probing WITH MaxInc <- Lives
L == INSTANCE Latency

ASSUME RulesAssumption ==
  E!ViewsAssumption /\ S!SwarmAssumption /\ P!ProbingAssumption /\ L!LatencyAssumption

\* Every view is an initial one; no view is of interest in the other parts' runs.
MCInit ==
  /\ which \in {"merge", "election", "swarm", "detector", "scoring"}
  /\ Init /\ S!Init /\ P!Init /\ L!Init
  /\ IF which = "election" THEN E!Init ELSE view = <<>>

MCNext ==
  \/ which = "merge" /\ Next /\ UNCHANGED <<which, view, swarm, detector, scoring>>
  \/ which = "election" /\ E!Next /\ UNCHANGED <<which, vars, swarm, detector, scoring>>
  \/ which = "swarm" /\ S!Next /\ UNCHANGED <<which, vars, view, detector, scoring>>
  \/ which = "detector" /\ P!Next /\ UNCHANGED <<which, vars, view, swarm, scoring>>
  \/ which = "scoring" /\ L!Next /\ UNCHANGED <<which, vars, view, swarm, detector>>

\* P!Fairness, of a detector that runs.
DetectorFairness ==
  /\ WF_detector(which = "detector" /\ P!StartRound)
  /\ WF_detector(which = "detector" /\ P!ApplyRound)
  /\ WF_detector(which = "detector" /\ P!ControlTick)
  /\ \A p \in Peer : /\ WF_detector(which = "detector" /\ P!SendPing(p))
                     /\ WF_detector(which = "detector" /\ P!ProbeTimeout(p))
                     /\ WF_detector(which = "detector" /\ P!Age(p))

\* S!LiveSpec's, of a swarm that runs: a step that counts no move and no fault.
SwarmFairness ==
  []<>(which = "swarm" => ~S!Due) \/ []<><<UNCHANGED <<moves, faults>>>>_swarm

MCSpec ==
  /\ MCInit /\ [][MCNext]_<<which, vars, view, swarm, detector, scoring>>
  /\ SwarmFairness /\ DetectorFairness

-----------------------------------------------------------------------------
(* What each of them promises; what stands still promises it idly.         *)

TypesOK == TypeOK /\ S!TypeOK /\ P!TypeOK /\ L!TypeOK

\* Seats are earned by the margin, staffed, and neither a doubt, nor a better score, nor
\* the same election held again costs one (ElectionViews; election.go Elect, applyHysteresis).
SeatRules == TypesOK /\
  (which = "election" =>
    /\ E!ChallengersEarnSeats /\ E!Staffed /\ E!Settled
    /\ E!DoubtMovesNoSeat /\ E!BetterKeepsSeat)

\* However late the claims are heard, once scores and members stop moving the running
\* nodes act on the same leaders (ElectionSwarm; node.go evaluate, "collapse to the
\* deterministic tie-break everywhere").
Agrees == <>[](which = "swarm" => S!OneAnswer)

\* A round clears a doubt only with the answer to a PING sent after it was raised, and
\* the score a node claims is true to its measurements (Probing, Latency; failure.go
\* probeClears, node.go selfScore).
OnEvidence == P!ClearedByNewerEvidence /\ L!HonestClaim

\* A silent peer is buried, by its misses or by the timer (Probing; failure.go).
CrashNoticed == P!CrashNoticed

\* A peer that did at least as badly in every round never ranks ahead (Latency;
\* latency.go record, classify).
WorseNeverBetter == L!WorseNeverBetter
=============================================================================
