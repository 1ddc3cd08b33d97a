------------------------------ MODULE Latency ------------------------------
(***************************************************************************)
(* How one node scores its peers and itself: the moving average of probe  *)
(* times kept per peer (health/latency.go), the round of concurrent probes *)
(* that feeds it, and the score the node claims in gossip, which elections *)
(* rank by (cluster/node.go startProbeRound, applyProbeRound, selfScore).  *)
(* Probes of a round end one by one, each recording its own sample, while  *)
(* the loop goes on: a peer can die, and its history be dropped, with its  *)
(* probe still out.                                                        *)
(*                                                                         *)
(* Lower is better.  Alpha is a half, so that averages stay exact in units *)
(* of 1 / Unit if that is 2 ^ (MaxRounds + MaxDeaths + 1), and are rounded *)
(* down otherwise; a failed probe is worth twice the longest answer.       *)
(***************************************************************************)
EXTENDS Integers, FiniteSets

CONSTANTS
  Peers,
  Answers,      \* round trips of answered probes
  Timeout,      \* ProbeTimeout, no shorter than any answer
  Margin,       \* the election's hysteresis
  Unit,         \* units an answer is measured in
  MaxRounds,    \* bound: probe rounds
  MaxDeaths     \* bound: peers that die, each of which may return once

\* What the constants are; a module that instantiates this one assumes it.
LatencyAssumption ==
  /\ Answers \subseteq 0..Timeout /\ Answers # {} /\ Timeout \in Nat \ {0}
  /\ Margin \in Nat /\ Unit \in Nat \ {0} /\ MaxRounds \in Nat \ {0} /\ MaxDeaths \in Nat
  /\ IsFiniteSet(Peers)

NaN == -1           \* ScoreUnavailable: ranks behind every valid score
Absent == -2        \* no entry
Cancelled == -3
Penalty == 2 * Timeout
Valid(s) == s >= 0

VARIABLES
  dead,       \* the peers the table holds dead
  samples,    \* LatencyHealthStrategy.samples: the average, or Absent
  out,        \* probes of the round in flight that have not ended
  results,    \* what the round's ended probes brought: the score, and the sample behind it
  local,      \* Node.local for the peers: last score, NaN or Absent
  told,       \* the score the node's own record carries
  rounds, deaths,
  evidence    \* history: pairs <<p, q>> such that, since both were new, p's probe went at
              \* least as badly as q's in every round

vars == <<dead, samples, out, results, local, told, rounds, deaths, evidence>>

Ended == {p \in Peers : results[p].sample # Absent}
Probing == out # {} \/ Ended # {}
Empty == [p \in Peers |-> [score |-> Absent, sample |-> Absent]]

Init ==
  /\ dead = {} /\ out = {}
  /\ samples = [p \in Peers |-> Absent]
  /\ results = Empty
  /\ local = [p \in Peers |-> Absent]
  /\ told = 0
  /\ rounds = 0 /\ deaths = 0
  /\ evidence = Peers \X Peers

-----------------------------------------------------------------------------
\* Better: an invalid score never wins, a valid one always beats it.
Better(a, b) == Valid(a) /\ (~Valid(b) \/ a < b)

\* Mutant: a probe that failed leaves no sample.
OmitsFailures(old, sample) ==
  IF sample = Penalty THEN old
  ELSE IF old = Absent THEN sample * Unit ELSE (sample * Unit + old) \div 2

\* record: the first sample seeds the average.
Record(old, sample) == IF old = Absent THEN sample * Unit ELSE (sample * Unit + old) \div 2

\* Retain and pruneLocal: nothing is kept for a dead peer.
Retain(f, gone) == [p \in Peers |-> IF p \in gone THEN Absent ELSE f[p]]

\* Rounds do not overlap; suspects are probed as well.
StartProbeRound ==
  /\ ~Probing /\ rounds < MaxRounds /\ Peers \ dead # {}
  /\ rounds' = rounds + 1
  /\ out' = Peers \ dead
  /\ UNCHANGED <<dead, samples, results, local, told, deaths, evidence>>

Ends(p, score, sample) ==
  /\ p \in out
  /\ out' = out \ {p}
  /\ results' = [results EXCEPT ![p] = [score |-> score, sample |-> sample]]
  /\ UNCHANGED <<dead, local, told, rounds, deaths, evidence>>

\* EvaluateScore: the answer joins the history and the average is the score.
Answered(p, rtt) ==
  /\ samples' = [samples EXCEPT ![p] = Record(@, rtt)]
  /\ Ends(p, Record(samples[p], rtt), rtt)

\* classify: our own deadline, or a refusal, is evidence: a penalty, and no score.
Failed(p) ==
  /\ samples' = [samples EXCEPT ![p] = Record(@, Penalty)]
  /\ Ends(p, NaN, Penalty)

\* classify: the round ran out of time or the node stops; no evidence.
Stopped(p) == Ends(p, NaN, Cancelled) /\ UNCHANGED samples

\* Mutant: a node that measures nobody claims the best score.
BlindIsBest(scores) == IF {p \in Peers : Valid(scores[p])} = {} THEN 0 ELSE
  CHOOSE s \in {scores[p] : p \in Peers} : Valid(s) /\ \A p \in Peers : Valid(scores[p]) => s <= scores[p]

\* selfScore: the median of the valid scores; alone is 0, blind is NaN.
SelfScore(scores) ==
  LET valid == {p \in Peers : Valid(scores[p])}
      n     == Cardinality(valid)
      \* the k-th lowest score
      Nth(k) == CHOOSE s \in {scores[p] : p \in valid} :
                  /\ Cardinality({p \in valid : scores[p] < s}) < k
                  /\ Cardinality({p \in valid : scores[p] <= s}) >= k
  IN  IF \A p \in Peers : scores[p] = Absent THEN 0
      ELSE IF n = 0 THEN NaN
      ELSE IF n % 2 = 1 THEN Nth(n \div 2 + 1)
      ELSE (Nth(n \div 2) + Nth(n \div 2 + 1)) \div 2

\* updateSelfScore: a move smaller than the margin is not worth a broadcast.
Claim(old, next) ==
  IF Valid(old) /\ Valid(next) /\ next - old < Margin * Unit /\ old - next < Margin * Unit
  THEN old ELSE next

\* What the round says about each peer still in the view.
Scored(p) ==
  IF p \in dead \/ results[p].sample \in {Absent, Cancelled} THEN local[p] ELSE results[p].score

\* Both probes of the round are evidence and p's went no better, or neither is.
Agrees(p, q) ==
  LET s == results[p].sample
      t == results[q].sample
  IN  IF s \in {Absent, Cancelled} THEN t \in {Absent, Cancelled}
      ELSE t \notin {Absent, Cancelled} /\ s >= t

ApplyProbeRound ==
  /\ out = {} /\ Ended # {}
  /\ local' = [p \in Peers |-> Scored(p)]
  /\ told' = Claim(told, SelfScore(local'))
  /\ results' = Empty
  /\ evidence' = {pair \in evidence : Agrees(pair[1], pair[2])}
  /\ UNCHANGED <<dead, samples, out, rounds, deaths>>

\* A peer is held dead (a verdict of a round, gossip, a LEAVE): its history goes.
PeerDies(p) ==
  /\ p \notin dead /\ deaths < MaxDeaths
  /\ deaths' = deaths + 1
  /\ dead' = dead \cup {p}
  /\ samples' = Retain(samples, dead')
  /\ local' = Retain(local, dead')
  /\ evidence' = {pair \in evidence : pair[1] \notin dead' /\ pair[2] \notin dead'}
  /\ UNCHANGED <<out, results, told, rounds>>

\* It is back, under the address it had.
PeerReturns(p) ==
  /\ p \in dead
  /\ dead' = dead \ {p}
  /\ UNCHANGED <<samples, out, results, local, told, rounds, deaths, evidence>>

Next ==
  \/ StartProbeRound
  \/ \E p \in Peers : \/ \E rtt \in Answers : Answered(p, rtt)
                      \/ Failed(p) \/ Stopped(p)
  \/ ApplyProbeRound
  \/ \E p \in Peers : PeerDies(p) \/ PeerReturns(p)

Spec == Init /\ [][Next]_vars

-----------------------------------------------------------------------------
TypeOK ==
  /\ dead \subseteq Peers /\ out \subseteq Peers
  /\ \A p \in Peers : /\ samples[p] \in {Absent} \cup 0..(Penalty * Unit)
                      /\ local[p] \in {Absent, NaN} \cup 0..(Penalty * Unit)
  /\ told \in {NaN} \cup 0..(Penalty * Unit)
  /\ rounds \in 0..MaxRounds /\ deaths \in 0..MaxDeaths /\ evidence \subseteq Peers \X Peers

\* A peer that did at least as badly as another in every round they were probed
\* in never ranks ahead of it, in its history or as a leader to join: above all
\* one that times out while the other answers (latency.go, "coordinated omission").
WorseNeverBetter ==
  ~Probing => \A pair \in evidence : /\ ~Better(samples[pair[1]], samples[pair[2]])
                                     /\ ~Better(local[pair[1]], local[pair[2]])

\* When a round ends, a node with no measurement at all claims no score, a node
\* with some claims one, and the claim is within the margin of the truth, however
\* slowly it crept there (node.go selfScore, updateSelfScore).
HonestClaim ==
  [][ApplyProbeRound =>
       LET truth == SelfScore(local')
       IN  /\ told' = NaN <=> /\ \A p \in Peers : ~Valid(local'[p])
                             /\ \E p \in Peers : local'[p] # Absent
           /\ Valid(truth) => told' - truth <= Margin * Unit /\ truth - told' <= Margin * Unit]_vars
=============================================================================
