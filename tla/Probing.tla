------------------------------- MODULE Probing --------------------------------
(***************************************************************************)
(* The failure detector of one node: probe rounds (startProbeRound,        *)
(* applyProbeRound in cluster/node.go), the PINGs and PONGs behind them    *)
(* (network/prober.go), the miss counts, and the suspicions with their     *)
(* timer (cluster/failure.go).  Gossip lets a doubt come and go at any     *)
(* time; here is what decides when it does.                                *)
(*                                                                         *)
(* A round runs on its own goroutines and is applied on the loop when its  *)
(* last probe has ended: links break and come back, members refute and     *)
(* beats are missed in between.  Time is when a timer has run out.         *)
(***************************************************************************)
EXTENDS Integers, FiniteSets

CONSTANTS Peer,
          SuspectAfter, DeadAfter,  \* failed probes in a row
          MaxInc                    \* bound on incarnations

\* What the constants are; a module that instantiates this one assumes it.
ProbingAssumption ==
  /\ IsFiniteSet(Peer)
  /\ SuspectAfter \in Nat \ {0} /\ DeadAfter \in Nat \ {0}
  /\ MaxInc \in Nat \ {0}

M == INSTANCE MemberTable WITH Score <- {0}, NoScore <- 0, NoRecord <- 0

VARIABLES rec,      \* rec[p]: state and incarnation in the node's table
          missed,   \* n.missed
          doubt,    \* n.suspects; sameRound: raised while the present round ran
          probing,  \* n.probing: a round is in flight
          probe,    \* probe[p]: how far the round's probe of p is
          ping,     \* ping[p]: unanswered PINGs, of this round or an older one
          link,     \* the peers the pool has a connection to
          up,       \* the peers whose process runs
          own,      \* own[p]: p's own incarnation
          newer,    \* history: the PINGs of p sent after the doubt about it was raised
          after     \* history: the answer to p's probe was to one of these

loop == <<rec, missed, doubt>>
round == <<probing, probe, ping, newer, after>>
world == <<link, up, own>>
vars == <<loop, round, world>>

NoDoubt == [on |-> FALSE, inc |-> 0, sameRound |-> FALSE, silent |-> FALSE, due |-> FALSE]

Init ==
  /\ rec = [p \in Peer |-> [st |-> M!Alive, inc |-> 1]]
  /\ missed = [p \in Peer |-> 0]
  /\ doubt = [p \in Peer |-> NoDoubt]
  /\ probing = FALSE
  /\ probe = [p \in Peer |-> "none"]
  /\ ping = [p \in Peer |-> {}]
  /\ link = Peer /\ up = Peer
  /\ own = [p \in Peer |-> 1]
  /\ newer = [p \in Peer |-> {}]
  /\ after = [p \in Peer |-> FALSE]

-----------------------------------------------------------------------------
\* What the handlers do to one peer's record r, misses m and doubt d.

\* markDead, markLeft: the doubt goes with the verdict, and membershipChanged prunes the
\* misses of the dead.
Buried(r) == [rec |-> M!SetState(r, M!Dead), missed |-> 0, doubt |-> NoDoubt]

\* suspect: the timer of a doubt that stands is kept, missed beats mark it silent.
Timed(r, d, silent) ==
  IF ~d.on
  THEN [on |-> TRUE, inc |-> r.inc, sameRound |-> probing, silent |-> silent, due |-> FALSE]
  ELSE [d EXCEPT !.silent = @ \/ silent]

Doubted(r, m, d, silent) ==
  [rec |-> M!SetState(r, M!Suspect), missed |-> m, doubt |-> Timed(r, d, silent)]

\* probeMissed, after the count was incremented to m.
Missed(r, m, d) ==
  IF m >= DeadAfter THEN Buried(r)
  ELSE IF m >= SuspectAfter THEN Doubted(r, m, d, FALSE)
  ELSE [rec |-> r, missed |-> m, doubt |-> d]

\* Mutant: a success counts whenever its round began.
AnySuccess(d) == ~d.silent
\* probeClears: only a round started after the doubt, and no doubt of missed beats.
MayClear(d) == ~d.on \/ ~(d.sameRound \/ d.silent)

Answered(r, d) ==
  IF r.st = M!Suspect /\ MayClear(d)
  THEN [rec |-> M!Revive(r, r.inc), missed |-> 0, doubt |-> NoDoubt]
  ELSE [rec |-> r, missed |-> 0, doubt |-> d]

\* Assign to the peers of S what f gives them.
Set(S, f(_)) ==
  /\ rec' = [p \in Peer |-> IF p \in S THEN f(p).rec ELSE rec[p]]
  /\ missed' = [p \in Peer |-> IF p \in S THEN f(p).missed ELSE missed[p]]
  /\ doubt' = [p \in Peer |-> IF p \in S THEN f(p).doubt ELSE doubt[p]]

\* A doubt raised in this step is older than every PING from now on only.
Noted == newer' = [p \in Peer |-> IF doubt'[p].on /\ ~doubt[p].on THEN {} ELSE newer[p]]

-----------------------------------------------------------------------------
\* A round.

Targets == {p \in Peer : rec[p].st # M!Dead}

\* startProbeRound: the round's number is one past that of every doubt so far.
StartRound ==
  /\ ~probing
  /\ probing' = TRUE
  /\ probe' = [p \in Peer |-> IF p \in Targets THEN "begun" ELSE "none"]
  /\ doubt' = [p \in Peer |-> [doubt[p] EXCEPT !.sameRound = FALSE]]
  /\ ping' = [p \in Peer |-> IF ping[p] = {} THEN {} ELSE {"old"}]
  /\ newer' = [p \in Peer |-> IF "now" \in newer[p] /\ "old" \notin ping[p] THEN {"old"} ELSE {}]
  /\ UNCHANGED <<rec, missed, after, world>>

\* Probe: registered, then sent; without a connection it fails at once.
SendPing(p) ==
  /\ probe[p] = "begun"
  /\ IF p \in link
     THEN /\ probe' = [probe EXCEPT ![p] = "out"]
          /\ ping' = [ping EXCEPT ![p] = @ \cup {"now"}]
          /\ newer' = [newer EXCEPT ![p] = @ \cup {"now"}]
     ELSE /\ probe' = [probe EXCEPT ![p] = "failed"]
          /\ UNCHANGED <<ping, newer>>
  /\ UNCHANGED <<probing, after, loop, world>>

\* resolvePong finds the pending probe by the id of its PING.
Matches(t) == t = "now"

\* The peer answers, by the connection it has then; a late PONG finds nothing.
Pong(p) ==
  /\ p \in up \cap link
  /\ \E t \in ping[p] :
       /\ ping' = [ping EXCEPT ![p] = @ \ {t}]
       /\ IF probe[p] = "out" /\ Matches(t)
          THEN probe' = [probe EXCEPT ![p] = "ok"] /\ after' = [after EXCEPT ![p] = t \in newer[p]]
          ELSE UNCHANGED <<probe, after>>
  /\ UNCHANGED <<probing, newer, loop, world>>

\* The strategy's own budget, shorter than the round's, ends the wait.
ProbeTimeout(p) ==
  /\ probe[p] = "out"
  /\ probe' = [probe EXCEPT ![p] = "failed"]
  /\ UNCHANGED <<probing, ping, newer, after, loop, world>>

\* Mutant: the collector waits for answers.
AllAnswered == \A p \in Peer : probe[p] \in {"none", "ok"}
AllEnded == \A p \in Peer : probe[p] \in {"none", "ok", "failed"}

\* applyProbeRound: who died while the round ran is skipped.
ApplyRound ==
  /\ probing /\ AllEnded
  /\ probing' = FALSE
  /\ Set({p \in Targets : probe[p] # "none"},
         LAMBDA p : IF probe[p] = "failed" THEN Missed(rec[p], missed[p] + 1, doubt[p])
                    ELSE Answered(rec[p], doubt[p]))
  /\ Noted
  /\ probe' = [p \in Peer |-> "none"]
  /\ UNCHANGED <<ping, after, world>>

-----------------------------------------------------------------------------
\* The other events of the loop.

\* PeerDown without a goodbye.
LinkLost(p) ==
  /\ p \in link
  /\ link' = link \ {p}
  /\ IF rec[p].st = M!Dead THEN UNCHANGED loop
     ELSE Set({p}, LAMBDA q : Doubted(rec[q], missed[q], doubt[q], FALSE))
  /\ Noted
  /\ UNCHANGED <<probing, probe, ping, after, up, own>>

\* PeerUp: the handshake carries p's incarnation; the doubt is resolved, the misses stay.
LinkUp(p) ==
  /\ p \in up \ link
  /\ link' = link \cup {p}
  /\ rec' = [rec EXCEPT ![p] = M!Revive(@, own[p])]
  /\ doubt' = [doubt EXCEPT ![p] = NoDoubt]
  /\ UNCHANGED <<missed, round, up, own>>

\* p hears of its doubt or death and answers with the next incarnation.
Refuted(p) ==
  /\ p \in up \cap link
  /\ rec[p].st # M!Alive /\ rec[p].inc < MaxInc
  /\ own' = [own EXCEPT ![p] = rec[p].inc + 1]
  /\ rec' = [rec EXCEPT ![p] = [st |-> M!Alive, inc |-> own'[p]]]
  /\ UNCHANGED <<missed, doubt, round, link, up>>

\* Another node's doubt, relayed: merged, not timed.
Rumour(p) ==
  /\ rec[p].st = M!Alive
  /\ rec' = [rec EXCEPT ![p] = M!SetState(@, M!Suspect)]
  /\ UNCHANGED <<missed, doubt, round, world>>

\* checkLeaderSilence, of a p this node follows.
Silent(p) ==
  /\ rec[p].st # M!Dead
  /\ Set({p}, LAMBDA q : Doubted(rec[q], missed[q], doubt[q], TRUE))
  /\ Noted
  /\ UNCHANGED <<probing, probe, ping, after, world>>

BeatResumed(p) ==
  /\ p \in up \cap link
  /\ doubt[p].on /\ doubt[p].silent
  /\ doubt' = [doubt EXCEPT ![p] = NoDoubt]
  /\ rec' = [rec EXCEPT ![p] = M!Revive(@, doubt[p].inc)]
  /\ UNCHANGED <<missed, round, world>>

\* SuspicionTimeout passes.
Age(p) ==
  /\ doubt[p].on /\ ~doubt[p].due
  /\ doubt' = [doubt EXCEPT ![p].due = TRUE]
  /\ UNCHANGED <<rec, missed, round, world>>

\* expireSuspicions: a doubt whose record has moved on is dropped, one past its time is a
\* death.
Settled(p) == rec[p].st # M!Suspect \/ rec[p].inc # doubt[p].inc
ControlTick ==
  /\ \E p \in Peer : doubt[p].on /\ (Settled(p) \/ doubt[p].due)
  /\ Set({p \in Peer : doubt[p].on},
         LAMBDA p : IF Settled(p) THEN [rec |-> rec[p], missed |-> missed[p], doubt |-> NoDoubt]
                    ELSE IF doubt[p].due THEN Buried(rec[p])
                    ELSE [rec |-> rec[p], missed |-> missed[p], doubt |-> doubt[p]])
  /\ UNCHANGED <<round, world>>

\* p's process dies; its connection stays until somebody notices.
Crash(p) ==
  /\ p \in up /\ up' = up \ {p}
  /\ UNCHANGED <<loop, round, link, own>>

-----------------------------------------------------------------------------
Next ==
  \/ StartRound \/ ApplyRound \/ ControlTick
  \/ \E p \in Peer :
       \/ SendPing(p) \/ Pong(p) \/ ProbeTimeout(p)
       \/ LinkLost(p) \/ LinkUp(p) \/ Refuted(p) \/ Rumour(p)
       \/ Silent(p) \/ BeatResumed(p) \/ Age(p) \/ Crash(p)

Spec == Init /\ [][Next]_vars

-----------------------------------------------------------------------------
TypeOK ==
  /\ rec \in [Peer -> [st : {M!Alive, M!Suspect, M!Dead}, inc : 1..MaxInc]]
  /\ missed \in [Peer -> 0..(DeadAfter - 1)]
  /\ doubt \in [Peer -> [on : BOOLEAN, inc : 0..MaxInc, sameRound : BOOLEAN,
                         silent : BOOLEAN, due : BOOLEAN]]
  /\ probing \in BOOLEAN
  /\ probe \in [Peer -> {"none", "begun", "out", "ok", "failed"}]
  /\ {ping, newer} \subseteq [Peer -> SUBSET {"now", "old"}]
  /\ link \cup up \subseteq Peer
  /\ own \in [Peer -> 1..MaxInc]
  /\ after \in [Peer -> BOOLEAN]

\* A finished round clears a doubt only with the answer to a PING sent after the doubt
\* was raised: "its success says nothing about the link now" (failure.go, probeClears).
ClearedByNewerEvidence ==
  [][\A p \in Peer :
       (ApplyRound /\ doubt[p].on /\ rec[p].st = M!Suspect /\ rec'[p].st = M!Alive) => after[p]]_vars

\* A silent peer is buried, by its misses or by the timer, whatever else happens.
CrashNoticed == \A p \in Peer : p \notin up ~> rec[p].st = M!Dead

\* "alive --> suspect --> dead": no probe takes an alive member straight to its death, and
\* a link that comes straight back costs no incarnation (failure.go:8-11, node.go:48-51).
DoubtComesFirst ==
  [][\A p \in Peer : rec[p].st = M!Alive => rec'[p].st # M!Dead]_vars

Fairness ==
  /\ WF_vars(StartRound) /\ WF_vars(ApplyRound) /\ WF_vars(ControlTick)
  /\ \A p \in Peer : WF_vars(SendPing(p)) /\ WF_vars(ProbeTimeout(p)) /\ WF_vars(Age(p))

LiveSpec == Spec /\ Fairness
=============================================================================
