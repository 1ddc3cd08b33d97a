----------------------------- MODULE GroundLink -----------------------------
(***************************************************************************)
(* What the MAVLink bridge says, in whose name, and to whom                *)
(* (mavlink/bridge.go send, vehicles.go, live.go): a system id for every   *)
(* node, a sequence counter for every system id, the ground stations that  *)
(* are worth writing to, and the state of a real drone's telemetry feed.   *)
(* The loop is one goroutine; between two writes of one message only the   *)
(* network moves.  One write stands for the burst of a tick: what a        *)
(* message carries is Motion's and MissionUpload's.                        *)
(*                                                                         *)
(* The socket is not connected, so the ICMP error that a write provokes is *)
(* reported by whichever write comes next.  At most one such error is on   *)
(* its way or pending at a time: they come back faster than the next       *)
(* message is due, and the socket has one place for them.                  *)
(***************************************************************************)
EXTENDS Integers

CONSTANTS
  Station,     \* addresses of ground stations
  Configured,  \* BridgeConfig.GCS, or None
  Names,       \* nodes of the swarm
  Numbered,    \* the nodes whose name ends in the number 1
  Live,        \* LiveConfig.Node
  MaxSysID,    \* highest system id, of those from 1
  MaxFails,    \* stationMaxFails
  SeqSize,     \* values of a frame's sequence number
  MaxTurns,    \* bound: changes of a station's reachability
  None

GroundAssumption ==
  /\ Numbered \subseteq Names /\ Live \in Names
  /\ MaxSysID \in Nat \ {0} /\ MaxFails \in Nat \ {0} /\ SeqSize \in Nat \ {0}
  /\ MaxTurns \in Nat

VARIABLES
  path,      \* what a write to a station meets: "up", "refusing" (ICMP), "cut" (an error)
  turns,     \* changes of path
  icmp,      \* none, onway, pending: an ICMP error for the socket
  stations,  \* Bridge.stations: fails, and whether its last word is older than stationTTL
  sysid,     \* Vehicles.byNode
  vs,        \* the nodes with a vehicle in Bridge.vs that is connected
  next,      \* Sequencer.next
  out,       \* the message being written: whose, its number, who is left, and, when the
             \* first try of a write failed, to whom and how
  expects,   \* history: the number each station expects of the live vehicle next, or None
  gaps,      \* history: stations that saw a number skipped
  feed,      \* the drone's feed: it sends, or it has been quiet for StaleAfter
  live       \* liveState: have and up, and the text last announced (history)

loopVars == <<stations, sysid, vs, next, live>>
vars == <<path, turns, icmp, out, expects, gaps, feed, loopVars>>

SysIDs == 1..MaxSysID
Known == DOMAIN sysid
Idle == [from |-> 0, seq |-> 0, todo |-> {}, at |-> None, failed |-> "no"]
Quiet == out.todo = {}

Init ==
  /\ path = [s \in Station |-> "up"] /\ turns = 0 /\ icmp = "none"
  /\ stations = [s \in {} |-> [fails |-> 0, old |-> FALSE]]
  /\ sysid = [n \in {} |-> 0]
  /\ vs = {}
  /\ next = [i \in SysIDs |-> 0]
  /\ out = Idle
  /\ expects = [s \in Station |-> None]
  /\ gaps = {}
  /\ feed = "off" /\ live = [have |-> FALSE, up |-> FALSE, said |-> "nothing"]

-----------------------------------------------------------------------------
(* System ids.                                                             *)

Taken == {sysid[n] : n \in Known}

\* Mutant: the number in the name is taken as it is.
NamedID(n) == IF n \in Numbered THEN 1 ELSE CHOOSE i \in SysIDs \ Taken : \A j \in SysIDs \ Taken : j <= i

\* trailingSysID.
Claims(n) == IF n \in Numbered THEN {1} ELSE {}

\* SysID: the number in the name if it is free, or else the highest one that is.
FreeID(n) ==
  IF Claims(n) \ Taken # {} THEN CHOOSE i \in Claims(n) : TRUE
  ELSE CHOOSE i \in SysIDs \ Taken : \A j \in SysIDs \ Taken : j <= i

\* A node new to the bridge gets a system id for good, unless there are none left.
Assigned(n) ==
  IF n \in Known \/ Taken = SysIDs THEN sysid
  ELSE [k \in Known \cup {n} |-> IF k = n THEN FreeID(n) ELSE sysid[k]]

\* applyNodes, for one node of a snapshot.  A node that is down, or that the swarm
\* forgot so that its vehicle is pruned, keeps its system id.
ApplyNode(n) ==
  /\ Quiet
  /\ \E now \in {"forgotten", "connected", "down"} :
       /\ IF now = "forgotten" THEN UNCHANGED sysid ELSE sysid' = Assigned(n)
       /\ vs' = IF now = "connected" /\ n \in DOMAIN sysid' THEN vs \cup {n} ELSE vs \ {n}
  /\ UNCHANGED <<path, turns, icmp, stations, next, out, expects, gaps, feed, live>>

-----------------------------------------------------------------------------
(* Whom to write to.                                                       *)

\* A station that spoke less than stationTTL ago, and the configured one.
Destinations == (DOMAIN stations \cap {s \in Station : s \in DOMAIN stations => ~stations[s].old})
                  \cup ({Configured} \ {None})

\* learn: any frame that is sound makes its sender a station.
Hear(s) ==
  /\ Quiet /\ path[s] = "up"
  /\ stations' = [k \in DOMAIN stations \cup {s} |->
                    IF k \in DOMAIN stations THEN [stations[k] EXCEPT !.old = @ /\ k # s]
                    ELSE [fails |-> 0, old |-> FALSE]]
  /\ UNCHANGED <<path, turns, icmp, sysid, vs, next, out, expects, gaps, feed, live>>

\* stationTTL passes without a word from s.
FallsSilent(s) ==
  /\ s \in DOMAIN stations
  /\ stations' = [stations EXCEPT ![s].old = TRUE]
  /\ UNCHANGED <<path, turns, icmp, sysid, vs, next, out, expects, gaps, feed, live>>

PathTurns(s) ==
  /\ turns < MaxTurns /\ turns' = turns + 1
  /\ \E p \in {"up", "refusing", "cut"} \ {path[s]} : path' = [path EXCEPT ![s] = p]
  /\ UNCHANGED <<icmp, out, expects, gaps, feed, loopVars>>

IcmpArrives ==
  /\ icmp = "onway" /\ icmp' = "pending"
  /\ UNCHANGED <<path, turns, out, expects, gaps, feed, loopVars>>

-----------------------------------------------------------------------------
(* send.                                                                   *)

Watched(i) == Live \in Known /\ sysid[Live] = i

\* These stations do not get a message of i, which is no fault of its numbers.
Misses(i, who) ==
  expects' = [s \in Station |-> IF s \in who /\ Watched(i) THEN None ELSE expects[s]]

\* Mutant: one counter for all that leaves the socket.
OneCounter(i) == [j \in SysIDs |-> (next[j] + 1) % SeqSize]

\* Next: each sender has its own counter.
Counted(i) == [next EXCEPT ![i] = (@ + 1) % SeqSize]

\* A frame is encoded once, numbered once, and written to every destination, in an
\* order that is fixed in the code and any here.
Says(i) ==
  LET to == Destinations IN
    /\ stations' = [s \in {k \in DOMAIN stations : ~stations[k].old} |-> stations[s]]
    /\ IF to = {} THEN UNCHANGED <<next, out>>
       ELSE /\ next' = Counted(i)
            /\ out' = [Idle EXCEPT !.from = i, !.seq = next[i], !.todo = to]
    /\ Misses(i, Station \ to)

\* Whom a write may go to now.
Due == IF out.failed = "no" THEN out.todo ELSE {out.at}

Written(s) == out' = [out EXCEPT !.todo = @ \ {s}, !.at = None, !.failed = "no"]

\* A write is taken: it reaches the station, or provokes an ICMP error.
WriteTaken(s) ==
  /\ s \in Due /\ icmp # "pending" /\ path[s] # "cut"
  /\ Written(s)
  /\ stations' = IF s \in DOMAIN stations THEN [stations EXCEPT ![s].fails = 0] ELSE stations
  /\ icmp' = IF path[s] = "refusing" THEN "onway" ELSE icmp
  /\ gaps' = IF path[s] = "up" /\ Watched(out.from) /\ expects[s] \notin {None, out.seq}
             THEN gaps \cup {s} ELSE gaps
  /\ IF path[s] = "up" /\ Watched(out.from)
     THEN expects' = [expects EXCEPT ![s] = (out.seq + 1) % SeqSize]
     ELSE Misses(out.from, {s} \cap {k \in Station : path[k] # "up"})
  /\ UNCHANGED <<path, turns, sysid, vs, next, feed, live>>

\* onSendError: a learned station that keeps failing is dropped.
Failed(s) ==
  IF s \in DOMAIN stations /\ stations[s].fails + 1 >= MaxFails
  THEN [k \in DOMAIN stations \ {s} |-> stations[k]]
  ELSE IF s \in DOMAIN stations THEN [stations EXCEPT ![s].fails = @ + 1] ELSE stations

\* Mutant: a write that fails is not tried again.
WriteFailsOnce(s) ==
  /\ s \in Due /\ (icmp = "pending" \/ path[s] = "cut")
  /\ icmp' = IF icmp = "pending" THEN "none" ELSE icmp
  /\ Written(s) /\ stations' = Failed(s) /\ Misses(out.from, {s})
  /\ UNCHANGED <<path, turns, sysid, vs, next, gaps, feed, live>>

\* The pending error is reported by this write, whoever provoked it: once more, then it counts.
WriteFails(s) ==
  /\ s \in Due /\ (icmp = "pending" \/ path[s] = "cut")
  /\ icmp' = IF icmp = "pending" THEN "none" ELSE icmp
  /\ IF out.failed # "no"
     THEN Written(s) /\ stations' = Failed(s) /\ Misses(out.from, {s})
     ELSE /\ out' = [out EXCEPT !.at = s, !.failed = IF icmp = "pending" THEN "icmp" ELSE "cut"]
          /\ UNCHANGED <<stations, expects>>
  /\ UNCHANGED <<path, turns, sysid, vs, next, gaps, feed, live>>

\* tickStatus, tickPositions: a vehicle that is connected says how it is.
Tick(n) ==
  /\ Quiet /\ n \in vs
  /\ Says(sysid[n])
  /\ UNCHANGED <<path, turns, icmp, sysid, vs, gaps, feed, live>>

\* onEvent: an event is told by the node it is about, down or not.
OnEvent(n) ==
  /\ Quiet /\ n \in Known \ vs
  /\ Says(sysid[n])
  /\ UNCHANGED <<path, turns, icmp, sysid, vs, gaps, feed, live>>

-----------------------------------------------------------------------------
(* The live feed.                                                          *)

\* Samples arrive, or stop for StaleAfter.
FeedTurns ==
  /\ feed' = IF feed = "sending" THEN "stale" ELSE "sending"
  /\ UNCHANGED <<path, turns, icmp, out, expects, gaps, loopVars>>

\* announceLive: false when there is no connected vehicle to speak for.
Announces(said) ==
  IF Live \in vs
  THEN Says(sysid[Live]) /\ live' = [have |-> TRUE, up |-> said = "up", said |-> said]
  ELSE live' = [live EXCEPT !.have = TRUE] /\ UNCHANGED <<stations, next, out, expects>>

\* onLive: one sample.
OnLive ==
  /\ Quiet /\ feed = "sending"
  /\ IF live.up THEN UNCHANGED <<live, stations, next, out, expects>> ELSE Announces("up")
  /\ UNCHANGED <<path, turns, icmp, sysid, vs, gaps, feed>>

\* Mutant: a loss that could not be told counts as told.
ForgetsLoss ==
  /\ Quiet /\ live.have /\ live.up /\ feed = "stale"
  /\ IF Live \in vs THEN Announces("lost")
     ELSE live' = [live EXCEPT !.up = FALSE] /\ UNCHANGED <<stations, next, out, expects>>
  /\ UNCHANGED <<path, turns, icmp, sysid, vs, gaps, feed>>

\* checkLive, at every status tick.
CheckLive ==
  /\ Quiet /\ live.have /\ live.up /\ feed = "stale"
  /\ Announces("lost")
  /\ UNCHANGED <<path, turns, icmp, sysid, vs, gaps, feed>>

Next ==
  \/ \E n \in Names : ApplyNode(n) \/ Tick(n) \/ OnEvent(n)
  \/ \E s \in Station : Hear(s) \/ FallsSilent(s) \/ PathTurns(s) \/ WriteTaken(s) \/ WriteFails(s)
  \/ IcmpArrives \/ FeedTurns \/ OnLive \/ CheckLive

\* A write returns; the samples of a feed and the status ticker come round again and
\* again, but wait for the message before them, so weak fairness is not enough.
Fairness == []<>Quiet /\ SF_vars(OnLive \/ CheckLive)

Spec == Init /\ [][Next]_vars /\ Fairness

-----------------------------------------------------------------------------

TypeOK ==
  /\ path \in [Station -> {"up", "refusing", "cut"}] /\ turns \in 0..MaxTurns
  /\ icmp \in {"none", "onway", "pending"} /\ out.failed \in {"no", "icmp", "cut"}
  /\ DOMAIN stations \subseteq Station
  /\ \A s \in DOMAIN stations : stations[s].fails \in 0..(MaxFails - 1)
  /\ vs \subseteq Known
  /\ next \in [SysIDs -> 0..(SeqSize - 1)]

\* A system id means one node for as long as the bridge runs: two nodes never
\* share one, and a node that was forgotten comes back as the same vehicle
\* (Vehicles.SysID, applyNodes never releases).
OneAircraft ==
  [][\A n \in Known : n \in DOMAIN sysid' /\ sysid'[n] = sysid[n]
       /\ \A m \in DOMAIN sysid' \ {n} : sysid'[m] # sysid'[n]]_vars

\* A station that every frame of a vehicle reached sees no number skipped,
\* whatever else the bridge sends and to whom: what it reports as loss is loss
\* (send, Sequencer.Next).
NoFalseLoss == gaps = {}

\* A station that has spoken lately is not dropped because another one is dead: one of
\* the two tries of the last write failed by its own path (send's retry, onSendError).
LiveStationKept ==
  [][\A s \in DOMAIN stations :
       s \notin DOMAIN stations' =>
         stations[s].old \/ path[s] = "cut" \/ (out.at = s /\ out.failed = "cut")]_vars

FeedSaid ==
  Live \in vs => /\ feed = "stale" => live.said # "up"
                 /\ feed = "sending" => live.said = "up"

\* A feed that stays as it is, under a vehicle that stays connected, is in the
\* end what was last said of it: the loss of a feed is told even if it
\* happened while the vehicle was not there to tell it (onLive, checkLive).
FeedTold == []<>FeedSaid
=============================================================================
