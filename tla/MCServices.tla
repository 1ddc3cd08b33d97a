----------------------------- MODULE MCServices -----------------------------
(***************************************************************************)
(* The services that start and stop, for TLC, one at a time: the control   *)
(* center's server (CenterServer), a swarm node's listener and pool        *)
(* (Shutdown), the LiteWing relay (Relay), and the framed stream that the  *)
(* first two read (Framing).  They share nothing; the services that a run  *)
(* is not about stand still.                                               *)
(***************************************************************************)
EXTENDS CenterServer

CONSTANTS
  Dials, Inbound, MaxPending, EventRoom, NoOne,           \* Shutdown
  MaxLine, MaxLines, MaxDrops, MaxResets, MaxLosses,      \* Relay
  Writers, Bodies, MaxSize, MaxFrames                     \* Framing

VARIABLES
  which,                                                  \* the service of this run
  stage, accept, hangup, threadAt, sock, dials, current, closed, ended,
  snap, events, shut, replies, deaf,
  board, plugged, tty, relay, signalled, dead, chunk, line, discarding, heard, sends,
  holder, buf, begun, stream, streamEnded, reading, partial, size, read, verdict

nodeProcess == <<stage, accept, hangup, threadAt, sock, dials, current, closed, ended,
                 snap, events, shut, replies, deaf>>
relayProcess == <<board, plugged, tty, relay, signalled, dead, chunk, line, discarding,
                  heard, sends>>
framedStream == <<holder, buf, begun, stream, streamEnded, reading, partial, size, read,
                  verdict>>

N == INSTANCE Shutdown WITH Room <- EventRoom, at <- threadAt, cancelled <- ended
R == INSTANCE Relay WITH cancelled <- signalled
F == INSTANCE Framing WITH ended <- streamEnded, at <- reading, part <- partial

ASSUME ServicesAssumption ==
  N!ShutdownAssumption /\ R!RelayAssumption /\ F!FramingAssumption

\* The relay opens its port by itself: in the other services' runs it has ended.
MCInit ==
  /\ which \in {"center", "node", "relay", "stream"}
  /\ Init /\ N!Init /\ F!Init
  /\ IF which = "relay" THEN R!Init ELSE R!Ended

MCNext ==
  \/ which = "center" /\ Next /\ UNCHANGED <<which, nodeProcess, relayProcess, framedStream>>
  \/ which = "node" /\ N!Next /\ UNCHANGED <<which, vars, relayProcess, framedStream>>
  \/ which = "relay" /\ R!Next /\ UNCHANGED <<which, vars, nodeProcess, framedStream>>
  \/ which = "stream" /\ F!Next /\ UNCHANGED <<which, vars, nodeProcess, relayProcess>>

MCSpec ==
  /\ MCInit /\ [][MCNext]_<<which, vars, nodeProcess, relayProcess, framedStream>>
  /\ Fairness /\ N!Fairness /\ R!Fairness /\ F!Fairness

-----------------------------------------------------------------------------
(* What each of them promises; what stands still promises it idly.         *)

\* When a node's process returns no socket and no goroutine of it is left
\* (Shutdown; main.go run, pool.go Close).
NothingOutlives == N!TypeOK /\ N!NothingOutlives

\* However the reads were cut and the port was lost, what is forwarded is the samples
\* of the lines read, each of them whole (Relay; litewing-relay pump, sample.go).
SamplesSound == R!TypeOK /\ R!OnlyWholeSamples /\ R!ForwardsWhatItHeard

\* What is delivered is what was written, and its end is told for what it was
\* (Framing; framing.go, conn.go Classify).
FramesSound == F!TypeOK /\ F!ReadsWhatWasWritten /\ F!EndIsTold

\* What is told to stop does stop, whatever was under way: the control center, the
\* node's process, the relay; and a stream that ended, or fell silent, is found out
\* (server.go Run, main.go run of each; readLoop's deadline).
AllStop == CenterStops /\ N!ShutdownEnds /\ R!RelayEnds /\ F!EndIsNoticed
=============================================================================
