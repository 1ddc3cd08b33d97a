------------------------------ MODULE Framing ------------------------------
(***************************************************************************)
(* Length-prefixed frames on a byte stream (protocol/framing.go): several  *)
(* goroutines of the sender share one Encoder, one goroutine of the        *)
(* receiver owns the Decoder, and the stream may end, or fall silent, in   *)
(* the middle of a frame.  There is nothing in the stream that marks the   *)
(* start of a frame, so the reader is right only as long as it is on a     *)
(* boundary, and what it says of the end (Classify, network/conn.go) is    *)
(* what failure detection goes by.                                         *)
(*                                                                         *)
(* A unit of the stream is a part of a header or of a payload.  What the   *)
(* payload says is left out, except that a peer of another version, or of  *)
(* another protocol, is refused.                                           *)
(***************************************************************************)
EXTENDS Integers, Sequences, SequencesExt

CONSTANTS
  Writers,    \* goroutines that write, a frame at a time
  Bodies,     \* what is in a frame: "good", of a "newer" version, "junk", or no frame: "alien"
  MaxSize,    \* MaxFrameSize, in units
  MaxFrames,  \* bound: frames begun
  NoOne

\* What the constants are; a module that instantiates this one assumes it.
FramingAssumption ==
  /\ MaxSize \in Nat \ {0} /\ MaxFrames \in Nat
  /\ Bodies \subseteq {"good", "newer", "junk", "alien"}
  /\ NoOne \notin Writers

VARIABLES
  holder,   \* who holds Encoder.mu, or NoOne
  buf,      \* the units a writer has still to write
  begun,    \* the frames begun, in order
  stream,   \* units sent and not yet read
  ended,    \* how the stream ended: no, fin (closed or killed), silent (the host is gone)
  at,       \* the reader: in a header, in a payload, or off (it has returned)
  part,     \* the units of the header or payload read so far
  size,     \* the length the header declared
  read,     \* frames delivered, in order
  verdict   \* the Disposition the reader ended with, or none

vars == <<holder, buf, begun, stream, ended, at, part, size, read, verdict>>

HeaderSize == 2
Sizes == 1..(MaxSize + 1)
Frame == [id : 1..MaxFrames, size : Sizes, body : Bodies]
HeaderUnit(f, i) == [of |-> f.id, head |-> TRUE, pos |-> i]
BodyUnit(f, i) == [of |-> f.id, head |-> FALSE, pos |-> i]
Header(f) == [i \in 1..HeaderSize |-> HeaderUnit(f, i)]
Body(f) == [i \in 1..f.size |-> BodyUnit(f, i)]

Init ==
  /\ holder = NoOne
  /\ buf = [w \in Writers |-> <<>>]
  /\ begun = <<>> /\ stream = <<>> /\ ended = "no"
  /\ at = "header" /\ part = <<>> /\ size = 0
  /\ read = <<>> /\ verdict = "none"

-----------------------------------------------------------------------------
(* The sender.                                                             *)

\* Mutant: the lock is not taken.
BeginsUnlocked(w, n, body) ==
  /\ ended = "no" /\ buf[w] = <<>> /\ Len(begun) < MaxFrames /\ n <= MaxSize
  /\ LET f == [id |-> Len(begun) + 1, size |-> n, body |-> body] IN
       /\ begun' = Append(begun, f)
       /\ buf' = [buf EXCEPT ![w] = Header(f) \o Body(f)]
  /\ UNCHANGED <<holder, stream, ended, at, part, size, read, verdict>>

\* WriteEnvelope: an oversize envelope fails here and nothing of it is written; else
\* header and payload are one buffer, written by one Write under the lock.
Begins(w, n, body) ==
  /\ ended = "no" /\ buf[w] = <<>> /\ Len(begun) < MaxFrames /\ n <= MaxSize
  /\ holder = NoOne /\ holder' = w
  /\ LET f == [id |-> Len(begun) + 1, size |-> n, body |-> body] IN
       /\ begun' = Append(begun, f)
       /\ buf' = [buf EXCEPT ![w] = Header(f) \o Body(f)]
  /\ UNCHANGED <<stream, ended, at, part, size, read, verdict>>

\* The kernel takes what there is room for; the rest of the buffer waits.
Writes(w) ==
  /\ ended = "no" /\ buf[w] # <<>>
  /\ stream' = Append(stream, Head(buf[w]))
  /\ buf' = [buf EXCEPT ![w] = Tail(@)]
  /\ holder' = IF Len(buf[w]) = 1 THEN NoOne ELSE holder
  /\ UNCHANGED <<begun, ended, at, part, size, read, verdict>>

\* The connection is closed, or its process killed, or its host lost, anywhere in a frame.
Ends ==
  /\ ended = "no"
  /\ ended' \in {"fin", "silent"}
  /\ UNCHANGED <<holder, buf, begun, stream, at, part, size, read, verdict>>

\* What is not a header, of a frame of ours, is any length at all.
Declares(units) ==
  IF \E f \in ToSet(begun) : units = Header(f) /\ f.body # "alien"
  THEN {begun[units[1].of].size}
  ELSE 0..(MaxSize + 1)

-----------------------------------------------------------------------------
(* The reader.                                                             *)

\* What ended the reading, as the owner of the connection is told of it.
Classify == [deadline |-> "timeout", unexpectedEOF |-> "died", EOF |-> "clean",
             violation |-> "violation"]

Violates == at' = "off" /\ verdict' = Classify["violation"]

\* ReadFull: one more unit of what is being read, and not all of it yet.
ReadsOn ==
  /\ at # "off" /\ stream # <<>>
  /\ Len(part) + 1 < (IF at = "header" THEN HeaderSize ELSE size)
  /\ part' = Append(part, Head(stream)) /\ stream' = Tail(stream)
  /\ UNCHANGED <<holder, buf, begun, ended, at, size, read, verdict>>

\* The header is whole: zero and oversize are refused before a unit of the payload is read.
ReadsHeader ==
  /\ at = "header" /\ stream # <<>> /\ Len(part) + 1 = HeaderSize
  /\ stream' = Tail(stream) /\ part' = <<>>
  /\ \E n \in Declares(Append(part, Head(stream))) :
       IF n \in 1..MaxSize
       THEN size' = n /\ at' = "payload" /\ UNCHANGED verdict
       ELSE size' = 0 /\ Violates
  /\ UNCHANGED <<holder, buf, begun, ended, read>>

\* The payload is whole: delivered if it is an envelope of this version.
ReadsPayload ==
  /\ at = "payload" /\ stream # <<>> /\ Len(part) + 1 = size
  /\ stream' = Tail(stream) /\ part' = <<>> /\ size' = 0
  /\ LET units == Append(part, Head(stream))
         whole == {f \in ToSet(begun) : units = Body(f) /\ f.body = "good"} IN
       IF whole = {} THEN Violates /\ UNCHANGED read
       ELSE at' = "header" /\ read' = read \o SetToSeq(whole) /\ UNCHANGED verdict
  /\ UNCHANGED <<holder, buf, begun, ended>>

\* Mutant: an end right after a header is reported as ReadFull reports it.
EndsPlainly ==
  /\ at # "off" /\ stream = <<>> /\ ended = "fin"
  /\ at' = "off"
  /\ verdict' = Classify[IF part = <<>> THEN "EOF" ELSE "unexpectedEOF"]
  /\ UNCHANGED <<holder, buf, begun, stream, ended, part, size, read>>

\* Only on a frame boundary is the end of the stream a clean close.
ReadsEnd ==
  /\ at # "off" /\ stream = <<>> /\ ended = "fin"
  /\ at' = "off"
  /\ verdict' = Classify[IF at = "header" /\ part = <<>> THEN "EOF" ELSE "unexpectedEOF"]
  /\ UNCHANGED <<holder, buf, begun, stream, ended, part, size, read>>

\* Mutant: the deadline is set for the payload only.
TimesOutWithin ==
  /\ at = "payload" /\ stream = <<>> /\ ended # "fin"
  /\ at' = "off" /\ verdict' = Classify["deadline"]
  /\ UNCHANGED <<holder, buf, begun, stream, ended, part, size, read>>

\* The deadline set before every frame: nothing more came for IdleTimeout.
TimesOut ==
  /\ at # "off" /\ stream = <<>> /\ ended # "fin"
  /\ at' = "off" /\ verdict' = Classify["deadline"]
  /\ UNCHANGED <<holder, buf, begun, stream, ended, part, size, read>>

Next ==
  \/ \E w \in Writers : Writes(w) \/ \E n \in Sizes, body \in Bodies : Begins(w, n, body)
  \/ Ends
  \/ ReadsOn \/ ReadsHeader \/ ReadsPayload \/ ReadsEnd \/ TimesOut

\* The reader runs; only a stream that has ended is sure to bring its deadline.
Fairness ==
  /\ WF_vars(ReadsOn) /\ WF_vars(ReadsHeader) /\ WF_vars(ReadsPayload) /\ WF_vars(ReadsEnd)
  /\ WF_vars(TimesOut /\ ended = "silent")

Spec == Init /\ [][Next]_vars /\ Fairness

-----------------------------------------------------------------------------

TypeOK ==
  /\ holder \in Writers \cup {NoOne}
  /\ \A i \in DOMAIN begun : begun[i] \in Frame /\ begun[i].id = i
  /\ at \in {"header", "payload", "off"}
  /\ size \in 0..MaxSize
  /\ verdict \in {"none", "clean", "died", "violation", "timeout"}

Good(f) == f.body = "good"
Unsent == {f \in ToSet(begun) : \E w \in Writers : buf[w] = Header(f) \o Body(f)}
Broken == \E w \in Writers : buf[w] # <<>> /\ buf[w][1] # HeaderUnit(begun[buf[w][1].of], 1)

\* However writers interleave and wherever the stream is cut, what is delivered
\* is what was written, whole and in order, up to the first frame that is
\* refused: no message is ever made up of parts of others
\* (WriteEnvelope's lock and single write, ReadFrame's refusal to resynchronise).
ReadsWhatWasWritten ==
  /\ IsPrefix(read, begun)
  /\ verdict = "violation" => Len(read) < Len(begun) /\ ~Good(begun[Len(read) + 1])

\* The end is told for what it was: a close between two frames is clean, and the
\* peer is found dead only if it left a frame unfinished, the length of one
\* included (ReadFrame's ErrUnexpectedEOF, Classify).
EndIsTold ==
  /\ verdict = "clean" => ~Broken /\ ToSet(read) = ToSet(begun) \ Unsent
  /\ verdict = "died" => Broken \/ \E f \in ToSet(begun) : f.body = "alien"

\* A stream that ends, or falls silent without an end, is found out
\* (readLoop's deadline before every frame).
EndIsNoticed == ended # "no" ~> verdict # "none"
=============================================================================
