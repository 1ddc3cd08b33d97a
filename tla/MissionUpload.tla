--------------------------- MODULE MissionUpload ---------------------------
(***************************************************************************)
(* The upload half of pkg/mavlink/mission.go: the request and reply        *)
(* dialogue by which a ground station stores a mission on one vehicle,     *)
(* over a link that loses frames.  The bridge asks for one item at a time, *)
(* stages what it gets, and stores the mission when the last item is in.   *)
(* The station is external: it announces a plan, answers requests from the *)
(* plan it is sending now, repeats its last frame while nothing comes      *)
(* back, and stops at any MISSION_ACK.                                     *)
(*                                                                         *)
(* Fence and rally dialogues, and downloads, are answered from what is     *)
(* stored and change nothing; they are left out.                           *)
(***************************************************************************)
EXTENDS Naturals, Sequences, FiniteSets

CONSTANTS
  Stations,     \* the ground stations
  Plans,        \* what they upload: sequences of items, no item in two plans
  Bad,          \* an item in a frame of reference the bridge cannot project
  MaxItems,     \* maxMissionItems
  None,         \* no transfer, no plan, nothing sent
  MaxLosses,    \* frames lost
  MaxUploads    \* uploads and clears begun

VARIABLES
  upload,       \* uploads[sysid]: the transfer in flight
  stored,       \* missions[sysid].items
  toBridge,     \* toBridge[g]: frames from station g, oldest first
  toStation,    \* toStation[g]: frames to station g
  sending,      \* sending[g]: the plan g is uploading (external)
  last,         \* last[g]: the frame g repeats (external)
  losses, begun

bridge == <<upload, stored>>
station == <<sending, last>>
vars == <<upload, stored, toBridge, toStation, sending, last, losses, begun>>

Count(n) == [type |-> "MISSION_COUNT", count |-> n]
Item(i, it) == [type |-> "MISSION_ITEM_INT", seq |-> i, item |-> it]
Request(i) == [type |-> "MISSION_REQUEST_INT", seq |-> i]
Ack(result) == [type |-> "MISSION_ACK", result |-> result]

\* The bridge takes station g's oldest frame and answers with one of its own.
Answer(g, reply) ==
  /\ toBridge' = [toBridge EXCEPT ![g] = Tail(@)]
  /\ toStation' = [toStation EXCEPT ![g] = Append(@, reply)]

\* Mutant of NewUpload: a second count takes up the transfer in flight.
ResumedUpload(g, n) ==
  [count |-> n, items |-> IF upload = None THEN <<>> ELSE upload.items, gcs |-> g]

NewUpload(g, n) == [count |-> n, items |-> <<>>, gcs |-> g]

\* Mutant of NoUpload: an item outside a transfer is ignored.
Ignored(g) == toBridge' = [toBridge EXCEPT ![g] = Tail(@)] /\ UNCHANGED toStation

\* An item outside a transfer: an ACK ends the exchange.
NoUpload(g) == Answer(g, Ack("ERROR"))

\* acceptItem: skipped commands are fine, an unknown coordinate frame is not.
Acceptable(m) == m.item # Bad

\* up.next: items are numbered from 0.
NextSeq(up) == Len(up.items)

---------------------------------------------------------------------------
(* The bridge.                                                             *)

onMissionCount(g) ==
  /\ toBridge[g] # <<>> /\ Head(toBridge[g]).type = "MISSION_COUNT"
  /\ LET n == Head(toBridge[g]).count IN
       \/ n > MaxItems /\ Answer(g, Ack("NO_SPACE")) /\ UNCHANGED bridge
       \/ /\ n = 0 /\ Answer(g, Ack("ACCEPTED"))
          /\ stored' = <<>> /\ upload' = None
       \/ /\ n \in 1..MaxItems /\ Answer(g, Request(0))
          /\ upload' = NewUpload(g, n)
          /\ UNCHANGED stored
  /\ UNCHANGED <<station, losses, begun>>

onMissionItemInt(g) ==
  /\ toBridge[g] # <<>> /\ Head(toBridge[g]).type = "MISSION_ITEM_INT"
  /\ LET m == Head(toBridge[g]) IN
       \/ upload = None /\ NoUpload(g) /\ UNCHANGED bridge
       \/ /\ upload # None /\ m.seq < NextSeq(upload)
          /\ Answer(g, Request(NextSeq(upload))) /\ UNCHANGED bridge
       \/ /\ upload # None /\ m.seq > NextSeq(upload)
          /\ Answer(g, Ack("INVALID_SEQUENCE"))
          /\ upload' = None /\ UNCHANGED stored
       \/ /\ upload # None /\ m.seq = NextSeq(upload) /\ ~Acceptable(m)
          /\ Answer(g, Ack("UNSUPPORTED_FRAME"))
          /\ upload' = None /\ UNCHANGED stored
       \/ /\ upload # None /\ m.seq = NextSeq(upload) /\ Acceptable(m)
          /\ LET items == Append(upload.items, m.item) IN
               IF Len(items) < upload.count
               THEN /\ Answer(g, Request(Len(items)))
                    /\ upload' = [upload EXCEPT !.items = items] /\ UNCHANGED stored
               ELSE /\ Answer(g, Ack("ACCEPTED"))
                    /\ upload' = None /\ stored' = items
  /\ UNCHANGED <<station, losses, begun>>

\* The transfer has made no progress for MissionUploadTimeout.
expireUploads ==
  /\ upload # None
  /\ upload' = None
  /\ toStation' = [toStation EXCEPT ![upload.gcs] = Append(@, Ack("OPERATION_CANCELLED"))]
  /\ UNCHANGED <<stored, toBridge, station, losses, begun>>

---------------------------------------------------------------------------
(* The stations and the link.                                              *)

Send(g, f) == /\ toBridge' = [toBridge EXCEPT ![g] = Append(@, f)]
              /\ last' = [last EXCEPT ![g] = f]

Quiet(g) == toBridge[g] = <<>> /\ toStation[g] = <<>>

\* A station announces a plan, perhaps in the middle of another it has given up
\* on: nothing of that one is left on the link.
Begin(g, p) ==
  /\ begun < MaxUploads /\ begun' = begun + 1
  /\ Quiet(g)
  /\ sending' = [sending EXCEPT ![g] = p]
  /\ Send(g, Count(Len(p)))
  /\ UNCHANGED <<bridge, toStation, losses>>

\* It answers a request from the plan it is sending, and stops at an ACK.
Hear(g) ==
  /\ toStation[g] # <<>>
  /\ toStation' = [toStation EXCEPT ![g] = Tail(@)]
  /\ LET f == Head(toStation[g])
         asked == f.type = "MISSION_REQUEST_INT"
         able == sending[g] # None /\ f.seq < Len(sending[g])
     IN \/ /\ asked /\ able
           /\ Send(g, Item(f.seq, sending[g][f.seq + 1]))
           /\ UNCHANGED sending
        \/ /\ asked /\ ~able
           /\ UNCHANGED <<toBridge, station>>
        \/ /\ f.type = "MISSION_ACK"
           /\ sending' = [sending EXCEPT ![g] = None]
           /\ last' = [last EXCEPT ![g] = None]
           /\ UNCHANGED toBridge
  /\ UNCHANGED <<bridge, losses, begun>>

Repeat(g) ==
  /\ sending[g] # None /\ Quiet(g)
  /\ Send(g, last[g])
  /\ UNCHANGED <<bridge, toStation, sending, losses, begun>>

\* MISSION_CLEAR_ALL: the mission and the transfer in flight are forgotten.
onMissionClearAll ==
  /\ begun < MaxUploads /\ begun' = begun + 1
  /\ upload' = None /\ stored' = <<>>
  /\ UNCHANGED <<toBridge, toStation, station, losses>>

Lose(g) ==
  /\ losses < MaxLosses /\ losses' = losses + 1
  /\ \/ toBridge[g] # <<>> /\ toBridge' = [toBridge EXCEPT ![g] = Tail(@)] /\ UNCHANGED toStation
     \/ toStation[g] # <<>> /\ toStation' = [toStation EXCEPT ![g] = Tail(@)] /\ UNCHANGED toBridge
  /\ UNCHANGED <<bridge, station, begun>>

---------------------------------------------------------------------------

Init ==
  /\ upload = None /\ stored = <<>>
  /\ toBridge = [g \in Stations |-> <<>>] /\ toStation = [g \in Stations |-> <<>>]
  /\ sending = [g \in Stations |-> None] /\ last = [g \in Stations |-> None]
  /\ losses = 0 /\ begun = 0

Next ==
  \/ \E g \in Stations :
       \/ onMissionCount(g) \/ onMissionItemInt(g) \/ Hear(g) \/ Repeat(g) \/ Lose(g)
       \/ \E p \in Plans : Begin(g, p)
  \/ expireUploads \/ onMissionClearAll

\* A frame that is not lost is handled, a station left without an answer repeats
\* itself, and the status ticker abandons a transfer that has stalled.
Fairness ==
  /\ \A g \in Stations : /\ []<>(toBridge[g] = <<>>)
                         /\ []<>(toStation[g] = <<>>)
                         /\ []<>~(sending[g] # None /\ Quiet(g))
  /\ []<>~(upload # None /\ \A g \in Stations : Quiet(g) /\ sending[g] = None)

Spec == Init /\ [][Next]_vars /\ Fairness

---------------------------------------------------------------------------
(* Properties.                                                             *)

\* The vehicle holds one whole plan some station uploaded, or nothing: no hole,
\* no half, no mix with a transfer that was lost, repeated or begun again.
InstalledIsUploaded == stored \in Plans \cup {<<>>}

\* No station waits for an ACK and no transfer is open.
ExchangeOver == upload = None /\ \A g \in Stations : sending[g] = None

\* Whatever is lost, the bridge ends the exchange: a station that uploads hears
\* an ACK at last, and no transfer stays open.
ExchangeEnds == []<>ExchangeOver
=============================================================================
