----------------------------- MODULE FleetProofs -----------------------------
(***************************************************************************)
(* The MAVLink bridge, in four parts that share nothing.                   *)
(*                                                                         *)
(* MissionUpload with one station: for all plans, limits, losses and       *)
(* repetitions, what the vehicle holds is one whole plan.  The invariant   *)
(* is that everything on the link belongs to one plan, and that the        *)
(* bridge, unless it has yet to hear of that plan, stages a prefix of it.  *)
(*                                                                         *)
(* MissionFlight: a vehicle flies one item, items are taken up in order,   *)
(* and who flies on keeps its item.  A pass over the missions is followed  *)
(* owner by owner, and a mission's turn item by item: what has had its     *)
(* turn has been served, what has not is untouched.                        *)
(*                                                                         *)
(* Motion: a vehicle's home moves only to where an operator put the node.  *)
(* The invariant is that a position the bridge wrote, in the hub or in a   *)
(* snapshot the syncer carries, is the one the vehicle remembers.          *)
(*                                                                         *)
(* GroundLink: ids, numbers and stations.  The invariant says of each      *)
(* station which number of the live vehicle it expects, before and after   *)
(* the write of a message that is on its way.                              *)
(***************************************************************************)
EXTENDS MCFleet, SequenceTheorems, WellFoundedInduction, TLAPS

-----------------------------------------------------------------------------
(* The upload of a mission (MissionUpload).                                *)

Items(p) == {Item(i, p[i + 1]) : i \in 0..(Len(p) - 1)}
Frames(p) == {Count(Len(p))} \cup Items(p)
Results == {"ACCEPTED", "ERROR", "NO_SPACE", "INVALID_SEQUENCE", "UNSUPPORTED_FRAME",
            "OPERATION_CANCELLED"}
Acks == [type: {"MISSION_ACK"}, result: Results]
Answers == [type: {"MISSION_REQUEST_INT"}, seq: Nat] \cup Acks

\* The bridge has not heard of p: p was announced, and nothing was said of its items.
Unheard(g, p) ==
  /\ toBridge[g] \in Seq({Count(Len(p))})
  /\ toStation[g] \in Seq(Acks)
  /\ sending[g] # None => last[g] = Count(Len(p))

\* The transfer in flight is of p, and has its first n items.
Staged(g, p, n) == upload = [count |-> Len(p), items |-> SubSeq(p, 1, n), gcs |-> g]
Stages(g, p) == upload = None \/ \E n \in 0..(Len(p) - 1) : Staged(g, p, n)

\* Both sides speak of p.
Dialogue(g, p) ==
  /\ sending \in [{g} -> {None, p}]
  /\ last \in [{g} -> Frames(p) \cup {None}]
  /\ sending[g] # None => last[g] \in Frames(p)
  /\ toBridge \in [{g} -> Seq(Frames(p))]
  /\ toStation \in [{g} -> Seq(Answers)]
  /\ Unheard(g, p) \/ Stages(g, p)

PlansOrNone == Plans \cup {<<>>}
UploadInv(g) == InstalledIsUploaded /\ \E p \in PlansOrNone : Dialogue(g, p)

-----------------------------------------------------------------------------
\* Sequences and frames.

LEMMA Taken ==
  ASSUME NEW S, NEW s \in Seq(S), s # <<>>
  PROVE  Head(s) \in S /\ Tail(s) \in Seq(S)
BY HeadTailProperties

LEMMA Wider ==
  ASSUME NEW S, NEW T, S \subseteq T, NEW s \in Seq(S)
  PROVE  s \in Seq(T)
OBVIOUS

LEMMA Prefixes ==
  ASSUME NEW S, NEW p \in Seq(S), NEW n \in 0..(Len(p) - 1)
  PROVE  /\ Append(SubSeq(p, 1, n), p[n + 1]) = SubSeq(p, 1, n + 1)
         /\ Len(SubSeq(p, 1, n)) = n /\ Len(SubSeq(p, 1, n + 1)) = n + 1
         /\ SubSeq(p, 1, Len(p)) = p /\ SubSeq(p, 1, 0) = <<>>
<1>1. /\ SubSeq(p, 1, n) \in Seq(S) /\ Len(SubSeq(p, 1, n)) = n
      /\ \A i \in 1..n : SubSeq(p, 1, n)[i] = p[i]
  BY SubSeqProperties, LenProperties
<1>2. /\ SubSeq(p, 1, n + 1) \in Seq(S) /\ Len(SubSeq(p, 1, n + 1)) = n + 1
      /\ \A i \in 1..(n + 1) : SubSeq(p, 1, n + 1)[i] = p[i]
  BY SubSeqProperties, LenProperties
<1>3. /\ SubSeq(p, 1, Len(p)) \in Seq(S) /\ Len(SubSeq(p, 1, Len(p))) = Len(p)
      /\ \A i \in 1..Len(p) : SubSeq(p, 1, Len(p))[i] = p[i]
  BY SubSeqProperties, LenProperties
<1>4. p[n + 1] \in S
  BY ElementOfSeq, LenProperties
<1>5. /\ Append(SubSeq(p, 1, n), p[n + 1]) \in Seq(S)
      /\ Len(Append(SubSeq(p, 1, n), p[n + 1])) = n + 1
      /\ \A i \in 1..(n + 1) : Append(SubSeq(p, 1, n), p[n + 1])[i] = p[i]
  BY <1>1, <1>4, AppendProperties
<1>6. Append(SubSeq(p, 1, n), p[n + 1]) = SubSeq(p, 1, n + 1)
  BY <1>2, <1>5, SeqEqual
<1>7. SubSeq(p, 1, Len(p)) = p
  BY <1>3, SeqEqual
<1> QED
  BY <1>1, <1>2, <1>6, <1>7

LEMMA FrameTypes ==
  ASSUME NEW p
  PROVE  /\ \A f \in Frames(p) : f.type = "MISSION_COUNT" => f = Count(Len(p)) /\ f.count = Len(p)
         /\ \A f \in Frames(p) : f.type = "MISSION_ITEM_INT" =>
              \E i \in 0..(Len(p) - 1) : f.seq = i /\ f.item = p[i + 1]
         /\ Count(Len(p)).type = "MISSION_COUNT"
BY DEF Frames, Items, Count, Item

LEMMA AnswerTypes ==
  /\ \A f \in Answers : f.type = "MISSION_REQUEST_INT" => f.seq \in Nat
  /\ \A f \in Acks : f.type = "MISSION_ACK"
  /\ \A r \in Results : Ack(r) \in Acks /\ Ack(r) \in Answers
  /\ \A i \in Nat : Request(i) \in Answers
  /\ Acks \subseteq Answers
BY DEF Answers, Acks, Ack, Request

-----------------------------------------------------------------------------
\* Every step keeps the invariant: the steps of the one station g, and of the bridge.

\* With one station an EXCEPT at it is the whole function.
LEMMA OnlyStation ==
  ASSUME NEW g, NEW S, NEW T, NEW s \in [{g} -> S], NEW x \in T
  PROVE  [s EXCEPT ![g] = x] \in [{g} -> T] /\ [s EXCEPT ![g] = x][g] = x
OBVIOUS

LEMMA Told ==
  ASSUME NEW s \in Seq(Answers), NEW r \in Results
  PROVE  /\ Append(s, Ack(r)) \in Seq(Answers)
         /\ s \in Seq(Acks) => Append(s, Ack(r)) \in Seq(Acks)
BY AnswerTypes, AppendProperties

\* The bridge took a frame of p and answered it.
LEMMA Answered ==
  ASSUME NEW g, NEW p, Dialogue(g, p), toBridge[g] # <<>>, NEW reply \in Answers, Answer(g, reply)
  PROVE  /\ toBridge' \in [{g} -> Seq(Frames(p))] /\ toBridge'[g] = Tail(toBridge[g])
         /\ toStation' \in [{g} -> Seq(Answers)] /\ toStation'[g] = Append(toStation[g], reply)
         /\ Head(toBridge[g]) \in Frames(p)
<1>1. toBridge[g] \in Seq(Frames(p)) /\ toStation[g] \in Seq(Answers)
  BY DEF Dialogue
<1>2. Head(toBridge[g]) \in Frames(p) /\ Tail(toBridge[g]) \in Seq(Frames(p))
  BY <1>1, Taken
<1>3. Append(toStation[g], reply) \in Seq(Answers)
  BY <1>1, AppendProperties
<1> QED
  BY <1>2, <1>3, OnlyStation DEF Answer, Dialogue

LEMMA CountStep ==
  ASSUME NEW S, NEW p \in Seq(S), NEW g, Dialogue(g, p), onMissionCount(g)
  PROVE  Dialogue(g, p)' /\ stored' \in {stored, <<>>}
<1> DEFINE n == Head(toBridge[g]).count
<1>1. toBridge[g] # <<>> /\ UNCHANGED <<sending, last>>
  BY DEF onMissionCount, station
<1>2. \/ \E r \in Results : Answer(g, Ack(r)) /\ UNCHANGED <<upload, stored>>
      \/ \E r \in Results : Answer(g, Ack(r)) /\ upload' = None /\ stored' = <<>>
      \/ /\ Answer(g, Request(0)) /\ UNCHANGED stored
         /\ n \in 1..MaxItems /\ upload' = NewUpload(g, n)
  <2>1. "NO_SPACE" \in Results /\ "ACCEPTED" \in Results
    BY DEF Results
  <2> QED
    BY <2>1 DEF onMissionCount, bridge
<1>3. ASSUME NEW r \in Results, Answer(g, Ack(r)), upload' = upload \/ upload' = None
      PROVE  Dialogue(g, p)'
  <2>1. /\ toBridge' \in [{g} -> Seq(Frames(p))] /\ toBridge'[g] = Tail(toBridge[g])
        /\ toStation' \in [{g} -> Seq(Answers)] /\ toStation'[g] = Append(toStation[g], Ack(r))
    BY <1>1, <1>3, Answered, AnswerTypes
  <2>2. Unheard(g, p) => Unheard(g, p)'
    <3>1. Tail(toBridge[g]) \in Seq({Count(Len(p))})
            \/ toBridge[g] \notin Seq({Count(Len(p))})
      BY <1>1, Taken
    <3>2. toStation[g] \in Seq(Acks) => Append(toStation[g], Ack(r)) \in Seq(Acks)
      <4>1. toStation[g] \in Seq(Answers)
        BY DEF Dialogue
      <4> QED
        BY <1>3, <4>1, Told
    <3> QED
      BY <1>1, <2>1, <3>1, <3>2 DEF Unheard
  <2>3. Stages(g, p) => Stages(g, p)'
    BY <1>3 DEF Stages, Staged
  <2> QED
    BY <1>1, <2>1, <2>2, <2>3 DEF Dialogue
<1>4. ASSUME Answer(g, Request(0)), n \in 1..MaxItems, upload' = NewUpload(g, n)
      PROVE  Dialogue(g, p)'
  <2>1. /\ toBridge' \in [{g} -> Seq(Frames(p))] /\ toStation' \in [{g} -> Seq(Answers)]
        /\ Head(toBridge[g]) \in Frames(p)
    BY <1>1, <1>4, Answered, AnswerTypes
  <2>2. n = Len(p)
    BY <2>1, FrameTypes DEF onMissionCount
  <2>3. Len(p) \in Nat /\ 0 \in 0..(Len(p) - 1)
    BY <1>4, <2>2, LenProperties
  <2>4. Staged(g, p, 0)'
    BY <1>4, <2>2, <2>3, Prefixes DEF NewUpload, Staged
  <2> QED
    BY <1>1, <2>1, <2>3, <2>4 DEF Dialogue, Stages
<1> QED
  BY <1>2, <1>3, <1>4

LEMMA ItemStep ==
  ASSUME NEW S, NEW p \in Seq(S), NEW g, Dialogue(g, p), onMissionItemInt(g)
  PROVE  Dialogue(g, p)' /\ stored' \in {stored, p}
<1> DEFINE m == Head(toBridge[g])
<1>1. /\ toBridge[g] # <<>> /\ m.type = "MISSION_ITEM_INT" /\ UNCHANGED <<sending, last>>
      /\ \/ upload = None /\ Answer(g, Ack("ERROR")) /\ UNCHANGED <<upload, stored>>
         \/ /\ upload # None /\ m.seq < NextSeq(upload)
            /\ Answer(g, Request(NextSeq(upload))) /\ UNCHANGED <<upload, stored>>
         \/ /\ upload # None /\ upload' = None /\ UNCHANGED stored
            /\ \E r \in Results : Answer(g, Ack(r))
         \/ /\ upload # None /\ m.seq = NextSeq(upload)
            /\ LET items == Append(upload.items, m.item) IN
                 IF Len(items) < upload.count
                 THEN /\ Answer(g, Request(Len(items)))
                      /\ upload' = [upload EXCEPT !.items = items] /\ UNCHANGED stored
                 ELSE /\ Answer(g, Ack("ACCEPTED"))
                      /\ upload' = None /\ stored' = items
  <2>1. {"INVALID_SEQUENCE", "UNSUPPORTED_FRAME"} \subseteq Results
    BY DEF Results
  <2> QED
    BY <2>1 DEF onMissionItemInt, NoUpload, station, bridge
<1>2. m \in Frames(p)
  BY <1>1, Taken DEF Dialogue
<1>3. Stages(g, p)
  <2>1. toBridge[g] \in Seq({Count(Len(p))}) => m = Count(Len(p))
    BY <1>1, Taken
  <2>2. ~Unheard(g, p)
    BY <1>1, <2>1, FrameTypes DEF Unheard
  <2> QED
    BY <2>2 DEF Dialogue
<1>4. ASSUME NEW reply \in Answers, Answer(g, reply), Stages(g, p)'
      PROVE  Dialogue(g, p)'
  BY <1>1, <1>4, Answered DEF Dialogue
<1>5. (\A r \in Results : Ack(r) \in Answers) /\ {"ERROR", "ACCEPTED"} \subseteq Results
  BY AnswerTypes DEF Results
<1>6. PICK i \in 0..(Len(p) - 1) : m.seq = i /\ m.item = p[i + 1]
  BY <1>1, <1>2, FrameTypes
<1> HIDE DEF m
<1>7. CASE upload = None /\ Answer(g, Ack("ERROR")) /\ UNCHANGED <<upload, stored>>
  <2>1. Stages(g, p)'
    BY <1>7 DEF Stages
  <2> QED
    BY <1>4, <1>5, <1>7, <2>1
<1>8. CASE /\ upload # None /\ upload' = None /\ UNCHANGED stored
           /\ \E r \in Results : Answer(g, Ack(r))
  <2>1. Stages(g, p)'
    BY <1>8 DEF Stages
  <2> QED
    BY <1>4, <1>5, <1>8, <2>1
<1>9. ASSUME upload # None
      PROVE  \E n \in 0..(Len(p) - 1) :
               /\ Staged(g, p, n) /\ NextSeq(upload) = n /\ Len(p) \in Nat
               /\ upload.count = Len(p) /\ upload.items = SubSeq(p, 1, n)
  <2>1. PICK n \in 0..(Len(p) - 1) : Staged(g, p, n)
    BY <1>3, <1>9 DEF Stages
  <2> QED
    BY <2>1, Prefixes, LenProperties DEF Staged, NextSeq
<1>10. CASE /\ upload # None /\ m.seq < NextSeq(upload)
            /\ Answer(g, Request(NextSeq(upload))) /\ UNCHANGED <<upload, stored>>
  <2>1. NextSeq(upload) \in Nat
    BY <1>9, <1>10
  <2>2. Request(NextSeq(upload)) \in Answers
    BY <2>1, AnswerTypes
  <2>3. Stages(g, p)'
    BY <1>3, <1>10 DEF Stages, Staged
  <2> QED
    BY <1>4, <1>10, <2>2, <2>3
<1>11. CASE /\ upload # None /\ m.seq = NextSeq(upload)
            /\ LET items == Append(upload.items, m.item) IN
                 IF Len(items) < upload.count
                 THEN /\ Answer(g, Request(Len(items)))
                      /\ upload' = [upload EXCEPT !.items = items] /\ UNCHANGED stored
                 ELSE /\ Answer(g, Ack("ACCEPTED"))
                      /\ upload' = None /\ stored' = items
  <2>1. PICK n \in 0..(Len(p) - 1) :
          /\ Staged(g, p, n) /\ NextSeq(upload) = n /\ Len(p) \in Nat
          /\ upload.count = Len(p) /\ upload.items = SubSeq(p, 1, n)
    BY <1>9, <1>11
  <2>2. m.item = p[n + 1]
    BY <1>6, <1>11, <2>1
  <2>3. PICK items : items = SubSeq(p, 1, n + 1)
    OBVIOUS
  <2>4. Append(upload.items, m.item) = items /\ Len(items) = n + 1
    BY <2>1, <2>2, <2>3, Prefixes
  <2>5. IF n + 1 < Len(p)
        THEN /\ Answer(g, Request(n + 1))
             /\ upload' = [upload EXCEPT !.items = items] /\ UNCHANGED stored
        ELSE /\ Answer(g, Ack("ACCEPTED"))
             /\ upload' = None /\ stored' = items
    BY <1>11, <2>1, <2>4
  <2>6. CASE n + 1 < Len(p)
    <3>1. upload' = [count |-> Len(p), items |-> items, gcs |-> g]
      BY <2>1, <2>5, <2>6 DEF Staged
    <3>2. Staged(g, p, n + 1)' /\ n + 1 \in 0..(Len(p) - 1)
      BY <2>1, <2>3, <2>6, <3>1 DEF Staged
    <3>3. Request(n + 1) \in Answers
      BY <3>2, AnswerTypes
    <3>4. Stages(g, p)'
      BY <3>2 DEF Stages
    <3> QED
      BY <1>4, <2>5, <2>6, <3>3, <3>4
  <2>7. CASE ~(n + 1 < Len(p))
    <3>1. n + 1 = Len(p)
      BY <2>1, <2>7
    <3>2. stored' = p
      BY <2>3, <2>5, <2>7, <3>1, Prefixes
    <3>3. Stages(g, p)'
      BY <2>5, <2>7 DEF Stages
    <3> QED
      BY <1>4, <1>5, <2>5, <2>7, <3>2, <3>3
  <2> QED
    BY <2>6, <2>7
<1> QED
  BY <1>1, <1>7, <1>8, <1>10, <1>11

LEMMA ExpireStep ==
  ASSUME NEW p, NEW g, Dialogue(g, p), expireUploads
  PROVE  Dialogue(g, p)' /\ UNCHANGED stored
<1>1. upload' = None /\ UNCHANGED <<toBridge, sending, last, stored>>
  BY DEF expireUploads, station
<1>2. toStation' \in [{g} -> Seq(Answers)]
  <2>1. "OPERATION_CANCELLED" \in Results
    BY DEF Results
  <2>2. Append(toStation[g], Ack("OPERATION_CANCELLED")) \in Seq(Answers)
    <3>1. toStation[g] \in Seq(Answers)
      BY DEF Dialogue
    <3> QED
      BY <2>1, <3>1, Told
  <2> QED
    BY <2>2 DEF expireUploads, Dialogue
<1> QED
  BY <1>1, <1>2 DEF Dialogue, Stages

LEMMA HearStep ==
  ASSUME NEW S, NEW p \in Seq(S), NEW g, Dialogue(g, p), Hear(g)
  PROVE  Dialogue(g, p)' /\ UNCHANGED stored
<1> DEFINE f == Head(toStation[g])
<1>1. /\ toStation[g] # <<>> /\ UNCHANGED <<upload, stored>>
      /\ toStation' = [toStation EXCEPT ![g] = Tail(@)]
  BY DEF Hear, bridge
<1>2. f \in Answers /\ Tail(toStation[g]) \in Seq(Answers)
  BY <1>1, Taken DEF Dialogue
<1>3. toStation' \in [{g} -> Seq(Answers)] /\ toStation'[g] = Tail(toStation[g])
  BY <1>1, <1>2, OnlyStation DEF Dialogue
<1>4. Stages(g, p) => Stages(g, p)'
  BY <1>1 DEF Stages, Staged
<1>5. Unheard(g, p) => f.type = "MISSION_ACK" /\ toStation'[g] \in Seq(Acks)
  BY <1>1, <1>3, Taken, AnswerTypes DEF Unheard
<1>6. CASE f.type = "MISSION_REQUEST_INT"
  <2>1. Stages(g, p)
    BY <1>5, <1>6 DEF Dialogue
  <2>2. CASE UNCHANGED <<toBridge, station>>
    <3>1. UNCHANGED <<toBridge, sending, last>>
      BY <2>2 DEF station
    <3> QED
      BY <1>1, <1>3, <1>4, <2>1, <3>1 DEF Dialogue
  <2>3. CASE /\ sending[g] # None /\ f.seq < Len(sending[g]) /\ UNCHANGED sending
             /\ Send(g, Item(f.seq, sending[g][f.seq + 1]))
    <3>1. sending[g] = p /\ f.seq \in 0..(Len(p) - 1)
      BY <1>2, <1>6, <2>3, AnswerTypes, LenProperties DEF Dialogue
    <3>2. Item(f.seq, sending[g][f.seq + 1]) \in Frames(p)
      BY <3>1 DEF Frames, Items
    <3> HIDE DEF f
    <3>3. PICK x \in Frames(p) : x = Item(f.seq, sending[g][f.seq + 1])
      BY <3>2
    <3>4. Append(toBridge[g], x) \in Seq(Frames(p))
      BY AppendProperties DEF Dialogue
    <3>5. toBridge' \in [{g} -> Seq(Frames(p))]
      BY <2>3, <3>3, <3>4, OnlyStation DEF Dialogue, Send
    <3>6. last' \in [{g} -> Frames(p) \cup {None}] /\ last'[g] = x
      BY <2>3, <3>3 DEF Dialogue, Send
    <3>7. UNCHANGED sending
      BY <2>3
    <3> QED
      BY <1>1, <1>3, <1>4, <2>1, <3>5, <3>6, <3>7 DEF Dialogue
  <2> QED
    BY <1>6, <2>2, <2>3 DEF Hear, station
<1>7. CASE f.type = "MISSION_ACK" /\ f.type # "MISSION_REQUEST_INT"
  <2>1. /\ UNCHANGED toBridge /\ sending' = [sending EXCEPT ![g] = None]
        /\ last' = [last EXCEPT ![g] = None]
    BY <1>7 DEF Hear
  <2>2. /\ sending' \in [{g} -> {None, p}] /\ sending'[g] = None
        /\ last' \in [{g} -> Frames(p) \cup {None}] /\ last'[g] = None
    BY <2>1 DEF Dialogue
  <2>3. Unheard(g, p) => Unheard(g, p)'
    BY <1>5, <2>1, <2>2 DEF Unheard
  <2> QED
    BY <1>1, <1>3, <1>4, <2>1, <2>2, <2>3 DEF Dialogue
<1>8. f.type = "MISSION_REQUEST_INT" \/ f.type = "MISSION_ACK"
  BY DEF Hear
<1> QED
  BY <1>1, <1>6, <1>7, <1>8

LEMMA RepeatStep ==
  ASSUME NEW p, NEW g, Dialogue(g, p), Repeat(g)
  PROVE  Dialogue(g, p)' /\ UNCHANGED stored
<1>1. /\ sending[g] # None /\ UNCHANGED <<upload, stored, toStation, sending>>
      /\ toBridge' = [toBridge EXCEPT ![g] = Append(@, last[g])]
      /\ last' = [last EXCEPT ![g] = last[g]]
  BY DEF Repeat, Send, bridge
<1>2. last[g] \in Frames(p) /\ UNCHANGED last
  BY <1>1 DEF Dialogue
<1>3. Append(toBridge[g], last[g]) \in Seq(Frames(p))
  BY <1>2, AppendProperties DEF Dialogue
<1>4. toBridge' \in [{g} -> Seq(Frames(p))] /\ toBridge'[g] = Append(toBridge[g], last[g])
  BY <1>1, <1>3, OnlyStation DEF Dialogue
<1>5. Stages(g, p) => Stages(g, p)'
  BY <1>1 DEF Stages, Staged
<1>6. Unheard(g, p) => Unheard(g, p)'
  <2> SUFFICES ASSUME Unheard(g, p) PROVE Unheard(g, p)'
    OBVIOUS
  <2>1. last[g] = Count(Len(p))
    BY <1>1 DEF Unheard
  <2>2. Append(toBridge[g], last[g]) \in Seq({Count(Len(p))})
    BY <2>1, AppendProperties DEF Unheard
  <2> QED
    BY <1>1, <1>2, <1>4, <2>2 DEF Unheard
<1> QED
  BY <1>1, <1>2, <1>4, <1>5, <1>6 DEF Dialogue

LEMMA LoseStep ==
  ASSUME NEW p, NEW g, Dialogue(g, p), Lose(g)
  PROVE  Dialogue(g, p)' /\ UNCHANGED stored
<1>1. /\ UNCHANGED <<upload, stored, sending, last>>
      /\ \/ /\ toBridge[g] # <<>> /\ toBridge' = [toBridge EXCEPT ![g] = Tail(@)]
            /\ UNCHANGED toStation
         \/ /\ toStation[g] # <<>> /\ toStation' = [toStation EXCEPT ![g] = Tail(@)]
            /\ UNCHANGED toBridge
  BY DEF Lose, bridge, station
<1>2. Stages(g, p) => Stages(g, p)'
  BY <1>1 DEF Stages, Staged
<1>3. CASE toBridge[g] # <<>> /\ toBridge' = [toBridge EXCEPT ![g] = Tail(@)] /\ UNCHANGED toStation
  <2>1. toBridge' \in [{g} -> Seq(Frames(p))] /\ toBridge'[g] = Tail(toBridge[g])
    BY <1>3, Taken, OnlyStation DEF Dialogue
  <2>2. Unheard(g, p) => Unheard(g, p)'
    BY <1>1, <1>3, <2>1, Taken DEF Unheard
  <2> QED
    BY <1>1, <1>2, <1>3, <2>1, <2>2 DEF Dialogue
<1>4. CASE /\ toStation[g] # <<>> /\ toStation' = [toStation EXCEPT ![g] = Tail(@)]
           /\ UNCHANGED toBridge
  <2>1. toStation' \in [{g} -> Seq(Answers)] /\ toStation'[g] = Tail(toStation[g])
    BY <1>4, Taken, OnlyStation DEF Dialogue
  <2>2. Unheard(g, p) => Unheard(g, p)'
    BY <1>1, <1>4, <2>1, Taken DEF Unheard
  <2> QED
    BY <1>1, <1>2, <1>4, <2>1, <2>2 DEF Dialogue
<1> QED
  BY <1>1, <1>3, <1>4

\* A new plan: of the one before it nothing is on the link, and the station forgets it.
LEMMA BeginStep ==
  ASSUME NEW p, NEW q, NEW g, Dialogue(g, p), Begin(g, q)
  PROVE  Dialogue(g, q)' /\ UNCHANGED stored
<1>1. /\ UNCHANGED <<upload, stored, toStation>>
      /\ toBridge[g] = <<>> /\ toStation[g] = <<>>
      /\ toBridge' = [toBridge EXCEPT ![g] = Append(@, Count(Len(q)))]
      /\ last' = [last EXCEPT ![g] = Count(Len(q))]
      /\ sending' = [sending EXCEPT ![g] = q]
  BY DEF Begin, Send, Quiet, bridge
<1>2. <<>> \in Seq({Count(Len(q))}) /\ <<>> \in Seq(Acks)
  OBVIOUS
<1>3. Append(toBridge[g], Count(Len(q))) \in Seq({Count(Len(q))})
  BY <1>1, <1>2, AppendProperties
<1>4. toBridge' \in [{g} -> Seq({Count(Len(q))})]
  BY <1>1, <1>3, OnlyStation DEF Dialogue
<1>5. toBridge' \in [{g} -> Seq(Frames(q))]
  BY <1>4, Wider DEF Frames
<1>6. /\ last' \in [{g} -> Frames(q) \cup {None}] /\ last'[g] = Count(Len(q))
      /\ sending' \in [{g} -> {None, q}] /\ Count(Len(q)) \in Frames(q)
  BY <1>1 DEF Dialogue, Frames
<1>7. Unheard(g, q)'
  BY <1>1, <1>2, <1>4, <1>6 DEF Unheard
<1> QED
  BY <1>1, <1>5, <1>6, <1>7 DEF Dialogue

LEMMA ClearStep ==
  ASSUME NEW p, NEW g, Dialogue(g, p), onMissionClearAll
  PROVE  Dialogue(g, p)' /\ stored' = <<>>
BY DEF onMissionClearAll, station, Dialogue, Stages

-----------------------------------------------------------------------------
LEMMA InitUpload ==
  ASSUME NEW g, Stations = {g}, Init
  PROVE  UploadInv(g)
<1>1. Dialogue(g, <<>>)
  BY DEF Init, Dialogue, Stages
<1> QED
  BY <1>1 DEF UploadInv, InstalledIsUploaded, PlansOrNone, Init

LEMMA NextUpload ==
  ASSUME NEW S, Plans \subseteq Seq(S), NEW g, Stations = {g}, UploadInv(g), [Next]_vars
  PROVE  UploadInv(g)'
<1>1. PICK p \in PlansOrNone : Dialogue(g, p)
  BY DEF UploadInv
<1>2. p \in Seq(S) /\ stored \in PlansOrNone
  <2>1. <<>> \in Seq(S)
    OBVIOUS
  <2> QED
    BY <2>1 DEF PlansOrNone, UploadInv, InstalledIsUploaded
<1>3. CASE UNCHANGED vars
  <2>1. Dialogue(g, p)' /\ UNCHANGED stored
    BY <1>1, <1>3 DEF vars, Dialogue, Unheard, Stages, Staged
  <2> QED
    BY <1>2, <2>1 DEF UploadInv, InstalledIsUploaded, PlansOrNone
<1>4. CASE Next
  <2>1. \E q \in PlansOrNone : Dialogue(g, q)' /\ stored' \in {stored, p, <<>>}
    <3>1. CASE \E q \in Plans : Begin(g, q)
      BY <1>1, <3>1, BeginStep DEF PlansOrNone
    <3>2. CASE \/ onMissionCount(g) \/ onMissionItemInt(g) \/ Hear(g) \/ Repeat(g) \/ Lose(g)
               \/ expireUploads \/ onMissionClearAll
      BY <1>1, <1>2, <3>2, CountStep, ItemStep, HearStep, RepeatStep, LoseStep, ExpireStep,
         ClearStep
    <3> QED
      BY <1>4, <3>1, <3>2 DEF Next
  <2> QED
    BY <1>2, <2>1 DEF UploadInv, InstalledIsUploaded, PlansOrNone
<1> QED
  BY <1>3, <1>4

\* What a vehicle holds is a whole plan its one ground station uploaded, or nothing: no
\* hole, no half and no mix, whatever plans there are, and however often frames are lost,
\* repeated or late and an upload is begun again or abandoned (mission.go).  Of two
\* stations that upload at once it does not hold.
THEOREM WholePlans ==
  ASSUME NEW S, Plans \subseteq Seq(S), NEW g, Stations = {g}
  PROVE  Spec => []InstalledIsUploaded
<1>1. Init => UploadInv(g)
  BY InitUpload
<1>2. UploadInv(g) /\ [Next]_vars => UploadInv(g)'
  BY NextUpload
<1>3. UploadInv(g) => InstalledIsUploaded
  BY DEF UploadInv
<1> QED
  BY <1>1, <1>2, <1>3, PTL DEF Spec

-----------------------------------------------------------------------------
(* Where a vehicle is (Motion).                                            *)

Line == 0..Edge
Entries == [listed : BOOLEAN, linked : BOOLEAN, pos : Line, by : {"operator", "bridge"}]
Crafts == [connected : BOOLEAN, pos : Line, home : Line, target : Line \cup {None},
           reached : BOOLEAN, mission : BOOLEAN, pushed : Line]

MotionTypes ==
  /\ node \in Entries /\ lapsed \in BOOLEAN
  /\ craft = None \/ craft \in Crafts
  /\ syncer \in [at : {"idle"}] \cup [at : {"apply"}, seen : Entries] \cup [at : {"push"}, pos : Line]

\* Whatever position the bridge wrote, in the hub or in a snapshot of it, is the one it
\* remembers to have pushed.
PushedKnown ==
  /\ syncer.at = "push" => craft.pushed = syncer.pos
  /\ node.by = "bridge" /\ ~lapsed /\ craft # None /\ syncer.at # "push" => node.pos = craft.pushed
  /\ syncer.at = "apply" /\ node.by = "bridge" => syncer.seen.by = "bridge" /\ node.pos = syncer.seen.pos
  /\ syncer.at = "apply" /\ syncer.seen.by = "bridge" /\ ~lapsed /\ craft # None
       => syncer.seen.pos = craft.pushed

MotionInv == MotionTypes /\ PushedKnown

LEMMA Distances ==
  ASSUME FleetAssumption, NEW a \in Int, NEW b \in Int, NEW d \in Nat
  PROVE  /\ M!Gap(a, b) \in Nat /\ M!Toward(a, b, d) \in Int /\ M!Gap(a, M!Toward(a, b, d)) <= d
         /\ a \in Line /\ b \in Line => M!Toward(a, b, d) \in Line
<1> Edge \in Nat
  BY DEF FleetAssumption, M!MotionAssumption
<1>1. M!Gap(a, b) \in Nat
  BY DEF M!Gap
<1>2. CASE M!Gap(a, b) <= d
  BY <1>2, <1>1 DEF M!Toward
<1>3. CASE ~(M!Gap(a, b) <= d) /\ a < b
  <2>1. M!Toward(a, b, d) = a + d
    BY <1>1, <1>3 DEF M!Toward
  <2> QED BY <1>1, <1>3, <2>1 DEF M!Gap, Line
<1>4. CASE ~(M!Gap(a, b) <= d) /\ ~(a < b)
  <2>1. M!Toward(a, b, d) = a - d
    BY <1>1, <1>4 DEF M!Toward
  <2> QED BY <1>1, <1>4, <2>1 DEF M!Gap, Line
<1> QED BY <1>2, <1>3, <1>4

LEMMA Clamps ==
  ASSUME FleetAssumption, NEW a \in Line, NEW b \in Int
  PROVE  M!Clamp(b) \in Line /\ M!Gap(a, M!Clamp(b)) <= M!Gap(a, b)
BY DEF FleetAssumption, M!MotionAssumption, M!Gap, M!Clamp, Line

LEMMA MotionStarts == ASSUME FleetAssumption, M!Init PROVE MotionInv
<1>1. 0 \in Line
  BY DEF FleetAssumption, M!MotionAssumption, Line
<1> QED BY <1>1 DEF M!Init, MotionInv, MotionTypes, PushedKnown, Entries

LEMMA SyncedCraft ==
  ASSUME FleetAssumption, NEW v \in Crafts, NEW e \in Entries
  PROVE  LET w == M!Synced(v, e) IN
           /\ w \in Crafts
           /\ w.connected = e.linked
           /\ w.connected => w.pushed = w.pos
           /\ ~w.connected => w.pushed \in {v.pushed, e.pos}
           /\ w.home # v.home => e.pos # v.pushed
BY DEF M!Synced, M!Pushed, M!Adopts, M!Adopt, Crafts, Entries, FleetAssumption, M!MotionAssumption

HubMoves == (\E p \in M!Line : M!PlaceNode(p)) \/ M!LinkNode \/ M!LoseNode \/ M!ExpireNode

LEMMA HubKeeps == ASSUME FleetAssumption, MotionInv, HubMoves PROVE MotionInv'
<1>1. CASE \E p \in M!Line : M!PlaceNode(p)
  <2>1. PICK p \in Line : M!PlaceNode(p)
    BY <1>1 DEF M!Line, Line
  <2>2. node' \in Entries /\ node'.by = "operator"
    BY <2>1 DEF MotionInv, MotionTypes, M!PlaceNode, Entries
  <2> QED BY <2>1, <2>2 DEF MotionInv, MotionTypes, PushedKnown, M!PlaceNode
<1>2. CASE M!LinkNode
  BY <1>2 DEF MotionInv, MotionTypes, PushedKnown, M!LinkNode, Entries
<1>3. CASE M!LoseNode
  BY <1>3 DEF MotionInv, MotionTypes, PushedKnown, M!LoseNode, Entries
<1>4. CASE M!ExpireNode
  BY <1>4 DEF MotionInv, MotionTypes, PushedKnown, M!ExpireNode, Entries
<1> QED BY <1>1, <1>2, <1>3, <1>4 DEF HubMoves

LEMMA SyncKeeps == ASSUME FleetAssumption, MotionInv, M!Sync PROVE MotionInv'
<1>1. CASE M!ReadNodes
  BY <1>1 DEF MotionInv, MotionTypes, PushedKnown, M!ReadNodes
<1>2. CASE M!ApplyNodes
  <2>1. syncer \in [at : {"apply"}, seen : Entries] /\ syncer.at = "apply" /\ syncer.seen \in Entries
    BY <1>2 DEF MotionInv, MotionTypes, M!ApplyNodes
  <2>2. CASE ~syncer.seen.listed
    BY <1>2, <2>1, <2>2 DEF MotionInv, MotionTypes, PushedKnown, M!ApplyNodes
  <2>3. CASE syncer.seen.listed
    <3> DEFINE v == IF craft = None THEN M!NewVehicle(syncer.seen.pos) ELSE craft
    <3>1. v \in Crafts /\ (craft = None => v.pushed = syncer.seen.pos) /\ (craft # None => v = craft)
      BY <2>1 DEF M!NewVehicle, Crafts, Entries, MotionInv, MotionTypes
    <3>2. craft' = M!Synced(v, syncer.seen)
      BY <1>2, <2>3 DEF M!ApplyNodes
    <3> HIDE DEF v
    <3>3. /\ craft' \in Crafts /\ craft'.connected = syncer.seen.linked
          /\ craft'.connected => craft'.pushed = craft'.pos
          /\ ~craft'.connected => craft'.pushed \in {v.pushed, syncer.seen.pos}
      BY <2>1, <3>1, <3>2, SyncedCraft
    <3> QED BY <1>2, <2>1, <2>3, <3>1, <3>3
            DEF MotionInv, MotionTypes, PushedKnown, M!ApplyNodes, Crafts
  <2> QED BY <2>2, <2>3
<1>3. CASE M!SetPositions
  BY <1>3 DEF MotionInv, MotionTypes, PushedKnown, M!SetPositions, Entries
<1> QED BY <1>1, <1>2, <1>3 DEF M!Sync

LoopMoves ==
  \/ M!FlyStep \/ M!DriftStep \/ M!PatrolStep
  \/ \E p \in M!Line, mis \in BOOLEAN : M!GiveTarget(p, mis)
  \/ M!CollectArrival \/ M!Disarm

\* The loop moves a vehicle; what it pushed, and where its home is, stays.
LEMMA LoopKeeps ==
  ASSUME FleetAssumption, MotionInv, LoopMoves
  PROVE  MotionInv' /\ craft # None /\ craft'.home = craft.home
<1> DEFINE Kept == /\ craft # None /\ craft' \in Crafts
                   /\ craft'.pushed = craft.pushed /\ craft'.home = craft.home
                   /\ UNCHANGED <<node, syncer, lapsed>>
<1>1. craft # None => craft \in Crafts
  BY DEF MotionInv, MotionTypes
<1>2. {Edge, Stride, Pace, Radius} \subseteq Nat /\ \A p \in Line : p \in Int
  BY DEF FleetAssumption, M!MotionAssumption, Line
<1>3. ASSUME M!FlyStep PROVE Kept
  <2>1. /\ craft # None /\ craft.target \in Line
        /\ craft' = [craft EXCEPT !.pos = M!Toward(craft.pos, craft.target, Stride),
                     !.reached = @ \/ M!Toward(craft.pos, craft.target, Stride) = craft.target]
    BY <1>1, <1>3 DEF M!FlyStep, M!Moving, Crafts
  <2>2. M!Toward(craft.pos, craft.target, Stride) \in Line
    <3>1. craft.pos \in Line /\ craft.pos \in Int /\ craft.target \in Int
      BY <1>1, <1>2, <2>1 DEF Crafts
    <3> QED BY <1>2, <2>1, <3>1, Distances
  <2> QED BY <1>1, <1>3, <2>1, <2>2 DEF M!FlyStep, Crafts
<1>4. ASSUME M!DriftStep PROVE Kept
  <2>1. craft # None
    BY <1>4 DEF M!DriftStep, M!Idling, M!Moving
  <2>2. PICK to \in Int :
          craft' = [craft EXCEPT !.pos = M!Clamp(IF M!Gap(to, craft.home) <= Radius THEN to
                                                 ELSE M!Toward(craft.home, to, Radius))]
    <3>1. PICK x \in -Pace..Pace :
          craft' = [craft EXCEPT !.pos = M!Clamp(IF M!Gap(craft.pos + x, craft.home) <= Radius
                                   THEN craft.pos + x ELSE M!Toward(craft.home, craft.pos + x, Radius))]
      BY <1>4 DEF M!DriftStep
    <3>2. craft.pos + x \in Int
      BY <1>1, <1>2, <2>1 DEF Crafts
    <3> QED BY <3>1, <3>2
  <2>3. craft'.pos \in Line
    <3> DEFINE there == IF M!Gap(to, craft.home) <= Radius THEN to ELSE M!Toward(craft.home, to, Radius)
    <3>1. craft.home \in Int /\ craft.pos \in Line
      BY <1>1, <1>2, <2>1 DEF Crafts
    <3>2. there \in Int
      BY <1>2, <3>1, Distances
    <3> HIDE DEF there
    <3>3. M!Clamp(there) \in Line
      BY <3>1, <3>2, Clamps
    <3> QED BY <1>1, <2>1, <2>2, <3>3 DEF there, Crafts
  <2> QED BY <1>1, <1>4, <2>1, <2>2, <2>3 DEF M!DriftStep, Crafts
<1>5. ASSUME M!PatrolStep PROVE Kept
  <2>1. craft # None
    BY <1>5 DEF M!PatrolStep, M!Idling, M!Moving
  <2>2. PICK goal \in Int : craft' = [craft EXCEPT !.pos = M!Clamp(M!Toward(@, goal, Pace))]
    BY <1>1, <1>2, <1>5, <2>1 DEF M!PatrolStep, M!Around, Crafts
  <2>3. craft'.pos \in Line
    <3>1. craft.pos \in Int /\ craft.pos \in Line
      BY <1>1, <1>2, <2>1 DEF Crafts
    <3>2. M!Toward(craft.pos, goal, Pace) \in Int
      BY <1>2, <3>1, Distances
    <3>3. M!Clamp(M!Toward(craft.pos, goal, Pace)) \in Line
      BY <3>1, <3>2, Clamps
    <3> QED BY <1>1, <2>1, <2>2, <3>3 DEF Crafts
  <2> QED BY <1>1, <1>5, <2>1, <2>2, <2>3 DEF M!PatrolStep, Crafts
<1>6. ASSUME \E p \in M!Line, mis \in BOOLEAN : M!GiveTarget(p, mis) PROVE Kept
  BY <1>1, <1>6 DEF M!GiveTarget, Crafts, M!Line, Line
<1>7. ASSUME M!CollectArrival PROVE Kept
  BY <1>1, <1>7 DEF M!CollectArrival, M!Moving, Crafts
<1>8. ASSUME M!Disarm PROVE Kept
  BY <1>1, <1>8 DEF M!Disarm, Crafts
<1>9. Kept
  BY <1>3, <1>4, <1>5, <1>6, <1>7, <1>8 DEF LoopMoves
<1> QED BY <1>9 DEF MotionInv, MotionTypes, PushedKnown

-----------------------------------------------------------------------------
\* What the loop's position tick does.

LEMMA FlightSpeed ==
  ASSUME FleetAssumption, MotionInv, M!Tick, craft.target # None \/ idle = "patrol"
  PROVE  M!Steps(craft, craft')
<1>1. craft # None => craft \in Crafts
  BY DEF MotionInv, MotionTypes
<1>2. {Edge, Stride, Pace, Radius} \subseteq Nat /\ \A p \in Line : p \in Int
  BY DEF FleetAssumption, M!MotionAssumption, Line
<1>3. CASE M!FlyStep
  <2>1. craft # None /\ craft.target # None /\ craft.target \in Line /\ craft.pos \in Line
    BY <1>1, <1>3 DEF M!FlyStep, M!Moving, Crafts
  <2>2. craft'.pos = M!Toward(craft.pos, craft.target, Stride)
    BY <1>1, <1>3, <2>1 DEF M!FlyStep, Crafts
  <2> QED BY <1>2, <2>1, <2>2, Distances DEF M!Steps
<1>4. CASE M!PatrolStep
  <2>1. craft # None /\ craft.target = None /\ craft.pos \in Line
    BY <1>1, <1>4 DEF M!PatrolStep, M!Idling, M!Moving, Crafts
  <2>2. PICK goal \in Int : craft'.pos = M!Clamp(M!Toward(craft.pos, goal, Pace))
    BY <1>1, <1>2, <1>4, <2>1 DEF M!PatrolStep, M!Around, Crafts
  <2> DEFINE to == M!Toward(craft.pos, goal, Pace)
  <2>3. to \in Int /\ M!Gap(craft.pos, to) <= Pace /\ M!Gap(craft.pos, to) \in Nat
    BY <1>2, <2>1, Distances
  <2> HIDE DEF to
  <2>4. M!Clamp(to) \in Line /\ M!Gap(craft.pos, M!Clamp(to)) <= M!Gap(craft.pos, to)
    BY <2>1, <2>3, Clamps
  <2>5. M!Gap(craft.pos, M!Clamp(to)) \in Nat
    BY <1>2, <2>1, <2>4, Distances
  <2>6. M!Gap(craft.pos, M!Clamp(to)) <= Pace
    BY <1>2, <2>3, <2>4, <2>5
  <2> QED BY <2>1, <2>2, <2>6 DEF M!Steps, to
<1> QED BY <1>3, <1>4 DEF M!Tick, M!DriftStep, M!Idling

\* A vehicle that adopts another home takes it from an operator.
LEMMA OperatorsHome ==
  ASSUME FleetAssumption, MotionInv, M!ApplyNodes, craft # None, craft' # None,
         craft'.home # craft.home
  PROVE  lapsed \/ syncer.seen.by = "operator"
<1>1. syncer.at = "apply" /\ syncer.seen \in Entries /\ craft \in Crafts
  BY DEF MotionInv, MotionTypes, M!ApplyNodes
<1>2. craft' = M!Synced(craft, syncer.seen)
  BY DEF M!ApplyNodes
<1>3. syncer.seen.pos # craft.pushed
  BY <1>1, <1>2, SyncedCraft
<1> QED BY <1>1, <1>3 DEF MotionInv, PushedKnown, Entries

-----------------------------------------------------------------------------
(* What is said in whose name, and to whom (GroundLink).                   *)

SysIDs == 1..MaxSysID
Known == DOMAIN sysid
Speaking == out.todo # {} /\ out.from = sysid[Live]

IdsOnce ==
  \A n \in Known : sysid[n] \in SysIDs /\ \A m \in Known \ {n} : sysid[m] # sysid[n]

Messages == [from : 0..MaxSysID, seq : Nat, todo : SUBSET (Station \cup {Configured}),
             at : Station \cup {None}, failed : {"no", "icmp", "cut"}]

WriteTypes ==
  /\ vs \subseteq Known
  /\ next \in [SysIDs -> Nat] /\ expects \in [Station -> Nat \cup {None}]
  /\ out \in Messages /\ icmp \in {"none", "onway", "pending"}

\* A try that took somebody else's error left none for the next one.
ErrorsOnce ==
  /\ out.failed # "no" => out.at \in out.todo
  /\ out.failed = "icmp" => icmp = "none"

\* The number a station expects of the live vehicle is the one it will get: the number of
\* the message on its way if it has yet to be written to it, or else the next one.
NumbersFit ==
  IF Live \in Known
  THEN /\ Speaking => next[sysid[Live]] = (out.seq + 1) % SeqSize
       /\ \A s \in Station :
            expects[s] \in {None, IF Speaking /\ s \in out.todo THEN out.seq ELSE next[sysid[Live]]}
  ELSE \A s \in Station : expects[s] = None

GroundInv == IdsOnce /\ WriteTypes /\ ErrorsOnce /\ NumbersFit /\ G!NoFalseLoss

LEMMA GroundFacts ==
  ASSUME FleetAssumption
  PROVE  /\ MaxSysID \in Nat /\ 1 \in SysIDs /\ SysIDs = G!SysIDs
         /\ \A n \in Nat : (n + 1) % SeqSize \in Nat
         /\ Live \in Names
BY DEF FleetAssumption, G!GroundAssumption, SysIDs, G!SysIDs

LEMMA GroundStarts == ASSUME FleetAssumption, G!Init PROVE GroundInv
BY GroundFacts DEF G!Init, G!Idle, GroundInv, IdsOnce, WriteTypes, Messages, ErrorsOnce, NumbersFit,
  G!NoFalseLoss, Known

\* Of ids that are free one is the highest.
LEMMA Highest ==
  ASSUME FleetAssumption, NEW I \in SUBSET SysIDs, I # {}
  PROVE  \E i \in I : \A j \in I : j <= i
<1>1. MaxSysID \in Nat
  BY GroundFacts
<1> DEFINE T == {MaxSysID - j : j \in I}
<1>2. \A j \in I : j \in Int /\ MaxSysID - j \in Nat /\ MaxSysID - j \in T
  BY <1>1 DEF SysIDs
<1>3. T \subseteq Nat /\ T # {}
  BY <1>2
<1>4. \E x \in T : \A y \in T : ~(<<y, x>> \in OpToRel(<, Nat))
  BY <1>3, NatLessThanWellFounded, WFMin
<1>5. PICK x \in T : \A y \in T : ~(y < x)
  BY <1>3, <1>4 DEF OpToRel
<1>6. PICK i \in I : x = MaxSysID - i
  OBVIOUS
<1> HIDE DEF T
<1>7. ASSUME NEW j \in I PROVE j <= i
  <2>1. ~(MaxSysID - j < MaxSysID - i)
    BY <1>2, <1>5, <1>6
  <2> QED BY <1>1, <1>2, <2>1
<1> QED BY <1>7

LEMMA FreeIDs ==
  ASSUME FleetAssumption, IdsOnce, G!Taken # SysIDs, NEW n
  PROVE  G!FreeID(n) \in SysIDs \ G!Taken
<1>1. SysIDs = G!SysIDs /\ 1 \in SysIDs
  BY GroundFacts
<1>2. G!Taken \subseteq SysIDs
  BY DEF G!Taken, G!Known, IdsOnce, Known
<1>3. CASE G!Claims(n) \ G!Taken # {}
  BY <1>1, <1>3 DEF G!FreeID, G!Claims
<1>4. CASE G!Claims(n) \ G!Taken = {}
  <2>1. \E i \in SysIDs \ G!Taken : \A j \in SysIDs \ G!Taken : j <= i
    BY <1>2, Highest
  <2> QED BY <1>1, <1>4, <2>1 DEF G!FreeID
<1> QED BY <1>3, <1>4

LEMMA AssignedOnce ==
  ASSUME FleetAssumption, IdsOnce, NEW n
  PROVE  LET a == G!Assigned(n) IN
           /\ Known \subseteq DOMAIN a /\ \A k \in Known : a[k] = sysid[k]
           /\ \A k \in DOMAIN a : a[k] \in SysIDs /\ \A m \in DOMAIN a \ {k} : a[m] # a[k]
<1>1. SysIDs = G!SysIDs
  BY GroundFacts
<1>2. CASE n \in Known \/ G!Taken = SysIDs
  BY <1>1, <1>2 DEF G!Assigned, G!Known, Known, IdsOnce
<1>3. CASE ~(n \in Known \/ G!Taken = SysIDs)
  <2>1. G!FreeID(n) \in SysIDs \ G!Taken
    BY <1>3, FreeIDs
  <2>2. G!Assigned(n) = [k \in Known \cup {n} |-> IF k = n THEN G!FreeID(n) ELSE sysid[k]]
    BY <1>1, <1>3 DEF G!Assigned, G!Known, Known
  <2>3. \A k \in Known : sysid[k] \in G!Taken
    BY DEF G!Taken, G!Known, Known
  <2> QED BY <1>3, <2>1, <2>2, <2>3 DEF IdsOnce
<1> QED BY <1>2, <1>3

-----------------------------------------------------------------------------
\* The steps of GroundLink, one by one.

\* A message is numbered, and those it will not be written to are not expecting it.
LEMMA SaysKeeps ==
  ASSUME FleetAssumption, GroundInv, NEW i \in SysIDs, G!Quiet, G!Says(i),
         UNCHANGED <<sysid, vs, icmp, gaps>>
  PROVE  GroundInv'
<1> DEFINE to == G!Destinations
<1>1. expects' = [s \in Station |-> IF s \in Station \ to /\ G!Watched(i) THEN None ELSE expects[s]]
  BY DEF G!Says, G!Misses
<1>2. to \subseteq Station \cup {Configured}
  BY DEF G!Destinations
<1>3. out.todo = {} /\ out.failed \in {"no", "icmp", "cut"}
  BY DEF G!Quiet, GroundInv, WriteTypes, Messages
<1>4. i \in 0..MaxSysID /\ next[i] \in Nat /\ (next[i] + 1) % SeqSize \in Nat
  BY GroundFacts DEF SysIDs, GroundInv, WriteTypes
<1>5. CASE to = {}
  <2>1. UNCHANGED <<next, out>>
    BY <1>5 DEF G!Says
  <2> QED BY <1>1, <1>3, <1>5, <2>1
          DEF GroundInv, IdsOnce, WriteTypes, ErrorsOnce, NumbersFit, Speaking, G!NoFalseLoss, Known, G!Watched
<1>6. CASE to # {}
  <2>1. /\ next' = [next EXCEPT ![i] = (next[i] + 1) % SeqSize]
        /\ out' = [from |-> i, seq |-> next[i], todo |-> to, at |-> None, failed |-> "no"]
    BY <1>6 DEF G!Says, G!Counted, G!Idle
  <2> HIDE DEF to
  <2>2. WriteTypes' /\ IdsOnce' /\ ErrorsOnce' /\ G!NoFalseLoss'
    BY <1>1, <1>2, <1>4, <2>1 DEF GroundInv, WriteTypes, Messages, IdsOnce, ErrorsOnce, G!NoFalseLoss, Known
  <2>3. CASE Live \in Known /\ sysid[Live] = i
    BY <1>1, <1>3, <1>4, <2>1, <2>2, <2>3
       DEF GroundInv, NumbersFit, Speaking, Known, G!Watched, G!Known, WriteTypes
  <2>4. CASE Live \in Known /\ sysid[Live] # i
    BY <1>1, <1>3, <1>4, <2>1, <2>2, <2>4
       DEF GroundInv, NumbersFit, Speaking, Known, G!Watched, G!Known, WriteTypes
  <2>5. CASE Live \notin Known
    BY <1>1, <2>2, <2>5 DEF GroundInv, NumbersFit, Known
  <2> QED BY <2>3, <2>4, <2>5
<1> QED BY <1>5, <1>6

LEMMA AssignKeeps ==
  ASSUME FleetAssumption, GroundInv, NEW n \in Names, G!ApplyNode(n)
  PROVE  GroundInv' /\ \A k \in Known : k \in Known' /\ sysid'[k] = sysid[k]
<1>1. sysid' = sysid \/ sysid' = G!Assigned(n)
  BY DEF G!ApplyNode
<1>2. IdsOnce' /\ \A k \in Known : k \in Known' /\ sysid'[k] = sysid[k]
  BY <1>1, AssignedOnce DEF GroundInv, IdsOnce, Known
<1>3. vs' \subseteq Known'
  BY <1>2 DEF G!ApplyNode, Known, GroundInv, WriteTypes
<1>4. out.todo = {} /\ UNCHANGED <<icmp, next, out, expects, gaps>>
  BY DEF G!ApplyNode, G!Quiet
<1> QED BY <1>2, <1>3, <1>4
        DEF GroundInv, WriteTypes, ErrorsOnce, NumbersFit, Speaking, G!NoFalseLoss, Known

\* A write ends: s is no longer written to, and expects either nothing or the number after
\* the one it got, which is the next.
LEMMA WrittenKeeps ==
  ASSUME FleetAssumption, GroundInv, NEW s \in Station, s \in out.todo, G!Written(s),
         expects' \in [Station -> Nat \cup {None}],
         \A k \in Station \ {s} : expects'[k] = expects[k],
         G!Watched(out.from) => expects'[s] \in {None, (out.seq + 1) % SeqSize},
         ~G!Watched(out.from) => expects'[s] = expects[s],
         UNCHANGED <<sysid, vs, next>>, icmp' \in {"none", "onway", "pending"}, gaps' = {}
  PROVE  GroundInv'
<1>1. out \in Messages /\ out' \in Messages /\ out'.failed = "no" /\ out'.todo = out.todo \ {s}
      /\ out'.from = out.from /\ out'.seq = out.seq
  BY DEF G!Written, GroundInv, WriteTypes, Messages
<1>2. WriteTypes' /\ IdsOnce' /\ ErrorsOnce' /\ G!NoFalseLoss'
  BY <1>1 DEF GroundInv, WriteTypes, IdsOnce, ErrorsOnce, G!NoFalseLoss, Known
<1>3. CASE Live \in Known /\ sysid[Live] = out.from
  BY <1>1, <1>2, <1>3 DEF GroundInv, NumbersFit, Speaking, Known, G!Watched, G!Known
<1>4. CASE Live \in Known /\ sysid[Live] # out.from
  BY <1>1, <1>2, <1>4 DEF GroundInv, NumbersFit, Speaking, Known, G!Watched, G!Known
<1>5. CASE Live \notin Known
  BY <1>2, <1>5 DEF GroundInv, NumbersFit, Known, G!Watched, G!Known
<1> QED BY <1>3, <1>4, <1>5

LEMMA TakenKeeps ==
  ASSUME FleetAssumption, GroundInv, NEW s \in Station, G!WriteTaken(s)
  PROVE  GroundInv' /\ DOMAIN stations' = DOMAIN stations
<1>1. s \in out.todo /\ out \in Messages
  BY DEF G!WriteTaken, G!Due, GroundInv, ErrorsOnce, WriteTypes
<1>2. (out.seq + 1) % SeqSize \in Nat
  BY <1>1, GroundFacts DEF Messages
<1>3. DOMAIN stations' = DOMAIN stations
  BY DEF G!WriteTaken
<1>4. G!Written(s) /\ icmp' \in {"none", "onway", "pending"} /\ UNCHANGED <<sysid, vs, next>>
  BY DEF G!WriteTaken, GroundInv, WriteTypes
<1>5. G!Watched(out.from) => expects[s] \in {None, out.seq}
  BY <1>1 DEF GroundInv, NumbersFit, Speaking, G!Watched, G!Known, Known
<1>6. gaps' = {}
  BY <1>5 DEF G!WriteTaken, GroundInv, G!NoFalseLoss
<1>7. CASE path[s] = "up" /\ G!Watched(out.from)
  <2>1. expects' = [expects EXCEPT ![s] = (out.seq + 1) % SeqSize]
    BY <1>7 DEF G!WriteTaken
  <2> QED BY <1>1, <1>2, <1>3, <1>4, <1>6, <1>7, <2>1, WrittenKeeps DEF GroundInv, WriteTypes
<1>8. CASE ~(path[s] = "up" /\ G!Watched(out.from))
  <2>1. expects' = [k \in Station |-> IF k \in {s} \cap {t \in Station : path[t] # "up"}
                                        /\ G!Watched(out.from) THEN None ELSE expects[k]]
    BY <1>8 DEF G!WriteTaken, G!Misses
  <2> QED BY <1>1, <1>2, <1>3, <1>4, <1>6, <1>8, <2>1, WrittenKeeps DEF GroundInv, WriteTypes
<1> QED BY <1>7, <1>8

\* A station is dropped for its own path's sake.
LEMMA FailsKeeps ==
  ASSUME FleetAssumption, GroundInv, NEW s \in Station, G!WriteFails(s)
  PROVE  /\ GroundInv'
         /\ \A k \in DOMAIN stations :
              k \notin DOMAIN stations' => path[k] = "cut" \/ (out.at = k /\ out.failed = "cut")
<1>1. s \in out.todo /\ out \in Messages /\ (out.failed # "no" => out.at = s)
  BY DEF G!WriteFails, G!Due, GroundInv, ErrorsOnce, WriteTypes
<1>2. icmp' \in {"none", "onway", "pending"} /\ UNCHANGED <<sysid, vs, next, gaps>>
  BY DEF G!WriteFails, GroundInv, WriteTypes
<1>3. CASE out.failed # "no"
  <2>1. /\ G!Written(s) /\ stations' = G!Failed(s)
        /\ expects' = [k \in Station |-> IF k \in {s} /\ G!Watched(out.from) THEN None ELSE expects[k]]
    BY <1>3 DEF G!WriteFails, G!Misses
  <2>2. GroundInv'
    BY <1>1, <1>2, <2>1, WrittenKeeps DEF GroundInv, WriteTypes, G!NoFalseLoss
  <2>3. path[s] = "cut" \/ out.failed = "cut"
    BY <1>1, <1>3 DEF G!WriteFails, GroundInv, ErrorsOnce, Messages
  <2>4. \A k \in DOMAIN stations : k \notin DOMAIN stations' => k = s
    BY <2>1 DEF G!Failed
  <2> QED BY <1>1, <1>3, <2>2, <2>3, <2>4
<1>4. CASE out.failed = "no"
  <2>1. /\ out' = [out EXCEPT !.at = s, !.failed = IF icmp = "pending" THEN "icmp" ELSE "cut"]
        /\ icmp' = (IF icmp = "pending" THEN "none" ELSE icmp)
        /\ UNCHANGED <<stations, expects>>
    BY <1>4 DEF G!WriteFails
  <2>2. out' \in Messages /\ out'.todo = out.todo /\ out'.from = out.from /\ out'.seq = out.seq
        /\ out'.at = s /\ (out'.failed = "icmp" => icmp = "pending")
    BY <1>1, <2>1 DEF Messages
  <2> QED BY <1>1, <1>2, <2>1, <2>2
          DEF GroundInv, IdsOnce, WriteTypes, ErrorsOnce, NumbersFit, Speaking, G!NoFalseLoss, Known
<1> QED BY <1>3, <1>4

\* What leaves the writing and the ids alone.
LEMMA RestKeeps ==
  ASSUME GroundInv, UNCHANGED <<sysid, vs, next, out, expects, gaps>>,
         icmp' = icmp \/ (icmp = "onway" /\ icmp' = "pending")
  PROVE  GroundInv'
BY DEF GroundInv, IdsOnce, WriteTypes, ErrorsOnce, NumbersFit, Speaking, G!NoFalseLoss, Known

\* A message drops the stations that have been silent, and changes no id.
LEMMA SaysDrops ==
  ASSUME NEW i, G!Says(i)
  PROVE  \A k \in DOMAIN stations : k \notin DOMAIN stations' => stations[k].old
BY DEF G!Says

KeepsIds == \A k \in Known : k \in Known' /\ sysid'[k] = sysid[k]
KeepsStations ==
  \A k \in DOMAIN stations : k \notin DOMAIN stations' =>
    stations[k].old \/ path[k] = "cut" \/ (out.at = k /\ out.failed = "cut")

LEMMA AnnouncesKeeps ==
  ASSUME FleetAssumption, GroundInv, NEW said, G!Quiet, G!Announces(said),
         UNCHANGED <<sysid, vs, icmp, gaps>>
  PROVE  GroundInv' /\ KeepsIds /\ KeepsStations
<1>1. CASE Live \in vs
  <2>1. sysid[Live] \in SysIDs /\ G!Says(sysid[Live])
    BY <1>1 DEF G!Announces, GroundInv, WriteTypes, IdsOnce
  <2> QED BY <2>1, SaysKeeps, SaysDrops DEF KeepsIds, KeepsStations, Known
<1>2. CASE Live \notin vs
  BY <1>2, RestKeeps DEF G!Announces, KeepsIds, KeepsStations, Known
<1> QED BY <1>1, <1>2

LEMMA GroundStep ==
  ASSUME FleetAssumption, GroundInv, [G!Next]_ground
  PROVE  GroundInv' /\ KeepsIds /\ KeepsStations
<1>1. ASSUME NEW n \in Names, G!ApplyNode(n) PROVE GroundInv' /\ KeepsIds /\ KeepsStations
  BY <1>1, AssignKeeps DEF KeepsIds, KeepsStations, G!ApplyNode
<1>2. ASSUME NEW n \in Names, G!Tick(n) \/ G!OnEvent(n) PROVE GroundInv' /\ KeepsIds /\ KeepsStations
  <2>1. G!Quiet /\ G!Says(sysid[n]) /\ sysid[n] \in SysIDs /\ UNCHANGED <<sysid, vs, icmp, gaps>>
    BY <1>2 DEF G!Tick, G!OnEvent, GroundInv, WriteTypes, IdsOnce, G!Known, Known
  <2> QED BY <2>1, SaysKeeps, SaysDrops DEF KeepsIds, KeepsStations, Known
<1>3. ASSUME NEW s \in Station, G!Hear(s) \/ G!FallsSilent(s) \/ G!PathTurns(s)
      PROVE GroundInv' /\ KeepsIds /\ KeepsStations
  BY <1>3, RestKeeps DEF G!Hear, G!FallsSilent, G!PathTurns, G!loopVars, KeepsIds, KeepsStations, Known
<1>4. ASSUME NEW s \in Station, G!WriteTaken(s) PROVE GroundInv' /\ KeepsIds /\ KeepsStations
  BY <1>4, TakenKeeps DEF G!WriteTaken, KeepsIds, KeepsStations, Known
<1>5. ASSUME NEW s \in Station, G!WriteFails(s) PROVE GroundInv' /\ KeepsIds /\ KeepsStations
  BY <1>5, FailsKeeps DEF G!WriteFails, KeepsIds, KeepsStations, Known
<1>6. CASE G!IcmpArrives \/ G!FeedTurns
  BY <1>6, RestKeeps DEF G!IcmpArrives, G!FeedTurns, G!loopVars, KeepsIds, KeepsStations, Known
<1>7. CASE G!OnLive
  <2>1. CASE live.up
    BY <1>7, <2>1, RestKeeps DEF G!OnLive, KeepsIds, KeepsStations, Known
  <2>2. CASE ~live.up
    BY <1>7, <2>2, AnnouncesKeeps DEF G!OnLive
  <2> QED BY <2>1, <2>2
<1>8. CASE G!CheckLive
  BY <1>8, AnnouncesKeeps DEF G!CheckLive
<1>9. CASE UNCHANGED ground
  BY <1>9, RestKeeps DEF ground, KeepsIds, KeepsStations, Known
<1> QED BY <1>1, <1>2, <1>3, <1>4, <1>5, <1>6, <1>7, <1>8, <1>9 DEF G!Next

-----------------------------------------------------------------------------
(* The flight of missions (MissionFlight).                                 *)

Vehicles == [present : BOOLEAN, connected : BOOLEAN, leader : BOOLEAN,
             leaderID : Nodes \cup {None}, armed : BOOLEAN,
             target : Places \cup {None, Elsewhere}, reached : BOOLEAN]

\* An item in flight is flown by a node, to a place; one that waits has nobody.
FlightItems ==
  {it \in [pos : Places \cup {Skip}, state : {"pending", "flying", "done"},
           node : Nodes \cup {None}] :
     /\ it.state = "pending" => it.node = None
     /\ it.state = "flying" => it.node \in Nodes /\ it.pos \in Places}

Missions ==
  {m \in [exec : Nodes \cup {None}, leaderMission : BOOLEAN, started : BOOLEAN,
          members : SUBSET Nodes, items : Seq(FlightItems)] :
     m.items # <<>> => m.exec \in Nodes}

\* No vehicle flies two items, of one mission or of two.
Alone(ms) ==
  \A v \in Nodes : \A o, p \in Owners :
    \A i \in DOMAIN ms[o].items : \A j \in DOMAIN ms[p].items :
      F!Flies(ms, o, i, v) /\ F!Flies(ms, p, j, v) => o = p /\ i = j

Sound(s) == s.vs \in [Nodes -> Vehicles] /\ s.ms \in [Owners -> Missions] /\ Alone(s.ms)

\* What every pass of runMissions keeps.
FlightInv == Sound([vs |-> vehicle, ms |-> mission]) /\ installs \in Nat

\* From items to later: nothing before an item that was taken up is left waiting.
Ordered(items, later) ==
  \A j \in DOMAIN items : items[j].state = "pending" /\ later[j].state # "pending"
    => \A i \in 1..(j - 1) : later[i].state # "pending"

\* Who flies an item in s and still holds its goal is credited with it in ms.
Credited(s, ms, o) ==
  \A i \in DOMAIN s.ms[o].items : \A v \in Nodes :
    F!Flies(s.ms, o, i, v) /\ s.vs[v].connected /\ F!holdsGoal(s.vs, s.ms[o].items[i])
    => ms[o].items[i].state # "pending" /\ ms[o].items[i].node = v

\* A mission's own turn in a pass, from s to t.
Served(s, t, o) ==
  /\ Len(t.ms[o].items) = Len(s.ms[o].items)
  /\ Ordered(s.ms[o].items, t.ms[o].items)
  /\ Credited(s, t.ms, o)

\* What has not been touched from s to t: mission p and the vehicles that fly it.
Untouched(s, t, p) ==
  /\ t.ms[p] = s.ms[p]
  /\ \A i \in DOMAIN s.ms[p].items : \A v \in Nodes : F!Flies(s.ms, p, i, v) => t.vs[v] = s.vs[v]

\* The turn of mission o, from s to t.
Turn(s, t, o) ==
  /\ Sound(t) /\ Served(s, t, o)
  /\ \A p \in Owners \ {o} : Untouched(s, t, p)

-----------------------------------------------------------------------------
(* Vehicles, items and missions. *)

LEMMA FlightFacts ==
  ASSUME F!FlightAssumption
  PROVE  /\ F!LastNode \in Nat /\ Nodes = 1..F!LastNode /\ Nodes \subseteq Nat
         /\ Owners \subseteq Nodes /\ None \notin Nodes /\ Skip \notin Places
         /\ \A L \in Leaders : L \subseteq Nodes
<1>1. PICK n \in Nodes : n \in Nat /\ Nodes = 1..n
  BY DEF F!FlightAssumption
<1>2. \A w \in Nodes : w <= n
  BY <1>1
<1>3. F!LastNode \in Nodes /\ n <= F!LastNode
  BY <1>2 DEF F!LastNode
<1>4. F!LastNode = n
  BY <1>1, <1>3
<1>5. Nodes \subseteq Nat
  BY <1>1
<1> QED
  BY <1>1, <1>4, <1>5 DEF F!FlightAssumption

LEMMA ItemFacts ==
  ASSUME NEW it \in FlightItems
  PROVE  /\ it.state \in {"pending", "flying", "done"} /\ it.node \in Nodes \cup {None}
         /\ it.pos \in Places \cup {Skip}
         /\ it.state = "pending" => it.node = None
         /\ it.state = "flying" => it.node \in Nodes /\ it.pos \in Places
BY DEF FlightItems

LEMMA ItemSteps ==
  ASSUME NEW it \in FlightItems
  PROVE  /\ F!Released(it) \in FlightItems /\ F!Released(it).state = "pending"
         /\ [it EXCEPT !.state = "done"] \in FlightItems
         /\ [it EXCEPT !.state = "done"].state = "done"
         /\ [it EXCEPT !.state = "done"].node = it.node
         /\ \A v \in Nodes : it.pos \in Places =>
              /\ [it EXCEPT !.state = "flying", !.node = v] \in FlightItems
              /\ [it EXCEPT !.state = "flying", !.node = v].state = "flying"
              /\ [it EXCEPT !.state = "flying", !.node = v].node = v
BY DEF FlightItems, F!Released

LEMMA MissionFacts ==
  ASSUME NEW m \in Missions
  PROVE  /\ m.exec \in Nodes \cup {None} /\ m.leaderMission \in BOOLEAN /\ m.started \in BOOLEAN
         /\ m.members \subseteq Nodes /\ m.items \in Seq(FlightItems) /\ Len(m.items) \in Nat
         /\ DOMAIN m.items = 1..Len(m.items)
         /\ \A i \in DOMAIN m.items : m.items[i] \in FlightItems
         /\ m.items # <<>> => m.exec \in Nodes
<1>1. m.items \in Seq(FlightItems)
  BY DEF Missions
<1> QED
  BY <1>1 DEF Missions

LEMMA MissionSteps ==
  ASSUME NEW m \in Missions
  PROVE  /\ \A items \in Seq(FlightItems) : Len(items) = Len(m.items) =>
              /\ [m EXCEPT !.items = items] \in Missions
              /\ [m EXCEPT !.items = items].items = items
              /\ [m EXCEPT !.items = items].members = m.members
              /\ [m EXCEPT !.items = items].started = m.started
         /\ \A S \in SUBSET Nodes :
              /\ [m EXCEPT !.members = S] \in Missions
              /\ [m EXCEPT !.members = S].items = m.items
         /\ \A v \in Nodes :
              /\ [m EXCEPT !.exec = v] \in Missions
              /\ [m EXCEPT !.exec = v].items = m.items
<1>1. m \in [exec : Nodes \cup {None}, leaderMission : BOOLEAN, started : BOOLEAN,
             members : SUBSET Nodes, items : Seq(FlightItems)] /\ (m.items # <<>> => m.exec \in Nodes)
  BY DEF Missions
<1>2. ASSUME NEW items \in Seq(FlightItems), Len(items) = Len(m.items)
      PROVE  [m EXCEPT !.items = items] \in Missions
  <2>1. items # <<>> => m.items # <<>>
    BY <1>1, <1>2
  <2> QED
    BY <1>1, <2>1 DEF Missions
<1> QED
  BY <1>1, <1>2 DEF Missions

LEMMA VehicleSteps ==
  ASSUME NEW veh \in Vehicles
  PROVE  /\ [veh EXCEPT !.target = None, !.reached = FALSE] \in Vehicles
         /\ \A place \in Places : F!SentTo(veh, place) \in Vehicles
         /\ [veh EXCEPT !.reached = TRUE] \in Vehicles
BY DEF Vehicles, F!SentTo

\* A mission whose items are replaced, one for one.
LEMMA WithItemsIs ==
  ASSUME NEW ms \in [Owners -> Missions], NEW o \in Owners,
         NEW items \in Seq(FlightItems), Len(items) = Len(ms[o].items)
  PROVE  /\ F!WithItems(ms, o, items) \in [Owners -> Missions]
         /\ F!WithItems(ms, o, items)[o].items = items
         /\ F!WithItems(ms, o, items)[o].members = ms[o].members
         /\ \A p \in Owners \ {o} : F!WithItems(ms, o, items)[p] = ms[p]
<1>1. /\ [ms[o] EXCEPT !.items = items] \in Missions
      /\ [ms[o] EXCEPT !.items = items].items = items
      /\ [ms[o] EXCEPT !.items = items].members = ms[o].members
  BY MissionSteps
<1> QED
  BY <1>1 DEF F!WithItems, F!Put

LEMMA WithItemIs ==
  ASSUME NEW ms \in [Owners -> Missions], NEW o \in Owners,
         NEW i \in DOMAIN ms[o].items, NEW it \in FlightItems
  PROVE  /\ F!WithItem(ms, o, i, it) \in [Owners -> Missions]
         /\ Len(F!WithItem(ms, o, i, it)[o].items) = Len(ms[o].items)
         /\ \A j \in DOMAIN ms[o].items :
              F!WithItem(ms, o, i, it)[o].items[j] = IF j = i THEN it ELSE ms[o].items[j]
         /\ F!WithItem(ms, o, i, it)[o].members = ms[o].members
         /\ \A p \in Owners \ {o} : F!WithItem(ms, o, i, it)[p] = ms[p]
<1> DEFINE items == F!Put(ms[o].items, i, it)
<1>1. ms[o].items \in Seq(FlightItems)
  BY MissionFacts
<1>2. /\ items \in Seq(FlightItems) /\ Len(items) = Len(ms[o].items)
      /\ \A j \in DOMAIN ms[o].items : items[j] = IF j = i THEN it ELSE ms[o].items[j]
  BY <1>1 DEF F!Put
<1> HIDE DEF items
<1>3. F!WithItem(ms, o, i, it) = F!WithItems(ms, o, items)
  BY DEF F!WithItem, items
<1> QED
  BY <1>2, <1>3, WithItemsIs

LEMMA LeastIs ==
  ASSUME NEW S \in SUBSET Nat, S # {}
  PROVE  F!Least(S) \in S
<1>1. PICK m \in S : \A j \in S : ~(<<j, m>> \in OpToRel(<, Nat))
  BY WFMin, NatLessThanWellFounded
<1>2. ASSUME NEW w \in S PROVE m <= w
  <2>1. ~(w < m)
    BY <1>1 DEF OpToRel
  <2> QED
    BY <2>1
<1> QED
  BY <1>2 DEF F!Least

-----------------------------------------------------------------------------
(* collectArrivals and migrate. *)

\* Flights that are among the flights of before are alone if those were.
LEMMA FewerFlights ==
  ASSUME NEW ms, NEW later, Alone(ms),
         \A o \in Owners : \A i \in DOMAIN later[o].items : \A v \in Nodes :
           F!Flies(later, o, i, v) => F!Flies(ms, o, i, v)
  PROVE  Alone(later)
<1> SUFFICES ASSUME NEW v \in Nodes, NEW o \in Owners, NEW p \in Owners,
                    NEW i \in DOMAIN later[o].items, NEW j \in DOMAIN later[p].items,
                    F!Flies(later, o, i, v), F!Flies(later, p, j, v)
             PROVE  o = p /\ i = j
  BY DEF Alone
<1>1. F!Flies(ms, o, i, v) /\ F!Flies(ms, p, j, v)
  OBVIOUS
<1>2. i \in DOMAIN ms[o].items /\ j \in DOMAIN ms[p].items
  BY <1>1 DEF F!Flies
<1> QED
  BY <1>1, <1>2 DEF Alone

LEMMA CollectedIs ==
  ASSUME NEW fleet, NEW it \in FlightItems
  PROVE  /\ F!Collected(fleet, it) \in FlightItems
         /\ it.state = "pending" => F!Collected(fleet, it) = it
         /\ F!Collected(fleet, it).state = "flying" => F!Collected(fleet, it) = it
         /\ it.state = "flying" /\ fleet[it.node].connected /\ F!holdsGoal(fleet, it)
            => F!Collected(fleet, it).state # "pending" /\ F!Collected(fleet, it).node = it.node
<1>1. CASE F!Lost(fleet, it)
  <2>1. F!Collected(fleet, it) = F!Released(it)
    BY <1>1 DEF F!Collected, F!Arrived
  <2> QED
    BY <1>1, <2>1, ItemSteps DEF F!Lost
<1>2. CASE F!Arrived(fleet, it)
  <2>1. F!Collected(fleet, it) = [it EXCEPT !.state = "done"]
    BY <1>2 DEF F!Collected, F!Arrived
  <2> QED
    BY <1>2, <2>1, ItemSteps DEF F!Arrived
<1>3. CASE ~F!Lost(fleet, it) /\ ~F!Arrived(fleet, it)
  <2>1. F!Collected(fleet, it) = it
    BY <1>3 DEF F!Collected
  <2> QED
    BY <2>1
<1> QED
  BY <1>1, <1>2, <1>3

LEMMA CollectKeeps ==
  ASSUME F!FlightAssumption, NEW s, Sound(s), NEW o \in Owners
  PROVE  LET c == F!collectArrivals(s, o)
         IN  /\ Sound(c) /\ Len(c.ms[o].items) = Len(s.ms[o].items)
             /\ \A i \in DOMAIN s.ms[o].items :
                  s.ms[o].items[i].state = "pending" => c.ms[o].items[i].state = "pending"
             /\ Credited(s, c.ms, o)
             /\ \A p \in Owners \ {o} : Untouched(s, c, p)
<1> DEFINE c == F!collectArrivals(s, o)
<1> DEFINE old == s.ms[o].items
<1> DEFINE items == [i \in DOMAIN old |-> F!Collected(s.vs, old[i])]
<1>1. s.vs \in [Nodes -> Vehicles] /\ s.ms \in [Owners -> Missions] /\ Alone(s.ms)
  BY DEF Sound
<1>2. /\ old \in Seq(FlightItems) /\ DOMAIN old = 1..Len(old) /\ Len(old) \in Nat
      /\ \A i \in DOMAIN old : old[i] \in FlightItems
  BY <1>1, MissionFacts
<1>3. c.ms = F!WithItems(s.ms, o, items)
  BY DEF F!collectArrivals
<1>4. c.vs = [v \in Nodes |-> IF \E i \in DOMAIN old : old[i].node = v /\ F!Arrived(s.vs, old[i])
                              THEN [s.vs[v] EXCEPT !.target = None, !.reached = FALSE]
                              ELSE s.vs[v]]
  BY DEF F!collectArrivals
<1> HIDE DEF c, old
<1>5. \A i \in DOMAIN old : items[i] = F!Collected(s.vs, old[i]) /\ items[i] \in FlightItems
  BY <1>2, CollectedIs
<1>6. items \in Seq(FlightItems) /\ Len(items) = Len(old)
  <2>1. items \in [1..Len(old) -> FlightItems]
    BY <1>2, <1>5
  <2> QED
    BY <1>2, <2>1
<1> HIDE DEF items
<1>7. /\ c.ms \in [Owners -> Missions] /\ c.ms[o].items = items
      /\ \A p \in Owners \ {o} : c.ms[p] = s.ms[p]
  BY <1>1, <1>3, <1>6, WithItemsIs DEF old
<1>8. c.vs \in [Nodes -> Vehicles]
  <2>1. \A v \in Nodes : [s.vs[v] EXCEPT !.target = None, !.reached = FALSE] \in Vehicles
    BY <1>1, VehicleSteps
  <2>2. ASSUME NEW v \in Nodes
        PROVE  c.vs[v] \in Vehicles
    <3>1. s.vs[v] \in Vehicles /\ [s.vs[v] EXCEPT !.target = None, !.reached = FALSE] \in Vehicles
      BY <1>1, <2>1
    <3>2. c.vs[v] = [s.vs[v] EXCEPT !.target = None, !.reached = FALSE] \/ c.vs[v] = s.vs[v]
      BY <1>4
    <3> QED
      BY <3>1, <3>2
  <2>3. c.vs = [v \in Nodes |-> c.vs[v]]
    BY <1>4
  <2> QED
    BY <2>2, <2>3
<1>9. Alone(c.ms)
  <2>1. ASSUME NEW p \in Owners, NEW i \in DOMAIN c.ms[p].items, NEW v \in Nodes,
               F!Flies(c.ms, p, i, v)
        PROVE  F!Flies(s.ms, p, i, v)
    <3>1. CASE p = o
      <4>1. i \in DOMAIN old /\ items[i].state = "flying" /\ items[i].node = v
        BY <1>2, <1>6, <1>7, <2>1, <3>1 DEF F!Flies
      <4>2. items[i] = old[i]
        BY <1>2, <1>5, <4>1, CollectedIs
      <4> QED
        BY <3>1, <4>1, <4>2 DEF F!Flies, old
    <3>2. CASE p # o
      BY <1>7, <2>1, <3>2 DEF F!Flies
    <3> QED
      BY <3>1, <3>2
  <2> QED
    BY <1>1, <2>1, FewerFlights
<1>10. \A i \in DOMAIN old : old[i].state = "pending" => items[i].state = "pending"
  BY <1>2, <1>5, CollectedIs
<1>11. Credited(s, c.ms, o)
  <2> SUFFICES ASSUME NEW i \in DOMAIN old, NEW v \in Nodes, F!Flies(s.ms, o, i, v),
                      s.vs[v].connected, F!holdsGoal(s.vs, old[i])
               PROVE  items[i].state # "pending" /\ items[i].node = v
    BY <1>7 DEF Credited, old
  <2>1. old[i].state = "flying" /\ old[i].node = v
    BY DEF F!Flies, old
  <2> QED
    BY <1>2, <1>5, <2>1, CollectedIs
<1>12. ASSUME NEW p \in Owners \ {o}
       PROVE  Untouched(s, c, p)
  <2> SUFFICES ASSUME NEW i \in DOMAIN s.ms[p].items, NEW v \in Nodes, F!Flies(s.ms, p, i, v)
               PROVE  c.vs[v] = s.vs[v]
    BY <1>7 DEF Untouched
  <2>1. ~\E j \in DOMAIN old : old[j].node = v /\ F!Arrived(s.vs, old[j])
    <3> SUFFICES ASSUME NEW j \in DOMAIN old, old[j].node = v, F!Arrived(s.vs, old[j])
                 PROVE  FALSE
      OBVIOUS
    <3>1. F!Flies(s.ms, o, j, v)
      BY DEF F!Arrived, F!Flies, old
    <3> QED
      BY <1>1, <3>1 DEF Alone, old
  <2> QED
    BY <1>4, <2>1
<1> QED
  BY <1>1, <1>6, <1>7, <1>8, <1>9, <1>10, <1>11, <1>12 DEF Sound, c, old

\* A leader that leads now is one of the swarm's nodes.
LEMMA ElectedIs ==
  ASSUME F!FlightAssumption, NEW fleet \in [Nodes -> Vehicles], NEW m \in Missions,
         F!electedLeaderFor(fleet, m) # None
  PROVE  F!electedLeaderFor(fleet, m) \in Nodes
<1>1. Nodes \subseteq Nat
  BY FlightFacts
<1>2. CASE F!Asked(fleet, m) # {}
  <2>1. F!Asked(fleet, m) \subseteq Nodes
    BY MissionFacts DEF F!Asked
  <2>2. F!FirstAsked(fleet, m) \in F!Asked(fleet, m)
    BY <1>1, <1>2, <2>1, LeastIs DEF F!FirstAsked
  <2>3. fleet[F!FirstAsked(fleet, m)].leaderID \in Nodes \cup {None}
    BY <2>1, <2>2 DEF Vehicles
  <2>4. fleet[F!FirstAsked(fleet, m)].leaderID # None
    BY <2>2 DEF F!Asked, F!LeadsNow
  <2> QED
    BY <1>2, <2>3, <2>4 DEF F!electedLeaderFor
<1>3. CASE F!Asked(fleet, m) = {}
  <2> DEFINE leaders == {v \in Nodes : F!LeadsNow(fleet, v)}
  <2>1. leaders # {} /\ F!electedLeaderFor(fleet, m) = F!Least(leaders)
    BY <1>3 DEF F!electedLeaderFor
  <2>2. leaders \in SUBSET Nat /\ leaders \subseteq Nodes
    BY <1>1
  <2> HIDE DEF leaders
  <2> QED
    BY <2>1, <2>2, LeastIs
<1> QED
  BY <1>2, <1>3

LEMMA MigrateKeeps ==
  ASSUME F!FlightAssumption, NEW s, Sound(s), NEW o \in Owners
  PROVE  LET t == F!migrate(s, o)
         IN  /\ Sound(t) /\ t.vs = s.vs /\ t.ms[o].items = s.ms[o].items
             /\ \A p \in Owners \ {o} : t.ms[p] = s.ms[p]
<1> DEFINE t == F!migrate(s, o)
<1> DEFINE m == s.ms[o]
<1> DEFINE elected == F!electedLeaderFor(s.vs, m)
<1>1. s.vs \in [Nodes -> Vehicles] /\ s.ms \in [Owners -> Missions] /\ Alone(s.ms) /\ m \in Missions
  BY DEF Sound
<1>2. CASE t = s
  BY <1>2
<1>3. CASE t # s
  <2>1. elected # None /\ t = [s EXCEPT !.ms = F!Put(s.ms, o, [m EXCEPT !.exec = elected])]
    BY <1>3 DEF F!migrate
  <2> HIDE DEF elected
  <2>2. elected \in Nodes
    BY <1>1, <2>1, ElectedIs DEF elected
  <2> DEFINE moved == [m EXCEPT !.exec = elected]
  <2>3. moved \in Missions /\ moved.items = m.items
    BY <1>1, <2>2, MissionSteps
  <2> HIDE DEF moved, m, t
  <2>4. F!Put(s.ms, o, moved) \in [Owners -> Missions] /\ F!Put(s.ms, o, moved)[o] = moved
        /\ \A p \in Owners \ {o} : F!Put(s.ms, o, moved)[p] = s.ms[p]
    BY <1>1, <2>3 DEF F!Put
  <2>5. t.vs = s.vs /\ t.ms = F!Put(s.ms, o, moved)
    BY <2>1 DEF moved
  <2>6. \A p \in Owners : t.ms[p].items = s.ms[p].items
    BY <2>3, <2>4, <2>5 DEF m
  <2>7. Alone(t.ms)
    <3>1. \A p \in Owners : \A i \in DOMAIN t.ms[p].items : \A v \in Nodes :
             F!Flies(t.ms, p, i, v) => F!Flies(s.ms, p, i, v)
      BY <2>6 DEF F!Flies
    <3> QED
      BY <1>1, <3>1, FewerFlights
  <2>8. Sound(t)
    BY <1>1, <2>4, <2>5, <2>7 DEF Sound
  <2> QED
    BY <2>4, <2>5, <2>6, <2>8 DEF t
<1> QED
  BY <1>2, <1>3

-----------------------------------------------------------------------------
(* assignItems, item by item. *)

\* The loop of assignItems, begun in c, has passed the first k items of o and is in w.
Loop(c, o, w, k) ==
  /\ Sound(w) /\ w.halted \in BOOLEAN
  /\ \A p \in Owners \ {o} : w.ms[p] = c.ms[p]
  /\ Len(w.ms[o].items) = Len(c.ms[o].items)
  /\ \A j \in DOMAIN c.ms[o].items :
       c.ms[o].items[j].state # "pending" \/ j > k => w.ms[o].items[j] = c.ms[o].items[j]
  /\ Ordered(c.ms[o].items, w.ms[o].items)
  /\ ~w.halted => \A i \in 1..k : w.ms[o].items[i].state # "pending"
  /\ \A p \in Owners : \A i \in DOMAIN c.ms[p].items : \A v \in Nodes :
       F!Flies(c.ms, p, i, v) => w.vs[v] = c.vs[v]

\* The vehicle that is handed an item flies no other.
LEMMA IdleIs ==
  ASSUME NEW w, Sound(w), NEW o \in Owners, NEW v \in F!Idle(w, o)
  PROVE  /\ v \in Nodes
         /\ \A p \in Owners : \A i \in DOMAIN w.ms[p].items : ~F!Flies(w.ms, p, i, v)
<1>1. v \in w.ms[o].members /\ v \notin F!busyNodes(w.ms)
  BY DEF F!Idle
<1>2. v \in Nodes
  BY <1>1, MissionFacts DEF Sound
<1>3. ASSUME NEW p \in Owners, NEW i \in DOMAIN w.ms[p].items, F!Flies(w.ms, p, i, v)
      PROVE  FALSE
  <2>1. w.ms[p].items[i].state = "flying" /\ w.ms[p].items[i].node = v
    BY <1>3 DEF F!Flies
  <2> QED
    BY <1>1, <2>1 DEF F!busyNodes
<1> QED
  BY <1>2, <1>3

\* One item replaced, which waited before: what the loop keeps but for who flies what.
LEMMA ItemTaken ==
  ASSUME NEW c, NEW o \in Owners, NEW w, NEW k \in DOMAIN c.ms[o].items,
         c.ms \in [Owners -> Missions], Loop(c, o, w, k - 1), ~w.halted,
         w.ms[o].items[k].state = "pending",
         NEW it \in FlightItems, it.state # "pending", NEW ms, ms = F!WithItem(w.ms, o, k, it)
  PROVE  /\ ms \in [Owners -> Missions]
         /\ \A p \in Owners \ {o} : ms[p] = c.ms[p] /\ ms[p] = w.ms[p]
         /\ Len(ms[o].items) = Len(c.ms[o].items)
         /\ \A j \in DOMAIN c.ms[o].items :
              /\ c.ms[o].items[j].state # "pending" \/ j > k => ms[o].items[j] = c.ms[o].items[j]
              /\ ms[o].items[j] = IF j = k THEN it ELSE w.ms[o].items[j]
         /\ Ordered(c.ms[o].items, ms[o].items)
         /\ \A i \in 1..k : ms[o].items[i].state # "pending"
<1> DEFINE old == c.ms[o].items
<1> DEFINE mid == w.ms[o].items
<1> DEFINE new == ms[o].items
<1>1. /\ Len(old) \in Nat /\ DOMAIN old = 1..Len(old) /\ k \in Nat
      /\ w.ms \in [Owners -> Missions] /\ Len(mid) = Len(old)
      /\ mid \in Seq(FlightItems) /\ DOMAIN mid = 1..Len(mid)
  BY MissionFacts DEF Loop, Sound
<1>2. /\ ms \in [Owners -> Missions] /\ Len(new) = Len(old)
      /\ \A j \in DOMAIN old : new[j] = IF j = k THEN it ELSE mid[j]
      /\ \A p \in Owners \ {o} : ms[p] = w.ms[p]
  <2>1. k \in DOMAIN mid
    BY <1>1
  <2>2. /\ F!WithItem(w.ms, o, k, it) \in [Owners -> Missions]
        /\ Len(F!WithItem(w.ms, o, k, it)[o].items) = Len(mid)
        /\ \A j \in DOMAIN mid : F!WithItem(w.ms, o, k, it)[o].items[j] = IF j = k THEN it ELSE mid[j]
        /\ \A p \in Owners \ {o} : F!WithItem(w.ms, o, k, it)[p] = w.ms[p]
    <3>1. w.ms \in [Owners -> Missions] /\ k \in DOMAIN w.ms[o].items /\ it \in FlightItems
      BY <1>1, <2>1
    <3> QED
      BY ONLY <3>1, o \in Owners, WithItemIs
  <2>3. DOMAIN mid = DOMAIN old
    BY <1>1
  <2> HIDE DEF mid, old
  <2> QED
    BY <1>1, <2>2, <2>3
<1>3. /\ \A p \in Owners \ {o} : w.ms[p] = c.ms[p]
      /\ \A j \in DOMAIN old : old[j].state # "pending" \/ j > k - 1 => mid[j] = old[j]
      /\ Ordered(old, mid)
      /\ \A i \in 1..(k - 1) : mid[i].state # "pending"
  BY DEF Loop
<1> HIDE DEF old, mid, new
<1>4. k \in DOMAIN old /\ mid[k].state = "pending" /\ old[k].state = "pending"
  <2>1. k \in DOMAIN old /\ mid[k].state = "pending"
    BY DEF old, mid
  <2>2. k > k - 1
    BY <1>1
  <2>3. mid[k] = old[k]
    BY <1>3, <2>1, <2>2
  <2> QED
    BY <2>1, <2>3
<1>5. \A j \in DOMAIN old : old[j].state # "pending" \/ j > k => new[j] = old[j]
  <2> SUFFICES ASSUME NEW j \in DOMAIN old, old[j].state # "pending" \/ j > k
               PROVE  new[j] = old[j]
    OBVIOUS
  <2>1. j # k /\ (old[j].state # "pending" \/ j > k - 1)
    BY <1>1, <1>4
  <2> QED
    BY <1>2, <1>3, <2>1
<1>6. \A i \in 1..k : new[i].state # "pending"
  <2> SUFFICES ASSUME NEW i \in 1..k
               PROVE  new[i].state # "pending"
    OBVIOUS
  <2>1. i \in DOMAIN old /\ (i = k \/ i \in 1..(k - 1))
    BY <1>1, <1>4
  <2> QED
    BY <1>2, <1>3, <2>1
<1>7. Ordered(old, new)
  <2> SUFFICES ASSUME NEW j \in DOMAIN old, old[j].state = "pending", new[j].state # "pending",
                      NEW i \in 1..(j - 1)
               PROVE  new[i].state # "pending"
    BY DEF Ordered
  <2>1. i \in DOMAIN old
    BY <1>1
  <2>2. CASE j = k
    <3>1. i \in 1..k
      BY <1>1, <2>2
    <3> QED
      BY <1>6, <3>1
  <2>3. CASE j # k
    <3>1. mid[j].state # "pending"
      BY <1>2, <2>3
    <3>2. mid[i].state # "pending"
      BY <1>3, <3>1 DEF Ordered
    <3> QED
      BY <1>2, <2>1, <3>2
  <2> QED
    BY <2>2, <2>3
<1> QED
  BY <1>2, <1>3, <1>5, <1>6, <1>7 DEF old, new, mid

\* What was in flight in c is in flight still.
LEMMA StillFlies ==
  ASSUME NEW c, NEW o \in Owners, NEW w, NEW k, Loop(c, o, w, k),
         c.ms \in [Owners -> Missions],
         NEW p \in Owners, NEW i \in DOMAIN c.ms[p].items, NEW v, F!Flies(c.ms, p, i, v)
  PROVE  i \in DOMAIN w.ms[p].items /\ F!Flies(w.ms, p, i, v)
<1>1. CASE p = o
  <2>1. w.ms[o].items[i] = c.ms[o].items[i]
    BY <1>1 DEF Loop, F!Flies
  <2>2. DOMAIN w.ms[o].items = DOMAIN c.ms[o].items
    BY MissionFacts DEF Loop, Sound
  <2> QED
    BY <1>1, <2>1, <2>2 DEF F!Flies
<1>2. CASE p # o
  BY <1>2 DEF Loop, F!Flies
<1> QED
  BY <1>1, <1>2

LEMMA AssignItemKeeps ==
  ASSUME F!FlightAssumption, NEW c, NEW o \in Owners, c.ms \in [Owners -> Missions],
         NEW k \in DOMAIN c.ms[o].items, NEW w, Loop(c, o, w, k - 1),
         NEW x \in F!AssignItem(w, o, k)
  PROVE  Loop(c, o, x, k)
<1> DEFINE it == w.ms[o].items[k]
<1>1. /\ Sound(w) /\ w.vs \in [Nodes -> Vehicles] /\ w.ms \in [Owners -> Missions]
      /\ w.halted \in BOOLEAN /\ k \in Nat
      /\ k \in DOMAIN w.ms[o].items /\ it \in FlightItems
  BY MissionFacts DEF Loop, Sound
<1>2. it = c.ms[o].items[k]
  <2>1. k > k - 1
    BY <1>1
  <2> QED
    BY <2>1 DEF Loop
<1> HIDE DEF it
\* A state that differs from w in halted alone.
<1>3. ASSUME x.vs = w.vs, x.ms = w.ms, x.halted \in BOOLEAN,
             ~x.halted => ~w.halted /\ it.state # "pending"
      PROVE  Loop(c, o, x, k)
  <2>1. Sound(x)
    BY <1>1, <1>3 DEF Sound
  <2>2. \A j \in DOMAIN c.ms[o].items :
          c.ms[o].items[j].state # "pending" \/ j > k => x.ms[o].items[j] = c.ms[o].items[j]
    <3>1. \A j \in DOMAIN c.ms[o].items : j > k => j > k - 1
      BY <1>1, MissionFacts
    <3> QED
      BY <1>3, <3>1 DEF Loop
  <2>3. ~x.halted => \A i \in 1..k : x.ms[o].items[i].state # "pending"
    <3>1. \A i \in 1..k : i = k \/ i \in 1..(k - 1)
      BY <1>1
    <3> QED
      BY <1>3, <3>1 DEF Loop, it
  <2> QED
    BY <1>3, <2>1, <2>2, <2>3 DEF Loop
<1>4. CASE x = w /\ (w.halted \/ it.state # "pending")
  BY <1>1, <1>3, <1>4
<1>5. CASE x = F!Wait(w)
  <2>1. x.vs = w.vs /\ x.ms = w.ms /\ x.halted = TRUE
    BY <1>5 DEF F!Wait
  <2> QED
    BY <1>3, <2>1
<1>6. ASSUME ~w.halted, it.state = "pending", it.pos = Skip,
             x = [w EXCEPT !.ms = F!WithItem(w.ms, o, k, [it EXCEPT !.state = "done"])]
      PROVE  Loop(c, o, x, k)
  <2> DEFINE done == [it EXCEPT !.state = "done"]
  <2>1. done \in FlightItems /\ done.state = "done"
    BY <1>1, ItemSteps
  <2>2. x.vs = w.vs /\ x.ms = F!WithItem(w.ms, o, k, done) /\ x.halted = w.halted
    BY <1>6
  <2> HIDE DEF done
  <2>3. /\ x.ms \in [Owners -> Missions]
        /\ \A p \in Owners \ {o} : x.ms[p] = c.ms[p] /\ x.ms[p] = w.ms[p]
        /\ Len(x.ms[o].items) = Len(c.ms[o].items)
        /\ \A j \in DOMAIN c.ms[o].items :
             /\ c.ms[o].items[j].state # "pending" \/ j > k => x.ms[o].items[j] = c.ms[o].items[j]
             /\ x.ms[o].items[j] = IF j = k THEN done ELSE w.ms[o].items[j]
        /\ Ordered(c.ms[o].items, x.ms[o].items)
        /\ \A i \in 1..k : x.ms[o].items[i].state # "pending"
    BY <1>6, <2>1, <2>2, ItemTaken DEF it
  <2>4. DOMAIN x.ms[o].items = DOMAIN c.ms[o].items
    BY <2>3, MissionFacts
  <2>5. DOMAIN w.ms[o].items = DOMAIN c.ms[o].items
    BY <1>1, MissionFacts DEF Loop
  <2>6. Alone(x.ms)
    <3>1. ASSUME NEW p \in Owners, NEW i \in DOMAIN x.ms[p].items, NEW v \in Nodes,
                 F!Flies(x.ms, p, i, v)
          PROVE  F!Flies(w.ms, p, i, v)
      <4>1. CASE p = o
        <5>1. i # k
          BY <2>1, <2>3, <2>4, <3>1, <4>1 DEF F!Flies
        <5> QED
          BY <2>3, <2>4, <2>5, <3>1, <4>1, <5>1 DEF F!Flies
      <4>2. CASE p # o
        BY <2>3, <3>1, <4>2 DEF F!Flies
      <4> QED
        BY <4>1, <4>2
    <3> QED
      BY <1>1, <3>1, FewerFlights DEF Sound
  <2>7. Sound(x)
    BY <1>1, <2>2, <2>3, <2>6 DEF Sound
  <2> QED
    BY <1>1, <2>2, <2>3, <2>7 DEF Loop
<1>7. ASSUME ~w.halted, it.state = "pending", it.pos # Skip,
             NEW v \in F!Idle(w, o), x = F!HandOut(w, o, k, v)
      PROVE  Loop(c, o, x, k)
  <2> DEFINE taken == [it EXCEPT !.state = "flying", !.node = v]
  <2>1. /\ v \in Nodes
        /\ \A p \in Owners : \A i \in DOMAIN w.ms[p].items : ~F!Flies(w.ms, p, i, v)
    BY <1>1, IdleIs
  <2>2. it.pos \in Places
    BY <1>1, <1>7, ItemFacts
  <2>3. taken \in FlightItems /\ taken.state = "flying" /\ taken.node = v
    <3>1. \A u \in Nodes : it.pos \in Places =>
            /\ [it EXCEPT !.state = "flying", !.node = u] \in FlightItems
            /\ [it EXCEPT !.state = "flying", !.node = u].state = "flying"
            /\ [it EXCEPT !.state = "flying", !.node = u].node = u
      BY <1>1, ItemSteps
    <3> QED
      BY <2>1, <2>2, <3>1
  <2>4. /\ x.vs = F!Put(w.vs, v, F!SentTo(w.vs[v], it.pos))
        /\ x.ms = F!WithItem(w.ms, o, k, taken) /\ x.halted = w.halted
    BY <1>7 DEF F!HandOut, it
  <2> HIDE DEF taken
  <2>5. /\ x.ms \in [Owners -> Missions]
        /\ \A p \in Owners \ {o} : x.ms[p] = c.ms[p] /\ x.ms[p] = w.ms[p]
        /\ Len(x.ms[o].items) = Len(c.ms[o].items)
        /\ \A j \in DOMAIN c.ms[o].items :
             /\ c.ms[o].items[j].state # "pending" \/ j > k => x.ms[o].items[j] = c.ms[o].items[j]
             /\ x.ms[o].items[j] = IF j = k THEN taken ELSE w.ms[o].items[j]
        /\ Ordered(c.ms[o].items, x.ms[o].items)
        /\ \A i \in 1..k : x.ms[o].items[i].state # "pending"
    BY <1>7, <2>3, <2>4, ItemTaken DEF it
  <2>6. DOMAIN x.ms[o].items = DOMAIN c.ms[o].items
    BY <2>5, MissionFacts
  <2>7. DOMAIN w.ms[o].items = DOMAIN c.ms[o].items
    BY <1>1, MissionFacts DEF Loop
  <2>8. /\ x.vs \in [Nodes -> Vehicles]
        /\ \A u \in Nodes : u # v => x.vs[u] = w.vs[u]
    <3>1. F!SentTo(w.vs[v], it.pos) \in Vehicles
      BY <1>1, <2>1, <2>2, VehicleSteps
    <3> QED
      BY <1>1, <2>4, <3>1 DEF F!Put
  <2>9. ASSUME NEW p \in Owners, NEW i \in DOMAIN x.ms[p].items, NEW u \in Nodes,
               F!Flies(x.ms, p, i, u)
        PROVE  \/ p = o /\ i = k /\ u = v
               \/ u # v /\ i \in DOMAIN w.ms[p].items /\ F!Flies(w.ms, p, i, u)
    <3>1. CASE p = o /\ i = k
      BY <2>3, <2>5, <2>6, <2>9, <3>1 DEF F!Flies
    <3>2. CASE p = o /\ i # k
      <4>1. i \in DOMAIN w.ms[p].items /\ F!Flies(w.ms, p, i, u)
        BY <2>5, <2>6, <2>7, <2>9, <3>2 DEF F!Flies
      <4> QED
        BY <2>1, <4>1
    <3>3. CASE p # o
      <4>1. i \in DOMAIN w.ms[p].items /\ F!Flies(w.ms, p, i, u)
        BY <2>5, <2>9, <3>3 DEF F!Flies
      <4> QED
        BY <2>1, <4>1
    <3> QED
      BY <3>1, <3>2, <3>3
  <2>10. Alone(x.ms)
    <3> SUFFICES ASSUME NEW u \in Nodes, NEW p \in Owners, NEW q \in Owners,
                        NEW i \in DOMAIN x.ms[p].items, NEW j \in DOMAIN x.ms[q].items,
                        F!Flies(x.ms, p, i, u), F!Flies(x.ms, q, j, u)
                 PROVE  p = q /\ i = j
      BY DEF Alone
    <3>1. CASE u = v
      BY <2>9, <3>1
    <3>2. CASE u # v
      <4>1. /\ i \in DOMAIN w.ms[p].items /\ F!Flies(w.ms, p, i, u)
            /\ j \in DOMAIN w.ms[q].items /\ F!Flies(w.ms, q, j, u)
        BY <2>9, <3>2
      <4> QED
        BY <1>1, <4>1 DEF Sound, Alone
    <3> QED
      BY <3>1, <3>2
  <2>11. Sound(x)
    BY <2>5, <2>8, <2>10 DEF Sound
  <2>12. ASSUME NEW p \in Owners, NEW i \in DOMAIN c.ms[p].items, NEW u \in Nodes,
                F!Flies(c.ms, p, i, u)
         PROVE  x.vs[u] = c.vs[u]
    <3>1. i \in DOMAIN w.ms[p].items /\ F!Flies(w.ms, p, i, u)
      BY <2>12, StillFlies
    <3>2. u # v
      BY <2>1, <3>1
    <3>3. w.vs[u] = c.vs[u]
      BY <2>12 DEF Loop
    <3> QED
      BY <2>8, <3>2, <3>3
  <2> QED
    BY <1>1, <2>4, <2>5, <2>11, <2>12 DEF Loop
<1> QED
  <2>1. CASE w.halted \/ it.state # "pending"
    BY <1>4, <2>1 DEF F!AssignItem, it
  <2>2. CASE ~w.halted /\ it.state = "pending" /\ it.pos = Skip
    BY <1>6, <2>2 DEF F!AssignItem, it
  <2>3. CASE ~w.halted /\ it.state = "pending" /\ it.pos # Skip /\ F!Idle(w, o) = {}
    BY <1>5, <2>3 DEF F!AssignItem, it
  <2>4. CASE ~w.halted /\ it.state = "pending" /\ it.pos # Skip /\ F!Idle(w, o) # {}
    <3>1. \E v \in F!Idle(w, o) : x = F!HandOut(w, o, k, v)
      BY <2>4 DEF F!AssignItem, it
    <3> QED
      BY <1>7, <2>4, <3>1
  <2> QED
    BY <2>1, <2>2, <2>3, <2>4

-----------------------------------------------------------------------------
(* A mission's turn, and a pass over all of them. *)

\* Where the loop of assignItems begins.
Begun(c, o) ==
  [vs |-> c.vs, halted |-> ~c.ms[o].started,
   ms |-> F!Put(c.ms, o, [c.ms[o] EXCEPT !.members = F!execMembers(c.vs, c.ms[o])])]

\* The sets assignItems goes through, item by item.
LEMMA AssignItemsAre ==
  ASSUME NEW c, NEW o, Len(c.ms[o].items) \in Nat
  PROVE  \E f : /\ F!assignItems(c, o) = {[vs |-> u.vs, ms |-> u.ms] : u \in f[Len(c.ms[o].items)]}
                /\ f[0] = {Begun(c, o)}
                /\ \A i \in 1..Len(c.ms[o].items) :
                     f[i] = UNION {F!AssignItem(u, o, i) : u \in f[i - 1]}
<1> DEFINE size == Len(c.ms[o].items)
<1> DEFINE Fits(f, m) ==
      f = [i \in 0..m |-> IF i = 0 THEN {Begun(c, o)}
                          ELSE UNION {F!AssignItem(u, o, i) : u \in f[i - 1]}]
<1> DEFINE Unfit == {m \in Nat : ~\E f : Fits(f, m)}
<1>1. Unfit = {}
  <2> SUFFICES ASSUME Unfit # {}
               PROVE  FALSE
    OBVIOUS
  <2>1. Unfit \in SUBSET Nat
    OBVIOUS
  <2>2. PICK m \in Unfit : \A j \in Unfit : ~(<<j, m>> \in OpToRel(<, Nat))
    <3> HIDE DEF Unfit
    <3> QED
      BY <2>1, WFMin, NatLessThanWellFounded
  <2>3. m \in Nat /\ ~\E f : Fits(f, m)
    OBVIOUS
  <2>4. CASE m = 0
    <3>1. Fits([i \in 0..0 |-> {Begun(c, o)}], 0)
      OBVIOUS
    <3> QED
      BY <2>3, <2>4, <3>1
  <2>5. CASE m # 0
    <3>1. m - 1 \in Nat /\ m - 1 < m
      BY <2>3, <2>5
    <3>2. m - 1 \notin Unfit
      BY <2>2, <2>3, <3>1 DEF OpToRel
    <3>3. PICK f : Fits(f, m - 1)
      BY <3>1, <3>2
    <3> DEFINE g == [i \in 0..m |-> IF i = m THEN UNION {F!AssignItem(u, o, m) : u \in f[m - 1]}
                                    ELSE f[i]]
    <3>4. ASSUME NEW i \in 0..m
          PROVE  g[i] = IF i = 0 THEN {Begun(c, o)}
                        ELSE UNION {F!AssignItem(u, o, i) : u \in g[i - 1]}
      <4>1. i = 0 => f[i] = {Begun(c, o)} /\ i # m
        BY <2>5, <3>1, <3>3
      <4>2. i # 0 => i - 1 \in 0..m /\ i - 1 # m
        BY <2>3
      <4>3. i # 0 /\ i # m => i \in 0..(m - 1)
        BY <2>3
      <4>4. i # 0 /\ i # m => f[i] = UNION {F!AssignItem(u, o, i) : u \in f[i - 1]}
        BY <3>3, <4>3
      <4> HIDE DEF Fits
      <4> QED
        BY <4>1, <4>2, <4>4
    <3>5. Fits(g, m)
      BY <3>4
    <3> QED
      BY <2>3, <3>5
  <2> QED
    BY <2>4, <2>5
<1> DEFINE f == CHOOSE f : Fits(f, size)
<1>2. Fits(f, size)
  <2>1. \E g : Fits(g, size)
    BY <1>1
  <2> HIDE DEF Fits
  <2> QED
    BY <2>1
<1>3. F!assignItems(c, o) = {[vs |-> u.vs, ms |-> u.ms] : u \in f[size]}
  BY DEF F!assignItems, Begun
<1> HIDE DEF f
<1>4. f[0] = {Begun(c, o)}
  BY <1>2
<1>5. \A i \in 1..size : f[i] = UNION {F!AssignItem(u, o, i) : u \in f[i - 1]}
  <2> SUFFICES ASSUME NEW i \in 1..size
               PROVE  f[i] = UNION {F!AssignItem(u, o, i) : u \in f[i - 1]}
    OBVIOUS
  <2>1. i \in 0..size /\ i # 0
    OBVIOUS
  <2>2. f[i] = IF i = 0 THEN {Begun(c, o)} ELSE UNION {F!AssignItem(u, o, i) : u \in f[i - 1]}
    BY <1>2, <2>1
  <2> QED
    BY <2>1, <2>2
<1> QED
  BY <1>3, <1>4, <1>5

LEMMA LoopBegins ==
  ASSUME F!FlightAssumption, NEW c, Sound(c), NEW o \in Owners, F!Stored(c.ms, o)
  PROVE  Loop(c, o, Begun(c, o), 0)
<1> DEFINE m == c.ms[o]
<1> DEFINE manning == F!execMembers(c.vs, m)
<1> DEFINE manned == [m EXCEPT !.members = manning]
<1> DEFINE w == Begun(c, o)
<1>1. c.vs \in [Nodes -> Vehicles] /\ c.ms \in [Owners -> Missions] /\ Alone(c.ms) /\ m \in Missions
  BY DEF Sound
<1>2. m.exec \in Nodes /\ m.started \in BOOLEAN
  BY <1>1, MissionFacts DEF F!Stored
<1>3. manning \subseteq Nodes
  BY <1>2 DEF F!execMembers
<1> HIDE DEF manning
<1>4. manned \in Missions /\ manned.items = m.items
  BY <1>1, <1>3, MissionSteps
<1>5. w.vs = c.vs /\ w.halted = ~m.started /\ w.ms = F!Put(c.ms, o, manned)
  BY DEF Begun, manning
<1> HIDE DEF w, manned
<1>6. /\ w.ms \in [Owners -> Missions] /\ w.ms[o] = manned
      /\ \A p \in Owners \ {o} : w.ms[p] = c.ms[p]
  BY <1>1, <1>4, <1>5 DEF F!Put
<1> HIDE DEF m
<1>7. \A p \in Owners : w.ms[p].items = c.ms[p].items
  BY <1>4, <1>6 DEF m
<1>8. Alone(w.ms)
  <2>1. \A p \in Owners : \A i \in DOMAIN w.ms[p].items : \A v \in Nodes :
           F!Flies(w.ms, p, i, v) => F!Flies(c.ms, p, i, v)
    BY <1>7 DEF F!Flies
  <2> QED
    BY <1>1, <2>1, FewerFlights
<1>9. Sound(w)
  BY <1>1, <1>5, <1>6, <1>8 DEF Sound
<1>10. Ordered(c.ms[o].items, w.ms[o].items)
  BY <1>7 DEF Ordered
<1> QED
  BY <1>2, <1>5, <1>6, <1>7, <1>9, <1>10 DEF Loop, w

LEMMA AssignItemsKeep ==
  ASSUME F!FlightAssumption, NEW c, Sound(c), NEW o \in Owners, F!Stored(c.ms, o),
         NEW t \in F!assignItems(c, o)
  PROVE  \E u : t.vs = u.vs /\ t.ms = u.ms /\ Loop(c, o, u, Len(c.ms[o].items))
<1> DEFINE size == Len(c.ms[o].items)
<1>1. /\ c.ms \in [Owners -> Missions] /\ size \in Nat /\ DOMAIN c.ms[o].items = 1..size
  BY MissionFacts DEF Sound
<1>2. PICK f : /\ F!assignItems(c, o) = {[vs |-> u.vs, ms |-> u.ms] : u \in f[size]}
               /\ f[0] = {Begun(c, o)}
               /\ \A i \in 1..size : f[i] = UNION {F!AssignItem(u, o, i) : u \in f[i - 1]}
  BY <1>1, AssignItemsAre
<1> DEFINE Good(i) == \A u \in f[i] : Loop(c, o, u, i)
<1> DEFINE Unfit == {i \in 0..size : ~Good(i)}
<1>3. Unfit = {}
  <2> SUFFICES ASSUME Unfit # {}
               PROVE  FALSE
    OBVIOUS
  <2>1. Unfit \in SUBSET Nat
    OBVIOUS
  <2>2. PICK m \in Unfit : \A j \in Unfit : ~(<<j, m>> \in OpToRel(<, Nat))
    <3> HIDE DEF Unfit
    <3> QED
      BY <2>1, WFMin, NatLessThanWellFounded
  <2>3. m \in 0..size /\ ~Good(m)
    OBVIOUS
  <2>4. CASE m = 0
    BY <1>2, <2>3, <2>4, LoopBegins
  <2>5. CASE m # 0
    <3>1. m - 1 \in 0..size /\ m - 1 \in Nat /\ m - 1 < m /\ m \in Nat /\ m \in 1..size
      BY <1>1, <2>3, <2>5
    <3>2. m - 1 \notin Unfit
      <4> HIDE DEF Unfit
      <4> QED
        BY <2>2, <3>1 DEF OpToRel
    <3>3. Good(m - 1)
      BY <3>1, <3>2
    <3>4. Good(m)
      <4> SUFFICES ASSUME NEW x \in f[m]
                   PROVE  Loop(c, o, x, m)
        OBVIOUS
      <4>1. PICK u \in f[m - 1] : x \in F!AssignItem(u, o, m)
        BY <1>2, <3>1
      <4>2. Loop(c, o, u, m - 1)
        BY <3>3
      <4>3. m \in DOMAIN c.ms[o].items
        BY <1>1, <3>1
      <4> QED
        BY <1>1, <4>1, <4>2, <4>3, AssignItemKeeps
    <3> QED
      BY <2>3, <3>4
  <2> QED
    BY <2>4, <2>5
<1>4. PICK u \in f[size] : t = [vs |-> u.vs, ms |-> u.ms]
  BY <1>2
<1>5. Loop(c, o, u, size)
  <2>1. size \in 0..size
    BY <1>1
  <2> QED
    BY <1>3, <1>4, <2>1
<1> QED
  BY <1>4, <1>5

LEMMA TurnIs ==
  ASSUME F!FlightAssumption, NEW s, Sound(s), NEW o \in Owners, F!Stored(s.ms, o),
         NEW t \in F!assignItems(F!migrate(F!collectArrivals(s, o), o), o)
  PROVE  Turn(s, t, o)
<1> DEFINE c == F!collectArrivals(s, o)
<1> DEFINE d == F!migrate(c, o)
<1>1. /\ Sound(c) /\ Len(c.ms[o].items) = Len(s.ms[o].items)
      /\ \A i \in DOMAIN s.ms[o].items :
           s.ms[o].items[i].state = "pending" => c.ms[o].items[i].state = "pending"
      /\ Credited(s, c.ms, o)
      /\ \A p \in Owners \ {o} : Untouched(s, c, p)
  BY CollectKeeps
<1> HIDE DEF c
<1>2. /\ Sound(d) /\ d.vs = c.vs /\ d.ms[o].items = c.ms[o].items
      /\ \A p \in Owners \ {o} : d.ms[p] = c.ms[p]
  BY <1>1, MigrateKeeps
<1>3. t \in F!assignItems(d, o)
  BY DEF c
<1> HIDE DEF d
<1> DEFINE old == s.ms[o].items
<1> DEFINE mid == c.ms[o].items
<1> DEFINE new == t.ms[o].items
<1>4. /\ s.ms \in [Owners -> Missions] /\ Len(old) \in Nat /\ DOMAIN old = 1..Len(old)
      /\ Len(mid) \in Nat /\ DOMAIN mid = 1..Len(mid) /\ Len(mid) = Len(old)
  BY <1>1, MissionFacts DEF Sound
<1>5. F!Stored(d.ms, o)
  BY <1>1, <1>2, <1>4 DEF F!Stored
<1>6. PICK u : t.vs = u.vs /\ t.ms = u.ms /\ Loop(d, o, u, Len(d.ms[o].items))
  BY <1>2, <1>3, <1>5, AssignItemsKeep
<1>7. Sound(t)
  BY <1>6 DEF Loop, Sound
<1>8. /\ \A p \in Owners \ {o} : t.ms[p] = c.ms[p]
      /\ Len(new) = Len(mid)
      /\ \A j \in DOMAIN mid : mid[j].state # "pending" => new[j] = mid[j]
      /\ Ordered(mid, new)
  BY <1>2, <1>6 DEF Loop
<1>9. \A p \in Owners : \A i \in DOMAIN d.ms[p].items : \A v \in Nodes :
        F!Flies(d.ms, p, i, v) => t.vs[v] = d.vs[v]
  BY <1>6 DEF Loop
<1>10. Ordered(old, new)
  <2> SUFFICES ASSUME NEW j \in DOMAIN old, old[j].state = "pending", new[j].state # "pending",
                      NEW i \in 1..(j - 1)
               PROVE  new[i].state # "pending"
    BY DEF Ordered
  <2>1. j \in DOMAIN mid /\ mid[j].state = "pending"
    BY <1>1, <1>4
  <2> HIDE DEF old, mid, new
  <2> QED
    BY <1>8, <2>1 DEF Ordered
<1>11. Credited(s, t.ms, o)
  <2> SUFFICES ASSUME NEW i \in DOMAIN old, NEW v \in Nodes, F!Flies(s.ms, o, i, v),
                      s.vs[v].connected, F!holdsGoal(s.vs, old[i])
               PROVE  new[i].state # "pending" /\ new[i].node = v
    BY DEF Credited
  <2>1. mid[i].state # "pending" /\ mid[i].node = v
    BY <1>1 DEF Credited
  <2>2. i \in DOMAIN mid
    BY <1>4
  <2>3. new[i] = mid[i]
    BY <1>8, <2>1, <2>2
  <2> QED
    BY <2>1, <2>3
<1>12. ASSUME NEW p \in Owners \ {o}
       PROVE  Untouched(s, t, p)
  <2>1. Untouched(s, c, p) /\ t.ms[p] = c.ms[p] /\ d.ms[p] = c.ms[p]
    BY <1>1, <1>2, <1>8
  <2> SUFFICES ASSUME NEW i \in DOMAIN s.ms[p].items, NEW v \in Nodes, F!Flies(s.ms, p, i, v)
               PROVE  t.vs[v] = s.vs[v]
    BY <2>1 DEF Untouched
  <2>2. i \in DOMAIN d.ms[p].items /\ F!Flies(d.ms, p, i, v) /\ c.vs[v] = s.vs[v]
    BY <2>1 DEF Untouched, F!Flies
  <2> QED
    BY <1>2, <1>9, <2>2
<1> QED
  BY <1>4, <1>7, <1>8, <1>10, <1>11, <1>12 DEF Turn, Served

-----------------------------------------------------------------------------
(* A pass of runMissions. *)

\* Mission o's turn in a pass.
Turned(u, o) ==
  IF o \in Owners /\ F!Stored(u.ms, o)
  THEN F!assignItems(F!migrate(F!collectArrivals(u, o), o), o) ELSE {u}

\* The sets runMissions goes through, owner by owner.
LEMMA RunMissionsAre ==
  ASSUME F!FlightAssumption, NEW s
  PROVE  \E f : /\ F!runMissions(s) = f[F!LastNode] /\ f[0] = {s}
                /\ \A o \in 1..F!LastNode : f[o] = UNION {Turned(u, o) : u \in f[o - 1]}
<1> DEFINE size == F!LastNode
<1>0. size \in Nat
  BY FlightFacts
<1> DEFINE Fits(f, m) ==
      f = [i \in 0..m |-> IF i = 0 THEN {s} ELSE UNION {Turned(u, i) : u \in f[i - 1]}]
<1> DEFINE Unfit == {m \in Nat : ~\E f : Fits(f, m)}
<1>1. Unfit = {}
  <2> SUFFICES ASSUME Unfit # {}
               PROVE  FALSE
    OBVIOUS
  <2>1. Unfit \in SUBSET Nat
    OBVIOUS
  <2>2. PICK m \in Unfit : \A j \in Unfit : ~(<<j, m>> \in OpToRel(<, Nat))
    <3> HIDE DEF Unfit
    <3> QED
      BY <2>1, WFMin, NatLessThanWellFounded
  <2>3. m \in Nat /\ ~\E f : Fits(f, m)
    OBVIOUS
  <2>4. CASE m = 0
    <3>1. Fits([i \in 0..0 |-> {s}], 0)
      OBVIOUS
    <3> QED
      BY <2>3, <2>4, <3>1
  <2>5. CASE m # 0
    <3>1. m - 1 \in Nat /\ m - 1 < m
      BY <2>3, <2>5
    <3>2. m - 1 \notin Unfit
      BY <2>2, <2>3, <3>1 DEF OpToRel
    <3>3. PICK f : Fits(f, m - 1)
      BY <3>1, <3>2
    <3> DEFINE g == [i \in 0..m |-> IF i = m THEN UNION {Turned(u, m) : u \in f[m - 1]} ELSE f[i]]
    <3>4. ASSUME NEW i \in 0..m
          PROVE  g[i] = IF i = 0 THEN {s} ELSE UNION {Turned(u, i) : u \in g[i - 1]}
      <4>1. i = 0 => f[i] = {s} /\ i # m
        BY <2>5, <3>1, <3>3
      <4>2. i # 0 => i - 1 \in 0..m /\ i - 1 # m
        BY <2>3
      <4>3. i # 0 /\ i # m => i \in 0..(m - 1)
        BY <2>3
      <4>4. i # 0 /\ i # m => f[i] = UNION {Turned(u, i) : u \in f[i - 1]}
        BY <3>3, <4>3
      <4> HIDE DEF Fits
      <4> QED
        BY <4>1, <4>2, <4>4
    <3>5. Fits(g, m)
      BY <3>4
    <3> QED
      BY <2>3, <3>5
  <2> QED
    BY <2>4, <2>5
<1> DEFINE f == CHOOSE f : Fits(f, size)
<1>2. Fits(f, size)
  <2>1. \E g : Fits(g, size)
    BY <1>0, <1>1
  <2> HIDE DEF Fits
  <2> QED
    BY <2>1
<1>3. F!runMissions(s) = f[size]
  BY DEF F!runMissions, Turned
<1> HIDE DEF f
<1>4. f[0] = {s}
  BY <1>0, <1>2
<1>5. \A i \in 1..size : f[i] = UNION {Turned(u, i) : u \in f[i - 1]}
  <2> SUFFICES ASSUME NEW i \in 1..size
               PROVE  f[i] = UNION {Turned(u, i) : u \in f[i - 1]}
    OBVIOUS
  <2>1. i \in 0..size /\ i # 0
    BY <1>0
  <2>2. f[i] = IF i = 0 THEN {s} ELSE UNION {Turned(u, i) : u \in f[i - 1]}
    BY <1>2, <2>1
  <2> QED
    BY <2>1, <2>2
<1> QED
  BY <1>3, <1>4, <1>5

\* Before its turn a mission is as it was; after its turn it has been served.
Halfway(s, u, n) ==
  /\ Sound(u)
  /\ \A p \in Owners : (p > n => Untouched(s, u, p)) /\ (p <= n => Served(s, u, p))

LEMMA UntouchedServes ==
  ASSUME NEW s, Sound(s), NEW u, NEW x, NEW p \in Owners, Untouched(s, u, p), Served(u, x, p)
  PROVE  Served(s, x, p)
<1>1. u.ms[p] = s.ms[p]
  BY DEF Untouched
<1>2. Len(x.ms[p].items) = Len(s.ms[p].items) /\ Ordered(s.ms[p].items, x.ms[p].items)
  BY <1>1 DEF Served
<1>3. Credited(s, x.ms, p)
  <2> SUFFICES ASSUME NEW i \in DOMAIN s.ms[p].items, NEW v \in Nodes, F!Flies(s.ms, p, i, v),
                      s.vs[v].connected, F!holdsGoal(s.vs, s.ms[p].items[i])
               PROVE  x.ms[p].items[i].state # "pending" /\ x.ms[p].items[i].node = v
    BY DEF Credited
  <2>1. u.vs[v] = s.vs[v] /\ F!Flies(u.ms, p, i, v) /\ s.ms[p].items[i].node = v
    BY <1>1 DEF Untouched, F!Flies
  <2>2. u.vs[v].connected /\ F!holdsGoal(u.vs, u.ms[p].items[i])
    BY <1>1, <2>1 DEF F!holdsGoal
  <2> QED
    BY <1>1, <2>1, <2>2 DEF Served, Credited
<1> QED
  BY <1>2, <1>3 DEF Served

LEMMA StillServes ==
  ASSUME NEW s, NEW p \in Owners, s.ms \in [Owners -> Missions]
  PROVE  Served(s, s, p)
BY DEF Served, Ordered, Credited, F!Flies

LEMMA HalfwayOn ==
  ASSUME F!FlightAssumption, NEW s, Sound(s), NEW n \in Nat \ {0}, NEW u, Halfway(s, u, n - 1),
         NEW x \in Turned(u, n)
  PROVE  Halfway(s, x, n)
<1>1. Owners \subseteq Nat
  BY FlightFacts
<1>2. Sound(u)
  BY DEF Halfway
<1>3. \A p \in Owners : /\ p > n - 1 => Untouched(s, u, p)
                        /\ p <= n - 1 => Served(s, u, p)
  BY DEF Halfway
<1>4. \A p \in Owners : /\ p > n => p > n - 1 /\ p # n
                        /\ p <= n => p <= n - 1 \/ p = n
                        /\ p = n => p > n - 1
  BY <1>1
<1>5. CASE n \in Owners /\ F!Stored(u.ms, n)
  <2>1. Turn(u, x, n)
    BY <1>2, <1>5, TurnIs DEF Turned
  <2>2. Sound(x) /\ Served(u, x, n) /\ \A p \in Owners \ {n} : Untouched(u, x, p)
    BY <2>1 DEF Turn
  <2>3. ASSUME NEW p \in Owners, p > n
        PROVE  Untouched(s, x, p)
    <3>1. Untouched(s, u, p) /\ Untouched(u, x, p)
      BY <1>3, <1>4, <2>2, <2>3
    <3> QED
      BY <3>1 DEF Untouched, F!Flies
  <2>4. ASSUME NEW p \in Owners, p <= n
        PROVE  Served(s, x, p)
    <3>1. CASE p = n
      <4>1. Untouched(s, u, p)
        BY <1>3, <1>4, <3>1
      <4> QED
        BY <2>2, <3>1, <4>1, UntouchedServes
    <3>2. CASE p # n
      <4>1. Served(s, u, p) /\ x.ms[p] = u.ms[p]
        BY <1>3, <1>4, <2>2, <2>4, <3>2 DEF Untouched
      <4> QED
        BY <4>1 DEF Served, Credited
    <3> QED
      BY <3>1, <3>2
  <2> QED
    BY <2>2, <2>3, <2>4 DEF Halfway
<1>6. CASE ~(n \in Owners /\ F!Stored(u.ms, n))
  <2>1. x = u
    BY <1>6 DEF Turned
  <2>2. ASSUME NEW p \in Owners, p = n
        PROVE  Served(s, u, p)
    <3>1. Untouched(s, u, p) /\ Served(u, u, p)
      BY <1>2, <1>3, <1>4, <2>2, StillServes DEF Sound
    <3> QED
      BY <3>1, UntouchedServes
  <2> QED
    BY <1>2, <1>3, <1>4, <2>1, <2>2 DEF Halfway
<1> QED
  BY <1>5, <1>6

LEMMA PassKeeps ==
  ASSUME F!FlightAssumption, NEW s, Sound(s), NEW t \in F!runMissions(s)
  PROVE  Sound(t) /\ \A p \in Owners : Served(s, t, p)
<1> DEFINE size == F!LastNode
<1>1. size \in Nat /\ Owners \subseteq 1..size
  BY FlightFacts
<1>2. PICK f : /\ F!runMissions(s) = f[size] /\ f[0] = {s}
               /\ \A o \in 1..size : f[o] = UNION {Turned(u, o) : u \in f[o - 1]}
  BY RunMissionsAre
<1> HIDE DEF size
<1> DEFINE Good(i) == \A u \in f[i] : Halfway(s, u, i)
<1> DEFINE Unfit == {i \in 0..size : ~Good(i)}
<1>3. Unfit = {}
  <2> SUFFICES ASSUME Unfit # {}
               PROVE  FALSE
    OBVIOUS
  <2>1. Unfit \in SUBSET Nat
    OBVIOUS
  <2>2. PICK m \in Unfit : \A j \in Unfit : ~(<<j, m>> \in OpToRel(<, Nat))
    <3> HIDE DEF Unfit
    <3> QED
      BY <2>1, WFMin, NatLessThanWellFounded
  <2>3. m \in 0..size /\ ~Good(m)
    OBVIOUS
  <2>4. CASE m = 0
    <3>1. \A p \in Owners : p > 0 /\ ~(p <= 0)
      BY <1>1
    <3>2. \A p \in Owners : Untouched(s, s, p)
      BY DEF Untouched
    <3>3. Halfway(s, s, 0)
      BY <3>1, <3>2 DEF Halfway
    <3> QED
      BY <1>2, <2>3, <2>4, <3>3
  <2>5. CASE m # 0
    <3>1. m - 1 \in 0..size /\ m - 1 \in Nat /\ m - 1 < m /\ m \in Nat \ {0} /\ m \in 1..size
      BY <1>1, <2>3, <2>5
    <3>2. m - 1 \notin Unfit
      <4> HIDE DEF Unfit
      <4> QED
        BY <2>2, <3>1 DEF OpToRel
    <3>3. Good(m - 1)
      BY <3>1, <3>2
    <3>4. Good(m)
      <4> SUFFICES ASSUME NEW x \in f[m]
                   PROVE  Halfway(s, x, m)
        OBVIOUS
      <4>1. PICK u \in f[m - 1] : x \in Turned(u, m)
        BY <1>2, <3>1
      <4>2. Halfway(s, u, m - 1)
        BY <3>3
      <4> QED
        BY <3>1, <4>1, <4>2, HalfwayOn
    <3> QED
      BY <2>3, <3>4
  <2> QED
    BY <2>4, <2>5
<1>4. Halfway(s, t, size)
  <2>1. size \in 0..size
    BY <1>1
  <2> QED
    BY <1>2, <1>3, <2>1
<1>5. \A p \in Owners : p <= size
  BY <1>1
<1> QED
  BY <1>4, <1>5 DEF Halfway

-----------------------------------------------------------------------------
(* Every step of a flight. *)

\* What HandedInOrder and SurvivorsKeepLegs say of a step.
InOrder ==
  \A o \in Owners : \A j \in DOMAIN mission[o].items :
    ( /\ mission[o].items[j].state = "pending"
      /\ j \in DOMAIN mission'[o].items /\ mission'[o].items[j].state # "pending" ) =>
    \A i \in 1..(j - 1) : mission'[o].items[i].state # "pending"

LegsOn ==
  \A o \in Owners : \A i \in DOMAIN mission[o].items : \A v \in Nodes :
    ( /\ F!Flies(mission, o, i, v) /\ vehicle[v].connected /\ vehicle'[v].connected
      /\ F!holdsGoal(vehicle, mission[o].items[i]) /\ vehicle'[v].target # Elsewhere
      /\ F!Stored(mission', o) /\ installs' = installs ) =>
    mission'[o].items[i].state # "pending" /\ mission'[o].items[i].node = v

WellFlown == FlightInv' /\ InOrder /\ LegsOn

LEMMA FlightParts ==
  ASSUME FlightInv
  PROVE  /\ vehicle \in [Nodes -> Vehicles] /\ mission \in [Owners -> Missions]
         /\ Alone(mission) /\ installs \in Nat
         /\ \A o \in Owners : /\ mission[o] \in Missions /\ mission[o].items \in Seq(FlightItems)
                              /\ Len(mission[o].items) \in Nat
                              /\ DOMAIN mission[o].items = 1..Len(mission[o].items)
                              /\ \A i \in DOMAIN mission[o].items : mission[o].items[i] \in FlightItems
<1>1. /\ vehicle \in [Nodes -> Vehicles] /\ mission \in [Owners -> Missions]
      /\ Alone(mission) /\ installs \in Nat
  BY DEF FlightInv, Sound
<1> QED
  BY <1>1, MissionFacts

LEMMA FlightJoins ==
  ASSUME vehicle' \in [Nodes -> Vehicles], mission' \in [Owners -> Missions], Alone(mission'),
         installs' \in Nat
  PROVE  FlightInv'
BY DEF FlightInv, Sound

\* A step that leaves every mission as it is.
LEMMA MissionsStand ==
  ASSUME FlightInv, vehicle' \in [Nodes -> Vehicles], UNCHANGED <<mission, installs>>
  PROVE  WellFlown
<1>1. FlightInv'
  BY FlightParts, FlightJoins
<1>2. InOrder
  BY DEF InOrder
<1>3. LegsOn
  BY DEF LegsOn, F!Flies
<1> QED
  BY <1>1, <1>2, <1>3 DEF WellFlown

\* The items a vehicle flies go back in the pool; the others stay as they are.
LEMMA ReleaseKeeps ==
  ASSUME FlightInv, NEW v \in Nodes, mission' = F!releaseItems(mission, v),
         vehicle' \in [Nodes -> Vehicles], UNCHANGED installs,
         ~vehicle'[v].connected \/ vehicle'[v].target = Elsewhere
  PROVE  WellFlown
<1> DEFINE old(o) == mission[o].items
<1> DEFINE new(o) == [i \in DOMAIN old(o) |-> IF F!Flies(mission, o, i, v) THEN F!Released(old(o)[i])
                                              ELSE old(o)[i]]
<1>1. mission' = [o \in Owners |-> [mission[o] EXCEPT !.items = new(o)]]
  BY DEF F!releaseItems
<1>2. ASSUME NEW o \in Owners
      PROVE  /\ mission'[o] \in Missions /\ mission'[o].items = new(o)
             /\ DOMAIN new(o) = DOMAIN old(o)
             /\ \A i \in DOMAIN old(o) :
                  /\ ~F!Flies(mission, o, i, v) => new(o)[i] = old(o)[i]
                  /\ F!Flies(mission, o, i, v) => new(o)[i].state = "pending"
  <2>1. /\ mission[o] \in Missions /\ old(o) \in Seq(FlightItems) /\ Len(old(o)) \in Nat
        /\ DOMAIN old(o) = 1..Len(old(o)) /\ \A i \in DOMAIN old(o) : old(o)[i] \in FlightItems
    BY FlightParts
  <2>2. \A i \in DOMAIN old(o) : F!Released(old(o)[i]) \in FlightItems /\ F!Released(old(o)[i]).state = "pending"
    BY <2>1, ItemSteps
  <2>3. new(o) \in Seq(FlightItems) /\ Len(new(o)) = Len(old(o))
    <3>1. new(o) \in [1..Len(old(o)) -> FlightItems]
      BY <2>1, <2>2
    <3> QED
      BY <2>1, <3>1
  <2>4. /\ DOMAIN new(o) = DOMAIN old(o)
        /\ \A i \in DOMAIN old(o) :
             /\ ~F!Flies(mission, o, i, v) => new(o)[i] = old(o)[i]
             /\ F!Flies(mission, o, i, v) => new(o)[i].state = "pending"
    BY <2>2
  <2> HIDE DEF old, new
  <2>5. mission[o] \in Missions
    BY FlightParts
  <2>6. /\ [mission[o] EXCEPT !.items = new(o)] \in Missions
        /\ [mission[o] EXCEPT !.items = new(o)].items = new(o)
    BY <2>3, <2>5, MissionSteps DEF old
  <2>7. mission'[o] = [mission[o] EXCEPT !.items = new(o)]
    BY <1>1
  <2> QED
    BY <2>4, <2>6, <2>7
<1> HIDE DEF new
<1>3. mission' \in [Owners -> Missions]
  BY <1>1, <1>2
<1>4. Alone(mission')
  <2>1. ASSUME NEW o \in Owners, NEW i \in DOMAIN mission'[o].items, NEW w \in Nodes,
               F!Flies(mission', o, i, w)
        PROVE  F!Flies(mission, o, i, w)
    <3>1. i \in DOMAIN old(o) /\ new(o)[i].state = "flying" /\ mission'[o].items[i] = new(o)[i]
      BY <1>2, <2>1 DEF F!Flies
    <3>2. new(o)[i] = old(o)[i]
      BY <1>2, <3>1
    <3> QED
      BY <2>1, <3>1, <3>2 DEF F!Flies
  <2> QED
    BY <2>1, FewerFlights, FlightParts
<1>5. InOrder
  <2> SUFFICES ASSUME NEW o \in Owners, NEW j \in DOMAIN old(o), old(o)[j].state = "pending"
               PROVE  mission'[o].items[j].state = "pending"
    BY DEF InOrder
  <2>1. ~F!Flies(mission, o, j, v)
    BY DEF F!Flies
  <2> QED
    BY <1>2, <2>1
<1>6. LegsOn
  <2> SUFFICES ASSUME NEW o \in Owners, NEW i \in DOMAIN old(o), NEW w \in Nodes,
                      F!Flies(mission, o, i, w), vehicle'[w].connected, vehicle'[w].target # Elsewhere
               PROVE  mission'[o].items[i].state # "pending" /\ mission'[o].items[i].node = w
    BY DEF LegsOn
  <2>1. w # v
    OBVIOUS
  <2>2. ~F!Flies(mission, o, i, v) /\ old(o)[i].state = "flying" /\ old(o)[i].node = w
    BY <2>1 DEF F!Flies
  <2> QED
    BY <1>2, <2>2
<1> QED
  BY <1>3, <1>4, <1>5, <1>6, FlightParts, FlightJoins DEF WellFlown

LEMMA ClearedVehicles ==
  ASSUME FlightInv, NEW o
  PROVE  F!clearAssignments(vehicle, mission, o) \in [Nodes -> Vehicles]
<1>1. \A v \in Nodes : vehicle[v] \in Vehicles
  BY FlightParts
<1>2. \A v \in Nodes : [vehicle[v] EXCEPT !.target = None, !.reached = FALSE] \in Vehicles
  BY <1>1, VehicleSteps
<1> QED
  BY <1>1, <1>2 DEF F!clearAssignments

\* A mission replaced by one of which nothing flies, or by none.
LEMMA ReplacedKeeps ==
  ASSUME FlightInv, NEW o \in Owners, NEW m \in Missions, mission' = [mission EXCEPT ![o] = m],
         \A i \in DOMAIN m.items : m.items[i].state = "pending",
         m.items # <<>> => installs' # installs,
         vehicle' \in [Nodes -> Vehicles], installs' \in Nat
  PROVE  WellFlown
<1>1. /\ mission' \in [Owners -> Missions] /\ mission'[o] = m
      /\ \A p \in Owners \ {o} : mission'[p] = mission[p]
  BY FlightParts
<1>2. Alone(mission')
  <2>1. ASSUME NEW p \in Owners, NEW i \in DOMAIN mission'[p].items, NEW v \in Nodes,
               F!Flies(mission', p, i, v)
        PROVE  F!Flies(mission, p, i, v)
    <3>1. p # o
      BY <1>1, <2>1 DEF F!Flies
    <3> QED
      BY <1>1, <2>1, <3>1 DEF F!Flies
  <2> QED
    BY <2>1, FewerFlights, FlightParts
<1>3. InOrder
  <2> SUFFICES ASSUME NEW p \in Owners, NEW j \in DOMAIN mission[p].items,
                      mission[p].items[j].state = "pending",
                      j \in DOMAIN mission'[p].items, mission'[p].items[j].state # "pending"
               PROVE  FALSE
    BY DEF InOrder
  <2> QED
    BY <1>1
<1>4. LegsOn
  <2> SUFFICES ASSUME NEW p \in Owners, NEW i \in DOMAIN mission[p].items, NEW v \in Nodes,
                      F!Flies(mission, p, i, v), F!Stored(mission', p), installs' = installs
               PROVE  mission'[p].items[i].state # "pending" /\ mission'[p].items[i].node = v
    BY DEF LegsOn
  <2>1. p # o
    BY <1>1 DEF F!Stored
  <2> QED
    BY <1>1, <2>1 DEF F!Flies
<1> QED
  BY <1>1, <1>2, <1>3, <1>4, FlightJoins DEF WellFlown

LEMMA InstallKeeps ==
  ASSUME F!FlightAssumption, FlightInv, NEW o \in Owners, NEW p \in Flown, F!installMission(o, p)
  PROVE  WellFlown
<1> DEFINE items == [i \in DOMAIN p |-> F!FreshItem(p[i])]
<1> DEFINE m == [exec |-> o, leaderMission |-> vehicle[o].leader, started |-> FALSE,
                 members |-> {}, items |-> items]
<1>1. /\ mission' = [mission EXCEPT ![o] = m] /\ installs' = installs + 1
      /\ vehicle' = F!clearAssignments(vehicle, mission, o)
  BY DEF F!installMission
<1>2. p \in Seq(Places \cup {Skip}) /\ Len(p) \in Nat /\ DOMAIN p = 1..Len(p)
  BY DEF F!FlightAssumption
<1>3. /\ items \in Seq(FlightItems)
      /\ \A i \in DOMAIN items : items[i].state = "pending"
  <2>1. \A i \in DOMAIN p : F!FreshItem(p[i]) \in FlightItems /\ F!FreshItem(p[i]).state = "pending"
    BY <1>2 DEF F!FreshItem, FlightItems
  <2>2. items \in [1..Len(p) -> FlightItems]
    BY <1>2, <2>1
  <2> QED
    BY <1>2, <2>1, <2>2
<1> HIDE DEF items
<1>4. o \in Nodes /\ vehicle[o] \in Vehicles
  BY FlightFacts, FlightParts
<1>5. vehicle[o].leader \in BOOLEAN
  BY <1>4 DEF Vehicles
<1>6. m \in Missions /\ m.items = items
  BY <1>3, <1>4, <1>5 DEF Missions
<1> HIDE DEF m
<1>7. installs' \in Nat /\ installs' # installs
  BY <1>1, FlightParts
<1> QED
  BY <1>1, <1>3, <1>6, <1>7, ReplacedKeeps, ClearedVehicles

LEMMA ClearKeeps ==
  ASSUME F!FlightAssumption, FlightInv, NEW o \in Owners, F!clearMission(o)
  PROVE  WellFlown
<1>1. F!NoMission \in Missions /\ F!NoMission.items = <<>>
  BY DEF F!NoMission, Missions
<1>2. \A i \in DOMAIN F!NoMission.items : F!NoMission.items[i].state = "pending"
  BY <1>1
<1>3. /\ mission' = [mission EXCEPT ![o] = F!NoMission] /\ installs' = installs
      /\ vehicle' = F!clearAssignments(vehicle, mission, o)
  BY DEF F!clearMission
<1> QED
  BY <1>1, <1>2, <1>3, ReplacedKeeps, ClearedVehicles, FlightParts

LEMMA SetCurrentKeeps ==
  ASSUME F!FlightAssumption, FlightInv, NEW o \in Owners, NEW k \in DOMAIN mission[o].items,
         F!onMissionSetCurrent(o, k)
  PROVE  WellFlown
<1> DEFINE old == mission[o].items
<1> DEFINE new == [j \in DOMAIN old |-> IF j < k /\ old[j].state = "pending"
                                        THEN [old[j] EXCEPT !.state = "done"] ELSE old[j]]
<1>1. mission' = F!WithItems(mission, o, new) /\ vehicle' = vehicle /\ installs' = installs
  BY DEF F!onMissionSetCurrent
<1>2. /\ mission \in [Owners -> Missions] /\ old \in Seq(FlightItems) /\ Len(old) \in Nat
      /\ DOMAIN old = 1..Len(old) /\ \A i \in DOMAIN old : old[i] \in FlightItems
  BY FlightParts
<1>3. \A i \in DOMAIN old : /\ [old[i] EXCEPT !.state = "done"] \in FlightItems
                            /\ [old[i] EXCEPT !.state = "done"].state = "done"
  BY <1>2, ItemSteps
<1>4. new \in Seq(FlightItems) /\ Len(new) = Len(old)
  <2>1. new \in [1..Len(old) -> FlightItems]
    BY <1>2, <1>3
  <2> QED
    BY <1>2, <2>1
<1>5. \A j \in DOMAIN old : /\ j < k /\ old[j].state = "pending" => new[j].state = "done"
                            /\ ~(j < k /\ old[j].state = "pending") => new[j] = old[j]
  BY <1>3
<1>6. k \in Nat /\ k \in DOMAIN old
  BY <1>2
<1> HIDE DEF old, new
<1>7. /\ mission' \in [Owners -> Missions] /\ mission'[o].items = new
      /\ \A p \in Owners \ {o} : mission'[p] = mission[p]
  BY <1>1, <1>2, <1>4, WithItemsIs DEF old
<1>8. Alone(mission')
  <2>1. ASSUME NEW p \in Owners, NEW i \in DOMAIN mission'[p].items, NEW v \in Nodes,
               F!Flies(mission', p, i, v)
        PROVE  F!Flies(mission, p, i, v)
    <3>1. CASE p = o
      <4>1. i \in DOMAIN old /\ new[i].state = "flying" /\ new[i].node = v
        BY <1>2, <1>4, <1>7, <2>1, <3>1 DEF F!Flies
      <4>2. new[i] = old[i]
        BY <1>5, <4>1
      <4> QED
        BY <3>1, <4>1, <4>2 DEF F!Flies, old
    <3>2. CASE p # o
      BY <1>7, <2>1, <3>2 DEF F!Flies
    <3> QED
      BY <3>1, <3>2
  <2> QED
    BY <2>1, FewerFlights, FlightParts
<1>9. InOrder
  <2> SUFFICES ASSUME NEW p \in Owners, NEW j \in DOMAIN mission[p].items,
                      mission[p].items[j].state = "pending",
                      mission'[p].items[j].state # "pending", NEW i \in 1..(j - 1)
               PROVE  mission'[p].items[i].state # "pending"
    BY DEF InOrder
  <2>1. p = o
    BY <1>7
  <2>2. j \in DOMAIN old /\ old[j].state = "pending" /\ new[j].state # "pending"
    BY <1>7, <2>1 DEF old
  <2>3. j < k
    BY <1>5, <2>2
  <2>4. i \in DOMAIN old /\ i < k
    BY <1>2, <1>6, <2>2, <2>3
  <2>5. new[i].state # "pending"
    BY <1>5, <2>4
  <2> QED
    BY <1>7, <2>1, <2>5
<1>10. LegsOn
  <2> SUFFICES ASSUME NEW p \in Owners, NEW i \in DOMAIN mission[p].items, NEW v \in Nodes,
                      F!Flies(mission, p, i, v)
               PROVE  mission'[p].items[i].state # "pending" /\ mission'[p].items[i].node = v
    BY DEF LegsOn
  <2>1. CASE p = o
    <3>1. i \in DOMAIN old /\ old[i].state = "flying" /\ old[i].node = v
      BY <2>1 DEF F!Flies, old
    <3>2. new[i] = old[i]
      BY <1>5, <3>1
    <3> QED
      BY <1>7, <2>1, <3>1, <3>2
  <2>2. CASE p # o
    BY <1>7, <2>2 DEF F!Flies
  <2> QED
    BY <2>1, <2>2
<1> QED
  BY <1>1, <1>7, <1>8, <1>9, <1>10, FlightParts, FlightJoins DEF WellFlown

\* A pass begun in s, which differs from the state in what has arrived or was started.
LEMMA PassFlown ==
  ASSUME F!FlightAssumption, FlightInv, NEW s, Sound(s),
         \A p \in Owners : s.ms[p].items = mission[p].items,
         \A v \in Nodes : s.vs[v].connected = vehicle[v].connected /\ s.vs[v].target = vehicle[v].target,
         NEW t \in F!runMissions(s), vehicle' = t.vs, mission' = t.ms, UNCHANGED installs
  PROVE  WellFlown
<1>1. Sound(t) /\ \A p \in Owners : Served(s, t, p)
  BY PassKeeps
<1>2. FlightInv'
  BY <1>1, FlightParts, FlightJoins DEF Sound
<1>3. InOrder
  <2> SUFFICES ASSUME NEW o \in Owners, NEW j \in DOMAIN mission[o].items,
                      mission[o].items[j].state = "pending", mission'[o].items[j].state # "pending",
                      NEW i \in 1..(j - 1)
               PROVE  mission'[o].items[i].state # "pending"
    BY DEF InOrder
  <2>1. Ordered(mission[o].items, mission'[o].items)
    BY <1>1 DEF Served
  <2> QED
    BY <2>1 DEF Ordered
<1>4. LegsOn
  <2> SUFFICES ASSUME NEW o \in Owners, NEW i \in DOMAIN mission[o].items, NEW v \in Nodes,
                      F!Flies(mission, o, i, v), vehicle[v].connected,
                      F!holdsGoal(vehicle, mission[o].items[i])
               PROVE  mission'[o].items[i].state # "pending" /\ mission'[o].items[i].node = v
    BY DEF LegsOn
  <2>1. Credited(s, mission', o)
    BY <1>1 DEF Served
  <2>2. F!Flies(s.ms, o, i, v) /\ i \in DOMAIN s.ms[o].items
    BY DEF F!Flies
  <2>3. s.vs[v].connected /\ F!holdsGoal(s.vs, s.ms[o].items[i])
    BY DEF F!Flies, F!holdsGoal
  <2> QED
    BY <2>1, <2>2, <2>3 DEF Credited
<1> QED
  BY <1>2, <1>3, <1>4 DEF WellFlown

LEMMA StartKeeps ==
  ASSUME F!FlightAssumption, FlightInv, NEW o \in Owners, F!cmdMissionStart(o)
  PROVE  WellFlown
<1> DEFINE ms == [mission EXCEPT ![o].started = TRUE]
<1> DEFINE s == [vs |-> vehicle, ms |-> ms]
<1>1. PICK t \in F!runMissions(s) : vehicle' = t.vs /\ mission' = t.ms /\ UNCHANGED installs
  BY DEF F!cmdMissionStart
<1>2. /\ vehicle \in [Nodes -> Vehicles] /\ mission \in [Owners -> Missions] /\ Alone(mission)
      /\ mission[o] \in Missions
  BY FlightParts
<1>3. [mission[o] EXCEPT !.started = TRUE] \in Missions
      /\ [mission[o] EXCEPT !.started = TRUE].items = mission[o].items
  BY <1>2 DEF Missions
<1>4. ms = [mission EXCEPT ![o] = [mission[o] EXCEPT !.started = TRUE]]
  OBVIOUS
<1> HIDE DEF ms
<1>5. ms \in [Owners -> Missions] /\ \A p \in Owners : ms[p].items = mission[p].items
  BY <1>2, <1>3, <1>4
<1>6. Alone(ms)
  <2>1. \A p \in Owners : \A i \in DOMAIN ms[p].items : \A v \in Nodes :
           F!Flies(ms, p, i, v) => F!Flies(mission, p, i, v)
    BY <1>5 DEF F!Flies
  <2> QED
    BY <1>2, <2>1, FewerFlights
<1>7. s.vs = vehicle /\ s.ms = ms
  OBVIOUS
<1>8. Sound(s)
  BY <1>2, <1>5, <1>6 DEF Sound
<1> HIDE DEF s
<1> QED
  BY <1>1, <1>5, <1>7, <1>8, PassFlown

LEMMA TickKeeps ==
  ASSUME F!FlightAssumption, FlightInv, F!Tick
  PROVE  WellFlown
<1>1. PICK arrived \in SUBSET {v \in Nodes : vehicle[v].connected /\ vehicle[v].target # None} :
        /\ \E t \in F!runMissions([ms |-> mission, vs |-> [v \in Nodes |->
             IF v \in arrived THEN [vehicle[v] EXCEPT !.reached = TRUE] ELSE vehicle[v]]]) :
             vehicle' = t.vs /\ mission' = t.ms
        /\ UNCHANGED installs
  BY DEF F!Tick
<1> DEFINE fleet == [v \in Nodes |->
             IF v \in arrived THEN [vehicle[v] EXCEPT !.reached = TRUE] ELSE vehicle[v]]
<1> DEFINE s == [ms |-> mission, vs |-> fleet]
<1>2. PICK t \in F!runMissions(s) : vehicle' = t.vs /\ mission' = t.ms
  BY <1>1
<1>3. /\ vehicle \in [Nodes -> Vehicles] /\ mission \in [Owners -> Missions] /\ Alone(mission)
  BY FlightParts
<1>4. \A v \in Nodes : /\ [vehicle[v] EXCEPT !.reached = TRUE] \in Vehicles
                       /\ [vehicle[v] EXCEPT !.reached = TRUE].connected = vehicle[v].connected
                       /\ [vehicle[v] EXCEPT !.reached = TRUE].target = vehicle[v].target
  <2>1. ASSUME NEW v \in Nodes
        PROVE  /\ [vehicle[v] EXCEPT !.reached = TRUE] \in Vehicles
               /\ [vehicle[v] EXCEPT !.reached = TRUE].connected = vehicle[v].connected
               /\ [vehicle[v] EXCEPT !.reached = TRUE].target = vehicle[v].target
    <3>1. vehicle[v] \in Vehicles
      BY <1>3
    <3> QED
      BY <3>1 DEF Vehicles
  <2> QED
    BY <2>1
<1>5. /\ fleet \in [Nodes -> Vehicles]
      /\ \A v \in Nodes : fleet[v].connected = vehicle[v].connected /\ fleet[v].target = vehicle[v].target
  BY <1>3, <1>4
<1> HIDE DEF fleet
<1>6. s.vs = fleet /\ s.ms = mission
  OBVIOUS
<1>7. Sound(s)
  BY <1>3, <1>5 DEF Sound
<1> HIDE DEF s
<1> QED
  BY <1>1, <1>2, <1>5, <1>6, <1>7, PassFlown

LEMMA VehicleOrders ==
  ASSUME F!FlightAssumption, FlightInv, NEW v \in Nodes, F!Arm(v) \/ F!Disarm(v) \/ F!TakeOver(v)
  PROVE  WellFlown
<1>1. vehicle \in [Nodes -> Vehicles] /\ vehicle[v] \in Vehicles
  BY FlightParts
<1>2. CASE F!Arm(v)
  <2>1. vehicle' \in [Nodes -> Vehicles]
    BY <1>1, <1>2 DEF F!Arm, Vehicles
  <2> QED
    BY <1>2, <2>1, MissionsStand DEF F!Arm
<1>3. CASE F!Disarm(v)
  <2>1. vehicle' \in [Nodes -> Vehicles]
    BY <1>1, <1>3 DEF F!Disarm, Vehicles
  <2> QED
    BY <1>3, <2>1, MissionsStand DEF F!Disarm
<1>4. CASE F!TakeOver(v)
  <2>1. vehicle' \in [Nodes -> Vehicles] /\ vehicle'[v].target = Elsewhere
    BY <1>1, <1>4 DEF F!TakeOver, Vehicles
  <2> QED
    BY <1>4, <2>1, ReleaseKeeps DEF F!TakeOver
<1> QED
  BY <1>2, <1>3, <1>4

LEMMA SnapshotKeeps ==
  ASSUME F!FlightAssumption, FlightInv, NEW v \in Nodes, F!applyNodes(v)
  PROVE  WellFlown
<1>1. vehicle \in [Nodes -> Vehicles] /\ vehicle[v] \in Vehicles /\ installs' = installs
  BY FlightParts DEF F!applyNodes
<1>2. CASE vehicle' = [vehicle EXCEPT ![v] = F!Unknown] /\ mission' = F!releaseItems(mission, v)
  <2>1. F!Unknown \in Vehicles /\ ~F!Unknown.connected
    BY DEF F!Unknown, Vehicles
  <2>2. vehicle' \in [Nodes -> Vehicles] /\ ~vehicle'[v].connected
    BY <1>1, <1>2, <2>1
  <2> QED
    BY <1>1, <1>2, <2>2, ReleaseKeeps
<1>3. CASE vehicle' = [vehicle EXCEPT ![v].connected = FALSE] /\ UNCHANGED mission
  <2>1. vehicle' \in [Nodes -> Vehicles]
    BY <1>1, <1>3 DEF Vehicles
  <2> QED
    BY <1>1, <1>3, <2>1, MissionsStand
<1>4. ASSUME NEW st \in F!Standing(v), UNCHANGED mission,
             vehicle' = [vehicle EXCEPT ![v].present = TRUE, ![v].connected = TRUE,
                                        ![v].leader = st[1], ![v].leaderID = st[2]]
      PROVE  WellFlown
  <2>1. st[1] \in BOOLEAN /\ st[2] \in Nodes \cup {None}
    <3>1. CASE st = <<TRUE, None>>
      BY <3>1
    <3>2. ASSUME NEW l \in (Nodes \ {v}) \cup {None}, st = <<FALSE, l>>
          PROVE  st[1] \in BOOLEAN /\ st[2] \in Nodes \cup {None}
      BY <3>2
    <3> QED
      BY <1>4, <3>1, <3>2 DEF F!Standing
  <2>2. vehicle' \in [Nodes -> Vehicles]
    BY <1>1, <1>4, <2>1 DEF Vehicles
  <2> QED
    BY <1>1, <1>4, <2>2, MissionsStand
<1> QED
  BY <1>2, <1>3, <1>4 DEF F!applyNodes

LEMMA FlightStep ==
  ASSUME F!FlightAssumption, FlightInv, [F!Next]_flight
  PROVE  WellFlown
<1>1. Owners \subseteq Nodes
  BY FlightFacts
<1>2. CASE \E o \in Owners : \/ \E p \in Flown : F!installMission(o, p)
                             \/ F!clearMission(o)
                             \/ \E i \in DOMAIN mission[o].items : F!onMissionSetCurrent(o, i)
                             \/ F!Arm(o) \/ F!cmdMissionStart(o)
  BY <1>1, <1>2, InstallKeeps, ClearKeeps, SetCurrentKeeps, VehicleOrders, StartKeeps
<1>3. CASE \E v \in Nodes : F!Disarm(v) \/ F!TakeOver(v) \/ F!applyNodes(v)
  BY <1>3, VehicleOrders, SnapshotKeeps
<1>4. CASE F!Tick
  BY <1>4, TickKeeps
<1>5. CASE UNCHANGED flight
  BY <1>5, MissionsStand, FlightParts DEF flight
<1> QED
  BY <1>2, <1>3, <1>4, <1>5 DEF F!Next

LEMMA FlightStarts ==
  ASSUME F!FlightAssumption, F!Init
  PROVE  FlightInv
<1>1. PICK L \in Leaders : \E f \in [Nodes \ L -> L] :
        vehicle = [v \in Nodes |-> [F!Unknown EXCEPT
          !.present = TRUE, !.connected = TRUE, !.leader = v \in L,
          !.leaderID = IF v \in L THEN None ELSE f[v]]]
  BY DEF F!Init
<1>2. PICK f \in [Nodes \ L -> L] :
        vehicle = [v \in Nodes |-> [F!Unknown EXCEPT
          !.present = TRUE, !.connected = TRUE, !.leader = v \in L,
          !.leaderID = IF v \in L THEN None ELSE f[v]]]
  BY <1>1
<1>3. vehicle \in [Nodes -> Vehicles]
  <2>1. ASSUME NEW v \in Nodes
        PROVE  vehicle[v] \in Vehicles
    <3>1. (IF v \in L THEN None ELSE f[v]) \in Nodes \cup {None}
      <4>1. L \subseteq Nodes
        BY FlightFacts
      <4> QED
        BY <4>1
    <3>2. \A b \in BOOLEAN : \A l \in Nodes \cup {None} :
            [F!Unknown EXCEPT !.present = TRUE, !.connected = TRUE, !.leader = b, !.leaderID = l]
              \in Vehicles
      BY DEF F!Unknown, Vehicles
    <3>3. (v \in L) \in BOOLEAN
      OBVIOUS
    <3> HIDE DEF F!Unknown
    <3> QED
      BY <1>2, <3>1, <3>2, <3>3
  <2> QED
    BY <1>2, <2>1
<1>4. F!NoMission \in Missions /\ F!NoMission.items = <<>>
  BY DEF F!NoMission, Missions
<1>5. mission \in [Owners -> Missions] /\ \A o \in Owners : mission[o].items = <<>>
  BY <1>4 DEF F!Init
<1>6. Alone(mission)
  BY <1>5 DEF Alone
<1> QED
  BY <1>3, <1>5, <1>6 DEF FlightInv, Sound, F!Init

LEMMA FlightIsSound ==
  ASSUME FlightInv
  PROVE  F!TypeOK /\ F!OneLeg
<1>1. vehicle \in [Nodes -> Vehicles] /\ Alone(mission)
      /\ \A o \in Owners : \A i \in DOMAIN mission[o].items : mission[o].items[i] \in FlightItems
  BY FlightParts
<1>2. F!TypeOK
  BY <1>1, ItemFacts DEF F!TypeOK, Vehicles
<1> QED
  BY <1>1, <1>2 DEF F!OneLeg, Alone

-----------------------------------------------------------------------------
(* The rest of the types of Motion and of GroundLink, which no other result *)
(* needs: modes and bounds, stations and counters.                          *)

MotionRest ==
  /\ idle \in Idles /\ leg \in {"flying", "over"} /\ (node.linked => node.listed)
  /\ spent \in [moves : 0..MaxMoves, flips : 0..MaxFlips, orders : 0..MaxOrders]

StationsOf(S) == [S -> [fails : 0..(MaxFails - 1), old : BOOLEAN]]

GroundRest ==
  /\ path \in [Station -> {"up", "refusing", "cut"}] /\ turns \in 0..MaxTurns
  /\ DOMAIN stations \subseteq Station /\ stations \in StationsOf(DOMAIN stations)
  /\ next \in [SysIDs -> 0..(SeqSize - 1)]

LEMMA RestStarts ==
  ASSUME FleetAssumption, M!Init, G!Init
  PROVE  MotionRest /\ GroundRest
<1>1. MotionRest
  BY DEF M!Init, MotionRest, FleetAssumption, M!MotionAssumption
<1>2. GroundRest
  BY DEF G!Init, GroundRest, StationsOf, FleetAssumption, G!GroundAssumption, SysIDs, G!SysIDs
<1> QED
  BY <1>1, <1>2

\* Whatever is spent stays within its bound.
LEMMA Spent ==
  ASSUME FleetAssumption, MotionRest,
         M!Spend("moves", MaxMoves) \/ M!Spend("flips", MaxFlips) \/ M!Spend("orders", MaxOrders)
  PROVE  spent' \in [moves : 0..MaxMoves, flips : 0..MaxFlips, orders : 0..MaxOrders]
<1>1. MaxMoves \in Nat /\ MaxFlips \in Nat /\ MaxOrders \in Nat
  BY DEF FleetAssumption, M!MotionAssumption
<1> QED
  BY <1>1 DEF M!Spend, MotionRest

LEMMA MotionRestKept ==
  ASSUME FleetAssumption, MotionInv, MotionRest, [M!Next]_motion
  PROVE  MotionRest'
<1>1. node \in Entries
  BY DEF MotionInv, MotionTypes
<1>2. CASE HubMoves
  <2>1. ASSUME NEW p, M!PlaceNode(p)
        PROVE  MotionRest'
    BY <1>1, <2>1, Spent DEF M!PlaceNode, MotionRest, Entries
  <2>2. CASE M!LinkNode
    BY <1>1, <2>2, Spent DEF M!LinkNode, MotionRest, Entries
  <2>3. CASE M!LoseNode
    BY <1>1, <2>3, Spent DEF M!LoseNode, MotionRest, Entries
  <2>4. CASE M!ExpireNode
    BY <1>1, <2>4, Spent DEF M!ExpireNode, MotionRest, Entries
  <2> QED
    BY <1>2, <2>1, <2>2, <2>3, <2>4 DEF HubMoves
<1>3. CASE M!Sync
  <2>1. UNCHANGED <<idle, spent>> /\ leg' \in {leg, "over"} /\ (node'.linked => node'.listed)
    BY <1>1, <1>3 DEF M!Sync, M!ReadNodes, M!ApplyNodes, M!SetPositions, MotionRest, Entries
  <2> QED
    BY <2>1 DEF MotionRest
<1>4. CASE LoopMoves
  <2>1. ASSUME NEW p, NEW mis, M!GiveTarget(p, mis)
        PROVE  MotionRest'
    BY <2>1, Spent DEF M!GiveTarget, MotionRest
  <2>2. CASE M!FlyStep \/ M!DriftStep \/ M!PatrolStep \/ M!CollectArrival \/ M!Disarm
    BY <2>2 DEF M!FlyStep, M!DriftStep, M!PatrolStep, M!CollectArrival, M!Disarm, MotionRest
  <2> QED
    BY <1>4, <2>1, <2>2 DEF LoopMoves
<1>5. CASE UNCHANGED motion
  BY <1>5 DEF motion, MotionRest
<1> QED
  BY <1>2, <1>3, <1>4, <1>5 DEF M!Next, HubMoves, M!Sync, LoopMoves

\* A message drops stations and counts on.
LEMMA SaysRest ==
  ASSUME FleetAssumption, GroundRest, NEW i, G!Says(i), UNCHANGED <<path, turns>>
  PROVE  GroundRest'
<1>1. SeqSize \in Nat \ {0}
  BY DEF FleetAssumption, G!GroundAssumption
<1>2. DOMAIN stations' \subseteq Station /\ stations' \in StationsOf(DOMAIN stations')
  <2>1. stations' = [s \in {k \in DOMAIN stations : ~stations[k].old} |-> stations[s]]
    BY DEF G!Says
  <2> QED
    BY <2>1 DEF GroundRest, StationsOf
<1>3. next' \in [SysIDs -> 0..(SeqSize - 1)]
  <2>1. next' = next \/ next' = [next EXCEPT ![i] = (next[i] + 1) % SeqSize]
    BY DEF G!Says, G!Counted
  <2>2. i \in SysIDs => next[i] + 1 \in Int
    BY <1>1 DEF GroundRest
  <2>3. i \in SysIDs => (next[i] + 1) % SeqSize \in 0..(SeqSize - 1)
    BY <1>1, <2>2
  <2> QED
    BY <2>1, <2>3 DEF GroundRest
<1> QED
  BY <1>2, <1>3 DEF GroundRest

\* A write that fails is counted, and the station dropped at the last count.
LEMMA FailedRest ==
  ASSUME FleetAssumption, GroundRest, NEW s
  PROVE  LET after == G!Failed(s)
         IN  DOMAIN after \subseteq Station /\ after \in StationsOf(DOMAIN after)
<1> DEFINE after == G!Failed(s)
<1>1. MaxFails \in Nat \ {0}
  BY DEF FleetAssumption, G!GroundAssumption
<1>2. /\ DOMAIN stations \subseteq Station
      /\ stations \in [DOMAIN stations -> [fails : 0..(MaxFails - 1), old : BOOLEAN]]
  BY DEF GroundRest, StationsOf
<1>3. CASE s \notin DOMAIN stations
  BY <1>2, <1>3 DEF G!Failed, StationsOf
<1>4. CASE s \in DOMAIN stations /\ stations[s].fails + 1 >= MaxFails
  <2>1. after = [k \in DOMAIN stations \ {s} |-> stations[k]]
    BY <1>4 DEF G!Failed
  <2> QED
    BY <1>2, <2>1 DEF StationsOf
<1>5. CASE s \in DOMAIN stations /\ ~(stations[s].fails + 1 >= MaxFails)
  <2>1. after = [stations EXCEPT ![s].fails = stations[s].fails + 1]
    BY <1>5 DEF G!Failed
  <2>2. stations[s] \in [fails : 0..(MaxFails - 1), old : BOOLEAN]
    BY <1>2, <1>5
  <2>3. stations[s].fails + 1 \in 0..(MaxFails - 1)
    BY <1>1, <1>5, <2>2
  <2>4. [stations[s] EXCEPT !.fails = stations[s].fails + 1] \in [fails : 0..(MaxFails - 1), old : BOOLEAN]
    BY <2>2, <2>3
  <2>5. after = [stations EXCEPT ![s] = [stations[s] EXCEPT !.fails = stations[s].fails + 1]]
    BY <2>1
  <2> QED
    BY <1>2, <2>4, <2>5 DEF StationsOf
<1> QED
  BY <1>3, <1>4, <1>5

LEMMA StationRest ==
  ASSUME FleetAssumption, GroundRest, NEW s \in Station,
         G!Hear(s) \/ G!FallsSilent(s) \/ G!PathTurns(s) \/ G!WriteTaken(s) \/ G!WriteFails(s)
  PROVE  GroundRest'
<1>1. /\ MaxFails \in Nat \ {0} /\ MaxTurns \in Nat
      /\ DOMAIN stations \subseteq Station
      /\ stations \in [DOMAIN stations -> [fails : 0..(MaxFails - 1), old : BOOLEAN]]
  BY DEF FleetAssumption, G!GroundAssumption, GroundRest, StationsOf
<1>2. CASE G!Hear(s)
  <2>1. [fails |-> 0, old |-> FALSE] \in [fails : 0..(MaxFails - 1), old : BOOLEAN]
    BY <1>1
  <2>2. \A k \in DOMAIN stations :
          [stations[k] EXCEPT !.old = stations[k].old /\ k # s] \in [fails : 0..(MaxFails - 1), old : BOOLEAN]
    BY <1>1
  <2>3. DOMAIN stations' \subseteq Station /\ stations' \in StationsOf(DOMAIN stations')
    BY <1>1, <1>2, <2>1, <2>2 DEF G!Hear, StationsOf
  <2> QED
    BY <1>2, <2>3 DEF G!Hear, GroundRest
<1>3. CASE G!FallsSilent(s)
  <2>1. s \in DOMAIN stations /\ stations' = [stations EXCEPT ![s].old = TRUE]
    BY <1>3 DEF G!FallsSilent
  <2>2. stations' \in StationsOf(DOMAIN stations') /\ DOMAIN stations' \subseteq Station
    BY <1>1, <2>1 DEF StationsOf
  <2> QED
    BY <1>3, <2>2 DEF G!FallsSilent, GroundRest
<1>4. CASE G!PathTurns(s)
  <2>1. turns' \in 0..MaxTurns
    BY <1>1, <1>4 DEF G!PathTurns, GroundRest
  <2>2. path' \in [Station -> {"up", "refusing", "cut"}]
    BY <1>4 DEF G!PathTurns, GroundRest
  <2>3. UNCHANGED <<stations, next>>
    BY <1>4 DEF G!PathTurns, G!loopVars
  <2> QED
    BY <2>1, <2>2, <2>3 DEF GroundRest
<1>5. CASE G!WriteTaken(s)
  <2>1. stations' = stations \/ (s \in DOMAIN stations /\ stations' = [stations EXCEPT ![s].fails = 0])
    BY <1>5 DEF G!WriteTaken
  <2>2. stations' \in StationsOf(DOMAIN stations') /\ DOMAIN stations' \subseteq Station
    BY <1>1, <2>1 DEF StationsOf
  <2> QED
    BY <1>5, <2>2 DEF G!WriteTaken, GroundRest
<1>6. CASE G!WriteFails(s)
  <2>1. stations' = G!Failed(s) \/ stations' = stations
    BY <1>6 DEF G!WriteFails
  <2>2. stations' \in StationsOf(DOMAIN stations') /\ DOMAIN stations' \subseteq Station
    BY <2>1, FailedRest DEF GroundRest
  <2> QED
    BY <1>6, <2>2 DEF G!WriteFails, GroundRest
<1> QED
  BY <1>2, <1>3, <1>4, <1>5, <1>6

LEMMA GroundRestKept ==
  ASSUME FleetAssumption, GroundRest, [G!Next]_ground
  PROVE  GroundRest'
<1>1. ASSUME NEW n \in Names, G!ApplyNode(n) \/ G!Tick(n) \/ G!OnEvent(n)
      PROVE  GroundRest'
  <2>1. CASE G!ApplyNode(n)
    BY <2>1 DEF G!ApplyNode, GroundRest
  <2>2. CASE G!Tick(n) \/ G!OnEvent(n)
    BY <2>2, SaysRest DEF G!Tick, G!OnEvent
  <2> QED
    BY <1>1, <2>1, <2>2
<1>2. ASSUME NEW s \in Station,
             G!Hear(s) \/ G!FallsSilent(s) \/ G!PathTurns(s) \/ G!WriteTaken(s) \/ G!WriteFails(s)
      PROVE  GroundRest'
  BY <1>2, StationRest
<1>3. CASE G!IcmpArrives \/ G!FeedTurns \/ UNCHANGED ground
  BY <1>3 DEF G!IcmpArrives, G!FeedTurns, G!loopVars, ground, GroundRest
<1>4. CASE G!OnLive \/ G!CheckLive
  <2>1. UNCHANGED <<path, turns>>
    BY <1>4 DEF G!OnLive, G!CheckLive
  <2>2. UNCHANGED <<stations, next>> \/ G!Says(sysid[Live])
    BY <1>4 DEF G!OnLive, G!CheckLive, G!Announces
  <2> QED
    BY <2>1, <2>2, SaysRest DEF GroundRest
<1> QED
  BY <1>1, <1>2, <1>3, <1>4 DEF G!Next

LEMMA RestIsTyped ==
  ASSUME MotionInv, MotionRest, GroundInv, GroundRest
  PROVE  M!TypeOK /\ G!TypeOK
<1>1. M!TypeOK
  BY DEF MotionInv, MotionTypes, MotionRest, M!TypeOK, Entries, Crafts, M!Line, Line
<1>2. G!TypeOK
  BY DEF GroundInv, WriteTypes, Messages, GroundRest, StationsOf, G!TypeOK, G!Known, Known, G!SysIDs, SysIDs
<1> QED
  BY <1>1, <1>2

-----------------------------------------------------------------------------
(* The theorems.                                                           *)

LEMMA MotionStep ==
  ASSUME FleetAssumption, MotionInv, [M!Next]_motion
  PROVE  /\ MotionInv'
         /\ craft # None /\ craft' # None /\ craft'.home # craft.home
              => lapsed \/ syncer.seen.by = "operator"
         /\ M!Tick /\ (craft.target # None \/ idle = "patrol") => M!Steps(craft, craft')
<1>1. M!Tick /\ (craft.target # None \/ idle = "patrol") => M!Steps(craft, craft')
  BY FlightSpeed
<1>2. CASE HubMoves
  BY <1>1, <1>2, HubKeeps DEF HubMoves, M!PlaceNode, M!LinkNode, M!LoseNode, M!ExpireNode
<1>3. CASE M!Sync
  BY <1>1, <1>3, SyncKeeps, OperatorsHome DEF M!Sync, M!ReadNodes, M!SetPositions
<1>4. CASE LoopMoves
  BY <1>1, <1>4, LoopKeeps
<1>5. CASE UNCHANGED motion
  BY <1>1, <1>5 DEF motion, MotionInv, MotionTypes, PushedKnown
<1> QED BY <1>2, <1>3, <1>4, <1>5 DEF M!Next, HubMoves, M!Sync, LoopMoves

\* The parts of a behaviour of MCSpec are behaviours of MissionFlight, Motion and GroundLink.
LEMMA Parts ==
  ASSUME [MCNext]_<<part, vars, flight, motion, ground>>
  PROVE  [F!Next]_flight /\ [M!Next]_motion /\ [G!Next]_ground
BY DEF MCNext

\* What the ground sees of a vehicle is true: homes, speeds, ids, numbers and stations, for
\* every swarm, line and bound (bridge.go applyNodes, send, mover.go, vehicles.go SysID).
THEOREM TracksAreTrue == MCSpec => TracksTrue
<1> USE FleetAssumption
<1> DEFINE MVars == <<part, vars, flight, motion, ground>>
<1>1. MCInit => MotionInv /\ GroundInv
  BY MotionStarts, GroundStarts DEF MCInit
<1>2. ASSUME MotionInv, GroundInv, [MCNext]_MVars
      PROVE  /\ MotionInv' /\ GroundInv'
             /\ [/\ craft # None /\ craft' # None
                 /\ craft'.home # craft.home
                 => lapsed \/ syncer.seen.by = "operator"]_M!vars
             /\ [M!Tick /\ (craft.target # None \/ idle = "patrol") => M!Steps(craft, craft')]_M!vars
             /\ [\A n \in G!Known : n \in DOMAIN sysid' /\ sysid'[n] = sysid[n]
                   /\ \A m \in DOMAIN sysid' \ {n} : sysid'[m] # sysid'[n]]_G!vars
             /\ [\A s \in DOMAIN stations :
                   s \notin DOMAIN stations' =>
                     stations[s].old \/ path[s] = "cut" \/ (out.at = s /\ out.failed = "cut")]_G!vars
  <2>1. [M!Next]_motion /\ [G!Next]_ground
    BY <1>2, Parts
  <2> QED BY <1>2, <2>1, MotionStep, GroundStep DEF KeepsIds, KeepsStations, G!Known, Known, GroundInv, IdsOnce
<1>3. GroundInv => G!NoFalseLoss
  BY DEF GroundInv
<1> QED BY <1>1, <1>2, <1>3, PTL DEF MCSpec, TracksTrue, M!AdoptsOnlyOperators, M!HoldsSpeed,
    G!OneAircraft, G!LiveStationKept

\* Types hold and no vehicle flies two items at once, of one mission or of two, for every
\* swarm, plan and bound (mission.go busyNodes, assignItems).
THEOREM FlightsAreSound == MCSpec => []FleetSound
<1> USE FleetAssumption
<1> DEFINE MVars == <<part, vars, flight, motion, ground>>
<1> DEFINE Inv == /\ FlightInv /\ MotionInv /\ MotionRest
                  /\ GroundInv /\ GroundRest
<1>1. MCInit => Inv
  BY FlightStarts, MotionStarts, GroundStarts, RestStarts DEF MCInit, FleetAssumption
<1>2. ASSUME Inv, [MCNext]_MVars
      PROVE  Inv'
  <2>1. [F!Next]_flight /\ [M!Next]_motion /\ [G!Next]_ground
    BY <1>2, Parts
  <2>2. FlightInv'
    BY <1>2, <2>1, FlightStep DEF WellFlown, FleetAssumption
  <2>3. MotionInv' /\ MotionRest' /\ GroundInv' /\ GroundRest'
    BY <1>2, <2>1, MotionStep, MotionRestKept, GroundStep, GroundRestKept
  <2> QED
    BY <2>2, <2>3
<1>3. Inv => FleetSound
  BY FlightIsSound, RestIsTyped DEF FleetSound
<1> QED
  BY <1>1, <1>2, <1>3, PTL DEF MCSpec

\* Items are handed out in order, and no election takes one from a vehicle that flies on to
\* it, for every swarm, plan and bound (mission.go assignItems, collectArrivals, migrate).
THEOREM LegsAreKept == MCSpec => LegsKept
<1> USE FleetAssumption
<1> DEFINE MVars == <<part, vars, flight, motion, ground>>
<1>1. MCInit => FlightInv
  BY FlightStarts DEF MCInit, FleetAssumption
<1>2. ASSUME FlightInv, [MCNext]_MVars
      PROVE  /\ FlightInv'
             /\ [\A o \in Owners : \A j \in DOMAIN mission[o].items :
                  ( /\ mission[o].items[j].state = "pending"
                    /\ j \in DOMAIN mission'[o].items /\ mission'[o].items[j].state # "pending" ) =>
                  \A i \in 1..(j - 1) : mission'[o].items[i].state # "pending"]_F!vars
             /\ [\A o \in Owners : \A i \in DOMAIN mission[o].items : \A v \in Nodes :
                  ( /\ F!Flies(mission, o, i, v) /\ vehicle[v].connected /\ vehicle'[v].connected
                    /\ F!holdsGoal(vehicle, mission[o].items[i]) /\ vehicle'[v].target # Elsewhere
                    /\ F!Stored(mission', o) /\ installs' = installs ) =>
                  mission'[o].items[i].state # "pending" /\ mission'[o].items[i].node = v]_F!vars
  <2>1. [F!Next]_flight
    BY <1>2, Parts
  <2>2. WellFlown
    BY <1>2, <2>1, FlightStep DEF FleetAssumption
  <2> QED
    BY <2>2 DEF WellFlown, InOrder, LegsOn
<1> QED
  BY <1>1, <1>2, PTL DEF MCSpec, LegsKept, F!HandedInOrder, F!SurvivorsKeepLegs
==============================================================================
