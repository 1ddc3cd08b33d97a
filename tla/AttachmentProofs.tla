--------------------------- MODULE AttachmentProofs ---------------------------
(***************************************************************************)
(* Safety of Attachment for every set of nodes, every outcome of the       *)
(* elections and every number of faults: who may lead workers, how often a *)
(* node asks again within a probe round, and which answers count.          *)
(***************************************************************************)
EXTENDS Attachment, SequenceTheorems, TLAPS

Links == [Node -> [Node -> Seq(Frame)]]

\* n's last JOIN went to m, and it or m's answer to it is under way on these links.
Asks(L, n, m) ==
  \/ \E i \in DOMAIN L[n][m] : L[n][m][i].type = "join" /\ L[n][m][i].current
  \/ \E i \in DOMAIN L[m][n] : L[m][n][i].type = "ack" /\ L[m][n][i].current

Asked(L, n) == \E m \in Node : Asks(L, n, m)

\* Links keep the order of frames, so of n's JOINs to m and m's answers to them, only
\* the one asked last may be current.
Ordered(L) ==
  \A n, m \in Node :
    /\ \A i, j \in DOMAIN L[n][m] :
         L[n][m][i].type = "join" /\ L[n][m][i].current /\ L[n][m][j].type = "join" => j <= i
    /\ \A i \in DOMAIN L[m][n] :
         L[m][n][i].type = "ack" /\ L[m][n][i].current =>
           /\ \A j \in DOMAIN L[n][m] : L[n][m][j].type # "join"
           /\ \A j \in DOMAIN L[m][n] : L[m][n][j].type = "ack" => j <= i

OneAsk(L) == \A n, m, k \in Node : Asks(L, n, m) /\ Asks(L, n, k) => m = k

NoneToSelf(L) == \A n \in Node : L[n][n] = << >>

LinksOK(L) == L \in Links /\ NoneToSelf(L) /\ Ordered(L) /\ OneAsk(L)

\* A node that leads follows nobody, and only such a node has workers.
RoleOK(s, n) ==
  n \notin s.attached /\ IF Leads(s, n) THEN s.leader = n ELSE s.attached = {}

NodeInv ==
  /\ node \in [Node -> State]
  /\ \A n \in Node : RoleOK(node[n], n) /\ node[n].rejections <= MaxRejections + 1

\* Whoever waits for an answer may still count it.
CountInv == \A n \in Node : Asked(link, n) => node[n].rejections <= MaxRejections

Core == NodeInv /\ LinksOK(link) /\ CountInv

Pairs == {{p, q} : p, q \in Node}

News == {<< >>, <<"down">>, <<"up">>, <<"down", "up">>}

EventInv ==
  /\ broken \subseteq Pairs
  /\ events \in [Node -> [Node -> News]]
  /\ \A p, q \in Node : {p, q} \in broken => events[p][q] \in {<< >>, <<"down">>}
  /\ \A n \in Node : events[n][n] = << >>
  /\ faults \in 0..MaxFaults

IInv == Core /\ EventInv

-----------------------------------------------------------------------------
\* The links.

LEMMA LinkFacts ==
  ASSUME NEW L \in Links, NEW p \in Node, NEW q \in Node
  PROVE  /\ L[p][q] \in Seq(Frame) /\ Len(L[p][q]) \in Nat /\ DOMAIN L[p][q] = 1..Len(L[p][q])
         /\ \A i \in DOMAIN L[p][q] : L[p][q][i] \in Frame
BY LenProperties, ElementOfSeq DEF Links

\* What JOINs and answers there are on M were there on L, in the same order.
Under(M, L) ==
  \A a, b \in Node : \E d \in Nat : \A i \in DOMAIN M[a][b] :
    M[a][b][i].type \in {"join", "ack"} =>
      /\ i + d \in DOMAIN L[a][b] /\ L[a][b][i + d].type = M[a][b][i].type
      /\ M[a][b][i].current => L[a][b][i + d].current

NoNewAsk(M, L) == \A n, m \in Node : Asks(M, n, m) => Asks(L, n, m)

LEMMA UnderKeeps ==
  ASSUME NEW L, NEW M, LinksOK(L), M \in Links, NoneToSelf(M), Under(M, L)
  PROVE  LinksOK(M) /\ NoNewAsk(M, L)
<1>1. NoNewAsk(M, L)
  BY DEF NoNewAsk, Asks, Under
<1>2. OneAsk(M)
  BY <1>1 DEF NoNewAsk, OneAsk, LinksOK
<1>3. Ordered(M)
  <2>1. SUFFICES ASSUME NEW n \in Node, NEW m \in Node
                 PROVE  /\ \A i, j \in DOMAIN M[n][m] :
                             M[n][m][i].type = "join" /\ M[n][m][i].current
                               /\ M[n][m][j].type = "join" => j <= i
                        /\ \A i \in DOMAIN M[m][n] :
                             M[m][n][i].type = "ack" /\ M[m][n][i].current =>
                               /\ \A j \in DOMAIN M[n][m] : M[n][m][j].type # "join"
                               /\ \A j \in DOMAIN M[m][n] : M[m][n][j].type = "ack" => j <= i
    BY DEF Ordered
  <2>2. PICK d \in Nat : \A i \in DOMAIN M[n][m] :
          M[n][m][i].type \in {"join", "ack"} =>
            /\ i + d \in DOMAIN L[n][m] /\ L[n][m][i + d].type = M[n][m][i].type
            /\ M[n][m][i].current => L[n][m][i + d].current
    BY DEF Under
  <2>3. PICK e \in Nat : \A i \in DOMAIN M[m][n] :
          M[m][n][i].type \in {"join", "ack"} =>
            /\ i + e \in DOMAIN L[m][n] /\ L[m][n][i + e].type = M[m][n][i].type
            /\ M[m][n][i].current => L[m][n][i + e].current
    BY DEF Under
  <2>4. /\ DOMAIN M[n][m] \subseteq Nat /\ DOMAIN M[m][n] \subseteq Nat
    BY LinkFacts
  <2>5. /\ \A i, j \in DOMAIN L[n][m] :
             L[n][m][i].type = "join" /\ L[n][m][i].current /\ L[n][m][j].type = "join" => j <= i
        /\ \A i \in DOMAIN L[m][n] :
             L[m][n][i].type = "ack" /\ L[m][n][i].current =>
               /\ \A j \in DOMAIN L[n][m] : L[n][m][j].type # "join"
               /\ \A j \in DOMAIN L[m][n] : L[m][n][j].type = "ack" => j <= i
    BY DEF LinksOK, Ordered
  <2>6. ASSUME NEW i \in DOMAIN M[n][m], NEW j \in DOMAIN M[n][m],
               M[n][m][i].type = "join", M[n][m][i].current, M[n][m][j].type = "join"
        PROVE  j <= i
    <3>1. j + d <= i + d
      BY <2>2, <2>5, <2>6
    <3> QED
      BY <2>4, <3>1
  <2>7. ASSUME NEW i \in DOMAIN M[m][n], M[m][n][i].type = "ack", M[m][n][i].current
        PROVE  /\ \A j \in DOMAIN M[n][m] : M[n][m][j].type # "join"
               /\ \A j \in DOMAIN M[m][n] : M[m][n][j].type = "ack" => j <= i
    <3>1. i + e \in DOMAIN L[m][n] /\ L[m][n][i + e].type = "ack" /\ L[m][n][i + e].current
      BY <2>3, <2>7
    <3>2. \A j \in DOMAIN M[n][m] : M[n][m][j].type # "join"
      BY <2>2, <2>5, <3>1
    <3>3. ASSUME NEW j \in DOMAIN M[m][n], M[m][n][j].type = "ack"
          PROVE  j <= i
      <4>1. j + e <= i + e
        BY <2>3, <2>5, <3>1, <3>3
      <4> QED
        BY <2>4, <4>1
    <3> QED
      BY <3>2, <3>3
  <2> QED
    BY <2>6, <2>7
<1> QED
  BY <1>1, <1>2, <1>3 DEF LinksOK

\* The links when a frame is taken off one of them, and when one is put on it.
Took(L, p, q) == [L EXCEPT ![p][q] = Tail(@)]
Put(L, p, q, f) == [L EXCEPT ![p][q] = Append(@, f)]

LEMMA TakeKeeps ==
  ASSUME NEW L, LinksOK(L), NEW p \in Node, NEW q \in Node, L[p][q] # << >>
  PROVE  /\ LinksOK(Took(L, p, q)) /\ NoNewAsk(Took(L, p, q), L) /\ p # q
         /\ Head(L[p][q]) \in Frame /\ Head(L[p][q]) = L[p][q][1] /\ 1 \in DOMAIN L[p][q]
         /\ \A i \in DOMAIN Took(L, p, q)[p][q] :
              i + 1 \in DOMAIN L[p][q] /\ Took(L, p, q)[p][q][i] = L[p][q][i + 1]
         /\ \A a, b \in Node : a # p \/ b # q => Took(L, p, q)[a][b] = L[a][b]
<1>0. PICK M : M = Took(L, p, q)
  OBVIOUS
<1>1. L \in Links /\ p # q
  BY DEF LinksOK, NoneToSelf
<1>2. /\ Head(L[p][q]) \in Frame /\ Head(L[p][q]) = L[p][q][1] /\ 1 \in DOMAIN L[p][q]
      /\ Tail(L[p][q]) \in Seq(Frame) /\ Len(Tail(L[p][q])) = Len(L[p][q]) - 1
      /\ \A i \in 1..Len(Tail(L[p][q])) : Tail(L[p][q])[i] = L[p][q][i + 1]
  BY <1>1, LinkFacts, HeadTailProperties, EmptySeq
<1>3. M \in Links
  BY <1>0, <1>1, <1>2 DEF Took, Links
<1>4. \A a, b \in Node : M[a][b] = IF a = p /\ b = q THEN Tail(L[p][q]) ELSE L[a][b]
  BY <1>0, <1>1 DEF Took, Links
<1>5. NoneToSelf(M)
  BY <1>1, <1>4 DEF LinksOK, NoneToSelf
<1>6. \A i \in DOMAIN M[p][q] : i + 1 \in DOMAIN L[p][q] /\ M[p][q][i] = L[p][q][i + 1]
  <2>1. M[p][q] = Tail(L[p][q])
    BY <1>4
  <2>2. /\ Len(L[p][q]) \in Nat /\ DOMAIN L[p][q] = 1..Len(L[p][q])
        /\ DOMAIN M[p][q] = 1..(Len(L[p][q]) - 1)
    BY <1>1, <1>2, <2>1, LinkFacts, LenProperties
  <2>3. ASSUME NEW i \in DOMAIN M[p][q]
        PROVE  i + 1 \in DOMAIN L[p][q] /\ M[p][q][i] = L[p][q][i + 1]
    <3>1. i \in 1..(Len(L[p][q]) - 1)
      BY <2>2
    <3>2. i + 1 \in 1..Len(L[p][q])
      BY <2>2, <3>1
    <3> QED
      BY <1>2, <2>1, <2>2, <3>1, <3>2
  <2> QED
    BY <2>3
<1>7. Under(M, L)
  <2>1. SUFFICES ASSUME NEW a \in Node, NEW b \in Node
                 PROVE  \E d \in Nat : \A i \in DOMAIN M[a][b] :
                          M[a][b][i].type \in {"join", "ack"} =>
                            /\ i + d \in DOMAIN L[a][b] /\ L[a][b][i + d].type = M[a][b][i].type
                            /\ M[a][b][i].current => L[a][b][i + d].current
    BY DEF Under
  <2>2. CASE a = p /\ b = q
    <3>1. \A i \in DOMAIN M[a][b] : i + 1 \in DOMAIN L[a][b] /\ M[a][b][i] = L[a][b][i + 1]
      BY <1>6, <2>2
    <3> QED
      BY <3>1
  <2>3. CASE ~(a = p /\ b = q)
    <3>1. M[a][b] = L[a][b] /\ \A i \in DOMAIN L[a][b] : i + 0 = i
      BY <1>1, <1>4, <2>3, LinkFacts
    <3> QED
      BY <3>1
  <2> QED
    BY <2>2, <2>3
<1> QED
  BY <1>0, <1>1, <1>2, <1>3, <1>4, <1>5, <1>6, <1>7, UnderKeeps

\* Frames that neither ask nor answer are added.
Plain(M, L) ==
  \A a, b \in Node :
    \/ M[a][b] = L[a][b]
    \/ a # b /\ \E f \in Frame : f.type \in {"beat", "beatAck", "claim"} /\ M[a][b] = Append(L[a][b], f)

LEMMA PlainKeeps ==
  ASSUME NEW L, LinksOK(L), NEW M, M \in [Node -> [Node -> Seq(Frame)]], Plain(M, L)
  PROVE  LinksOK(M) /\ NoNewAsk(M, L)
<1>1. L \in Links /\ M \in Links
  BY DEF LinksOK, Links
<1>2. NoneToSelf(M)
  BY DEF LinksOK, NoneToSelf, Plain
<1>3. Under(M, L)
  <2>1. SUFFICES ASSUME NEW a \in Node, NEW b \in Node, NEW i \in DOMAIN M[a][b],
                        M[a][b][i].type \in {"join", "ack"}
                 PROVE  /\ i + 0 \in DOMAIN L[a][b] /\ L[a][b][i + 0].type = M[a][b][i].type
                        /\ M[a][b][i].current => L[a][b][i + 0].current
    BY DEF Under
  <2>2. i \in Nat /\ i + 0 = i
    BY <1>1, LinkFacts
  <2>3. i \in DOMAIN L[a][b] /\ M[a][b][i] = L[a][b][i]
    <3>1. CASE M[a][b] = L[a][b]
      BY <3>1
    <3>2. ASSUME NEW f \in Frame, f.type \in {"beat", "beatAck", "claim"},
                 M[a][b] = Append(L[a][b], f)
          PROVE  i \in DOMAIN L[a][b] /\ M[a][b][i] = L[a][b][i]
      <4>1. /\ L[a][b] \in Seq(Frame) /\ DOMAIN L[a][b] = 1..Len(L[a][b])
            /\ DOMAIN M[a][b] = 1..Len(M[a][b])
        BY <1>1, LinkFacts
      <4>2. /\ Len(M[a][b]) = Len(L[a][b]) + 1
            /\ \A j \in 1..Len(L[a][b]) : M[a][b][j] = L[a][b][j]
            /\ M[a][b][Len(L[a][b]) + 1] = f
        BY <3>2, <4>1, AppendProperties
      <4>3. i # Len(L[a][b]) + 1
        BY <2>1, <3>2, <4>2
      <4> QED
        BY <4>1, <4>2, <4>3
    <3> QED
      BY <3>1, <3>2 DEF Plain
  <2> QED
    BY <2>2, <2>3
<1> QED
  BY <1>1, <1>2, <1>3, UnderKeeps

LEMMA SentPlain ==
  ASSUME NEW L, LinksOK(L), NEW p \in Node, NEW q \in Node, p # q,
         NEW f \in Frame, f.type \in {"beat", "beatAck", "claim"}
  PROVE  /\ LinksOK(Sent(L, p, q, f)) /\ NoNewAsk(Sent(L, p, q, f), L)
         /\ LinksOK(Put(L, p, q, f)) /\ NoNewAsk(Put(L, p, q, f), L)
<1>0. PICK M : M = Put(L, p, q, f)
  OBVIOUS
<1>1. L \in Links
  BY DEF LinksOK
<1>2. Append(L[p][q], f) \in Seq(Frame)
  BY <1>1, LinkFacts, AppendProperties
<1>3. M \in [Node -> [Node -> Seq(Frame)]]
  BY <1>0, <1>1, <1>2 DEF Put, Links
<1>4. \A a, b \in Node : M[a][b] = IF a = p /\ b = q THEN Append(L[p][q], f) ELSE L[a][b]
  BY <1>0, <1>1 DEF Put, Links
<1>5. Plain(M, L)
  BY <1>4 DEF Plain
<1>6. LinksOK(M) /\ NoNewAsk(M, L)
  BY <1>3, <1>5, PlainKeeps
<1>7. NoNewAsk(L, L)
  BY DEF NoNewAsk
<1> QED
  BY <1>0, <1>6, <1>7 DEF Sent, Put

LEMMA AnnouncedPlain ==
  ASSUME NEW L, LinksOK(L), NEW n \in Node, NEW leads \in BOOLEAN
  PROVE  LinksOK(Announced(L, n, leads)) /\ NoNewAsk(Announced(L, n, leads), L)
<1>1. PICK f \in Frame : f = [type |-> "claim", leads |-> leads]
  BY DEF Frame
<1>2. PICK M : M = Announced(L, n, leads)
  OBVIOUS
<1>3. L \in Links
  BY DEF LinksOK
<1>4. \A q \in Node : L[n][q] \in Seq(Frame) /\ Append(L[n][q], f) \in Seq(Frame)
  BY <1>3, LinkFacts, AppendProperties
<1>5. M = [L EXCEPT ![n] = [q \in Node |->
             IF q = n \/ ~Connected(n, q) THEN L[n][q] ELSE Append(L[n][q], f)]]
  BY <1>1, <1>2 DEF Announced
<1>6. M \in [Node -> [Node -> Seq(Frame)]]
  BY <1>3, <1>4, <1>5 DEF Links
<1>7. \A a, b \in Node :
        M[a][b] = IF a # n \/ b = n \/ ~Connected(n, b) THEN L[a][b] ELSE Append(L[a][b], f)
  BY <1>3, <1>5 DEF Links
<1>8. f.type = "claim"
  BY <1>1
<1>9. Plain(M, L)
  BY <1>7, <1>8 DEF Plain
<1> QED
  BY <1>2, <1>6, <1>9, PlainKeeps

\* A node that JOINs anew waits for nothing it asked before.
LEMMA OutdatedKeeps ==
  ASSUME NEW L, LinksOK(L), NEW n \in Node
  PROVE  /\ LinksOK(Outdated(L, n)) /\ NoNewAsk(Outdated(L, n), L)
         /\ ~Asked(Outdated(L, n), n)
<1>1. PICK M : M = Outdated(L, n)
  OBVIOUS
<1>2. L \in Links
  BY DEF LinksOK
<1>3. ASSUME NEW a \in Node, NEW b \in Node
      PROVE  /\ M[a][b] \in Seq(Frame) /\ DOMAIN M[a][b] = DOMAIN L[a][b]
             /\ \A i \in DOMAIN M[a][b] :
                  /\ M[a][b][i].type = L[a][b][i].type
                  /\ M[a][b][i].type \in {"join", "ack"} =>
                       M[a][b][i].current =
                         IF \/ a = n /\ M[a][b][i].type = "join"
                            \/ b = n /\ M[a][b][i].type = "ack"
                         THEN FALSE ELSE L[a][b][i].current
  <2>1. CASE n \notin {a, b}
    <3>1. M[a][b] = L[a][b]
      BY <1>1, <2>1 DEF Outdated
    <3> QED
      BY <1>2, <2>1, <3>1, LinkFacts
  <2>2. CASE n \in {a, b}
    <3> DEFINE g(f) == IF (a = n /\ f.type = "join") \/ (b = n /\ f.type = "ack")
                       THEN [f EXCEPT !.current = FALSE] ELSE f
    <3>1. M[a][b] = [i \in DOMAIN L[a][b] |-> g(L[a][b][i])]
      BY <1>1, <2>2 DEF Outdated
    <3>2. ASSUME NEW f \in Frame
          PROVE  /\ g(f) \in Frame /\ g(f).type = f.type
                 /\ f.type \in {"join", "ack"} =>
                      g(f).current = IF (a = n /\ f.type = "join") \/ (b = n /\ f.type = "ack")
                                     THEN FALSE ELSE f.current
      BY DEF Frame
    <3>3. /\ DOMAIN L[a][b] = 1..Len(L[a][b]) /\ Len(L[a][b]) \in Nat
          /\ \A i \in DOMAIN L[a][b] : L[a][b][i] \in Frame
      BY <1>2, LinkFacts
    <3>4. /\ DOMAIN M[a][b] = DOMAIN L[a][b]
          /\ \A i \in DOMAIN L[a][b] : M[a][b][i] = g(L[a][b][i])
      BY <3>1
    <3> HIDE DEF g
    <3>5. M[a][b] \in [1..Len(L[a][b]) -> Frame]
      BY <3>1, <3>2, <3>3
    <3>6. M[a][b] \in Seq(Frame)
      BY <3>3, <3>5
    <3>7. ASSUME NEW i \in DOMAIN M[a][b]
          PROVE  /\ M[a][b][i].type = L[a][b][i].type
                 /\ M[a][b][i].type \in {"join", "ack"} =>
                      M[a][b][i].current =
                        IF \/ a = n /\ M[a][b][i].type = "join"
                           \/ b = n /\ M[a][b][i].type = "ack"
                        THEN FALSE ELSE L[a][b][i].current
      <4>1. PICK f \in Frame : f = L[a][b][i]
        BY <3>3, <3>4
      <4>2. M[a][b][i] = g(f)
        BY <3>4, <4>1
      <4> QED
        BY <3>2, <4>1, <4>2
    <3> QED
      BY <3>4, <3>6, <3>7
  <2> QED
    BY <2>1, <2>2
<1>4. M \in Links
  <2>1. M = [p \in Node |-> [q \in Node |-> M[p][q]]]
    BY <1>1 DEF Outdated
  <2> QED
    BY <1>3, <2>1 DEF Links
<1>5. NoneToSelf(M)
  <2>1. SUFFICES ASSUME NEW a \in Node PROVE M[a][a] = << >>
    BY DEF NoneToSelf
  <2>2. DOMAIN M[a][a] = {}
    <3>1. L[a][a] = << >>
      BY DEF LinksOK, NoneToSelf
    <3>2. DOMAIN L[a][a] = 1..0
      BY <1>2, <3>1, LinkFacts, EmptySeq
    <3>3. DOMAIN M[a][a] = DOMAIN L[a][a]
      BY <1>3
    <3> QED
      BY <3>2, <3>3
  <2>3. DOMAIN M[a][a] = 1..Len(M[a][a]) /\ M[a][a] \in Seq(Frame)
    BY <1>4, LinkFacts
  <2>4. ASSUME Len(M[a][a]) \in Nat \ {0}
        PROVE  FALSE
    <3>1. 1 \in 1..Len(M[a][a])
      BY <2>4
    <3> QED
      BY <2>2, <2>3, <3>1
  <2> QED
    BY <2>3, <2>4, EmptySeq
<1>6. Under(M, L)
  <2>1. SUFFICES ASSUME NEW a \in Node, NEW b \in Node, NEW i \in DOMAIN M[a][b],
                        M[a][b][i].type \in {"join", "ack"}
                 PROVE  /\ i + 0 \in DOMAIN L[a][b] /\ L[a][b][i + 0].type = M[a][b][i].type
                        /\ M[a][b][i].current => L[a][b][i + 0].current
    BY DEF Under
  <2>2. i + 0 = i /\ i \in DOMAIN L[a][b]
    <3>1. i \in DOMAIN L[a][b] /\ DOMAIN L[a][b] = 1..Len(L[a][b])
      BY <1>2, <1>3, LinkFacts
    <3> QED
      BY <3>1
  <2>3. L[a][b][i].type = M[a][b][i].type /\ (M[a][b][i].current => L[a][b][i].current)
    BY <1>3, <2>1
  <2> QED
    BY <2>2, <2>3
<1>7. ~Asked(M, n)
  <2>1. ASSUME NEW m \in Node, NEW i \in DOMAIN M[n][m], M[n][m][i].type = "join"
        PROVE  ~M[n][m][i].current
    BY <1>3, <2>1
  <2>2. ASSUME NEW m \in Node, NEW i \in DOMAIN M[m][n], M[m][n][i].type = "ack"
        PROVE  ~M[m][n][i].current
    BY <1>3, <2>2
  <2> QED
    BY <2>1, <2>2 DEF Asked, Asks
<1> QED
  BY <1>1, <1>4, <1>5, <1>6, <1>7, UnderKeeps

\* A JOIN is sent by a node that waits for nothing.
LEMMA JoinSent ==
  ASSUME NEW L, LinksOK(L), NEW n \in Node, NEW b \in Node, n # b, ~Asked(L, n)
  PROVE  LET M == Put(L, n, b, [type |-> "join", current |-> TRUE])
         IN  LinksOK(M) /\ \A m \in Node : m # n /\ Asked(M, m) => Asked(L, m)
<1>1. PICK f \in Frame : f = [type |-> "join", current |-> TRUE]
  BY DEF Frame
<1>0. PICK M : M = Put(L, n, b, f)
  OBVIOUS
<1>2. L \in Links /\ f.type = "join"
  BY <1>1 DEF LinksOK
<1> DEFINE new == Len(L[n][b]) + 1
<1>3. /\ Append(L[n][b], f) \in Seq(Frame) /\ new \in Nat
      /\ DOMAIN Append(L[n][b], f) = 1..new /\ DOMAIN L[n][b] = 1..(new - 1)
      /\ \A i \in 1..(new - 1) : Append(L[n][b], f)[i] = L[n][b][i]
      /\ Append(L[n][b], f)[new] = f
  <2>1. L[n][b] \in Seq(Frame) /\ Len(L[n][b]) \in Nat /\ DOMAIN L[n][b] = 1..Len(L[n][b])
    BY <1>2, LinkFacts
  <2>2. /\ Append(L[n][b], f) \in Seq(Frame) /\ Len(Append(L[n][b], f)) = Len(L[n][b]) + 1
        /\ \A i \in 1..Len(L[n][b]) : Append(L[n][b], f)[i] = L[n][b][i]
        /\ Append(L[n][b], f)[Len(L[n][b]) + 1] = f
    BY <2>1, AppendProperties
  <2> QED
    BY <2>1, <2>2, LenProperties
<1>4. M \in Links
  BY <1>0, <1>2, <1>3 DEF Put, Links
<1>5. \A x, y \in Node : M[x][y] = IF x = n /\ y = b THEN Append(L[n][b], f) ELSE L[x][y]
  BY <1>0, <1>2 DEF Put, Links
<1> HIDE DEF new
<1>6. NoneToSelf(M)
  BY <1>5 DEF LinksOK, NoneToSelf
<1>7. ASSUME NEW x \in Node, NEW y \in Node, NEW i \in DOMAIN M[x][y]
      PROVE  \/ i \in DOMAIN L[x][y] /\ M[x][y][i] = L[x][y][i]
             \/ x = n /\ y = b /\ i = new /\ M[x][y][i] = f
  <2>1. CASE x = n /\ y = b
    <3>1. M[x][y] = Append(L[n][b], f) /\ i \in 1..new
      BY <1>3, <1>5, <2>1
    <3>2. i = new \/ i \in 1..(new - 1)
      BY <1>3, <3>1
    <3> QED
      BY <1>3, <2>1, <3>1, <3>2
  <2>2. CASE ~(x = n /\ y = b)
    BY <1>5, <2>2
  <2> QED
    BY <2>1, <2>2
<1>8. \A x, y \in Node : Asks(M, x, y) => Asks(L, x, y) \/ (x = n /\ y = b)
  <2>1. ASSUME NEW x \in Node, NEW y \in Node, NEW i \in DOMAIN M[x][y],
               M[x][y][i].type = "join", M[x][y][i].current
        PROVE  Asks(L, x, y) \/ (x = n /\ y = b)
    BY <1>7, <2>1 DEF Asks
  <2>2. ASSUME NEW x \in Node, NEW y \in Node, NEW i \in DOMAIN M[y][x],
               M[y][x][i].type = "ack", M[y][x][i].current
        PROVE  Asks(L, x, y)
    <3>1. i \in DOMAIN L[y][x] /\ M[y][x][i] = L[y][x][i]
      BY <1>2, <1>7, <2>2
    <3> QED
      BY <2>2, <3>1 DEF Asks
  <2> QED
    BY <2>1, <2>2 DEF Asks
<1>9. \A y \in Node : ~Asks(L, n, y)
  BY DEF Asked
<1>10. OneAsk(M)
  BY <1>8, <1>9 DEF OneAsk, LinksOK
<1>11. Ordered(M)
  <2>1. ASSUME NEW x \in Node, NEW y \in Node, NEW i \in DOMAIN M[x][y], NEW j \in DOMAIN M[x][y],
               M[x][y][i].type = "join", M[x][y][i].current, M[x][y][j].type = "join"
        PROVE  j <= i
    <3>1. CASE i \in DOMAIN L[x][y] /\ M[x][y][i] = L[x][y][i]
      <4>1. Asks(L, x, y)
        BY <2>1, <3>1 DEF Asks
      <4>2. x # n
        BY <1>9, <4>1
      <4>3. M[x][y] = L[x][y]
        BY <1>5, <4>2
      <4> QED
        BY <2>1, <4>3 DEF LinksOK, Ordered
    <3>2. CASE x = n /\ y = b /\ i = new
      <4>1. M[x][y] = Append(L[n][b], f)
        BY <1>5, <3>2
      <4>2. DOMAIN M[x][y] = 1..new
        BY <1>3, <4>1
      <4> QED
        BY <1>3, <3>2, <4>2
    <3> QED
      BY <1>7, <3>1, <3>2
  <2>2. ASSUME NEW x \in Node, NEW y \in Node, NEW i \in DOMAIN M[y][x],
               M[y][x][i].type = "ack", M[y][x][i].current
        PROVE  /\ \A j \in DOMAIN M[x][y] : M[x][y][j].type # "join"
               /\ \A j \in DOMAIN M[y][x] : M[y][x][j].type = "ack" => j <= i
    <3>1. i \in DOMAIN L[y][x] /\ M[y][x][i] = L[y][x][i]
      BY <1>2, <1>7, <2>2
    <3>2. Asks(L, x, y)
      BY <2>2, <3>1 DEF Asks
    <3>3. x # n /\ M[x][y] = L[x][y]
      BY <1>5, <1>9, <3>2
    <3>4. /\ \A j \in DOMAIN L[x][y] : L[x][y][j].type # "join"
          /\ \A j \in DOMAIN L[y][x] : L[y][x][j].type = "ack" => j <= i
      BY <2>2, <3>1 DEF LinksOK, Ordered
    <3>5. ASSUME NEW j \in DOMAIN M[y][x], M[y][x][j].type = "ack"
          PROVE  j <= i
      <4>1. j \in DOMAIN L[y][x] /\ M[y][x][j] = L[y][x][j]
        BY <1>2, <1>7, <3>5
      <4> QED
        BY <3>4, <3>5, <4>1
    <3> QED
      BY <3>3, <3>4, <3>5
  <2> QED
    BY <2>1, <2>2 DEF Ordered
<1>12. \A m \in Node : m # n /\ Asked(M, m) => Asked(L, m)
  BY <1>8 DEF Asked
<1> QED
  BY <1>0, <1>1, <1>4, <1>6, <1>10, <1>11, <1>12 DEF LinksOK

\* q takes p's oldest JOIN and answers it.
LEMMA AnswerSent ==
  ASSUME NEW L, LinksOK(L), NEW p \in Node, NEW q \in Node, L[p][q] # << >>,
         Head(L[p][q]).type = "join", NEW ok \in BOOLEAN, NEW hint \in Peer,
         NEW f, f = [type |-> "ack", ok |-> ok, hint |-> hint, current |-> Head(L[p][q]).current]
  PROVE  LET M == Put(Took(L, p, q), q, p, f) IN LinksOK(M) /\ NoNewAsk(M, L)
<1>a. PICK T : T = Took(L, p, q)
  OBVIOUS
<1>b. PICK M : M = Put(T, q, p, f)
  OBVIOUS
<1>1. /\ LinksOK(T) /\ NoNewAsk(T, L) /\ p # q
      /\ Head(L[p][q]) \in Frame /\ Head(L[p][q]) = L[p][q][1] /\ 1 \in DOMAIN L[p][q]
      /\ \A i \in DOMAIN T[p][q] : i + 1 \in DOMAIN L[p][q] /\ T[p][q][i] = L[p][q][i + 1]
      /\ T[q][p] = L[q][p]
  BY <1>a, TakeKeeps
<1>2. L \in Links /\ T \in Links
  BY <1>1 DEF LinksOK
<1>3. f \in Frame /\ f.type = "ack" /\ f.current = L[p][q][1].current
  BY <1>1 DEF Frame
<1>4. T[q][p] = L[q][p]
  BY <1>1
<1> DEFINE new == Len(T[q][p]) + 1
<1>5. /\ Append(T[q][p], f) \in Seq(Frame) /\ new \in Nat
      /\ DOMAIN Append(T[q][p], f) = 1..new /\ DOMAIN T[q][p] = 1..(new - 1)
      /\ \A i \in 1..(new - 1) : Append(T[q][p], f)[i] = T[q][p][i]
      /\ Append(T[q][p], f)[new] = f
  <2>1. T[q][p] \in Seq(Frame) /\ Len(T[q][p]) \in Nat /\ DOMAIN T[q][p] = 1..Len(T[q][p])
    BY <1>2, LinkFacts
  <2>2. /\ Append(T[q][p], f) \in Seq(Frame) /\ Len(Append(T[q][p], f)) = Len(T[q][p]) + 1
        /\ \A i \in 1..Len(T[q][p]) : Append(T[q][p], f)[i] = T[q][p][i]
        /\ Append(T[q][p], f)[Len(T[q][p]) + 1] = f
    BY <1>3, <2>1, AppendProperties
  <2> QED
    BY <2>1, <2>2, LenProperties
<1>6. M \in Links
  BY <1>b, <1>2, <1>5 DEF Put, Links
<1>7. \A x, y \in Node : M[x][y] = IF x = q /\ y = p THEN Append(T[q][p], f) ELSE T[x][y]
  BY <1>b, <1>2 DEF Put, Links
<1> HIDE DEF new
<1>8. NoneToSelf(M)
  BY <1>1, <1>7 DEF LinksOK, NoneToSelf
<1>9. ASSUME NEW x \in Node, NEW y \in Node, NEW i \in DOMAIN M[x][y]
      PROVE  \/ i \in DOMAIN T[x][y] /\ M[x][y][i] = T[x][y][i]
             \/ x = q /\ y = p /\ i = new /\ M[x][y][i] = f
  <2>1. CASE x = q /\ y = p
    <3>1. M[x][y] = Append(T[q][p], f) /\ i \in 1..new
      BY <1>5, <1>7, <2>1
    <3>2. i = new \/ i \in 1..(new - 1)
      BY <1>5, <3>1
    <3> QED
      BY <1>5, <2>1, <3>1, <3>2
  <2>2. CASE ~(x = q /\ y = p)
    BY <1>7, <2>2
  <2> QED
    BY <2>1, <2>2
<1>10. NoNewAsk(M, L)
  <2>1. f.current => Asks(L, p, q)
    BY <1>1, <1>3 DEF Asks
  <2>2. ASSUME NEW x \in Node, NEW y \in Node, Asks(M, x, y)
        PROVE  Asks(L, x, y)
    <3>1. Asks(T, x, y) \/ (x = p /\ y = q /\ f.current)
      <4>1. ASSUME NEW i \in DOMAIN M[x][y], M[x][y][i].type = "join", M[x][y][i].current
            PROVE  Asks(T, x, y)
        <5>1. i \in DOMAIN T[x][y] /\ M[x][y][i] = T[x][y][i]
          BY <1>3, <1>9, <4>1
        <5> QED
          BY <4>1, <5>1 DEF Asks
      <4>2. ASSUME NEW i \in DOMAIN M[y][x], M[y][x][i].type = "ack", M[y][x][i].current
            PROVE  Asks(T, x, y) \/ (x = p /\ y = q /\ f.current)
        BY <1>9, <4>2 DEF Asks
      <4> QED
        BY <2>2, <4>1, <4>2 DEF Asks
    <3> QED
      BY <1>1, <2>1, <3>1 DEF NoNewAsk
  <2> QED
    BY <2>2 DEF NoNewAsk
<1>11. OneAsk(M)
  BY <1>10 DEF NoNewAsk, OneAsk, LinksOK
<1>12. /\ \A i \in DOMAIN L[q][p] : ~(L[q][p][i].type = "ack" /\ L[q][p][i].current)
       /\ f.current => \A j \in DOMAIN T[p][q] : T[p][q][j].type # "join"
  <2>1. L[p][q][1].type = "join" /\ DOMAIN L[p][q] \subseteq Nat /\ DOMAIN T[p][q] \subseteq Nat \ {0}
    BY <1>1, <1>2, LinkFacts
  <2>2. \A i \in DOMAIN L[q][p] : ~(L[q][p][i].type = "ack" /\ L[q][p][i].current)
    BY <1>1, <2>1 DEF LinksOK, Ordered
  <2>3. ASSUME f.current, NEW j \in DOMAIN T[p][q], T[p][q][j].type = "join"
        PROVE  FALSE
    <3>1. j + 1 <= 1
      BY <1>1, <1>3, <2>1, <2>3 DEF LinksOK, Ordered
    <3> QED
      BY <2>1, <3>1
  <2> QED
    BY <2>2, <2>3
<1>13. Ordered(M)
  <2>1. ASSUME NEW x \in Node, NEW y \in Node, NEW i \in DOMAIN M[x][y], NEW j \in DOMAIN M[x][y],
               M[x][y][i].type = "join", M[x][y][i].current, M[x][y][j].type = "join"
        PROVE  j <= i
    <3>1. /\ i \in DOMAIN T[x][y] /\ M[x][y][i] = T[x][y][i]
          /\ j \in DOMAIN T[x][y] /\ M[x][y][j] = T[x][y][j]
      BY <1>3, <1>9, <2>1
    <3> QED
      BY <1>1, <2>1, <3>1 DEF LinksOK, Ordered
  <2>2. ASSUME NEW x \in Node, NEW y \in Node, NEW i \in DOMAIN M[y][x],
               M[y][x][i].type = "ack", M[y][x][i].current
        PROVE  /\ \A j \in DOMAIN M[x][y] : M[x][y][j].type # "join"
               /\ \A j \in DOMAIN M[y][x] : M[y][x][j].type = "ack" => j <= i
    <3>1. CASE x = p /\ y = q
      <4>1. i = new /\ f.current
        BY <1>4, <1>9, <1>12, <2>2, <3>1
      <4>2. \A j \in DOMAIN M[y][x] : j <= i
        <5>1. M[y][x] = Append(T[q][p], f)
          BY <1>7, <3>1
        <5>2. DOMAIN M[y][x] = 1..new
          BY <1>5, <5>1
        <5> QED
          BY <1>5, <4>1, <5>2
      <4>3. M[x][y] = T[x][y]
        BY <1>1, <1>7, <3>1
      <4> QED
        BY <1>12, <3>1, <4>1, <4>2, <4>3
    <3>2. CASE ~(x = p /\ y = q)
      <4>1. M[y][x] = T[y][x]
        BY <1>7, <3>2
      <4>2. /\ \A j \in DOMAIN T[x][y] : T[x][y][j].type # "join"
            /\ \A j \in DOMAIN T[y][x] : T[y][x][j].type = "ack" => j <= i
        BY <1>1, <2>2, <4>1 DEF LinksOK, Ordered
      <4>3. \A j \in DOMAIN M[x][y] : M[x][y][j].type # "join"
        BY <1>3, <1>9, <4>2
      <4> QED
        BY <4>1, <4>2, <4>3
    <3> QED
      BY <3>1, <3>2
  <2> QED
    BY <2>1, <2>2 DEF Ordered
<1> QED
  BY <1>a, <1>b, <1>6, <1>8, <1>10, <1>11, <1>13 DEF LinksOK

\* An answer that counts is the last thing under way between the two.
LEMMA AnswerTaken ==
  ASSUME NEW L, LinksOK(L), NEW p \in Node, NEW q \in Node, L[p][q] # << >>,
         Head(L[p][q]).type = "ack", Head(L[p][q]).current
  PROVE  /\ Asked(L, q) /\ ~Asked(Took(L, p, q), q)
         /\ \A j \in DOMAIN L[q][p] : L[q][p][j].type # "join"
         /\ \A j \in DOMAIN L[p][q] \ {1} : L[p][q][j].type # "ack"
<1>1. PICK T : T = Took(L, p, q)
  OBVIOUS
<1>2. /\ LinksOK(T) /\ NoNewAsk(T, L) /\ p # q
      /\ Head(L[p][q]) = L[p][q][1] /\ 1 \in DOMAIN L[p][q]
      /\ \A i \in DOMAIN T[p][q] : i + 1 \in DOMAIN L[p][q] /\ T[p][q][i] = L[p][q][i + 1]
  BY <1>1, TakeKeeps
<1>3. L \in Links /\ T \in Links
  BY <1>2 DEF LinksOK
<1>4. Asks(L, q, p)
  BY <1>2 DEF Asks
<1>5. /\ \A j \in DOMAIN L[q][p] : L[q][p][j].type # "join"
      /\ \A j \in DOMAIN L[p][q] : L[p][q][j].type = "ack" => j <= 1
  BY <1>2 DEF LinksOK, Ordered
<1>6. DOMAIN L[p][q] \subseteq Nat \ {0} /\ DOMAIN T[p][q] \subseteq Nat \ {0}
  BY <1>3, LinkFacts
<1>7. ~Asked(T, q)
  <2>1. SUFFICES ASSUME NEW m \in Node, Asks(T, q, m) PROVE FALSE
    BY DEF Asked
  <2>2. m = p
    BY <1>2, <1>4, <2>1 DEF NoNewAsk, LinksOK, OneAsk
  <2>3. T[q][p] = L[q][p]
    BY <1>1, <1>2, TakeKeeps
  <2>4. PICK i \in DOMAIN T[p][q] : T[p][q][i].type = "ack"
    BY <1>5, <2>1, <2>2, <2>3 DEF Asks
  <2>5. i + 1 <= 1 /\ i \in Nat \ {0}
    BY <1>2, <1>5, <1>6, <2>4
  <2> QED
    BY <2>5
<1>8. \A j \in DOMAIN L[p][q] \ {1} : L[p][q][j].type # "ack"
  BY <1>5, <1>6
<1> QED
  BY <1>1, <1>4, <1>5, <1>7, <1>8 DEF Asked

-----------------------------------------------------------------------------
\* evaluate.

LEMMA EvaluateKeeps ==
  ASSUME NEW n \in Node, NEW s \in State, n \notin s.attached, NEW elected \in SUBSET Node,
         NEW hint, NEW L, LinksOK(L), NEW o, o = Evaluate(n, s, elected, hint, L)
  PROVE  /\ o.state \in State /\ RoleOK(o.state, n) /\ o.state.rejections = s.rejections
         /\ LinksOK(o.link)
         /\ \A m \in Node \ {n} : Asked(o.link, m) => Asked(L, m)
         /\ Asked(o.link, n) => Asked(L, n) \/ s.rejections <= MaxRejections
<1> DEFINE acting == [s EXCEPT !.leaders = elected]
           usable == Usable(s, elected)
           stay == IF s.leader \in usable THEN s.leader ELSE None
           best == IF hint \in usable THEN hint ELSE Choice(s, usable)
           told == IF Leads(node[n], n) = (n \in elected) THEN L ELSE Announced(L, n, n \in elected)
           joins == n \notin elected /\ MayJoin(s) /\ ShouldRehome(s, stay, best, usable)
           sent == joins /\ Connected(n, best)
           to == IF n \in elected THEN n ELSE IF sent THEN best ELSE IF joins THEN None ELSE stay
<1>1. /\ o.state = [acting EXCEPT !.leader = to, !.attached = Kept(acting, n)]
      /\ o.link = IF sent THEN Sent(Outdated(told, n), n, best, [type |-> "join", current |-> TRUE])
                  ELSE IF joins THEN Outdated(told, n) ELSE told
  BY DEF Evaluate
<1>2. /\ joins => best \in usable /\ MayJoin(s) /\ n \notin elected
      /\ usable \subseteq elected /\ stay \in Peer
  BY DEF ShouldRehome, Usable, Peer, State
<1>3. LinksOK(told) /\ NoNewAsk(told, L)
  <2>1. (n \in elected) \in BOOLEAN /\ NoNewAsk(L, L)
    BY DEF NoNewAsk
  <2> QED
    BY <2>1, AnnouncedPlain
<1>4. to \in Peer /\ (n \in elected => to = n)
  <2>1. sent => best \in Node
    BY <1>2
  <2> QED
    BY <1>2, <2>1 DEF Peer
<1> HIDE DEF usable, stay, best, told, to
<1>5. o.state \in State /\ o.state.rejections = s.rejections
      /\ o.state.leaders = elected /\ o.state.leader = to /\ o.state.attached = Kept(acting, n)
  <2>1. Kept(acting, n) \subseteq Node
    BY DEF Kept, State
  <2> HIDE DEF acting
  <2>2. acting \in State /\ acting.rejections = s.rejections /\ acting.leaders = elected
    BY DEF acting, State
  <2> QED
    BY <1>1, <1>4, <2>1, <2>2 DEF State
<1>6. RoleOK(o.state, n)
  BY <1>4, <1>5 DEF RoleOK, Leads, Kept, State
<1>7. CASE sent
  <2>1. LinksOK(Outdated(told, n)) /\ NoNewAsk(Outdated(told, n), told) /\ ~Asked(Outdated(told, n), n)
    BY <1>3, OutdatedKeeps
  <2>2. best \in Node /\ best # n /\ s.rejections <= MaxRejections
    BY <1>2, <1>7 DEF MayJoin
  <2>3. o.link = Put(Outdated(told, n), n, best, [type |-> "join", current |-> TRUE])
    BY <1>1, <1>7 DEF Sent, Put
  <2>4. LinksOK(o.link) /\ \A m \in Node : m # n /\ Asked(o.link, m) => Asked(Outdated(told, n), m)
    BY <2>1, <2>2, <2>3, JoinSent
  <2> QED
    BY <1>3, <1>5, <1>6, <2>1, <2>2, <2>4 DEF NoNewAsk, Asked
<1>8. CASE ~sent /\ joins
  <2>1. LinksOK(Outdated(told, n)) /\ NoNewAsk(Outdated(told, n), told) /\ ~Asked(Outdated(told, n), n)
    BY <1>3, OutdatedKeeps
  <2> QED
    BY <1>1, <1>3, <1>5, <1>6, <1>8, <2>1 DEF NoNewAsk, Asked
<1>9. CASE ~joins
  BY <1>1, <1>3, <1>5, <1>6, <1>9 DEF NoNewAsk, Asked
<1> QED
  BY <1>7, <1>8, <1>9

\* n is left in a state and with links that are sound.
LEMMA SetKeeps ==
  ASSUME Core, NEW n \in Node, NEW t \in State, node' = [node EXCEPT ![n] = t],
         RoleOK(t, n), t.rejections <= MaxRejections + 1, LinksOK(link'),
         \A m \in Node \ {n} : Asked(link', m) => Asked(link, m),
         Asked(link', n) => t.rejections <= MaxRejections
  PROVE  Core'
<1>1. \A m \in Node : node'[m] = IF m = n THEN t ELSE node[m]
  BY DEF Core, NodeInv
<1>2. NodeInv'
  BY <1>1 DEF Core, NodeInv
<1>3. CountInv'
  BY <1>1 DEF Core, CountInv
<1> QED
  BY <1>2, <1>3 DEF Core

\* n acts on a result, from a state s of it and with links L.
LEMMA OutcomeKeeps ==
  ASSUME Core, NEW n \in Node, NEW s \in State, n \notin s.attached,
         s.rejections <= MaxRejections + 1, NEW elected \in SUBSET Node, NEW hint,
         NEW L, LinksOK(L),
         \A m \in Node \ {n} : Asked(L, m) => Asked(link, m),
         Asked(L, n) => s.rejections <= MaxRejections,
         Outcome(n, Evaluate(n, s, elected, hint, L))
  PROVE  /\ Core'
         /\ \A m \in Node : node'[m].rejections = IF m = n THEN s.rejections ELSE node[m].rejections
<1>1. PICK o : o = Evaluate(n, s, elected, hint, L)
  OBVIOUS
<1>2. /\ o.state \in State /\ RoleOK(o.state, n) /\ o.state.rejections = s.rejections
      /\ LinksOK(o.link)
      /\ \A m \in Node \ {n} : Asked(o.link, m) => Asked(L, m)
      /\ Asked(o.link, n) => Asked(L, n) \/ s.rejections <= MaxRejections
  BY <1>1, EvaluateKeeps
<1>3. node' = [node EXCEPT ![n] = o.state] /\ link' = o.link
  BY <1>1 DEF Outcome
<1>4. Core'
  BY <1>2, <1>3, SetKeeps
<1> QED
  BY <1>2, <1>3, <1>4 DEF Core, NodeInv

\* The same with n's state as it is.
LEMMA SameKeeps ==
  ASSUME Core, node' = node, LinksOK(link'), NoNewAsk(link', link)
  PROVE  Core'
BY DEF Core, NodeInv, CountInv, NoNewAsk, Asked

\* n is left in a settlement of s.
LEMMA SettledKeeps ==
  ASSUME Core, NEW n \in Node, NEW s \in State, RoleOK(s, n), s.rejections = node[n].rejections,
         NEW L, LinksOK(L), NoNewAsk(L, link), NEW o \in Settlements(n, s, L)
  PROVE  /\ o.state \in State /\ RoleOK(o.state, n) /\ o.state.rejections = node[n].rejections
         /\ o.state.rejections <= MaxRejections + 1
         /\ LinksOK(o.link)
         /\ \A m \in Node \ {n} : Asked(o.link, m) => Asked(link, m)
         /\ Asked(o.link, n) => o.state.rejections <= MaxRejections
<1>1. /\ \A m \in Node : Asked(L, m) => Asked(link, m)
      /\ node[n].rejections <= MaxRejections + 1
      /\ Asked(link, n) => node[n].rejections <= MaxRejections
  BY DEF NoNewAsk, Asked, Core, NodeInv, CountInv
<1>2. CASE o = [state |-> s, link |-> L]
  BY <1>1, <1>2
<1>3. CASE o = Reevaluate(n, s, L)
  <2>1. o = Evaluate(n, s, s.leaders, None, L) /\ s.leaders \in SUBSET Node /\ n \notin s.attached
    BY <1>3 DEF Reevaluate, State, RoleOK
  <2> QED
    BY <1>1, <2>1, EvaluateKeeps
<1> QED
  BY <1>2, <1>3 DEF Settlements

\* What a node holds, from the invariant.
LEMMA NodeFacts ==
  ASSUME Core, NEW n \in Node
  PROVE  /\ node[n] \in State /\ RoleOK(node[n], n) /\ n \notin node[n].attached
         /\ node[n].rejections \in Nat /\ node[n].rejections <= MaxRejections + 1
         /\ Asked(link, n) => node[n].rejections <= MaxRejections
         /\ LinksOK(link) /\ NoNewAsk(link, link)
BY DEF Core, NodeInv, CountInv, RoleOK, NoNewAsk, State

\* What a transport has to report.
LEMMA AppendOne == Append(<< >>, "up") = <<"up">>
OBVIOUS

LEMMA AppendSecond ==
  ASSUME NEW S, NEW a \in S, NEW b \in S
  PROVE  Append(<<a>>, b) = <<a, b>>
<1>1. PICK s : s = <<a>>
  OBVIOUS
<1>2. s \in Seq(S) /\ Len(s) = 1 /\ s[1] = a
  BY <1>1
<1>3. PICK t : t = <<a, b>>
  OBVIOUS
<1>4. t \in Seq(S) /\ Len(t) = 2 /\ t[1] = a /\ t[2] = b
  BY <1>3
<1>5. /\ Append(s, b) \in Seq(S) /\ Len(Append(s, b)) = 2
      /\ Append(s, b)[2] = b
  BY <1>2, AppendProperties
<1>6. Append(s, b)[1] = a
  BY <1>2, AppendProperties
<1>7. Append(s, b) = t
  <2>1. \A i \in 1..2 : i = 1 \/ i = 2
    OBVIOUS
  <2> QED
    BY <1>4, <1>5, <1>6, <2>1, SeqEqual
<1> QED
  BY <1>1, <1>3, <1>7

LEMMA AppendPair == Append(<<"down">>, "up") = <<"down", "up">>
<1>1. PICK a : a = "down"
  OBVIOUS
<1>2. PICK b : b = "up"
  OBVIOUS
<1>3. Append(<<a>>, b) = <<a, b>>
  BY AppendSecond, a \in {a, b}, b \in {a, b}
<1> QED
  BY <1>1, <1>2, <1>3

LEMMA TailNews == Tail(<<"down">>) = << >> /\ Tail(<<"up">>) = << >> /\ Tail(<<"down", "up">>) = <<"up">>
OBVIOUS

LEMMA EventsKept ==
  ASSUME EventInv, UNCHANGED <<broken, events>>, (UNCHANGED faults) \/ Fault
  PROVE  EventInv'
BY AttachmentAssumption DEF EventInv, Fault

-----------------------------------------------------------------------------
\* Every step keeps the invariant, and none counts a refusal but a refusal.

NoCount == \A m \in Node : node'[m].rejections <= node[m].rejections

LEMMA NoCountSet ==
  ASSUME IInv, NEW n \in Node, NEW t, node' = [node EXCEPT ![n] = t],
         t.rejections = node[n].rejections
  PROVE  NoCount
<1>1. \A m \in Node : node[m].rejections \in Nat
  BY NodeFacts DEF IInv
<1>2. \A m \in Node : node'[m] = IF m = n THEN t ELSE node[m]
  BY DEF IInv, Core, NodeInv
<1>3. \A m \in Node : node'[m].rejections = node[m].rejections
  BY <1>2
<1> QED
  BY <1>1, <1>3 DEF NoCount

LEMMA ElectedStep ==
  ASSUME IInv, NEW n \in Node, NEW elected \in SUBSET Node,
         Outcome(n, Evaluate(n, node[n], elected, None, link)),
         UNCHANGED <<broken, events>>, (UNCHANGED faults) \/ Fault
  PROVE  IInv' /\ NoCount
<1>1. Core'
      /\ \A m \in Node : node'[m].rejections = IF m = n THEN node[n].rejections ELSE node[m].rejections
  BY NodeFacts, OutcomeKeeps DEF IInv
<1>2. NoCount
  BY <1>1, NodeFacts DEF NoCount, IInv
<1> QED
  BY <1>1, <1>2, EventsKept DEF IInv

LEMMA ProbeRoundStep ==
  ASSUME IInv, NEW n \in Node, NEW measured \in Measures, NEW answered \in SUBSET node[n].doubted,
         ProbeRound(n, measured, answered)
  PROVE  IInv' /\ NoCount
<1>1. PICK s : s = [node[n] EXCEPT !.rejections = 0, !.local = measured,
                                   !.doubted = @ \ (answered \ node[n].silent)]
  OBVIOUS
<1>2. s \in State /\ s.rejections = 0 /\ n \notin s.attached /\ s.leaders \in SUBSET Node
  <2>1. node[n] \in State /\ n \notin node[n].attached
    BY NodeFacts DEF IInv
  <2>2. s \in State
    BY <1>1, <2>1 DEF State
  <2>3. s.rejections = 0 /\ s.attached = node[n].attached
    BY <1>1, <2>1 DEF State
  <2> QED
    BY <2>1, <2>2, <2>3 DEF State
<1>3. Outcome(n, Evaluate(n, s, s.leaders, None, link))
  BY <1>1 DEF ProbeRound, Reevaluate
<1>4. s.rejections <= MaxRejections /\ s.rejections <= MaxRejections + 1
  BY <1>2, AttachmentAssumption
<1>5. Core' /\ \A m \in Node : node'[m].rejections = IF m = n THEN s.rejections ELSE node[m].rejections
  BY <1>2, <1>3, <1>4, NodeFacts, OutcomeKeeps DEF IInv
<1>6. NoCount
  BY <1>2, <1>5, NodeFacts DEF NoCount, IInv
<1> QED
  BY <1>5, <1>6, EventsKept DEF ProbeRound, IInv

LEMMA RefutedStep ==
  ASSUME IInv, NEW n \in Node, NEW m \in Node, Refuted(n, m)
  PROVE  IInv' /\ NoCount
<1>1. PICK t : t = [node[n] EXCEPT !.doubted = @ \ {m}, !.silent = @ \ {m}]
  OBVIOUS
<1>2. t \in State /\ RoleOK(t, n) /\ t.rejections = node[n].rejections
  <2>1. node[n] \in State /\ RoleOK(node[n], n)
    BY NodeFacts DEF IInv
  <2>2. t \in State
    BY <1>1, <2>1 DEF State
  <2>3. /\ t.leaders = node[n].leaders /\ t.leader = node[n].leader
        /\ t.rejections = node[n].rejections /\ t.attached \subseteq node[n].attached
    BY <1>1, <2>1 DEF State
  <2> QED
    BY <2>1, <2>2, <2>3 DEF RoleOK, Leads
<1>3. node' = [node EXCEPT ![n] = t] /\ link' = link
  BY <1>1 DEF Refuted, IInv, Core, NodeInv
<1>4. Core'
  BY <1>2, <1>3, NodeFacts, SetKeeps DEF IInv
<1>5. NoCount
  BY <1>2, <1>3, NoCountSet
<1> QED
  BY <1>4, <1>5, EventsKept DEF Refuted, IInv

LEMMA SilenceStep ==
  ASSUME IInv, NEW n \in Node, Silence(n)
  PROVE  IInv' /\ NoCount
<1>1. PICK l : l = node[n].leader
  OBVIOUS
<1>2. PICK s : s = [node[n] EXCEPT !.leader = None, !.doubted = @ \cup {l}, !.silent = @ \cup {l}]
  OBVIOUS
<1>3. l \in Node
  BY <1>1, NodeFacts DEF Silence, Following, IInv, State, Peer
<1>4. s \in State /\ s.rejections = node[n].rejections /\ n \notin s.attached
      /\ s.leaders \in SUBSET Node
  <2>1. node[n] \in State /\ n \notin node[n].attached
    BY NodeFacts DEF IInv
  <2>2. s \in State
    BY <1>2, <1>3, <2>1 DEF State, Peer
  <2>3. s.rejections = node[n].rejections /\ s.attached = node[n].attached
    BY <1>2, <2>1 DEF State
  <2> QED
    BY <2>1, <2>2, <2>3 DEF State
<1>5. Outcome(n, Evaluate(n, s, s.leaders, None, link))
  BY <1>1, <1>2 DEF Silence, Reevaluate
<1>6. Core' /\ \A m \in Node : node'[m].rejections = IF m = n THEN s.rejections ELSE node[m].rejections
  BY <1>4, <1>5, NodeFacts, OutcomeKeeps DEF IInv
<1>7. NoCount
  BY <1>4, <1>6, NodeFacts DEF NoCount, IInv
<1> QED
  BY <1>6, <1>7, EventsKept DEF Silence, IInv

LEMMA HandleJoinStep ==
  ASSUME IInv, NEW p \in Node, NEW q \in Node, HandleJoin(p, q)
  PROVE  IInv' /\ NoCount
<1>1. PICK ok \in BOOLEAN : ok = Leads(node[q], q)
  <2>1. (q \in node[q].leaders) \in BOOLEAN
    OBVIOUS
  <2> QED
    BY <2>1 DEF Leads
<1>2. PICK f : f = [type |-> "ack", ok |-> ok, hint |-> node[q].leader,
                    current |-> Head(link[p][q]).current]
  OBVIOUS
<1>3. PICK t : t = IF ok THEN [node[q] EXCEPT !.attached = @ \cup {p}] ELSE node[q]
  OBVIOUS
<1>4. /\ link[p][q] # << >> /\ Head(link[p][q]).type = "join"
      /\ node' = [node EXCEPT ![q] = t]
      /\ link' = Sent(Took(link, p, q), q, p, f)
  BY <1>1, <1>2, <1>3 DEF HandleJoin, First, Taken, Took, IInv, Core, NodeInv
<1>5. LinksOK(Took(link, p, q)) /\ NoNewAsk(Took(link, p, q), link) /\ p # q
  BY <1>4, NodeFacts, TakeKeeps DEF IInv
<1>6. LinksOK(Put(Took(link, p, q), q, p, f)) /\ NoNewAsk(Put(Took(link, p, q), q, p, f), link)
  BY <1>2, <1>4, NodeFacts, AnswerSent DEF IInv, State
<1>7. LinksOK(link') /\ NoNewAsk(link', link)
  BY <1>4, <1>5, <1>6 DEF Sent, Put
<1>8. t \in State /\ RoleOK(t, q) /\ t.rejections = node[q].rejections
  BY <1>1, <1>3, <1>5, NodeFacts DEF IInv, State, RoleOK, Leads
<1>9. Core'
  BY <1>4, <1>7, <1>8, NodeFacts, SetKeeps DEF IInv, NoNewAsk, Asked
<1>10. NoCount
  BY <1>4, <1>8, NoCountSet
<1> QED
  BY <1>9, <1>10, EventsKept DEF HandleJoin, IInv

\* Only here is a refusal counted, and then it is the last answer.
LEMMA HandleAckStep ==
  ASSUME IInv, NEW p \in Node, NEW q \in Node, HandleAck(p, q)
  PROVE  /\ IInv'
         /\ \/ NoCount
            \/ /\ node[q].leader = p
               /\ \A m \in Node \ {q} : node'[m].rejections = node[m].rejections
               /\ ~InFlight(q, p, {"join"})
               /\ \A i \in DOMAIN link[p][q] \ {1} : link[p][q][i].type # "ack"
<1>1. link[p][q] # << >> /\ Head(link[p][q]).type = "ack"
  BY DEF HandleAck, First
<1>2. LinksOK(Took(link, p, q)) /\ NoNewAsk(Took(link, p, q), link) /\ Head(link[p][q]) \in Frame
  BY <1>1, NodeFacts, TakeKeeps DEF IInv
<1>3. PICK f \in Frame : f = Head(link[p][q])
  BY <1>2
<1>4. EventInv'
  BY EventsKept DEF HandleAck, IInv
<1>5. CASE f.current /\ node[q].leader = p /\ ~f.ok
  <2>1. PICK s : s = [node[q] EXCEPT !.leader = None, !.rejections = @ + 1]
    OBVIOUS
  <2>2. /\ Asked(link, q) /\ ~Asked(Took(link, p, q), q)
        /\ \A j \in DOMAIN link[q][p] : link[q][p][j].type # "join"
        /\ \A j \in DOMAIN link[p][q] \ {1} : link[p][q][j].type # "ack"
    BY <1>1, <1>3, <1>5, NodeFacts, AnswerTaken DEF IInv
  <2>3. node[q].rejections <= MaxRejections /\ node[q].rejections \in Nat
    BY <2>2, NodeFacts DEF IInv
  <2>4. /\ s \in State /\ s.rejections = node[q].rejections + 1 /\ q \notin s.attached
        /\ node[q].leaders \in SUBSET Node
    <3>1. node[q] \in State /\ q \notin node[q].attached
      BY NodeFacts DEF IInv
    <3>2. s \in State
      <4>1. PICK k \in Nat : k = node[q].rejections + 1
        BY <2>3
      <4>2. s = [node[q] EXCEPT !.leader = None, !.rejections = k]
        BY <2>1, <4>1
      <4> QED
        BY <3>1, <4>2 DEF State, Peer
    <3>3. s.rejections = node[q].rejections + 1 /\ s.attached = node[q].attached
      BY <2>1, <3>1 DEF State
    <3> QED
      BY <3>1, <3>2, <3>3 DEF State
  <2>5. Outcome(q, Evaluate(q, s, node[q].leaders, f.hint, Took(link, p, q)))
    BY <1>3, <1>5, <2>1 DEF HandleAck, Taken, Took
  <2>6. s.rejections <= MaxRejections + 1
    BY <2>3, <2>4, AttachmentAssumption
  <2>7. \A m \in Node \ {q} : Asked(Took(link, p, q), m) => Asked(link, m)
    BY <1>2 DEF NoNewAsk, Asked
  <2>8. Core' /\ \A m \in Node : node'[m].rejections = IF m = q THEN s.rejections ELSE node[m].rejections
    BY <1>2, <2>2, <2>4, <2>5, <2>6, <2>7, OutcomeKeeps DEF IInv
  <2>9. ~InFlight(q, p, {"join"})
    BY <2>2 DEF InFlight
  <2> QED
    BY <1>4, <1>5, <2>2, <2>8, <2>9 DEF IInv
<1>6. CASE ~(f.current /\ node[q].leader = p /\ ~f.ok)
  <2>1. node' = node /\ link' = Took(link, p, q)
    BY <1>3, <1>6 DEF HandleAck, Taken, Took
  <2>2. Core'
    BY <1>2, <2>1, SameKeeps DEF IInv
  <2>3. NoCount
    BY <2>1, NodeFacts DEF NoCount, IInv
  <2> QED
    BY <1>4, <2>2, <2>3 DEF IInv
<1> QED
  BY <1>5, <1>6

LEMMA BeatStep ==
  ASSUME IInv, NEW p \in Node, NEW q \in Node, Beat(p, q)
  PROVE  IInv' /\ NoCount
<1>1. PICK f \in Frame : f = [type |-> "beat"]
  BY DEF Frame
<1>2. p # q /\ link' = Sent(link, p, q, f) /\ node' = node
  BY <1>1, NodeFacts DEF Beat, IInv
<1>3. LinksOK(link') /\ NoNewAsk(link', link)
  BY <1>1, <1>2, NodeFacts, SentPlain DEF IInv
<1>4. Core'
  BY <1>2, <1>3, SameKeeps DEF IInv
<1>5. NoCount
  BY <1>2, NodeFacts DEF NoCount, IInv
<1> QED
  BY <1>4, <1>5, EventsKept DEF Beat, IInv

LEMMA HandleBeatStep ==
  ASSUME IInv, NEW p \in Node, NEW q \in Node, HandleBeat(p, q)
  PROVE  IInv' /\ NoCount
<1>1. PICK s : s = [node[q] EXCEPT !.doubted = @ \ {p}, !.silent = @ \ {p}]
  OBVIOUS
<1>2. s \in State /\ RoleOK(s, q) /\ s.rejections = node[q].rejections
  <2>1. node[q] \in State /\ RoleOK(node[q], q)
    BY NodeFacts DEF IInv
  <2>2. s \in State
    BY <1>1, <2>1 DEF State
  <2>3. /\ s.leaders = node[q].leaders /\ s.leader = node[q].leader
        /\ s.rejections = node[q].rejections /\ s.attached \subseteq node[q].attached
    BY <1>1, <2>1 DEF State
  <2> QED
    BY <2>1, <2>2, <2>3 DEF RoleOK, Leads
<1>3. LinksOK(Took(link, p, q)) /\ NoNewAsk(Took(link, p, q), link) /\ p # q
  BY NodeFacts, TakeKeeps DEF HandleBeat, First, IInv
<1>4. PICK o \in Settlements(q, s, Took(link, p, q)) \cup
                 {[state |-> node[q], link |-> Took(link, p, q)]} :
        /\ node' = [node EXCEPT ![q] = o.state]
        /\ link' = Sent(o.link, q, p, [type |-> "beatAck", observed |-> o.state.leader])
  BY <1>1 DEF HandleBeat, Taken, Took
<1>5. /\ o.state \in State /\ RoleOK(o.state, q) /\ o.state.rejections = node[q].rejections
      /\ o.state.rejections <= MaxRejections + 1
      /\ LinksOK(o.link)
      /\ \A m \in Node \ {q} : Asked(o.link, m) => Asked(link, m)
      /\ Asked(o.link, q) => o.state.rejections <= MaxRejections
  <2>1. CASE o \in Settlements(q, s, Took(link, p, q))
    BY <1>2, <1>3, <2>1, SettledKeeps DEF IInv
  <2>2. CASE o = [state |-> node[q], link |-> Took(link, p, q)]
    BY <1>3, <2>2, NodeFacts DEF IInv, NoNewAsk, Asked
  <2> QED
    BY <2>1, <2>2
<1>6. PICK f \in Frame : f = [type |-> "beatAck", observed |-> o.state.leader]
  BY <1>5 DEF Frame, State
<1>7. LinksOK(link') /\ NoNewAsk(link', o.link)
  BY <1>3, <1>4, <1>5, <1>6, SentPlain
<1>8. \A m \in Node : Asked(link', m) => Asked(o.link, m)
  BY <1>7 DEF NoNewAsk, Asked
<1>9. Core'
  BY <1>4, <1>5, <1>7, <1>8, SetKeeps DEF IInv
<1>10. NoCount
  BY <1>4, <1>5, NoCountSet
<1> QED
  BY <1>9, <1>10, EventsKept DEF HandleBeat, IInv

LEMMA HandleBeatAckStep ==
  ASSUME IInv, NEW p \in Node, NEW q \in Node, HandleBeatAck(p, q)
  PROVE  IInv' /\ NoCount
<1>1. LinksOK(Took(link, p, q)) /\ NoNewAsk(Took(link, p, q), link) /\ p # q
  BY NodeFacts, TakeKeeps DEF HandleBeatAck, First, IInv
<1>2. PICK mine : mine = AckedBy(node[q], q, p, Head(link[p][q]).observed)
  OBVIOUS
<1>3. PICK t : t = [node[q] EXCEPT !.attached = mine]
  OBVIOUS
<1>4. node' = [node EXCEPT ![q] = t] /\ link' = Took(link, p, q)
  BY <1>2, <1>3 DEF HandleBeatAck, Taken, Took, IInv, Core, NodeInv
<1>5. /\ mine \subseteq node[q].attached \cup {p}
      /\ ~Leads(node[q], q) => mine \subseteq node[q].attached
  BY <1>2 DEF AckedBy
<1>6. t \in State /\ RoleOK(t, q) /\ t.rejections = node[q].rejections
  BY <1>1, <1>3, <1>5, NodeFacts DEF IInv, State, RoleOK, Leads
<1>7. Core'
  BY <1>1, <1>4, <1>6, NodeFacts, SetKeeps DEF IInv, NoNewAsk, Asked
<1>8. NoCount
  BY <1>4, <1>6, NoCountSet
<1> QED
  BY <1>7, <1>8, EventsKept DEF HandleBeatAck, IInv

LEMMA HearClaimStep ==
  ASSUME IInv, NEW p \in Node, NEW q \in Node, HearClaim(p, q)
  PROVE  IInv' /\ NoCount
<1>1. LinksOK(Took(link, p, q)) /\ NoNewAsk(Took(link, p, q), link)
  BY NodeFacts, TakeKeeps DEF HearClaim, First, IInv
<1>2. \A m \in Node : Asked(Took(link, p, q), m) => Asked(link, m)
  BY <1>1 DEF NoNewAsk, Asked
<1>3. EventInv'
  BY EventsKept DEF HearClaim, IInv
<1>4. PICK leads : leads = Head(link[p][q]).leads
  OBVIOUS
<1>5. CASE leads = (p \in node[q].claims)
  <2>1. node' = node /\ link' = Took(link, p, q)
    BY <1>4, <1>5 DEF HearClaim, Taken, Took
  <2>2. Core' /\ NoCount
    BY <1>1, <2>1, SameKeeps, NodeFacts DEF NoCount, IInv
  <2> QED
    BY <1>3, <2>2 DEF IInv
<1>6. CASE leads # (p \in node[q].claims)
  <2>1. PICK s : s = [node[q] EXCEPT !.claims = IF leads THEN @ \cup {p} ELSE @ \ {p},
                                     !.leader = IF Voids(node[q], q, p, leads) THEN None ELSE @]
    OBVIOUS
  <2>2. s \in State /\ s.rejections = node[q].rejections /\ q \notin s.attached
        /\ s.leaders \in SUBSET Node
    <3>1. node[q] \in State /\ q \notin node[q].attached
      BY NodeFacts DEF IInv
    <3>2. PICK c \in SUBSET Node : c = IF leads THEN node[q].claims \cup {p} ELSE node[q].claims \ {p}
      BY <3>1 DEF State
    <3>3. PICK l \in Peer : l = IF Voids(node[q], q, p, leads) THEN None ELSE node[q].leader
      BY <3>1 DEF State, Peer
    <3>4. s = [node[q] EXCEPT !.claims = c, !.leader = l]
      BY <2>1, <3>2, <3>3
    <3>5. s \in State
      BY <3>1, <3>4 DEF State
    <3>6. s.rejections = node[q].rejections /\ s.attached = node[q].attached
      BY <3>1, <3>4 DEF State
    <3> QED
      BY <3>1, <3>5, <3>6 DEF State
  <2>3. Outcome(q, Evaluate(q, s, s.leaders, None, Took(link, p, q)))
    BY <1>4, <1>6, <2>1 DEF HearClaim, Reevaluate, Taken, Took
  <2>4. Core' /\ \A m \in Node : node'[m].rejections = IF m = q THEN s.rejections ELSE node[m].rejections
    BY <1>1, <1>2, <2>2, <2>3, NodeFacts, OutcomeKeeps DEF IInv
  <2>5. NoCount
    BY <2>2, <2>4, NodeFacts DEF NoCount, IInv
  <2> QED
    BY <1>3, <2>4, <2>5 DEF IInv
<1> QED
  BY <1>5, <1>6

LEMMA LinkLostStep ==
  ASSUME IInv, NEW p \in Node, NEW q \in Node, LinkLost(p, q)
  PROVE  IInv' /\ NoCount
<1>1. link \in Links /\ LinksOK(link) /\ node' = node
  BY NodeFacts DEF LinkLost, LinksOK, IInv
<1>2. p # q
  BY AttachmentAssumption DEF LinkLost
<1>3. \A a, b \in Node : link'[a][b] = IF (a = p /\ b = q) \/ (a = q /\ b = p) THEN << >> ELSE link[a][b]
  BY <1>1, <1>2 DEF LinkLost, Links
<1>4. link' \in Links
  BY <1>1, EmptySeq DEF LinkLost, Links
<1>5. NoneToSelf(link')
  BY <1>1, <1>3 DEF LinksOK, NoneToSelf
<1>6. Under(link', link)
  <2>1. SUFFICES ASSUME NEW a \in Node, NEW b \in Node, NEW i \in DOMAIN link'[a][b]
                 PROVE  i + 0 \in DOMAIN link[a][b] /\ link'[a][b][i] = link[a][b][i + 0]
    BY DEF Under
  <2>2. link'[a][b] = link[a][b]
    <3>1. DOMAIN << >> = {}
      OBVIOUS
    <3> QED
      BY <1>3, <2>1, <3>1
  <2>3. i \in Nat
    BY <1>1, <2>1, <2>2, LinkFacts
  <2> QED
    BY <2>1, <2>2, <2>3
<1>7. LinksOK(link') /\ NoNewAsk(link', link)
  BY <1>1, <1>4, <1>5, <1>6, UnderKeeps
<1>8. Core' /\ NoCount
  BY <1>1, <1>7, SameKeeps, NodeFacts DEF NoCount, IInv
<1>9. EventInv'
  <2>1. /\ broken' = broken \cup {{p, q}} /\ faults' \in 0..MaxFaults
        /\ \A a, b \in Node : events'[a][b] = IF (a = p /\ b = q) \/ (a = q /\ b = p) THEN <<"down">>
                                              ELSE events[a][b]
        /\ events' \in [Node -> [Node -> News]]
    <3>1. /\ broken' = broken \cup {{p, q}} /\ faults' \in 0..MaxFaults
          /\ events \in [Node -> [Node -> News]]
      BY AttachmentAssumption DEF LinkLost, Fault, IInv, EventInv
    <3>2. events' = [events EXCEPT ![p][q] = <<"down">>, ![q][p] = <<"down">>]
      BY DEF LinkLost
    <3>3. PICK d \in News : d = <<"down">>
      BY DEF News
    <3>4. events' = [events EXCEPT ![p][q] = d, ![q][p] = d]
      BY <3>2, <3>3
    <3>5. \A a, b \in Node : events'[a][b] = IF (a = p /\ b = q) \/ (a = q /\ b = p) THEN d
                                              ELSE events[a][b]
      BY <1>2, <3>1, <3>4
    <3>6. events' \in [Node -> [Node -> News]]
      BY <1>2, <3>1, <3>4
    <3> QED
      BY <3>1, <3>3, <3>5, <3>6
  <2>2. \A a, b \in Node : {a, b} = {p, q} => (a = p /\ b = q) \/ (a = q /\ b = p)
    BY <1>2
  <2>3. broken' \subseteq Pairs
    <3>1. {p, q} \in Pairs
      BY DEF Pairs
    <3> QED
      BY <2>1, <3>1 DEF IInv, EventInv
  <2>4. \A a, b \in Node : {a, b} \in broken' => events'[a][b] \in {<< >>, <<"down">>}
    <3>1. ASSUME NEW a \in Node, NEW b \in Node, {a, b} \in broken'
          PROVE  events'[a][b] \in {<< >>, <<"down">>}
      <4>1. CASE (a = p /\ b = q) \/ (a = q /\ b = p)
        BY <2>1, <4>1
      <4>2. CASE ~((a = p /\ b = q) \/ (a = q /\ b = p))
        <5>1. {a, b} \in broken /\ events'[a][b] = events[a][b]
          BY <2>1, <2>2, <3>1, <4>2
        <5> QED
          BY <5>1 DEF IInv, EventInv
      <4> QED
        BY <4>1, <4>2
    <3> QED
      BY <3>1
  <2>5. \A n \in Node : events'[n][n] = << >>
    BY <1>2, <2>1 DEF IInv, EventInv
  <2> QED
    BY <2>1, <2>3, <2>4, <2>5 DEF EventInv
<1> QED
  BY <1>8, <1>9 DEF IInv

LEMMA ReconnectedStep ==
  ASSUME IInv, NEW p \in Node, NEW q \in Node, Reconnected(p, q)
  PROVE  IInv' /\ NoCount
<1>1. Core' /\ NoCount
  <2>1. node' = node /\ link' = link
    BY DEF Reconnected
  <2> QED
    BY <2>1, SameKeeps, NodeFacts DEF NoCount, IInv
<1>2. p # q /\ {p, q} \in broken /\ {q, p} = {p, q}
  BY AttachmentAssumption DEF Reconnected, Connected
<1>3. /\ events[p][q] \in {<< >>, <<"down">>} /\ events[q][p] \in {<< >>, <<"down">>}
  BY <1>2 DEF IInv, EventInv
<1>4. \A s \in {<< >>, <<"down">>} : Append(s, "up") \in News
  BY AppendPair, AppendOne DEF News
<1>5. events' = [events EXCEPT ![p][q] = Append(@, "up"), ![q][p] = Append(@, "up")]
  BY DEF Reconnected
<1>6. PICK x \in News, y \in News : x = Append(events[p][q], "up") /\ y = Append(events[q][p], "up")
  BY <1>3, <1>4
<1>7. events' = [events EXCEPT ![p][q] = x, ![q][p] = y] /\ events \in [Node -> [Node -> News]]
  BY <1>2, <1>5, <1>6 DEF IInv, EventInv
<1>8. \A a, b \in Node : events'[a][b] = IF a = p /\ b = q THEN x
                                         ELSE IF a = q /\ b = p THEN y ELSE events[a][b]
  BY <1>2, <1>7
<1>9. events' \in [Node -> [Node -> News]]
  BY <1>2, <1>7
<1>10. broken' = broken \ {{p, q}} /\ faults' = faults
  BY DEF Reconnected
<1>11. \A a, b \in Node : {a, b} \in broken' => events'[a][b] \in {<< >>, <<"down">>}
  <2>1. ASSUME NEW a \in Node, NEW b \in Node, {a, b} \in broken'
        PROVE  events'[a][b] \in {<< >>, <<"down">>}
    <3>1. {a, b} \in broken /\ ~(a = p /\ b = q) /\ ~(a = q /\ b = p)
      BY <1>2, <1>10, <2>1
    <3>2. events'[a][b] = events[a][b]
      BY <1>8, <3>1
    <3> QED
      BY <3>1, <3>2 DEF IInv, EventInv
  <2> QED
    BY <2>1
<1>12. \A n \in Node : events'[n][n] = << >>
  BY <1>2, <1>8 DEF IInv, EventInv
<1>13. EventInv'
  <2>1. broken' \subseteq Pairs /\ faults' \in 0..MaxFaults
    BY <1>10 DEF IInv, EventInv
  <2> QED
    BY <1>9, <1>11, <1>12, <2>1 DEF EventInv
<1> QED
  BY <1>1, <1>13 DEF IInv

\* A transport's oldest event is taken.
LEMMA EventTaken ==
  ASSUME EventInv, NEW n \in Node, NEW m \in Node, events[n][m] # << >>,
         events' = [events EXCEPT ![n][m] = Tail(@)], UNCHANGED <<broken, faults>>
  PROVE  EventInv' /\ n # m
<1>1. /\ events[n][m] \in News /\ Tail(events[n][m]) \in News
      /\ {n, m} \in broken => Tail(events[n][m]) \in {<< >>, <<"down">>}
  <2>1. events[n][m] \in News /\ ({n, m} \in broken => events[n][m] = <<"down">>)
    BY DEF EventInv
  <2>2. \A s \in News \ {<< >>} : s \in {<<"down">>, <<"up">>, <<"down", "up">>}
    BY DEF News
  <2>3. events[n][m] \in {<<"down">>, <<"up">>, <<"down", "up">>}
    BY <2>1, <2>2
  <2>4. /\ \A s \in {<<"down">>, <<"up">>, <<"down", "up">>} : Tail(s) \in {<< >>, <<"up">>}
        /\ Tail(<<"down">>) = << >>
    BY TailNews
  <2>5. Tail(events[n][m]) \in News
    BY <2>3, <2>4 DEF News
  <2> QED
    BY <2>1, <2>4, <2>5
<1>3. n # m
  BY DEF EventInv
<1>4. events' \in [Node -> [Node -> News]]
  BY <1>1 DEF EventInv
<1>5. \A a, b \in Node : events'[a][b] = IF a = n /\ b = m THEN Tail(events[n][m]) ELSE events[a][b]
  BY DEF EventInv
<1>6. \A a, b \in Node : {a, b} \in broken' => events'[a][b] \in {<< >>, <<"down">>}
  <2>1. ASSUME NEW a \in Node, NEW b \in Node, {a, b} \in broken
        PROVE  events'[a][b] \in {<< >>, <<"down">>}
    <3>1. CASE a = n /\ b = m
      BY <1>1, <1>5, <2>1, <3>1
    <3>2. CASE ~(a = n /\ b = m)
      BY <1>5, <2>1, <3>2 DEF EventInv
    <3> QED
      BY <3>1, <3>2
  <2> QED
    BY <2>1
<1>7. \A k \in Node : events'[k][k] = << >>
  BY <1>3, <1>5 DEF EventInv
<1> QED
  BY <1>3, <1>4, <1>6, <1>7 DEF EventInv

LEMMA PeerDownStep ==
  ASSUME IInv, NEW n \in Node, NEW m \in Node, PeerDown(n, m)
  PROVE  IInv' /\ NoCount
<1>1. PICK s : s = [node[n] EXCEPT !.attached = @ \ {m}, !.doubted = @ \cup {m}]
  OBVIOUS
<1>2. s \in State /\ RoleOK(s, n) /\ s.rejections = node[n].rejections
  <2>1. node[n] \in State /\ RoleOK(node[n], n)
    BY NodeFacts DEF IInv
  <2>2. s \in State
    BY <1>1, <2>1 DEF State
  <2>3. /\ s.leaders = node[n].leaders /\ s.leader = node[n].leader
        /\ s.rejections = node[n].rejections /\ s.attached \subseteq node[n].attached
    BY <1>1, <2>1 DEF State
  <2> QED
    BY <2>1, <2>2, <2>3 DEF RoleOK, Leads
<1>3. PICK o \in Settlements(n, s, link) : node' = [node EXCEPT ![n] = o.state] /\ link' = o.link
  BY <1>1 DEF PeerDown, Outcome
<1>4. /\ o.state \in State /\ RoleOK(o.state, n) /\ o.state.rejections = node[n].rejections
      /\ o.state.rejections <= MaxRejections + 1 /\ LinksOK(o.link)
      /\ \A k \in Node \ {n} : Asked(o.link, k) => Asked(link, k)
      /\ Asked(o.link, n) => o.state.rejections <= MaxRejections
  BY <1>2, NodeFacts, SettledKeeps DEF IInv
<1>5. Core'
  BY <1>3, <1>4, SetKeeps DEF IInv
<1>6. NoCount
  BY <1>3, <1>4, NoCountSet
<1> QED
  BY <1>5, <1>6, EventTaken DEF PeerDown, IInv

LEMMA PeerUpStep ==
  ASSUME IInv, NEW n \in Node, NEW m \in Node, PeerUp(n, m)
  PROVE  IInv' /\ NoCount
<1>1. EventInv' /\ n # m
  BY EventTaken DEF PeerUp, IInv
<1>2. PICK f \in Frame : f = [type |-> "claim", leads |-> Leads(node[n], n)]
  <2>1. (n \in node[n].leaders) \in BOOLEAN
    OBVIOUS
  <2> QED
    BY <2>1 DEF Frame, Leads
<1>3. LinksOK(Put(link, n, m, f)) /\ NoNewAsk(Put(link, n, m, f), link)
  BY <1>1, <1>2, NodeFacts, SentPlain DEF IInv
<1>4. PICK s : s = [node[n] EXCEPT !.doubted = @ \ {m}, !.silent = @ \ {m}]
  OBVIOUS
<1>5. s \in State /\ RoleOK(s, n) /\ s.rejections = node[n].rejections
  <2>1. node[n] \in State /\ RoleOK(node[n], n)
    BY NodeFacts DEF IInv
  <2>2. s \in State
    BY <1>4, <2>1 DEF State
  <2>3. /\ s.leaders = node[n].leaders /\ s.leader = node[n].leader
        /\ s.rejections = node[n].rejections /\ s.attached \subseteq node[n].attached
    BY <1>4, <2>1 DEF State
  <2> QED
    BY <2>1, <2>2, <2>3 DEF RoleOK, Leads
<1>6. PICK o \in Settlements(n, s, Put(link, n, m, f)) :
        node' = [node EXCEPT ![n] = o.state] /\ link' = o.link
  BY <1>2, <1>4 DEF PeerUp, Outcome, Put
<1>7. /\ o.state \in State /\ RoleOK(o.state, n) /\ o.state.rejections = node[n].rejections
      /\ o.state.rejections <= MaxRejections + 1 /\ LinksOK(o.link)
      /\ \A k \in Node \ {n} : Asked(o.link, k) => Asked(link, k)
      /\ Asked(o.link, n) => o.state.rejections <= MaxRejections
  BY <1>3, <1>5, SettledKeeps DEF IInv
<1>8. Core'
  BY <1>6, <1>7, SetKeeps DEF IInv
<1>9. NoCount
  BY <1>6, <1>7, NoCountSet
<1> QED
  BY <1>1, <1>8, <1>9 DEF IInv

-----------------------------------------------------------------------------
LEMMA InitIInv == Init => IInv
<1> SUFFICES ASSUME Init PROVE IInv
  OBVIOUS
<1>1. PICK local \in [Node -> Measures] :
        node = [n \in Node |->
                 [leaders |-> {n}, leader |-> n, rejections |-> 0, attached |-> {},
                  claims |-> Node, doubted |-> {}, silent |-> {}, local |-> local[n]]]
  BY DEF Init
<1>2. link \in Links /\ \A p, q \in Node : link[p][q] = << >> /\ DOMAIN link[p][q] = {}
  BY EmptySeq DEF Init, Links
<1>3. \A n \in Node : ~Asked(link, n)
  BY <1>2 DEF Asked, Asks
<1>4. LinksOK(link)
  BY <1>2 DEF LinksOK, NoneToSelf, Ordered, OneAsk, Asks
<1>5. NodeInv
  BY <1>1, AttachmentAssumption DEF NodeInv, State, Peer, RoleOK, Leads
<1>6. EventInv
  BY AttachmentAssumption DEF Init, EventInv, News
<1> QED
  BY <1>3, <1>4, <1>5, <1>6 DEF IInv, Core, CountInv

LEMMA DeliverStep ==
  ASSUME IInv, NEW p \in Node, NEW q \in Node, Deliver(p, q)
  PROVE  IInv' /\ (HandleAck(p, q) \/ NoCount)
BY HandleJoinStep, HandleAckStep, HandleBeatStep, HandleBeatAckStep, HearClaimStep DEF Deliver

LEMMA NextStep ==
  ASSUME IInv, Next
  PROVE  IInv' /\ (NoCount \/ \E p, q \in Node : HandleAck(p, q))
<1>1. ASSUME NEW n \in Node, Elected(n)
      PROVE  IInv' /\ NoCount
  BY <1>1, ElectedStep, AttachmentAssumption DEF Elected
<1>2. ASSUME NEW n \in Node, NEW elected \in SUBSET Node, Stray(n, elected)
      PROVE  IInv' /\ NoCount
  BY <1>2, ElectedStep DEF Stray
<1>3. ASSUME NEW p \in Node, NEW q \in Node,
             \/ Refuted(p, q) \/ Beat(p, q) \/ LinkLost(p, q) \/ Reconnected(p, q)
             \/ PeerDown(p, q) \/ PeerUp(p, q)
      PROVE  IInv' /\ NoCount
  BY <1>3, RefutedStep, BeatStep, LinkLostStep, ReconnectedStep, PeerDownStep, PeerUpStep
<1> QED
  BY <1>1, <1>2, <1>3, ProbeRoundStep, SilenceStep, DeliverStep DEF Next

LEMMA SameIInv == IInv /\ UNCHANGED vars => IInv'
BY DEF vars, IInv, Core, NodeInv, LinksOK, NoneToSelf, Ordered, OneAsk, CountInv, Asked, Asks,
   EventInv

LEMMA SpecIInv == Spec => []IInv
BY InitIInv, NextStep, SameIInv, PTL DEF Spec

\* A node leads workers only while it acts on an election it won, and then it follows
\* nobody; and between two probe rounds a worker answers no more than MaxRejections
\* refusals with another JOIN: whatever elections decide, links lose and nodes doubt
\* (affinity.go, node.go handleJoinAck).
THEOREM RolesAreSound == Spec => []RolesSound
<1>1. IInv => RolesSound
  <2> SUFFICES ASSUME IInv PROVE RolesSound
    OBVIOUS
  <2>1. \A p, q \in Node : \A i \in DOMAIN link[p][q] : link[p][q][i] \in Frame
    BY LinkFacts DEF IInv, Core, LinksOK
  <2>2. TypeOK
    BY <2>1 DEF TypeOK, IInv, Core, NodeInv, RoleOK, EventInv, News, Pairs
  <2> QED
    BY <2>2 DEF RolesSound, IInv, Core, NodeInv, RoleOK
<1> QED
  BY <1>1, SpecIInv, PTL

\* A refusal is counted only as the answer to the last JOIN, however many JOINs and
\* answers of earlier ones the links still hold (node.go handleJoinAck).
THEOREM OnlyTheLastAnswerCounts == Spec => LastAnswerOnly
<1> DEFINE Counts(p, q) ==
      /\ node[q].leader = p
      /\ node'[q].rejections > node[q].rejections
      => /\ ~InFlight(q, p, {"join"})
         /\ \A i \in DOMAIN link[p][q] \ {1} : link[p][q][i].type # "ack"
<1>1. ASSUME IInv, [Next]_vars, NEW p \in Node, NEW q \in Node
      PROVE  Counts(p, q)
  <2>1. node[q].rejections \in Nat
    BY <1>1, NodeFacts DEF IInv
  <2>2. CASE UNCHANGED vars
    BY <2>1, <2>2 DEF vars
  <2>3. CASE NoCount
    <3>1. node'[q].rejections <= node[q].rejections
      BY <2>3 DEF NoCount
    <3>2. IInv'
      BY <1>1, NextStep, SameIInv
    <3>3. node'[q].rejections \in Nat
      BY <3>2 DEF IInv, Core, NodeInv, State
    <3> QED
      BY <2>1, <3>1, <3>3
  <2>4. ASSUME NEW a \in Node, NEW b \in Node, HandleAck(a, b), ~NoCount
        PROVE  Counts(p, q)
    <3>1. /\ node[b].leader = a
          /\ \A m \in Node \ {b} : node'[m].rejections = node[m].rejections
          /\ ~InFlight(b, a, {"join"})
          /\ \A i \in DOMAIN link[a][b] \ {1} : link[a][b][i].type # "ack"
      BY <1>1, <2>4, HandleAckStep
    <3>2. CASE q = b
      BY <3>1, <3>2
    <3>3. CASE q # b
      BY <2>1, <3>1, <3>3
    <3> QED
      BY <3>2, <3>3
  <2> QED
    BY <1>1, <2>2, <2>3, <2>4, NextStep
<1>2. IInv /\ [Next]_vars => [\A p, q \in Node : Counts(p, q)]_vars
  BY <1>1
<1> QED
  BY <1>2, SpecIInv, PTL DEF Spec, LastAnswerOnly
=============================================================================
