----------------------------- MODULE NetworkProofs -----------------------------
(***************************************************************************)
(* Safety of pkg/network, for every number of attempts, frames and faults. *)
(*                                                                         *)
(* PoolRegistry, whoever dials: the types, and that the consumer of a pool *)
(* is told what is true of the peer, in alternating events.  One inductive *)
(* invariant says who holds a claim, where an entry of the registry may    *)
(* be, and which events are still to be delivered.  A second one, for as   *)
(* long as nothing broke, follows the tie-break of crossing dials at both  *)
(* ends: no PeerDown is decided.                                           *)
(*                                                                         *)
(* Connection, queues of any depth: what a connection that is replaced     *)
(* owes its peer.  Its invariant says where a frame can be that was        *)
(* accepted and is not written, and how far the swap is.                   *)
(***************************************************************************)
EXTENDS MCNetwork, SequenceTheorems, FiniteSetTheorems, TLAPS

Handshaking == {"hello", "accept", "register"}
Claiming == {"register", "up", "releaseClaim"}
DialInFlight == {"hello", "register", "up", "releaseClaim", "releaseDialing"}

\* The goroutines that hold a claim on n's peer.
Claimants(n) == {e \in EndsAt(n) : pc[e] \in Claiming}

\* What the consumer should come to believe, and a PeerUp not yet delivered.
Up(n) == peer[n] # None \/ deferred[n] # None
Raising(n) == \E e \in EndsAt(n) : pc[e] = "up"

Types ==
  /\ TypeOK
  /\ \A n \in Node : inc[n] <= faults + 1
  /\ \A e \in End : says[e] <= faults + 1

\* A node's registry and goroutines name its own ends.
Own ==
  /\ \A n \in Node : {peer[n], deferred[n], inFlight[n]} \subseteq EndsAt(n) \cup {None}
  /\ \A e \in End : down[e] \in EndsAt(e.at) \cup {None}

\* dialLoop and admitLoop do different things, and a pool dials its peer once at a time.
Sides == \A e \in End :
  /\ pc[e] \in {"hello", "releaseDialing", "rest"} => Dialled(e)
  /\ pc[e] = "accept" => ~Dialled(e)

OneDial == \A e, f \in End :
  e.at = f.at /\ Dialled(e) /\ Dialled(f) /\ pc[e] # "idle" /\ pc[f] # "idle" => e = f

\* The two counters count who will give a claim back.
Claims == \A n \in Node : claims[n] = Cardinality(Claimants(n))
Dials == \A n \in Node :
  dialing[n] = IF \E e \in EndsAt(n) : Dialled(e) /\ pc[e] \in DialInFlight THEN 1 ELSE 0

\* A connection that is not registered yet has no events and no entry.
Fresh == \A e \in End :
  /\ pc[e] \in Handshaking \cup Claiming => down[e] = None
  /\ pc[e] \in Handshaking => e \notin retired \cup {peer[e.at], deferred[e.at], inFlight[e.at]}

\* An entry is in one place, and retired only when it has left it; the goroutine of a
\* registered connection has not watched it yet, that of a parked one is done.
Entries == \A n \in Node :
  /\ {peer[n], deferred[n], inFlight[n]} \cap retired = {}
  /\ peer[n] = None \/ deferred[n] = None
  /\ peer[n] # None => /\ pc[peer[n]] \in {"up", "releaseClaim", "releaseDialing", "watch"}
                       /\ peer[n] \in kept
  /\ deferred[n] # None => pc[deferred[n]] \in {"idle", "rest"} /\ deferred[n] # inFlight[n]
  /\ inFlight[n] # None => pc[inFlight[n]] \in {"idle", "rest"}

\* One goroutine at most delivers a PeerDown, of the entry in downInFlight.
Downs == \A n \in Node :
  /\ \A e \in EndsAt(n) : down[e] # None => down[e] = inFlight[n]
  /\ \A e, f \in EndsAt(n) : down[e] # None /\ down[f] # None => e = f
  /\ inFlight[n] # None => \E e \in EndsAt(n) : down[e] # None

\* One at most delivers a PeerUp, and it waits for the PeerDown before it.
Ups == \A n \in Node :
  /\ \A e \in EndsAt(n) :
       pc[e] = "up" => Up(n) /\ (inFlight[n] # None => awaits[e] = inFlight[n])
  /\ \A e, f \in EndsAt(n) : pc[e] = "up" /\ pc[f] = "up" => e = f
  /\ inFlight[n] # None /\ Up(n) => Raising(n)

Tell == \A n \in Node :
  told[n] = IF inFlight[n] # None \/ (Up(n) /\ ~Raising(n)) THEN 1 ELSE 0

Safe == Own /\ Sides /\ OneDial /\ Dials /\ Fresh /\ Entries /\ Downs /\ Ups /\ Tell
IInv == Types /\ Claims /\ Safe

-----------------------------------------------------------------------------
\* Ends and the counters over them.

LEMMA NodeFacts == Node = {1, 2} /\ \A n \in Node : Other(n) \in Node
BY DEF Node, Other

\* None is no end; a node's ends are its own; the far end is the other node's.
LEMMA EndFacts ==
  /\ \A e \in End : e.at \in Node /\ e.by \in Node /\ e.slot \in Slot
  /\ \A e \in End : Far(e) \in End /\ Far(e) # e /\ Far(e).at # e.at /\ Far(e).by = e.by
                    /\ (Dialled(Far(e)) <=> ~Dialled(e))
  /\ \A n \in Node : \A e \in EndsAt(n) : e \in End /\ e.at = n
  /\ \A e \in End : \A n \in Node : e.at = n => e \in EndsAt(n)
  /\ \A e \in End : e # None
BY NoneAssumption DEF End, Far, Dialled, EndsAt, Node, Other

LEMMA EndsFinite == \A n \in Node : IsFiniteSet(EndsAt(n))
<1> DEFINE P == Node \X (Slot \X Node)
           f == [p \in P |-> [by |-> p[1], slot |-> p[2][1], at |-> p[2][2]]]
<1>1. IsFiniteSet(Node)
  <2>1. Node = ({} \cup {1}) \cup {2}
    BY NodeFacts
  <2> QED
    BY <2>1, FS_EmptySet, FS_AddElement
<1>2. IsFiniteSet(P)
  BY <1>1, FS_Product, PoolAssumption
<1>3. f \in Surjection(P, End)
  <2>1. f \in [P -> End]
    BY DEF End
  <2>2. \A e \in End : f[<<e.by, <<e.slot, e.at>>>>] = e
    BY DEF End
  <2>3. \A e \in End : <<e.by, <<e.slot, e.at>>>> \in P
    BY DEF End
  <2> QED
    BY <2>1, <2>2, <2>3 DEF Surjection
<1>4. IsFiniteSet(End)
  BY <1>2, <1>3, FS_Surjection
<1> QED
  BY <1>4, FS_Subset DEF EndsAt

LEMMA ClaimantsFinite == \A n \in Node : IsFiniteSet(Claimants(n)) /\ IsFiniteSet(Claimants(n)')
BY EndsFinite, FS_Subset DEF Claimants, EndsAt

\* Without a claim on a node's peer no handshake is on its way to being registered there.
LEMMA Unclaimed ==
  ASSUME Claims, NEW n \in Node, claims[n] = 0
  PROVE  \A f \in EndsAt(n) : pc[f] \notin Claiming
<1>1. Claimants(n) = {}
  BY ClaimantsFinite, FS_EmptySet DEF Claims
<1> QED
  BY <1>1 DEF Claimants

-----------------------------------------------------------------------------
\* Every step keeps the invariant.

LEMMA DialStep ==
  ASSUME IInv, NEW e \in End, Dial(e)
  PROVE  IInv'
<1>0. /\ Dialled(e) /\ Far(e) \in End /\ ~Dialled(Far(e)) /\ Far(e) # e
      /\ pc' = [pc EXCEPT ![e] = "hello", ![Far(e)] = "accept"]
      /\ kept' = kept \ {e, Far(e)} /\ retired' = retired \ {e, Far(e)}
      /\ dialing' = [dialing EXCEPT ![e.at] = @ + 1]
      /\ UNCHANGED <<down, awaits, peer, deferred, inFlight, claims, told>>
  BY EndFacts DEF Dial
<1>1. \A n \in Node : {e, Far(e)} \cap {peer[n], deferred[n], inFlight[n]} = {}
  BY DEF Dial, Free
<1>2. /\ Finished(e) /\ Finished(Far(e))
      /\ \A f \in EndsAt(e.at) : Dialled(f) => Finished(f)
  BY DEF Dial, Free
<1>3. dialing[e.at] = 0
  BY EndFacts DEF Dial, Finished, IInv, Safe, Dials, DialInFlight
<1>4. \A f \in End : /\ f # e /\ f # Far(e) => pc'[f] = pc[f]
                     /\ pc'[e] = "hello" /\ pc'[Far(e)] = "accept"
  BY <1>0 DEF IInv, Types, TypeOK
<1>5. Claims'
  <2>1. \A n \in Node : Claimants(n)' = Claimants(n)
    BY EndFacts
    DEF Dial, Claimants, EndsAt, Claiming, IInv, Types, TypeOK, Free, Finished
  <2> QED
    BY <2>1
    DEF Claims, IInv, Dial
<1>6. Types'
  BY EndFacts, NodeFacts, <1>3
  DEF Dial, Types, IInv, Safe, TypeOK, Dials, OneDial, PC, Free, Finished
<1>7. Own'
  BY EndFacts, <1>0, <1>1, <1>2
  DEF Own, IInv, Safe, Types, TypeOK, Finished
<1>8. Sides'
  BY EndFacts, <1>0, <1>1, <1>2
  DEF Sides, IInv, Safe, Types, TypeOK, Finished
<1>9. OneDial'
  BY EndFacts, <1>0, <1>1, <1>2
  DEF OneDial, IInv, Safe, Types, TypeOK, Sides, Finished
<1>10. Dials'
  <2>1. ASSUME NEW n \in Node, n # e.at
        PROVE  /\ dialing'[n] = dialing[n]
               /\ \A f \in EndsAt(n) : Dialled(f) => pc'[f] = pc[f]
    BY EndFacts, <1>0, <1>4, <2>1 DEF IInv, Types, TypeOK
  <2>2. dialing'[e.at] = 1 /\ pc'[e] \in DialInFlight /\ e \in EndsAt(e.at)
    BY EndFacts, <1>0, <1>3, <1>4 DEF IInv, Types, TypeOK, DialInFlight
  <2> QED
    BY <1>0, <2>1, <2>2 DEF Dials, IInv, Safe
<1>11. Fresh'
  <2>1. down[e] = None /\ down[Far(e)] = None
    BY <1>2 DEF Finished
  <2> QED
    BY EndFacts, <1>0, <1>1, <1>4, <2>1 DEF Fresh, IInv, Safe
<1>12. Entries'
  <2>1. ASSUME NEW n \in Node
        PROVE  /\ peer[n] \notin retired /\ deferred[n] \notin retired /\ inFlight[n] \notin retired
               /\ peer[n] \notin {e, Far(e)} /\ deferred[n] \notin {e, Far(e)}
               /\ inFlight[n] \notin {e, Far(e)}
    BY <1>1 DEF Entries, IInv, Safe
  <2>2. ASSUME NEW n \in Node
        PROVE  /\ peer[n] # None => pc'[peer[n]] = pc[peer[n]]
               /\ deferred[n] # None => pc'[deferred[n]] = pc[deferred[n]]
               /\ inFlight[n] # None => pc'[inFlight[n]] = pc[inFlight[n]]
    BY EndFacts, <1>4, <2>1 DEF IInv, Safe, Own
  <2>3. ASSUME NEW n \in Node
        PROVE  /\ {peer[n], deferred[n], inFlight[n]} \cap retired' = {}
               /\ peer[n] # None => peer[n] \in kept'
    BY <1>0, <2>1 DEF Entries, IInv, Safe
  <2>4. UNCHANGED <<peer, deferred, inFlight>>
    BY <1>0
  <2> QED
    BY <2>2, <2>3, <2>4 DEF Entries, IInv, Safe
<1>13. Downs'
  BY EndFacts, <1>0, <1>1, <1>2
  DEF Downs, IInv, Safe, Types, TypeOK, Own, Sides, Fresh, Entries, Ups, Handshaking,
      Claiming, Up, Raising, Finished
<1>14. Ups'
  <2>1. ASSUME NEW f \in End
        PROVE  pc'[f] = "up" <=> pc[f] = "up"
    <3>1. pc[e] = "idle" /\ pc[Far(e)] = "idle"
      BY <1>2 DEF Finished
    <3> QED
      BY <1>4, <3>1
  <2>2. \A n \in Node : (Up(n)' <=> Up(n)) /\ (Raising(n)' <=> Raising(n))
    BY EndFacts, <1>0, <2>1 DEF Up, Raising, EndsAt
  <2> QED
    BY EndFacts, <1>0, <2>1, <2>2 DEF Ups, EndsAt, IInv, Safe
<1>15. Tell'
  BY EndFacts, <1>0, <1>1, <1>2
  DEF Tell, IInv, Safe, Types, TypeOK, Own, Sides, Fresh, Entries, Downs, Ups,
      Handshaking, Claiming, Up, Raising, Finished
<1> QED
  BY <1>5, <1>6, <1>7, <1>8, <1>9, <1>10, <1>11, <1>12, <1>13, <1>14, <1>15 DEF IInv, Safe

LEMMA AcceptStep ==
  ASSUME IInv, NEW e \in End, Accept(e)
  PROVE  IInv'
<1>1. Claims'
  <2>1. \A n \in Node : n # e.at => Claimants(n)' = Claimants(n) /\ claims'[n] = claims[n]
    BY EndFacts DEF Accept, Claimants, EndsAt, Claim, Goto, IInv, Types, TypeOK
  <2>2. e \notin Claimants(e.at) /\ claims[e.at] \in Nat
    BY EndFacts DEF Accept, Claimants, Claiming, IInv, Types, TypeOK
  <2>3. \/ Claimants(e.at)' = Claimants(e.at) /\ claims'[e.at] = claims[e.at]
        \/ Claimants(e.at)' = Claimants(e.at) \cup {e} /\ claims'[e.at] = claims[e.at] + 1
    BY EndFacts DEF Accept, Claimants, EndsAt, Claiming, Claim, Goto, IInv, Types, TypeOK
  <2>4. Cardinality(Claimants(e.at) \cup {e}) = Cardinality(Claimants(e.at)) + 1
    BY <2>2, EndFacts, ClaimantsFinite, FS_AddElement
  <2>5. claims[e.at] = Cardinality(Claimants(e.at))
    BY EndFacts DEF Claims, IInv
  <2>6. claims'[e.at] = Cardinality(Claimants(e.at)')
    <3>1. CASE Claimants(e.at)' = Claimants(e.at) /\ claims'[e.at] = claims[e.at]
      BY <2>5, <3>1
    <3>2. CASE /\ Claimants(e.at)' = Claimants(e.at) \cup {e}
               /\ claims'[e.at] = claims[e.at] + 1
      BY <2>4, <2>5, <3>2
    <3> QED
      BY <2>3, <3>1, <3>2
  <2> QED
    BY <2>1, <2>6, EndFacts DEF Claims, IInv
<1>2. Types'
  BY EndFacts, NodeFacts
  DEF Accept, Types, IInv, Safe, TypeOK, Dials, OneDial, PC, Goto, Claim
<1>3. Own'
  BY EndFacts
  DEF Accept, Own, IInv, Safe, Types, TypeOK, Goto, Claim
<1>4. Sides'
  BY EndFacts
  DEF Accept, Sides, IInv, Safe, Types, TypeOK, Goto, Claim
<1>5. OneDial'
  BY EndFacts
  DEF Accept, OneDial, IInv, Safe, Types, TypeOK, Sides, Goto, Claim
<1>6. Dials'
  BY EndFacts
  DEF Accept, Dials, IInv, Safe, Types, TypeOK, Sides, OneDial, DialInFlight, Goto,
      Claim
<1>7. Fresh'
  BY EndFacts
  DEF Accept, Fresh, IInv, Safe, Types, TypeOK, Own, Sides, Entries, Downs,
      Handshaking, Claiming, Goto, Claim
<1>8. Entries'
  BY EndFacts
  DEF Accept, Entries, IInv, Safe, Types, TypeOK, Own, Sides, Ups, Fresh, Downs,
      Handshaking, Claiming, Up, Raising, Goto, Claim
<1>9. Downs'
  BY EndFacts
  DEF Accept, Downs, IInv, Safe, Types, TypeOK, Own, Sides, Fresh, Entries, Ups,
      Handshaking, Claiming, Up, Raising, Goto, Claim
<1>10. Ups'
  BY EndFacts
  DEF Accept, Ups, IInv, Safe, Types, TypeOK, Own, Sides, Fresh, Entries, Downs,
      Handshaking, Claiming, Up, Raising, Goto, Claim
<1>11. Tell'
  BY EndFacts
  DEF Accept, Tell, IInv, Safe, Types, TypeOK, Own, Sides, Fresh, Entries, Downs, Ups,
      Handshaking, Claiming, Up, Raising, Goto, Claim
<1> QED
  BY <1>1, <1>2, <1>3, <1>4, <1>5, <1>6, <1>7, <1>8, <1>9, <1>10, <1>11 DEF IInv, Safe

LEMMA AcceptFailsStep ==
  ASSUME IInv, NEW e \in End, AcceptFails(e)
  PROVE  IInv'
<1>1. Claims'
  <2>1. \A n \in Node : Claimants(n)' = Claimants(n)
    BY EndFacts
    DEF AcceptFails, Claimants, EndsAt, Claiming, IInv, Types, TypeOK, Goto, registry
  <2> QED
    BY <2>1
    DEF Claims, IInv, AcceptFails, registry
<1>2. Types'
  BY EndFacts, NodeFacts
  DEF AcceptFails, Types, IInv, Safe, TypeOK, Dials, OneDial, PC, Goto, registry
<1>3. Own'
  BY EndFacts
  DEF AcceptFails, Own, IInv, Safe, Types, TypeOK, Goto, registry
<1>4. Sides'
  BY EndFacts
  DEF AcceptFails, Sides, IInv, Safe, Types, TypeOK, Goto, registry
<1>5. OneDial'
  BY EndFacts
  DEF AcceptFails, OneDial, IInv, Safe, Types, TypeOK, Sides, Goto, registry
<1>6. Dials'
  BY EndFacts
  DEF AcceptFails, Dials, IInv, Safe, Types, TypeOK, Sides, OneDial, DialInFlight,
      Goto, registry
<1>7. Fresh'
  BY EndFacts
  DEF AcceptFails, Fresh, IInv, Safe, Types, TypeOK, Own, Sides, Entries, Downs,
      Handshaking, Claiming, Goto, registry
<1>8. Entries'
  BY EndFacts
  DEF AcceptFails, Entries, IInv, Safe, Types, TypeOK, Own, Sides, Ups, Fresh, Downs,
      Handshaking, Claiming, Up, Raising, Goto, registry
<1>9. Downs'
  BY EndFacts
  DEF AcceptFails, Downs, IInv, Safe, Types, TypeOK, Own, Sides, Fresh, Entries, Ups,
      Handshaking, Claiming, Up, Raising, Goto, registry
<1>10. Ups'
  BY EndFacts
  DEF AcceptFails, Ups, IInv, Safe, Types, TypeOK, Own, Sides, Fresh, Entries, Downs,
      Handshaking, Claiming, Up, Raising, Goto, registry
<1>11. Tell'
  BY EndFacts
  DEF AcceptFails, Tell, IInv, Safe, Types, TypeOK, Own, Sides, Fresh, Entries, Downs,
      Ups, Handshaking, Claiming, Up, Raising, Goto, registry
<1> QED
  BY <1>1, <1>2, <1>3, <1>4, <1>5, <1>6, <1>7, <1>8, <1>9, <1>10, <1>11 DEF IInv, Safe

LEMMA ReadAckStep ==
  ASSUME IInv, NEW e \in End, ReadAck(e)
  PROVE  IInv'
<1>1. Claims'
  <2>1. \A n \in Node : n # e.at => Claimants(n)' = Claimants(n) /\ claims'[n] = claims[n]
    BY EndFacts DEF ReadAck, Claimants, EndsAt, Claim, Goto, IInv, Types, TypeOK
  <2>2. e \notin Claimants(e.at) /\ claims[e.at] \in Nat
    BY EndFacts DEF ReadAck, Claimants, Claiming, IInv, Types, TypeOK
  <2>3. \/ Claimants(e.at)' = Claimants(e.at) /\ claims'[e.at] = claims[e.at]
        \/ Claimants(e.at)' = Claimants(e.at) \cup {e} /\ claims'[e.at] = claims[e.at] + 1
    BY EndFacts DEF ReadAck, Claimants, EndsAt, Claiming, Claim, Goto, IInv, Types, TypeOK
  <2>4. Cardinality(Claimants(e.at) \cup {e}) = Cardinality(Claimants(e.at)) + 1
    BY <2>2, EndFacts, ClaimantsFinite, FS_AddElement
  <2>5. claims[e.at] = Cardinality(Claimants(e.at))
    BY EndFacts DEF Claims, IInv
  <2>6. claims'[e.at] = Cardinality(Claimants(e.at)')
    <3>1. CASE Claimants(e.at)' = Claimants(e.at) /\ claims'[e.at] = claims[e.at]
      BY <2>5, <3>1
    <3>2. CASE /\ Claimants(e.at)' = Claimants(e.at) \cup {e}
               /\ claims'[e.at] = claims[e.at] + 1
      BY <2>4, <2>5, <3>2
    <3> QED
      BY <2>3, <3>1, <3>2
  <2> QED
    BY <2>1, <2>6, EndFacts DEF Claims, IInv
<1>2. Types'
  BY EndFacts, NodeFacts
  DEF ReadAck, Types, IInv, Safe, TypeOK, Dials, OneDial, PC, Goto, Claim
<1>3. Own'
  BY EndFacts
  DEF ReadAck, Own, IInv, Safe, Types, TypeOK, Goto, Claim
<1>4. Sides'
  BY EndFacts
  DEF ReadAck, Sides, IInv, Safe, Types, TypeOK, Goto, Claim
<1>5. OneDial'
  BY EndFacts
  DEF ReadAck, OneDial, IInv, Safe, Types, TypeOK, Sides, Goto, Claim
<1>6. Dials'
  BY EndFacts
  DEF ReadAck, Dials, IInv, Safe, Types, TypeOK, Sides, OneDial, DialInFlight, Goto,
      Claim
<1>7. Fresh'
  BY EndFacts
  DEF ReadAck, Fresh, IInv, Safe, Types, TypeOK, Own, Sides, Entries, Downs,
      Handshaking, Claiming, Goto, Claim
<1>8. Entries'
  BY EndFacts
  DEF ReadAck, Entries, IInv, Safe, Types, TypeOK, Own, Sides, Ups, Fresh, Downs,
      Handshaking, Claiming, Up, Raising, Goto, Claim
<1>9. Downs'
  BY EndFacts
  DEF ReadAck, Downs, IInv, Safe, Types, TypeOK, Own, Sides, Fresh, Entries, Ups,
      Handshaking, Claiming, Up, Raising, Goto, Claim
<1>10. Ups'
  BY EndFacts
  DEF ReadAck, Ups, IInv, Safe, Types, TypeOK, Own, Sides, Fresh, Entries, Downs,
      Handshaking, Claiming, Up, Raising, Goto, Claim
<1>11. Tell'
  BY EndFacts
  DEF ReadAck, Tell, IInv, Safe, Types, TypeOK, Own, Sides, Fresh, Entries, Downs, Ups,
      Handshaking, Claiming, Up, Raising, Goto, Claim
<1> QED
  BY <1>1, <1>2, <1>3, <1>4, <1>5, <1>6, <1>7, <1>8, <1>9, <1>10, <1>11 DEF IInv, Safe

LEMMA HelloFailsStep ==
  ASSUME IInv, NEW e \in End, HelloFails(e)
  PROVE  IInv'
<1>1. faults' \in {faults, faults + 1} /\ faults' \in 0..MaxFaults
  BY PoolAssumption DEF HelloFails, Fault, IInv, Types, TypeOK
<1>2. Claims'
  <2>1. \A n \in Node : Claimants(n)' = Claimants(n)
    BY EndFacts
    DEF HelloFails, Claimants, EndsAt, Claiming, IInv, Types, TypeOK, Goto, Fault,
        registry
  <2> QED
    BY <2>1
    DEF Claims, IInv, HelloFails, Fault, registry
<1>3. Types'
  BY EndFacts, NodeFacts, <1>1
  DEF HelloFails, Types, IInv, Safe, TypeOK, Dials, OneDial, PC, Goto, Fault, registry
<1>4. Own'
  BY EndFacts
  DEF HelloFails, Own, IInv, Safe, Types, TypeOK, Goto, Fault, registry
<1>5. Sides'
  BY EndFacts
  DEF HelloFails, Sides, IInv, Safe, Types, TypeOK, Goto, Fault, registry
<1>6. OneDial'
  BY EndFacts
  DEF HelloFails, OneDial, IInv, Safe, Types, TypeOK, Sides, Goto, Fault, registry
<1>7. Dials'
  BY EndFacts
  DEF HelloFails, Dials, IInv, Safe, Types, TypeOK, Sides, OneDial, DialInFlight, Goto,
      Fault, registry
<1>8. Fresh'
  BY EndFacts
  DEF HelloFails, Fresh, IInv, Safe, Types, TypeOK, Own, Sides, Entries, Downs,
      Handshaking, Claiming, Goto, Fault, registry
<1>9. Entries'
  BY EndFacts
  DEF HelloFails, Entries, IInv, Safe, Types, TypeOK, Own, Sides, Ups, Fresh, Downs,
      Handshaking, Claiming, Up, Raising, Goto, Fault, registry
<1>10. Downs'
  BY EndFacts
  DEF HelloFails, Downs, IInv, Safe, Types, TypeOK, Own, Sides, Fresh, Entries, Ups,
      Handshaking, Claiming, Up, Raising, Goto, Fault, registry
<1>11. Ups'
  BY EndFacts
  DEF HelloFails, Ups, IInv, Safe, Types, TypeOK, Own, Sides, Fresh, Entries, Downs,
      Handshaking, Claiming, Up, Raising, Goto, Fault, registry
<1>12. Tell'
  BY EndFacts
  DEF HelloFails, Tell, IInv, Safe, Types, TypeOK, Own, Sides, Fresh, Entries, Downs,
      Ups, Handshaking, Claiming, Up, Raising, Goto, Fault, registry
<1> QED
  BY <1>2, <1>3, <1>4, <1>5, <1>6, <1>7, <1>8, <1>9, <1>10, <1>11, <1>12 DEF IInv, Safe

LEMMA RegisterLosesStep ==
  ASSUME IInv, NEW e \in End, RegisterLoses(e)
  PROVE  IInv'
<1>1. Claims'
  <2>1. \A n \in Node : Claimants(n)' = Claimants(n)
    BY EndFacts
    DEF RegisterLoses, Claimants, EndsAt, Claiming, IInv, Types, TypeOK, Goto, registry
  <2> QED
    BY <2>1
    DEF Claims, IInv, RegisterLoses, registry
<1>2. Types'
  BY EndFacts, NodeFacts
  DEF RegisterLoses, Types, IInv, Safe, TypeOK, Dials, OneDial, PC, Goto, registry
<1>3. Own'
  BY EndFacts
  DEF RegisterLoses, Own, IInv, Safe, Types, TypeOK, Goto, registry
<1>4. Sides'
  BY EndFacts
  DEF RegisterLoses, Sides, IInv, Safe, Types, TypeOK, Goto, registry
<1>5. OneDial'
  BY EndFacts
  DEF RegisterLoses, OneDial, IInv, Safe, Types, TypeOK, Sides, Goto, registry
<1>6. Dials'
  BY EndFacts
  DEF RegisterLoses, Dials, IInv, Safe, Types, TypeOK, Sides, OneDial, DialInFlight,
      Goto, registry
<1>7. Fresh'
  BY EndFacts
  DEF RegisterLoses, Fresh, IInv, Safe, Types, TypeOK, Own, Sides, Entries, Downs,
      Handshaking, Claiming, Goto, registry
<1>8. Entries'
  BY EndFacts
  DEF RegisterLoses, Entries, IInv, Safe, Types, TypeOK, Own, Sides, Ups, Fresh, Downs,
      Handshaking, Claiming, Up, Raising, Goto, registry
<1>9. Downs'
  BY EndFacts
  DEF RegisterLoses, Downs, IInv, Safe, Types, TypeOK, Own, Sides, Fresh, Entries, Ups,
      Handshaking, Claiming, Up, Raising, Goto, registry
<1>10. Ups'
  BY EndFacts
  DEF RegisterLoses, Ups, IInv, Safe, Types, TypeOK, Own, Sides, Fresh, Entries, Downs,
      Handshaking, Claiming, Up, Raising, Goto, registry
<1>11. Tell'
  BY EndFacts
  DEF RegisterLoses, Tell, IInv, Safe, Types, TypeOK, Own, Sides, Fresh, Entries,
      Downs, Ups, Handshaking, Claiming, Up, Raising, Goto, registry
<1> QED
  BY <1>1, <1>2, <1>3, <1>4, <1>5, <1>6, <1>7, <1>8, <1>9, <1>10, <1>11 DEF IInv, Safe

LEMMA RegisterStep ==
  ASSUME IInv, NEW e \in End, Register(e)
  PROVE  IInv'
<1> DEFINE fresh == peer[e.at] = None /\ deferred[e.at] = None
<1>1. /\ pc[e] = "register" /\ e.at \in Node
      /\ pc' = [pc EXCEPT ![e] = IF fresh THEN "up" ELSE "releaseClaim"]
      /\ awaits' = IF fresh THEN [awaits EXCEPT ![e] = inFlight[e.at]] ELSE awaits
      /\ peer' = [peer EXCEPT ![e.at] = e] /\ deferred' = [deferred EXCEPT ![e.at] = None]
      /\ retired' = retired \cup ({peer[e.at], deferred[e.at]} \ {None})
      /\ kept' = kept \cup {e} /\ open' \subseteq open
      /\ UNCHANGED <<inc, down, ack, says, inFlight, claims, dialing, addrKnown, told, faults>>
  BY EndFacts DEF Register, Superseded, Queue, Goto
<1>2. Claims'
  <2>1. \A n \in Node : Claimants(n)' = Claimants(n)
    BY <1>1, EndFacts DEF Claimants, EndsAt, Claiming, IInv, Types, TypeOK
  <2> QED
    BY <1>1, <2>1 DEF Claims, IInv
<1>3. Types'
  BY EndFacts, NodeFacts, <1>1
  DEF Types, IInv, Safe, TypeOK, Dials, OneDial, PC
<1>4. Own'
  BY EndFacts, <1>1
  DEF Own, IInv, Safe, Types, TypeOK
<1>5. Sides'
  BY EndFacts, <1>1
  DEF Sides, IInv, Safe, Types, TypeOK
<1>6. OneDial'
  BY EndFacts, <1>1
  DEF OneDial, IInv, Safe, Types, TypeOK, Sides
<1>7. Dials'
  BY EndFacts, <1>1
  DEF Dials, IInv, Safe, Types, TypeOK, Sides, OneDial, DialInFlight
<1>8. Fresh'
  BY EndFacts, <1>1
  DEF Fresh, IInv, Safe, Types, TypeOK, Own, Sides, Entries, Downs, Handshaking,
      Claiming
<1>9. Entries'
  <2>1. \A f \in End : pc'[f] = IF f = e THEN (IF fresh THEN "up" ELSE "releaseClaim") ELSE pc[f]
    BY <1>1 DEF IInv, Types, TypeOK
  <2>2. /\ e \notin retired /\ e \notin {peer[e.at], deferred[e.at], inFlight[e.at]}
        /\ peer'[e.at] = e /\ deferred'[e.at] = None /\ e \in kept'
    BY <1>1 DEF IInv, Safe, Fresh, Handshaking, Types, TypeOK
  <2>3. /\ inFlight[e.at] \notin retired
        /\ inFlight[e.at] # None => inFlight[e.at] \notin {peer[e.at], deferred[e.at]}
    BY <1>1 DEF IInv, Safe, Entries
  <2>4. {peer'[e.at], deferred'[e.at], inFlight'[e.at]} \cap retired' = {}
    <3>1. None \notin retired'
      BY <1>1, NoneAssumption DEF IInv, Types, TypeOK, Safe, Own, EndsAt
    <3> QED
      BY <1>1, <2>2, <2>3, <3>1
  <2>5. inFlight'[e.at] # None => pc'[inFlight'[e.at]] \in {"idle", "rest"}
    BY EndFacts, <1>1, <2>1, <2>2 DEF IInv, Safe, Entries, Own
  <2>6. ASSUME NEW n \in Node, n # e.at
        PROVE  /\ peer'[n] = peer[n] /\ deferred'[n] = deferred[n] /\ inFlight'[n] = inFlight[n]
               /\ {peer[n], deferred[n], inFlight[n]} \cap retired' = {}
               /\ peer[n] # None => pc'[peer[n]] = pc[peer[n]] /\ peer[n] \in kept'
               /\ deferred[n] # None => pc'[deferred[n]] = pc[deferred[n]]
               /\ inFlight[n] # None => pc'[inFlight[n]] = pc[inFlight[n]]
    <3>1. peer[n] # e /\ deferred[n] # e /\ inFlight[n] # e
      BY EndFacts, <2>6 DEF IInv, Safe, Own
    <3>2. {peer[n], deferred[n], inFlight[n]} \cap ({peer[e.at], deferred[e.at]} \ {None}) = {}
      BY EndFacts, <1>1, <2>6 DEF IInv, Safe, Own
    <3>3. {peer[n], deferred[n], inFlight[n]} \cap retired = {}
      BY DEF IInv, Safe, Entries
    <3>4. {peer[n], deferred[n], inFlight[n]} \subseteq End \cup {None}
      BY EndFacts DEF IInv, Safe, Own
    <3> QED
      BY <1>1, <2>1, <2>6, <3>1, <3>2, <3>3, <3>4 DEF IInv, Safe, Entries, Types, TypeOK
  <2>7. ASSUME NEW n \in Node
        PROVE  /\ {peer'[n], deferred'[n], inFlight'[n]} \cap retired' = {}
               /\ peer'[n] = None \/ deferred'[n] = None
               /\ peer'[n] # None =>
                    /\ pc'[peer'[n]] \in {"up", "releaseClaim", "releaseDialing", "watch"}
                    /\ peer'[n] \in kept'
               /\ deferred'[n] # None =>
                    pc'[deferred'[n]] \in {"idle", "rest"} /\ deferred'[n] # inFlight'[n]
               /\ inFlight'[n] # None => pc'[inFlight'[n]] \in {"idle", "rest"}
    <3>1. CASE n = e.at
      BY <2>1, <2>2, <2>4, <2>5, <3>1
    <3>2. CASE n # e.at
      BY <2>6, <3>2 DEF IInv, Safe, Entries
    <3> QED
      BY <3>1, <3>2
  <2> QED
    BY <2>7 DEF Entries
<1>10. Downs'
  BY EndFacts, <1>1
  DEF Downs, IInv, Safe, Types, TypeOK, Own, Sides, Fresh, Entries, Ups, Handshaking,
      Claiming, Up, Raising
<1>11. Ups'
  BY EndFacts, <1>1
  DEF Ups, IInv, Safe, Types, TypeOK, Own, Sides, Fresh, Entries, Downs, Handshaking,
      Claiming, Up, Raising
<1>12. Tell'
  BY EndFacts, <1>1
  DEF Tell, IInv, Safe, Types, TypeOK, Own, Sides, Fresh, Entries, Downs, Ups,
      Handshaking, Claiming, Up, Raising
<1> QED
  BY <1>2, <1>3, <1>4, <1>5, <1>6, <1>7, <1>8, <1>9, <1>10, <1>11, <1>12 DEF IInv, Safe

LEMMA EmitUpStep ==
  ASSUME IInv, NEW e \in End, EmitUp(e)
  PROVE  IInv'
<1>1. Claims'
  <2>1. \A n \in Node : Claimants(n)' = Claimants(n)
    BY EndFacts
    DEF EmitUp, Claimants, EndsAt, Claiming, IInv, Types, TypeOK, Goto, sockets,
        registry
  <2> QED
    BY <2>1
    DEF Claims, IInv, EmitUp, registry
<1>2. Types'
  BY EndFacts, NodeFacts
  DEF EmitUp, Types, IInv, Safe, TypeOK, Dials, OneDial, PC, Goto, sockets, registry
<1>3. Own'
  BY EndFacts
  DEF EmitUp, Own, IInv, Safe, Types, TypeOK, Goto, sockets, registry
<1>4. Sides'
  BY EndFacts
  DEF EmitUp, Sides, IInv, Safe, Types, TypeOK, Goto, sockets, registry
<1>5. OneDial'
  BY EndFacts
  DEF EmitUp, OneDial, IInv, Safe, Types, TypeOK, Sides, Goto, sockets, registry
<1>6. Dials'
  BY EndFacts
  DEF EmitUp, Dials, IInv, Safe, Types, TypeOK, Sides, OneDial, DialInFlight, Goto,
      sockets, registry
<1>7. Fresh'
  BY EndFacts
  DEF EmitUp, Fresh, IInv, Safe, Types, TypeOK, Own, Sides, Entries, Downs,
      Handshaking, Claiming, Goto, sockets, registry
<1>8. Entries'
  BY EndFacts
  DEF EmitUp, Entries, IInv, Safe, Types, TypeOK, Own, Sides, Ups, Fresh, Downs,
      Handshaking, Claiming, Up, Raising, Goto, sockets, registry
<1>9. Downs'
  BY EndFacts
  DEF EmitUp, Downs, IInv, Safe, Types, TypeOK, Own, Sides, Fresh, Entries, Ups,
      Handshaking, Claiming, Up, Raising, Goto, sockets, registry
<1>10. Ups'
  BY EndFacts
  DEF EmitUp, Ups, IInv, Safe, Types, TypeOK, Own, Sides, Fresh, Entries, Downs,
      Handshaking, Claiming, Up, Raising, Goto, sockets, registry
<1>11. Tell'
  BY EndFacts
  DEF EmitUp, Tell, IInv, Safe, Types, TypeOK, Own, Sides, Fresh, Entries, Downs, Ups,
      Handshaking, Claiming, Up, Raising, Goto, sockets, registry
<1> QED
  BY <1>1, <1>2, <1>3, <1>4, <1>5, <1>6, <1>7, <1>8, <1>9, <1>10, <1>11 DEF IInv, Safe

LEMMA ReleaseClaimStep ==
  ASSUME IInv, NEW e \in End, ReleaseClaim(e)
  PROVE  IInv'
<1>1. Claims'
  <2>1. \A n \in Node : n # e.at => Claimants(n)' = Claimants(n) /\ claims'[n] = claims[n]
    BY EndFacts DEF ReleaseClaim, Claimants, EndsAt, Goto, IInv, Types, TypeOK
  <2>2. e \in Claimants(e.at) /\ claims[e.at] \in Nat
    BY EndFacts DEF ReleaseClaim, Claimants, Claiming, IInv, Types, TypeOK
  <2>3. Claimants(e.at)' = Claimants(e.at) \ {e} /\ claims'[e.at] = claims[e.at] - 1
    BY EndFacts DEF ReleaseClaim, Claimants, EndsAt, Claiming, Goto, IInv, Types, TypeOK
  <2>4. Cardinality(Claimants(e.at) \ {e}) = Cardinality(Claimants(e.at)) - 1
    BY <2>2, EndFacts, ClaimantsFinite, FS_RemoveElement
  <2> QED
    BY <2>1, <2>3, <2>4, EndFacts DEF Claims, IInv
<1>2. ASSUME deferred[e.at] # None, ~Claimed(e.at, claims', dialing, addrKnown)
      PROVE  inFlight[e.at] = None /\ \A f \in EndsAt(e.at) : pc'[f] # "up"
  <2>1. claims'[e.at] = 0
    <3>1. claims'[e.at] \in Nat
      BY <1>1, EndFacts, ClaimantsFinite, FS_CardinalityType DEF Claims
    <3> QED
      BY <1>2, <3>1 DEF Claimed
  <2>2. \A f \in EndsAt(e.at) : pc'[f] \notin Claiming
    <3>1. claims'[e.at] = 0 /\ IsFiniteSet(Claimants(e.at)')
      BY <2>1, EndFacts, ClaimantsFinite DEF ReleaseClaim
    <3>2. Claimants(e.at)' = {}
      BY <1>1, <3>1, EndFacts, FS_EmptySet DEF Claims
    <3> QED
      BY <3>2, EndFacts DEF Claimants, EndsAt
  <2>3. ~Raising(e.at)
    BY <2>2, EndFacts DEF Raising, ReleaseClaim, Goto, Claiming, IInv, Types, TypeOK
  <2> QED
    BY <1>2, <2>2, <2>3, EndFacts DEF Claiming, IInv, Safe, Ups, Up
<1>3. /\ pc[e] = "releaseClaim" /\ e.at \in Node /\ down[e] = None
      /\ pc' = [pc EXCEPT ![e] = IF Dialled(e) THEN "releaseDialing"
                                  ELSE IF e \in kept THEN "watch" ELSE "idle"]
      /\ \/ /\ deferred[e.at] # None /\ inFlight[e.at] = None
            /\ \A f \in EndsAt(e.at) : pc'[f] # "up"
            /\ down' = [down EXCEPT ![e] = deferred[e.at]]
            /\ inFlight' = [inFlight EXCEPT ![e.at] = deferred[e.at]]
            /\ deferred' = [deferred EXCEPT ![e.at] = None]
         \/ UNCHANGED <<down, inFlight, deferred>>
      /\ UNCHANGED <<inc, kept, awaits, open, ack, says, retired, peer, addrKnown, told,
                     faults>>
  <2>1. pc[e] = "releaseClaim" /\ e.at \in Node /\ down[e] = None
    BY EndFacts DEF ReleaseClaim, IInv, Safe, Fresh, Claiming
  <2> QED
    BY <1>2, <2>1 DEF ReleaseClaim, Resolve, Goto, sockets, IInv, Types, TypeOK
<1>4. Claims'
  BY <1>1
<1>5. Types'
  <2>1. claims' \in [Node -> Nat]
    <3>1. claims' = [claims EXCEPT ![e.at] = claims'[e.at]]
      BY <1>3 DEF ReleaseClaim, IInv, Types, TypeOK
    <3>2. claims'[e.at] \in Nat
      BY <1>1, EndFacts, ClaimantsFinite, FS_CardinalityType DEF Claims
    <3> QED
      BY <1>3, <3>1, <3>2 DEF IInv, Types, TypeOK
  <2>3. deferred' \in [Node -> End \cup {None}] /\ inFlight' \in [Node -> End \cup {None}]
        /\ down' \in [End -> End \cup {None}]
    BY <1>3 DEF IInv, Types, TypeOK
  <2>4. pc' \in [End -> PC]
    BY <1>3 DEF IInv, Types, TypeOK, PC
  <2>5. dialing' = dialing
    BY DEF ReleaseClaim
  <2> QED
    BY <1>3, <2>1, <2>3, <2>4, <2>5 DEF IInv, Types, TypeOK
<1>6. Own'
  BY EndFacts, <1>3
  DEF Own, IInv, Safe, Types, TypeOK
<1>7. Sides'
  BY EndFacts, <1>3
  DEF Sides, IInv, Safe, Types, TypeOK
<1>8. OneDial'
  BY EndFacts, <1>3
  DEF OneDial, IInv, Safe, Types, TypeOK, Sides
<1>9. Dials'
  BY EndFacts
  DEF ReleaseClaim, Dials, IInv, Safe, Types, TypeOK, Sides, OneDial, DialInFlight,
      Goto, Resolve, sockets
<1>10. Fresh'
  BY EndFacts, <1>3
  DEF Fresh, IInv, Safe, Types, TypeOK, Own, Sides, Entries, Downs, Handshaking,
      Claiming
<1>11. Entries'
  BY EndFacts, <1>3
  DEF Entries, IInv, Safe, Types, TypeOK, Own, Sides, Ups, Fresh, Downs, Handshaking,
      Claiming, Up, Raising
<1>12. Downs'
  <2>1. CASE UNCHANGED <<down, inFlight, deferred>>
    BY <1>3, <2>1 DEF Downs, EndsAt, IInv, Safe
  <2>2. CASE /\ inFlight[e.at] = None /\ deferred[e.at] # None
             /\ down' = [down EXCEPT ![e] = deferred[e.at]]
             /\ inFlight' = [inFlight EXCEPT ![e.at] = deferred[e.at]]
    <3>1. \A f \in EndsAt(e.at) : down[f] = None
      BY <1>3, <2>2 DEF Downs, IInv, Safe
    <3>2. \A f \in End : down'[f] = IF f = e THEN deferred[e.at] ELSE down[f]
      BY <2>2 DEF IInv, Types, TypeOK
    <3>3. \A n \in Node : inFlight'[n] = IF n = e.at THEN deferred[e.at] ELSE inFlight[n]
      BY <2>2 DEF IInv, Types, TypeOK
    <3>4. ASSUME NEW n \in Node, n # e.at
          PROVE  \A f \in EndsAt(n) : f # e /\ f \in End
      BY <3>4, EndFacts
    <3>5. e \in EndsAt(e.at) /\ EndsAt(e.at) \subseteq End
      BY <1>3, EndFacts
    <3> DEFINE Single(n) == /\ \A f \in EndsAt(n) : down'[f] # None => down'[f] = inFlight'[n]
                            /\ \A f, g \in EndsAt(n) : down'[f] # None /\ down'[g] # None => f = g
                            /\ inFlight'[n] # None => \E f \in EndsAt(n) : down'[f] # None
    <3>6. Single(e.at)
      BY <1>3, <2>2, <3>1, <3>2, <3>3, <3>5
    <3>7. ASSUME NEW n \in Node, n # e.at
          PROVE  Single(n)
      BY <3>2, <3>3, <3>4, <3>7 DEF Downs, IInv, Safe
    <3> HIDE DEF Single
    <3>8. \A n \in Node : Single(n)
      BY <3>6, <3>7
    <3> QED
      BY <3>8 DEF Downs, EndsAt, Single
  <2> QED
    BY <1>3, <2>1, <2>2
<1>13. Ups'
  BY EndFacts, <1>3
  DEF Ups, IInv, Safe, Types, TypeOK, Own, Sides, Fresh, Entries, Downs, Handshaking,
      Claiming, Up, Raising
<1>14. Tell'
  BY EndFacts, <1>3
  DEF Tell, IInv, Safe, Types, TypeOK, Own, Sides, Fresh, Entries, Downs, Ups,
      Handshaking, Claiming, Up, Raising
<1> QED
  BY <1>4, <1>5, <1>6, <1>7, <1>8, <1>9, <1>10, <1>11, <1>12, <1>13, <1>14 DEF IInv, Safe

LEMMA ReleaseDialingStep ==
  ASSUME IInv, NEW e \in End, ReleaseDialing(e)
  PROVE  IInv'
<1>1. Claims'
  <2>1. \A n \in Node : Claimants(n)' = Claimants(n)
    BY EndFacts DEF ReleaseDialing, Claimants, EndsAt, Claiming, Goto, IInv, Types, TypeOK
  <2> QED
    BY <2>1 DEF Claims, IInv, ReleaseDialing
<1>2. ASSUME deferred[e.at] # None, ~Claimed(e.at, claims, dialing', addrKnown)
      PROVE  inFlight[e.at] = None /\ \A f \in EndsAt(e.at) : pc'[f] # "up"
  <2>1. claims[e.at] = 0
    BY <1>1, <1>2, EndFacts DEF Claimed, ReleaseDialing, IInv, Types, TypeOK
  <2>2. \A f \in EndsAt(e.at) : pc'[f] \notin Claiming
    <3>1. claims'[e.at] = 0 /\ IsFiniteSet(Claimants(e.at)')
      BY <2>1, EndFacts, ClaimantsFinite DEF ReleaseDialing
    <3>2. Claimants(e.at)' = {}
      BY <1>1, <3>1, EndFacts, FS_EmptySet DEF Claims
    <3> QED
      BY <3>2, EndFacts DEF Claimants, EndsAt
  <2>3. ~Raising(e.at)
    BY <2>2, EndFacts DEF Raising, ReleaseDialing, Goto, Claiming, IInv, Types, TypeOK
  <2> QED
    BY <1>2, <2>2, <2>3, EndFacts DEF Claiming, IInv, Safe, Ups, Up
<1>3. /\ pc[e] = "releaseDialing" /\ e.at \in Node /\ down[e] = None
      /\ \E next \in {"watch", "rest", "idle"} :
           /\ pc' = [pc EXCEPT ![e] = next]
           /\ e \in kept <=> next = "watch"
      /\ \/ /\ deferred[e.at] # None /\ inFlight[e.at] = None
            /\ \A f \in EndsAt(e.at) : pc'[f] # "up"
            /\ down' = [down EXCEPT ![e] = deferred[e.at]]
            /\ inFlight' = [inFlight EXCEPT ![e.at] = deferred[e.at]]
            /\ deferred' = [deferred EXCEPT ![e.at] = None]
         \/ UNCHANGED <<down, inFlight, deferred>>
      /\ UNCHANGED <<inc, kept, awaits, open, ack, says, retired, peer, claims, addrKnown,
                     told, faults>>
  <2>1. pc[e] = "releaseDialing" /\ e.at \in Node /\ down[e] = None
    BY EndFacts DEF ReleaseDialing
  <2>2. \E next \in {"watch", "rest", "idle"} :
           /\ pc' = [pc EXCEPT ![e] = next]
           /\ e \in kept <=> next = "watch"
    BY DEF ReleaseDialing, Goto
  <2> QED
    BY <1>2, <2>1, <2>2 DEF ReleaseDialing, Resolve, sockets, IInv, Types, TypeOK
<1>4. Claims'
  BY <1>1
<1>5. Types'
  <2>1. dialing[e.at] = 1
    BY <1>3, EndFacts DEF IInv, Safe, Dials, DialInFlight, Sides
  <2>2. dialing' \in [Node -> 0..1]
    BY <1>3, <2>1 DEF ReleaseDialing, IInv, Types, TypeOK
  <2>3. deferred' \in [Node -> End \cup {None}] /\ inFlight' \in [Node -> End \cup {None}]
        /\ down' \in [End -> End \cup {None}]
    BY <1>3 DEF IInv, Types, TypeOK
  <2>4. pc' \in [End -> PC]
    BY <1>3 DEF IInv, Types, TypeOK, PC
  <2> QED
    BY <1>3, <2>2, <2>3, <2>4 DEF IInv, Types, TypeOK
<1>6. Own'
  BY EndFacts, <1>3
  DEF Own, IInv, Safe, Types, TypeOK
<1>7. Sides'
  BY EndFacts, <1>3
  DEF Sides, IInv, Safe, Types, TypeOK
<1>8. OneDial'
  BY EndFacts, <1>3
  DEF OneDial, IInv, Safe, Types, TypeOK, Sides
<1>9. Dials'
  <2>1. dialing[e.at] = 1 /\ dialing' = [dialing EXCEPT ![e.at] = @ - 1] /\ Dialled(e)
    BY <1>3, EndFacts DEF ReleaseDialing, IInv, Safe, Dials, DialInFlight, Sides
  <2>2. ASSUME NEW f \in EndsAt(e.at), Dialled(f)
        PROVE  pc'[f] \notin DialInFlight
    <3>1. f \in End /\ f.at = e.at /\ "idle" \notin DialInFlight
      BY EndFacts, <2>2, <1>3 DEF DialInFlight
    <3>2. CASE f = e
      BY <1>3, <3>2 DEF DialInFlight, IInv, Types, TypeOK
    <3>3. CASE f # e
      BY <1>3, <2>1, <2>2, <3>1, <3>3 DEF IInv, Safe, OneDial, Types, TypeOK
    <3> QED
      BY <3>2, <3>3
  <2>3. dialing'[e.at] = 0
    BY <1>3, <2>1 DEF IInv, Types, TypeOK
  <2>4. ASSUME NEW n \in Node, n # e.at
        PROVE  /\ dialing'[n] = dialing[n]
               /\ \A f \in EndsAt(n) : pc'[f] = pc[f]
    BY <1>3, <2>1, <2>4, EndFacts DEF IInv, Types, TypeOK
  <2> QED
    BY <2>2, <2>3, <2>4 DEF Dials, EndsAt, IInv, Safe
<1>10. Fresh'
  BY EndFacts, <1>3
  DEF Fresh, IInv, Safe, Types, TypeOK, Own, Sides, Entries, Downs, Handshaking,
      Claiming
<1>11. Entries'
  BY EndFacts, <1>3
  DEF Entries, IInv, Safe, Types, TypeOK, Own, Sides, Ups, Fresh, Downs, Handshaking,
      Claiming, Up, Raising
<1>12. Downs'
  <2>1. CASE UNCHANGED <<down, inFlight, deferred>>
    BY <1>3, <2>1 DEF Downs, EndsAt, IInv, Safe
  <2>2. CASE /\ inFlight[e.at] = None /\ deferred[e.at] # None
             /\ down' = [down EXCEPT ![e] = deferred[e.at]]
             /\ inFlight' = [inFlight EXCEPT ![e.at] = deferred[e.at]]
    <3>1. \A f \in EndsAt(e.at) : down[f] = None
      BY <1>3, <2>2 DEF Downs, IInv, Safe
    <3>2. \A f \in End : down'[f] = IF f = e THEN deferred[e.at] ELSE down[f]
      BY <2>2 DEF IInv, Types, TypeOK
    <3>3. \A n \in Node : inFlight'[n] = IF n = e.at THEN deferred[e.at] ELSE inFlight[n]
      BY <2>2 DEF IInv, Types, TypeOK
    <3>4. ASSUME NEW n \in Node, n # e.at
          PROVE  \A f \in EndsAt(n) : f # e /\ f \in End
      BY <3>4, EndFacts
    <3>5. e \in EndsAt(e.at) /\ EndsAt(e.at) \subseteq End
      BY <1>3, EndFacts
    <3> DEFINE Single(n) == /\ \A f \in EndsAt(n) : down'[f] # None => down'[f] = inFlight'[n]
                            /\ \A f, g \in EndsAt(n) : down'[f] # None /\ down'[g] # None => f = g
                            /\ inFlight'[n] # None => \E f \in EndsAt(n) : down'[f] # None
    <3>6. Single(e.at)
      BY <1>3, <2>2, <3>1, <3>2, <3>3, <3>5
    <3>7. ASSUME NEW n \in Node, n # e.at
          PROVE  Single(n)
      BY <3>2, <3>3, <3>4, <3>7 DEF Downs, IInv, Safe
    <3> HIDE DEF Single
    <3>8. \A n \in Node : Single(n)
      BY <3>6, <3>7
    <3> QED
      BY <3>8 DEF Downs, EndsAt, Single
  <2> QED
    BY <1>3, <2>1, <2>2
<1>13. Ups'
  BY EndFacts, <1>3
  DEF Ups, IInv, Safe, Types, TypeOK, Own, Sides, Fresh, Entries, Downs, Handshaking,
      Claiming, Up, Raising
<1>14. Tell'
  BY EndFacts, <1>3
  DEF Tell, IInv, Safe, Types, TypeOK, Own, Sides, Fresh, Entries, Downs, Ups,
      Handshaking, Claiming, Up, Raising
<1> QED
  BY <1>4, <1>5, <1>6, <1>7, <1>8, <1>9, <1>10, <1>11, <1>12, <1>13, <1>14 DEF IInv, Safe

LEMMA HangUpStep ==
  ASSUME IInv, NEW e \in End, HangUp(e)
  PROVE  IInv'
<1>1. faults' \in {faults, faults + 1} /\ faults' \in 0..MaxFaults
  BY PoolAssumption DEF HangUp, Fault, IInv, Types, TypeOK
<1>2. Claims'
  <2>1. \A n \in Node : Claimants(n)' = Claimants(n)
    BY EndFacts
    DEF HangUp, Claimants, EndsAt, Claiming, IInv, Types, TypeOK, Fault, threads,
        registry
  <2> QED
    BY <2>1
    DEF Claims, IInv, HangUp, Fault, registry
<1>3. Types'
  BY EndFacts, NodeFacts, <1>1
  DEF HangUp, Types, IInv, Safe, TypeOK, Dials, OneDial, PC, Fault, threads, registry
<1>4. Own'
  BY EndFacts
  DEF HangUp, Own, IInv, Safe, Types, TypeOK, Fault, threads, registry
<1>5. Sides'
  BY EndFacts
  DEF HangUp, Sides, IInv, Safe, Types, TypeOK, Fault, threads, registry
<1>6. OneDial'
  BY EndFacts
  DEF HangUp, OneDial, IInv, Safe, Types, TypeOK, Sides, Fault, threads, registry
<1>7. Dials'
  BY EndFacts
  DEF HangUp, Dials, IInv, Safe, Types, TypeOK, Sides, OneDial, DialInFlight, Fault,
      threads, registry
<1>8. Fresh'
  BY EndFacts
  DEF HangUp, Fresh, IInv, Safe, Types, TypeOK, Own, Sides, Entries, Downs,
      Handshaking, Claiming, Fault, threads, registry
<1>9. Entries'
  BY EndFacts
  DEF HangUp, Entries, IInv, Safe, Types, TypeOK, Own, Sides, Ups, Fresh, Downs,
      Handshaking, Claiming, Up, Raising, Fault, threads, registry
<1>10. Downs'
  BY EndFacts
  DEF HangUp, Downs, IInv, Safe, Types, TypeOK, Own, Sides, Fresh, Entries, Ups,
      Handshaking, Claiming, Up, Raising, Fault, threads, registry
<1>11. Ups'
  BY EndFacts
  DEF HangUp, Ups, IInv, Safe, Types, TypeOK, Own, Sides, Fresh, Entries, Downs,
      Handshaking, Claiming, Up, Raising, Fault, threads, registry
<1>12. Tell'
  BY EndFacts
  DEF HangUp, Tell, IInv, Safe, Types, TypeOK, Own, Sides, Fresh, Entries, Downs, Ups,
      Handshaking, Claiming, Up, Raising, Fault, threads, registry
<1> QED
  BY <1>2, <1>3, <1>4, <1>5, <1>6, <1>7, <1>8, <1>9, <1>10, <1>11, <1>12 DEF IInv, Safe

LEMMA WatchStep ==
  ASSUME IInv, NEW e \in End, Watch(e)
  PROVE  IInv'
<1>1. ASSUME peer[e.at] = e, ~Claimed(e.at, claims, dialing, addrKnown)
      PROVE  inFlight[e.at] = None /\ ~Raising(e.at)
  <2>1. claims[e.at] = 0
    BY <1>1, EndFacts DEF Claimed, IInv, Types, TypeOK
  <2>2. ~Raising(e.at)
    BY <2>1, EndFacts, Unclaimed DEF Raising, Claiming, IInv
  <2> QED
    BY <1>1, <2>2, EndFacts DEF IInv, Safe, Ups, Up
<1>2. Claims'
  <2>1. \A n \in Node : Claimants(n)' = Claimants(n)
    BY EndFacts
    DEF Watch, Claimants, EndsAt, Claiming, IInv, Types, TypeOK, Goto, AfterWatch
  <2> QED
    BY <2>1
    DEF Claims, IInv, Watch
<1>3. Types'
  BY EndFacts, NodeFacts
  DEF Watch, Types, IInv, Safe, TypeOK, Dials, OneDial, PC, Goto, AfterWatch
<1>4. Own'
  BY EndFacts
  DEF Watch, Own, IInv, Safe, Types, TypeOK, Goto, AfterWatch
<1>5. Sides'
  BY EndFacts
  DEF Watch, Sides, IInv, Safe, Types, TypeOK, Goto, AfterWatch
<1>6. OneDial'
  BY EndFacts
  DEF Watch, OneDial, IInv, Safe, Types, TypeOK, Sides, Goto, AfterWatch
<1>7. Dials'
  BY EndFacts
  DEF Watch, Dials, IInv, Safe, Types, TypeOK, Sides, OneDial, DialInFlight, Goto,
      AfterWatch
<1>8. Fresh'
  BY EndFacts
  DEF Watch, Fresh, IInv, Safe, Types, TypeOK, Own, Sides, Entries, Downs, Handshaking,
      Claiming, Goto, AfterWatch
<1>9. Entries'
  BY EndFacts, <1>1
  DEF Watch, Entries, IInv, Safe, Types, TypeOK, Own, Sides, Ups, Fresh, Downs,
      Handshaking, Claiming, Up, Raising, Goto, AfterWatch
<1>10. Downs'
  BY EndFacts, <1>1
  DEF Watch, Downs, IInv, Safe, Types, TypeOK, Own, Sides, Fresh, Entries, Ups,
      Handshaking, Claiming, Up, Raising, Goto, AfterWatch
<1>11. Ups'
  BY EndFacts, <1>1
  DEF Watch, Ups, IInv, Safe, Types, TypeOK, Own, Sides, Fresh, Entries, Downs,
      Handshaking, Claiming, Up, Raising, Goto, AfterWatch
<1>12. Tell'
  BY EndFacts, <1>1
  DEF Watch, Tell, IInv, Safe, Types, TypeOK, Own, Sides, Fresh, Entries, Downs, Ups,
      Handshaking, Claiming, Up, Raising, Goto, AfterWatch
<1> QED
  BY <1>2, <1>3, <1>4, <1>5, <1>6, <1>7, <1>8, <1>9, <1>10, <1>11, <1>12 DEF IInv, Safe

LEMMA EmitDownStep ==
  ASSUME IInv, NEW e \in End, EmitDown(e)
  PROVE  IInv'
<1>1. Claims'
  <2>1. \A n \in Node : Claimants(n)' = Claimants(n)
    BY EndFacts
    DEF EmitDown, Claimants, EndsAt, Claiming, IInv, Types, TypeOK
  <2> QED
    BY <2>1
    DEF Claims, IInv, EmitDown
<1>2. Types'
  BY EndFacts, NodeFacts
  DEF EmitDown, Types, IInv, Safe, TypeOK, Dials, OneDial, PC
<1>3. Own'
  BY EndFacts
  DEF EmitDown, Own, IInv, Safe, Types, TypeOK
<1>4. Sides'
  BY EndFacts
  DEF EmitDown, Sides, IInv, Safe, Types, TypeOK
<1>5. OneDial'
  BY EndFacts
  DEF EmitDown, OneDial, IInv, Safe, Types, TypeOK, Sides
<1>6. Dials'
  BY EndFacts
  DEF EmitDown, Dials, IInv, Safe, Types, TypeOK, Sides, OneDial, DialInFlight
<1>7. Fresh'
  BY EndFacts
  DEF EmitDown, Fresh, IInv, Safe, Types, TypeOK, Own, Sides, Entries, Downs,
      Handshaking, Claiming
<1>8. Entries'
  BY EndFacts
  DEF EmitDown, Entries, IInv, Safe, Types, TypeOK, Own, Sides, Ups, Fresh, Downs,
      Handshaking, Claiming, Up, Raising
<1>9. Downs'
  BY EndFacts
  DEF EmitDown, Downs, IInv, Safe, Types, TypeOK, Own, Sides, Fresh, Entries, Ups,
      Handshaking, Claiming, Up, Raising
<1>10. Ups'
  BY EndFacts
  DEF EmitDown, Ups, IInv, Safe, Types, TypeOK, Own, Sides, Fresh, Entries, Downs,
      Handshaking, Claiming, Up, Raising
<1>11. Tell'
  BY EndFacts
  DEF EmitDown, Tell, IInv, Safe, Types, TypeOK, Own, Sides, Fresh, Entries, Downs,
      Ups, Handshaking, Claiming, Up, Raising
<1> QED
  BY <1>1, <1>2, <1>3, <1>4, <1>5, <1>6, <1>7, <1>8, <1>9, <1>10, <1>11 DEF IInv, Safe

LEMMA RestStep ==
  ASSUME IInv, NEW e \in End, Rest(e)
  PROVE  IInv'
<1>1. Claims'
  <2>1. \A n \in Node : Claimants(n)' = Claimants(n)
    BY EndFacts
    DEF Rest, Claimants, EndsAt, Claiming, IInv, Types, TypeOK, Goto, sockets, registry
  <2> QED
    BY <2>1
    DEF Claims, IInv, Rest, registry
<1>2. Types'
  BY EndFacts, NodeFacts
  DEF Rest, Types, IInv, Safe, TypeOK, Dials, OneDial, PC, Goto, sockets, registry
<1>3. Own'
  BY EndFacts
  DEF Rest, Own, IInv, Safe, Types, TypeOK, Goto, sockets, registry
<1>4. Sides'
  BY EndFacts
  DEF Rest, Sides, IInv, Safe, Types, TypeOK, Goto, sockets, registry
<1>5. OneDial'
  BY EndFacts
  DEF Rest, OneDial, IInv, Safe, Types, TypeOK, Sides, Goto, sockets, registry
<1>6. Dials'
  BY EndFacts
  DEF Rest, Dials, IInv, Safe, Types, TypeOK, Sides, OneDial, DialInFlight, Goto,
      sockets, registry
<1>7. Fresh'
  BY EndFacts
  DEF Rest, Fresh, IInv, Safe, Types, TypeOK, Own, Sides, Entries, Downs, Handshaking,
      Claiming, Goto, sockets, registry
<1>8. Entries'
  BY EndFacts
  DEF Rest, Entries, IInv, Safe, Types, TypeOK, Own, Sides, Ups, Fresh, Downs,
      Handshaking, Claiming, Up, Raising, Goto, sockets, registry
<1>9. Downs'
  BY EndFacts
  DEF Rest, Downs, IInv, Safe, Types, TypeOK, Own, Sides, Fresh, Entries, Ups,
      Handshaking, Claiming, Up, Raising, Goto, sockets, registry
<1>10. Ups'
  BY EndFacts
  DEF Rest, Ups, IInv, Safe, Types, TypeOK, Own, Sides, Fresh, Entries, Downs,
      Handshaking, Claiming, Up, Raising, Goto, sockets, registry
<1>11. Tell'
  BY EndFacts
  DEF Rest, Tell, IInv, Safe, Types, TypeOK, Own, Sides, Fresh, Entries, Downs, Ups,
      Handshaking, Claiming, Up, Raising, Goto, sockets, registry
<1> QED
  BY <1>1, <1>2, <1>3, <1>4, <1>5, <1>6, <1>7, <1>8, <1>9, <1>10, <1>11 DEF IInv, Safe

LEMMA RestartStep ==
  ASSUME IInv, NEW n \in Node, Restart(n)
  PROVE  IInv'
<1>1. Claims'
  <2>1. Claimants(n)' = {} /\ claims'[n] = 0
    BY EndFacts DEF Restart, Claimants, EndsAt, Claiming, IInv, Types, TypeOK
  <2>2. \A m \in Node : m # n => Claimants(m)' = Claimants(m) /\ claims'[m] = claims[m]
    BY EndFacts DEF Restart, Claimants, EndsAt, Claiming, IInv, Types, TypeOK
  <2> QED
    BY <2>1, <2>2, FS_EmptySet DEF Claims, IInv
<1>2. Types'
  BY EndFacts, PoolAssumption DEF Restart, Fault, Types, TypeOK, IInv, PC
<1>3. Own' /\ Sides' /\ OneDial'
  BY EndFacts DEF Restart, IInv, Safe, Types, TypeOK, Own, Sides, OneDial
<1>4. Dials'
  <2>1. \A f \in End : f.at = n => pc'[f] = "idle" /\ down'[f] = None
    BY DEF Restart
  <2>2. \A f \in End : f.at # n => UNCHANGED <<pc[f], down[f], awaits[f]>>
    BY DEF Restart
  <2>3. \A m \in Node : m # n => UNCHANGED <<peer[m], deferred[m], inFlight[m], dialing[m], told[m]>>
    BY DEF Restart, IInv, Types, TypeOK
  <2>4. peer'[n] = None /\ deferred'[n] = None /\ inFlight'[n] = None /\ dialing'[n] = 0 /\ told'[n] = 0
    BY DEF Restart, IInv, Types, TypeOK
  <2> QED
    BY EndFacts, <2>1, <2>2, <2>3, <2>4 DEF Dials, DialInFlight, EndsAt, IInv, Safe
<1>5. Fresh'
  BY EndFacts DEF Restart, IInv, Safe, Types, TypeOK, Own, Fresh, Handshaking, Claiming
<1>6. Entries'
  BY EndFacts DEF Restart, IInv, Safe, Types, TypeOK, Own, Entries
<1>7. Downs'
  <2>1. \A f \in End : f.at = n => pc'[f] = "idle" /\ down'[f] = None
    BY DEF Restart
  <2>2. \A f \in End : f.at # n => UNCHANGED <<pc[f], down[f], awaits[f]>>
    BY DEF Restart
  <2>3. \A m \in Node : m # n => UNCHANGED <<peer[m], deferred[m], inFlight[m], dialing[m], told[m]>>
    BY DEF Restart, IInv, Types, TypeOK
  <2>4. peer'[n] = None /\ deferred'[n] = None /\ inFlight'[n] = None /\ dialing'[n] = 0 /\ told'[n] = 0
    BY DEF Restart, IInv, Types, TypeOK
  <2> QED
    BY EndFacts, <2>1, <2>2, <2>3, <2>4 DEF Downs, Own, EndsAt, IInv, Safe
<1>8. Ups'
  <2>1. \A f \in End : f.at = n => pc'[f] = "idle" /\ down'[f] = None
    BY DEF Restart
  <2>2. \A f \in End : f.at # n => UNCHANGED <<pc[f], down[f], awaits[f]>>
    BY DEF Restart
  <2>3. \A m \in Node : m # n => UNCHANGED <<peer[m], deferred[m], inFlight[m], dialing[m], told[m]>>
    BY DEF Restart, IInv, Types, TypeOK
  <2>4. peer'[n] = None /\ deferred'[n] = None /\ inFlight'[n] = None /\ dialing'[n] = 0 /\ told'[n] = 0
    BY DEF Restart, IInv, Types, TypeOK
  <2> QED
    BY EndFacts, <2>1, <2>2, <2>3, <2>4 DEF Ups, Own, Up, Raising, EndsAt, IInv, Safe
<1>9. Tell'
  <2>1. \A f \in End : f.at = n => pc'[f] = "idle" /\ down'[f] = None
    BY DEF Restart
  <2>2. \A f \in End : f.at # n => UNCHANGED <<pc[f], down[f], awaits[f]>>
    BY DEF Restart
  <2>3. \A m \in Node : m # n => UNCHANGED <<peer[m], deferred[m], inFlight[m], dialing[m], told[m]>>
    BY DEF Restart, IInv, Types, TypeOK
  <2>4. peer'[n] = None /\ deferred'[n] = None /\ inFlight'[n] = None /\ dialing'[n] = 0 /\ told'[n] = 0
    BY DEF Restart, IInv, Types, TypeOK
  <2> QED
    BY EndFacts, <2>1, <2>2, <2>3, <2>4 DEF Tell, Own, Up, Raising, EndsAt, IInv, Safe
<1> QED
  BY <1>1, <1>2, <1>3, <1>4, <1>5, <1>6, <1>7, <1>8, <1>9 DEF IInv, Safe

-----------------------------------------------------------------------------
LEMMA InitIInv == Init => IInv
<1> SUFFICES ASSUME Init PROVE IInv
  OBVIOUS
<1>1. Types
  BY PoolAssumption DEF Init, Empty, Types, TypeOK, PC
<1>2. Claims
  <2>1. \A n \in Node : Claimants(n) = {} /\ claims[n] = 0
    BY EndFacts DEF Init, Empty, Claimants, Claiming
  <2> QED
    BY <2>1, FS_EmptySet DEF Claims
<1>3. Own /\ Sides /\ OneDial /\ Dials /\ Fresh
  BY EndFacts DEF Init, Empty, Own, Sides, OneDial, Dials, DialInFlight, Fresh, Handshaking,
      Claiming
<1>4. Entries /\ Downs /\ Ups /\ Tell
  BY EndFacts DEF Init, Empty, Entries, Downs, Ups, Up, Raising, Tell
<1> QED
  BY <1>1, <1>2, <1>3, <1>4 DEF IInv, Safe

LEMMA NextIInv ==
  ASSUME IInv, [Next]_vars
  PROVE  IInv'
<1>1. CASE UNCHANGED vars
  BY <1>1 DEF vars, threads, sockets, registry, IInv, Safe, Types, TypeOK, Own, Sides,
      OneDial, Claims, Claimants, Dials, Fresh, Entries, Downs, Ups, Up, Raising, Tell
<1>2. CASE \E e \in End : Step(e) \/ HelloFails(e) \/ HangUp(e)
  BY <1>2, DialStep, AcceptStep, AcceptFailsStep, ReadAckStep, HelloFailsStep,
     RegisterLosesStep, RegisterStep, EmitUpStep, ReleaseClaimStep, ReleaseDialingStep,
     HangUpStep, WatchStep, EmitDownStep, RestStep DEF Step
<1>3. CASE \E n \in Node : Restart(n)
  BY <1>3, RestartStep
<1> QED
  BY <1>1, <1>2, <1>3 DEF Next

LEMMA SpecIInv == Spec => []IInv
BY InitIInv, NextIInv, PTL DEF Spec

-----------------------------------------------------------------------------
\* From the invariant to what the consumer is told.

LEMMA OneOrNone ==
  ASSUME NEW S, \A e, f \in S : e = f
  PROVE  Cardinality(S) = IF S = {} THEN 0 ELSE 1
<1>1. CASE S = {}
  BY <1>1, FS_EmptySet
<1>2. CASE S # {}
  <2>1. PICK e \in S : S = {e}
    BY <1>2
  <2> QED
    BY <1>2, <2>1, FS_Singleton
<1> QED
  BY <1>1, <1>2

LEMMA ToldTrue == IInv => EventsTrue
<1> SUFFICES ASSUME IInv PROVE EventsTrue
  OBVIOUS
<1>1. ASSUME NEW n \in Node
      PROVE  Deciding(n, TRUE) = IF Raising(n) THEN 1 ELSE 0
  <2>1. Deciding(n, TRUE) = Cardinality({e \in EndsAt(n) : pc[e] = "up"})
    BY DEF Deciding
  <2>2. \A e, f \in {g \in EndsAt(n) : pc[g] = "up"} : e = f
    BY DEF IInv, Safe, Ups
  <2>3. {e \in EndsAt(n) : pc[e] = "up"} = {} <=> ~Raising(n)
    BY DEF Raising
  <2> QED
    BY <2>1, <2>2, <2>3, OneOrNone
<1>2. ASSUME NEW n \in Node
      PROVE  Deciding(n, FALSE) = IF inFlight[n] # None THEN 1 ELSE 0
  <2>1. Deciding(n, FALSE) = Cardinality({e \in EndsAt(n) : down[e] # None})
    BY DEF Deciding
  <2>2. \A e, f \in {g \in EndsAt(n) : down[g] # None} : e = f
    BY DEF IInv, Safe, Downs
  <2>3. {e \in EndsAt(n) : down[e] # None} = {} <=> inFlight[n] = None
    BY DEF IInv, Safe, Downs
  <2> QED
    BY <2>1, <2>2, <2>3, OneOrNone
<1>3. \A n \in Node : Raising(n) => Up(n)
  BY DEF Raising, IInv, Safe, Ups
<1>4. Accounted
  <2> SUFFICES ASSUME NEW n \in Node
               PROVE  told[n] + Deciding(n, TRUE) - Deciding(n, FALSE)
                        = (IF peer[n] # None \/ deferred[n] # None THEN 1 ELSE 0)
    BY DEF Accounted
  <2> DEFINE u == Deciding(n, TRUE)
             d == Deciding(n, FALSE)
  <2>1. u = IF Raising(n) THEN 1 ELSE 0
    BY <1>1
  <2>2. d = IF inFlight[n] # None THEN 1 ELSE 0
    BY <1>2
  <2> HIDE DEF u, d
  <2>3. told[n] + u - d = IF Up(n) THEN 1 ELSE 0
    BY <1>3, <2>1, <2>2 DEF IInv, Safe, Tell, Ups
  <2> QED
    BY <2>3 DEF u, d, Up
<1>5. Alternates
  BY DEF Alternates, IInv, Safe, Tell
<1> QED
  BY <1>4, <1>5 DEF EventsTrue, IInv, Types

\* The consumer of a pool is told that the peer came or went exactly when it did, each
\* event once and in turn (pool.go, transport.go), whatever is dialled, lost or restarted.
THEOREM ToldWhatIsTrue == Spec => []EventsTrue
BY SpecIInv, ToldTrue, PTL

-----------------------------------------------------------------------------
\* As long as nothing broke.  Of two dials that cross, the one by node 1 wins at both
\* ends; node 1 dials once, and the other node's connection, registered or not, goes
\* only where the winner is registered or on its way.

Entry(e) == e \in {peer[e.at], deferred[e.at]}
Whole(e) == {e, Far(e)} \subseteq open

\* Nobody restarted, no PeerDown was decided, and whom a handshake names, says so.
Silent ==
  /\ \A n \in Node : inc[n] = 1 /\ inFlight[n] = None
  /\ \A e \in End : down[e] = None
  /\ \A e \in End :
       \/ pc[e] \in {"accept", "register"}
       \/ pc[e] = "hello" /\ ack[e] # "none"
       \/ peer[e.at] = e
       => says[e] = 1

\* Where the two goroutines of an attempt are: d is the dialled end, f the other.
Attempt(d, f) ==
  /\ pc[d] = "idle" => pc[f] = "idle"
  /\ pc[f] = "accept" => pc[d] = "hello" /\ ack[d] = "none"
  /\ pc[f] \notin {"idle", "accept"} => ack[d] = "yes"
  /\ pc[d] = "hello" /\ ack[d] = "none" => pc[f] = "accept" /\ Whole(d)
  /\ pc[d] \notin {"idle", "hello"} => ack[d] # "none"
  /\ pc[d] = "register" => ack[d] = "yes"
  /\ pc[d] # "idle" /\ ack[d] = "no" => pc[f] = "idle"
  /\ pc[d] \notin {"idle", "hello", "register"} /\ ack[d] = "yes" => Up(d.at)
  /\ Entry(d) \/ Entry(f) => pc[d] # "idle" /\ ack[d] = "yes"

Attempts == \A d \in End : Dialled(d) => Attempt(d, Far(d))

\* The attempt of node 1 is not given up.
Winning(d, f) ==
  /\ Whole(d) /\ ack[d] # "no" /\ pc[d] # "rest"
  /\ pc[d] \in {"hello", "register"} \/ peer[1] = d
  /\ ack[d] = "yes" => pc[f] = "register" \/ peer[2] = f

Winner == \A d \in End : d.by = 1 /\ Dialled(d) /\ pc[d] # "idle" => Winning(d, Far(d))

Coming(n) ==
  \E e \in EndsAt(n) : e.by = 1 /\ (pc[e] = "register" \/ (n = 1 /\ pc[e] = "hello"))

Better(n) == Coming(n) \/ (peer[n] # None /\ peer[n].by = 1)

Offered(e) == peer[e.at] = e \/ pc[e] = "register" \/ (pc[e] = "hello" /\ ack[e] = "yes")

Losing ==
  /\ \A n \in Node : deferred[n] # None => deferred[n].by = 2 /\ Better(n)
  /\ \A e \in End : e.by = 2 /\ Offered(e) /\ ~Whole(e) => Better(e.at)

Calm == Silent /\ Attempts /\ Winner /\ Losing
CalmInv == faults = 0 => Calm

LEMMA FarTwice == \A e \in End : Far(Far(e)) = e /\ e.by \in {1, 2} /\ e.at \in {1, 2}
<1> SUFFICES ASSUME NEW e \in End
             PROVE  Far(Far(e)) = e /\ e.by \in {1, 2} /\ e.at \in {1, 2}
  OBVIOUS
<1>1. e.by \in {1, 2} /\ e.at \in {1, 2}
  BY DEF End, Node
<1>2. \A x \in End : Far(x) \in End /\ Far(x).by = x.by /\ Far(x).slot = x.slot
                   /\ Far(x).at = 3 - x.at
  BY EndFacts DEF End, Far, Other
<1>3. /\ Far(Far(e)) \in End /\ Far(Far(e)).by = e.by /\ Far(Far(e)).slot = e.slot
      /\ Far(Far(e)).at = e.at
  BY <1>1, <1>2
<1>4. \A x, y \in End : x.by = y.by /\ x.slot = y.slot /\ x.at = y.at => x = y
  BY DEF End
<1> QED
  BY <1>1, <1>3, <1>4

LEMMA PreferFirst ==
  ASSUME NEW x \in End, NEW y \in End, says[x] = 1, says[y] = 1
  PROVE  Prefer(x, y) <=> x.by = 1
BY FarTwice DEF Prefer, Other

\* What the invariant of the registry says of types and of whose an entry is.
LEMMA PoolFacts ==
  ASSUME IInv
  PROVE  /\ pc \in [End -> PC] /\ ack \in [End -> {"none", "yes", "no"}]
         /\ says \in [End -> Int] /\ open \subseteq End /\ kept \subseteq End
         /\ down \in [End -> End \cup {None}] /\ faults \in Nat
         /\ peer \in [Node -> End \cup {None}] /\ deferred \in [Node -> End \cup {None}]
         /\ inFlight \in [Node -> End \cup {None}]
         /\ \A n \in Node : /\ peer[n] # None => peer[n] \in End /\ peer[n].at = n
                            /\ deferred[n] # None => deferred[n] \in End /\ deferred[n].at = n
BY EndFacts, PoolAssumption DEF IInv, Safe, Types, TypeOK, Own

\* Two ends of a node that are in use, of sockets that the same node dialled, are one.
LEMMA OneAttempt ==
  ASSUME IInv, Attempts, NEW x \in End, NEW y \in End, x.at = y.at, x.by = y.by,
         pc[x] # "idle" \/ Entry(x), pc[y] # "idle" \/ Entry(y)
  PROVE  x = y
<1> DEFINE D(z) == IF Dialled(z) THEN z ELSE Far(z)
<1>1. ASSUME NEW z \in End, pc[z] # "idle" \/ Entry(z)
      PROVE  /\ D(z) \in End /\ Dialled(D(z)) /\ pc[D(z)] # "idle"
  <2>1. D(z) \in End /\ Dialled(D(z)) /\ z \in {D(z), Far(D(z))}
    BY EndFacts, FarTwice
  <2>2. Attempt(D(z), Far(D(z)))
    BY <2>1 DEF Attempts
  <2> HIDE DEF D
  <2> QED
    BY <1>1, <2>1, <2>2 DEF Attempt
<1>2. D(x) = D(y)
  <2>1. D(x).at = D(x).by /\ D(y).at = D(y).by /\ D(x).by = x.by /\ D(y).by = y.by
    BY <1>1, EndFacts DEF Dialled
  <2>2. /\ D(x) \in End /\ Dialled(D(x)) /\ pc[D(x)] # "idle"
        /\ D(y) \in End /\ Dialled(D(y)) /\ pc[D(y)] # "idle"
    BY <1>1
  <2> HIDE DEF D
  <2> QED
    BY <2>1, <2>2 DEF IInv, Safe, OneDial
<1>3. Dialled(x) <=> Dialled(y)
  BY DEF Dialled
<1> QED
  BY <1>2, <1>3, FarTwice

\* The two ends of a socket, the dialled one first.
LEMMA Ends ==
  ASSUME NEW e \in End
  PROVE  \E d, f \in End :
           /\ f = Far(d) /\ d = Far(f) /\ Dialled(d) /\ ~Dialled(f) /\ e \in {d, f}
           /\ d.by = e.by /\ f.by = e.by /\ d.at = e.by /\ f.at # d.at
           /\ d.by \in {1, 2} /\ d.at \in Node /\ f.at \in Node
<1>1. CASE Dialled(e)
  BY <1>1, EndFacts, FarTwice DEF Dialled
<1>2. CASE ~Dialled(e)
  BY <1>2, EndFacts, FarTwice DEF Dialled
<1> QED
  BY <1>1, <1>2

LEMMA Apart ==
  ASSUME NEW d \in End, NEW f \in End, f = Far(d), NEW x \in End \ {d, f}
  PROVE  Far(x) \in End \ {d, f}
BY EndFacts, FarTwice

\* A step at one socket keeps Calm when it keeps what concerns that socket and takes
\* nothing from the attempts of node 1, from an entry or from its better.
LEMMA CalmKept ==
  ASSUME Calm, NEW d \in End, NEW f \in End, f = Far(d), Dialled(d),
         Silent', Attempt(d, f)', d.by = 1 /\ pc'[d] # "idle" => Winning(d, f)',
         \A x \in End \ {d, f} :
           /\ pc'[x] = pc[x] /\ ack'[x] = ack[x] /\ (Entry(x)' => Entry(x))
           /\ x.by = 1 \/ (pc[x] = "hello" /\ ack[x] = "none") => (Whole(x) => Whole(x)')
           /\ x.by = 1 => (peer[x.at] = x => peer'[x.at] = x),
         \A n \in Node :
           /\ Up(n) => Up(n)'
           /\ deferred'[n] # None => deferred'[n].by = 2 /\ Better(n)',
         \A x \in End : x.by = 2 /\ Offered(x)' /\ ~Whole(x)' => Better(x.at)'
  PROVE  Calm'
<1>1. ASSUME NEW x \in End, Dialled(x), x # d
      PROVE  /\ Far(x) \in End /\ x \notin {d, f} /\ Far(x) \notin {d, f}
             /\ Attempt(x, Far(x)) /\ x.at \in Node /\ Far(x).by = x.by /\ x.at = x.by
             /\ Far(x).at \in Node /\ Far(x).at # x.at
  BY <1>1, EndFacts, FarTwice DEF Calm, Attempts, Dialled
<1>2. Attempts'
  <2> SUFFICES ASSUME NEW x \in End, Dialled(x), x # d
               PROVE  Attempt(x, Far(x))'
    BY DEF Attempts
  <2>1. PICK y \in End : y = Far(x)
    BY <1>1
  <2>2. Attempt(x, y) /\ y \notin {d, f} /\ x \notin {d, f} /\ x.at \in Node
    BY <1>1, <2>1
  <2>3. Attempt(x, y)'
    BY <2>2 DEF Attempt
  <2> QED
    BY <2>1, <2>3
<1>3. Winner'
  <2> SUFFICES ASSUME NEW x \in End, x.by = 1, Dialled(x), pc'[x] # "idle", x # d
               PROVE  Winning(x, Far(x))'
    BY DEF Winner
  <2>1. PICK y \in End : y = Far(x)
    BY <1>1
  <2>2. y \notin {d, f} /\ x \notin {d, f} /\ x.at = 1 /\ y.by = 1 /\ y.at = 2
    BY <1>1, <2>1, NodeFacts
  <2>3. Winning(x, y)
    BY <2>1, <2>2 DEF Calm, Winner
  <2>4. Winning(x, y)'
    BY <2>2, <2>3 DEF Winning
  <2> QED
    BY <2>1, <2>4
<1>4. Losing'
  BY DEF Losing
<1> QED
  BY <1>2, <1>3, <1>4 DEF Calm

\* Where the winner is registered, or about to be, it is so at the other end, too.
LEMMA WinnerThere ==
  ASSUME IInv, Attempts, Winner, NEW e \in End, e.by = 1, pc[e] = "register" \/ peer[e.at] = e
  PROVE  Better(Far(e).at)
<1>1. CASE Dialled(e)
  <2>1. e.at = 1 /\ Far(e) \in End /\ Far(e).at = 2 /\ Far(e).by = 1
    BY <1>1, EndFacts, FarTwice DEF Dialled
  <2>2. Attempt(e, Far(e))
    BY <1>1 DEF Attempts
  <2>3. pc[e] # "idle" /\ ack[e] = "yes"
    BY <2>1, <2>2 DEF Attempt, Entry
  <2>4. Winning(e, Far(e))
    BY <1>1, <2>3 DEF Winner
  <2> QED
    BY <2>1, <2>3, <2>4, EndFacts DEF Winning, Better, Coming
<1>2. CASE ~Dialled(e)
  <2>1. PICK d \in End : d = Far(e) /\ Far(d) = e /\ Dialled(d) /\ d.at = 1 /\ d.by = 1 /\ e.at = 2
    BY <1>2, EndFacts, FarTwice DEF Dialled
  <2>2. Attempt(d, e)
    BY <2>1 DEF Attempts
  <2>3. pc[d] # "idle"
    BY <2>1, <2>2 DEF Attempt, Entry
  <2>4. Winning(d, e)
    BY <2>1, <2>3 DEF Winner
  <2> QED
    BY <2>1, <2>4, EndFacts DEF Winning, Better, Coming
<1> QED
  BY <1>1, <1>2

\* A winner on its way holds a claim, so that no PeerDown is decided before it is there:
\* after a step, as a PeerDown is parked or decided with what the step leaves.
LEMMA ComingClaims ==
  ASSUME IInv', AddrMatches, NEW n \in Node, Coming(n)'
  PROVE  Claimed(n, claims', dialing', addrKnown')
<1>1. PICK e \in EndsAt(n) : e.by = 1 /\ (pc'[e] = "register" \/ (n = 1 /\ pc'[e] = "hello"))
  BY DEF Coming
<1>2. claims'[n] \in Nat /\ dialing'[n] \in 0..1
  BY DEF IInv, Types, TypeOK
<1>3. CASE pc'[e] = "register"
  <2>1. Claimants(n)' # {}
    BY <1>1, <1>3 DEF Claimants, Claiming, EndsAt
  <2>2. claims'[n] = Cardinality(Claimants(n)')
    BY DEF IInv, Claims
  <2>3. claims'[n] # 0
    BY <2>1, <2>2, ClaimantsFinite, FS_EmptySet
  <2> QED
    BY <1>2, <2>3 DEF Claimed
<1>4. CASE n = 1 /\ pc'[e] = "hello"
  <2>1. Dialled(e)
    BY <1>1, <1>4, EndFacts DEF Dialled
  <2>2. dialing'[n] = 1
    BY <1>1, <1>4, <2>1 DEF IInv, Safe, Dials, DialInFlight
  <2> QED
    BY <2>2 DEF Claimed
<1> QED
  BY <1>1, <1>3, <1>4

LEMMA EmitUpCalm ==
  ASSUME IInv, Calm, NEW e \in End, EmitUp(e)
  PROVE  Calm'
<1>0. PICK d, f \in End :
        /\ f = Far(d) /\ d = Far(f) /\ Dialled(d) /\ ~Dialled(f) /\ e \in {d, f} /\ d.by = e.by
  BY Ends
<1>1. /\ pc[e] = "up" /\ pc'[e] = "releaseClaim"
      /\ \A x \in End : x # e => pc'[x] = pc[x]
      /\ UNCHANGED <<inc, down, inFlight, says, peer, deferred, ack, open>>
  BY PoolFacts DEF EmitUp, Goto, sockets, registry
<1>2. Silent'
  BY <1>1 DEF Calm, Silent
<1>3. Attempt(d, f) /\ (d.by = 1 /\ pc[d] # "idle" => Winning(d, f))
  BY <1>0 DEF Calm, Attempts, Winner
<1>4. Attempt(d, f)' /\ (d.by = 1 /\ pc'[d] # "idle" => Winning(d, f)')
  BY <1>0, <1>1, <1>3 DEF Attempt, Winning, Entry, Whole, Up
<1>5. \A n \in Node : (Better(n)' <=> Better(n)) /\ (Up(n)' <=> Up(n))
  BY <1>1, EndFacts DEF Better, Coming, Up
<1>6. \A x \in End : (Offered(x)' <=> Offered(x)) /\ (Whole(x)' <=> Whole(x))
                     /\ (Entry(x)' <=> Entry(x))
  BY <1>1 DEF Offered, Whole, Entry
<1> QED
  BY <1>0, <1>1, <1>2, <1>4, <1>5, <1>6, EndFacts, CalmKept DEF Calm, Losing

LEMMA DialCalm ==
  ASSUME IInv, Calm, NEW e \in End, Dial(e)
  PROVE  Calm'
<1>0. PICK d, f \in End :
        /\ f = Far(d) /\ d = Far(f) /\ Dialled(d) /\ ~Dialled(f) /\ e \in {d, f}
        /\ d.by = e.by /\ f.by = e.by /\ d.at = e.by /\ f.at # d.at /\ e.at \in Node
        /\ d.by \in {1, 2} /\ d.at \in Node /\ f.at \in Node
  BY Ends, EndFacts
<1>3. Attempt(d, f) /\ (d.by = 1 /\ pc[d] # "idle" => Winning(d, f))
  BY <1>0 DEF Calm, Attempts, Winner
<1>1. /\ e = d /\ pc[d] = "idle" /\ pc[f] = "idle"
      /\ pc'[d] = "hello" /\ pc'[f] = "accept" /\ \A x \in End \ {d, f} : pc'[x] = pc[x]
      /\ ack'[d] = "none" /\ \A x \in End \ {d, f} : ack'[x] = ack[x]
      /\ says'[f] = inc[d.at] /\ \A x \in End \ {f} : says'[x] = says[x]
      /\ open' = open \cup {d, f}
      /\ \A n \in Node : {peer[n], deferred[n]} \cap {d, f} = {}
      /\ UNCHANGED <<inc, down, inFlight, peer, deferred>>
  BY <1>0, PoolFacts, EndFacts DEF Dial, Free, Finished
<1>2. Silent'
  BY <1>0, <1>1, EndFacts DEF Calm, Silent
<1>4. Attempt(d, f)' /\ (d.by = 1 /\ pc'[d] # "idle" => Winning(d, f)')
  BY <1>0, <1>1 DEF Attempt, Winning, Entry, Whole, Up
<1>5. \A n \in Node : (Better(n) => Better(n)') /\ (Up(n)' <=> Up(n))
  BY <1>1, EndFacts DEF Better, Coming, Up
<1>6. \A x \in End : /\ (Offered(x)' => Offered(x) /\ x \notin {d, f})
                     /\ (Whole(x) => Whole(x)') /\ (Entry(x)' <=> Entry(x))
  BY <1>0, <1>1 DEF Offered, Whole, Entry
<1> QED
  BY <1>0, <1>1, <1>2, <1>4, <1>5, <1>6, EndFacts, CalmKept DEF Calm, Losing

LEMMA AcceptCalm ==
  ASSUME IInv, Calm, NEW e \in End, Accept(e)
  PROVE  Calm'
<1>0. PICK d, f \in End :
        /\ f = Far(d) /\ d = Far(f) /\ Dialled(d) /\ ~Dialled(f) /\ e \in {d, f}
        /\ d.by = e.by /\ f.by = e.by /\ d.at = e.by /\ f.at # d.at /\ e.at \in Node
        /\ d.by \in {1, 2} /\ d.at \in Node /\ f.at \in Node
  BY Ends, EndFacts
<1>3. Attempt(d, f) /\ (d.by = 1 /\ pc[d] # "idle" => Winning(d, f))
  BY <1>0 DEF Calm, Attempts, Winner
<1>1. /\ e = f /\ pc[f] = "accept" /\ pc[d] = "hello" /\ ack[d] = "none" /\ Whole(d)
      /\ ~Entry(d) /\ ~Entry(f)
  BY <1>0, <1>3 DEF Accept, IInv, Safe, Sides, Attempt
<1>2. /\ \A x \in End \ {f} : pc'[x] = pc[x]
      /\ \A x \in End \ {d} : ack'[x] = ack[x] /\ says'[x] = says[x]
      /\ says'[d] = inc[f.at]
      /\ UNCHANGED <<inc, down, inFlight, peer, deferred>>
      /\ \/ pc'[f] = "register" /\ ack'[d] = "yes" /\ open' = open
         \/ /\ pc'[f] = "idle" /\ ack'[d] = "no" /\ open' = open \ {f}
            /\ peer[f.at] # None /\ ~Prefer(f, peer[f.at])
  BY <1>0, <1>1, PoolFacts DEF Accept, Goto
<1>4. pc'[f] = "idle" => f.by = 2
  <2>1. SUFFICES ASSUME pc'[f] = "idle" PROVE f.by = 2
    OBVIOUS
  <2>2. peer[f.at] # None /\ ~Prefer(f, peer[f.at]) /\ peer[f.at] \in End /\ peer[f.at].at = f.at
    BY <1>0, <1>2, <2>1, PoolFacts
  <2>3. says[f] = 1 /\ says[peer[f.at]] = 1
    BY <1>1, <2>2 DEF Calm, Silent
  <2> QED
    BY <1>0, <2>2, <2>3, PreferFirst
<1>5. Silent'
  BY <1>0, <1>1, <1>2, EndFacts DEF Calm, Silent
<1>6. Attempt(d, f)' /\ (d.by = 1 /\ pc'[d] # "idle" => Winning(d, f)')
  BY <1>0, <1>1, <1>2, <1>3, <1>4 DEF Attempt, Winning, Entry, Whole, Up
<1>7. \A n \in Node : (Better(n) => Better(n)') /\ (Up(n)' <=> Up(n))
  BY <1>0, <1>1, <1>2, <1>4, EndFacts DEF Better, Coming, Up
<1>8. \A x \in End \ {d, f} : /\ (Offered(x)' => Offered(x)) /\ (Whole(x) => Whole(x)')
                              /\ (Entry(x)' <=> Entry(x))
  BY <1>0, <1>2, Apart DEF Offered, Whole, Entry
<1>9. \A x \in {d, f} : Offered(x)' => Whole(x)'
  BY <1>0, <1>1, <1>2 DEF Offered, Whole, Entry
<1> QED
  BY <1>0, <1>2, <1>5, <1>6, <1>7, <1>8, <1>9, EndFacts, CalmKept DEF Calm, Losing

LEMMA AcceptFailsCalm ==
  ASSUME IInv, Calm, NEW e \in End, AcceptFails(e)
  PROVE  Calm'
<1>0. PICK d, f \in End :
        /\ f = Far(d) /\ d = Far(f) /\ Dialled(d) /\ ~Dialled(f) /\ e \in {d, f}
        /\ d.by = e.by /\ f.by = e.by /\ d.at = e.by /\ f.at # d.at /\ e.at \in Node
        /\ d.by \in {1, 2} /\ d.at \in Node /\ f.at \in Node
  BY Ends, EndFacts
<1>3. Attempt(d, f) /\ (d.by = 1 /\ pc[d] # "idle" => Winning(d, f))
  BY <1>0 DEF Calm, Attempts, Winner
<1>1. /\ e = f /\ pc[f] = "register" /\ pc'[f] = "releaseClaim" /\ d \notin open
      /\ \A x \in End \ {f} : pc'[x] = pc[x]
      /\ open' = open \ {f}
      /\ UNCHANGED <<inc, down, inFlight, says, peer, deferred, ack>>
  BY <1>0, PoolFacts DEF AcceptFails, Goto, registry
<1>2. f.by = 2 /\ peer[f.at] # f
  BY <1>0, <1>1, <1>3 DEF Attempt, Winning, Whole, IInv, Safe, Fresh, Handshaking
<1>4. Silent'
  BY <1>0, <1>1, EndFacts DEF Calm, Silent
<1>5. Attempt(d, f)'
  BY <1>0, <1>1, <1>3 DEF Attempt, Entry, Whole, Up
<1>6. \A n \in Node : (Better(n) => Better(n)') /\ (Up(n)' <=> Up(n))
  BY <1>0, <1>1, <1>2, EndFacts DEF Better, Coming, Up
<1>7. \A x \in End \ {d, f} : /\ (Offered(x)' => Offered(x)) /\ (Whole(x) => Whole(x)')
                              /\ (Entry(x)' <=> Entry(x))
  BY <1>0, <1>1, Apart DEF Offered, Whole, Entry
<1>8. ~Offered(f)' /\ (Offered(d)' => Offered(d)) /\ ~Whole(d)
  BY <1>0, <1>1, <1>2 DEF Offered, Whole
<1> QED
  BY <1>0, <1>1, <1>2, <1>4, <1>5, <1>6, <1>7, <1>8, EndFacts, CalmKept DEF Calm, Losing

LEMMA ReadAckCalm ==
  ASSUME IInv, Calm, NEW e \in End, ReadAck(e)
  PROVE  Calm'
<1>0. PICK d, f \in End :
        /\ f = Far(d) /\ d = Far(f) /\ Dialled(d) /\ ~Dialled(f) /\ e \in {d, f}
        /\ d.by = e.by /\ f.by = e.by /\ d.at = e.by /\ f.at # d.at /\ e.at \in Node
        /\ d.by \in {1, 2} /\ d.at \in Node /\ f.at \in Node
  BY Ends, EndFacts
<1>3. Attempt(d, f) /\ (d.by = 1 /\ pc[d] # "idle" => Winning(d, f))
  BY <1>0 DEF Calm, Attempts, Winner
<1>1. /\ e = d /\ pc[d] = "hello" /\ ack[d] \in {"yes", "no"}
      /\ \A x \in End \ {d} : pc'[x] = pc[x]
      /\ \/ ack[d] = "yes" /\ pc'[d] = "register" /\ open' = open
         \/ /\ ack[d] = "no" /\ pc'[d] = "releaseClaim" /\ open' = open \ {d}
      /\ UNCHANGED <<inc, down, inFlight, says, peer, deferred, ack>>
  BY <1>0, PoolFacts DEF ReadAck, Goto, IInv, Safe, Sides
<1>2. ack[d] = "no" => d.by = 2 /\ pc[f] = "idle" /\ ~Entry(d) /\ ~Entry(f)
  BY <1>0, <1>1, <1>3 DEF Attempt, Winning
<1>4. Silent'
  BY <1>0, <1>1, EndFacts DEF Calm, Silent
<1>5. Attempt(d, f)' /\ (d.by = 1 /\ pc'[d] # "idle" => Winning(d, f)')
  BY <1>0, <1>1, <1>2, <1>3 DEF Attempt, Winning, Entry, Whole, Up
<1>6. \A n \in Node : (Better(n) => Better(n)') /\ (Up(n)' <=> Up(n))
  BY <1>0, <1>1, <1>2, EndFacts DEF Better, Coming, Up
<1>7. \A x \in End \ {d, f} : /\ (Offered(x)' => Offered(x)) /\ (Whole(x) => Whole(x)')
                              /\ (Entry(x)' <=> Entry(x))
  BY <1>0, <1>1, Apart DEF Offered, Whole, Entry
<1>8. \A x \in {d, f} : Offered(x)' => Offered(x) /\ (Whole(x) => Whole(x)')
  BY <1>0, <1>1, <1>2 DEF Offered, Whole, Entry
<1> QED
  BY <1>0, <1>1, <1>4, <1>5, <1>6, <1>7, <1>8, EndFacts, CalmKept DEF Calm, Losing

LEMMA HelloFailsNever ==
  ASSUME IInv, Calm, faults' = 0, NEW e \in End, HelloFails(e)
  PROVE  FALSE
<1>0. PICK d, f \in End :
        /\ f = Far(d) /\ d = Far(f) /\ Dialled(d) /\ ~Dialled(f) /\ e \in {d, f}
        /\ d.by = e.by /\ f.by = e.by /\ d.at = e.by /\ f.at # d.at /\ e.at \in Node
        /\ d.by \in {1, 2} /\ d.at \in Node /\ f.at \in Node
  BY Ends, EndFacts
<1>3. Attempt(d, f) /\ (d.by = 1 /\ pc[d] # "idle" => Winning(d, f))
  BY <1>0 DEF Calm, Attempts, Winner
<1>1. e = d /\ pc[d] = "hello" /\ ack[d] = "none" /\ f \notin open
  BY <1>0, PoolFacts DEF HelloFails, Fault, IInv, Safe, Sides
<1> QED
  BY <1>0, <1>1, <1>3 DEF Attempt, Whole

LEMMA RegisterLosesCalm ==
  ASSUME IInv, Calm, NEW e \in End, RegisterLoses(e)
  PROVE  Calm'
<1>0. PICK d, f \in End :
        /\ f = Far(d) /\ d = Far(f) /\ Dialled(d) /\ ~Dialled(f) /\ e \in {d, f}
        /\ d.by = e.by /\ f.by = e.by /\ d.at = e.by /\ f.at # d.at /\ e.at \in Node
        /\ d.by \in {1, 2} /\ d.at \in Node /\ f.at \in Node
  BY Ends, EndFacts
<1>3. Attempt(d, f) /\ (d.by = 1 /\ pc[d] # "idle" => Winning(d, f))
  BY <1>0 DEF Calm, Attempts, Winner
<1>1. /\ pc[e] = "register" /\ pc'[e] = "releaseClaim"
      /\ peer[e.at] # None /\ ~Prefer(e, peer[e.at])
      /\ \A x \in End \ {e} : pc'[x] = pc[x]
      /\ open' = open \ {e}
      /\ UNCHANGED <<inc, down, inFlight, says, peer, deferred, ack>>
  BY <1>0, PoolFacts DEF RegisterLoses, Goto, registry
<1>2. PICK p \in End : p = peer[e.at] /\ p.at = e.at /\ p # e
  BY <1>0, <1>1, PoolFacts DEF IInv, Safe, Fresh, Handshaking
<1>4. e.by = 2
  BY <1>0, <1>1, <1>2, PreferFirst DEF Calm, Silent
<1>5. p.by = 1
  BY <1>0, <1>1, <1>2, <1>4, OneAttempt, FarTwice DEF Calm, Entry
<1>6. Better(d.at) /\ Better(f.at)
  <2>1. Better(e.at) /\ Better(Far(p).at)
    BY <1>1, <1>2, <1>5, WinnerThere DEF Calm, Better
  <2>2. Far(p).at # e.at /\ Far(p).at \in Node
    BY <1>2, EndFacts
  <2> QED
    BY <1>0, <2>1, <2>2, NodeFacts
<1>7. Silent'
  BY <1>0, <1>1, EndFacts DEF Calm, Silent
<1>8. Attempt(d, f)'
  BY <1>0, <1>1, <1>3 DEF Attempt, Entry, Whole, Up
<1>9. \A n \in Node : (Better(n) => Better(n)') /\ (Up(n)' <=> Up(n))
  BY <1>0, <1>1, <1>4, EndFacts DEF Better, Coming, Up
<1>10. \A x \in End \ {d, f} : /\ (Offered(x)' => Offered(x)) /\ (Whole(x) => Whole(x)')
                               /\ (Entry(x)' <=> Entry(x))
  BY <1>0, <1>1, Apart DEF Offered, Whole, Entry
<1> QED
  BY <1>0, <1>1, <1>4, <1>6, <1>7, <1>8, <1>9, <1>10, EndFacts, CalmKept DEF Calm, Losing

LEMMA RegisterCalm ==
  ASSUME IInv, Calm, NEW e \in End, Register(e)
  PROVE  Calm'
<1>0. PICK d, f \in End :
        /\ f = Far(d) /\ d = Far(f) /\ Dialled(d) /\ ~Dialled(f) /\ e \in {d, f}
        /\ d.by = e.by /\ f.by = e.by /\ d.at = e.by /\ f.at # d.at /\ e.at \in Node
        /\ d.by \in {1, 2} /\ d.at \in Node /\ f.at \in Node
  BY Ends, EndFacts
<1>3. Attempt(d, f) /\ (d.by = 1 /\ pc[d] # "idle" => Winning(d, f))
  BY <1>0 DEF Calm, Attempts, Winner
<1>1. /\ pc[e] = "register" /\ pc'[e] \in {"up", "releaseClaim"}
      /\ peer[e.at] # None => Prefer(e, peer[e.at])
      /\ \A x \in End \ {e} : pc'[x] = pc[x]
      /\ peer'[e.at] = e /\ deferred'[e.at] = None
      /\ \A n \in Node \ {e.at} : peer'[n] = peer[n] /\ deferred'[n] = deferred[n]
      /\ open' = open \ Superseded(e.at)
      /\ UNCHANGED <<inc, down, inFlight, says, ack>>
  BY <1>0, PoolFacts DEF Register, Goto
<1>2. ASSUME NEW p \in End, p.at = e.at, Entry(p), p.by = e.by
      PROVE  FALSE
  <2>1. p = e
    BY <1>1, <1>2, OneAttempt DEF Calm
  <2> QED
    BY <1>1, <1>2, <2>1 DEF IInv, Safe, Fresh, Handshaking, Entry
<1>4. peer[e.at] # None => e.by = 1 /\ peer[e.at].by = 2
  <2> SUFFICES ASSUME peer[e.at] # None PROVE e.by = 1 /\ peer[e.at].by = 2
    OBVIOUS
  <2>1. PICK p \in End : p = peer[e.at] /\ p.at = e.at
    BY <1>0, PoolFacts
  <2>2. e.by = 1
    BY <1>0, <1>1, <2>1, PreferFirst DEF Calm, Silent
  <2> QED
    BY <1>2, <2>1, <2>2, FarTwice DEF Entry
<1>5. deferred[e.at] # None => e.by = 1 /\ deferred[e.at].by = 2
  <2> SUFFICES ASSUME deferred[e.at] # None PROVE e.by = 1 /\ deferred[e.at].by = 2
    OBVIOUS
  <2>1. PICK p \in End : p = deferred[e.at] /\ p.at = e.at
    BY <1>0, PoolFacts
  <2> QED
    BY <1>0, <1>2, <2>1, FarTwice DEF Entry, Calm, Losing
<1>6. \A x \in Superseded(e.at) : e.by = 1 /\ x \in End /\ x.by = 2 /\ Entry(x)
  BY <1>0, <1>4, <1>5, PoolFacts DEF Superseded, Entry
<1>7. Silent'
  BY <1>0, <1>1, EndFacts DEF Calm, Silent
<1>8. Attempt(d, f)' /\ (d.by = 1 /\ pc'[d] # "idle" => Winning(d, f)')
  <2>1. pc[d] # "idle" /\ ack[d] = "yes" /\ (e = f => pc[d] = pc'[d])
    BY <1>0, <1>1, <1>3 DEF Attempt
  <2>2. d.by = 1 => (Whole(d) => Whole(d)')
    BY <1>0, <1>1, <1>6 DEF Whole
  <2>3. Up(d.at) => Up(d.at)'
    BY <1>0, <1>1, EndFacts DEF Up
  <2>4. e = d => Up(d.at)'
    BY <1>1, EndFacts DEF Up
  <2>5. Attempt(d, f)'
    BY <1>0, <1>1, <1>3, <2>1, <2>3, <2>4 DEF Attempt
  <2>6. ASSUME d.by = 1 PROVE Winning(d, f)'
    <3>1. Winning(d, f) /\ d.at = 1 /\ f.at = 2
      BY <1>0, <1>3, <2>1, <2>6, NodeFacts
    <3>2. CASE e = d
      BY <1>0, <1>1, <2>1, <2>2, <3>1, <3>2, NodeFacts DEF Winning
    <3>3. CASE e = f
      BY <1>0, <1>1, <2>1, <2>2, <3>1, <3>3, NodeFacts DEF Winning
    <3> QED
      BY <1>0, <3>2, <3>3
  <2> QED
    BY <2>5, <2>6
<1>9. \A n \in Node : (Better(n) => Better(n)') /\ (Up(n) => Up(n)')
  BY <1>0, <1>1, <1>4, EndFacts DEF Better, Coming, Up
<1>10. \A x \in End \ {d, f} :
         /\ Entry(x)' => Entry(x)
         /\ Offered(x)' => Offered(x)
         /\ x.by = 1 => (Whole(x) => Whole(x)') /\ (peer[x.at] = x => peer'[x.at] = x)
         /\ pc[x] = "hello" /\ ack[x] = "none" => (Whole(x) => Whole(x)')
  <2> SUFFICES ASSUME NEW x \in End \ {d, f}
               PROVE  /\ Entry(x)' => Entry(x)
                      /\ Offered(x)' => Offered(x)
                      /\ x.by = 1 => (Whole(x) => Whole(x)') /\ (peer[x.at] = x => peer'[x.at] = x)
                      /\ pc[x] = "hello" /\ ack[x] = "none" => (Whole(x) => Whole(x)')
    OBVIOUS
  <2>1. x.at \in Node /\ Far(x) \in End /\ Far(x).by = x.by
    BY EndFacts
  <2>2. (Entry(x)' => Entry(x)) /\ (Offered(x)' => Offered(x))
    <3>1. x # e /\ x # None
      BY <1>0, EndFacts
    <3>2. CASE x.at = e.at
      BY <1>1, <3>1, <3>2 DEF Entry, Offered
    <3>3. CASE x.at # e.at
      BY <1>1, <2>1, <3>1, <3>3 DEF Entry, Offered
    <3> QED
      BY <3>2, <3>3
  <2>3. x.by = 1 => (Whole(x) => Whole(x)') /\ (peer[x.at] = x => peer'[x.at] = x)
    <3>1. x.by = 1 => (Whole(x) => Whole(x)')
      BY <1>1, <1>6, <2>1 DEF Whole
    <3>2. x.by = 1 /\ peer[x.at] = x => x.at # e.at
      BY <1>4, EndFacts
    <3> QED
      BY <1>1, <2>1, <3>1, <3>2
  <2>4. ASSUME pc[x] = "hello", ack[x] = "none" PROVE Whole(x) => Whole(x)'
    <3>1. Dialled(x)
      BY <2>4 DEF IInv, Safe, Sides
    <3>2. ~Entry(x) /\ ~Entry(Far(x))
      BY <2>4, <3>1 DEF Calm, Attempts, Attempt
    <3> QED
      BY <1>1, <1>6, <3>2 DEF Whole
  <2> QED
    BY <2>2, <2>3, <2>4
<1>11. ASSUME NEW x \in End, x.by = 2, Offered(x)', ~Whole(x)'
       PROVE  Better(x.at)'
  <2>1. CASE e.by = 1
    <3>1. Better(e.at)' /\ Better(Far(e).at)
      BY <1>1, <2>1, WinnerThere, EndFacts DEF Calm, Better
    <3> QED
      BY <1>9, <3>1, EndFacts, NodeFacts
  <2>2. CASE e.by = 2
    <3>1. open' = open /\ Superseded(e.at) = {}
      BY <1>1, <1>6, <2>2
    <3>2. Offered(x) /\ ~Whole(x)
      BY <1>0, <1>1, <1>11, <3>1, EndFacts DEF Offered, Whole
    <3> QED
      BY <1>9, <1>11, <3>2, EndFacts DEF Calm, Losing
  <2> QED
    BY <1>0, <2>1, <2>2
<1>12. \A n \in Node : deferred'[n] # None => deferred'[n].by = 2 /\ Better(n)'
  BY <1>1, <1>9 DEF Calm, Losing
<1> QED
  BY <1>0, <1>1, <1>7, <1>8, <1>9, <1>10, <1>11, <1>12, CalmKept DEF Calm

\* No parked PeerDown is decided when a claim is given back: its better is on its way.
LEMMA NothingDecided ==
  ASSUME IInv, IInv', Calm, AddrMatches, NEW n \in Node, deferred[n] # None,
         \A x \in EndsAt(n) : pc[x] \in {"hello", "register"} => pc'[x] = pc[x]
  PROVE  Claimed(n, claims', dialing', addrKnown')
<1>1. Coming(n)
  BY DEF Calm, Losing, Better, IInv, Safe, Entries
<1>2. Coming(n)'
  BY <1>1 DEF Coming
<1> QED
  BY <1>2, ComingClaims

LEMMA ReleaseClaimCalm ==
  ASSUME IInv, IInv', Calm, AddrMatches, NEW e \in End, ReleaseClaim(e)
  PROVE  Calm'
<1>0. PICK d, f \in End :
        /\ f = Far(d) /\ d = Far(f) /\ Dialled(d) /\ ~Dialled(f) /\ e \in {d, f}
        /\ d.by = e.by /\ f.by = e.by /\ d.at = e.by /\ f.at # d.at /\ e.at \in Node
        /\ d.by \in {1, 2} /\ d.at \in Node /\ f.at \in Node
  BY Ends, EndFacts
<1>3. Attempt(d, f) /\ (d.by = 1 /\ pc[d] # "idle" => Winning(d, f))
  BY <1>0 DEF Calm, Attempts, Winner
<1>1. /\ pc[e] = "releaseClaim"
      /\ pc'[e] \in IF e = d THEN {"releaseDialing"} ELSE {"watch", "idle"}
      /\ \A x \in End \ {e} : pc'[x] = pc[x]
      /\ UNCHANGED <<inc, says, peer, ack, open, dialing, addrKnown>>
  BY <1>0, PoolFacts DEF ReleaseClaim, Goto, sockets
<1>2. /\ deferred[e.at] # None => Claimed(e.at, claims', dialing, addrKnown)
      /\ Resolve(e, claims', dialing)
  <2>1. \A x \in EndsAt(e.at) : pc[x] \in {"hello", "register"} => pc'[x] = pc[x]
    BY <1>1, EndFacts
  <2>2. deferred[e.at] # None => Claimed(e.at, claims', dialing', addrKnown')
    BY <1>0, <2>1, NothingDecided
  <2> QED
    BY <1>1, <2>2 DEF ReleaseClaim
<1>4. UNCHANGED <<deferred, inFlight>> /\ \A x \in End : down'[x] = None
  BY <1>0, <1>2, PoolFacts DEF Resolve, Calm, Silent
<1>5. Silent'
  BY <1>0, <1>1, <1>4, EndFacts DEF Calm, Silent
<1>6. Attempt(d, f)' /\ (d.by = 1 /\ pc'[d] # "idle" => Winning(d, f)')
  BY <1>0, <1>1, <1>3, <1>4 DEF Attempt, Winning, Entry, Whole, Up
<1>7. \A n \in Node : (Better(n)' <=> Better(n)) /\ (Up(n)' <=> Up(n))
  BY <1>0, <1>1, <1>4, EndFacts DEF Better, Coming, Up
<1>8. \A x \in End : (Offered(x)' <=> Offered(x)) /\ (Whole(x)' <=> Whole(x))
                     /\ (Entry(x)' <=> Entry(x))
  BY <1>0, <1>1, <1>4 DEF Offered, Whole, Entry
<1> QED
  BY <1>0, <1>1, <1>4, <1>5, <1>6, <1>7, <1>8, EndFacts, CalmKept DEF Calm, Losing

LEMMA ReleaseDialingCalm ==
  ASSUME IInv, IInv', Calm, AddrMatches, NEW e \in End, ReleaseDialing(e)
  PROVE  Calm'
<1>0. PICK d, f \in End :
        /\ f = Far(d) /\ d = Far(f) /\ Dialled(d) /\ ~Dialled(f) /\ e \in {d, f}
        /\ d.by = e.by /\ f.by = e.by /\ d.at = e.by /\ f.at # d.at /\ e.at \in Node
        /\ d.by \in {1, 2} /\ d.at \in Node /\ f.at \in Node
  BY Ends, EndFacts
<1>3. Attempt(d, f) /\ (d.by = 1 /\ pc[d] # "idle" => Winning(d, f))
  BY <1>0 DEF Calm, Attempts, Winner
<1>1. /\ e = d /\ pc[d] = "releaseDialing"
      /\ pc'[d] \in {"watch", "rest", "idle"}
      /\ d \in kept => pc'[d] = "watch"
      /\ ack[d] = "yes" => pc'[d] # "idle"
      /\ \A x \in End \ {d} : pc'[x] = pc[x]
      /\ UNCHANGED <<inc, says, peer, ack, open, claims, addrKnown>>
  BY <1>0, PoolFacts DEF ReleaseDialing, Goto, sockets, IInv, Safe, Sides
<1>2. /\ deferred[e.at] # None => Claimed(e.at, claims, dialing', addrKnown)
      /\ Resolve(e, claims, dialing')
  <2>1. \A x \in EndsAt(e.at) : pc[x] \in {"hello", "register"} => pc'[x] = pc[x]
    BY <1>1, EndFacts
  <2>2. deferred[e.at] # None => Claimed(e.at, claims', dialing', addrKnown')
    BY <1>0, <2>1, NothingDecided
  <2> QED
    BY <1>1, <2>2 DEF ReleaseDialing
<1>4. UNCHANGED <<deferred, inFlight>> /\ \A x \in End : down'[x] = None
  BY <1>0, <1>2, PoolFacts DEF Resolve, Calm, Silent
<1>5. Silent'
  BY <1>0, <1>1, <1>4, EndFacts DEF Calm, Silent
<1>6. peer[d.at] = d => pc'[d] = "watch"
  BY <1>0, <1>1, EndFacts DEF IInv, Safe, Entries
<1>7. Attempt(d, f)' /\ (d.by = 1 /\ pc'[d] # "idle" => Winning(d, f)')
  BY <1>0, <1>1, <1>3, <1>4, <1>6, PoolFacts DEF Attempt, Winning, Entry, Whole, Up
<1>8. \A n \in Node : (Better(n)' <=> Better(n)) /\ (Up(n)' <=> Up(n))
  BY <1>0, <1>1, <1>4, EndFacts DEF Better, Coming, Up
<1>9. \A x \in End : (Offered(x)' <=> Offered(x)) /\ (Whole(x)' <=> Whole(x))
                     /\ (Entry(x)' <=> Entry(x))
  BY <1>0, <1>1, <1>4 DEF Offered, Whole, Entry
<1> QED
  BY <1>0, <1>1, <1>4, <1>5, <1>7, <1>8, <1>9, EndFacts, CalmKept DEF Calm, Losing

LEMMA HangUpCalm ==
  ASSUME IInv, Calm, faults' = 0, NEW e \in End, HangUp(e)
  PROVE  Calm'
<1>0. PICK d, f \in End :
        /\ f = Far(d) /\ d = Far(f) /\ Dialled(d) /\ ~Dialled(f) /\ e \in {d, f}
        /\ d.by = e.by /\ f.by = e.by /\ d.at = e.by /\ f.at # d.at /\ e.at \in Node
        /\ d.by \in {1, 2} /\ d.at \in Node /\ f.at \in Node
  BY Ends, EndFacts
<1>3. Attempt(d, f) /\ (d.by = 1 /\ pc[d] # "idle" => Winning(d, f))
  BY <1>0 DEF Calm, Attempts, Winner
<1>1. /\ open' = open \ {e} /\ ~Whole(d) /\ ~Whole(f)
      /\ UNCHANGED <<inc, pc, down, inFlight, says, peer, deferred, ack>>
  BY <1>0, PoolFacts DEF HangUp, Fault, Whole, threads, registry
<1>2. Silent'
  BY <1>1 DEF Calm, Silent
<1>4. Attempt(d, f)' /\ (d.by = 1 => pc'[d] = "idle")
  BY <1>0, <1>1, <1>3 DEF Attempt, Winning, Entry, Whole, Up
<1>5. \A n \in Node : (Better(n)' <=> Better(n)) /\ (Up(n)' <=> Up(n))
  BY <1>1 DEF Better, Coming, Up
<1>6. \A x \in End : (Offered(x)' <=> Offered(x)) /\ (Entry(x)' <=> Entry(x))
  BY <1>1 DEF Offered, Entry
<1>7. \A x \in End : Whole(x) => Whole(x)'
  <2>1. \A x \in End \ {d, f} : Far(x) \in End \ {d, f}
    BY <1>0, Apart
  <2> QED
    BY <1>0, <1>1, <2>1 DEF Whole
<1> QED
  BY <1>0, <1>1, <1>2, <1>4, <1>5, <1>6, <1>7, EndFacts, CalmKept DEF Calm, Losing

LEMMA WatchCalm ==
  ASSUME IInv, IInv', Calm, AddrMatches, NEW e \in End, Watch(e)
  PROVE  Calm'
<1>0. PICK d, f \in End :
        /\ f = Far(d) /\ d = Far(f) /\ Dialled(d) /\ ~Dialled(f) /\ e \in {d, f}
        /\ d.by = e.by /\ f.by = e.by /\ d.at = e.by /\ f.at # d.at /\ e.at \in Node
        /\ d.by \in {1, 2} /\ d.at \in Node /\ f.at \in Node
  BY Ends, EndFacts
<1>3. Attempt(d, f) /\ (d.by = 1 /\ pc[d] # "idle" => Winning(d, f))
  BY <1>0 DEF Calm, Attempts, Winner
<1>1. /\ pc[e] = "watch" /\ e \notin open
      /\ pc'[e] = IF e = d THEN "rest" ELSE "idle"
      /\ \A x \in End \ {e} : pc'[x] = pc[x]
      /\ UNCHANGED <<inc, says, ack, open, claims, dialing, addrKnown>>
  BY <1>0, PoolFacts DEF Watch, Goto, AfterWatch
<1>2. e.by = 2 /\ ~Whole(e)
  BY <1>0, <1>1, <1>3 DEF Attempt, Winning, Whole
<1>4. peer[e.at] = e => Coming(e.at) /\ Coming(e.at)'
  <2> SUFFICES ASSUME peer[e.at] = e PROVE Coming(e.at) /\ Coming(e.at)'
    OBVIOUS
  <2>1. Coming(e.at)
    BY <1>0, <1>2, EndFacts DEF Calm, Losing, Offered, Better
  <2> QED
    BY <1>1, <2>1, EndFacts DEF Coming
<1>5. peer[e.at] = e => Claimed(e.at, claims, dialing, addrKnown)
  BY <1>0, <1>1, <1>4, ComingClaims
<1>6. /\ UNCHANGED inFlight /\ \A x \in End : down'[x] = None
      /\ \A n \in Node \ {e.at} : peer'[n] = peer[n] /\ deferred'[n] = deferred[n]
      /\ \/ peer[e.at] = e /\ peer'[e.at] = None /\ deferred'[e.at] = e
         \/ peer[e.at] # e /\ UNCHANGED <<peer, deferred>>
  BY <1>0, <1>5, PoolFacts DEF Watch, Calm, Silent
<1>7. Silent'
  BY <1>0, <1>1, <1>6, EndFacts DEF Calm, Silent
<1>8. Attempt(d, f)'
  BY <1>0, <1>1, <1>3, <1>6, EndFacts DEF Attempt, Entry, Whole, Up
<1>9. \A n \in Node : (Better(n) => Better(n)') /\ (Up(n) => Up(n)')
  <2>1. \A n \in Node : Coming(n) => Coming(n)'
    BY <1>1 DEF Coming, EndsAt
  <2> QED
    BY <1>0, <1>2, <1>6, <2>1, EndFacts DEF Better, Up
<1>10. \A n \in Node : deferred'[n] # None => deferred'[n].by = 2 /\ Better(n)'
  <2>1. peer[e.at] = e => Better(e.at)'
    BY <1>4 DEF Better
  <2> QED
    BY <1>0, <1>2, <1>6, <1>9, <2>1 DEF Calm, Losing
<1>11. \A x \in End : /\ (Offered(x)' => Offered(x)) /\ (Whole(x)' <=> Whole(x))
                      /\ (Entry(x)' => Entry(x)) /\ (x # e /\ peer[x.at] = x => peer'[x.at] = x)
  BY <1>0, <1>1, <1>6, EndFacts DEF Offered, Whole, Entry
<1> QED
  BY <1>0, <1>1, <1>2, <1>7, <1>8, <1>9, <1>10, <1>11, EndFacts, CalmKept DEF Calm, Losing

LEMMA RestCalm ==
  ASSUME IInv, Calm, NEW e \in End, Rest(e)
  PROVE  Calm'
<1>0. PICK d, f \in End :
        /\ f = Far(d) /\ d = Far(f) /\ Dialled(d) /\ ~Dialled(f) /\ e \in {d, f}
        /\ d.by = e.by /\ f.by = e.by /\ d.at = e.by /\ f.at # d.at /\ e.at \in Node
        /\ d.by \in {1, 2} /\ d.at \in Node /\ f.at \in Node
  BY Ends, EndFacts
<1>3. Attempt(d, f) /\ (d.by = 1 /\ pc[d] # "idle" => Winning(d, f))
  BY <1>0 DEF Calm, Attempts, Winner
<1>1. /\ e = d /\ pc[d] = "rest"
      /\ pc'[d] = IF Up(d.at) THEN "rest" ELSE "idle"
      /\ \A x \in End \ {d} : pc'[x] = pc[x]
      /\ UNCHANGED <<inc, down, inFlight, says, peer, deferred, ack, open>>
  BY <1>0, PoolFacts DEF Rest, Goto, sockets, registry, Up, IInv, Safe, Sides
<1>2. Silent'
  BY <1>1 DEF Calm, Silent
<1>4. Attempt(d, f)' /\ d.by = 2
  BY <1>0, <1>1, <1>3, PoolFacts DEF Attempt, Winning, Entry, Whole, Up
<1>5. \A n \in Node : (Better(n)' <=> Better(n)) /\ (Up(n)' <=> Up(n))
  BY <1>1, EndFacts DEF Better, Coming, Up
<1>6. \A x \in End : (Offered(x)' <=> Offered(x)) /\ (Whole(x)' <=> Whole(x))
                     /\ (Entry(x)' <=> Entry(x))
  BY <1>1 DEF Offered, Whole, Entry
<1> QED
  BY <1>0, <1>1, <1>2, <1>4, <1>5, <1>6, EndFacts, CalmKept DEF Calm, Losing

LEMMA InitCalm == Init => Calm
BY EndFacts DEF Init, Empty, Calm, Silent, Attempts, Attempt, Winner, Losing, Entry, Offered

LEMMA NextCalm ==
  ASSUME IInv, IInv', CalmInv, AddrMatches, [Next]_vars
  PROVE  CalmInv'
<1> SUFFICES ASSUME faults' = 0 PROVE Calm'
  BY DEF CalmInv
<1>1. CASE UNCHANGED vars
  BY <1>1 DEF vars, threads, sockets, registry, CalmInv, Calm, Silent, Attempts, Attempt,
      Winner, Winning, Losing, Better, Coming, Offered, Entry, Whole, Up
<1>2. CASE \E e \in End : Step(e) \/ HelloFails(e) \/ HangUp(e)
  <2>1. PICK e \in End : Step(e) \/ HelloFails(e) \/ HangUp(e)
    BY <1>2
  <2>2. faults = 0
    BY <2>1, PoolFacts DEF Step, Dial, Accept, AcceptFails, ReadAck, HelloFails, RegisterLoses,
       Register, EmitUp, ReleaseClaim, ReleaseDialing, HangUp, Watch, EmitDown, Rest, Fault
  <2>3. Calm
    BY <2>2 DEF CalmInv
  <2>4. ~EmitDown(e)
    BY <2>3 DEF EmitDown, Calm, Silent
  <2> QED
    BY <2>1, <2>3, <2>4, DialCalm, AcceptCalm, AcceptFailsCalm, ReadAckCalm, HelloFailsNever,
       RegisterLosesCalm, RegisterCalm, EmitUpCalm, ReleaseClaimCalm, ReleaseDialingCalm,
       HangUpCalm, WatchCalm, RestCalm DEF Step
<1>3. CASE \E n \in Node : Restart(n)
  BY <1>3, PoolFacts DEF Restart, Fault
<1> QED
  BY <1>1, <1>2, <1>3 DEF Next

LEMMA CalmKeepsTold ==
  ASSUME IInv, CalmInv, [Next]_vars
  PROVE  [faults' = 0 => \A n \in Node : told'[n] >= told[n]]_vars
<1> SUFFICES ASSUME Next, faults' = 0, NEW n \in Node PROVE told'[n] >= told[n]
  OBVIOUS
<1>0. told \in [Node -> Int]
  BY DEF IInv, Types, TypeOK
<1>1. ASSUME NEW e \in End, Step(e) \/ HelloFails(e) \/ HangUp(e)
      PROVE  told'[n] >= told[n]
  <2>1. faults = 0
    BY <1>1, PoolFacts DEF Step, Dial, Accept, AcceptFails, ReadAck, HelloFails, RegisterLoses,
       Register, EmitUp, ReleaseClaim, ReleaseDialing, HangUp, Watch, EmitDown, Rest, Fault
  <2>2. ~EmitDown(e)
    BY <2>1 DEF CalmInv, Calm, Silent, EmitDown
  <2>3. UNCHANGED told \/ told' = [told EXCEPT ![e.at] = @ + 1]
    BY <1>1, <2>2 DEF Step, Dial, Accept, AcceptFails, ReadAck, HelloFails, RegisterLoses,
       Register, EmitUp, ReleaseClaim, ReleaseDialing, HangUp, Watch, Rest
  <2> QED
    BY <1>0, <2>3
<1>2. ASSUME NEW m \in Node, Restart(m)
      PROVE  FALSE
  BY <1>2, PoolFacts DEF Restart, Fault
<1> QED
  BY <1>1, <1>2 DEF Next

\* A PeerDown is "never spurious" (pool.go, Pool): as long as no connection broke, no
\* handshake timed out and nobody restarted, two pools that dial each other at the same
\* time tell their consumers of no PeerDown, however the two dials interleave.  The
\* address dialled is the one the peer advertises: under an alias a dial in flight is
\* not known to be a claim on that peer.
THEOREM NoPeerFlaps ==
  ASSUME AddrMatches
  PROVE  Spec => NoFlap
<1>1. Init => CalmInv
  BY InitCalm DEF CalmInv
<1>2. IInv /\ IInv' /\ CalmInv /\ [Next]_vars => CalmInv'
  BY NextCalm
<1>3. IInv /\ CalmInv /\ [Next]_vars => [faults' = 0 => \A n \in Node : told'[n] >= told[n]]_vars
  BY CalmKeepsTold
<1> QED
  BY <1>1, <1>2, <1>3, SpecIInv, PTL DEF Spec, NoFlap

-----------------------------------------------------------------------------
(* One connection that is replaced: its frames. *)

\* The control frames in the queue of connection c.
In(c) == C!Range(ctrl[c])
InMove == C!Range(moving)

Queues(S) == {q \in Seq(S) : Len(q) <= Depth}

ConnTypes ==
  /\ current \in {0, 1, 2}
  /\ ctrl \in [C!Conn -> Queues(Ctrl)] /\ data \in [C!Conn -> Queues(Data)]
  /\ hand \in [C!Conn -> SUBSET C!Frame]
  /\ done \subseteq C!Conn
  /\ writer \in [C!Conn -> {"none", "top", "select", "write", "exited"}]
  /\ call \in [C!Frame -> {"idle", "over"} \X {0} \cup {"offer"} \X C!Conn]
  /\ mover \in {"idle", "close", "drain", "send"}
  /\ moving \in Seq(Ctrl)
  /\ stage \in {"running", "leaving", "closed"}
  /\ owed \subseteq Ctrl /\ refused \subseteq Ctrl
  /\ overtook \in [Ctrl -> Nat]
  /\ breaks \in 0..MaxBreaks

\* A frame is sent once: what was accepted is not offered again, and waits in one queue.
SentOnce ==
  /\ \A f \in In(1) \cup In(2) \cup InMove \cup owed : call[f][1] = "over"
  /\ In(1) \cap (In(2) \cup InMove) = {}
  /\ mover # "send" => InMove = {}

\* A writer holds a frame only while it writes it, and ends after its connection.
Writing ==
  /\ \A c \in C!Conn : /\ writer[c] # "write" => hand[c] = {}
                       /\ \E f : hand[c] \subseteq {f}
                       /\ writer[c] = "exited" => c \in done
  /\ mover # "idle" => writer[2] # "none"

\* A writer that waits for either queue found no control frame: what has come since was
\* not overtaken yet.
Overtaking ==
  /\ \A f \in Ctrl : overtook[f] <= 1 /\ (call[f][1] # "over" => overtook[f] = 0)
  /\ \A c \in C!Conn : writer[c] = "select" => \A f \in In(c) : overtook[f] = 0

\* Where a frame is that was accepted and is not written.
Somewhere == In(1) \cup hand[1] \cup InMove \cup In(2) \cup hand[2] \cup refused

\* How far the swap is, as long as nothing breaks.
Swapping ==
  /\ mover = "idle" => writer[2] = "none" /\ (stage = "closed" \/ (done = {} /\ current = 1))
  /\ mover # "idle" => current = 2
  /\ mover \in {"drain", "send"} => 1 \in done
  /\ mover = "send" => writer[1] = "exited" /\ In(1) \cap owed = {}

\* As long as nothing breaks, only the frame that writer 1 had taken may be nowhere.
Kept == breaks = 0 /\ 2 \notin done =>
  /\ Swapping
  /\ \E f : owed \ Somewhere \subseteq {f}
  /\ writer[1] # "exited" => owed \subseteq Somewhere

ConnInv == ConnTypes /\ SentOnce /\ Writing /\ Overtaking /\ Kept

-----------------------------------------------------------------------------
\* What the operations on a queue leave in it.
LEMMA QueueOps ==
  ASSUME NEW S, NEW q \in Seq(S)
  PROVE  /\ \A x \in S : Append(q, x) \in Seq(S) /\ C!Range(Append(q, x)) = C!Range(q) \cup {x}
         /\ q # <<>> => /\ Head(q) \in S /\ Tail(q) \in Seq(S)
                        /\ Len(Tail(q)) = Len(q) - 1
                        /\ C!Range(q) = {Head(q)} \cup C!Range(Tail(q))
         /\ C!Range(q) \subseteq S
         /\ C!Range(<<>>) = {}
<1>1. ASSUME NEW x \in S
      PROVE  Append(q, x) \in Seq(S) /\ C!Range(Append(q, x)) = C!Range(q) \cup {x}
  <2>1. /\ Append(q, x) \in Seq(S) /\ Len(Append(q, x)) = Len(q) + 1
        /\ \A i \in 1..Len(q) : Append(q, x)[i] = q[i]
        /\ Append(q, x)[Len(q) + 1] = x
    OBVIOUS
  <2>2. DOMAIN q = 1..Len(q) /\ DOMAIN Append(q, x) = 1..(Len(q) + 1) /\ Len(q) \in Nat
    BY <2>1
  <2>3. 1..(Len(q) + 1) = 1..Len(q) \cup {Len(q) + 1}
    BY <2>2
  <2> QED
    BY <2>1, <2>2, <2>3 DEF C!Range
<1>2. ASSUME q # <<>>
      PROVE  /\ Head(q) \in S /\ Tail(q) \in Seq(S)
             /\ Len(Tail(q)) = Len(q) - 1
             /\ C!Range(q) = {Head(q)} \cup C!Range(Tail(q))
  <2>1. /\ Head(q) = q[1] /\ Head(q) \in S /\ Tail(q) \in Seq(S)
        /\ Len(Tail(q)) = Len(q) - 1 /\ Len(q) \in Nat \ {0}
        /\ \A i \in 1..(Len(q) - 1) : Tail(q)[i] = q[i + 1]
    BY <1>2
  <2>2. DOMAIN q = 1..Len(q) /\ DOMAIN Tail(q) = 1..(Len(q) - 1)
    BY <2>1
  <2>3. \A i \in 1..Len(q) : i = 1 \/ (i - 1 \in 1..(Len(q) - 1) /\ i = (i - 1) + 1)
    BY <2>1
  <2>4. \A i \in 1..(Len(q) - 1) : i + 1 \in 1..Len(q)
    BY <2>1
  <2>5. C!Range(q) \subseteq {Head(q)} \cup C!Range(Tail(q))
    <3> SUFFICES ASSUME NEW x \in C!Range(q), x # Head(q)
                 PROVE  x \in C!Range(Tail(q))
      OBVIOUS
    <3>1. PICK i \in 1..Len(q) : x = q[i]
      BY <2>2 DEF C!Range
    <3>2. i - 1 \in 1..(Len(q) - 1) /\ i = (i - 1) + 1
      BY <2>1, <2>3, <3>1
    <3>3. x = Tail(q)[i - 1]
      BY <2>1, <3>1, <3>2
    <3> QED
      BY <2>2, <3>2, <3>3 DEF C!Range
  <2>6. 1 \in 1..Len(q)
    BY <2>1
  <2>7. {Head(q)} \cup C!Range(Tail(q)) \subseteq C!Range(q)
    BY <2>1, <2>2, <2>4, <2>6 DEF C!Range
  <2> QED
    BY <2>1, <2>5, <2>7
<1>3. C!Range(q) \subseteq S
  <2>1. \A i \in DOMAIN q : q[i] \in S
    OBVIOUS
  <2> QED
    BY <2>1 DEF C!Range
<1>4. C!Range(<<>>) = {}
  <2>1. DOMAIN <<>> = {}
    OBVIOUS
  <2> QED
    BY <2>1 DEF C!Range
<1> QED
  BY <1>1, <1>2, <1>3, <1>4

LEMMA TypesKept ==
  ASSUME NetworkAssumption, ConnTypes, [C!Next]_C!vars
  PROVE  ConnTypes'
<1> USE DEF ConnTypes, C!Conn, C!NoConn, Queues
<1>a. Depth \in Nat \ {0} /\ MaxBreaks \in Nat
  BY DEF NetworkAssumption, C!ConnectionAssumption
<1>1. CASE UNCHANGED C!vars
  BY <1>1 DEF C!vars, C!swap
<1>2. ASSUME NEW f \in C!Frame, C!Send(f)
      PROVE  ConnTypes'
  <2>1. call' \in [C!Frame -> {"idle", "over"} \X {0} \cup {"offer"} \X C!Conn]
    <3>1. CASE current \in done \cup {0}
      <4>1. <<"over", 0>> \in {"idle", "over"} \X {0}
        OBVIOUS
      <4>2. call' = [call EXCEPT ![f] = <<"over", 0>>]
        BY <1>2, <3>1 DEF C!Send, C!Returns
      <4> QED
        BY <4>1, <4>2
    <3>2. CASE current \notin done \cup {0}
      <4>1. <<"offer", current>> \in {"offer"} \X C!Conn
        BY <3>2
      <4> QED
        BY <1>2, <3>2, <4>1 DEF C!Send
    <3> QED
      BY <3>1, <3>2
  <2> QED
    BY <1>2, <2>1 DEF C!Send, C!swap
<1>3. ASSUME NEW f \in C!Frame, NEW c \in C!Conn,
             C!EnqueueCtrl(f, c) \/ C!EnqueueData(f, c) \/ C!Refuse(f, c)
      PROVE  ConnTypes'
  <2>1. CASE C!EnqueueCtrl(f, c)
    <3>1. Append(ctrl[c], f) \in Queues(Ctrl)
      BY <1>a, <2>1, QueueOps DEF C!EnqueueCtrl, C!Full
    <3> QED
      BY <2>1, <3>1 DEF C!EnqueueCtrl, C!Returns, C!swap
  <2>2. CASE C!EnqueueData(f, c)
    <3>1. Append(data[c], f) \in Queues(Data)
      BY <1>a, <2>2, QueueOps DEF C!EnqueueData, C!Full
    <3> QED
      BY <2>2, <3>1 DEF C!EnqueueData, C!Returns, C!swap
  <2>3. CASE C!Refuse(f, c)
    BY <2>3 DEF C!Refuse, C!Returns, C!swap
  <2> QED
    BY <1>3, <2>1, <2>2, <2>3
<1>4. ASSUME NEW c \in C!Conn, C!WriteLoop(c)
      PROVE  ConnTypes'
  <2>1. UNCHANGED <<current, done, call, mover, moving, refused, stage, owed, breaks>>
    BY <1>4 DEF C!WriteLoop, C!swap
  <2>2. ASSUME C!TakeCtrl(c)
        PROVE  ConnTypes'
    <3>1. Head(ctrl[c]) \in Ctrl /\ Tail(ctrl[c]) \in Queues(Ctrl)
      BY <1>a, <2>2, QueueOps DEF C!TakeCtrl
    <3> QED
      BY <2>1, <2>2, <3>1 DEF C!TakeCtrl, C!Dequeue, C!Step, C!Frame
  <2>3. ASSUME C!TakeData(c)
        PROVE  ConnTypes'
    <3>1. Head(data[c]) \in Data /\ Tail(data[c]) \in Queues(Data)
      BY <1>a, <2>3, QueueOps DEF C!TakeData
    <3>2. overtook' \in [Ctrl -> Nat]
      BY <2>3 DEF C!TakeData
    <3> QED
      BY <2>1, <2>3, <3>1, <3>2 DEF C!TakeData, C!Dequeue, C!Step, C!Frame
  <2>4. ASSUME C!Step(c, "exited") \/ C!Step(c, "select"), C!Nothing
        PROVE  ConnTypes'
    BY <2>1, <2>4 DEF C!Step, C!Nothing
  <2> QED
    BY <1>4, <2>2, <2>3, <2>4 DEF C!WriteLoop, C!Choose
<1>5. ASSUME NEW c \in C!Conn, C!Write(c) \/ C!WriteFails(c) \/ C!ReadFails(c)
      PROVE  ConnTypes'
  <2>1. CASE C!Write(c)
    BY <2>1 DEF C!Write, C!Step, C!swap
  <2>2. breaks' \in 0..MaxBreaks
    BY <1>5, <1>a DEF C!Write, C!WriteFails, C!ReadFails, C!Fault
  <2>3. CASE C!WriteFails(c)
    BY <2>2, <2>3 DEF C!WriteFails, C!Step, C!swap
  <2>4. CASE C!ReadFails(c)
    BY <2>2, <2>4 DEF C!ReadFails, C!swap
  <2> QED
    BY <1>5, <2>1, <2>3, <2>4
<1>6. CASE C!Watch \/ C!Register \/ C!Shutdown \/ C!PoolClose
  BY <1>6 DEF C!Watch, C!Register, C!Shutdown, C!PoolClose, C!Registered, C!swap
<1>7. CASE C!Replace
  <2>1. CASE C!CloseAndWait
    BY <1>7, <2>1 DEF C!Replace, C!CloseAndWait
  <2>2. CASE C!Drain
    <3>1. <<>> \in Queues(Ctrl) /\ <<>> \in Queues(Data)
      BY <1>a
    <3> QED
      BY <1>7, <2>2, <3>1 DEF C!Replace, C!Drain, C!Unsent, C!Emptied
  <2> QED
    BY <1>7, <2>1, <2>2 DEF C!Replace, C!CloseThenDrain
<1>8. CASE C!Move
  <2>1. Head(moving) \in Ctrl /\ Tail(moving) \in Seq(Ctrl)
    BY <1>8, QueueOps DEF C!Move
  <2>2. ~C!Full(ctrl[2]) => Append(ctrl[2], Head(moving)) \in Queues(Ctrl)
    BY <1>a, <2>1, QueueOps DEF C!Full
  <2>3. /\ UNCHANGED <<current, data, done, writer, hand, call, mover, stage, owed, breaks>>
        /\ moving' = Tail(moving)
    BY <1>8 DEF C!Move
  <2>4. CASE ~C!Full(ctrl[2]) /\ ctrl' = [ctrl EXCEPT ![2] = Append(@, Head(moving))]
             /\ overtook' = [overtook EXCEPT ![Head(moving)] = 0] /\ UNCHANGED refused
    <3>1. ctrl' \in [C!Conn -> Queues(Ctrl)]
      BY <2>2, <2>4
    <3>2. overtook' \in [Ctrl -> Nat]
      BY <2>1, <2>4
    <3> QED
      BY <2>1, <2>3, <2>4, <3>1, <3>2
  <2>5. CASE refused' = refused \cup {Head(moving)} /\ UNCHANGED <<ctrl, overtook>>
    BY <2>1, <2>3, <2>5
  <2> QED
    BY <1>8, <2>4, <2>5 DEF C!Move
<1> QED
  BY <1>1, <1>2, <1>3, <1>4, <1>5, <1>6, <1>7, <1>8 DEF C!Next

-----------------------------------------------------------------------------
\* The queues, with what they hold.
LEMMA Holds ==
  ASSUME ConnTypes
  PROVE  /\ In(1) \subseteq Ctrl /\ In(2) \subseteq Ctrl /\ InMove \subseteq Ctrl
         /\ \A c \in C!Conn : In(c) \subseteq Ctrl
         /\ Ctrl \subseteq C!Frame
BY QueueOps DEF ConnTypes, In, InMove, C!Conn, Queues, C!Frame

LEMMA SendKeeps ==
  ASSUME ConnInv, NEW f \in C!Frame, C!Send(f)
  PROVE  SentOnce' /\ Writing' /\ Overtaking' /\ Kept'
<1>1. /\ call[f][1] = "idle"
      /\ UNCHANGED <<current, ctrl, data, done, writer, hand, mover, moving, refused, stage,
                     owed, overtook, breaks>>
      /\ \A g \in C!Frame \ {f} : call'[g] = call[g]
  BY DEF C!Send, C!swap, C!Returns, ConnInv, ConnTypes
<1>2. f \notin In(1) \cup In(2) \cup InMove \cup owed
  BY <1>1 DEF ConnInv, SentOnce
<1>3. In(1)' = In(1) /\ In(2)' = In(2) /\ InMove' = InMove /\ \A c \in C!Conn : In(c)' = In(c)
  BY <1>1 DEF In, InMove
<1>4. SentOnce'
  BY <1>1, <1>2, <1>3, Holds DEF ConnInv, ConnTypes, SentOnce
<1>5. Overtaking'
  BY <1>1, <1>3, Holds DEF ConnInv, ConnTypes, Overtaking
<1>6. Writing' /\ Kept'
  BY <1>1, <1>3 DEF ConnInv, Writing, Kept, Swapping, Somewhere
<1> QED
  BY <1>4, <1>5, <1>6

LEMMA EnqueueCtrlKeeps ==
  ASSUME ConnInv, NEW f \in C!Frame, NEW c \in C!Conn, C!EnqueueCtrl(f, c)
  PROVE  SentOnce' /\ Writing' /\ Overtaking' /\ Kept'
<1>1. /\ f \in Ctrl /\ call[f] = <<"offer", c>> /\ call[f][1] # "over"
      /\ UNCHANGED <<current, data, done, writer, hand, mover, moving, refused, stage,
                     overtook, breaks>>
      /\ call'[f][1] = "over"
      /\ \A g \in C!Frame \ {f} : call'[g] = call[g]
  BY DEF C!EnqueueCtrl, C!At, C!swap, C!Returns, ConnInv, ConnTypes
<1>2. f \notin In(1) \cup In(2) \cup InMove \cup owed
  BY <1>1 DEF ConnInv, SentOnce
<1>3. In(c)' = In(c) \cup {f} /\ InMove' = InMove /\ \A d \in C!Conn \ {c} : In(d)' = In(d)
  BY <1>1, QueueOps DEF C!EnqueueCtrl, In, InMove, ConnInv, ConnTypes, Queues
<1>4. owed' = IF c \in done THEN owed ELSE owed \cup {f}
  BY DEF C!EnqueueCtrl
<1>5. SentOnce'
  BY <1>1, <1>2, <1>3, <1>4, Holds DEF ConnInv, ConnTypes, SentOnce, C!Conn
<1>6. Overtaking'
  BY <1>1, <1>2, <1>3, Holds DEF ConnInv, ConnTypes, Overtaking
<1>7. Writing'
  BY <1>1 DEF ConnInv, Writing
<1>8. ASSUME breaks = 0, 2 \notin done
      PROVE  /\ Swapping' /\ owed' \ Somewhere' \subseteq owed \ Somewhere
  <2>1. c = 1 \/ c = 2
    BY DEF C!Conn
  <2>2. Swapping'
    BY <1>1, <1>2, <1>3, <1>4, <1>8, <2>1 DEF ConnInv, Kept, Swapping, C!Conn
  <2>3. Somewhere' = Somewhere \cup {f}
    BY <1>1, <1>3, <2>1 DEF Somewhere, C!Conn
  <2> QED
    BY <1>4, <2>2, <2>3
<1>9. Kept'
  BY <1>1, <1>8 DEF ConnInv, Kept
<1> QED
  BY <1>5, <1>6, <1>7, <1>9

LEMMA NotQueuedKeeps ==
  ASSUME ConnInv, NEW f \in C!Frame, NEW c \in C!Conn, C!EnqueueData(f, c) \/ C!Refuse(f, c),
         NetworkAssumption
  PROVE  SentOnce' /\ Writing' /\ Overtaking' /\ Kept'
<1>1. /\ call[f] = <<"offer", c>> /\ call[f][1] # "over"
      /\ UNCHANGED <<current, ctrl, done, writer, hand, mover, moving, refused, stage,
                     owed, overtook, breaks>>
      /\ call'[f][1] = "over"
      /\ \A g \in C!Frame \ {f} : call'[g] = call[g]
  BY DEF C!EnqueueData, C!Refuse, C!At, C!swap, C!Returns, ConnInv, ConnTypes
<1>2. f \notin In(1) \cup In(2) \cup InMove \cup owed
  BY <1>1 DEF ConnInv, SentOnce
<1>3. In(1)' = In(1) /\ In(2)' = In(2) /\ InMove' = InMove /\ \A d \in C!Conn : In(d)' = In(d)
  BY <1>1 DEF In, InMove
<1>4. SentOnce'
  <2>1. \A g \in In(1) \cup In(2) \cup InMove \cup owed : call'[g] = call[g]
    BY <1>1, <1>2, Holds DEF ConnInv, ConnTypes
  <2> QED
    BY <1>1, <1>3, <2>1 DEF ConnInv, SentOnce
<1>5. Overtaking'
  BY <1>1, <1>3, Holds DEF ConnInv, ConnTypes, Overtaking
<1>6. Writing' /\ Kept'
  BY <1>1, <1>3 DEF ConnInv, Writing, Kept, Swapping, Somewhere
<1> QED
  BY <1>4, <1>5, <1>6

LEMMA TakeCtrlKeeps ==
  ASSUME ConnInv, NEW c \in C!Conn, C!WriteLoop(c), C!TakeCtrl(c), writer[c] \in {"top", "select"}
  PROVE  SentOnce' /\ Writing' /\ Overtaking' /\ Kept'
<1> DEFINE h == Head(ctrl[c])
<1>1. /\ UNCHANGED <<current, done, call, mover, moving, refused, stage, owed, breaks>>
      /\ hand' = [hand EXCEPT ![c] = {h}]
      /\ writer' = [writer EXCEPT ![c] = "write"]
      /\ ctrl' = [ctrl EXCEPT ![c] = Tail(@)]
      /\ overtook' = [overtook EXCEPT ![h] = 0] /\ ctrl[c] # <<>>
  BY DEF C!WriteLoop, C!TakeCtrl, C!Dequeue, C!Step, C!swap
<1>2. ctrl[c] \in Seq(Ctrl)
  BY DEF ConnInv, ConnTypes, Queues
<1>3. /\ h \in Ctrl /\ In(c) = {h} \cup In(c)' /\ InMove' = InMove
      /\ \A d \in C!Conn \ {c} : In(d)' = In(d)
  BY <1>1, <1>2, QueueOps DEF In, InMove, ConnInv, ConnTypes
<1> HIDE DEF h
<1>4. In(1)' \subseteq In(1) /\ In(2)' \subseteq In(2) /\ \A d \in C!Conn : In(d)' \subseteq In(d)
  BY <1>3 DEF C!Conn
<1>5. SentOnce'
  BY <1>1, <1>3, <1>4 DEF ConnInv, SentOnce
<1>6. Overtaking'
  BY <1>1, <1>4 DEF ConnInv, ConnTypes, Overtaking
<1>7. Writing'
  BY <1>1 DEF ConnInv, ConnTypes, Writing, C!Conn
<1>8. hand[c] = {} /\ hand'[c] = {h} /\ \A d \in C!Conn \ {c} : hand'[d] = hand[d]
  BY <1>1 DEF ConnInv, ConnTypes, Writing
<1>9. c = 1 \/ c = 2
  BY DEF C!Conn
<1>10. Somewhere \subseteq Somewhere'
  BY <1>1, <1>3, <1>8, <1>9 DEF Somewhere, C!Conn
<1>11. writer'[1] # "exited" <=> writer[1] # "exited"
  BY <1>1 DEF ConnInv, ConnTypes, C!Conn
<1>12. (writer'[2] # "none" <=> writer[2] # "none")
  BY <1>1 DEF ConnInv, ConnTypes, C!Conn
<1>13. Kept'
  BY <1>1, <1>4, <1>10, <1>11, <1>12 DEF ConnInv, Kept, Swapping
<1> QED
  BY <1>5, <1>6, <1>7, <1>13

LEMMA TakeDataKeeps ==
  ASSUME ConnInv, NEW c \in C!Conn, C!WriteLoop(c), C!TakeData(c), writer[c] = "select"
  PROVE  SentOnce' /\ Writing' /\ Overtaking' /\ Kept'
<1> DEFINE h == Head(data[c])
<1>1. /\ UNCHANGED <<current, ctrl, done, call, mover, moving, refused, stage, owed, breaks>>
      /\ hand' = [hand EXCEPT ![c] = {h}]
      /\ writer' = [writer EXCEPT ![c] = "write"]
      /\ overtook' = [f \in Ctrl |-> overtook[f] + IF C!Contains(ctrl[c], f) THEN 1 ELSE 0]
  BY DEF C!WriteLoop, C!TakeData, C!Dequeue, C!Step, C!swap
<1>2. In(1)' = In(1) /\ In(2)' = In(2) /\ InMove' = InMove /\ \A d \in C!Conn : In(d)' = In(d)
  BY <1>1 DEF In, InMove
<1>3. \A f \in Ctrl : C!Contains(ctrl[c], f) <=> f \in In(c)
  <2>1. DOMAIN ctrl[c] = 1..Len(ctrl[c])
    BY DEF ConnInv, ConnTypes, Queues
  <2> QED
    BY <2>1 DEF C!Contains, In, C!Range
<1> HIDE DEF h
<1>4. SentOnce'
  BY <1>1, <1>2 DEF ConnInv, SentOnce
<1>5. \A f \in Ctrl : overtook'[f] = overtook[f] + IF f \in In(c) THEN 1 ELSE 0
  BY <1>1, <1>3
<1>6. \A f \in In(c) : overtook[f] = 0 /\ call[f][1] = "over"
  BY DEF ConnInv, Overtaking, SentOnce, C!Conn
<1>7. Overtaking'
  <2>1. \A f \in Ctrl : overtook'[f] <= 1 /\ (call'[f][1] # "over" => overtook'[f] = 0)
    BY <1>1, <1>5, <1>6 DEF ConnInv, ConnTypes, Overtaking
  <2>2. ASSUME NEW d \in C!Conn, writer'[d] = "select", NEW f \in In(d)
        PROVE  overtook'[f] = 0
    <3>1. d # c /\ writer[d] = "select"
      BY <1>1, <2>2 DEF ConnInv, ConnTypes
    <3>2. f \notin In(c)
      BY <3>1 DEF ConnInv, SentOnce, C!Conn
    <3>3. overtook[f] = 0 /\ f \in Ctrl
      BY <3>1, Holds DEF ConnInv, Overtaking
    <3> QED
      BY <1>5, <3>2, <3>3
  <2> QED
    BY <1>2, <2>1, <2>2 DEF Overtaking
<1>8. Writing'
  BY <1>1 DEF ConnInv, ConnTypes, Writing, C!Conn
<1>9. hand[c] = {} /\ \A d \in C!Conn \ {c} : hand'[d] = hand[d]
  BY <1>1 DEF ConnInv, ConnTypes, Writing
<1>10. Somewhere \subseteq Somewhere'
  BY <1>1, <1>2, <1>9 DEF Somewhere, C!Conn
<1>11. writer'[1] # "exited" <=> writer[1] # "exited"
  BY <1>1 DEF ConnInv, ConnTypes, C!Conn
<1>12. (writer'[2] # "none" <=> writer[2] # "none")
  BY <1>1 DEF ConnInv, ConnTypes, C!Conn
<1>13. Kept'
  BY <1>1, <1>2, <1>10, <1>11, <1>12 DEF ConnInv, Kept, Swapping
<1> QED
  BY <1>4, <1>7, <1>8, <1>13

\* The writer looks on, or ends.
LEMMA TurnsKeeps ==
  ASSUME ConnInv, NEW c \in C!Conn, C!WriteLoop(c), C!Nothing,
         \/ writer[c] = "top" /\ ctrl[c] = <<>> /\ C!Step(c, "select")
         \/ writer[c] \in {"top", "select"} /\ c \in done /\ C!Step(c, "exited")
  PROVE  SentOnce' /\ Writing' /\ Overtaking' /\ Kept'
<1>1. UNCHANGED <<current, ctrl, data, hand, overtook, done, call, mover, moving, refused, stage,
                 owed, breaks>>
  BY DEF C!WriteLoop, C!Nothing, C!swap
<1>2. In(1)' = In(1) /\ In(2)' = In(2) /\ InMove' = InMove /\ \A d \in C!Conn : In(d)' = In(d)
  BY <1>1 DEF In, InMove
<1>3. \/ ctrl[c] = <<>> /\ writer' = [writer EXCEPT ![c] = "select"]
      \/ c \in done /\ writer' = [writer EXCEPT ![c] = "exited"]
  BY DEF C!Step
<1>4. ctrl[c] = <<>> => In(c) = {}
  <2>1. ctrl[c] = <<>> => DOMAIN ctrl[c] = {}
    OBVIOUS
  <2> QED
    BY <2>1 DEF In, C!Range
<1>5. SentOnce' /\ Writing'
  <2>1. SentOnce'
    BY <1>1, <1>2 DEF ConnInv, SentOnce
  <2>2. Writing'
    BY <1>1, <1>3 DEF ConnInv, ConnTypes, Writing, C!Conn
  <2> QED
    BY <2>1, <2>2
<1>6. Overtaking'
  BY <1>1, <1>2, <1>3, <1>4 DEF ConnInv, ConnTypes, Overtaking
<1>7. writer[1] = "exited" => writer'[1] = "exited" /\ c # 1
  BY <1>1, <1>3 DEF ConnInv, ConnTypes, C!Conn
<1>8. writer'[2] # "none" <=> writer[2] # "none"
  BY <1>3 DEF ConnInv, ConnTypes, C!Conn
<1>9. Somewhere' = Somewhere
  BY <1>1, <1>2 DEF Somewhere
<1>10. Kept'
  BY <1>1, <1>2, <1>7, <1>8, <1>9 DEF ConnInv, Kept, Swapping
<1> QED
  BY <1>5, <1>6, <1>10

LEMMA WriteKeeps ==
  ASSUME ConnInv, NEW c \in C!Conn, C!Write(c)
  PROVE  SentOnce' /\ Writing' /\ Overtaking' /\ Kept'
<1>1. /\ UNCHANGED <<current, ctrl, done, call, mover, moving, refused, stage, overtook, breaks>>
      /\ writer[c] = "write" /\ writer' = [writer EXCEPT ![c] = "top"]
      /\ hand' = [hand EXCEPT ![c] = {}] /\ owed' = owed \ hand[c]
  BY DEF C!Write, C!Step, C!swap
<1>2. In(1)' = In(1) /\ In(2)' = In(2) /\ InMove' = InMove /\ \A d \in C!Conn : In(d)' = In(d)
  BY <1>1 DEF In, InMove
<1>3. SentOnce'
  BY <1>1, <1>2 DEF ConnInv, SentOnce
<1>4. Writing' /\ Overtaking'
  <2>1. Writing'
    BY <1>1, <1>2 DEF ConnInv, ConnTypes, Writing, C!Conn
  <2>2. Overtaking'
    BY <1>1, <1>2 DEF ConnInv, ConnTypes, Overtaking
  <2> QED
    BY <2>1, <2>2
<1>5. \A d \in C!Conn : hand'[d] = IF d = c THEN {} ELSE hand[d]
  BY <1>1 DEF ConnInv, ConnTypes
<1>6. Somewhere \ hand[c] \subseteq Somewhere'
  BY <1>1, <1>2, <1>5 DEF Somewhere, C!Conn
<1>7. writer[1] = "exited" <=> writer'[1] = "exited"
  BY <1>1 DEF ConnInv, ConnTypes, C!Conn
<1>8. writer[2] = "none" => writer'[2] = "none"
  BY <1>1 DEF ConnInv, ConnTypes, C!Conn
<1>9. Kept'
  BY <1>1, <1>2, <1>6, <1>7, <1>8 DEF ConnInv, Kept, Swapping
<1> QED
  BY <1>3, <1>4, <1>9

LEMMA WriteFailsKeeps ==
  ASSUME ConnInv, NEW c \in C!Conn, C!WriteFails(c)
  PROVE  SentOnce' /\ Writing' /\ Overtaking' /\ Kept'
<1>1. /\ UNCHANGED <<current, ctrl, call, mover, moving, refused, stage, overtook, owed>>
      /\ writer[c] = "write" /\ writer' = [writer EXCEPT ![c] = "exited"]
      /\ hand' = [hand EXCEPT ![c] = {}] /\ done' = done \cup {c}
      /\ (c \in done /\ breaks' = breaks) \/ breaks' = breaks + 1
  BY DEF C!WriteFails, C!Fault, C!Step, C!swap
<1>2. In(1)' = In(1) /\ In(2)' = In(2) /\ InMove' = InMove /\ \A d \in C!Conn : In(d)' = In(d)
  BY <1>1 DEF In, InMove
<1>3. SentOnce'
  BY <1>1, <1>2 DEF ConnInv, SentOnce
<1>4. Writing' /\ Overtaking'
  <2>1. Writing'
    BY <1>1, <1>2 DEF ConnInv, ConnTypes, Writing, C!Conn
  <2>2. Overtaking'
    BY <1>1, <1>2 DEF ConnInv, ConnTypes, Overtaking
  <2> QED
    BY <2>1, <2>2
<1>5. ASSUME breaks' = 0, 2 \notin done'
      PROVE  Swapping' /\ \E f : owed' \ Somewhere' \subseteq {f}
  <2>1. c = 1 /\ 1 \in done /\ breaks = 0 /\ done' = done /\ 2 \notin done
    BY <1>1, <1>5 DEF C!Conn, ConnInv, ConnTypes
  <2>2. Swapping /\ owed \subseteq Somewhere
    BY <1>1, <2>1 DEF ConnInv, Kept
  <2>3. mover # "send"
    BY <1>1, <2>1, <2>2 DEF Swapping
  <2>4. writer'[2] = writer[2] /\ hand'[2] = hand[2] /\ hand'[1] = {}
    BY <1>1, <2>1 DEF ConnInv, ConnTypes, C!Conn
  <2>5. Swapping'
    BY <1>1, <2>1, <2>2, <2>3, <2>4 DEF Swapping
  <2>6. owed' \ Somewhere' \subseteq hand[1]
    BY <1>1, <1>2, <2>2, <2>4 DEF Somewhere
  <2>7. PICK f : hand[1] \subseteq {f}
    BY DEF ConnInv, Writing, C!Conn
  <2> QED
    BY <2>5, <2>6, <2>7
<1>6. ASSUME breaks' = 0, 2 \notin done', writer'[1] # "exited"
      PROVE  FALSE
  BY <1>1, <1>6 DEF ConnInv, ConnTypes, C!Conn
<1> QED
  BY <1>3, <1>4, <1>5, <1>6 DEF Kept

LEMMA LinkEndsKeeps ==
  ASSUME ConnInv, (\E c \in C!Conn : C!ReadFails(c)) \/ C!Watch \/ C!Shutdown \/ C!PoolClose
  PROVE  SentOnce' /\ Writing' /\ Overtaking' /\ Kept'
<1>1. /\ UNCHANGED <<ctrl, writer, hand, call, mover, moving, refused, overtook, owed>>
      /\ done \subseteq done'
  BY DEF C!ReadFails, C!Watch, C!Shutdown, C!PoolClose, C!swap
<1>2. In(1)' = In(1) /\ In(2)' = In(2) /\ InMove' = InMove /\ \A d \in C!Conn : In(d)' = In(d)
  BY <1>1 DEF In, InMove
<1>3. SentOnce'
  BY <1>1, <1>2 DEF ConnInv, SentOnce
<1>4. Writing' /\ Overtaking'
  <2>1. Writing'
    BY <1>1, <1>2 DEF ConnInv, ConnTypes, Writing, C!Conn
  <2>2. Overtaking'
    BY <1>1, <1>2 DEF ConnInv, ConnTypes, Overtaking
  <2> QED
    BY <2>1, <2>2
<1>5. Somewhere' = Somewhere
  BY <1>1, <1>2 DEF Somewhere
<1>6. ASSUME breaks' = 0, 2 \notin done'
      PROVE  breaks = 0 /\ 2 \notin done /\ Swapping'
  <2>1. breaks = 0 /\ 2 \notin done
    BY <1>1, <1>6 DEF C!ReadFails, C!Watch, C!Shutdown, C!PoolClose, C!Fault, ConnInv, ConnTypes
  <2>2. Swapping
    BY <2>1 DEF ConnInv, Kept
  <2>3. CASE \E c \in C!Conn : C!ReadFails(c)
    BY <2>1, <2>3, <1>6 DEF C!ReadFails, C!Fault, ConnInv, ConnTypes
  <2>4. CASE C!Watch
    BY <1>1, <1>2, <2>1, <2>2, <2>4 DEF C!Watch, Swapping
  <2>5. CASE C!Shutdown
    BY <1>1, <1>2, <2>1, <2>2, <2>5 DEF C!Shutdown, Swapping
  <2>6. CASE C!PoolClose
    BY <1>1, <1>2, <1>6, <2>1, <2>2, <2>6 DEF C!PoolClose, C!Registered, C!NoConn, Swapping
  <2> QED
    BY <2>1, <2>3, <2>4, <2>5, <2>6
<1>7. Kept'
  BY <1>1, <1>5, <1>6 DEF ConnInv, Kept
<1> QED
  BY <1>3, <1>4, <1>7

LEMMA RegisterKeeps ==
  ASSUME ConnInv, C!Register
  PROVE  SentOnce' /\ Writing' /\ Overtaking' /\ Kept'
<1>1. /\ UNCHANGED <<ctrl, data, done, hand, call, moving, refused, stage, owed, overtook, breaks>>
      /\ writer[2] = "none" /\ stage # "closed" /\ current' = 2
      /\ writer' = [writer EXCEPT ![2] = "top"]
      /\ mover' = IF current = 1 THEN "close" ELSE "send"
  BY DEF C!Register
<1>2. In(1)' = In(1) /\ In(2)' = In(2) /\ InMove' = InMove /\ \A d \in C!Conn : In(d)' = In(d)
  BY <1>1 DEF In, InMove
<1>3. mover = "idle"
  BY <1>1 DEF ConnInv, Writing
<1>4. SentOnce'
  BY <1>1, <1>2, <1>3 DEF ConnInv, SentOnce
<1>5. Writing' /\ Overtaking'
  <2>1. Writing'
    BY <1>1, <1>2 DEF ConnInv, ConnTypes, Writing, C!Conn
  <2>2. Overtaking'
    BY <1>1, <1>2 DEF ConnInv, ConnTypes, Overtaking
  <2> QED
    BY <2>1, <2>2
<1>6. Somewhere' = Somewhere
  BY <1>1, <1>2 DEF Somewhere
<1>7. writer'[1] = writer[1] /\ writer'[2] = "top"
  BY <1>1 DEF ConnInv, ConnTypes, C!Conn
<1>8. Kept'
  BY <1>1, <1>3, <1>6, <1>7 DEF ConnInv, Kept, Swapping
<1> QED
  BY <1>4, <1>5, <1>8

LEMMA ReplaceKeeps ==
  ASSUME ConnInv, C!Replace
  PROVE  SentOnce' /\ Writing' /\ Overtaking' /\ Kept'
<1>1. UNCHANGED <<current, writer, hand, call, refused, stage, owed, overtook, breaks>>
  BY DEF C!Replace
<1>2. CASE C!CloseAndWait
  <2>1. /\ mover = "close" /\ mover' = "drain" /\ done' = done \cup {1}
        /\ UNCHANGED <<ctrl, moving>>
    BY <1>2 DEF C!CloseAndWait
  <2>2. In(1)' = In(1) /\ In(2)' = In(2) /\ InMove' = InMove /\ \A d \in C!Conn : In(d)' = In(d)
    BY <2>1 DEF In, InMove
  <2>3. SentOnce' /\ Writing' /\ Overtaking'
    BY <1>1, <2>1, <2>2 DEF ConnInv, SentOnce, Writing, Overtaking
  <2>4. Kept'
    BY <1>1, <2>1, <2>2 DEF ConnInv, Kept, Swapping, Somewhere
  <2> QED
    BY <2>3, <2>4
<1>3. CASE C!Drain
  <2>1. /\ mover = "drain" /\ mover' = "send" /\ writer[1] = "exited"
        /\ moving' = ctrl[1] /\ ctrl' = [ctrl EXCEPT ![1] = <<>>]
        /\ UNCHANGED done
    BY <1>3 DEF C!Drain, C!Unsent, C!Emptied
  <2>2. DOMAIN <<>> = {} /\ ctrl'[1] = <<>> /\ \A d \in C!Conn \ {1} : ctrl'[d] = ctrl[d]
    BY <2>1 DEF ConnInv, ConnTypes, C!Conn
  <2>3. /\ In(1)' = {} /\ In(2)' = In(2) /\ InMove' = In(1) /\ InMove = {}
        /\ \A d \in C!Conn : In(d)' = IF d = 1 THEN {} ELSE In(d)
    BY <2>1, <2>2 DEF In, InMove, C!Range, C!Conn, ConnInv, SentOnce
  <2>4. SentOnce'
    BY <1>1, <2>1, <2>3 DEF ConnInv, SentOnce
  <2>5. Writing' /\ Overtaking'
    BY <1>1, <2>1, <2>3 DEF ConnInv, Writing, Overtaking
  <2>6. Somewhere' = Somewhere
    BY <1>1, <2>3 DEF Somewhere
  <2>7. Kept'
    BY <1>1, <2>1, <2>3, <2>6 DEF ConnInv, Kept, Swapping
  <2> QED
    BY <2>4, <2>5, <2>7
<1> QED
  BY <1>2, <1>3 DEF C!Replace, C!CloseThenDrain

LEMMA MoveKeeps ==
  ASSUME ConnInv, C!Move
  PROVE  SentOnce' /\ Writing' /\ Overtaking' /\ Kept'
<1> DEFINE h == Head(moving)
<1>1. /\ UNCHANGED <<current, data, done, writer, hand, call, mover, stage, owed, breaks>>
      /\ mover = "send" /\ moving # <<>> /\ moving' = Tail(moving)
  BY DEF C!Move
<1>2. h \in Ctrl /\ InMove = {h} \cup InMove'
  BY <1>1, QueueOps DEF InMove, ConnInv, ConnTypes
<1>3. \/ /\ ctrl' = [ctrl EXCEPT ![2] = Append(@, h)]
         /\ overtook' = [overtook EXCEPT ![h] = 0] /\ UNCHANGED refused
      \/ refused' = refused \cup {h} /\ UNCHANGED <<ctrl, overtook>>
  BY DEF C!Move
<1>4. \A q \in Seq(Ctrl) : C!Range(Append(q, h)) = C!Range(q) \cup {h}
  BY <1>2, QueueOps
<1> HIDE DEF h
<1>5. \/ /\ In(1)' = In(1) /\ In(2)' = In(2) \cup {h}
         /\ \A d \in C!Conn : In(d)' = IF d = 2 THEN In(2) \cup {h} ELSE In(d)
         /\ overtook' = [overtook EXCEPT ![h] = 0] /\ UNCHANGED refused
      \/ /\ In(1)' = In(1) /\ In(2)' = In(2) /\ \A d \in C!Conn : In(d)' = In(d)
         /\ refused' = refused \cup {h} /\ UNCHANGED overtook
  <2>1. ctrl \in [{1, 2} -> Seq(Ctrl)]
    BY DEF ConnInv, ConnTypes, C!Conn, Queues
  <2>2. CASE /\ ctrl' = [ctrl EXCEPT ![2] = Append(@, h)]
             /\ overtook' = [overtook EXCEPT ![h] = 0] /\ UNCHANGED refused
    <3>1. ctrl'[1] = ctrl[1] /\ ctrl'[2] = Append(ctrl[2], h) /\ ctrl[2] \in Seq(Ctrl)
      BY <2>1, <2>2
    <3>2. In(1)' = In(1) /\ In(2)' = In(2) \cup {h}
      BY <1>4, <3>1 DEF In
    <3>3. \A d \in C!Conn : In(d)' = IF d = 2 THEN In(2) \cup {h} ELSE In(d)
      <4> SUFFICES ASSUME NEW d \in C!Conn
                   PROVE  In(d)' = IF d = 2 THEN In(2) \cup {h} ELSE In(d)
        OBVIOUS
      <4>1. CASE d = 1
        BY <3>2, <4>1
      <4>2. CASE d = 2
        BY <3>2, <4>2
      <4> QED
        BY <4>1, <4>2 DEF C!Conn
    <3> QED
      BY <2>2, <3>2, <3>3
  <2>3. CASE refused' = refused \cup {h} /\ UNCHANGED <<ctrl, overtook>>
    <3>1. In(1)' = In(1) /\ In(2)' = In(2) /\ \A d \in C!Conn : In(d)' = In(d)
      BY <2>3 DEF In
    <3> QED
      BY <2>3, <3>1
  <2> QED
    BY <1>3, <2>2, <2>3
<1>6. SentOnce'
  BY <1>1, <1>2, <1>5 DEF ConnInv, SentOnce
<1>7. Writing'
  BY <1>1 DEF ConnInv, Writing
<1>8. Overtaking'
  <2>1. CASE UNCHANGED overtook /\ \A d \in C!Conn : In(d)' = In(d)
    BY <1>1, <2>1 DEF ConnInv, Overtaking
  <2>2. CASE /\ overtook' = [overtook EXCEPT ![h] = 0]
             /\ \A d \in C!Conn : In(d)' \subseteq In(d) \cup {h}
    <3>1. \A f \in Ctrl : overtook'[f] = IF f = h THEN 0 ELSE overtook[f]
      BY <2>2 DEF ConnInv, ConnTypes
    <3> QED
      BY <1>1, <1>2, <2>2, <3>1, Holds DEF ConnInv, Overtaking
  <2> QED
    BY <1>5, <2>1, <2>2
<1>9. Somewhere' = Somewhere
  BY <1>1, <1>2, <1>5 DEF Somewhere
<1>10. Kept'
  BY <1>1, <1>5, <1>9 DEF ConnInv, Kept, Swapping
<1> QED
  BY <1>6, <1>7, <1>8, <1>10

LEMMA IdleKeeps ==
  ASSUME ConnInv, UNCHANGED C!vars
  PROVE  SentOnce' /\ Writing' /\ Overtaking' /\ Kept'
<1>1. UNCHANGED <<current, ctrl, data, done, writer, hand, call, mover, moving, refused, stage,
                 owed, overtook, breaks>>
  BY DEF C!vars, C!swap
<1>2. In(1)' = In(1) /\ In(2)' = In(2) /\ InMove' = InMove /\ \A d \in C!Conn : In(d)' = In(d)
  BY <1>1 DEF In, InMove
<1> QED
  BY <1>1, <1>2 DEF ConnInv, SentOnce, Writing, Overtaking, Kept, Swapping, Somewhere

LEMMA InitConn ==
  ASSUME NetworkAssumption
  PROVE  C!Init => ConnInv
<1> SUFFICES ASSUME C!Init
             PROVE  ConnInv
  OBVIOUS
<1>1. Depth \in Nat \ {0} /\ MaxBreaks \in Nat
  BY DEF NetworkAssumption, C!ConnectionAssumption
<1>2. DOMAIN <<>> = {} /\ Len(<<>>) = 0 /\ <<>> \in Seq(Ctrl) /\ <<>> \in Seq(Data)
  OBVIOUS
<1>3. In(1) = {} /\ In(2) = {} /\ InMove = {} /\ \A d \in C!Conn : In(d) = {}
  BY <1>2 DEF C!Init, In, InMove, C!Conn, C!Range
<1>4. ConnTypes
  BY <1>1, <1>2 DEF C!Init, ConnTypes, Queues, C!NoConn, C!Conn
<1>5. SentOnce /\ Overtaking
  BY <1>3 DEF C!Init, SentOnce, Overtaking, C!Frame
<1>6. Writing /\ Kept
  BY <1>3 DEF C!Init, Writing, Kept, Swapping, Somewhere, C!Conn
<1> QED
  BY <1>4, <1>5, <1>6 DEF ConnInv

LEMMA NextConn ==
  ASSUME NetworkAssumption
  PROVE  ConnInv /\ [C!Next]_C!vars => ConnInv'
<1> SUFFICES ASSUME ConnInv, [C!Next]_C!vars
             PROVE  ConnInv'
  OBVIOUS
<1> DEFINE StepKept == SentOnce' /\ Writing' /\ Overtaking' /\ Kept'
<1>1. CASE UNCHANGED C!vars
  BY <1>1, IdleKeeps, TypesKept DEF ConnInv
<1>2. ASSUME NEW f \in C!Frame, C!Send(f)
      PROVE  StepKept
  BY <1>2, SendKeeps
<1>3. ASSUME NEW f \in C!Frame, NEW c \in C!Conn,
             C!EnqueueCtrl(f, c) \/ C!EnqueueData(f, c) \/ C!Refuse(f, c)
      PROVE  StepKept
  BY <1>3, EnqueueCtrlKeeps, NotQueuedKeeps
<1>4. ASSUME NEW c \in C!Conn, C!WriteLoop(c)
      PROVE  StepKept
  BY <1>4, TakeCtrlKeeps, TakeDataKeeps, TurnsKeeps DEF C!WriteLoop, C!Choose
<1>5. ASSUME NEW c \in C!Conn, C!Write(c) \/ C!WriteFails(c) \/ C!ReadFails(c)
      PROVE  StepKept
  BY <1>5, WriteKeeps, WriteFailsKeeps, LinkEndsKeeps
<1>6. CASE C!Watch \/ C!Shutdown \/ C!PoolClose
  BY <1>6, LinkEndsKeeps, TypesKept DEF ConnInv, C!Next
<1>7. CASE C!Register \/ C!Replace \/ C!Move
  BY <1>7, RegisterKeeps, ReplaceKeeps, MoveKeeps, TypesKept DEF ConnInv, C!Next
<1>8. CASE C!Next
  <2>1. ConnTypes'
    BY TypesKept DEF ConnInv
  <2>2. StepKept \/ ConnInv'
    BY <1>2, <1>3, <1>4, <1>5, <1>6, <1>7, <1>8 DEF C!Next
  <2> QED
    BY <2>1, <2>2 DEF ConnInv
<1> QED
  BY <1>1, <1>8

\* What the invariant says of the frames is what the run checks.
LEMMA ConnSound == ConnInv => FramesKept
<1> SUFFICES ASSUME ConnInv
             PROVE  FramesKept
  OBVIOUS
<1>1. C!TypeOK
  BY DEF ConnInv, ConnTypes, Queues, C!TypeOK, C!NoConn, C!Conn
<1>2. C!NeverStuckBehindData
  BY DEF ConnInv, Overtaking, C!NeverStuckBehindData
<1>3. C!SwapKeepsFrames
  <2> DEFINE rest == owed \ (C!With(2) \cup C!Range(moving) \cup refused)
  <2> SUFFICES ASSUME C!Swapped, done = {1}, breaks = 0
               PROVE  C!Cardinality(rest) <= 1
    BY DEF C!SwapKeepsFrames
  <2>1. /\ Swapping /\ mover = "send" /\ \E f : owed \ Somewhere \subseteq {f}
    BY DEF ConnInv, Kept, C!Swapped
  <2>2. hand[1] = {} /\ In(1) \cap owed = {}
    BY <2>1 DEF Swapping, ConnInv, Writing, C!Conn
  <2>3. rest = owed \ Somewhere
    BY <2>2 DEF Somewhere, In, InMove, C!With
  <2>4. PICK f : rest \subseteq {f}
    BY <2>1, <2>3
  <2>5. rest = {} \/ rest = {f}
    BY <2>4
  <2>6. Cardinality({}) = 0 /\ Cardinality({f}) = 1
    BY FS_EmptySet, FS_Singleton
  <2>7. \A S : C!Cardinality(S) = Cardinality(S)
    BY DEF C!Cardinality, Cardinality
  <2> HIDE DEF rest
  <2> QED
    BY <2>5, <2>6, <2>7
<1> QED
  BY <1>1, <1>2, <1>3 DEF FramesKept

\* However senders, both writers, the swap and the shutdown interleave: a control frame
\* waits for one data frame at most, and of the frames accepted before the swap all but
\* the one that the old writer had taken are with the winner (conn.go writeLoop,
\* drainUnsent, registry.go register).
THEOREM FramesAreKept == MCSpec => []FramesKept
<1>1. MCInit => ConnInv
  BY NetworkAssumption, InitConn DEF MCInit
<1>2. ConnInv /\ [MCNext]_<<which, vars, connection>> => ConnInv'
  <2>1. UNCHANGED connection => UNCHANGED C!vars
    BY DEF connection, C!vars, C!swap
  <2>2. [MCNext]_<<which, vars, connection>> => [C!Next]_C!vars
    BY <2>1 DEF MCNext
  <2> QED
    BY <2>2, NetworkAssumption, NextConn
<1> QED
  BY <1>1, <1>2, ConnSound, PTL DEF MCSpec
==============================================================================
