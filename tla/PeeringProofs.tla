---------------------------- MODULE PeeringProofs ----------------------------
(***************************************************************************)
(* Proofs about Peering, for any peers, addresses, bucket size and number  *)
(* of requests.                                                            *)
(***************************************************************************)
EXTENDS Peering, FiniteSetTheorems, TLAPS

-----------------------------------------------------------------------------
(* Buckets.                                                                *)

\* A part of a bucket is no larger than the bucket.
LEMMA FewerMates ==
  ASSUME NEW b \in SUBSET Others, NEW c \in SUBSET b, NEW q \in Others,
         Cardinality(Mates(b, q)) <= Limit
  PROVE  Cardinality(Mates(c, q)) <= Limit
<1>1. /\ IsFiniteSet(Mates(b, q))
      /\ Mates(c, q) \subseteq Mates(b, q)
  BY FS_Subset, PeeringAssumption DEF Mates
<1>2. /\ Cardinality(Mates(b, q)) \in Nat /\ Cardinality(Mates(c, q)) \in Nat
      /\ Cardinality(Mates(c, q)) <= Cardinality(Mates(b, q))
  BY <1>1, FS_Subset, FS_CardinalityType
<1> QED  BY <1>2, PeeringAssumption

\* put_to_bucket keeps every bucket at its size.
LEMMA PutBounded ==
  ASSUME NEW b \in SUBSET Others, NEW q \in Others,
         \A r \in Others : Cardinality(Mates(b, r)) <= Limit,
         NEW r \in Others
  PROVE  Cardinality(Mates(Put(b, q), r)) <= Limit
<1>1. CASE Cardinality(Mates(b \cup {q}, q)) > Limit
  <2>1. Put(b, q) = b \ {q} /\ b \ {q} \in SUBSET b
    BY <1>1 DEF Put
  <2> QED  BY <2>1, FewerMates
<1>2. CASE ~(Cardinality(Mates(b \cup {q}, q)) > Limit)
  <2>1. Put(b, q) = b \cup {q}
    BY <1>2 DEF Put
  <2>2. CASE Order[r] = Order[q]
    <3>1. Mates(b \cup {q}, r) = Mates(b \cup {q}, q)
      BY <2>2 DEF Mates
    <3>2. Cardinality(Mates(b \cup {q}, q)) \in Nat
      <4>1. IsFiniteSet(Mates(b \cup {q}, q))
        BY FS_Subset, PeeringAssumption DEF Mates
      <4> QED  BY <4>1, FS_CardinalityType
    <3> QED  BY <2>1, <3>1, <3>2, <1>2, PeeringAssumption
  <2>3. CASE Order[r] # Order[q]
    <3>1. Mates(b \cup {q}, r) = Mates(b, r)
      BY <2>3 DEF Mates
    <3> QED  BY <2>1, <3>1
  <2> QED  BY <2>2, <2>3
<1> QED  BY <1>1, <1>2

-----------------------------------------------------------------------------
(* Requests.                                                               *)

\* check_peers leaves the requests that are open, and makes one for each peer
\* it asks.
LEMMA PingStarts ==
  ASSUME NEW qs \in SUBSET Others, Ping(qs),
         \A i \in Slots : pings[i] \in Request \cup {Free},
         \A q \in qs : store[q] \in Addrs
  PROVE  /\ pings' \in [Slots -> Request \cup {Free}]
         /\ \A i \in Slots : pings[i] # Free => pings'[i] = pings[i]
         /\ \A q \in qs : \E i \in Slots :
              pings'[i] = Started(q, store[q])
<1> DEFINE free  == {i \in Slots : pings[i] = Free}
           slots == {f \in [qs -> free] : IsInjective(f)}
           slot  == CHOOSE f \in slots : TRUE
           of(i) == CHOOSE q \in qs : slot[q] = i
           mine(i) == \E q \in qs : slot[q] = i
<1>1. /\ slots # {}
      /\ pings' = [i \in Slots |-> IF mine(i) THEN Started(of(i), store[of(i)])
                                  ELSE pings[i]]
  BY DEF Ping
<1>2. slot \in slots
  BY <1>1
<1> HIDE DEF slot
<1>3. slot \in [qs -> free] /\ IsInjective(slot)
  BY <1>2
<1>4. ASSUME NEW i \in Slots, mine(i)
      PROVE  of(i) \in qs /\ slot[of(i)] = i
  BY <1>4
<1>5. \A q \in qs : of(slot[q]) = q
  <2> TAKE q \in qs
  <2>1. slot[q] \in Slots /\ mine(slot[q])
    BY <1>3
  <2>2. of(slot[q]) \in qs /\ slot[of(slot[q])] = slot[q]
    BY <1>4, <2>1
  <2> HIDE DEF of
  <2> QED  BY <1>3, <2>2 DEF IsInjective
<1> HIDE DEF of
<1>6. \A q \in qs : slot[q] \in Slots /\ pings'[slot[q]] = Started(q, store[q])
  <2> TAKE q \in qs
  <2>1. slot[q] \in Slots /\ mine(slot[q])
    BY <1>3
  <2> HIDE DEF mine
  <2>2. pings'[slot[q]] = Started(of(slot[q]), store[of(slot[q])])
    BY <1>1, <2>1
  <2> QED  BY <1>5, <2>1, <2>2
<1>7. ASSUME NEW i \in Slots
      PROVE  pings'[i] \in Request \cup {Free} /\ (pings[i] # Free => pings'[i] = pings[i])
  <2>1. CASE mine(i)
    <3>1. PICK q \in qs : slot[q] = i
      BY <2>1
    <3>2. pings'[i] = Started(q, store[q])
      BY <1>6, <3>1
    <3>3. pings[i] = Free
      BY <1>3, <3>1
    <3> QED  BY <3>2, <3>3 DEF Started, Request
  <2>2. CASE ~mine(i)
    <3> HIDE DEF mine
    <3> QED  BY <1>1, <2>2
  <2> QED  BY <2>1, <2>2
<1>8. pings' = [i \in Slots |-> pings'[i]]
  <2> HIDE DEF mine
  <2> QED  BY <1>1
<1> QED  BY <1>6, <1>7, <1>8

-----------------------------------------------------------------------------
(* The invariant.                                                          *)

PInv == TypeOK /\ BucketAnswered /\ NotForgotten

LEMMA InitHolds == Init => PInv
<1> SUFFICES ASSUME Init PROVE PInv
  OBVIOUS
<1> USE PeeringAssumption
<1>1. store \in [Others -> Addrs \cup {NoAddr}]
  BY DEF Init
<1>2. \A q \in bucket : q \in Others /\ store[q] \in Addrs
  BY <1>1 DEF Init
<1>3. BucketAnswered
  BY <1>2 DEF Init, BucketAnswered
<1>4. met \subseteq Others \X Addrs
  BY <1>2 DEF Init
<1>5. TypeOK
  <2>1. pings \in [Slots -> Request \cup {Free}] /\ troubles \in 0..MaxTroubles
    BY DEF Init
  <2>2. /\ on \in BOOLEAN /\ check \in BOOLEAN
        /\ home \in [Others -> Addrs \ {Here}]
    BY DEF Init
  <2>3. /\ bucket \subseteq Others
        /\ \A q \in Others : Cardinality(Mates(bucket, q)) <= Limit
    BY DEF Init
  <2> QED  BY <1>1, <1>4, <2>1, <2>2, <2>3 DEF TypeOK
<1>6. NotForgotten
  BY DEF Init, NotForgotten
<1> QED  BY <1>3, <1>5, <1>6 DEF PInv

\* Whatever is pinged is nobody's own address, and open afterwards.
LEMMA CheckKeeps == PInv /\ Check => PInv'
<1> SUFFICES ASSUME PInv, Check PROVE PInv'
  OBVIOUS
<1> USE DEF PInv
<1>1. /\ UNCHANGED <<on, store, home, met, troubles>>
      /\ check' = FALSE
  BY DEF Check
<1>2. CASE ~on
  <2>1. UNCHANGED <<bucket, pings>>
    BY <1>2 DEF Check
  <2>2. TypeOK'
    BY <1>1, <2>1 DEF TypeOK
  <2>3. BucketAnswered'
    BY <1>1, <2>1 DEF BucketAnswered
  <2>4. NotForgotten'
    BY <1>1, <1>2 DEF NotForgotten
  <2> QED  BY <2>2, <2>3, <2>4
<1>3. CASE on
  <2> DEFINE qs == Asked(bucket \cap Known)
  <2>1. bucket' = bucket \cap Known /\ Ping(qs)
    BY <1>3 DEF Check
  <2>2. qs \in SUBSET Others /\ \A q \in qs : store[q] \in Addrs
    BY DEF Asked, Known, TypeOK
  <2>3. \A i \in Slots : pings[i] \in Request \cup {Free}
    BY DEF TypeOK
  <2> HIDE DEF qs
  <2>4. /\ pings' \in [Slots -> Request \cup {Free}]
        /\ \A q \in qs : \E i \in Slots : pings'[i] = Started(q, store[q])
    BY <2>1, <2>2, <2>3, PingStarts
  <2>5. \A q \in Others : Cardinality(Mates(bucket', q)) <= Limit
    BY <2>1, FewerMates DEF TypeOK
  <2>6. TypeOK'
    BY <1>1, <2>1, <2>4, <2>5 DEF TypeOK
  <2>7. BucketAnswered'
    BY <1>1, <2>1 DEF BucketAnswered
  <2>8. NotForgotten'
    <3> SUFFICES ASSUME ~Full', NEW q \in Known' \ bucket', store'[q] # Here
                 PROVE  Open(q)'
      BY DEF NotForgotten
    <3>1. Known' = Known
      BY <1>1 DEF Known
    <3>2. q \in qs
      <4>1. Cardinality(bucket \cap Known) < Limit
            /\ Cardinality(bucket \cap Known) <= Cardinality(Known)
        <5>1. /\ IsFiniteSet(bucket \cap Known)
              /\ IsFiniteSet(Known)
          BY FS_Subset, PeeringAssumption DEF Known
        <5>2. /\ Cardinality(bucket \cap Known) \in Nat
              /\ Cardinality(Known) \in Nat
          BY <5>1, FS_CardinalityType
        <5> QED  BY <2>1, <3>1, <5>2, PeeringAssumption DEF Full
      <4> QED  BY <1>1, <2>1, <3>1, <4>1 DEF qs, Asked
    <3>3. PICK i \in Slots : pings'[i] = Started(q, store[q])
      BY <2>4, <3>2
    <3>4. Started(q, store[q]) \in Request
      BY <2>2, <3>2 DEF Started, Request
    <3> QED  BY <3>3, <3>4, PeeringAssumption DEF Open, Started
  <2> QED  BY <2>6, <2>7, <2>8
<1> QED  BY <1>2, <1>3

\* Who gets into a bucket has answered with its own key.
LEMMA AnswerKeeps ==
  ASSUME NEW i \in Slots PROVE PInv /\ Answer(i) => PInv'
<1> SUFFICES ASSUME PInv, Answer(i) PROVE PInv'
  OBVIOUS
<1> USE DEF PInv
<1>1. /\ UNCHANGED <<on, home, troubles>> /\ check' = TRUE
      /\ pings[i] # Free
  BY DEF Answer
<1>2. PICK r \in Others :
        /\ home[r] = pings[i].addr
        /\ pings' = [pings EXCEPT ![i] = Done(@)]
        /\ met' = met \cup {<<r, home[r]>>}
        /\ IF r = pings[i].key
           THEN /\ store' = [store EXCEPT ![r] = home[r]]
                /\ bucket' = Put(bucket, r)
           ELSE UNCHANGED <<store, bucket>>
  BY DEF Answer
<1>3. pings[i] \in Request /\ home[r] \in Addrs
  BY <1>1 DEF TypeOK
<1>4. /\ Done(pings[i]) \in Request
      /\ pings' \in [Slots -> Request \cup {Free}]
  <2>1. Done(pings[i]) \in Request
    BY <1>3 DEF Done, Request
  <2> QED  BY <1>2, <2>1 DEF TypeOK
<1>5. bucket' \subseteq bucket \cup {r} /\ bucket' \subseteq Others
  BY <1>2 DEF Put, TypeOK
<1>6. \A q \in Others : Cardinality(Mates(bucket', q)) <= Limit
  BY <1>2, PutBounded DEF TypeOK
<1>7. store' \in [Others -> Addrs \cup {NoAddr}]
  BY <1>2, <1>3 DEF TypeOK
<1>8. TypeOK'
  BY <1>1, <1>2, <1>3, <1>4, <1>5, <1>6, <1>7 DEF TypeOK
<1>9. BucketAnswered'
  BY <1>2, <1>3, <1>5 DEF BucketAnswered
<1>10. NotForgotten'
  BY <1>1 DEF NotForgotten
<1> QED  BY <1>8, <1>9, <1>10

\* A request that failed calls check_peers, one that is done was not open.
LEMMA TimeoutKeeps ==
  ASSUME NEW i \in Slots PROVE PInv /\ Timeout(i) => PInv'
<1> SUFFICES ASSUME PInv, Timeout(i) PROVE PInv'
  OBVIOUS
<1> USE DEF PInv
<1>1. /\ UNCHANGED <<on, store, home, met, troubles>>
      /\ pings[i] # Free /\ pings' = [pings EXCEPT ![i] = Free]
      /\ bucket' \subseteq bucket
  BY DEF Timeout
<1>2. check' \in BOOLEAN
  BY DEF Timeout, TypeOK
<1>3. \A q \in Others : Cardinality(Mates(bucket', q)) <= Limit
  BY <1>1, FewerMates DEF TypeOK
<1>4. TypeOK'
  BY <1>1, <1>2, <1>3 DEF TypeOK
<1>5. BucketAnswered'
  BY <1>1 DEF BucketAnswered
<1>6. CASE pings[i].state = "DONE" /\ UNCHANGED <<bucket, check>>
  <2>1. \A q \in Others : Open(q) => Open(q)'
    BY <1>1, <1>6 DEF Open, TypeOK
  <2>2. Full' = Full /\ Known' = Known /\ Known \subseteq Others
    BY <1>1, <1>6 DEF Full, Known
  <2>3. NotForgotten'
    BY <1>1, <1>6, <2>1, <2>2 DEF NotForgotten
  <2> QED  BY <1>4, <1>5, <2>3
<1>7. CASE check' = TRUE
  BY <1>4, <1>5, <1>7 DEF NotForgotten
<1> QED  BY <1>6, <1>7 DEF Timeout

LEMMA AroundKeeps ==
  ASSUME PInv,
         \/ \E q \in Others, a \in Addrs : News(q, a)
         \/ \E q \in Others, a \in Addrs \ {Here} : Move(q, a)
         \/ \E i \in Slots : Lose(i)
         \/ SwitchOn \/ SwitchOff
  PROVE  PInv'
<1> USE DEF PInv
<1>0. troubles' = troubles \/ (troubles' = troubles + 1 /\ troubles < MaxTroubles)
  BY DEF News, Move, Lose, SwitchOn, SwitchOff, Trouble
<1>1. troubles' \in 0..MaxTroubles
  BY <1>0, PeeringAssumption DEF TypeOK
<1>2. bucket' = bucket /\ met' = met
  BY DEF News, Move, Lose, SwitchOn, SwitchOff, ours
<1>3. BucketAnswered'
  BY <1>2 DEF BucketAnswered
<1>4. CASE \E q \in Others, a \in Addrs : News(q, a)
  <2>1. TypeOK' /\ check' = TRUE
    BY <1>1, <1>2, <1>4 DEF News, TypeOK
  <2> QED  BY <1>3, <2>1 DEF NotForgotten
<1>5. CASE \E q \in Others, a \in Addrs \ {Here} : Move(q, a)
  <2>1. UNCHANGED <<on, store, bucket, pings, check>>
    BY <1>5 DEF Move, ours
  <2>2. TypeOK'
    BY <1>1, <1>2, <1>5, <2>1 DEF Move, TypeOK
  <2>3. NotForgotten'
    BY <2>1 DEF NotForgotten, Full, Known, Open
  <2> QED  BY <1>3, <2>2, <2>3
<1>6. CASE \E i \in Slots : Lose(i)
  <2>1. PICK i \in Slots : Lose(i)
    BY <1>6
  <2>2. pings[i] \in Request
    BY <2>1 DEF Lose, TypeOK
  <2>3. Lost(pings[i]) \in Request
    BY <2>2 DEF Lost, Request
  <2>4. TypeOK'
    BY <1>1, <1>2, <2>1, <2>3 DEF Lose, TypeOK
  <2>5. \A q \in Others : Open(q) => Open(q)'
    BY <2>1, <2>3, PeeringAssumption DEF Lose, Open, Lost, TypeOK
  <2>6. Full' = Full /\ Known' = Known /\ Known \subseteq Others
    BY <2>1 DEF Lose, Full, Known
  <2>7. NotForgotten'
    BY <2>1, <2>5, <2>6 DEF Lose, NotForgotten
  <2> QED  BY <1>3, <2>4, <2>7
<1>7. CASE SwitchOn
  <2>1. TypeOK' /\ check' = TRUE
    BY <1>1, <1>2, <1>7 DEF SwitchOn, TypeOK
  <2> QED  BY <1>3, <2>1 DEF NotForgotten
<1>8. CASE SwitchOff
  <2>1. \A i \in Slots : pings[i] # Free => Lost(pings[i]) \in Request
    BY DEF TypeOK, Lost, Request
  <2>2. TypeOK'
    BY <1>1, <1>2, <1>8, <2>1 DEF SwitchOff, TypeOK
  <2>3. NotForgotten'
    BY <1>8 DEF SwitchOff, NotForgotten
  <2> QED  BY <1>3, <2>2, <2>3
<1> QED  BY <1>4, <1>5, <1>6, <1>7, <1>8

\* TypeOK, BucketAnswered and NotForgotten together are inductive.
LEMMA NextKeeps == PInv /\ [Next]_vars => PInv'
<1> SUFFICES ASSUME PInv, [Next]_vars PROVE PInv'
  OBVIOUS
<1>1. CASE UNCHANGED vars
  BY <1>1 DEF PInv, TypeOK, BucketAnswered, NotForgotten, Full, Known, Open,
              Mates, vars, ours
<1>2. CASE Next
  BY <1>2, CheckKeeps, AnswerKeeps, TimeoutKeeps, AroundKeeps DEF Next
<1> QED  BY <1>1, <1>2

THEOREM PeeringHolds == Spec => []PInv
<1> QED  BY InitHolds, NextKeeps, PTL DEF Spec

\* The buckets never get larger than check_bucket lets them, for any number of
\* peers and requests.
THEOREM PeeringTypes == Spec => []TypeOK
<1>1. PInv => TypeOK
  BY DEF PInv
<1> QED  BY <1>1, PeeringHolds, PTL

\* Only a peer that has answered with the key we meant gets into a bucket.
THEOREM OnlyWhoAnswered == Spec => []BucketAnswered
<1>1. PInv => BucketAnswered
  BY DEF PInv
<1> QED  BY <1>1, PeeringHolds, PTL

\* A known peer in no bucket is being asked, or will be, while there is room.
THEOREM NobodyForgotten == Spec => []NotForgotten
<1>1. PInv => NotForgotten
  BY DEF PInv
<1> QED  BY <1>1, PeeringHolds, PTL
=============================================================================
