------------------------------- MODULE Peering -------------------------------
(***************************************************************************)
(* The routing table of one mysteria5 peer: what it has heard of others    *)
(* (::peerstore), the PING requests (::p) by which check_peers finds out   *)
(* whether they are there, and the buckets (::b) of those that answered.   *)
(*                                                                         *)
(* Every request has a timer of 30 s of its own that nobody cancels, and   *)
(* check_peers asks again without looking at what is still open.  An       *)
(* answer after the timer is refused, which is the same as one that is     *)
(* lost: the timer of a request fires when no answer is coming.            *)
(***************************************************************************)
EXTENDS Integers, FiniteSets, Functions

CONSTANTS
  Others,      \* the other peers
  Addrs, Here, \* where peers live; our own address
  NoAddr, Free,
  Limit,       \* 20: peers in one bucket (check_bucket), and peers in all of
               \* them from which on check_peers does not look for more
  Home,        \* Home[q]: where q lives in the beginning
  Loaded,      \* the stores that nodes.dat may hold
  Order,       \* Order[q]: distorder of q's distance from us
  Slots,       \* bound: requests that have a timer
  MaxTroubles  \* bound: what happens around us, of any kind

Request == [key : Others, addr : Addrs, state : {"REQ", "DONE"}, lost : BOOLEAN]

ASSUME PeeringAssumption ==
  /\ IsFiniteSet(Others)
  /\ Free \notin Request
  /\ Here \in Addrs /\ NoAddr \notin Addrs
  /\ Home \in [Others -> Addrs \ {Here}] /\ IsInjective(Home)
  /\ Loaded \subseteq [Others -> Addrs \cup {NoAddr}]
  /\ Limit \in Nat \ {0}
  /\ MaxTroubles \in Nat

VARIABLES
  on,       \* ::cur(net,on), and the transport is there
  store,    \* store[q]: the address in ::peerstore(q)
  bucket,   \* the peers in ::b
  pings,    \* ::p, the PING requests whose timer is pending
  check,    \* an "after 200 check_peers" is pending
  home,     \* home[q]: where q lives
  met,      \* the peers that have answered from an address
  troubles  \* how much has happened around us

ours == <<on, store, bucket, pings, check>>
vars == <<ours, home, met, troubles>>

Started(q, a) == [key |-> q, addr |-> a, state |-> "REQ", lost |-> FALSE]
Done(r) == [key |-> r.key, addr |-> r.addr, state |-> "DONE", lost |-> r.lost]
Lost(r) == [key |-> r.key, addr |-> r.addr, state |-> r.state, lost |-> TRUE]

\* Those of b in the bucket that q belongs to
Mates(b, q) == {r \in b : Order[r] = Order[q]}

\* Types; a bucket holds no more than Limit peers.
TypeOK ==
  /\ on \in BOOLEAN /\ check \in BOOLEAN
  /\ store \in [Others -> Addrs \cup {NoAddr}]
  /\ bucket \subseteq Others
  /\ \A q \in Others : Cardinality(Mates(bucket, q)) <= Limit
  /\ pings \in [Slots -> Request \cup {Free}]
  /\ home \in [Others -> Addrs \ {Here}]
  /\ met \subseteq Others \X Addrs
  /\ troubles \in 0..MaxTroubles

\* load_peers and load_buckets: the peers known, and those of them that had
\* answered before the restart.
Init ==
  /\ on = FALSE /\ check = FALSE
  /\ store \in Loaded
  /\ home = Home
  /\ bucket \in SUBSET {q \in Others : store[q] \notin {NoAddr, Here}}
  /\ \A q \in Others : Cardinality(Mates(bucket, q)) <= Limit
  /\ met = {<<q, store[q]>> : q \in bucket}
  /\ pings = [i \in Slots |-> Free]
  /\ troubles = 0

Trouble == troubles < MaxTroubles /\ troubles' = troubles + 1

-----------------------------------------------------------------------------
(* Buckets.                                                                *)

\* Mutant of Put: the bucket is full with one peer less.
PutOneLess(b, q) ==
  IF Cardinality(Mates(b \cup {q}, q)) >= Limit THEN b \ {q} ELSE b \cup {q}

\* put_to_bucket and check_bucket.  From a bucket that is too full goes what
\* oldest_in_bucket returns: the newest, which is q.
Put(b, q) ==
  IF Cardinality(Mates(b \cup {q}, q)) > Limit THEN b \ {q} ELSE b \cup {q}

-----------------------------------------------------------------------------
(* check_peers.                                                            *)

Known == {q \in Others : store[q] # NoAddr}

\* Whom check_peers asks, with b in the buckets; str_create refuses our own
\* address.
Asked(b) ==
  IF Cardinality(b) < Limit /\ Cardinality(b) <= Cardinality(Known)
  THEN {q \in Known \ b : store[q] # Here}
  ELSE {}

\* str_create and str_start of a PING to each of qs, in slots that are free
Ping(qs) ==
  LET free  == {i \in Slots : pings[i] = Free}
      slots == {f \in [qs -> free] : IsInjective(f)}
      slot  == CHOOSE f \in slots : TRUE
      of(i) == CHOOSE q \in qs : slot[q] = i
  IN /\ slots # {}
     /\ pings' = [i \in Slots |-> IF \E q \in qs : slot[q] = i
                                 THEN Started(of(i), store[of(i)])
                                 ELSE pings[i]]

\* A check_peers within 200 us of another is dropped; it would not have seen
\* anything else, since what calls it does so 200 ms before.
Check ==
  /\ check /\ check' = FALSE
  /\ IF on THEN /\ bucket' = bucket \cap Known
                /\ Ping(Asked(bucket \cap Known))
     ELSE UNCHANGED <<bucket, pings>>
  /\ UNCHANGED <<on, store, home, met, troubles>>

-----------------------------------------------------------------------------
(* Requests: str_ping.                                                     *)

\* Mutant of Answer: the key is not compared.
AnswerUnchecked(i) ==
  /\ on /\ pings[i] # Free /\ pings[i].state = "REQ" /\ ~pings[i].lost
  /\ \E r \in Others :
       /\ home[r] = pings[i].addr
       /\ pings' = [pings EXCEPT ![i] = Done(@)]
       /\ store' = [store EXCEPT ![pings[i].key] = home[r]]
       /\ bucket' = Put(bucket, pings[i].key)
       /\ met' = met \cup {<<r, home[r]>>}
  /\ check' = TRUE
  /\ UNCHANGED <<on, home, troubles>>

\* An OK from whoever lives at the address: only if its key is the one that
\* was meant, it goes into the store and a bucket.
Answer(i) ==
  /\ on /\ pings[i] # Free /\ pings[i].state = "REQ" /\ ~pings[i].lost
  /\ \E r \in Others :
       /\ home[r] = pings[i].addr
       /\ pings' = [pings EXCEPT ![i] = Done(@)]
       /\ met' = met \cup {<<r, home[r]>>}
       /\ IF r = pings[i].key
          THEN /\ store' = [store EXCEPT ![r] = home[r]]
               /\ bucket' = Put(bucket, r)
          ELSE UNCHANGED <<store, bucket>>
  /\ check' = TRUE
  /\ UNCHANGED <<on, home, troubles>>

NoAnswerComes(r) ==
  r.lost \/ \A q \in Others : home[q] # r.addr

\* Mutant of Timeout: check_peers is not called again.
TimeoutForgets(i) ==
  /\ pings[i] # Free
  /\ pings[i].state = "DONE" \/ NoAnswerComes(pings[i])
  /\ pings' = [pings EXCEPT ![i] = Free]
  /\ bucket' = IF pings[i].state = "DONE" \/ ~on THEN bucket
               ELSE bucket \ {pings[i].key}
  /\ UNCHANGED <<on, store, check, home, met, troubles>>

\* The timer of a request.  One that is not done has failed: the peer leaves
\* the buckets, even if it has answered another request in the meantime.
Timeout(i) ==
  /\ pings[i] # Free
  /\ pings' = [pings EXCEPT ![i] = Free]
  /\ \/ /\ pings[i].state = "DONE"
        /\ UNCHANGED <<bucket, check>>
     \/ /\ pings[i].state = "REQ" /\ NoAnswerComes(pings[i])
        /\ bucket' = IF on THEN bucket \ {pings[i].key} ELSE bucket
        /\ check' = TRUE
  /\ UNCHANGED <<on, store, home, met, troubles>>

-----------------------------------------------------------------------------
(* What happens around.                                                    *)

\* Somebody tells us of q, truly or not: req_sol, a FIND_NODE or FIND_VALUE
\* that brings peers.
News(q, a) ==
  /\ on /\ Trouble
  /\ store' = [store EXCEPT ![q] = a]
  /\ check' = TRUE
  /\ UNCHANGED <<on, bucket, pings, home, met>>

\* q gets another address, one at which nobody lives.
Move(q, a) ==
  /\ a \notin Range(home)
  /\ Trouble
  /\ home' = [home EXCEPT ![q] = a]
  /\ UNCHANGED <<ours, met>>

Lose(i) ==
  /\ pings[i] # Free /\ pings[i].state = "REQ" /\ ~pings[i].lost
  /\ Trouble
  /\ pings' = [pings EXCEPT ![i] = Lost(@)]
  /\ UNCHANGED <<on, store, bucket, check, home, met>>

\* net_toggle; net_update once the transport is there.
SwitchOn ==
  /\ ~on /\ on' = TRUE /\ check' = TRUE
  /\ UNCHANGED <<store, bucket, pings, home, met, troubles>>

\* What is answered from now on is lost (str_req).
SwitchOff ==
  /\ on /\ on' = FALSE
  /\ Trouble
  /\ pings' = [i \in Slots |->
                 IF pings[i] = Free THEN Free ELSE Lost(pings[i])]
  /\ UNCHANGED <<store, bucket, check, home, met>>

Next ==
  \/ Check
  \/ \E i \in Slots : Answer(i) \/ Timeout(i) \/ Lose(i)
  \/ \E q \in Others, a \in Addrs : News(q, a)
  \/ \E q \in Others, a \in Addrs \ {Here} : Move(q, a)
  \/ SwitchOn \/ SwitchOff

Spec == Init /\ [][Next]_vars

\* Timers fire, and what is not lost is answered; the network comes back.
Fairness ==
  /\ WF_vars(Check) /\ WF_vars(SwitchOn)
  /\ \A i \in Slots : WF_vars(Answer(i)) /\ WF_vars(Timeout(i))

FairSpec == Spec /\ Fairness

-----------------------------------------------------------------------------
(* Properties.                                                             *)

\* What the name of oldest_in_bucket says of check_bucket, and the code does not
\* do: the oldest peer leaves a full bucket, so whoever has just answered with
\* its key is in it.
FreshStays ==
  [][\A i \in Slots :
       (/\ pings[i] # Free /\ pings[i].state = "REQ"
        /\ pings'[i] # Free /\ pings'[i].state = "DONE"
        /\ home[pings[i].key] = pings[i].addr)
       => pings[i].key \in bucket']_vars

\* Only a peer that has answered with the key we meant gets into a bucket,
\* whoever lives at the addresses we were told.
BucketAnswered == \A q \in bucket : \E a \in Addrs : <<q, a>> \in met

Full ==
  Cardinality(bucket) >= Limit \/ Cardinality(bucket) > Cardinality(Known)

Open(q) == \E i \in Slots : pings[i] # Free /\ pings[i].key = q
                             /\ pings[i].state = "REQ"

\* Nobody we have heard of is forgotten, in whatever order answers, timers of
\* older requests, news and evictions come: while there is room, whoever is in
\* no bucket is being asked, or will be at the next check_peers.
NotForgotten ==
  on => check \/ Full
          \/ \A q \in Known \ bucket : store[q] = Here \/ Open(q)

\* When peers stop moving and messages stop being lost, the buckets get to hold
\* everybody whose address we know, as far as there is room.
Converges ==
  <>[](Full \/ \A q \in Others : store[q] = home[q] => q \in bucket)
=============================================================================
