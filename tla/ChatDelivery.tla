---------------------------- MODULE ChatDelivery ----------------------------
(***************************************************************************)
(* What the group chat of mysteria5 promises, with no queue, no cache, no  *)
(* retries and no network: a text is posted by one member, kept by members *)
(* whose control rule lets its author write, and shown as delivered only   *)
(* for members that keep it.  GroupChat implements this module.            *)
(***************************************************************************)
EXTENDS Integers

CONSTANTS Peers, NoPeer, Mids, Owner

VARIABLES
  author,     \* who posted each text, NoPeer while it is not posted
  permitted,  \* permitted[p]: the writers in p's control rule
  stored,     \* stored[m]: the peers that keep text m on disk
  confirmed   \* confirmed[m]: the peers m's author was told keep it

vars == <<author, permitted, stored, confirmed>>

TypeOK ==
  /\ author \in [Mids -> Peers \cup {NoPeer}]
  /\ permitted \in [Peers -> SUBSET Peers]
  /\ stored \in [Mids -> SUBSET Peers]
  /\ confirmed \in [Mids -> SUBSET Peers]

Init ==
  /\ author = [m \in Mids |-> NoPeer]
  /\ permitted \in [Peers -> SUBSET Peers]
  /\ stored = [m \in Mids |-> {}]
  /\ confirmed = [m \in Mids |-> {}]

MayWrite(p, q) == q = Owner \/ q \in permitted[p]

Post(p, m) ==
  /\ author[m] = NoPeer
  /\ MayWrite(p, p)
  /\ author' = [author EXCEPT ![m] = p]
  /\ stored' = [stored EXCEPT ![m] = @ \cup {p}]
  /\ UNCHANGED <<permitted, confirmed>>

Store(p, m) ==
  /\ author[m] # NoPeer
  /\ MayWrite(p, author[m])
  /\ stored' = [stored EXCEPT ![m] = @ \cup {p}]
  /\ UNCHANGED <<author, permitted, confirmed>>

Confirm(p, m) ==
  /\ p \in stored[m]
  /\ p # author[m]
  /\ confirmed' = [confirmed EXCEPT ![m] = @ \cup {p}]
  /\ UNCHANGED <<author, permitted, stored>>

NewRule(p, users) ==
  /\ permitted' = [permitted EXCEPT ![p] = users]
  /\ UNCHANGED <<author, stored, confirmed>>

Next ==
  \E p \in Peers :
    \/ \E m \in Mids : Post(p, m) \/ Store(p, m) \/ Confirm(p, m)
    \/ \E users \in SUBSET Peers : NewRule(p, users)

Spec == Init /\ [][Next]_vars
=============================================================================
