----------------------------- MODULE MCGroupMail -----------------------------
(***************************************************************************)
(* Instances of GroupMail for TLC.                                         *)
(***************************************************************************)
EXTENDS GroupMail

CONSTANTS o, u, v

AllKnown == [p \in Peers |-> Peers \ {p}]

Nothing == [mods |-> {}, users |-> {}]

Control(p, mods, users) ==
  [author |-> p, kind |-> "gc", rule |-> [mods |-> mods, users |-> users]]

Mail(p) == [author |-> p, kind |-> "g", rule |-> Nothing]

\* The owner makes u a user, u writes, the owner removes u.
Revoked == <<Control(o, {o}, {u}), Mail(u), Control(o, {o}, {})>>

\* The owner lets u and v write, and they do.
Plain == <<Control(o, {}, {u, v}), Mail(u)>>

-----------------------------------------------------------------------------
(* A behaviour is calm if what is sent arrives, the 31 days do not pass,   *)
(* nobody deletes a letter by hand, and only the first letters are posted: *)
(* of Revoked, what rule_add_user posts and the user's answer to it.       *)

CONSTANT Last   \* the last letter posted in a calm behaviour

VARIABLE followed   \* a peer and a letter, or nothing: not calm

mcvars == <<vars, followed>>

Unfollowed == <<Owner, 0>>

Calm == followed # Unfollowed

CalmNext ==
  \E p \in Peers :
    \/ \E n \in 1..Last : Post(p, n)
    \/ Exchange(p)
    \/ Refresh(p)

\* A disturbed behaviour makes do with the digests that are not asked for, and
\* with letters that get too old at one peer.
DisturbedNext ==
  \E p \in Peers :
    \/ User(p)
    \/ \E m \in net : Recv(p, m)
    \/ Refresh(p)
    \/ /\ \A q \in Peers \ {p} : aged[q] = {}
       /\ \E n \in Letters : Age(p, n)

MCInit == Init /\ followed \in {Unfollowed} \cup Peers \X (1..Last)

MCNext == (IF Calm THEN CalmNext ELSE DisturbedNext) /\ UNCHANGED followed

InCalm(A) == Calm /\ A /\ UNCHANGED followed

\* The messages of a calm behaviour
CalmMessage == {m \in Message : m.from # m.to /\ m.letters \subseteq 1..Last}

\* What is sent arrives, and the group's window is opened now and then.
MCFairness ==
  /\ \A m \in CalmMessage : WF_mcvars(InCalm(m \in net /\ Recv(m.to, m)))
  /\ \A p \in Peers : WF_mcvars(InCalm(Refresh(p)))

MCSpec == MCInit /\ [][MCNext]_mcvars /\ MCFairness

\* Two peers on a network that loses nothing: a header brings its body, unless
\* the rule of one of them denies the letter.
BodyFollowsHeader ==
  LET p == followed[1]  n == followed[2] IN
  Calm /\ n \in hdr[p] ~> n \in body[p] \/ \E q \in Peers : n \in denied[q]

\* Two peers on a network that loses nothing: a rule of the owner, or a later
\* one, comes into force at both.
RuleReachesMembers ==
  LET p == followed[1]  n == followed[2] IN
  /\ n \in {k \in Controls : Author(k) = Owner}
  /\ n \in Posted
  ~> Rank(rule[p]) >= n
=============================================================================
