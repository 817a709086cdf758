----------------------------- MODULE MCGroupChat -----------------------------
(***************************************************************************)
(* Instances of GroupChat for TLC.                                         *)
(***************************************************************************)
EXTENDS GroupChat

CONSTANTS o, a, b

AllKnown == [p \in Peers |-> Peers \ {p}]

\* b's messages come from an address at which the others expect a.
SharedAddress == [p \in Peers |-> [q \in Peers |-> IF q = b THEN a ELSE q]]

MCRules == {{o, a}, {o, b}}

-----------------------------------------------------------------------------
(* One instance in two moods: a calm one, in which nothing is lost,        *)
(* forgotten, restarted or re-ruled, and one in which all of this happens. *)
(* A calm behaviour follows an author and a member, a disturbed one only   *)
(* the owner.                                                              *)

VARIABLE followed

mcvars == <<vars, followed>>

Calm == followed[1] # followed[2]

CalmStep(p) == Step(p) /\ UNCHANGED forgot

MCInit ==
  /\ Init
  /\ followed \in {pq \in Peers \X Peers : pq[1] # pq[2] \/ pq[1] = Owner}

MCNext ==
  /\ IF Calm THEN \E p \in Peers : CalmStep(p) ELSE Next
  /\ UNCHANGED followed

\* The event loop runs the timer of a new entry, and a network that loses
\* nothing hands over every message.
MCFairness ==
  /\ \A p \in Peers : WF_mcvars(Calm /\ FirstFlush(p) /\ UNCHANGED followed)
  /\ \A m \in Message :
       WF_mcvars(Calm /\ m \in net /\ Recv(m.to, m) /\ UNCHANGED followed)

MCSpec == MCInit /\ [][MCNext]_mcvars /\ MCFairness

\* On a network that loses nothing, a text waiting for a joined member that
\* lets its author write, and finds the author at its address, gets there.
EveryMemberGetsIt ==
  \A m \in Mids :
    Calm /\ Reaches(followed[1], followed[2], m) ~> m \in hist[followed[2]]
=============================================================================
