-------------------------------- MODULE Node --------------------------------
(***************************************************************************)
(* One node: its directory and what it shows of its friends, on one clock  *)
(* and behind one switch.                                                  *)
(***************************************************************************)
EXTENDS Directory, Presence

CONSTANT Together   \* bound: whether both are busy at the same time

vars == <<now, directory, presence>>

TypeOK == now \in Nat /\ DirectoryTypeOK /\ PresenceTypeOK

\* The clock has run long enough for the first check.
Init == now = Throttle /\ DirectoryInit /\ PresenceInit

DirectoryStep ==
  /\ DirectoryNext
  /\ Together \/ away = {}
  /\ UNCHANGED <<now, presence>>

\* str_req takes no notice while the network is off.
Notice ==
  /\ on /\ \E q \in Friends : Hear(q)
  /\ Together \/ timers = {}
  /\ UNCHANGED <<now, directory>>

Lapsed ==
  /\ \E t \in away : AwayTimer(t)
  /\ UNCHANGED <<now, directory>>

Tick ==
  /\ now < Notices \/ Awaits(timers) \/ Awaits(away)
  /\ ~Overdue(timers) /\ ~Overdue(away)
  /\ now' = now + 1
  /\ UNCHANGED <<directory, presence>>

Next == DirectoryStep \/ Notice \/ Lapsed \/ Tick

Spec == Init /\ [][Next]_vars

\* Time passes and timers run.
Fairness ==
  /\ WF_vars(Tick)
  /\ WF_vars(DirectoryTimer /\ UNCHANGED <<now, presence>>)
  /\ WF_vars(Lapsed)

FairSpec == Spec /\ Fairness
=============================================================================
