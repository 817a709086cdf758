------------------------------- MODULE Clock --------------------------------
(***************************************************************************)
(* The clock of one node and the order in which its event loop runs the    *)
(* timers that `after` has set: none before its time, the one that is due  *)
(* first before the others, and any of them late.  A set of timers stands  *)
(* for the queue: two calls that are the same and due at the same time are *)
(* one, the second would do nothing that the first has not done.           *)
(***************************************************************************)
EXTENDS Integers

CONSTANTS
  Quiet,   \* bound: from here on users and other nodes rest
  Late     \* bound: how far the event loop falls behind

ASSUME ClockAssumption == Quiet \in Nat /\ Late \in Nat

VARIABLE now

\* The event loop turns to t.
Fires(t, timers) ==
  /\ t \in timers
  /\ t.due <= now
  /\ \A u \in timers : t.due <= u.due

\* Time passes while there is something to wait for.
Awaits(timers) == now < Quiet \/ \E t \in timers : now < t.due

Overdue(timers) == \E t \in timers : t.due + Late <= now
=============================================================================
