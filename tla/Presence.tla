------------------------------ MODULE Presence ------------------------------
(***************************************************************************)
(* What a node shows of the presence of others (set_peer_status in         *)
(* mysteria.tcl).  Every STATUS notice sets a timer that takes the peer    *)
(* offline; it is not cancelled by the next notice but finds, in whole     *)
(* seconds, that the status it belongs to is not the latest any more.      *)
(***************************************************************************)
EXTENDS Clock

CONSTANTS
  Friends,   \* peers whose status is known
  Second,    \* one second
  Lapse,     \* 300 s without a notice
  Notices    \* bound: seconds from the start in which notices come

ASSUME PresenceAssumption ==
  /\ Second \in Nat \ {0} /\ Lapse \in Nat /\ Notices \in Nat

VARIABLES
  status,   \* status[q]: type in ::statuses
  epoch,    \* epoch[q]: epoch in ::statuses, in seconds
  away,     \* the timers that take a peer offline
  heard     \* heard[q]: when the last notice came

presence == <<status, epoch, away, heard>>

PresenceTypeOK ==
  /\ status \in [Friends -> {"unknown", "online", "offline"}]
  /\ epoch \in [Friends -> Nat]
  /\ away \subseteq [of : Friends, due : Nat, epoch : Nat]
  /\ heard \in [Friends -> Nat]

PresenceInit ==
  /\ status = [q \in Friends |-> "unknown"]
  /\ epoch = [q \in Friends |-> 0]
  /\ away = {}
  /\ heard = [q \in Friends |-> 0]

Seconds == now \div Second

Lapses(q) == [of |-> q, due |-> now + Lapse, epoch |-> Seconds]

\* A STATUS notice.
\* Mutant of Hear: only the first notice sets a timer.
HearOnce(q) ==
  /\ now < Notices
  /\ status' = [status EXCEPT ![q] = "online"]
  /\ epoch' = [epoch EXCEPT ![q] = Seconds]
  /\ heard' = [heard EXCEPT ![q] = now]
  /\ away' = IF status[q] = "online" THEN away ELSE away \cup {Lapses(q)}

Hear(q) ==
  /\ now < Notices
  /\ status' = [status EXCEPT ![q] = "online"]
  /\ epoch' = [epoch EXCEPT ![q] = Seconds]
  /\ heard' = [heard EXCEPT ![q] = now]
  /\ away' = away \cup {Lapses(q)}

\* Mutant of Current: the timer of an earlier notice counts, too.
CurrentAlways(t) == t \in away

Current(t) == epoch[t.of] = t.epoch

\* The timer of a notice.
AwayTimer(t) ==
  /\ Fires(t, away)
  /\ status' = IF Current(t) THEN [status EXCEPT ![t.of] = "offline"]
                             ELSE status
  /\ epoch' = IF Current(t) THEN [epoch EXCEPT ![t.of] = Seconds] ELSE epoch
  /\ away' = away \ {t}
  /\ UNCHANGED heard

-----------------------------------------------------------------------------
(* Properties.                                                             *)

\* A peer is only shown offline when it has been silent for the time allowed,
\* to the second: the timers of earlier notices do not count.
OnlySilence ==
  [][\A q \in Friends :
       status[q] = "online" /\ status'[q] = "offline" =>
         now + Second > heard[q] + Lapse]_presence

\* Of every peer that is shown online a timer is left that will find its
\* status unchanged if nothing more is heard.
SilenceShows ==
  \A q \in Friends :
    status[q] = "online" =>
      \E t \in away : t.of = q /\ t.epoch = epoch[q] /\ t.due <= heard[q] + Lapse
=============================================================================
