----------------------------- MODULE I2pStreams -----------------------------
(***************************************************************************)
(* The data sockets of one mysteria5 peer with the SAM bridge, and the     *)
(* queue of messages that go out through them.                             *)
(*                                                                         *)
(* A socket to a destination says hello, connects and is a stream then;    *)
(* one without says hello, accepts, expects somebody and is a stream to    *)
(* whoever that is.  Names of sockets are used again after a close, and    *)
(* the timers of a socket know nothing but its name.                       *)
(*                                                                         *)
(* i2p_check_data does nothing: it compares the text "::cur(...)".  A      *)
(* stream is in blocking mode, so fblocked does not hold of it.  eof holds *)
(* of a channel only after a read has met its end: until then what is      *)
(* written to a channel that the bridge has closed is lost without a word, *)
(* or raises an error that ends the procedure.  i2p_end closes all data    *)
(* sockets and throws all queued messages away.                            *)
(***************************************************************************)
EXTENDS Integers, FiniteSets

CONSTANTS
  Dests, NoDest,  \* I2P destinations of others
  Msgs, Dest,     \* messages; Dest[m]: where m goes
  Socks, Free,    \* names of sockets (bound: at most so many are open)
  Num,            \* ::options(i2p_num)
  MaxTroubles,    \* bound: failures, closed streams, sessions lost
  MaxTimers       \* bound: pending timers of a kind

States == {"hello", "accept", "expect", "connect", "stream"}
DataSock == [state : States, dest : Dests \cup {NoDest}]

ASSUME StreamsAssumption ==
  /\ NoDest \notin Dests /\ Free \notin DataSock
  /\ Dest \in [Msgs -> Dests] /\ IsFiniteSet(Socks)
  /\ Num \in Nat \ {0} /\ MaxTroubles \in Nat /\ MaxTimers \in Nat \ {0}

VARIABLES
  session,  \* ::cur(i2p,state): "off" is "", "starting" all but "ready"
  sock,     \* sock[c]: ::cur(i2p,datasock,c,state) and dest
  chan,     \* chan[c]: the channel itself: "mute" if the bridge says nothing
            \* more, "ended" if it has closed it, "eof" when that was read
  queue,    \* ::cur(i2p,<dest>,queue,*)
  check,    \* an "after idle i2p_checkqueue" is pending
  opens,    \* opens[d]: pending i2p_start_data d, NoDest after 5000 ms
  retry,    \* retry[c][a]: pending i2p_handler_data_retry c 2 a
  written,  \* written[m]: times m was written to an open stream (history)
  lost,     \* messages that went away unwritten (history)
  troubles

socks == <<sock, chan>>
vars == <<session, socks, queue, check, opens, retry, written, lost, troubles>>

TypeOK ==
  /\ session \in {"off", "starting", "ready"}
  /\ sock \in [Socks -> DataSock \cup {Free}]
  /\ chan \in [Socks -> {"closed", "open", "mute", "ended", "eof"}]
  /\ queue \subseteq Msgs /\ check \in BOOLEAN
  /\ opens \in [Dests \cup {NoDest} -> 0..MaxTimers]
  /\ retry \in [Socks -> [0..2 -> 0..MaxTimers]]
  /\ written \in [Msgs -> Nat] /\ lost \subseteq Msgs
  /\ troubles \in 0..MaxTroubles

Init ==
  /\ session = "off"
  /\ sock = [c \in Socks |-> Free] /\ chan = [c \in Socks |-> "closed"]
  /\ queue = {} /\ check = FALSE
  /\ opens = [d \in Dests \cup {NoDest} |-> 0]
  /\ retry = [c \in Socks |-> [a \in 0..2 |-> 0]]
  /\ written = [m \in Msgs |-> 0] /\ lost = {}
  /\ troubles = 0

Trouble == troubles < MaxTroubles /\ troubles' = troubles + 1

-----------------------------------------------------------------------------
(* Sockets.                                                                *)

In(state) == {c \in Socks : sock[c] # Free /\ sock[c].state = state}

To(d) == {c \in Socks : sock[c] # Free /\ sock[c].dest = d}

\* The next line can be read: the end of the channel comes after it.
Open(c, state) == c \in In(state) /\ chan[c] \in {"open", "ended"}

Move(c, state, dest) ==
  sock' = [sock EXCEPT ![c] = [state |-> state, dest |-> dest]]

\* Mutant of Drop: the variables stay.
DropChannel(cs) ==
  /\ sock' = sock
  /\ chan' = [c \in Socks |-> IF c \in cs THEN "closed" ELSE chan[c]]

\* array unset ::cur "i2p,datasock,$c,*"; catch { close $c }
Drop(cs) ==
  /\ sock' = [c \in Socks |-> IF c \in cs THEN Free ELSE sock[c]]
  /\ chan' = [c \in Socks |-> IF c \in cs THEN "closed" ELSE chan[c]]

\* Sockets dropped and sockets opened to d, in one step
Replace(gone, new, d) ==
  /\ sock' = [c \in Socks |->
                IF c \in new THEN [state |-> "hello", dest |-> d]
                ELSE IF c \in gone THEN Free ELSE sock[c]]
  /\ chan' = [c \in Socks |->
                IF c \in new THEN "open"
                ELSE IF c \in gone THEN "closed" ELSE chan[c]]

Closed == {c \in Socks : chan[c] = "closed"}

-----------------------------------------------------------------------------
(* i2p_start_data                                                          *)

\* To a destination, after i2p_checkqueue.
StartTo(d) ==
  /\ opens[d] > 0 /\ opens' = [opens EXCEPT ![d] = @ - 1]
  /\ \/ session # "ready" /\ UNCHANGED <<socks, troubles>>
     \/ session = "ready" /\ Trouble /\ UNCHANGED socks
     \/ /\ session = "ready"
        /\ \E c \in Closed : Replace({}, {c}, d)
        /\ UNCHANGED troubles
  /\ UNCHANGED <<session, queue, check, retry, written, lost>>

\* To listen, 5 s after i2p_maintain_data found the session not ready.
StartListening ==
  /\ opens[NoDest] > 0
  /\ \/ /\ session = "starting" /\ UNCHANGED <<opens, socks>>
     \/ /\ session # "starting"
        /\ opens' = [opens EXCEPT ![NoDest] = @ - 1]
        /\ IF session = "ready"
           THEN \/ UNCHANGED socks
                \/ \E c \in Closed : Closed # {c} /\ Replace({}, {c}, NoDest)
           ELSE UNCHANGED socks
  /\ UNCHANGED <<session, queue, check, retry, written, lost, troubles>>

-----------------------------------------------------------------------------
(* i2p_handler_data                                                        *)

handled == <<session, queue, opens, written, lost>>

\* The timer of c with a attempts has fired (none has 3), those of "new" are
\* set.
SetTimers(c, a, new) ==
  retry' = [retry EXCEPT ![c] =
              [b \in 0..2 |-> IF b = a THEN @[b] - 1
                              ELSE IF b \in new THEN @[b] + 1 ELSE @[b]]]

\* Mutant of HelloOK: every socket listens.
HelloListens(c) ==
  /\ Open(c, "hello") /\ Move(c, "accept", sock[c].dest)
  /\ UNCHANGED <<handled, chan, check, retry, troubles>>

\* What is written to an ended channel may raise an error after the new state
\* is set, and before the timer is.
HelloOK(c) ==
  /\ Open(c, "hello")
  /\ IF sock[c].dest = NoDest
     THEN Move(c, "accept", NoDest) /\ UNCHANGED retry
     ELSE /\ Move(c, "connect", sock[c].dest)
          /\ \/ retry[c][2] < MaxTimers /\ SetTimers(c, 3, {2})
             \/ chan[c] = "ended" /\ UNCHANGED retry
  /\ UNCHANGED <<handled, chan, check, troubles>>

AcceptOK(c) ==
  /\ Open(c, "accept") /\ Move(c, "expect", NoDest)
  /\ UNCHANGED <<handled, chan, check, retry, troubles>>

\* d connects to us; its name is the first line.
Incoming(c, d) ==
  /\ Open(c, "expect") /\ Move(c, "stream", d)
  /\ check' = TRUE
  /\ UNCHANGED <<handled, chan, retry, troubles>>

ConnectOK(c) ==
  /\ Open(c, "connect") /\ Move(c, "stream", sock[c].dest)
  /\ check' = TRUE
  /\ UNCHANGED <<handled, chan, retry, troubles>>

Fails(c) ==
  /\ \E s \in {"hello", "accept", "connect"} : Open(c, s)
  /\ Trouble /\ Drop({c})
  /\ UNCHANGED <<handled, check, retry>>

\* The bridge never answers a HELLO, or a STREAM CONNECT however often it is
\* repeated.
Hangs(c) ==
  /\ c \in In("hello") \cup In("connect") /\ chan[c] = "open" /\ Trouble
  /\ chan' = [chan EXCEPT ![c] = "mute"]
  /\ UNCHANGED <<handled, sock, check, retry>>

\* The bridge closes the socket,
Eof(c) ==
  /\ chan[c] \in {"open", "mute"} /\ Trouble
  /\ chan' = [chan EXCEPT ![c] = "ended"]
  /\ UNCHANGED <<handled, sock, check, retry>>

\* one call of the handler reads no line more,
EofRead(c) ==
  /\ chan[c] = "ended"
  /\ chan' = [chan EXCEPT ![c] = "eof"]
  /\ UNCHANGED <<handled, sock, check, retry, troubles>>

\* and the next one finds eof.
EofSeen(c) ==
  /\ chan[c] = "eof" /\ Drop({c})
  /\ UNCHANGED <<handled, check, retry, troubles>>

\* Mutant of Retry: the last but one sets no timer.
RetryStops(c, a) ==
  /\ retry[c][a] > 0
  /\ IF c \in In("connect") /\ a > 1
     THEN SetTimers(c, a, {a - 1})
     ELSE SetTimers(c, a, {})
  /\ UNCHANGED <<socks, troubles>>
  /\ UNCHANGED <<handled, check>>

\* i2p_handler_data_retry: the last one closes whatever has the name.
Retry(c, a) ==
  /\ retry[c][a] > 0
  /\ IF c \in In("connect") /\ a > 0
     THEN /\ \/ retry[c][a - 1] < MaxTimers /\ SetTimers(c, a, {a - 1})
             \/ chan[c] \in {"ended", "eof"} /\ SetTimers(c, a, {})
          /\ UNCHANGED <<socks, troubles>>
     ELSE /\ SetTimers(c, a, {})
          /\ IF a = 0 THEN Drop({c}) ELSE UNCHANGED socks
          /\ IF a = 0 /\ sock[c] # Free /\ c \notin In("connect")
             THEN Trouble ELSE UNCHANGED troubles
  /\ UNCHANGED <<handled, check>>

-----------------------------------------------------------------------------
(* i2p_maintain_data                                                       *)

\* Of more than Num sockets in a state, the old ones are closed.
Aged(old, state) ==
  IF Cardinality(In(state)) > Num THEN old \cap In(state) ELSE {}

Missing ==
  IF Cardinality(In("accept")) < Num THEN Num - Cardinality(In("accept"))
  ELSE 0

\* Then sockets are opened, if the bridge takes them, until Num are accepting
\* (bound: one name is kept for a connection of ours).
Maintain(old) ==
  LET gone == UNION {Aged(old, s) : s \in {"expect", "stream", "connect"}} IN
  /\ IF gone \cap In("stream") = {} THEN UNCHANGED troubles ELSE Trouble
  /\ \/ /\ session = "ready" /\ UNCHANGED opens
        /\ \E new \in SUBSET (Closed \cup gone) :
             /\ Cardinality(new) <= Missing /\ new # Closed \cup gone
             /\ Replace(gone, new, NoDest)
     \/ /\ session = "starting" /\ Drop(gone)
        /\ opens[NoDest] + Missing <= MaxTimers
        /\ opens' = [opens EXCEPT ![NoDest] = @ + Missing]
     \/ session = "off" /\ Drop(gone) /\ UNCHANGED opens
  /\ UNCHANGED <<session, queue, check, retry, written, lost>>

-----------------------------------------------------------------------------
(* The queue.                                                              *)

\* i2p_send (bound: once; the peers send it again, with another time in it)
Send(m) ==
  /\ m \notin queue \cup lost /\ written[m] = 0
  /\ queue' = queue \cup {m} /\ check' = TRUE
  /\ UNCHANGED <<session, socks, opens, retry, written, lost, troubles>>

\* i2p_send of what the model does not look at
SendOther ==
  /\ ~check /\ check' = TRUE
  /\ UNCHANGED <<session, socks, queue, opens, retry, written, lost, troubles>>

\* The streams to d among those of "seen" that i2p_checkqueue does not know to
\* be closed
Streams(d, seen) ==
  {c \in To(d) \cap seen : c \in In("stream") /\ chan[c] \in {"open", "ended"}}

\* first[d]: the first of them it comes to, if there is one; it takes all.
Firsts(first, seen) ==
  \A d \in Dests : Streams(d, seen) # {} => first[d] \in Streams(d, seen)

Out(first, seen) ==
  {m \in queue : first[Dest[m]] \in Streams(Dest[m], seen)}

\* Mutant of Write: a message goes out on every stream, as it was queued.
WriteEverywhere(ms) ==
  written' = [m \in Msgs |->
    IF m \in ms THEN written[m] + Cardinality(Streams(Dest[m], Socks))
    ELSE written[m]]

\* puts, and array unset of the message
Write(ms) ==
  written' = [m \in Msgs |-> IF m \in ms THEN written[m] + 1 ELSE written[m]]

\* The messages "out" leave the queue, those of "blind" into an ended stream.
Empty(out, blind) ==
  /\ queue' = queue \ out
  /\ Write(out \ blind)
  /\ lost' = lost \cup (out \cap blind)

Blind(out, first) == {m \in out : chan[first[Dest[m]]] = "ended"}

Eofs == {c \in Socks : chan[c] = "eof"}

\* i2p_checkqueue within 2.5 ms of the last
CheckDropped ==
  /\ check /\ check' = FALSE
  /\ UNCHANGED <<session, socks, queue, opens, retry, written, lost, troubles>>

\* i2p_checkqueue: whatever leads to a destination, in whatever state, counts
\* as a socket to it.
CheckQueue ==
  /\ check /\ check' = FALSE
  /\ Drop(Eofs)
  /\ \E first \in [Dests -> Socks] :
       LET out == Out(first, Socks) IN
       Firsts(first, Socks) /\ Empty(out, Blind(out, first))
  /\ LET missing == {d \in Dests :
                       To(d) = {} /\ \E m \in queue : Dest[m] = d} IN
     /\ \A d \in missing : opens[d] < MaxTimers
     /\ opens' = [d \in DOMAIN opens |->
                    IF d \in missing THEN opens[d] + 1 ELSE opens[d]]
  /\ UNCHANGED <<session, retry, troubles>>

\* A puts to an ended stream raises an error, after "seen" and after a few
\* messages more: that ends the pass, and nothing is opened.
CheckRaises ==
  /\ check /\ check' = FALSE
  /\ \E c \in In("stream"), first \in [Dests -> Socks] :
     \E seen \in SUBSET (Socks \ {c}), few \in SUBSET queue :
       LET out  == Out(first, seen)
           here == {m \in queue \ out : Dest[m] = sock[c].dest}
       IN /\ chan[c] = "ended" /\ Firsts(first, seen)
          /\ few \subseteq here /\ few # here
          /\ Drop(Eofs \cap seen)
          /\ Empty(out \cup few, Blind(out, first) \cup few)
  /\ UNCHANGED <<session, opens, retry, troubles>>

-----------------------------------------------------------------------------
(* The session, as far as streams look at it (see I2pSession).             *)

\* It starts, and gets ready;
Starts(old, new)  == old = "off" /\ new = "starting"
Readies(old, new) == old = "starting" /\ new = "ready"

\* it ends, perhaps once more, or an i2p_start takes the place of a ready one.
Ends(old, new)     == new = "off"
Restarts(old, new) == old = "ready" /\ new = "starting"

SessionStarts ==
  /\ Starts(session, session')
  /\ UNCHANGED <<socks, queue, check, opens, retry, written, lost, troubles>>

SessionRestarts ==
  /\ Restarts(session, session') /\ Trouble
  /\ UNCHANGED <<socks, queue, check, opens, retry, written, lost>>

\* i2p_handler: as many sockets begin to listen as the bridge takes of Num
\* (bound: one name is kept, as in Maintain).
SessionReadies ==
  /\ Readies(session, session')
  /\ \E new \in SUBSET Closed :
       /\ Cardinality(new) <= Num /\ new # Closed
       /\ Replace({}, new, NoDest)
  /\ UNCHANGED <<queue, check, opens, retry, written, lost, troubles>>

\* i2p_end
SessionEnds ==
  /\ Ends(session, session') /\ Trouble
  /\ Drop(Socks)
  /\ queue' = {} /\ lost' = lost \cup queue
  /\ UNCHANGED <<check, opens, retry, written>>

Handler(c) ==
  \/ HelloOK(c) \/ AcceptOK(c) \/ ConnectOK(c)
  \/ \E d \in Dests : Incoming(c, d)
  \/ Fails(c) \/ Hangs(c) \/ Eof(c) \/ EofRead(c) \/ EofSeen(c)

Next ==
  \/ \E d \in Dests : StartTo(d)
  \/ StartListening
  \/ \E c \in Socks : Handler(c) \/ \E a \in 0..2 : Retry(c, a)
  \/ \E old \in SUBSET Socks : Maintain(old)
  \/ \E m \in Msgs : Send(m)
  \/ SendOther \/ CheckDropped \/ CheckQueue \/ CheckRaises
  \/ SessionStarts \/ SessionReadies \/ SessionRestarts \/ SessionEnds

Spec == Init /\ [][Next]_vars

\* The event loop runs, the bridge answers a hello that it does not leave
\* unanswered for ever, closing is noticed, the session comes back; there is
\* always something else to send, not all of it within 2.5 ms of the last; a
\* destination that is asked again and again answers once.
Fairness ==
  /\ SF_vars(CheckQueue) /\ WF_vars(SendOther)
  /\ WF_vars(SessionStarts) /\ WF_vars(SessionReadies)
  /\ \A d \in Dests : WF_vars(StartTo(d))
  /\ \A c \in Socks :
       /\ WF_vars(HelloOK(c)) /\ SF_vars(ConnectOK(c))
       /\ WF_vars(EofRead(c)) /\ WF_vars(EofSeen(c))
       /\ \A a \in 0..2 : WF_vars(Retry(c, a))

FairSpec == Spec /\ Fairness

-----------------------------------------------------------------------------
(* Properties.                                                             *)

\* i2p_checkqueue opens no socket to a destination it has one for, and its eof
\* fails on a channel that was closed: it never meets one.
NoGhosts == \A c \in Socks : sock[c] # Free <=> chan[c] # "closed"

\* No message goes out twice, though several streams may lead to its
\* destination; none that is still queued, after whatever error, has gone out,
\* and none that is lost.
WrittenOnce ==
  \A m \in Msgs :
    /\ written[m] <= 1
    /\ m \in queue \cup lost => written[m] = 0
    /\ m \in queue => m \notin lost

\* A connect that is not answered does not last: its retries end in a close,
\* whatever timers the earlier sockets of that name have left and whether or
\* not a session has ended in between; only one that the bridge has closed,
\* which the handler is about to see, may have no timer.
ConnectEnds ==
  \A c \in In("connect") :
    chan[c] \in {"ended", "eof"} \/ \E a \in 0..2 : retry[c][a] > 0

\* A socket to where m goes has got no answer to its hello.
Blocked(m) == \E c \in To(Dest[m]) : c \in In("hello") /\ chan[c] = "mute"

\* Sent again and again, a queue is not held up for ever by sockets that fail,
\* are closed, were forgotten or wait for an answer to STREAM CONNECT: a
\* message goes out, unless it is lost with its session or in a stream whose
\* end nobody has read, or a socket hangs in hello for good.
GoesOut ==
  \A m \in Msgs :
    m \in queue ~> (written[m] = 1 \/ m \in lost \/ []Blocked(m))
=============================================================================
