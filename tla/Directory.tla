----------------------------- MODULE Directory ------------------------------
(***************************************************************************)
(* How a node of mysteria.tcl searches the directory and publishes in it.  *)
(* A search (sc_get_value) asks the closest peers for the values of a key  *)
(* and waits in ::waitvalue; a publication asks them to store one.  Every  *)
(* request is a session in ::p that answers, further hops and timers act   *)
(* on: a timer is never cancelled.  What comes in, also unasked, goes to   *)
(* ::valuestore, from where check_waitvalues takes it to the stores the    *)
(* user sees; calls of check_waitvalues that follow each other closely are *)
(* dropped.                                                                *)
(***************************************************************************)
EXTENDS Clock, FiniteSets

CONSTANTS
  Keys,        \* what one can search for
  Values,      \* what is stored under a key
  Good,        \* the values that decode
  Broken,      \* the values that are no Tcl list and raise an error
  Searches,    \* the entries of ::waitvalue
  Requests,    \* the sessions, by their time in microseconds
  Kind,        \* "req" of a session
  For,         \* the key of a search
  Lookups,     \* the sessions sc_get_value makes for a search
  Nobody,      \* what a check is for
  Throttle,    \* 1 ms: check_waitvalues runs no more often
  Delay,       \* 200 ms from an event to its check
  Linger,      \* 5 s from a stop to the end of a search
  Forget,      \* 10 s from the answer to a STORE to the end of its session
  Timeout,     \* 30 s for each message
  Lasting,     \* 180 s for a search
  Spread,      \* 180 s: the longest random delay
  MaxSessions, \* bound: sessions that are begun
  MaxStops     \* bound: stops whose timer is pending

ASSUME DirectoryAssumption ==
  /\ Good \subseteq Values /\ Broken \subseteq Values
  /\ Kind \in [Requests -> {"FIND_VALUE", "FIND_NODE", "STORE"}]
  /\ For \in [Searches -> Keys]
  /\ Lookups \in [Searches -> SUBSET {x \in Requests : Kind[x] = "FIND_VALUE"}]
  /\ \A s, z \in Searches : s # z => Lookups[s] \cap Lookups[z] = {}
  /\ {Throttle, Delay, Linger, Forget, Timeout, Lasting,
      Spread, MaxSessions, MaxStops} \subseteq Nat
  /\ IsFiniteSet(Requests)
  /\ 0 < Throttle /\ Throttle <= Delay /\ Timeout < Lasting

VARIABLES
  on,       \* ::cur(net,on)
  p,        \* p[x]: the state of a session, "GONE" when it is unset
  wait,     \* wait[s]: ::waitvalue
  found,    \* found[k]: ::valuestore
  stored,   \* the keys with a value in ::headers, ::contacts, ::groups, ...
  last,     \* ::last(wait)
  timers,   \* the timers of requests and searches
  missed    \* searches the last check has not come to, because of an error

directory == <<on, p, wait, found, stored, last, timers, missed>>

Call(call, of, delay) == [call |-> call, of |-> of, due |-> now + delay]

Calls ==
  {"CHECK", "TIMEOUT", "START", "FORGET", "CLOSE", "ERASE"}

DirectoryTypeOK ==
  /\ on \in BOOLEAN
  /\ p \in [Requests -> {"NONE", "START", "REQ", "DONE", "FAIL", "GONE"}]
  /\ wait \in [Searches -> {"NONE", "WAIT", "DONE", "GONE"}]
  /\ found \in [Keys -> SUBSET Values]
  /\ stored \subseteq Keys
  /\ last \in Nat
  /\ timers \subseteq
       [call : Calls, of : Requests \cup Searches \cup {Nobody}, due : Nat]
  /\ missed \subseteq Searches

DirectoryInit ==
  /\ on = FALSE
  /\ p = [x \in Requests |-> "NONE"]
  /\ wait = [s \in Searches |-> "NONE"]
  /\ found \in [Keys -> {{}, Good}]
  /\ stored \in SUBSET Keys
  /\ last = 0
  /\ timers = {}
  /\ missed = {}

-----------------------------------------------------------------------------
(* Sessions.                                                               *)

To(x, state) == [p EXCEPT ![x] = state]

\* str_create and str_start of the sessions X, which need the network: one
\* message each, and a timer for it.
Begin(X) == p' = [x \in Requests |-> IF on /\ x \in X THEN "REQ" ELSE p[x]]

Timeouts(X) == IF on THEN {Call("TIMEOUT", x, Timeout) : x \in X} ELSE {}

Begun == {x \in Requests : p[x] # "NONE"}

New(X) == /\ X \cap Begun = {}
          /\ Cardinality(X \cup Begun) <= MaxSessions

\* Mutant of Soon: the check is called at once.
SoonAtOnce == Call("CHECK", Nobody, 0)

Soon == Call("CHECK", Nobody, Delay)

-----------------------------------------------------------------------------
(* check_waitvalues.                                                       *)

Waiting == {s \in Searches : wait[s] = "WAIT"}

Raises(s) == found[For[s]] \cap Broken # {}

\* The searches one pass comes to: all of them, or those up to the first
\* whose values raise an error.
Seen == IF \E s \in Waiting : Raises(s)
        THEN {S \in SUBSET Waiting : \E s \in S : /\ Raises(s)
                                                  /\ \A z \in S \ {s} : ~Raises(z)}
        ELSE {Waiting}

\* A search ends when its key has a value, here or from elsewhere; values
\* from elsewhere that decode are kept, those after a broken one are not.
Pass(S, held) ==
  /\ wait' = [s \in Searches |->
                IF s \in S /\ (found[For[s]] # {} \/ For[s] \in held)
                THEN "DONE" ELSE wait[s]]
  /\ LET got(s) == found[For[s]] \cap Good # {} IN
     \E K \in SUBSET {For[s] : s \in {z \in S : got(z)}} :
       /\ {For[s] : s \in {z \in S : got(z) /\ ~Raises(z)}} \subseteq K
       /\ stored' = held \cup K
  /\ last' = now
  /\ missed' = Waiting \ S

Dropped == now < last + Throttle

\* held: the keys with a value here by now.
CheckWaitvalues(held) ==
  IF Dropped THEN stored' = held /\ UNCHANGED <<wait, last, missed>>
             ELSE \E S \in Seen : Pass(S, held)

-----------------------------------------------------------------------------
(* The user.                                                               *)

\* sc_get_value asks a few of the closest peers.
Search(s, X) ==
  /\ now < Quiet
  /\ wait[s] = "NONE" /\ X \subseteq Lookups[s] /\ New(X)
  /\ Begin(X)
  /\ wait' = [wait EXCEPT ![s] = "WAIT"]
  /\ timers' = timers \cup Timeouts(X) \cup {Call("CLOSE", s, Lasting), Soon}
  /\ UNCHANGED <<on, found, stored, last, missed>>

MayStop == Cardinality({t \in timers : t.call = "ERASE"}) < MaxStops

\* sc_stop: the entry goes away later.
Stop(s) ==
  /\ now < Quiet /\ MayStop
  /\ wait[s] \in {"WAIT", "DONE"}
  /\ timers' = timers \cup {Call("ERASE", s, Linger), Soon}
  /\ UNCHANGED <<on, p, wait, found, stored, last, missed>>

\* sc_stop "all": whatever is in ::waitvalue later goes away, the searches
\* begun meanwhile too.  No caller passes "all".
StopAll ==
  /\ now < Quiet /\ MayStop
  /\ timers' = timers \cup {Call("ERASE", Nobody, Linger), Soon}
  /\ UNCHANGED <<on, p, wait, found, stored, last, missed>>

Stores(X) == \A x \in X : Kind[x] = "STORE"

\* sc_publishheader, sc_publishgroup, sc_publishcontact: the own value goes
\* to the own store and to the closest peers.
Publish(k, X) ==
  /\ now < Quiet
  /\ Stores(X) /\ New(X)
  /\ Begin(X)
  /\ stored' = stored \cup {k}
  /\ timers' = timers \cup Timeouts(X)
  /\ UNCHANGED <<on, wait, found, last, missed>>

\* net_update publishes all there is to publish, and checks at once.
NetUpdate(K, X) ==
  /\ now < Quiet /\ on
  /\ Stores(X) /\ New(X)
  /\ Begin(X)
  /\ timers' = timers \cup Timeouts(X)
  /\ CheckWaitvalues(stored \cup K)
  /\ UNCHANGED <<on, found>>

\* sol_store creates a session now and starts it some time later.
StoreLater(x, delay) ==
  /\ now < Quiet /\ on
  /\ Kind[x] = "STORE" /\ New({x})
  /\ p' = To(x, "START")
  /\ timers' = timers \cup {Call("START", x, delay)}
  /\ UNCHANGED <<on, wait, found, stored, last, missed>>

\* A FIND_NODE for a buddy, a member or a source without an address.
FindNode(x) ==
  /\ now < Quiet /\ on
  /\ Kind[x] = "FIND_NODE" /\ New({x})
  /\ Begin({x})
  /\ timers' = timers \cup Timeouts({x})
  /\ UNCHANGED <<on, wait, found, stored, last, missed>>

\* net_toggle.
Toggle ==
  /\ now < Quiet
  /\ on' = ~on
  /\ UNCHANGED <<p, wait, found, stored, last, timers, missed>>

-----------------------------------------------------------------------------
(* Other nodes.                                                            *)

\* One value more of k; the newest is there, an older one may have had its
\* place.
Found(k, v) == \E kept \in SUBSET found[k] :
                 found' = [found EXCEPT ![k] = kept \cup {v}]

\* req_store: another node publishes.
StoreRequest(k, v) ==
  /\ now < Quiet /\ on
  /\ Found(k, v)
  /\ timers' = timers \cup {Soon}
  /\ UNCHANGED <<on, p, wait, stored, last, missed>>

\* One of the peers that a session has asked answers; str_req takes the
\* answer only while the session is in state REQ.
Answers(x) == on /\ p[x] = "REQ"

\* Mutant of Hop: the timers before are cancelled.
HopAnew(x) ==
  /\ Answers(x) /\ Kind[x] # "STORE"
  /\ timers' = {t \in timers : t.of # x} \cup {Call("TIMEOUT", x, Timeout)}
  /\ UNCHANGED <<on, p, wait, found, stored, last, missed>>

\* It does not know and names others: they are asked, with a timer beside
\* that of the first.
Hop(x) ==
  /\ Answers(x) /\ Kind[x] # "STORE"
  /\ timers' = timers \cup {Call("TIMEOUT", x, Timeout)}
  /\ UNCHANGED <<on, p, wait, found, stored, last, missed>>

\* It has the value.
Value(x, s, v) ==
  /\ Answers(x) /\ x \in Lookups[s]
  /\ p' = To(x, "DONE")
  /\ Found(For[s], v)
  /\ timers' = timers \cup {Soon}
  /\ UNCHANGED <<on, wait, stored, last, missed>>

\* The node is known, or the value is stored: that session is forgotten soon.
Confirmed(x) ==
  /\ Answers(x) /\ Kind[x] # "FIND_VALUE"
  /\ p' = To(x, "DONE")
  /\ timers' = timers \cup
       IF Kind[x] = "STORE" THEN {Call("FORGET", x, Forget)} ELSE {}
  /\ UNCHANGED <<on, wait, found, stored, last, missed>>

\* Nobody to ask further, or an answer that is none.
Refused(x) ==
  /\ Answers(x)
  /\ p' = To(x, "FAIL")
  /\ UNCHANGED <<on, wait, found, stored, last, timers, missed>>

-----------------------------------------------------------------------------
(* Timers.                                                                 *)

Runs(t, call) ==
  /\ t.call = call /\ Fires(t, timers)
  /\ on' = on

CheckTimer(t) ==
  /\ Runs(t, "CHECK")
  /\ timers' = timers \ {t}
  /\ CheckWaitvalues(stored)
  /\ UNCHANGED <<p, found>>

\* str_start after its delay, if the network is still on.
StartTimer(t) ==
  /\ Runs(t, "START")
  /\ LET X == {x \in Requests : x = t.of /\ p[x] = "START"} IN
     /\ Begin(X)
     /\ timers' = (timers \ {t}) \cup Timeouts(X)
  /\ UNCHANGED <<wait, found, stored, last, missed>>

\* Mutant of TimeoutTimer: it does not look whether the session is done.
TimeoutTimerBlind(t) ==
  /\ Runs(t, "TIMEOUT")
  /\ p' = To(t.of, "FAIL")
  /\ timers' = timers \ {t}
  /\ UNCHANGED <<wait, found, stored, last, missed>>

\* The timeout of one of the messages of a session ends it, whatever the
\* others are waiting for.
TimeoutTimer(t) ==
  /\ Runs(t, "TIMEOUT")
  /\ p' = IF p[t.of] = "DONE" THEN p ELSE To(t.of, "FAIL")
  /\ timers' = timers \ {t}
  /\ UNCHANGED <<wait, found, stored, last, missed>>

ForgetTimer(t) ==
  /\ Runs(t, "FORGET")
  /\ p' = To(t.of, "GONE")
  /\ timers' = timers \ {t}
  /\ UNCHANGED <<wait, found, stored, last, missed>>

\* Mutant of CloseTimer: a search without an answer goes on.
CloseTimerDone(t) ==
  /\ Runs(t, "CLOSE")
  /\ wait' = [wait EXCEPT ![t.of] = IF @ = "WAIT" THEN @ ELSE "DONE"]
  /\ timers' = timers \ {t}
  /\ UNCHANGED <<p, found, stored, last, missed>>

CloseTimer(t) ==
  /\ Runs(t, "CLOSE")
  /\ wait' = [wait EXCEPT ![t.of] = "DONE"]
  /\ timers' = timers \ {t}
  /\ UNCHANGED <<p, found, stored, last, missed>>

EraseTimer(t) ==
  /\ Runs(t, "ERASE")
  /\ wait' = [s \in Searches |->
                IF s = t.of \/ (t.of = Nobody /\ wait[s] # "NONE")
                THEN "GONE" ELSE wait[s]]
  /\ timers' = timers \ {t}
  /\ UNCHANGED <<p, found, stored, last, missed>>

-----------------------------------------------------------------------------

DirectoryUser ==
  \/ \E s \in Searches : Stop(s) \/ \E X \in SUBSET Lookups[s] : Search(s, X)
  \/ \E k \in Keys, X \in SUBSET Requests : Publish(k, X)
  \/ \E K \in SUBSET Keys, X \in SUBSET Requests : NetUpdate(K, X)
  \/ \E x \in Requests : FindNode(x) \/ \E d \in 0..Spread : StoreLater(x, d)
  \/ StopAll \/ Toggle

DirectoryNetwork ==
  \/ \E k \in Keys, v \in Values : StoreRequest(k, v)
  \/ \E x \in Requests :
       \/ Hop(x)
       \/ \E s \in Searches, v \in Values : Value(x, s, v)
       \/ Confirmed(x) \/ Refused(x)

DirectoryTimer ==
  \E t \in timers :
    \/ CheckTimer(t) \/ StartTimer(t) \/ TimeoutTimer(t) \/ ForgetTimer(t)
    \/ CloseTimer(t) \/ EraseTimer(t)

DirectoryNext == DirectoryUser \/ DirectoryNetwork \/ DirectoryTimer

-----------------------------------------------------------------------------
(* Properties.                                                             *)

\* Though check_waitvalues drops calls, a search whose value has come is
\* looked at again by a check that will not be dropped for what has been
\* checked so far, unless an error has kept the last one from it.
NothingOverlooked ==
  \A s \in Waiting \ missed :
    found[For[s]] # {} =>
      \E t \in timers : t.call = "CHECK" /\ t.due >= last + Throttle

\* However many peers a session was sent on to, and whichever of their timers
\* and answers come last: it ends once.  Only of a STORE that was confirmed
\* a timer makes a failure, after its session is forgotten.
EndsOnce ==
  [][\A x \in Requests :
       p[x] \in {"DONE", "FAIL"} =>
         \/ p'[x] = p[x]
         \/ Kind[x] = "STORE" /\ p[x] = "DONE" /\ p'[x] = "GONE"]_directory

\* The end of its 180 seconds cuts no search off from an answer: by then
\* str_req takes none for it any more.
LookupsOver ==
  [][\A s \in Searches :
       wait[s] = "WAIT" /\ wait'[s] = "DONE" /\ found[For[s]] = {}
         /\ For[s] \notin stored' =>
           \A x \in Lookups[s] : p[x] # "REQ"]_directory

\* Whatever is lost, and whenever the network is switched off: when the
\* users rest, every search and every session that was sent ends.
AllEnds ==
  <>[](Waiting = {} /\ \A x \in Requests : p[x] # "REQ")
=============================================================================
