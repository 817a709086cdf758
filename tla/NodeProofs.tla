----------------------------- MODULE NodeProofs -----------------------------
(***************************************************************************)
(* Proofs about one node: no search is overlooked by check_waitvalues, no  *)
(* session ends twice, no search is cut off from an answer, and presence   *)
(* follows silence, for any number of searches, requests, values and       *)
(* friends, however late the event loop is.                                *)
(***************************************************************************)
EXTENDS Node, TLAPS

\* The last check was not after now.
Past == last <= now

\* A session waits for its start only if it is a STORE.
OnlyStoresWait == \A x \in Requests : p[x] = "START" => Kind[x] = "STORE"

\* The timer that forgets a session belongs to a STORE that was confirmed,
\* and there is one.
ForgetsDone ==
  /\ \A t \in timers : t.call = "FORGET" =>
       t.of \in Requests /\ p[t.of] = "DONE" /\ Kind[t.of] = "STORE"
  /\ \A t, u \in timers :
       t.call = "FORGET" /\ u.call = "FORGET" /\ t.of = u.of => t = u

\* A search that has not begun is not going to be closed, and nobody has been
\* asked for it.
NotYet ==
  \A s \in Searches :
    wait[s] = "NONE" =>
      /\ \A t \in timers : ~(t.call = "CLOSE" /\ t.of = s)
      /\ \A x \in Lookups[s] : p[x] # "REQ"

\* A session that a search waits for has a timeout before the search closes.
HasTimeout(x, c) ==
  \E t \in timers : t.call = "TIMEOUT" /\ t.of = x /\ t.due < c.due

InTime ==
  \A s \in Searches, c \in timers, x \in Requests :
    /\ x \in Lookups[s] /\ p[x] = "REQ"
    /\ c.call = "CLOSE" /\ c.of = s
    => HasTimeout(x, c)

DirectoryInv ==
  /\ now \in Nat /\ DirectoryTypeOK
  /\ Past /\ OnlyStoresWait /\ ForgetsDone /\ NotYet /\ InTime
  /\ NothingOverlooked

USE DirectoryAssumption, PresenceAssumption, ClockAssumption

-----------------------------------------------------------------------------
(* The beginning.                                                          *)

LEMMA DirectoryBegins == now = Throttle /\ DirectoryInit => DirectoryInv
<1> SUFFICES ASSUME now = Throttle, DirectoryInit PROVE DirectoryInv
  OBVIOUS
<1>1. DirectoryTypeOK
  BY DEF DirectoryInit, DirectoryTypeOK
<1>2. now \in Nat /\ Past
  BY DEF DirectoryInit, Past
<1>3. OnlyStoresWait /\ ForgetsDone /\ NotYet /\ InTime /\ NothingOverlooked
  BY DEF DirectoryInit, OnlyStoresWait, ForgetsDone, NotYet, InTime,
         NothingOverlooked, Waiting
<1> QED
  BY <1>1, <1>2, <1>3 DEF DirectoryInv

-----------------------------------------------------------------------------
(* Every step of the directory keeps its invariant.                        *)

\* A search: its check is not dropped, its requests time out before it ends.
LEMMA SearchKeeps ==
  ASSUME DirectoryInv, now' = now,
         NEW s \in Searches, NEW X \in SUBSET Lookups[s], Search(s, X)
  PROVE  DirectoryInv'
<1> USE DEF DirectoryInv, DirectoryTypeOK, Waiting, Search, Begin, Timeouts,
            New, Begun, Soon, Call
<1>1. DirectoryTypeOK'
  BY DEF Calls
<1>2. Past'
  BY DEF Past
<1>3. OnlyStoresWait'
  BY DEF OnlyStoresWait
<1>4. ForgetsDone'
  BY DEF ForgetsDone
<1>5. NotYet'
  BY DEF NotYet
<1>6. InTime'
  <2> SUFFICES ASSUME NEW z \in Searches, NEW c \in timers',
                      NEW x \in Requests, x \in Lookups[z], p'[x] = "REQ",
                      c.call = "CLOSE", c.of = z
               PROVE  HasTimeout(x, c)'
    BY DEF InTime
  <2>1. CASE p[x] = "REQ"
    <3>1. z # s
      BY <2>1 DEF NotYet
    <3>2. c \in timers
      BY <3>1
    <3> QED
      BY <2>1, <3>2 DEF InTime, HasTimeout
  <2>2. CASE p[x] # "REQ"
    <3>1. x \in X /\ on
      BY <2>2
    <3>2. z = s
      BY <3>1
    <3>3. c = Call("CLOSE", s, Lasting)
      BY <3>2 DEF NotYet
    <3>4. Call("TIMEOUT", x, Timeout) \in timers'
      BY <3>1
    <3> QED
      BY <3>3, <3>4 DEF HasTimeout
  <2> QED
    BY <2>1, <2>2
<1>7. NothingOverlooked'
  <2>1. Soon \in timers' /\ Soon.call = "CHECK" /\ Soon.due >= last' + Throttle
    BY DEF Past
  <2> QED
    BY <2>1 DEF NothingOverlooked
<1> QED
  BY <1>1, <1>2, <1>3, <1>4, <1>5, <1>6, <1>7

\* A stop.
LEMMA StopKeeps ==
  ASSUME DirectoryInv, now' = now,
         NEW s \in Searches, Stop(s)
  PROVE  DirectoryInv'
<1> USE DEF DirectoryInv, DirectoryTypeOK, Waiting, Stop, Soon, Call
<1>1. DirectoryTypeOK'
  BY DEF Calls
<1>2. Past'
  BY DEF Past
<1>3. OnlyStoresWait'
  BY DEF OnlyStoresWait
<1>4. ForgetsDone'
  BY DEF ForgetsDone
<1>5. NotYet'
  BY DEF NotYet
<1>6. InTime'
  BY DEF InTime, HasTimeout
<1>7. NothingOverlooked'
  BY DEF NothingOverlooked
<1> QED
  BY <1>1, <1>2, <1>3, <1>4, <1>5, <1>6, <1>7

\* A stop of all.
LEMMA StopAllKeeps ==
  ASSUME DirectoryInv, now' = now,
         StopAll
  PROVE  DirectoryInv'
<1> USE DEF DirectoryInv, DirectoryTypeOK, Waiting, StopAll, Soon, Call
<1>1. DirectoryTypeOK'
  BY DEF Calls
<1>2. Past'
  BY DEF Past
<1>3. OnlyStoresWait'
  BY DEF OnlyStoresWait
<1>4. ForgetsDone'
  BY DEF ForgetsDone
<1>5. NotYet'
  BY DEF NotYet
<1>6. InTime'
  BY DEF InTime, HasTimeout
<1>7. NothingOverlooked'
  BY DEF NothingOverlooked
<1> QED
  BY <1>1, <1>2, <1>3, <1>4, <1>5, <1>6, <1>7

\* A publication.
LEMMA PublishKeeps ==
  ASSUME DirectoryInv, now' = now,
         NEW k \in Keys, NEW X \in SUBSET Requests, Publish(k, X)
  PROVE  DirectoryInv'
<1> USE DEF DirectoryInv, DirectoryTypeOK, Waiting, Publish, Begin,
            Timeouts, New, Begun, Stores, Call
<1>1. DirectoryTypeOK'
  BY DEF Calls
<1>2. Past'
  BY DEF Past
<1>3. OnlyStoresWait'
  BY DEF OnlyStoresWait
<1>4. ForgetsDone'
  BY DEF ForgetsDone
<1>5. NotYet'
  BY DEF NotYet
<1>6. InTime'
  BY DEF InTime, HasTimeout
<1>7. NothingOverlooked'
  BY DEF NothingOverlooked
<1> QED
  BY <1>1, <1>2, <1>3, <1>4, <1>5, <1>6, <1>7

\* net_update: its check comes to every search, or is dropped and takes no
\* timer with it.
LEMMA NetUpdateKeeps ==
  ASSUME DirectoryInv, now' = now,
         NEW K \in SUBSET Keys, NEW X \in SUBSET Requests, NetUpdate(K, X)
  PROVE  DirectoryInv'
<1> USE DEF DirectoryInv, DirectoryTypeOK, Waiting, NetUpdate, Begin,
            Timeouts, New, Begun, Stores, Call, CheckWaitvalues, Pass, Seen,
            Dropped, Raises
<1>1. DirectoryTypeOK'
  BY DEF Calls
<1>2. Past'
  BY DEF Past
<1>3. OnlyStoresWait'
  BY DEF OnlyStoresWait
<1>4. ForgetsDone'
  BY DEF ForgetsDone
<1>5. NotYet'
  BY DEF NotYet
<1>6. InTime'
  BY DEF InTime, HasTimeout
<1>7. NothingOverlooked'
  BY DEF NothingOverlooked
<1> QED
  BY <1>1, <1>2, <1>3, <1>4, <1>5, <1>6, <1>7

\* A FIND_NODE.
LEMMA FindNodeKeeps ==
  ASSUME DirectoryInv, now' = now,
         NEW x \in Requests, FindNode(x)
  PROVE  DirectoryInv'
<1> USE DEF DirectoryInv, DirectoryTypeOK, Waiting, FindNode, Begin,
            Timeouts, New, Begun, Call
<1>1. DirectoryTypeOK'
  BY DEF Calls
<1>2. Past'
  BY DEF Past
<1>3. OnlyStoresWait'
  BY DEF OnlyStoresWait
<1>4. ForgetsDone'
  BY DEF ForgetsDone
<1>5. NotYet'
  BY DEF NotYet
<1>6. InTime'
  BY DEF InTime, HasTimeout
<1>7. NothingOverlooked'
  BY DEF NothingOverlooked
<1> QED
  BY <1>1, <1>2, <1>3, <1>4, <1>5, <1>6, <1>7

\* sol_store.
LEMMA StoreLaterKeeps ==
  ASSUME DirectoryInv, now' = now,
         NEW x \in Requests, NEW d \in 0..Spread, StoreLater(x, d)
  PROVE  DirectoryInv'
<1> USE DEF DirectoryInv, DirectoryTypeOK, Waiting, StoreLater, To, New,
            Begun, Call
<1>1. DirectoryTypeOK'
  BY DEF Calls
<1>2. Past'
  BY DEF Past
<1>3. OnlyStoresWait'
  BY DEF OnlyStoresWait
<1>4. ForgetsDone'
  BY DEF ForgetsDone
<1>5. NotYet'
  BY DEF NotYet
<1>6. InTime'
  BY DEF InTime, HasTimeout
<1>7. NothingOverlooked'
  BY DEF NothingOverlooked
<1> QED
  BY <1>1, <1>2, <1>3, <1>4, <1>5, <1>6, <1>7

\* The switch.
LEMMA ToggleKeeps ==
  ASSUME DirectoryInv, now' = now,
         Toggle
  PROVE  DirectoryInv'
<1> USE DEF DirectoryInv, DirectoryTypeOK, Waiting, Toggle
<1>1. DirectoryTypeOK'
  BY DEF Calls
<1>2. Past'
  BY DEF Past
<1>3. OnlyStoresWait'
  BY DEF OnlyStoresWait
<1>4. ForgetsDone'
  BY DEF ForgetsDone
<1>5. NotYet'
  BY DEF NotYet
<1>6. InTime'
  BY DEF InTime, HasTimeout
<1>7. NothingOverlooked'
  BY DEF NothingOverlooked
<1> QED
  BY <1>1, <1>2, <1>3, <1>4, <1>5, <1>6, <1>7

\* A value from another node: a check is on its way.
LEMMA StoreRequestKeeps ==
  ASSUME DirectoryInv, now' = now,
         NEW k \in Keys, NEW v \in Values, StoreRequest(k, v)
  PROVE  DirectoryInv'
<1> USE DEF DirectoryInv, DirectoryTypeOK, Waiting, StoreRequest, Found,
            Soon, Call
<1>1. DirectoryTypeOK'
  BY DEF Calls
<1>2. Past'
  BY DEF Past
<1>3. OnlyStoresWait'
  BY DEF OnlyStoresWait
<1>4. ForgetsDone'
  BY DEF ForgetsDone
<1>5. NotYet'
  BY DEF NotYet
<1>6. InTime'
  BY DEF InTime, HasTimeout
<1>7. NothingOverlooked'
  <2>1. Soon \in timers' /\ Soon.call = "CHECK" /\ Soon.due >= last' + Throttle
    BY DEF Past
  <2> QED
    BY <2>1 DEF NothingOverlooked
<1> QED
  BY <1>1, <1>2, <1>3, <1>4, <1>5, <1>6, <1>7

\* Further hops only add timers.
LEMMA HopKeeps ==
  ASSUME DirectoryInv, now' = now,
         NEW x \in Requests, Hop(x)
  PROVE  DirectoryInv'
<1> USE DEF DirectoryInv, DirectoryTypeOK, Waiting, Hop, Answers, Call
<1>1. DirectoryTypeOK'
  BY DEF Calls
<1>2. Past'
  BY DEF Past
<1>3. OnlyStoresWait'
  BY DEF OnlyStoresWait
<1>4. ForgetsDone'
  BY DEF ForgetsDone
<1>5. NotYet'
  BY DEF NotYet
<1>6. InTime'
  BY DEF InTime, HasTimeout
<1>7. NothingOverlooked'
  BY DEF NothingOverlooked
<1> QED
  BY <1>1, <1>2, <1>3, <1>4, <1>5, <1>6, <1>7

\* A value that was asked for: a check is on its way.
LEMMA ValueKeeps ==
  ASSUME DirectoryInv, now' = now,
         NEW x \in Requests, NEW s \in Searches, NEW v \in Values, Value(x, s, v)
  PROVE  DirectoryInv'
<1> USE DEF DirectoryInv, DirectoryTypeOK, Waiting, Value, Answers, Found,
            To, Soon, Call
<1>1. DirectoryTypeOK'
  BY DEF Calls
<1>2. Past'
  BY DEF Past
<1>3. OnlyStoresWait'
  BY DEF OnlyStoresWait
<1>4. ForgetsDone'
  BY DEF ForgetsDone
<1>5. NotYet'
  BY DEF NotYet
<1>6. InTime'
  BY DEF InTime, HasTimeout
<1>7. NothingOverlooked'
  <2>1. Soon \in timers' /\ Soon.call = "CHECK" /\ Soon.due >= last' + Throttle
    BY DEF Past
  <2> QED
    BY <2>1 DEF NothingOverlooked
<1> QED
  BY <1>1, <1>2, <1>3, <1>4, <1>5, <1>6, <1>7

\* A confirmed STORE gets the one timer that forgets it.
LEMMA ConfirmedKeeps ==
  ASSUME DirectoryInv, now' = now,
         NEW x \in Requests, Confirmed(x)
  PROVE  DirectoryInv'
<1> USE DEF DirectoryInv, DirectoryTypeOK, Waiting, Confirmed, Answers, To,
            Call
<1>1. DirectoryTypeOK'
  BY DEF Calls
<1>2. Past'
  BY DEF Past
<1>3. OnlyStoresWait'
  BY DEF OnlyStoresWait
<1>4. ForgetsDone'
  BY DEF ForgetsDone
<1>5. NotYet'
  BY DEF NotYet
<1>6. InTime'
  BY DEF InTime, HasTimeout
<1>7. NothingOverlooked'
  BY DEF NothingOverlooked
<1> QED
  BY <1>1, <1>2, <1>3, <1>4, <1>5, <1>6, <1>7

\* A refusal.
LEMMA RefusedKeeps ==
  ASSUME DirectoryInv, now' = now,
         NEW x \in Requests, Refused(x)
  PROVE  DirectoryInv'
<1> USE DEF DirectoryInv, DirectoryTypeOK, Waiting, Refused, Answers, To
<1>1. DirectoryTypeOK'
  BY DEF Calls
<1>2. Past'
  BY DEF Past
<1>3. OnlyStoresWait'
  BY DEF OnlyStoresWait
<1>4. ForgetsDone'
  BY DEF ForgetsDone
<1>5. NotYet'
  BY DEF NotYet
<1>6. InTime'
  BY DEF InTime, HasTimeout
<1>7. NothingOverlooked'
  BY DEF NothingOverlooked
<1> QED
  BY <1>1, <1>2, <1>3, <1>4, <1>5, <1>6, <1>7

\* The timer of a check that is dropped is not the one a search relies on.
LEMMA CheckTimerKeeps ==
  ASSUME DirectoryInv, now' = now,
         NEW t \in timers, CheckTimer(t)
  PROVE  DirectoryInv'
<1> USE DEF DirectoryInv, DirectoryTypeOK, Waiting, CheckTimer, Runs, Fires,
            CheckWaitvalues, Pass, Seen, Dropped, Raises
<1>1. DirectoryTypeOK'
  BY DEF Calls
<1>2. Past'
  BY DEF Past
<1>3. OnlyStoresWait'
  BY DEF OnlyStoresWait
<1>4. ForgetsDone'
  BY DEF ForgetsDone
<1>5. NotYet'
  BY DEF NotYet
<1>6. InTime'
  BY DEF InTime, HasTimeout
<1>7. NothingOverlooked'
  BY DEF NothingOverlooked
<1> QED
  BY <1>1, <1>2, <1>3, <1>4, <1>5, <1>6, <1>7

\* A late start is that of a STORE.
LEMMA StartTimerKeeps ==
  ASSUME DirectoryInv, now' = now,
         NEW t \in timers, StartTimer(t)
  PROVE  DirectoryInv'
<1> USE DEF DirectoryInv, DirectoryTypeOK, Waiting, StartTimer, Runs, Fires,
            Begin, Timeouts, Call
<1>1. DirectoryTypeOK'
  BY DEF Calls
<1>2. Past'
  BY DEF Past
<1>3. OnlyStoresWait'
  BY DEF OnlyStoresWait
<1>4. ForgetsDone'
  BY DEF ForgetsDone
<1>5. NotYet'
  BY DEF NotYet, OnlyStoresWait
<1>6. InTime'
  <2> SUFFICES ASSUME NEW z \in Searches, NEW c \in timers',
                      NEW x \in Requests, x \in Lookups[z], p'[x] = "REQ",
                      c.call = "CLOSE", c.of = z
               PROVE  HasTimeout(x, c)'
    BY DEF InTime
  <2>1. c \in timers /\ p[x] = "REQ"
    BY DEF OnlyStoresWait
  <2>2. HasTimeout(x, c)
    BY <2>1 DEF InTime
  <2> QED
    BY <2>2 DEF HasTimeout
<1>7. NothingOverlooked'
  BY DEF NothingOverlooked
<1> QED
  BY <1>1, <1>2, <1>3, <1>4, <1>5, <1>6, <1>7

\* A timeout: the session does not wait any more.
LEMMA TimeoutTimerKeeps ==
  ASSUME DirectoryInv, now' = now,
         NEW t \in timers, TimeoutTimer(t)
  PROVE  DirectoryInv'
<1> USE DEF DirectoryInv, DirectoryTypeOK, Waiting, TimeoutTimer, Runs,
            Fires, To
<1>1. DirectoryTypeOK'
  BY DEF Calls
<1>2. Past'
  BY DEF Past
<1>3. OnlyStoresWait'
  BY DEF OnlyStoresWait
<1>4. ForgetsDone'
  BY DEF ForgetsDone
<1>5. NotYet'
  BY DEF NotYet
<1>6. InTime'
  BY DEF InTime, HasTimeout
<1>7. NothingOverlooked'
  BY DEF NothingOverlooked
<1> QED
  BY <1>1, <1>2, <1>3, <1>4, <1>5, <1>6, <1>7

\* The end of a confirmed STORE.
LEMMA ForgetTimerKeeps ==
  ASSUME DirectoryInv, now' = now,
         NEW t \in timers, ForgetTimer(t)
  PROVE  DirectoryInv'
<1> USE DEF DirectoryInv, DirectoryTypeOK, Waiting, ForgetTimer, Runs,
            Fires, To
<1>1. DirectoryTypeOK'
  BY DEF Calls
<1>2. Past'
  BY DEF Past
<1>3. OnlyStoresWait'
  BY DEF OnlyStoresWait
<1>4. ForgetsDone'
  BY DEF ForgetsDone
<1>5. NotYet'
  BY DEF NotYet
<1>6. InTime'
  BY DEF InTime, HasTimeout
<1>7. NothingOverlooked'
  BY DEF NothingOverlooked
<1> QED
  BY <1>1, <1>2, <1>3, <1>4, <1>5, <1>6, <1>7

\* The end of a search.
LEMMA CloseTimerKeeps ==
  ASSUME DirectoryInv, now' = now,
         NEW t \in timers, CloseTimer(t)
  PROVE  DirectoryInv'
<1> USE DEF DirectoryInv, DirectoryTypeOK, Waiting, CloseTimer, Runs, Fires
<1>1. DirectoryTypeOK'
  BY DEF Calls
<1>2. Past'
  BY DEF Past
<1>3. OnlyStoresWait'
  BY DEF OnlyStoresWait
<1>4. ForgetsDone'
  BY DEF ForgetsDone
<1>5. NotYet'
  BY DEF NotYet
<1>6. InTime'
  BY DEF InTime, HasTimeout
<1>7. NothingOverlooked'
  BY DEF NothingOverlooked
<1> QED
  BY <1>1, <1>2, <1>3, <1>4, <1>5, <1>6, <1>7

\* The end of a stopped search.
LEMMA EraseTimerKeeps ==
  ASSUME DirectoryInv, now' = now,
         NEW t \in timers, EraseTimer(t)
  PROVE  DirectoryInv'
<1> USE DEF DirectoryInv, DirectoryTypeOK, Waiting, EraseTimer, Runs, Fires
<1>1. DirectoryTypeOK'
  BY DEF Calls
<1>2. Past'
  BY DEF Past
<1>3. OnlyStoresWait'
  BY DEF OnlyStoresWait
<1>4. ForgetsDone'
  BY DEF ForgetsDone
<1>5. NotYet'
  BY DEF NotYet
<1>6. InTime'
  BY DEF InTime, HasTimeout
<1>7. NothingOverlooked'
  BY DEF NothingOverlooked
<1> QED
  BY <1>1, <1>2, <1>3, <1>4, <1>5, <1>6, <1>7

LEMMA DirectoryNextKeeps ==
  ASSUME DirectoryInv, now' = now, DirectoryNext
  PROVE  DirectoryInv'
<1>1. CASE DirectoryUser
  BY <1>1, StopKeeps, StopAllKeeps, SearchKeeps, PublishKeeps,
     NetUpdateKeeps, FindNodeKeeps, StoreLaterKeeps, ToggleKeeps DEF DirectoryUser
<1>2. CASE DirectoryNetwork
  BY <1>2, StoreRequestKeeps, HopKeeps, ValueKeeps, ConfirmedKeeps,
     RefusedKeeps DEF DirectoryNetwork
<1>3. CASE DirectoryTimer
  BY <1>3, CheckTimerKeeps, StartTimerKeeps, TimeoutTimerKeeps,
     ForgetTimerKeeps, CloseTimerKeeps, EraseTimerKeeps DEF DirectoryTimer
<1> QED
  BY <1>1, <1>2, <1>3 DEF DirectoryNext

\* Time alone changes nothing of it.
LEMMA DirectoryRests ==
  ASSUME DirectoryInv, UNCHANGED directory, now' \in {now, now + 1}
  PROVE  DirectoryInv'
<1> USE DEF DirectoryInv, directory
<1>1. DirectoryTypeOK'
  BY DEF DirectoryTypeOK
<1>2. now' \in Nat /\ Past'
  BY DEF Past, DirectoryTypeOK
<1>3. OnlyStoresWait' /\ ForgetsDone' /\ NotYet' /\ NothingOverlooked'
  BY DEF OnlyStoresWait, ForgetsDone, NotYet, NothingOverlooked, Waiting
<1>4. InTime'
  BY DEF InTime, HasTimeout
<1> QED
  BY <1>1, <1>2, <1>3, <1>4

-----------------------------------------------------------------------------
(* What a step does to sessions and searches.                              *)

Ended(x) == p[x] \in {"DONE", "FAIL"}

\* No step ends a session twice.
LEMMA StepEndsOnce ==
  ASSUME DirectoryInv, DirectoryNext, NEW x \in Requests, Ended(x)
  PROVE  \/ p'[x] = p[x]
         \/ Kind[x] = "STORE" /\ p[x] = "DONE" /\ p'[x] = "GONE"
<1> USE DEF DirectoryInv, DirectoryTypeOK, Ended, To, Begin, New, Begun
<1>1. CASE DirectoryUser
  <2>1. ASSUME NEW X, New(X), Begin(X) PROVE p'[x] = p[x]
    BY <2>1
  <2>2. ASSUME NEW y \in Requests, NEW d, StoreLater(y, d) PROVE p'[x] = p[x]
    BY <2>2 DEF StoreLater
  <2> HIDE DEF New, Begin
  <2> QED
    BY <1>1, <2>1, <2>2 DEF DirectoryUser, Stop, StopAll, Search, Publish,
                            NetUpdate, FindNode, Toggle
<1>2. CASE DirectoryNetwork
  BY <1>2 DEF DirectoryNetwork, StoreRequest, Hop, Value, Confirmed, Refused,
              Answers
<1>3. ASSUME NEW t \in timers, ForgetTimer(t)
      PROVE  \/ p'[x] = p[x]
             \/ Kind[x] = "STORE" /\ p[x] = "DONE" /\ p'[x] = "GONE"
  BY <1>3 DEF ForgetTimer, Runs, ForgetsDone
<1>4. ASSUME NEW t \in timers,
             \/ CheckTimer(t) \/ StartTimer(t) \/ TimeoutTimer(t)
             \/ CloseTimer(t) \/ EraseTimer(t)
      PROVE  p'[x] = p[x]
  BY <1>4 DEF CheckTimer, StartTimer, TimeoutTimer, CloseTimer, EraseTimer
<1> QED
  BY <1>1, <1>2, <1>3, <1>4 DEF DirectoryNext, DirectoryTimer

\* What ends a search is a value, or the timer that closes it.
LEMMA StepEndsSearch ==
  ASSUME DirectoryInv, DirectoryNext, NEW s \in Searches,
         wait[s] = "WAIT", wait'[s] = "DONE"
  PROVE  \/ found[For[s]] # {}
         \/ For[s] \in stored'
         \/ \E t \in timers : CloseTimer(t) /\ t.of = s
<1> USE DEF DirectoryInv, DirectoryTypeOK
<1>1. CASE DirectoryUser
  <2>1. ASSUME NEW K \in SUBSET Keys, NEW X \in SUBSET Requests,
               NetUpdate(K, X)
        PROVE  found[For[s]] # {} \/ For[s] \in stored'
    BY <2>1 DEF NetUpdate, CheckWaitvalues, Pass
  <2> QED
    BY <1>1, <2>1 DEF DirectoryUser, Stop, StopAll, Search, Publish,
                      FindNode, StoreLater, Toggle
<1>2. CASE DirectoryNetwork
  BY <1>2 DEF DirectoryNetwork, StoreRequest, Hop, Value, Confirmed, Refused
<1>3. ASSUME NEW t \in timers, CheckTimer(t)
      PROVE  found[For[s]] # {} \/ For[s] \in stored'
  BY <1>3 DEF CheckTimer, CheckWaitvalues, Pass
<1>4. ASSUME NEW t \in timers, CloseTimer(t)
      PROVE  t.of = s
  BY <1>4 DEF CloseTimer
<1>5. ASSUME NEW t \in timers,
             StartTimer(t) \/ TimeoutTimer(t) \/ ForgetTimer(t) \/ EraseTimer(t)
      PROVE  FALSE
  BY <1>5 DEF StartTimer, TimeoutTimer, ForgetTimer, EraseTimer
<1> QED
  BY <1>1, <1>2, <1>3, <1>4, <1>5 DEF DirectoryNext, DirectoryTimer

\* When that timer runs, the timeouts of the search's requests have run.
LEMMA ClosesLast ==
  ASSUME DirectoryInv, NEW s \in Searches, NEW x \in Lookups[s],
         NEW t \in timers, CloseTimer(t), t.of = s
  PROVE  p[x] # "REQ"
<1> SUFFICES ASSUME p[x] = "REQ" PROVE FALSE
  OBVIOUS
<1>1. x \in Requests /\ t.call = "CLOSE"
  BY DEF CloseTimer, Runs
<1>2. HasTimeout(x, t)
  BY <1>1 DEF DirectoryInv, InTime
<1>3. PICK u \in timers : u.due < t.due
  BY <1>2 DEF HasTimeout
<1>4. t.due <= u.due
  BY DEF CloseTimer, Runs, Fires
<1>5. t.due \in Nat /\ u.due \in Nat
  BY DEF DirectoryInv, DirectoryTypeOK
<1> QED
  BY <1>3, <1>4, <1>5

-----------------------------------------------------------------------------
(* Presence.                                                               *)

\* A timer knows the second of its notice.
Stamped ==
  \A t \in away : Lapse <= t.due /\ t.epoch = (t.due - Lapse) \div Second

\* The status of a peer that is shown online is that of its last notice.
Heard ==
  \A q \in Friends :
    heard[q] <= now /\ (status[q] = "online" => epoch[q] = heard[q] \div Second)

PresenceInv ==
  now \in Nat /\ PresenceTypeOK /\ Stamped /\ Heard /\ SilenceShows

LEMMA SameSecond ==
  ASSUME NEW a \in Nat, NEW b \in Nat, a \div Second = b \div Second
  PROVE  a < b + Second
<1> DEFINE m == a \div Second
<1>1. m \in Int /\ Second \in Int /\ Second > 0
  OBVIOUS
<1>2. a = Second * m + (a % Second) /\ b = Second * m + (b % Second)
  OBVIOUS
<1>3. a % Second \in 0..(Second - 1) /\ b % Second \in 0..(Second - 1)
  OBVIOUS
<1>4. Second * m \in Int
  BY <1>1
<1> QED
  BY <1>2, <1>3, <1>4

LEMMA PresenceBegins == now \in Nat /\ PresenceInit => PresenceInv
  BY DEF PresenceInit, PresenceInv, PresenceTypeOK, Stamped, Heard, SilenceShows

LEMMA WholeSeconds == ASSUME NEW a \in Nat PROVE a \div Second \in Nat
  OBVIOUS

LEMMA HearKeeps ==
  ASSUME PresenceInv, now' = now, NEW q \in Friends, Hear(q)
  PROVE  PresenceInv'
<1> USE DEF PresenceInv, PresenceTypeOK, Hear, Lapses, Seconds
<1>1. Seconds \in Nat
  BY WholeSeconds
<1>2. PresenceTypeOK'
  BY <1>1
<1>3. Stamped'
  BY DEF Stamped
<1>4. Heard'
  BY DEF Heard
<1>5. SilenceShows'
  <2>1. /\ Lapses(q) \in away' /\ Lapses(q).of = q
        /\ Lapses(q).epoch = epoch'[q]
        /\ Lapses(q).due <= heard'[q] + Lapse
    BY <1>1, PresenceAssumption
  <2>2. ASSUME NEW r \in Friends \ {q}, status[r] = "online"
        PROVE  \E t \in away' : /\ t.of = r /\ t.epoch = epoch'[r]
                                /\ t.due <= heard'[r] + Lapse
    <3>1. PICK t \in away : /\ t.of = r /\ t.epoch = epoch[r]
                            /\ t.due <= heard[r] + Lapse
      BY <2>2 DEF SilenceShows
    <3> QED
      BY <3>1
  <2>3. status'[q] = "online" => \E t \in away' :
          t.of = q /\ t.epoch = epoch'[q] /\ t.due <= heard'[q] + Lapse
    BY <2>1
  <2> QED
    BY <2>2, <2>3 DEF SilenceShows
<1> QED
  BY <1>2, <1>3, <1>4, <1>5

LEMMA AwayKeeps ==
  ASSUME PresenceInv, now' = now, NEW t \in away, AwayTimer(t)
  PROVE  PresenceInv'
<1> USE DEF PresenceInv, PresenceTypeOK, AwayTimer, Current
<1>1. Seconds \in Nat
  BY WholeSeconds DEF Seconds
<1>2. PresenceTypeOK'
  BY <1>1
<1>3. Stamped' /\ Heard'
  BY DEF Stamped, Heard
<1>4. SilenceShows'
  BY DEF SilenceShows
<1> QED
  BY <1>2, <1>3, <1>4

LEMMA PresenceRests ==
  ASSUME PresenceInv, UNCHANGED presence, now' \in {now, now + 1}
  PROVE  PresenceInv'
  BY DEF PresenceInv, presence, PresenceTypeOK, Stamped, Heard, SilenceShows

\* The timer that takes a peer offline is that of its last second.
LEMMA AwayAfterSilence ==
  ASSUME PresenceInv, NEW t \in away, AwayTimer(t), NEW q \in Friends,
         status[q] = "online", status'[q] = "offline"
  PROVE  now + Second > heard[q] + Lapse
<1> USE DEF PresenceInv, PresenceTypeOK
<1>1. t.of = q /\ epoch[q] = t.epoch
  BY DEF AwayTimer, Current
<1>2. heard[q] \in Nat /\ t.due - Lapse \in Nat
  BY DEF Stamped
<1>3. heard[q] \div Second = (t.due - Lapse) \div Second
  BY <1>1 DEF Stamped, Heard
<1>4. heard[q] < (t.due - Lapse) + Second
  BY <1>2, <1>3, SameSecond
<1>5. t.due <= now
  BY DEF AwayTimer, Fires
<1> QED
  BY <1>2, <1>4, <1>5

-----------------------------------------------------------------------------
(* The node.                                                               *)

Inv == DirectoryInv /\ PresenceInv

LEMMA NodeBegins == Init => Inv
  BY DirectoryBegins, PresenceBegins DEF Init, Inv

LEMMA NodeKeeps == Inv /\ [Next]_vars => Inv'
<1> SUFFICES ASSUME Inv, [Next]_vars PROVE Inv'
  OBVIOUS
<1> USE DEF Inv
<1>1. now \in Nat
  BY DEF PresenceInv
<1>2. CASE DirectoryStep
  BY <1>1, <1>2, DirectoryNextKeeps, PresenceRests DEF DirectoryStep
<1>3. CASE Notice
  BY <1>1, <1>3, HearKeeps, DirectoryRests DEF Notice
<1>4. CASE Lapsed
  BY <1>1, <1>4, AwayKeeps, DirectoryRests DEF Lapsed
<1>5. CASE Tick
  BY <1>1, <1>5, DirectoryRests, PresenceRests DEF Tick
<1>6. CASE UNCHANGED vars
  BY <1>1, <1>6, DirectoryRests, PresenceRests DEF vars
<1> QED
  BY <1>2, <1>3, <1>4, <1>5, <1>6 DEF Next

THEOREM InvHolds == Spec => []Inv
  BY NodeBegins, NodeKeeps, PTL DEF Spec

\* The variables of a node keep their types.
THEOREM NodeTypes == Spec => []TypeOK
<1>1. Inv => TypeOK
  BY DEF Inv, DirectoryInv, PresenceInv, TypeOK
<1> QED
  BY <1>1, InvHolds, PTL

\* A search whose value has come is looked at again by a check that is not
\* dropped, though check_waitvalues drops calls.
THEOREM NeverOverlooked == Spec => []NothingOverlooked
<1>1. Inv => NothingOverlooked
  BY DEF Inv, DirectoryInv
<1> QED
  BY <1>1, InvHolds, PTL

\* A session ends once, whatever its hops and their timers do later.
THEOREM SessionsEndOnce == Spec => EndsOnce
<1>1. Inv /\ [Next]_vars =>
        [\A x \in Requests :
           p[x] \in {"DONE", "FAIL"} =>
             \/ p'[x] = p[x]
             \/ Kind[x] = "STORE" /\ p[x] = "DONE" /\ p'[x] = "GONE"]_directory
  BY StepEndsOnce
     DEF Inv, Ended, Next, DirectoryStep, Notice, Lapsed, Tick, vars, directory
<1> QED
  BY <1>1, InvHolds, PTL DEF Spec, EndsOnce

\* The end of its time cuts no search off from an answer.
THEOREM NoAnswerCutOff == Spec => LookupsOver
<1>1. Inv /\ [Next]_vars =>
        [\A s \in Searches :
           wait[s] = "WAIT" /\ wait'[s] = "DONE" /\ found[For[s]] = {}
             /\ For[s] \notin stored' =>
               \A x \in Lookups[s] : p[x] # "REQ"]_directory
  BY StepEndsSearch, ClosesLast
     DEF Inv, Next, DirectoryStep, Notice, Lapsed, Tick, vars, directory
<1> QED
  BY <1>1, InvHolds, PTL DEF Spec, LookupsOver

\* Whoever is shown online will be shown offline if nothing more is heard.
THEOREM SilenceIsShown == Spec => []SilenceShows
<1>1. Inv => SilenceShows
  BY DEF Inv, PresenceInv
<1> QED
  BY <1>1, InvHolds, PTL

\* Nobody is taken offline by the timer of an earlier notice.
THEOREM OfflineIsSilence == Spec => OnlySilence
<1>1. Inv /\ [Next]_vars =>
        [\A q \in Friends :
           status[q] = "online" /\ status'[q] = "offline" =>
             now + Second > heard[q] + Lapse]_presence
  <2> SUFFICES ASSUME Inv, [Next]_vars, NEW q \in Friends,
                      status[q] = "online", status'[q] = "offline"
               PROVE  now + Second > heard[q] + Lapse
    BY DEF presence
  <2>1. ASSUME NEW r \in Friends, Hear(r) PROVE FALSE
    BY <2>1 DEF Hear, Inv, PresenceInv, PresenceTypeOK
  <2>2. \E t \in away : AwayTimer(t)
    BY <2>1 DEF Next, DirectoryStep, Notice, Lapsed, Tick, vars, presence
  <2> QED
    BY <2>2, AwayAfterSilence DEF Inv
<1> QED
  BY <1>1, InvHolds, PTL DEF Spec, OnlySilence
=============================================================================
