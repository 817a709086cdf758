----------------------------- MODULE I2pSession -----------------------------
(***************************************************************************)
(* The session of mysteria5 with the I2P router (i2p.tcl): one control     *)
(* socket to the SAM bridge that goes hello, generate, create, ready, the  *)
(* second session for voice that is started once it is ready, and the 60 s *)
(* timers that start, check and restart both.                              *)
(*                                                                         *)
(* The program never looks at whose timer or whose socket it is that calls *)
(* back, and a new i2p_start takes ::cur(i2p,sock) over whatever was there.*)
(* The router answers the commands of a socket in order, or closes it.  It *)
(* gives a destination to one session at a time.                           *)
(***************************************************************************)
EXTENDS Integers, Sequences

CONSTANTS
  Controls, NoSock,
  MaxToggles,   \* bound: times the user switches the network off
  MaxFailures,  \* bound: times the router refuses, fails or closes
  MaxPending     \* bound: timers of one kind that are counted as pending

ASSUME SessionAssumption ==
  /\ NoSock \notin Controls
  /\ MaxToggles \in Nat /\ MaxFailures \in Nat /\ MaxPending \in Nat \ {0}

VARIABLES
  on,        \* ::cur(net,on)
  state,     \* ::cur(i2p,state)
  key,       \* ::cur(i2p,key) and ::cur(i2p,dest) are known
  current,      \* ::cur(i2p,sock)
  voice,     \* ::cur(i2p,mstate), "up" for what follows its hello
  starts,    \* pending "after 60000 i2p_start"
  vstarts,   \* pending "after 60000 i2p_mstart"
  checks,    \* pending "after 60000 i2p_check"
  vchecks,   \* pending "after 60000 i2p_mcheck"
  open,      \* control sockets that nobody has closed on our side
  dead,      \* the open ones that the router has closed
  asked,     \* asked[c]: commands on socket c without an answer
  holder,    \* the socket whose session has our destination at the router
  toggles,   \* times the network was switched off
  failures   \* times the router refused, failed or closed

ours   == <<on, state, key, current, voice>>
timers == <<starts, vstarts, checks, vchecks>>
router == <<open, dead, asked, holder>>
counts == <<toggles, failures>>
sessionVars   == <<ours, timers, router, counts>>

\* "none" is the empty string of the code.
SessionStates == {"none", "hello", "generate", "create", "ready"}

\* Types; there is a socket exactly while there is a state, and it is open.
SessionTypeOK ==
  /\ on \in BOOLEAN /\ key \in BOOLEAN
  /\ state \in SessionStates
  /\ voice \in {"none", "hello", "up"}
  /\ current \in Controls \cup {NoSock} /\ holder \in Controls \cup {NoSock}
  /\ starts \in 0..MaxPending /\ vstarts \in 0..MaxPending
  /\ checks \in 0..MaxPending /\ vchecks \in 0..MaxPending
  /\ open \subseteq Controls /\ dead \subseteq open
  /\ IF state = "none" THEN current = NoSock ELSE current \in open
  /\ asked \in [Controls -> Seq({"HELLO", "DEST", "SESSION"})]
  /\ toggles \in 0..MaxToggles /\ failures \in 0..MaxFailures

SessionInit ==
  /\ on = FALSE /\ key \in BOOLEAN
  /\ state = "none" /\ voice = "none"
  /\ current = NoSock /\ holder = NoSock
  /\ starts = 0 /\ vstarts = 0 /\ checks = 0 /\ vchecks = 0
  /\ open = {} /\ dead = {}
  /\ asked = [c \in Controls |-> <<>>]
  /\ toggles = 0 /\ failures = 0

-----------------------------------------------------------------------------
(* Parts of the actions.                                                   *)

Fail == failures < MaxFailures /\ failures' = failures + 1

Asks(c, command) == asked' = [asked EXCEPT ![c] = Append(@, command)]

\* i2p_end: the current socket is closed, and with it its session.
End ==
  /\ state' = "none" /\ current' = NoSock
  /\ open' = open \ {current} /\ dead' = dead \ {current}
  /\ holder' = IF holder = current THEN NoSock ELSE holder
  /\ asked' = IF current = NoSock THEN asked
              ELSE [asked EXCEPT ![current] = <<>>]

OneMore(n) == IF n < MaxPending THEN n + 1 ELSE n

\* "after 60000 i2p_start"
StartLater == starts' = OneMore(starts)

\* "after 60000 i2p_check", "after 60000 i2p_mcheck"
CheckLater == checks' = OneMore(checks)
VoiceCheckLater == vchecks' = OneMore(vchecks)

\* i2p_end, i2p_mend and another i2p_start in a minute
GiveUp == End /\ voice' = "none" /\ StartLater

\* i2p_start with a connection to the bridge
Connect ==
  /\ \E c \in Controls \ open :
       /\ current' = c /\ open' = open \cup {c}
       /\ asked' = [asked EXCEPT ![c] = <<"HELLO">>]
  /\ state' = "hello"
  /\ CheckLater
  /\ UNCHANGED <<voice, dead, holder, failures>>

\* i2p_start when the bridge does not answer: it only notices if there is no
\* socket from before, and says hello on that one otherwise.
ConnectFails ==
  /\ Fail
  /\ IF current = NoSock THEN UNCHANGED <<state, asked, checks>>
     ELSE /\ state' = "hello"
          /\ Asks(current, "HELLO")
          /\ CheckLater
  /\ UNCHANGED <<voice, current, open, dead, holder>>

\* i2p_mstart, with n timers for it left; it does not look whether the network
\* is on.  When the bridge does not answer it tries later, or says hello on the
\* socket from before, which is the same as on a new one.
VoiceStart(n) ==
  \/ /\ voice' = "hello" /\ VoiceCheckLater
     /\ vstarts' = n
     /\ UNCHANGED failures
  \/ /\ Fail /\ voice = "none"
     /\ vstarts' = OneMore(n)
     /\ UNCHANGED <<voice, vchecks>>

-----------------------------------------------------------------------------
(* The user: net_toggle.                                                   *)

SwitchOn ==
  /\ ~on /\ on' = TRUE
  /\ \/ Connect /\ UNCHANGED starts
     \/ /\ ConnectFails
        /\ IF current = NoSock THEN StartLater ELSE UNCHANGED starts
  /\ UNCHANGED <<key, vstarts, vchecks, toggles>>

SwitchOff ==
  /\ on /\ toggles < MaxToggles
  /\ on' = FALSE /\ toggles' = toggles + 1
  /\ End /\ voice' = "none"
  /\ UNCHANGED <<key, timers, failures>>

-----------------------------------------------------------------------------
(* Timers.                                                                 *)

\* Mutant of StartTimer: it does not ask whether the network is on.
StartTimerBlind ==
  /\ starts > 0
  /\ Connect /\ starts' = starts - 1
  /\ UNCHANGED <<on, key, vstarts, vchecks, toggles>>

\* i2p_start
StartTimer ==
  /\ starts > 0
  /\ \/ /\ ~on
        /\ End /\ voice' = "none" /\ starts' = starts - 1
        /\ UNCHANGED <<checks, failures>>
     \/ on /\ Connect /\ starts' = starts - 1
     \/ /\ on /\ ConnectFails
        /\ starts' = IF current = NoSock THEN starts ELSE starts - 1
  /\ UNCHANGED <<on, key, vstarts, vchecks, toggles>>

\* Mutant of CheckTimer: the session that hangs is not started again.
CheckTimerStops ==
  /\ checks > 0 /\ checks' = checks - 1
  /\ IF state \in {"none", "hello"} THEN End /\ voice' = "none"
     ELSE UNCHANGED <<state, current, voice, router>>
  /\ UNCHANGED <<on, key, starts, vstarts, vchecks, counts>>

\* i2p_check: only a session that hangs in hello is started again.
CheckTimer ==
  /\ checks > 0 /\ checks' = checks - 1
  /\ CASE state = "hello" -> GiveUp
       [] state = "none" -> End /\ voice' = "none" /\ UNCHANGED starts
       [] OTHER -> UNCHANGED <<state, current, voice, starts, router>>
  /\ UNCHANGED <<on, key, vstarts, vchecks, counts>>

\* i2p_mstart
VoiceStartTimer ==
  /\ vstarts > 0 /\ VoiceStart(vstarts - 1)
  /\ UNCHANGED <<on, state, key, current, starts, checks, router, toggles>>

\* i2p_mcheck: a voice session that hangs in hello ends everything.
VoiceCheckTimer ==
  /\ vchecks > 0 /\ vchecks' = vchecks - 1
  /\ IF voice = "hello" THEN GiveUp
     ELSE UNCHANGED <<state, current, voice, starts, router>>
  /\ UNCHANGED <<on, key, vstarts, checks, counts>>

-----------------------------------------------------------------------------
(* i2p_handler: the answer to the oldest command on socket c.  It goes by   *)
(* the state of the program, and writes to the current socket.             *)

Answered(c, command) ==
  c \in open \ dead /\ asked[c] # <<>> /\ Head(asked[c]) = command

\* The oldest command of c is done, and the current socket gets another.
AnsweredBy(c, command) ==
  LET rest == [asked EXCEPT ![c] = Tail(@)] IN
  asked' = [rest EXCEPT ![current] = Append(@, command)]

Done(c) == asked' = [asked EXCEPT ![c] = Tail(@)]

\* An answer that does not fit the state is ignored.
Ignored(c, command, expected) ==
  /\ Answered(c, command) /\ state # expected
  /\ Done(c)
  /\ holder' = IF command = "SESSION" /\ holder = NoSock THEN c ELSE holder
  /\ UNCHANGED <<ours, timers, open, dead, counts>>

\* Mutant of Refused: nobody reads the result.
RefusedUnread(c, command, expected) ==
  /\ Answered(c, command) /\ state = expected
  /\ Done(c)
  /\ state' = "ready"
  /\ UNCHANGED <<on, key, current, voice, timers, open, dead, holder, counts>>

\* A result that is not OK.  The router refuses a second session for our
\* destination.
Refused(c, command, expected) ==
  /\ Answered(c, command) /\ state = expected
  /\ \/ Fail
     \/ command = "SESSION" /\ holder # NoSock /\ UNCHANGED failures
  /\ GiveUp
  /\ UNCHANGED <<on, key, vstarts, checks, vchecks, toggles>>

HelloAnswer(c) ==
  /\ Answered(c, "HELLO") /\ state = "hello"
  /\ IF key THEN state' = "create" /\ AnsweredBy(c, "SESSION")
     ELSE state' = "generate" /\ AnsweredBy(c, "DEST")
  /\ UNCHANGED <<on, key, current, voice, timers, open, dead, holder, counts>>

\* The key is saved and used from now on.
DestOK(c) ==
  /\ Answered(c, "DEST") /\ state = "generate"
  /\ key' = TRUE
  /\ state' = "create" /\ AnsweredBy(c, "SESSION")
  /\ UNCHANGED <<on, current, voice, timers, open, dead, holder, counts>>

\* The session is there; i2p_mstart starts the voice session.
SessionOK(c) ==
  /\ Answered(c, "SESSION") /\ state = "create" /\ holder = NoSock
  /\ Done(c) /\ holder' = c
  /\ state' = "ready"
  /\ VoiceStart(vstarts)
  /\ UNCHANGED <<on, key, current, starts, checks, open, dead, toggles>>

\* Mutant of ControlEof: the session is not started again.
EofStops(c) ==
  /\ c \in dead
  /\ End
  /\ UNCHANGED <<on, key, voice, timers, counts>>

\* The router has closed c: i2p_end, which closes the current socket.  An
\* old one stays readable, and calls back again.
ControlEof(c) ==
  /\ c \in dead
  /\ End
  /\ StartLater
  /\ UNCHANGED <<on, key, voice, vstarts, checks, vchecks, counts>>

\* i2p_mhandler: the voice session gets past hello, or is ended alone.
VoiceAnswer == voice = "hello" /\ voice' = "up" /\ UNCHANGED failures
VoiceEnds == voice # "none" /\ voice' = "none" /\ Fail
VoiceHandler ==
  /\ VoiceAnswer \/ VoiceEnds
  /\ UNCHANGED <<on, state, key, current, timers, router, toggles>>

\* The router closes a control socket.
Close(c) ==
  /\ c \in open \ dead /\ Fail
  /\ dead' = dead \cup {c}
  /\ asked' = [asked EXCEPT ![c] = <<>>]
  /\ holder' = IF holder = c THEN NoSock ELSE holder
  /\ UNCHANGED <<ours, timers, open, toggles>>

-----------------------------------------------------------------------------

Timer == StartTimer \/ CheckTimer \/ VoiceStartTimer \/ VoiceCheckTimer

ControlHandler(c) ==
  \/ Ignored(c, "HELLO", "hello") \/ Ignored(c, "DEST", "generate")
  \/ Ignored(c, "SESSION", "create")
  \/ Refused(c, "HELLO", "hello") \/ Refused(c, "DEST", "generate")
  \/ Refused(c, "SESSION", "create")
  \/ HelloAnswer(c) \/ DestOK(c) \/ SessionOK(c)
  \/ ControlEof(c)

SessionNext ==
  \/ SwitchOn \/ SwitchOff
  \/ Timer \/ VoiceHandler
  \/ \E c \in Controls : ControlHandler(c) \/ Close(c)

SessionSpec == SessionInit /\ [][SessionNext]_sessionVars

\* Timers fire, and the router answers what it is asked; a program that says
\* hello again and again is answered before its check at last.
SessionFairness ==
  /\ WF_sessionVars(SwitchOn)
  /\ WF_sessionVars(StartTimer) /\ WF_sessionVars(CheckTimer)
  /\ WF_sessionVars(VoiceStartTimer) /\ WF_sessionVars(VoiceCheckTimer)
  /\ WF_sessionVars(VoiceAnswer /\ VoiceHandler)
  /\ \A c \in Controls :
       WF_sessionVars(ControlHandler(c)) /\ SF_sessionVars(HelloAnswer(c))

FairSessionSpec == SessionSpec /\ SessionFairness

-----------------------------------------------------------------------------
(* Properties.                                                             *)

\* However timers, refusals and closings fall together: while the network is
\* on, a session that is down is going to be started.
ComesBack == on /\ state = "none" => starts > 0

\* A timer that is still pending when the user switches the network off, and
\* an answer still under way, do not start the session behind the user's back.
OffStaysOff == ~on => state = "none"

\* Control sockets that are open while ::cur(i2p,sock) is another one.
Abandoned == open \ {current}

\* Unless an i2p_start has taken the place of an open socket: a session that
\* the program takes for ready is the one the router has given it.
ReadyIsOurs ==
  state = "ready" /\ Abandoned = {} /\ dead = {} => holder = current

\* Whatever the router and the voice session did: once that stops, the session
\* gets ready again, unless a socket was abandoned, whose handler and session
\* disturb all that follow.
Recovers == []<>(state = "ready" \/ Abandoned # {})
=============================================================================
