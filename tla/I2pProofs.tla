------------------------------ MODULE I2pProofs ------------------------------
(***************************************************************************)
(* Proofs about the two halves of the I2P transport: I2pStreams, for any   *)
(* destinations, messages, names of sockets, failures and timers, and      *)
(* I2pSession, for any number of control sockets and any number of         *)
(* switches, failures and timers.  The last theorem joins them: what       *)
(* I2pStreams assumes of the session is what I2pSession does.              *)
(***************************************************************************)
EXTENDS I2pStreams, I2pSession, FiniteSetTheorems, TLAPS

SInv == TypeOK /\ NoGhosts /\ WrittenOnce /\ ConnectEnds

-----------------------------------------------------------------------------
(* Sockets.                                                                *)

SockOK == /\ sock \in [Socks -> DataSock \cup {Free}]
          /\ chan \in [Socks -> {"closed", "open", "mute", "ended", "eof"}]

\* Variables and channel go together.
LEMMA DropKeeps ==
  ASSUME SockOK, NoGhosts, NEW cs, Drop(cs)
  PROVE  /\ SockOK' /\ NoGhosts'
         /\ \A c \in Socks : sock'[c] = Free \/ sock'[c] = sock[c]
BY StreamsAssumption DEF SockOK, NoGhosts, Drop

LEMMA ReplaceKeeps ==
  ASSUME SockOK, NoGhosts, NEW gone, NEW new, NEW d \in Dests \cup {NoDest},
         Replace(gone, new, d)
  PROVE  /\ SockOK' /\ NoGhosts'
         /\ \A c \in Socks : \/ sock'[c] = Free \/ sock'[c] = sock[c]
                             \/ sock'[c].state = "hello"
<1>1. [state |-> "hello", dest |-> d] \in DataSock
  BY DEF DataSock, States
<1> QED  BY <1>1, StreamsAssumption DEF SockOK, NoGhosts, Replace

LEMMA MoveKeeps ==
  ASSUME SockOK, NoGhosts, NEW c \in Socks, sock[c] # Free,
         NEW s \in States, NEW d \in Dests \cup {NoDest},
         Move(c, s, d), UNCHANGED chan
  PROVE  /\ SockOK' /\ NoGhosts'
         /\ sock'[c] # Free /\ sock'[c].state = s
         /\ \A e \in Socks \ {c} : sock'[e] = sock[e]
<1>1. [state |-> s, dest |-> d] \in DataSock
  BY DEF DataSock
<1> QED  BY <1>1, StreamsAssumption DEF SockOK, NoGhosts, Move

-----------------------------------------------------------------------------
(* Timers.                                                                 *)

LEMMA TimersKeep ==
  ASSUME retry \in [Socks -> [0..2 -> 0..MaxTimers]],
         NEW c \in Socks, NEW a \in 0..3, NEW new \in SUBSET (0..2),
         a # 3 => retry[c][a] > 0,
         \A b \in new : b # a /\ retry[c][b] < MaxTimers,
         SetTimers(c, a, new)
  PROVE  /\ retry' \in [Socks -> [0..2 -> 0..MaxTimers]]
         /\ \A b \in new : retry'[c][b] > 0
         /\ \A e \in Socks, b \in 0..2 :
              retry[e][b] > 0 => retry'[e][b] > 0 \/ (e = c /\ b = a)
<1> DEFINE f == [b \in 0..2 |-> IF b = a THEN retry[c][b] - 1
                               ELSE IF b \in new THEN retry[c][b] + 1
                               ELSE retry[c][b]]
<1>1. retry' = [retry EXCEPT ![c] = f]
  BY DEF SetTimers
<1>2. retry[c] \in [0..2 -> 0..MaxTimers]
  OBVIOUS
<1>3. f \in [0..2 -> 0..MaxTimers]
  BY <1>2, StreamsAssumption
<1>4. \A b \in new : f[b] > 0
  BY <1>2, StreamsAssumption
<1>5. \A b \in 0..2 : b # a /\ retry[c][b] > 0 => f[b] > 0
  BY <1>2, StreamsAssumption
<1> HIDE DEF f
<1> QED  BY <1>1, <1>3, <1>4, <1>5

-----------------------------------------------------------------------------
(* The invariant.                                                          *)

SocksKept ==
  /\ SockOK' /\ NoGhosts'
  /\ \A c \in Socks : \/ sock'[c] = Free \/ sock'[c] = sock[c]
                      \/ sock'[c].state # "connect"
  /\ \A c \in Socks :
       /\ sock'[c] # Free /\ sock'[c].state = "connect" /\ sock'[c] = sock[c]
       /\ chan[c] \in {"ended", "eof"}
       => chan'[c] \in {"ended", "eof"}

Over(c) == chan[c] \in {"ended", "eof"}

\* What keeps the sockets, the timers of those that connect and the ends of
\* channels keeps ConnectEnds.
LEMMA EndsKept ==
  ASSUME ConnectEnds, SocksKept,
         \A c \in Socks, a \in 0..2 :
           c \in In("connect") /\ c \in In("connect")' /\ retry[c][a] > 0
             => Over(c)' \/ \E b \in 0..2 : retry'[c][b] > 0
  PROVE  ConnectEnds'
<1> SUFFICES ASSUME NEW c \in In("connect")'
             PROVE  Over(c)' \/ \E a \in 0..2 : retry'[c][a] > 0
  BY DEF ConnectEnds, Over
<1>1. c \in Socks /\ c \in In("connect") /\ (Over(c) => Over(c)')
  BY DEF SocksKept, In, Over
<1>2. Over(c) \/ \E a \in 0..2 : retry[c][a] > 0
  BY <1>1 DEF ConnectEnds, Over
<1> QED  BY <1>1, <1>2

\* The same when the timers stay as they are.
LEMMA EndsKeptAll ==
  ASSUME ConnectEnds, SocksKept, UNCHANGED retry PROVE ConnectEnds'
BY EndsKept

LEMMA SockTypes == TypeOK => SockOK
BY DEF TypeOK, SockOK

LEMMA TypesAgain ==
  ASSUME TypeOK, SockOK', session' \in {"off", "starting", "ready"},
         queue' \subseteq Msgs, check' \in BOOLEAN,
         opens' \in [Dests \cup {NoDest} -> 0..MaxTimers],
         retry' \in [Socks -> [0..2 -> 0..MaxTimers]],
         written' \in [Msgs -> Nat], lost' \subseteq Msgs,
         UNCHANGED troubles \/ Trouble
  PROVE  TypeOK'
<1>1. troubles' \in 0..MaxTroubles
  BY StreamsAssumption DEF TypeOK, Trouble
<1> QED  BY <1>1 DEF TypeOK, SockOK

LEMMA DropFine ==
  ASSUME TypeOK, NoGhosts, NEW cs, Drop(cs) PROVE SocksKept
<1>1. /\ SockOK' /\ NoGhosts'
      /\ \A c \in Socks : sock'[c] = Free \/ sock'[c] = sock[c]
  BY SockTypes, DropKeeps
<1>2. \A c \in Socks : sock'[c] # Free => chan'[c] = chan[c]
  BY DEF Drop
<1> QED  BY <1>1, <1>2 DEF SocksKept

LEMMA ReplaceFine ==
  ASSUME TypeOK, NoGhosts, NEW gone, NEW new, NEW d \in Dests \cup {NoDest},
         Replace(gone, new, d)
  PROVE  SocksKept
<1>1. \A c \in Socks : \/ sock'[c] = Free \/ sock'[c] = sock[c]
                       \/ sock'[c].state = "hello"
  BY SockTypes, ReplaceKeeps
<1>2. \A c \in Socks : \/ sock'[c] = Free \/ chan'[c] = chan[c]
                       \/ sock'[c].state = "hello"
  BY DEF Replace
<1> QED  BY <1>1, <1>2, SockTypes, ReplaceKeeps DEF SocksKept

LEMMA SameFine ==
  ASSUME TypeOK, NoGhosts, UNCHANGED socks PROVE SocksKept
BY DEF TypeOK, NoGhosts, SocksKept, SockOK, socks

LEMMA MoveFine ==
  ASSUME TypeOK, NoGhosts, NEW c \in Socks, sock[c] # Free,
         NEW s \in States, s # "connect", NEW d \in Dests \cup {NoDest},
         Move(c, s, d), UNCHANGED chan
  PROVE  SocksKept
<1>1. /\ SockOK' /\ NoGhosts' /\ sock'[c].state = s
      /\ \A e \in Socks \ {c} : sock'[e] = sock[e]
  BY SockTypes, MoveKeeps
<1> QED  BY <1>1 DEF SocksKept

LEMMA InitFine == Init => SInv
<1> SUFFICES ASSUME Init PROVE SInv
  OBVIOUS
<1> USE StreamsAssumption
<1>1. TypeOK
  <2>1. /\ retry \in [Socks -> [0..2 -> 0..MaxTimers]]
        /\ opens \in [Dests \cup {NoDest} -> 0..MaxTimers]
        /\ troubles \in 0..MaxTroubles
    BY DEF Init
  <2>2. /\ sock \in [Socks -> DataSock \cup {Free}]
        /\ chan \in [Socks -> {"closed", "open", "mute", "ended", "eof"}]
    BY DEF Init
  <2>3. /\ session \in {"off", "starting", "ready"}
        /\ queue \subseteq Msgs /\ check \in BOOLEAN
        /\ written \in [Msgs -> Nat] /\ lost \subseteq Msgs
    BY DEF Init
  <2> QED  BY <2>1, <2>2, <2>3 DEF TypeOK
<1>2. NoGhosts /\ WrittenOnce /\ ConnectEnds
  BY DEF Init, NoGhosts, WrittenOnce, ConnectEnds, In
<1> QED  BY <1>1, <1>2 DEF SInv

\* i2p_start_data
LEMMA StartFine ==
  ASSUME SInv, (\E d \in Dests : StartTo(d)) \/ StartListening PROVE SInv'
<1> USE DEF SInv
<1>1. SocksKept
  <2>1. CASE UNCHANGED socks
    BY <2>1, SameFine
  <2>2. CASE \E c \in Closed, d \in Dests \cup {NoDest} : Replace({}, {c}, d)
    BY <2>2, ReplaceFine
  <2> QED  BY <2>1, <2>2 DEF StartTo, StartListening, socks
<1>2. opens' \in [Dests \cup {NoDest} -> 0..MaxTimers]
  <2>1. CASE \E d \in Dests : StartTo(d)
    BY <2>1, StreamsAssumption DEF StartTo, TypeOK
  <2>2. CASE StartListening
    BY <2>2, StreamsAssumption DEF StartListening, TypeOK
  <2> QED  BY <2>1, <2>2
<1>3. /\ UNCHANGED <<session, queue, check, retry, written, lost>>
      /\ UNCHANGED troubles \/ Trouble
  BY DEF StartTo, StartListening
<1>4. TypeOK'
  BY <1>1, <1>2, <1>3, TypesAgain DEF SocksKept, TypeOK
<1>5. ConnectEnds'
  BY <1>1, <1>3, EndsKeptAll
<1>6. WrittenOnce'
  BY <1>3 DEF WrittenOnce
<1> QED  BY <1>1, <1>4, <1>5, <1>6 DEF SocksKept

\* i2p_handler_data, all but the hello that begins a connect
LEMMA HandlerFine ==
  ASSUME SInv, NEW c \in Socks,
         \/ HelloOK(c) /\ sock[c].dest = NoDest
         \/ AcceptOK(c) \/ ConnectOK(c) \/ Fails(c) \/ Hangs(c) \/ Eof(c)
         \/ EofRead(c) \/ EofSeen(c) \/ \E d \in Dests : Incoming(c, d)
  PROVE  SInv'
<1> USE DEF SInv
<1>0. sock[c] # Free => sock[c].dest \in Dests \cup {NoDest}
  BY DEF TypeOK, DataSock
<1>1. SocksKept
  <2>1. CASE HelloOK(c) /\ sock[c].dest = NoDest
    <3>1. sock[c] # Free /\ Move(c, "accept", NoDest) /\ UNCHANGED chan
      BY <2>1 DEF HelloOK, Open, In
    <3> QED  BY <3>1, MoveFine DEF States
  <2>2. CASE AcceptOK(c)
    <3>1. sock[c] # Free /\ Move(c, "expect", NoDest) /\ UNCHANGED chan
      BY <2>2 DEF AcceptOK, Open, In
    <3> QED  BY <3>1, MoveFine DEF States
  <2>3. CASE ConnectOK(c)
    <3>1. sock[c] # Free /\ Move(c, "stream", sock[c].dest) /\ UNCHANGED chan
      BY <2>3 DEF ConnectOK, Open, In
    <3> QED  BY <3>1, <1>0, MoveFine DEF States
  <2>4. CASE \E d \in Dests : Incoming(c, d)
    <3>1. PICK d \in Dests : Incoming(c, d)
      BY <2>4
    <3>2. sock[c] # Free /\ Move(c, "stream", d) /\ UNCHANGED chan
      BY <3>1 DEF Incoming, Open, In
    <3> QED  BY <3>2, MoveFine DEF States
  <2>5. CASE Fails(c) \/ EofSeen(c)
    <3>1. Drop({c})
      BY <2>5 DEF Fails, EofSeen
    <3> QED  BY <3>1, DropFine
  <2>6. CASE Hangs(c) \/ Eof(c) \/ EofRead(c)
    <3>1. /\ sock' = sock /\ chan[c] # "closed"
          /\ \/ /\ chan' = [chan EXCEPT ![c] = "mute"]
                /\ chan[c] = "open"
             \/ chan' = [chan EXCEPT ![c] = "ended"]
             \/ chan' = [chan EXCEPT ![c] = "eof"]
      BY <2>6 DEF Hangs, Eof, EofRead
    <3> QED  BY <3>1 DEF SocksKept, SockOK, TypeOK, NoGhosts
  <2> QED  BY <2>1, <2>2, <2>3, <2>4, <2>5, <2>6
<1>2. /\ UNCHANGED <<session, queue, opens, written, lost, retry>>
      /\ UNCHANGED troubles \/ Trouble
      /\ check' = check \/ check' = TRUE
  BY DEF HelloOK, AcceptOK, ConnectOK, Incoming, Fails, Hangs, Eof, EofRead,
     EofSeen, handled
<1>3. TypeOK'
  BY <1>1, <1>2, TypesAgain DEF SocksKept, TypeOK
<1>4. ConnectEnds'
  BY <1>1, <1>2, EndsKeptAll
<1>5. WrittenOnce'
  BY <1>2 DEF WrittenOnce
<1> QED  BY <1>1, <1>3, <1>4, <1>5 DEF SocksKept

\* A connect begins together with its first timer, or on a channel that is
\* over.
LEMMA HelloFine ==
  ASSUME SInv, NEW c \in Socks, HelloOK(c), sock[c].dest # NoDest PROVE SInv'
<1> USE DEF SInv
<1>1. /\ sock[c] # Free /\ Move(c, "connect", sock[c].dest) /\ UNCHANGED chan
      /\ \/ retry[c][2] < MaxTimers /\ SetTimers(c, 3, {2})
         \/ chan[c] = "ended" /\ UNCHANGED retry
      /\ UNCHANGED <<session, queue, opens, written, lost, check, troubles>>
  BY DEF HelloOK, Open, In, handled
<1>2. sock[c].dest \in Dests \cup {NoDest} /\ "connect" \in States
  BY <1>1 DEF TypeOK, DataSock, States
<1>3. /\ SockOK' /\ NoGhosts' /\ \A e \in Socks \ {c} : sock'[e] = sock[e]
  BY <1>1, <1>2, SockTypes, MoveKeeps
<1>4. /\ retry' \in [Socks -> [0..2 -> 0..MaxTimers]]
      /\ Over(c)' \/ retry'[c][2] > 0
      /\ \A e \in Socks, b \in 0..2 : retry[e][b] > 0 => retry'[e][b] > 0
  <2>1. retry \in [Socks -> [0..2 -> 0..MaxTimers]] /\ {2} \in SUBSET (0..2)
    BY DEF TypeOK
  <2>2. CASE retry[c][2] < MaxTimers /\ SetTimers(c, 3, {2})
    BY <2>1, <2>2, TimersKeep
  <2>3. CASE chan[c] = "ended" /\ UNCHANGED retry
    BY <1>1, <2>1, <2>3 DEF Over
  <2> QED  BY <1>1, <2>2, <2>3
<1>5. TypeOK'
  BY <1>1, <1>3, <1>4, TypesAgain DEF TypeOK
<1>6. ConnectEnds'
  BY <1>1, <1>3, <1>4 DEF ConnectEnds, In, Over
<1>7. WrittenOnce'
  BY <1>1 DEF WrittenOnce
<1> QED  BY <1>3, <1>5, <1>6, <1>7

\* A timer of a connect sets the next, or closes the socket.
LEMMA RetryFine ==
  ASSUME SInv, NEW c \in Socks, NEW a \in 0..2, Retry(c, a) PROVE SInv'
<1> USE DEF SInv
<1>0. /\ UNCHANGED <<session, queue, opens, written, lost, check>>
      /\ retry[c][a] > 0 /\ (UNCHANGED troubles \/ Trouble)
      /\ retry \in [Socks -> [0..2 -> 0..MaxTimers]]
  BY DEF Retry, handled, TypeOK
<1>1. WrittenOnce'
  BY <1>0 DEF WrittenOnce
<1>2. CASE c \in In("connect") /\ a > 0
  <2>1. /\ UNCHANGED socks
        /\ \/ retry[c][a - 1] < MaxTimers /\ SetTimers(c, a, {a - 1})
           \/ Over(c) /\ SetTimers(c, a, {})
        /\ {a - 1} \in SUBSET (0..2) /\ {} \in SUBSET (0..2)
        /\ a \in 0..3 /\ a # 3 /\ a - 1 # a /\ a - 1 \in 0..2
    BY <1>2 DEF Retry, Over
  <2>2. /\ retry' \in [Socks -> [0..2 -> 0..MaxTimers]]
        /\ Over(c)' \/ retry'[c][a - 1] > 0
        /\ \A e \in Socks, b \in 0..2 :
             retry[e][b] > 0 => retry'[e][b] > 0 \/ (e = c /\ b = a)
    <3>1. CASE retry[c][a - 1] < MaxTimers /\ SetTimers(c, a, {a - 1})
      BY <1>0, <2>1, <3>1, TimersKeep
    <3>2. CASE Over(c) /\ SetTimers(c, a, {})
      <4>1. Over(c)'
        BY <2>1, <3>2 DEF Over, socks
      <4> QED  BY <1>0, <2>1, <3>2, <4>1, TimersKeep
    <3> QED  BY <2>1, <3>1, <3>2
  <2>3. SocksKept
    BY <2>1, SameFine
  <2>4. ConnectEnds'
    BY <2>1, <2>2, <2>3, EndsKept
  <2>5. TypeOK'
    BY <1>0, <2>2, <2>3, TypesAgain DEF SocksKept, TypeOK
  <2> QED  BY <1>1, <2>3, <2>4, <2>5 DEF SocksKept
<1>3. CASE ~(c \in In("connect") /\ a > 0)
  <2>1. /\ SetTimers(c, a, {})
        /\ IF a = 0 THEN Drop({c}) ELSE UNCHANGED socks
        /\ {} \in SUBSET (0..2) /\ a \in 0..3 /\ a # 3
    BY <1>3 DEF Retry
  <2>2. /\ retry' \in [Socks -> [0..2 -> 0..MaxTimers]]
        /\ \A e \in Socks, b \in 0..2 :
             retry[e][b] > 0 => retry'[e][b] > 0 \/ (e = c /\ b = a)
    BY <1>0, <2>1, TimersKeep
  <2>3. SocksKept
    BY <2>1, SameFine, DropFine
  <2>4. c \notin In("connect")'
    <3>1. CASE a = 0
      BY <2>1, <3>1 DEF Drop, In
    <3>2. CASE a # 0
      BY <1>3, <2>1, <3>2 DEF In, socks
    <3> QED  BY <3>1, <3>2
  <2>5. ConnectEnds'
    BY <2>2, <2>3, <2>4, EndsKept
  <2>6. TypeOK'
    BY <1>0, <2>2, <2>3, TypesAgain DEF SocksKept, TypeOK
  <2> QED  BY <1>1, <2>3, <2>5, <2>6 DEF SocksKept
<1> QED  BY <1>2, <1>3

\* i2p_maintain_data
LEMMA MaintainFine ==
  ASSUME SInv, NEW old \in SUBSET Socks, Maintain(old) PROVE SInv'
<1> USE DEF SInv
<1> DEFINE gone == UNION {Aged(old, s) : s \in {"expect", "stream", "connect"}}
<1>1. /\ UNCHANGED <<session, queue, check, retry, written, lost>>
      /\ UNCHANGED troubles \/ Trouble
  BY DEF Maintain
<1>2. SocksKept
  <2>1. \/ Drop(gone)
        \/ \E new \in SUBSET (Closed \cup gone) : Replace(gone, new, NoDest)
    BY DEF Maintain
  <2> HIDE DEF gone
  <2>2. CASE Drop(gone)
    BY <2>2, DropFine
  <2>3. CASE \E new \in SUBSET (Closed \cup gone) : Replace(gone, new, NoDest)
    BY <2>3, ReplaceFine
  <2> QED  BY <2>1, <2>2, <2>3
<1>3. Missing \in Nat
  <2>1. IsFiniteSet(In("accept"))
    BY FS_Subset, StreamsAssumption DEF In
  <2>2. Cardinality(In("accept")) \in Nat
    BY <2>1, FS_CardinalityType
  <2> QED  BY <2>2, StreamsAssumption DEF Missing
<1>4. opens' \in [Dests \cup {NoDest} -> 0..MaxTimers]
  <2>1. CASE UNCHANGED opens
    BY <2>1 DEF TypeOK
  <2>2. CASE /\ opens[NoDest] + Missing <= MaxTimers
             /\ opens' = [opens EXCEPT ![NoDest] = @ + Missing]
    <3>1. opens[NoDest] + Missing \in 0..MaxTimers
      BY <1>3, <2>2, StreamsAssumption DEF TypeOK
    <3> QED  BY <2>2, <3>1 DEF TypeOK
  <2> QED  BY <2>1, <2>2 DEF Maintain
<1>5. TypeOK'
  BY <1>1, <1>2, <1>4, TypesAgain DEF SocksKept, TypeOK
<1>6. ConnectEnds'
  BY <1>1, <1>2, EndsKeptAll
<1>7. WrittenOnce'
  BY <1>1 DEF WrittenOnce
<1> QED  BY <1>2, <1>5, <1>6, <1>7 DEF SocksKept

\* What is written or lost leaves the queue in the same step.
LEMMA EmptyKeeps ==
  ASSUME TypeOK, WrittenOnce, NEW out \in SUBSET queue, NEW blind,
         Empty(out, blind)
  PROVE  /\ WrittenOnce' /\ queue' \subseteq Msgs
         /\ written' \in [Msgs -> Nat] /\ lost' \subseteq Msgs
BY DEF TypeOK, WrittenOnce, Empty, Write

\* A pass over the queue that comes to its end,
LEMMA QueueFine == ASSUME SInv, CheckQueue PROVE SInv'
<1> USE DEF SInv
<1> DEFINE missing == {d \in Dests :
                         To(d) = {} /\ \E m \in queue : Dest[m] = d}
<1>1. /\ check' = FALSE /\ Drop(Eofs)
      /\ \A d \in missing : opens[d] < MaxTimers
      /\ opens' = [d \in DOMAIN opens |->
                     IF d \in missing THEN opens[d] + 1 ELSE opens[d]]
      /\ UNCHANGED <<session, retry, troubles>>
  BY DEF CheckQueue
<1>2. SocksKept
  BY <1>1, DropFine
<1>3. PICK first : Empty(Out(first, Socks), Blind(Out(first, Socks), first))
  BY DEF CheckQueue
<1>4. Out(first, Socks) \in SUBSET queue
  BY DEF Out
<1>5. /\ WrittenOnce' /\ queue' \subseteq Msgs
      /\ written' \in [Msgs -> Nat] /\ lost' \subseteq Msgs
  BY <1>3, <1>4, EmptyKeeps
<1>6. missing \subseteq Dests
  OBVIOUS
<1> HIDE DEF missing
<1>7. opens' \in [Dests \cup {NoDest} -> 0..MaxTimers]
  BY <1>1, <1>6, StreamsAssumption DEF TypeOK
<1>8. TypeOK'
  BY <1>1, <1>2, <1>5, <1>7, TypesAgain DEF SocksKept, TypeOK
<1>9. ConnectEnds'
  BY <1>1, <1>2, EndsKeptAll
<1> QED  BY <1>2, <1>5, <1>8, <1>9 DEF SocksKept

\* and one that an error ends.
LEMMA RaisesFine == ASSUME SInv, CheckRaises PROVE SInv'
<1> USE DEF SInv
<1>1. PICK c \in In("stream"), first \in [Dests -> Socks],
           seen \in SUBSET Socks, few \in SUBSET queue :
             /\ Drop(Eofs \cap seen)
             /\ Empty(Out(first, seen) \cup few,
                      Blind(Out(first, seen), first) \cup few)
  BY DEF CheckRaises
<1>2. check' = FALSE /\ UNCHANGED <<session, opens, retry, troubles>>
  BY DEF CheckRaises
<1>3. SocksKept
  BY <1>1, DropFine
<1>4. Out(first, seen) \cup few \in SUBSET queue
  BY DEF Out
<1>5. /\ WrittenOnce' /\ queue' \subseteq Msgs
      /\ written' \in [Msgs -> Nat] /\ lost' \subseteq Msgs
  BY <1>1, <1>4, EmptyKeeps
<1>6. TypeOK'
  BY <1>2, <1>3, <1>5, TypesAgain DEF SocksKept, TypeOK
<1>7. ConnectEnds'
  BY <1>2, <1>3, EndsKeptAll
<1> QED  BY <1>3, <1>5, <1>6, <1>7 DEF SocksKept

\* i2p_send, and what is dropped
LEMMA SendFine ==
  ASSUME SInv, (\E m \in Msgs : Send(m)) \/ SendOther \/ CheckDropped
  PROVE  SInv'
<1> USE DEF SInv
<1>1. /\ UNCHANGED <<session, socks, opens, retry, written, lost, troubles>>
      /\ check' \in BOOLEAN
  BY DEF Send, SendOther, CheckDropped
<1>2. SocksKept
  BY <1>1, SameFine
<1>3. queue' \subseteq Msgs /\ WrittenOnce'
  BY <1>1 DEF Send, SendOther, CheckDropped, WrittenOnce, TypeOK
<1>4. TypeOK'
  BY <1>1, <1>2, <1>3, TypesAgain DEF SocksKept, TypeOK
<1>5. ConnectEnds'
  BY <1>1, <1>2, EndsKeptAll
<1> QED  BY <1>2, <1>3, <1>4, <1>5 DEF SocksKept

\* The session: i2p_end leaves no socket, its timers find none.
LEMMA SessionFine ==
  ASSUME SInv,
         SessionStarts \/ SessionReadies \/ SessionRestarts \/ SessionEnds
  PROVE  SInv'
<1> USE DEF SInv
<1>1. /\ UNCHANGED <<check, opens, retry, written>>
      /\ UNCHANGED troubles \/ Trouble
      /\ session' \in {"off", "starting", "ready"}
  BY DEF SessionStarts, SessionReadies, SessionRestarts, SessionEnds, Starts,
     Readies, Restarts, Ends
<1>2. SocksKept
  <2>1. CASE SessionStarts \/ SessionRestarts
    BY <2>1, SameFine DEF SessionStarts, SessionRestarts
  <2>2. CASE SessionReadies
    <3>1. PICK new : Replace({}, new, NoDest)
      BY <2>2 DEF SessionReadies
    <3> QED  BY <3>1, ReplaceFine
  <2>3. CASE SessionEnds
    <3>1. Drop(Socks)
      BY <2>3 DEF SessionEnds
    <3> QED  BY <3>1, DropFine
  <2> QED  BY <2>1, <2>2, <2>3
<1>3. queue' \subseteq Msgs /\ lost' \subseteq Msgs /\ WrittenOnce'
  BY <1>1 DEF SessionStarts, SessionReadies, SessionRestarts, SessionEnds,
              WrittenOnce, TypeOK
<1>4. TypeOK'
  BY <1>1, <1>2, <1>3, TypesAgain DEF SocksKept, TypeOK
<1>5. ConnectEnds'
  BY <1>1, <1>2, EndsKeptAll
<1> QED  BY <1>2, <1>3, <1>4, <1>5 DEF SocksKept

\* The four invariants together are inductive.
LEMMA NextFine == SInv /\ [Next]_vars => SInv'
<1> SUFFICES ASSUME SInv, [Next]_vars PROVE SInv'
  OBVIOUS
<1>1. CASE UNCHANGED vars
  BY <1>1 DEF SInv, TypeOK, NoGhosts, WrittenOnce, ConnectEnds, In, vars,
     socks
<1>2. CASE Next
  <2>1. CASE (\E d \in Dests : StartTo(d)) \/ StartListening
    BY <2>1, StartFine
  <2>2. CASE \E c \in Socks : Handler(c)
    <3>1. PICK c \in Socks : Handler(c)
      BY <2>2
    <3> QED  BY <3>1, HandlerFine, HelloFine DEF Handler
  <2>3. CASE \E c \in Socks, a \in 0..2 : Retry(c, a)
    BY <2>3, RetryFine
  <2>4. CASE \E old \in SUBSET Socks : Maintain(old)
    BY <2>4, MaintainFine
  <2>5. CASE CheckQueue \/ CheckRaises
    BY <2>5, QueueFine, RaisesFine
  <2>6. CASE (\E m \in Msgs : Send(m)) \/ SendOther \/ CheckDropped
    BY <2>6, SendFine
  <2>7. CASE \/ SessionStarts \/ SessionReadies
             \/ SessionRestarts \/ SessionEnds
    BY <2>7, SessionFine
  <2> QED
    BY <1>2, <2>1, <2>2, <2>3, <2>4, <2>5, <2>6, <2>7 DEF Next
<1> QED  BY <1>1, <1>2

LEMMA StreamsHold == Spec => []SInv
<1> QED  BY InitFine, NextFine, PTL DEF Spec

\* The variables of data sockets keep their types, for any number of names,
\* destinations, messages, timers and failures.
THEOREM StreamsTypes == Spec => []TypeOK
<1>1. SInv => TypeOK
  BY DEF SInv
<1> QED  BY <1>1, StreamsHold, PTL

\* i2p_checkqueue never meets a socket whose channel is closed.
THEOREM NeverGhosts == Spec => []NoGhosts
<1>1. SInv => NoGhosts
  BY DEF SInv
<1> QED  BY <1>1, StreamsHold, PTL

\* No message is written twice, and none that is queued or lost has been.
THEOREM OnceWritten == Spec => []WrittenOnce
<1>1. SInv => WrittenOnce
  BY DEF SInv
<1> QED  BY <1>1, StreamsHold, PTL

\* A socket that connects has a timer that will retry or close it, unless the
\* bridge has closed it.
THEOREM ConnectsEnd == Spec => []ConnectEnds
<1>1. SInv => ConnectEnds
  BY DEF SInv
<1> QED  BY <1>1, StreamsHold, PTL

-----------------------------------------------------------------------------
(* The session: the state and the socket agree, a session that is down     *)
(* comes back, and off stays off.                                          *)

IInv == SessionTypeOK /\ ComesBack /\ OffStaysOff

-----------------------------------------------------------------------------
(* What the parts of the actions leave behind.                             *)

LEMMA EndLeaves ==
  ASSUME SessionTypeOK, End
  PROVE  /\ state' = "none" /\ current' = NoSock
         /\ open' \subseteq Controls /\ dead' \subseteq open'
         /\ holder' \in Controls \cup {NoSock}
         /\ asked' \in [Controls -> Seq({"HELLO", "DEST", "SESSION"})]
<1>1. asked' \in [Controls -> Seq({"HELLO", "DEST", "SESSION"})]
  <2>1. <<>> \in Seq({"HELLO", "DEST", "SESSION"})
    OBVIOUS
  <2> QED
    BY <2>1 DEF SessionTypeOK, End
<1>2. holder' \in Controls \cup {NoSock}
  BY DEF SessionTypeOK, End
<1>3. open' \subseteq Controls /\ dead' \subseteq open'
  BY DEF SessionTypeOK, End
<1> QED
  BY <1>1, <1>2, <1>3 DEF End

LEMMA GiveUpLeaves ==
  ASSUME SessionTypeOK, GiveUp
  PROVE  /\ state' = "none" /\ current' = NoSock /\ voice' = "none"
         /\ open' \subseteq Controls /\ dead' \subseteq open'
         /\ holder' \in Controls \cup {NoSock}
         /\ asked' \in [Controls -> Seq({"HELLO", "DEST", "SESSION"})]
         /\ starts' \in 0..MaxPending /\ starts' > 0
BY EndLeaves, SessionAssumption DEF SessionTypeOK, GiveUp, StartLater, OneMore

LEMMA AppendAsked ==
  ASSUME NEW f \in [Controls -> Seq({"HELLO", "DEST", "SESSION"})],
         NEW c \in Controls,
         NEW command \in {"HELLO", "DEST", "SESSION"}
  PROVE  [f EXCEPT ![c] = Append(@, command)]
           \in [Controls -> Seq({"HELLO", "DEST", "SESSION"})]
OBVIOUS

LEMMA TailAsked ==
  ASSUME NEW f \in [Controls -> Seq({"HELLO", "DEST", "SESSION"})],
         NEW c \in Controls, f[c] # <<>>
  PROVE  [f EXCEPT ![c] = Tail(@)]
           \in [Controls -> Seq({"HELLO", "DEST", "SESSION"})]
OBVIOUS

LEMMA ConnectLeaves ==
  ASSUME SessionTypeOK, Connect
  PROVE  /\ state' = "hello" /\ current' \in open'
         /\ current' \in Controls
         /\ open' \subseteq Controls /\ dead' \subseteq open'
         /\ asked' \in [Controls -> Seq({"HELLO", "DEST", "SESSION"})]
         /\ checks' \in 0..MaxPending
         /\ UNCHANGED <<voice, holder, failures>>
<1>1. PICK c \in Controls \ open :
        /\ current' = c /\ open' = open \cup {c}
        /\ asked' = [asked EXCEPT ![c] = <<"HELLO">>]
  BY DEF Connect
<1>2. <<"HELLO">> \in Seq({"HELLO", "DEST", "SESSION"})
  OBVIOUS
<1>3. asked' \in [Controls -> Seq({"HELLO", "DEST", "SESSION"})]
  BY <1>1, <1>2 DEF SessionTypeOK
<1>4. checks' \in 0..MaxPending
  BY SessionAssumption DEF SessionTypeOK, Connect, CheckLater, OneMore
<1> QED
  BY <1>1, <1>3, <1>4 DEF SessionTypeOK, Connect

LEMMA ConnectFailsLeaves ==
  ASSUME SessionTypeOK, ConnectFails
  PROVE  /\ current = NoSock =>
              state' = "none" /\ asked' = asked /\ checks' = checks
         /\ current # NoSock => state' = "hello"
         /\ asked' \in [Controls -> Seq({"HELLO", "DEST", "SESSION"})]
         /\ checks' \in 0..MaxPending
         /\ failures' \in 0..MaxFailures
         /\ UNCHANGED <<voice, current, open, dead, holder>>
<1>1. failures' \in 0..MaxFailures
  BY SessionAssumption DEF SessionTypeOK, ConnectFails, Fail
<1>2. CASE current = NoSock
  BY <1>1, <1>2, SessionAssumption DEF SessionTypeOK, ConnectFails
<1>3. CASE current # NoSock
  <2>1. checks' \in 0..MaxPending
    BY <1>3, SessionAssumption DEF SessionTypeOK, ConnectFails, CheckLater,
       OneMore
  <2>2. current \in Controls
    BY <1>3 DEF SessionTypeOK
  <2>3. asked' = [asked EXCEPT ![current] = Append(@, "HELLO")]
    BY <1>3 DEF ConnectFails, Asks
  <2>4. asked' \in [Controls -> Seq({"HELLO", "DEST", "SESSION"})]
    BY <2>2, <2>3, AppendAsked DEF SessionTypeOK
  <2> QED
    BY <1>1, <1>3, <2>1, <2>4 DEF ConnectFails
<1> QED
  BY <1>2, <1>3

LEMMA VoiceStartLeaves ==
  ASSUME SessionTypeOK, NEW n \in 0..MaxPending, VoiceStart(n)
  PROVE  /\ voice' \in {"none", "hello", "up"}
         /\ vstarts' \in 0..MaxPending /\ vchecks' \in 0..MaxPending
         /\ failures' \in 0..MaxFailures
<1>1. vchecks' \in 0..MaxPending
  BY SessionAssumption DEF SessionTypeOK, VoiceStart, VoiceCheckLater, OneMore
<1>2. vstarts' \in 0..MaxPending
  BY SessionAssumption DEF VoiceStart, OneMore
<1>3. failures' \in 0..MaxFailures
  BY SessionAssumption DEF SessionTypeOK, VoiceStart, OneMore, Fail
<1>4. voice' \in {"none", "hello", "up"}
  BY DEF SessionTypeOK, VoiceStart, OneMore
<1> QED
  BY <1>1, <1>2, <1>3, <1>4

-----------------------------------------------------------------------------
(* The invariant is inductive.                                             *)

LEMMA InitHolds == SessionInit => IInv
<1> SUFFICES ASSUME SessionInit PROVE IInv
  OBVIOUS
<1>1. [c \in Controls |-> <<>>]
        \in [Controls -> Seq({"HELLO", "DEST", "SESSION"})]
  OBVIOUS
<1>2. /\ 0 \in 0..MaxPending /\ 0 \in 0..MaxToggles /\ 0 \in 0..MaxFailures
  BY SessionAssumption
<1>3. SessionTypeOK
  BY <1>1, <1>2, Zenon DEF SessionInit, SessionTypeOK, SessionStates
<1>4. ComesBack /\ OffStaysOff
  BY DEF SessionInit, ComesBack, OffStaysOff
<1> QED
  BY <1>3, <1>4 DEF IInv

LEMMA AnsweredByLeaves ==
  ASSUME SessionTypeOK, NEW c \in Controls, current \in Controls,
         asked[c] # <<>>,
         NEW command \in {"HELLO", "DEST", "SESSION"}, AnsweredBy(c, command)
  PROVE  asked' \in [Controls -> Seq({"HELLO", "DEST", "SESSION"})]
<1> DEFINE rest == [asked EXCEPT ![c] = Tail(@)]
<1>1. rest \in [Controls -> Seq({"HELLO", "DEST", "SESSION"})]
  BY TailAsked DEF SessionTypeOK
<1>2. asked' = [rest EXCEPT ![current] = Append(@, command)]
  BY DEF AnsweredBy
<1> HIDE DEF rest
<1> QED
  BY <1>1, <1>2, AppendAsked

LEMMA SwitchesKeep == IInv /\ (SwitchOn \/ SwitchOff) => IInv'
<1> SUFFICES ASSUME IInv, SwitchOn \/ SwitchOff PROVE IInv'
  OBVIOUS
<1> USE SessionAssumption DEF IInv
<1>1. CASE SwitchOn /\ Connect /\ UNCHANGED starts
  BY <1>1, ConnectLeaves DEF SwitchOn, SessionTypeOK, ComesBack, OffStaysOff,
     SessionStates
<1>2. CASE SwitchOn /\ ConnectFails /\ current = NoSock /\ StartLater
  BY <1>2, ConnectFailsLeaves
  DEF SwitchOn, StartLater, OneMore, SessionTypeOK, ComesBack, OffStaysOff,
      SessionStates
<1>3. CASE SwitchOn /\ ConnectFails /\ current # NoSock
  BY <1>3 DEF SwitchOn, SessionTypeOK, OffStaysOff
<1>4. CASE SwitchOff
  <2>1. toggles' \in 0..MaxToggles
    BY <1>4 DEF SwitchOff, SessionTypeOK
  <2> QED
    BY <1>4, <2>1, EndLeaves
    DEF SwitchOff, timers, SessionTypeOK, ComesBack, OffStaysOff,
        SessionStates
<1> QED
  BY <1>1, <1>2, <1>3, <1>4 DEF SwitchOn

LEMMA SessionTimersKeep == IInv /\ Timer => IInv'
<1> SUFFICES ASSUME IInv, Timer PROVE IInv'
  OBVIOUS
<1> USE SessionAssumption DEF IInv
<1>1. CASE StartTimer
  <2>1. CASE ~on
    <3>1. starts' \in 0..MaxPending
      BY <1>1, <2>1 DEF StartTimer, SessionTypeOK
    <3> QED
      BY <1>1, <2>1, <3>1, EndLeaves
      DEF StartTimer, SessionTypeOK, ComesBack, OffStaysOff, SessionStates
  <2>2. CASE on /\ Connect /\ starts' = starts - 1
    <3>1. starts' \in 0..MaxPending
      BY <1>1, <2>2 DEF StartTimer, SessionTypeOK
    <3> QED
      BY <1>1, <2>2, <3>1, ConnectLeaves
      DEF StartTimer, SessionTypeOK, ComesBack, OffStaysOff, SessionStates
  <2>3. CASE /\ on /\ ConnectFails
             /\ starts' = IF current = NoSock THEN starts ELSE starts - 1
    <3>1. starts' \in 0..MaxPending /\ (current = NoSock => starts' > 0)
      BY <1>1, <2>3 DEF StartTimer, SessionTypeOK
    <3> QED
      BY <1>1, <2>3, <3>1, ConnectFailsLeaves
      DEF StartTimer, SessionTypeOK, ComesBack, OffStaysOff, SessionStates
  <2> QED
    BY <1>1, <2>1, <2>2, <2>3 DEF StartTimer
<1>2. CASE CheckTimer
  <2>1. checks' \in 0..MaxPending
    BY <1>2 DEF CheckTimer, SessionTypeOK
  <2>2. CASE state = "hello"
    BY <1>2, <2>1, <2>2, GiveUpLeaves
    DEF CheckTimer, counts, SessionTypeOK, ComesBack, OffStaysOff,
        SessionStates
  <2>3. CASE state = "none"
    BY <1>2, <2>1, <2>3, EndLeaves
    DEF CheckTimer, counts, SessionTypeOK, ComesBack, OffStaysOff,
        SessionStates
  <2>4. CASE state \notin {"none", "hello"}
    BY <1>2, <2>1, <2>4
    DEF CheckTimer, counts, router, SessionTypeOK, ComesBack, OffStaysOff,
        SessionStates
  <2> QED
    BY <2>2, <2>3, <2>4
<1>3. CASE VoiceStartTimer
  <2>1. vstarts - 1 \in 0..MaxPending
    BY <1>3 DEF VoiceStartTimer, SessionTypeOK
  <2>2. VoiceStart(vstarts - 1)
    BY <1>3 DEF VoiceStartTimer
  <2> QED
    BY <1>3, <2>1, <2>2, VoiceStartLeaves
    DEF VoiceStartTimer, router, SessionTypeOK, ComesBack, OffStaysOff,
        SessionStates
<1>4. CASE VoiceCheckTimer
  <2>1. vchecks' \in 0..MaxPending
    BY <1>4 DEF VoiceCheckTimer, SessionTypeOK
  <2>2. CASE voice = "hello"
    BY <1>4, <2>1, <2>2, GiveUpLeaves
    DEF VoiceCheckTimer, counts, SessionTypeOK, ComesBack, OffStaysOff,
        SessionStates
  <2>3. CASE voice # "hello"
    BY <1>4, <2>1, <2>3
    DEF VoiceCheckTimer, counts, router, SessionTypeOK, ComesBack,
        OffStaysOff, SessionStates
  <2> QED
    BY <2>2, <2>3
<1> QED
  BY <1>1, <1>2, <1>3, <1>4 DEF Timer

LEMMA HandlerKeeps ==
  ASSUME NEW c \in Controls, IInv, ControlHandler(c)
  PROVE  IInv'
<1> USE SessionAssumption DEF IInv
<1>1. ASSUME NEW command \in {"HELLO", "DEST", "SESSION"},
             NEW expected \in SessionStates,
             Ignored(c, command, expected)
      PROVE  IInv'
  <2>1. asked' \in [Controls -> Seq({"HELLO", "DEST", "SESSION"})]
    BY <1>1, TailAsked DEF Ignored, Answered, Done, SessionTypeOK
  <2> QED
    BY <1>1, <2>1
    DEF Ignored, ours, timers, counts, SessionTypeOK, ComesBack, OffStaysOff,
        SessionStates
<1>2. ASSUME NEW command \in {"HELLO", "DEST", "SESSION"},
             NEW expected \in SessionStates,
             Refused(c, command, expected), expected # "none"
      PROVE  IInv'
  <2>1. failures' \in 0..MaxFailures
    BY <1>2 DEF Refused, Fail, SessionTypeOK
  <2> QED
    BY <1>2, <2>1, GiveUpLeaves
    DEF Refused, SessionTypeOK, ComesBack, OffStaysOff, SessionStates
<1>3. CASE HelloAnswer(c)
  <2>1. asked[c] # <<>> /\ current \in Controls
    BY <1>3 DEF HelloAnswer, Answered, SessionTypeOK
  <2>2. asked' \in [Controls -> Seq({"HELLO", "DEST", "SESSION"})]
    BY <1>3, <2>1, AnsweredByLeaves DEF HelloAnswer
  <2>3. state' \in {"generate", "create"} /\ key' \in BOOLEAN
    BY <1>3 DEF HelloAnswer, SessionTypeOK
  <2>4. on /\ current \in open
    BY <1>3 DEF HelloAnswer, SessionTypeOK, OffStaysOff
  <2>5. UNCHANGED <<on, current, voice, timers, open, dead, holder, counts>>
    BY <1>3 DEF HelloAnswer
  <2> QED
    BY <2>2, <2>3, <2>4, <2>5
    DEF timers, counts, SessionTypeOK, ComesBack, OffStaysOff, SessionStates
<1>4. CASE DestOK(c)
  <2>1. asked[c] # <<>> /\ current \in Controls
    BY <1>4 DEF DestOK, Answered, SessionTypeOK
  <2>2. asked' \in [Controls -> Seq({"HELLO", "DEST", "SESSION"})]
    BY <1>4, <2>1, AnsweredByLeaves DEF DestOK
  <2>3. state' \in {"generate", "create"} /\ key' \in BOOLEAN
    BY <1>4 DEF DestOK, SessionTypeOK
  <2>4. on /\ current \in open
    BY <1>4 DEF DestOK, SessionTypeOK, OffStaysOff
  <2>5. UNCHANGED <<on, current, voice, timers, open, dead, holder, counts>>
    BY <1>4 DEF DestOK
  <2> QED
    BY <2>2, <2>3, <2>4, <2>5
    DEF timers, counts, SessionTypeOK, ComesBack, OffStaysOff, SessionStates
<1>5. CASE SessionOK(c)
  <2>1. asked' \in [Controls -> Seq({"HELLO", "DEST", "SESSION"})]
    BY <1>5, TailAsked DEF SessionOK, Answered, Done, SessionTypeOK
  <2>2. VoiceStart(vstarts) /\ vstarts \in 0..MaxPending
    BY <1>5 DEF SessionOK, SessionTypeOK
  <2> QED
    BY <1>5, <2>1, <2>2, VoiceStartLeaves
    DEF SessionOK, SessionTypeOK, ComesBack, OffStaysOff, SessionStates
<1>6. CASE ControlEof(c)
  <2>1. starts' \in 0..MaxPending /\ starts' > 0
    BY <1>6 DEF ControlEof, StartLater, OneMore, SessionTypeOK
  <2> QED
    BY <1>6, <2>1, EndLeaves
    DEF ControlEof, counts, SessionTypeOK, ComesBack, OffStaysOff,
        SessionStates
<1>7. {"hello", "generate", "create"} \subseteq SessionStates
  BY DEF SessionStates
<1> QED
  BY <1>1, <1>2, <1>3, <1>4, <1>5, <1>6, <1>7 DEF ControlHandler

LEMMA RestKeeps ==
  ASSUME IInv, VoiceHandler \/ \E c \in Controls : Close(c)
  PROVE  IInv'
<1> USE SessionAssumption DEF IInv
<1>1. CASE VoiceHandler
  <2>1. voice' \in {"none", "hello", "up"} /\ failures' \in 0..MaxFailures
    BY <1>1 DEF VoiceHandler, VoiceAnswer, VoiceEnds, Fail, SessionTypeOK
  <2> QED
    BY <1>1, <2>1
    DEF VoiceHandler, timers, router, SessionTypeOK, ComesBack, OffStaysOff,
        SessionStates
<1>2. ASSUME NEW c \in Controls, Close(c) PROVE IInv'
  <2>1. failures' \in 0..MaxFailures
    BY <1>2 DEF Close, Fail, SessionTypeOK
  <2>2. asked' \in [Controls -> Seq({"HELLO", "DEST", "SESSION"})]
    <3>1. <<>> \in Seq({"HELLO", "DEST", "SESSION"})
      OBVIOUS
    <3> QED
      BY <1>2, <3>1 DEF Close, SessionTypeOK
  <2> QED
    BY <1>2, <2>1, <2>2
    DEF Close, ours, timers, SessionTypeOK, ComesBack, OffStaysOff,
        SessionStates
<1> QED
  BY <1>1, <1>2

LEMMA NextKeeps == IInv /\ [SessionNext]_sessionVars => IInv'
<1> SUFFICES ASSUME IInv, [SessionNext]_sessionVars PROVE IInv'
  OBVIOUS
<1>1. CASE UNCHANGED sessionVars
  BY <1>1
  DEF sessionVars, ours, timers, router, counts, IInv, SessionTypeOK,
      ComesBack, OffStaysOff
<1>2. CASE SessionNext
  BY <1>2, SwitchesKeep, SessionTimersKeep, HandlerKeeps, RestKeeps DEF
     SessionNext
<1> QED
  BY <1>1, <1>2

-----------------------------------------------------------------------------

\* Types, and the agreement of ::cur(i2p,state) with ::cur(i2p,sock).
THEOREM SessionTypes == SessionSpec => []SessionTypeOK
BY InitHolds, NextKeeps, PTL DEF SessionSpec, IInv

\* However timers, refusals and closings fall together (i2p_check, i2p_mcheck,
\* i2p_handler): while the network is on, a session that is down has an
\* i2p_start pending.
THEOREM SessionComesBack == SessionSpec => []ComesBack
BY InitHolds, NextKeeps, PTL DEF SessionSpec, IInv

\* No pending timer or answer starts a session while the network is off
\* (net_toggle, i2p_start).
THEOREM OffHolds == SessionSpec => []OffStaysOff
BY InitHolds, NextKeeps, PTL DEF SessionSpec, IInv

\* What is ready stays on the socket it is on.
LEMMA ReadyKeeps ==
  IInv /\ ReadyIsOurs /\ [SessionNext]_sessionVars => ReadyIsOurs'
<1> SUFFICES ASSUME IInv, ReadyIsOurs, [SessionNext]_sessionVars,
                    state' = "ready", Abandoned' = {}, dead' = {}
             PROVE  holder' = current'
  BY DEF ReadyIsOurs
<1> USE DEF IInv
<1> DEFINE Same == UNCHANGED <<state, current, open, dead, holder>>
<1>1. Same => holder' = current'
  BY DEF ReadyIsOurs, Abandoned
<1>2. ~End
  BY DEF End
<1>3. ~Connect
  BY DEF Connect
<1>4. ~ConnectFails
  BY SessionAssumption DEF ConnectFails, SessionTypeOK
<1>5. CASE UNCHANGED sessionVars
  BY <1>1, <1>5 DEF sessionVars, ours, router
<1>6. CASE SwitchOn \/ SwitchOff
  BY <1>2, <1>3, <1>4, <1>6 DEF SwitchOn, SwitchOff
<1>7. CASE Timer
  <2>1. CASE StartTimer
    BY <1>2, <1>3, <1>4, <2>1 DEF StartTimer
  <2>2. CASE CheckTimer
    BY <1>1, <1>2, <2>2 DEF CheckTimer, GiveUp, router
  <2>3. CASE VoiceStartTimer
    BY <1>1, <2>3 DEF VoiceStartTimer, router
  <2>4. CASE VoiceCheckTimer
    BY <1>1, <1>2, <2>4 DEF VoiceCheckTimer, GiveUp, router
  <2> QED
    BY <1>7, <2>1, <2>2, <2>3, <2>4 DEF Timer
<1>8. CASE VoiceHandler
  BY <1>1, <1>8 DEF VoiceHandler, router
<1>9. ASSUME NEW c \in Controls, ControlHandler(c) PROVE holder' = current'
  <2>1. ASSUME NEW command, NEW expected, Ignored(c, command, expected)
        PROVE  holder' = current'
    <3>1. UNCHANGED <<state, current, open, dead>>
      BY <2>1 DEF Ignored, ours
    <3>2. holder = current /\ current \in Controls
      BY <3>1 DEF ReadyIsOurs, Abandoned, SessionTypeOK
    <3>3. holder # NoSock
      BY <3>2, SessionAssumption
    <3> QED
      BY <2>1, <3>1, <3>2, <3>3 DEF Ignored
  <2>2. ASSUME NEW command, NEW expected PROVE ~Refused(c, command, expected)
    BY <1>2 DEF Refused, GiveUp
  <2>3. ~HelloAnswer(c) /\ ~DestOK(c) /\ ~ControlEof(c)
    BY <1>2 DEF HelloAnswer, DestOK, ControlEof
  <2>4. CASE SessionOK(c)
    <3>1. c \in open /\ holder' = c /\ current' = current /\ open' = open
      BY <2>4 DEF SessionOK, Answered
    <3> QED
      BY <3>1 DEF Abandoned
  <2> QED
    BY <1>9, <2>1, <2>2, <2>3, <2>4 DEF ControlHandler
<1>10. \A c \in Controls : ~Close(c)
  BY DEF Close
<1> QED
  BY <1>5, <1>6, <1>7, <1>8, <1>9, <1>10 DEF SessionNext

\* As long as no i2p_start has taken the place of an open socket, a session
\* that the program takes for ready is the one the router has given it.
THEOREM ReadyHolds == SessionSpec => []ReadyIsOurs
<1>1. SessionInit => ReadyIsOurs
  BY DEF SessionInit, ReadyIsOurs
<1> QED
  BY <1>1, InitHolds, NextKeeps, ReadyKeeps, PTL DEF SessionSpec

-----------------------------------------------------------------------------
(* The session as the streams see it.                                      *)

Seen ==
  IF state = "none" THEN "off" ELSE IF state = "ready" THEN "ready"
  ELSE "starting"

Goes(old, new) ==
  Starts(old, new) \/ Readies(old, new) \/ Restarts(old, new) \/ Ends(old, new)

Moves == Goes(Seen, Seen') \/ Seen' = Seen

\* What a step does to the state decides what the streams see of it.
LEMMA MovesBy ==
  ASSUME SessionTypeOK, SessionTypeOK',
         \/ state' = state
         \/ state' = "none"
         \/ state' = "hello"
         \/ /\ state \in {"hello", "generate"}
            /\ state' \in {"generate", "create"}
         \/ state = "create" /\ state' = "ready"
  PROVE  Moves
BY DEF Moves, Goes, Seen, Starts, Readies, Restarts, Ends, SessionTypeOK,
   SessionStates

LEMMA NextMoves == IInv /\ [SessionNext]_sessionVars => Moves
<1> SUFFICES ASSUME IInv, [SessionNext]_sessionVars PROVE Moves
  OBVIOUS
<1>1. SessionTypeOK /\ SessionTypeOK'
  BY NextKeeps DEF IInv
<1> DEFINE Ok == \/ state' = state
                 \/ state' = "none"
                 \/ state' = "hello"
                 \/ /\ state \in {"hello", "generate"}
                    /\ state' \in {"generate", "create"}
                 \/ state = "create" /\ state' = "ready"
<1>2. ASSUME UNCHANGED sessionVars PROVE Ok
  BY <1>2 DEF sessionVars, ours
<1>3. ASSUME SwitchOn \/ SwitchOff PROVE Ok
  BY <1>3 DEF SwitchOn, SwitchOff, Connect, ConnectFails, End
<1>4. ASSUME Timer PROVE Ok
  BY <1>4 DEF Timer, StartTimer, CheckTimer, VoiceStartTimer,
     VoiceCheckTimer, Connect, ConnectFails, GiveUp, End
<1>5. ASSUME VoiceHandler PROVE Ok
  BY <1>5 DEF VoiceHandler
<1>6. ASSUME NEW c \in Controls, ControlHandler(c) PROVE Ok
  BY <1>6 DEF ControlHandler, Ignored, Refused, HelloAnswer, DestOK,
     SessionOK, ControlEof, GiveUp, End, ours
<1>7. ASSUME NEW c \in Controls, Close(c) PROVE Ok
  BY <1>7 DEF Close, ours
<1>8. Ok
  BY <1>2, <1>3, <1>4, <1>5, <1>6, <1>7 DEF SessionNext
<1> QED
  BY <1>1, <1>8, MovesBy

\* Whenever the streams see the session end, i2p_end has run.
LEMMA EndsByEnd ==
  IInv /\ [SessionNext]_sessionVars /\ Seen # "off" /\ Seen' = "off" => End
<1> SUFFICES ASSUME IInv, [SessionNext]_sessionVars,
                    state # "none", state' = "none"
             PROVE  End
  BY DEF Seen
<1>1. CASE UNCHANGED sessionVars
  BY <1>1 DEF sessionVars, ours
<1>2. CASE SwitchOn \/ SwitchOff
  BY <1>2 DEF SwitchOn, SwitchOff, Connect, ConnectFails
<1>3. CASE Timer
  BY <1>3 DEF Timer, StartTimer, CheckTimer, VoiceStartTimer,
     VoiceCheckTimer, Connect, ConnectFails, GiveUp
<1>4. CASE VoiceHandler
  BY <1>4 DEF VoiceHandler
<1>5. ASSUME NEW c \in Controls, ControlHandler(c) PROVE End
  BY <1>5 DEF ControlHandler, Ignored, Refused, HelloAnswer, DestOK,
     SessionOK, ControlEof, GiveUp, ours
<1>6. ASSUME NEW c \in Controls, Close(c) PROVE End
  BY <1>6 DEF Close, ours
<1> QED
  BY <1>1, <1>2, <1>3, <1>4, <1>5, <1>6 DEF SessionNext

\* The session that I2pStreams takes for granted is the one of I2pSession: it
\* begins off, and moves in the steps of SessionStarts, SessionReadies,
\* SessionRestarts and SessionEnds (i2p_start, i2p_handler, i2p_end); what
\* SessionEnds takes for an i2p_end is one.
THEOREM SessionAsSeen ==
  SessionSpec =>
    /\ Seen = "off" /\ [][Goes(Seen, Seen')]_Seen
    /\ [][Seen # "off" /\ Seen' = "off" => End]_sessionVars
<1>1. SessionInit => Seen = "off"
  BY DEF SessionInit, Seen
<1>2. IInv /\ [SessionNext]_sessionVars => [Goes(Seen, Seen')]_Seen
  BY NextMoves DEF Moves
<1>3. IInv /\ [SessionNext]_sessionVars
        => [Seen # "off" /\ Seen' = "off" => End]_sessionVars
  BY EndsByEnd
<1> QED
  BY <1>1, <1>2, <1>3, InitHolds, NextKeeps, PTL DEF SessionSpec
=============================================================================
