--------------------------- MODULE GroupChatProofs ---------------------------
(***************************************************************************)
(* Proofs about GroupChat: type correctness, the truth of the "delivered"  *)
(* lines, the once-per-memory display and answer, silence after an answer, *)
(* and that GroupChat implements ChatDelivery.                             *)
(***************************************************************************)
EXTENDS GroupChat, FiniteSetTheorems, TLAPS

-----------------------------------------------------------------------------
(* The queue operators.                                                    *)

QueueType(q) ==
  /\ DOMAIN q \subseteq Mids
  /\ \A m \in DOMAIN q : q[m] \in Entry

\* gchat_send makes a well-formed queue entry.
LEMMA EnqueueType ==
  ASSUME ChatAssumption, NEW q, QueueType(q), NEW m \in Mids,
         NEW targets \in SUBSET Peers
  PROVE  QueueType(Enqueue(q, m, targets))
BY DEF ChatAssumption, QueueType, Enqueue, Entry

\* A pass keeps the queue well formed: a count of zero is never taken down,
\* its entry goes.
LEMMA PassedType ==
  ASSUME ChatAssumption, NEW q, QueueType(q), NEW due \in SUBSET DOMAIN q
  PROVE  QueueType(Passed(q, due))
<1> SUFFICES ASSUME NEW m \in DOMAIN Passed(q, due)
             PROVE  m \in Mids /\ Passed(q, due)[m] \in Entry
  BY DEF QueueType
<1>1. m \in DOMAIN q /\ m \in Mids /\ q[m] \in Entry
  BY DEF Passed, QueueType
<1>2. CASE m \in due
  <2>1. q[m].count # 0
    BY <1>2 DEF Passed
  <2>2. q[m].count \in 1..Retries
    BY <1>1, <2>1 DEF Entry, ChatAssumption
  <2>3. Passed(q, due)[m] = [targets |-> q[m].targets,
                             count   |-> q[m].count - 1]
    BY <1>2 DEF Passed
  <2> QED
    BY <1>1, <2>2, <2>3 DEF Entry, ChatAssumption
<1>3. CASE m \notin due
  BY <1>1, <1>3 DEF Passed
<1> QED
  BY <1>2, <1>3

\* An answer keeps the queue well formed.
LEMMA AnsweredType ==
  ASSUME NEW q, QueueType(q), NEW m, NEW r
  PROVE  QueueType(Answered(q, m, r))
BY DEF QueueType, Answered, Without, Entry

\* An answer adds no target to any entry, and takes r off m's.
LEMMA AnsweredTargets ==
  ASSUME NEW q, QueueType(q), NEW m, NEW r, NEW n \in DOMAIN Answered(q, m, r)
  PROVE  /\ n \in DOMAIN q
         /\ Answered(q, m, r)[n].targets \subseteq q[n].targets
         /\ n = m => r \notin Answered(q, m, r)[n].targets
BY DEF QueueType, Answered, Without, Entry

\* A pass changes no targets.
LEMMA PassedTargets ==
  ASSUME NEW q, QueueType(q), NEW due, NEW n \in DOMAIN Passed(q, due)
  PROVE  n \in DOMAIN q /\ Passed(q, due)[n].targets = q[n].targets
BY DEF QueueType, Passed, Entry

\* What a pass transmits are texts of p, for targets of due entries.
LEMMA CopiesType ==
  ASSUME ChatAssumption, NEW p \in Peers, QueueType(queue[p]),
         NEW due \in SUBSET DOMAIN queue[p], NEW c \in Copies(p, due)
  PROVE  /\ c \in Message
         /\ c.type = "TEXT" /\ c.from = p /\ c.to # p
         /\ c.mid \in DOMAIN queue[p]
         /\ c.to \in queue[p][c.mid].targets
<1>1. PICK m \in due :
        c \in {[type |-> "TEXT", mid |-> m, from |-> p, to |-> t,
                try |-> queue[p][m].count] : t \in queue[p][m].targets \ {p}}
  BY DEF Copies
<1>2. m \in Mids /\ queue[p][m] \in Entry
  BY DEF QueueType
<1>3. queue[p][m].targets \in SUBSET Peers /\ queue[p][m].count \in 0..Retries
  BY <1>2 DEF Entry
<1> QED
  BY <1>1, <1>2, <1>3 DEF Message

\* A reply is a message of the receiver to the sender about the same text.
LEMMA ReplyType ==
  ASSUME NEW m \in Message, NEW kind \in {"OK", "NO"}
  PROVE  /\ Reply(kind, m) \in Message
         /\ Reply(kind, m).type = kind
         /\ Reply(kind, m).mid = m.mid
         /\ Reply(kind, m).from = m.to
         /\ Reply(kind, m).to = m.from
BY DEF Reply, Message

-----------------------------------------------------------------------------
(* The inductive invariant.                                                *)

\* Only the author's queue holds a text.
QueuedByAuthor ==
  \A p \in Peers : \A m \in DOMAIN queue[p] : author[m] = p

\* What a peer keeps or remembers has been posted.
KeptIsPosted ==
  \A p \in Peers : \A m \in hist[p] \cup cache[p] : author[m] # NoPeer

\* Texts in flight come from their author; an OK in flight is true.
NetIsTrue ==
  \A c \in net :
    /\ c.from # c.to
    /\ author[c.mid] # NoPeer
    /\ c.type = "TEXT" => author[c.mid] = c.from
    /\ c.type = "OK" => c.mid \in hist[c.from]

\* An answer that was reported is another peer's, about a text in the history.
ToldIsTrue ==
  \A p \in Peers : \A r \in told[p] :
    /\ r.mid \in hist[p]
    /\ r.by # p
    /\ r.answer = "OK" => r.mid \in hist[r.by]

\* Who has answered is no target any more.
ToldIsOff ==
  \A p \in Peers : \A r \in told[p] :
    r.mid \in DOMAIN queue[p] => r.by \notin queue[p][r.mid].targets

\* A window shows a text once for being remembered or written, and once for
\* every time it was forgotten.
Remembered(p, m) == m \in cache[p] \/ author[m] = p

ShownIsCounted ==
  \A p \in Peers, m \in Mids :
    shown[p][m] <= forgot[p][m] + (IF Remembered(p, m) THEN 1 ELSE 0)

IndInv ==
  /\ TypeOK
  /\ QueuedByAuthor
  /\ KeptIsPosted
  /\ NetIsTrue
  /\ ToldIsTrue
  /\ ToldIsOff
  /\ ShownIsCounted

-----------------------------------------------------------------------------
(* The invariant holds at the start and every step keeps it.               *)

LEMMA InitIndInv == ChatAssumption /\ Init => IndInv
BY DEF ChatAssumption, Init, NoEntries, IndInv, TypeOK, QueuedByAuthor,
       KeptIsPosted, NetIsTrue, ToldIsTrue, ToldIsOff, ShownIsCounted,
       Remembered

USE DEF peerVars, logVars

LEMMA SendTextIndInv ==
  ASSUME ChatAssumption, IndInv, NEW p \in Peers, NEW m \in Mids,
         SendText(p, m)
  PROVE  IndInv'
<1> USE DEF IndInv, SendText
<1>1. QueueType(queue[p]) /\ QueueType(Enqueue(queue[p], m, Targets(p)))
  <2>1. QueueType(queue[p]) /\ Targets(p) \in SUBSET Peers
    BY DEF TypeOK, QueueType, Targets, ChatAssumption
  <2> QED
    BY <2>1, EnqueueType
<1>2. TypeOK'
  BY <1>1 DEF TypeOK, QueueType
<1>3. QueuedByAuthor'
  BY DEF TypeOK, QueuedByAuthor, Enqueue
<1>4. KeptIsPosted'
  BY DEF TypeOK, KeptIsPosted, ChatAssumption
<1>5. NetIsTrue'
  BY DEF TypeOK, NetIsTrue, Message
<1>6. ToldIsTrue'
  BY DEF TypeOK, ToldIsTrue, Report
<1>7. ToldIsOff'
  BY DEF TypeOK, ToldIsOff, ToldIsTrue, KeptIsPosted, Enqueue, Report
<1>8. ShownIsCounted'
  BY DEF TypeOK, ShownIsCounted, Remembered, KeptIsPosted, ChatAssumption
<1> QED
  BY <1>2, <1>3, <1>4, <1>5, <1>6, <1>7, <1>8

LEMMA FlushIndInv ==
  ASSUME ChatAssumption, IndInv, NEW p \in Peers,
         NEW due \in SUBSET DOMAIN queue[p], Flush(p, due)
  PROVE  IndInv'
<1> USE DEF IndInv, Flush
<1>1. QueueType(queue[p])
  BY DEF TypeOK, QueueType
<1>2. QueueType(Passed(queue[p], due))
  BY <1>1, PassedType
<1>3. \A c \in Copies(p, due) :
        /\ c \in Message
        /\ c.type = "TEXT" /\ c.from = p /\ c.to # p
        /\ c.mid \in DOMAIN queue[p]
  BY <1>1, CopiesType
<1>4. TypeOK'
  BY <1>2, <1>3 DEF TypeOK, QueueType
<1>5. \A n \in DOMAIN Passed(queue[p], due) :
        n \in DOMAIN queue[p]
        /\ Passed(queue[p], due)[n].targets = queue[p][n].targets
  BY <1>1, PassedTargets
<1>6. QueuedByAuthor'
  BY <1>5 DEF TypeOK, QueuedByAuthor
<1>7. KeptIsPosted'
  BY DEF KeptIsPosted
<1>8. NetIsTrue'
  BY <1>3, <1>1 DEF TypeOK, NetIsTrue, QueuedByAuthor, QueueType,
                    ChatAssumption
<1>9. ToldIsTrue' /\ ShownIsCounted'
  BY DEF ToldIsTrue, ShownIsCounted, Remembered
<1>10. ToldIsOff'
  BY <1>5 DEF TypeOK, ToldIsOff
<1> QED
  BY <1>4, <1>6, <1>7, <1>8, <1>9, <1>10

\* Whatever a receipt that changes no other state answers, it answers truly.
LEMMA DropIndInv ==
  ASSUME IndInv, NEW m \in net,
         net' \subseteq (net \ {m}) \cup {Reply("NO", m)},
         UNCHANGED <<peerVars, logVars>>
  PROVE  IndInv'
<1> USE DEF IndInv
<1>1. /\ m \in Message
      /\ Reply("NO", m) \in Message
      /\ Reply("NO", m).type = "NO"
      /\ Reply("NO", m).mid = m.mid
      /\ Reply("NO", m).from = m.to
      /\ Reply("NO", m).to = m.from
  BY ReplyType DEF TypeOK
<1>2. TypeOK'
  BY <1>1 DEF TypeOK
<1>3. NetIsTrue'
  BY <1>1 DEF NetIsTrue
<1>4. QueuedByAuthor' /\ KeptIsPosted' /\ ToldIsTrue' /\ ToldIsOff'
  BY DEF QueuedByAuthor, KeptIsPosted, ToldIsTrue, ToldIsOff
<1>5. ShownIsCounted'
  BY DEF ShownIsCounted, Remembered
<1> QED
  BY <1>2, <1>3, <1>4, <1>5

LEMMA RecvTextIndInv ==
  ASSUME ChatAssumption, IndInv, NEW p \in Peers, NEW m \in net, m.to = p,
         RecvText(p, m)
  PROVE  IndInv'
<1> USE DEF IndInv, RecvText
<1>1. /\ m \in Message /\ m.mid \in Mids
      /\ Reply("OK", m) \in Message
      /\ Reply("OK", m).type = "OK"
      /\ Reply("OK", m).mid = m.mid
      /\ Reply("OK", m).from = m.to
      /\ Reply("OK", m).to = m.from
  BY ReplyType DEF TypeOK, Message
<1>2. net' = (net \ {m}) \cup {Reply("OK", m)}
  BY DEF Consume
<1>3. author[m.mid] = m.from /\ m.from # p /\ author[m.mid] # NoPeer
  BY DEF NetIsTrue
<1>4. TypeOK'
  BY <1>1, <1>2 DEF TypeOK
<1>5. NetIsTrue'
  BY <1>1, <1>2, <1>3 DEF NetIsTrue, TypeOK, Message
<1>6. QueuedByAuthor'
  BY DEF QueuedByAuthor
<1>7. KeptIsPosted'
  BY <1>3 DEF KeptIsPosted, TypeOK
<1>8. ToldIsTrue' /\ ToldIsOff'
  BY DEF ToldIsTrue, ToldIsOff, TypeOK, Report
<1>9. ShownIsCounted'
  BY <1>1, <1>3 DEF ShownIsCounted, Remembered, TypeOK, Accepted
<1> QED
  BY <1>4, <1>5, <1>6, <1>7, <1>8, <1>9

LEMMA RecvAnswerIndInv ==
  ASSUME ChatAssumption, IndInv, NEW p \in Peers, NEW m \in net, m.to = p,
         RecvAnswer(p, m)
  PROVE  IndInv'
<1> USE DEF IndInv, RecvAnswer
<1> DEFINE q == Answered(queue[p], m.mid, m.from)
<1>1. m \in Message /\ m.mid \in Mids /\ m.from \in Peers
      /\ ReportOf(m) \in Report /\ ReportOf(m).mid = m.mid
      /\ ReportOf(m).by = m.from /\ ReportOf(m).answer = m.type
  BY DEF TypeOK, Message, Report, ReportOf
<1>2. QueueType(queue[p]) /\ QueueType(q)
  <2>1. QueueType(queue[p])
    BY DEF TypeOK, QueueType
  <2> QED
    BY <2>1, AnsweredType
<1>3. \A n \in DOMAIN q :
        /\ n \in DOMAIN queue[p]
        /\ q[n].targets \subseteq queue[p][n].targets
        /\ n = m.mid => m.from \notin q[n].targets
  BY <1>2, AnsweredTargets
<1>4. queue' = [queue EXCEPT ![p] = q]
  OBVIOUS
<1> HIDE DEF q
<1>5. TypeOK'
  BY <1>1, <1>2, <1>4 DEF TypeOK, QueueType, Consume
<1>6. QueuedByAuthor'
  BY <1>3, <1>4 DEF QueuedByAuthor, TypeOK
<1>7. KeptIsPosted'
  BY <1>1 DEF KeptIsPosted, NetIsTrue, TypeOK
<1>8. NetIsTrue'
  BY DEF NetIsTrue, Consume
<1>9. ToldIsTrue'
  BY <1>1 DEF ToldIsTrue, NetIsTrue, TypeOK
<1>10. ToldIsOff'
  BY <1>1, <1>3, <1>4 DEF ToldIsOff, TypeOK
<1>11. ShownIsCounted'
  BY <1>1 DEF ShownIsCounted, Remembered, TypeOK
<1> QED
  BY <1>5, <1>6, <1>7, <1>8, <1>9, <1>10, <1>11

LEMMA RecvIndInv ==
  ASSUME ChatAssumption, IndInv, NEW p \in Peers, NEW m \in net, Recv(p, m)
  PROVE  IndInv'
<1>1. m.to = p
  BY DEF Recv
<1>2. CASE RecvScreened(p, m) \/ RecvDuplicate(p, m) \/ RecvDenied(p, m)
  BY <1>2, DropIndInv DEF RecvScreened, RecvDuplicate, RecvDenied, Consume
<1>3. CASE RecvText(p, m)
  BY <1>1, <1>3, RecvTextIndInv
<1>4. CASE RecvAnswer(p, m)
  BY <1>1, <1>4, RecvAnswerIndInv
<1> QED
  BY <1>2, <1>3, <1>4 DEF Recv

LEMMA ForgetIndInv ==
  ASSUME ChatAssumption, IndInv, NEW p \in Peers,
         Restart(p) \/ \E m \in Mids : Expire(p, m)
  PROVE  IndInv'
<1>1. CASE Restart(p)
  <2>1. TypeOK'
    BY <1>1 DEF IndInv, Restart, TypeOK, NoEntries
  <2>2. QueuedByAuthor' /\ KeptIsPosted' /\ NetIsTrue'
    BY <1>1 DEF IndInv, Restart, TypeOK, NoEntries, QueuedByAuthor,
                KeptIsPosted, NetIsTrue
  <2>3. ToldIsTrue' /\ ToldIsOff'
    BY <1>1 DEF IndInv, Restart, TypeOK, NoEntries, ToldIsTrue, ToldIsOff
  <2>4. ShownIsCounted'
    BY <1>1 DEF IndInv, Restart, TypeOK, ShownIsCounted, Remembered
  <2> QED
    BY <2>1, <2>2, <2>3, <2>4 DEF IndInv
<1>2. ASSUME NEW m \in Mids, Expire(p, m)
      PROVE  IndInv'
  <2>1. TypeOK'
    BY <1>2 DEF IndInv, Expire, TypeOK
  <2>2. QueuedByAuthor' /\ KeptIsPosted' /\ NetIsTrue'
    BY <1>2 DEF IndInv, Expire, TypeOK, QueuedByAuthor, KeptIsPosted,
                NetIsTrue
  <2>3. ToldIsTrue' /\ ToldIsOff'
    BY <1>2 DEF IndInv, Expire, TypeOK, ToldIsTrue, ToldIsOff
  <2>4. ShownIsCounted'
    BY <1>2 DEF IndInv, Expire, TypeOK, ShownIsCounted, Remembered
  <2> QED
    BY <2>1, <2>2, <2>3, <2>4 DEF IndInv
<1> QED
  BY <1>1, <1>2

LEMMA MembershipIndInv ==
  ASSUME ChatAssumption, IndInv, NEW p \in Peers,
         \/ SendRefused(p) \/ Leave(p) \/ Join(p)
         \/ \E rule \in Rules : NewRule(p, rule)
  PROVE  IndInv'
<1>1. CASE SendRefused(p)
  <2>1. TypeOK'
    BY <1>1 DEF IndInv, SendRefused, TypeOK, NoEntries
  <2>2. QueuedByAuthor' /\ ToldIsOff'
    BY <1>1 DEF IndInv, SendRefused, TypeOK, NoEntries, QueuedByAuthor,
                ToldIsOff
  <2> QED
    BY <1>1, <2>1, <2>2 DEF IndInv, SendRefused, KeptIsPosted, NetIsTrue,
       ToldIsTrue, ShownIsCounted, Remembered
<1>2. CASE Leave(p) \/ Join(p) \/ \E rule \in Rules : NewRule(p, rule)
  <2>1. /\ joined' \in [Peers -> BOOLEAN]
        /\ users' \in [Peers -> SUBSET Peers]
    <3>1. joined \in [Peers -> BOOLEAN] /\ users \in [Peers -> SUBSET Peers]
      BY DEF IndInv, TypeOK
    <3>2. CASE Leave(p) \/ Join(p)
      BY <3>1, <3>2 DEF Leave, Join
    <3>3. ASSUME NEW rule \in Rules, NewRule(p, rule)
          PROVE  joined' \in [Peers -> BOOLEAN]
                 /\ users' \in [Peers -> SUBSET Peers]
      <4>1. rule \in SUBSET Peers
        BY DEF ChatAssumption
      <4> QED
        BY <3>1, <3>3, <4>1 DEF NewRule
    <3> QED
      BY <1>2, <3>2, <3>3
  <2>2. UNCHANGED <<queue, cache, hist, net, logVars>>
    BY <1>2 DEF Leave, Join, NewRule
  <2>3. TypeOK'
    BY <2>1, <2>2 DEF IndInv, TypeOK
  <2> QED
    BY <2>2, <2>3 DEF IndInv, QueuedByAuthor, KeptIsPosted, NetIsTrue,
       ToldIsTrue, ToldIsOff, ShownIsCounted, Remembered
<1> QED
  BY <1>1, <1>2

LEMMA NextIndInv ==
  ASSUME ChatAssumption, IndInv, [Next]_vars
  PROVE  IndInv'
<1>1. CASE UNCHANGED vars
  BY <1>1 DEF vars, IndInv, TypeOK, QueuedByAuthor, KeptIsPosted, NetIsTrue,
              ToldIsTrue, ToldIsOff, ShownIsCounted, Remembered
<1>2. ASSUME NEW p \in Peers, Step(p)
      PROVE  IndInv'
  BY <1>2, SendTextIndInv, FlushIndInv, RecvIndInv, ForgetIndInv,
     MembershipIndInv DEF Step, CheckQueue
<1>3. ASSUME NEW p \in Peers, Fault(p)
      PROVE  IndInv'
  BY <1>3, ForgetIndInv, MembershipIndInv DEF Fault
<1>4. ASSUME NEW m \in net, Lose(m)
      PROVE  IndInv'
  BY <1>4, DropIndInv DEF Lose, Consume
<1> QED
  BY <1>1, <1>2, <1>3, <1>4 DEF Next

\* The strengthened invariant holds in every behaviour of the conversation.
THEOREM IndInvHolds == ASSUME ChatAssumption PROVE Spec => []IndInv
<1>1. Init => IndInv
  BY InitIndInv
<1>2. IndInv /\ [Next]_vars => IndInv'
  BY NextIndInv
<1> QED
  BY <1>1, <1>2, PTL DEF Spec

-----------------------------------------------------------------------------
(* What follows from it.                                                   *)

\* The state of every peer, the network and the logs keep their types.
THEOREM TypeCorrect == ASSUME ChatAssumption PROVE Spec => []TypeOK
BY IndInvHolds, PTL DEF IndInv

\* A "delivered" line is never false (gchat_recv keeps before it answers).
THEOREM DeliveredTrue == ASSUME ChatAssumption PROVE Spec => []DeliveredIsKept
<1>1. IndInv => DeliveredIsKept
  BY DEF IndInv, ToldIsTrue, DeliveredIsKept
<1> QED
  BY <1>1, IndInvHolds, PTL

\* ::gchatcache makes a window show a text at most once per memory.
THEOREM ShownOnce == ASSUME ChatAssumption PROVE Spec => []ShownOncePerMemory
<1>1. ASSUME IndInv, NEW p \in Peers, NEW m \in Mids
      PROVE  shown[p][m] <= 1 + forgot[p][m]
  <2>1. shown[p][m] \in Nat /\ forgot[p][m] \in Nat
    BY <1>1 DEF IndInv, TypeOK
  <2>2. shown[p][m] <= forgot[p][m] + 1 \/ shown[p][m] <= forgot[p][m] + 0
    BY <1>1 DEF IndInv, ShownIsCounted
  <2> QED
    BY <2>1, <2>2
<1>2. IndInv => ShownOncePerMemory
  BY <1>1 DEF ShownOncePerMemory
<1> QED
  BY <1>2, IndInvHolds, PTL

\* check_gchatqueue never transmits a text to a member whose answer was told.
THEOREM SilentAfterAnswer == ASSUME ChatAssumption PROVE Spec => NeverAfterAnswer
<1> DEFINE Silent ==
      \A m \in net' \ net :
        m.type = "TEXT" => \A r \in told[m.from] :
          ~(r.mid = m.mid /\ r.by = m.to)
<1>1. ASSUME IndInv, [Next]_vars
      PROVE  Silent
  <2>1. ASSUME NEW p \in Peers, NEW due \in SUBSET DOMAIN queue[p],
               Flush(p, due)
        PROVE  Silent
    <3>1. QueueType(queue[p])
      BY <1>1 DEF IndInv, TypeOK, QueueType
    <3>2. \A c \in Copies(p, due) :
            /\ c.from = p
            /\ c.mid \in DOMAIN queue[p]
            /\ c.to \in queue[p][c.mid].targets
      BY <3>1, CopiesType
    <3> QED
      BY <1>1, <2>1, <3>2 DEF Flush, IndInv, ToldIsOff
  <2>2. ASSUME NEW p \in Peers, NEW m \in net, Recv(p, m)
        PROVE  Silent
    <3>1. m \in Message
      BY <1>1 DEF IndInv, TypeOK
    <3>2. Reply("OK", m).type # "TEXT" /\ Reply("NO", m).type # "TEXT"
      BY DEF Reply
    <3> QED
      BY <2>2, <3>2 DEF Recv, RecvScreened, RecvDuplicate, RecvDenied,
         RecvText, RecvAnswer, Consume
  <2>3. CASE net' \subseteq net
    BY <2>3
  <2> QED
    BY <1>1, <2>1, <2>2, <2>3 DEF Next, Step, Fault, CheckQueue, SendText,
       SendRefused, Expire, Restart, Leave, Join, NewRule, Lose, Consume, vars
<1>2. Silent => [Silent]_vars
  OBVIOUS
<1> QED
  BY <1>1, IndInvHolds, PTL DEF Spec, NeverAfterAnswer

-----------------------------------------------------------------------------
(* GroupChat implements ChatDelivery.                                      *)

Kept == [m \in Mids |-> {p \in Peers : m \in hist[p]}]

Confirmed == [m \in Mids |->
                {q \in Peers : \E p \in Peers : \E r \in told[p] :
                   author[m] = p /\ r = [mid |-> m, by |-> q,
                                         answer |-> "OK"]}]

LEMMA FamilyTypes ==
  /\ Kept \in [Mids -> SUBSET Peers] /\ Kept' \in [Mids -> SUBSET Peers]
  /\ Confirmed \in [Mids -> SUBSET Peers]
  /\ Confirmed' \in [Mids -> SUBSET Peers]
BY DEF Kept, Confirmed

\* One more peer keeps a text.
LEMMA KeptGrows ==
  ASSUME NEW m \in Mids, NEW p \in Peers,
         \A n \in Mids, q \in Peers :
           q \in Kept'[n] <=> (q \in Kept[n] \/ (n = m /\ q = p))
  PROVE  Kept' = [Kept EXCEPT ![m] = @ \cup {p}]
<1> DEFINE h == [Kept EXCEPT ![m] = @ \cup {p}]
<1>1. h \in [Mids -> SUBSET Peers]
  BY FamilyTypes
<1>2. ASSUME NEW n \in Mids
      PROVE  Kept'[n] = h[n]
  <2>1. \A q \in Peers : q \in Kept'[n] <=> q \in h[n]
    BY FamilyTypes
  <2>2. Kept'[n] \in SUBSET Peers /\ h[n] \in SUBSET Peers
    BY <1>1, FamilyTypes
  <2> HIDE DEF h
  <2> QED
    BY <2>1, <2>2
<1> HIDE DEF h
<1>3. Kept' = h
  BY <1>1, <1>2, FamilyTypes
<1> QED
  BY <1>3 DEF h

\* One more peer has confirmed a text.
LEMMA ConfirmedGrows ==
  ASSUME NEW m \in Mids, NEW p \in Peers,
         \A n \in Mids, q \in Peers :
           q \in Confirmed'[n] <=> (q \in Confirmed[n] \/ (n = m /\ q = p))
  PROVE  Confirmed' = [Confirmed EXCEPT ![m] = @ \cup {p}]
<1> DEFINE h == [Confirmed EXCEPT ![m] = @ \cup {p}]
<1>1. h \in [Mids -> SUBSET Peers]
  BY FamilyTypes
<1>2. ASSUME NEW n \in Mids
      PROVE  Confirmed'[n] = h[n]
  <2>1. \A q \in Peers : q \in Confirmed'[n] <=> q \in h[n]
    BY FamilyTypes
  <2>2. Confirmed'[n] \in SUBSET Peers /\ h[n] \in SUBSET Peers
    BY <1>1, FamilyTypes
  <2> HIDE DEF h
  <2> QED
    BY <2>1, <2>2
<1> HIDE DEF h
<1>3. Confirmed' = h
  BY <1>1, <1>2, FamilyTypes
<1> QED
  BY <1>3 DEF h

LEMMA InitDelivers == ASSUME ChatAssumption, Init PROVE Delivery!Init
<1>1. Kept = [m \in Mids |-> {}] /\ Confirmed = [m \in Mids |-> {}]
  BY DEF Init, Kept, Confirmed
<1>2. users \in [Peers -> SUBSET Peers]
  BY DEF Init, ChatAssumption
<1> QED
  BY <1>1, <1>2 DEF Delivery!Init, Kept, Confirmed, Init

\* Posting a text is a Post.
LEMMA SendTextDelivers ==
  ASSUME ChatAssumption, IndInv, NEW p \in Peers, NEW m \in Mids,
         SendText(p, m)
  PROVE  Delivery!Post(p, m)
<1>1. Kept' = [Kept EXCEPT ![m] = @ \cup {p}]
  <2>1. \A n \in Mids, q \in Peers :
          q \in Kept'[n] <=> (q \in Kept[n] \/ (n = m /\ q = p))
    BY DEF Kept, SendText, IndInv, TypeOK
  <2> QED
    BY <2>1, KeptGrows
<1>2. Confirmed' = Confirmed
  BY DEF Confirmed, SendText, IndInv, TypeOK, ToldIsTrue, KeptIsPosted, Report
<1> QED
  BY <1>1, <1>2 DEF Delivery!Post, Delivery!MayWrite, SendText, MayWrite,
     Kept, Confirmed

\* Taking a text in is a Store.
LEMMA RecvTextDelivers ==
  ASSUME ChatAssumption, IndInv, NEW p \in Peers, NEW m \in net, m.to = p,
         RecvText(p, m)
  PROVE  Delivery!Store(p, m.mid)
<1>1. m.mid \in Mids /\ author[m.mid] = m.from /\ author[m.mid] # NoPeer
  BY DEF IndInv, TypeOK, NetIsTrue, Message, RecvText
<1>2. MayWrite(p, author[m.mid])
  BY <1>1 DEF RecvText, Accepted, Denied
<1>3. Kept' = [Kept EXCEPT ![m.mid] = @ \cup {p}]
  <2>1. \A n \in Mids, q \in Peers :
          q \in Kept'[n] <=> (q \in Kept[n] \/ (n = m.mid /\ q = p))
    BY <1>1 DEF Kept, RecvText, IndInv, TypeOK
  <2> QED
    BY <1>1, <2>1, KeptGrows
<1>4. Confirmed' = Confirmed
  BY DEF Confirmed, RecvText
<1> QED
  BY <1>1, <1>2, <1>3, <1>4 DEF Delivery!Store, Delivery!MayWrite, RecvText,
     MayWrite, Kept, Confirmed

\* An answer to the author is a Confirm if it is an OK that is reported;
\* every other answer leaves the promise's state alone.
LEMMA RecvAnswerDelivers ==
  ASSUME ChatAssumption, IndInv, NEW p \in Peers, NEW m \in net, m.to = p,
         RecvAnswer(p, m)
  PROVE  Delivery!Confirm(m.from, m.mid) \/ UNCHANGED Delivery!vars
<1>1. m \in Message /\ m.mid \in Mids /\ m.from \in Peers /\ m.from # p
  BY DEF IndInv, TypeOK, NetIsTrue, Message
<1>2. Kept' = Kept /\ UNCHANGED <<author, users>>
  BY DEF Kept, RecvAnswer
<1>3. told \in [Peers -> SUBSET Report] /\ author' = author
  BY DEF IndInv, TypeOK, RecvAnswer
<1>4. CASE m.type = "OK" /\ author[m.mid] = p /\ m.mid \in hist[p]
  <2>1. m.from \in Kept[m.mid]
    BY <1>1, <1>4 DEF Kept, IndInv, NetIsTrue
  <2>2. told' = [told EXCEPT ![p] = @ \cup {[mid |-> m.mid, by |-> m.from,
                                            answer |-> "OK"]}]
    BY <1>4 DEF RecvAnswer, ReportOf
  <2>3. \A n \in Mids, q \in Peers :
          q \in Confirmed'[n]
            <=> (q \in Confirmed[n] \/ (n = m.mid /\ q = m.from))
    <3> SUFFICES ASSUME NEW n \in Mids, NEW q \in Peers
                 PROVE  q \in Confirmed'[n]
                          <=> (q \in Confirmed[n]
                               \/ (n = m.mid /\ q = m.from))
      OBVIOUS
    <3> DEFINE r == [mid |-> n, by |-> q, answer |-> "OK"]
    <3>1. q \in Confirmed[n] <=> \E s \in Peers : author[n] = s /\ r \in told[s]
      BY DEF Confirmed
    <3>2. q \in Confirmed'[n]
            <=> \E s \in Peers : author[n] = s /\ r \in told'[s]
      BY <1>3 DEF Confirmed
    <3>3. r = [mid |-> m.mid, by |-> m.from, answer |-> "OK"]
            <=> (n = m.mid /\ q = m.from)
      OBVIOUS
    <3>4. \A s \in Peers : r \in told'[s]
            <=> (r \in told[s] \/ (s = p /\ n = m.mid /\ q = m.from))
      <4> HIDE DEF r
      <4> QED
        BY <1>3, <2>2, <3>3
    <3> HIDE DEF r
    <3> QED
      BY <1>4, <3>1, <3>2, <3>4
  <2>4. Confirmed' = [Confirmed EXCEPT ![m.mid] = @ \cup {m.from}]
    BY <1>1, <2>3, ConfirmedGrows
  <2> QED
    BY <1>1, <1>2, <1>4, <2>1, <2>4 DEF Delivery!Confirm, Kept, Confirmed
<1>5. CASE ~(m.type = "OK" /\ author[m.mid] = p /\ m.mid \in hist[p])
  <2>1. \A n \in Mids, q \in Peers, s \in Peers :
          author[n] = s =>
            ([mid |-> n, by |-> q, answer |-> "OK"] \in told'[s]
              <=> [mid |-> n, by |-> q, answer |-> "OK"] \in told[s])
    BY <1>1, <1>3, <1>5 DEF RecvAnswer, ReportOf
  <2>2. Confirmed' = Confirmed
    BY <1>3, <2>1 DEF Confirmed
  <2> QED
    BY <1>2, <2>2 DEF Delivery!vars, Kept, Confirmed
<1> QED
  BY <1>4, <1>5

\* Every step is a step of the promise or leaves its state alone.
LEMMA NextDelivers ==
  ASSUME ChatAssumption, IndInv, [Next]_vars
  PROVE  [Delivery!Next]_(Delivery!vars)
<1>1. CASE UNCHANGED <<users, hist, author, told>>
  BY <1>1 DEF Delivery!vars
<1>2. ASSUME NEW p \in Peers, NEW m \in Mids, SendText(p, m)
      PROVE  Delivery!Next
  BY <1>2, SendTextDelivers DEF Delivery!Next
<1>3. ASSUME NEW p \in Peers, NEW m \in net, Recv(p, m)
      PROVE  [Delivery!Next]_(Delivery!vars)
  <2>1. m.to = p /\ m.mid \in Mids /\ m.from \in Peers
    BY <1>3 DEF Recv, IndInv, TypeOK, Message
  <2>2. CASE RecvText(p, m)
    BY <2>1, <2>2, RecvTextDelivers DEF Delivery!Next
  <2>3. CASE RecvAnswer(p, m)
    BY <2>1, <2>3, RecvAnswerDelivers DEF Delivery!Next
  <2>4. CASE UNCHANGED <<peerVars, logVars>>
    BY <1>1, <2>4
  <2> QED
    BY <1>3, <2>2, <2>3, <2>4 DEF Recv, RecvScreened, RecvDenied,
       RecvDuplicate
<1>4. ASSUME NEW p \in Peers, NEW rule \in Rules, NewRule(p, rule)
      PROVE  Delivery!Next
  <2>1. rule \in SUBSET Peers
    BY DEF ChatAssumption
  <2>2. Delivery!NewRule(p, rule)
    BY <1>4 DEF Delivery!NewRule, NewRule
  <2> QED
    BY <2>1, <2>2 DEF Delivery!Next
<1> QED
  BY <1>1, <1>2, <1>3, <1>4 DEF Next, Step, Fault, CheckQueue, Flush,
     SendRefused, Expire, Restart, Leave, Join, Lose, vars

\* The queue, the cache, the retries and the network keep the promise of
\* ChatDelivery, for any number of peers and texts.
THEOREM Implements == ASSUME ChatAssumption PROVE Spec => ImplementsDelivery
BY IndInvHolds, InitDelivers, NextDelivers, PTL
   DEF Spec, ImplementsDelivery, Delivery!Spec
-----------------------------------------------------------------------------
(* One answer for a text until the cache forgets it.                       *)

\* The answers p was told of about m.
AnswersTo(p, m) == {r \in told[p] : r.mid = m}

\* One answer for being remembered, and one for every time it was forgotten.
AnswersCounted ==
  \A p \in Peers, m \in Mids :
    /\ IsFiniteSet(AnswersTo(p, m))
    /\ Cardinality(AnswersTo(p, m))
         <= forgot[p][m] + (IF m \in cache[p] THEN 1 ELSE 0)

LEMMA InitAnswers == Init => AnswersCounted
<1> SUFFICES ASSUME Init, NEW p \in Peers, NEW m \in Mids
             PROVE  /\ IsFiniteSet(AnswersTo(p, m))
                    /\ Cardinality(AnswersTo(p, m))
                         <= forgot[p][m] + (IF m \in cache[p] THEN 1 ELSE 0)
  BY DEF AnswersCounted
<1>1. AnswersTo(p, m) = {}
  BY DEF Init, AnswersTo
<1>2. forgot[p][m] = 0 /\ m \notin cache[p]
  BY DEF Init
<1> QED
  BY <1>1, <1>2, FS_EmptySet

\* An answer is counted only when the cache does not know its mid, and the
\* cache knows it from then on.
LEMMA RecvAnswerAnswers ==
  ASSUME ChatAssumption, IndInv, AnswersCounted, NEW p \in Peers,
         NEW m \in net, RecvAnswer(p, m)
  PROVE  AnswersCounted'
<1> SUFFICES ASSUME NEW q \in Peers, NEW n \in Mids
             PROVE  /\ IsFiniteSet(AnswersTo(q, n)')
                    /\ Cardinality(AnswersTo(q, n)')
                         <= forgot[q][n]'
                            + (IF n \in cache'[q] THEN 1 ELSE 0)
  BY DEF AnswersCounted
<1>1. /\ told \in [Peers -> SUBSET Report]
      /\ cache \in [Peers -> SUBSET Mids]
      /\ forgot[q][n] \in Nat
      /\ forgot' = forgot
  BY DEF IndInv, TypeOK, RecvAnswer
<1>2. /\ IsFiniteSet(AnswersTo(q, n))
      /\ Cardinality(AnswersTo(q, n))
           <= forgot[q][n] + (IF n \in cache[q] THEN 1 ELSE 0)
  BY DEF AnswersCounted
<1>3. Cardinality(AnswersTo(q, n)) \in Nat
  BY <1>2, FS_CardinalityType
<1>4. CASE q = p /\ n = m.mid
  <2>1. n \notin cache[q] /\ n \in cache'[q]
    BY <1>1, <1>4 DEF RecvAnswer, Accepted
  <2>2. \/ AnswersTo(q, n)' = AnswersTo(q, n)
        \/ AnswersTo(q, n)' = AnswersTo(q, n) \cup {ReportOf(m)}
    BY <1>1, <1>4 DEF RecvAnswer, AnswersTo, ReportOf
  <2>3. /\ IsFiniteSet(AnswersTo(q, n) \cup {ReportOf(m)})
        /\ Cardinality(AnswersTo(q, n) \cup {ReportOf(m)})
             <= Cardinality(AnswersTo(q, n)) + 1
    <3> DEFINE S == AnswersTo(q, n)
               x == ReportOf(m)
    <3>1. IsFiniteSet(S) /\ Cardinality(S) \in Nat
      BY <1>2, <1>3
    <3> HIDE DEF S, x
    <3>2. /\ IsFiniteSet(S \cup {x})
          /\ Cardinality(S \cup {x})
               = IF x \in S THEN Cardinality(S) ELSE Cardinality(S) + 1
      BY <3>1, FS_AddElement
    <3>3. /\ IsFiniteSet(S \cup {x})
          /\ Cardinality(S \cup {x}) <= Cardinality(S) + 1
      BY <3>1, <3>2
    <3> QED
      BY <3>3 DEF S, x
  <2>4. Cardinality(AnswersTo(q, n)) <= forgot[q][n]
    BY <1>1, <1>2, <1>3, <2>1
  <2>5. /\ IsFiniteSet(AnswersTo(q, n)')
        /\ Cardinality(AnswersTo(q, n)') <= forgot[q][n] + 1
    <3>1. CASE AnswersTo(q, n)' = AnswersTo(q, n)
      BY <1>1, <1>2, <1>3, <2>4, <3>1
    <3>2. CASE AnswersTo(q, n)' = AnswersTo(q, n) \cup {ReportOf(m)}
      <4>1. Cardinality(AnswersTo(q, n)') <= Cardinality(AnswersTo(q, n)) + 1
        BY <2>3, <3>2
      <4>2. IsFiniteSet(AnswersTo(q, n)')
        BY <2>3, <3>2
      <4>3. Cardinality(AnswersTo(q, n)') \in Nat
        BY <4>2, FS_CardinalityType
      <4> QED
        BY <1>1, <1>3, <2>4, <4>1, <4>2, <4>3
    <3> QED
      BY <2>2, <3>1, <3>2
  <2> QED
    BY <1>1, <2>1, <2>5
<1>5. CASE ~(q = p /\ n = m.mid)
  <2>1. AnswersTo(q, n)' = AnswersTo(q, n)
    BY <1>1, <1>5 DEF RecvAnswer, AnswersTo, ReportOf
  <2>2. n \in cache'[q] <=> n \in cache[q]
    BY <1>1, <1>5 DEF RecvAnswer
  <2> QED
    BY <1>1, <1>2, <2>1, <2>2
<1> QED
  BY <1>4, <1>5

\* Every other step reports nothing, and what the cache loses is counted.
LEMMA QuietAnswers ==
  ASSUME IndInv, AnswersCounted, told' = told,
         \A q \in Peers, n \in Mids :
           /\ forgot'[q][n] \in Nat
           /\ forgot[q][n] + (IF n \in cache[q] THEN 1 ELSE 0)
                <= forgot'[q][n] + (IF n \in cache'[q] THEN 1 ELSE 0)
  PROVE  AnswersCounted'
<1> SUFFICES ASSUME NEW q \in Peers, NEW n \in Mids
             PROVE  /\ IsFiniteSet(AnswersTo(q, n)')
                    /\ Cardinality(AnswersTo(q, n)')
                         <= forgot'[q][n]
                            + (IF n \in cache'[q] THEN 1 ELSE 0)
  BY DEF AnswersCounted
<1>1. AnswersTo(q, n)' = AnswersTo(q, n)
  BY DEF AnswersTo
<1>2. /\ IsFiniteSet(AnswersTo(q, n))
      /\ Cardinality(AnswersTo(q, n))
           <= forgot[q][n] + (IF n \in cache[q] THEN 1 ELSE 0)
  BY DEF AnswersCounted
<1>3. Cardinality(AnswersTo(q, n)) \in Nat /\ forgot[q][n] \in Nat
  BY <1>2, FS_CardinalityType DEF IndInv, TypeOK
<1> QED
  BY <1>1, <1>2, <1>3

LEMMA NextAnswers ==
  ASSUME ChatAssumption, IndInv, AnswersCounted, [Next]_vars
  PROVE  AnswersCounted'
<1>1. /\ cache \in [Peers -> SUBSET Mids]
      /\ forgot \in [Peers -> [Mids -> Nat]]
  BY DEF IndInv, TypeOK
<1>2. CASE UNCHANGED <<told, forgot, cache>>
  BY <1>1, <1>2, QuietAnswers
<1>3. ASSUME NEW p \in Peers, NEW m \in net, Recv(p, m)
      PROVE  AnswersCounted'
  <2>1. CASE RecvText(p, m)
    BY <1>1, <2>1, QuietAnswers DEF RecvText
  <2>2. CASE RecvAnswer(p, m)
    BY <2>2, RecvAnswerAnswers
  <2>3. CASE UNCHANGED <<peerVars, logVars>>
    BY <1>2, <2>3
  <2> QED
    BY <1>3, <2>1, <2>2, <2>3 DEF Recv, RecvScreened, RecvDenied,
       RecvDuplicate
<1>4. ASSUME NEW p \in Peers, NEW m \in Mids, Expire(p, m)
      PROVE  AnswersCounted'
  BY <1>1, <1>4, QuietAnswers DEF Expire
<1>5. ASSUME NEW p \in Peers, Restart(p)
      PROVE  AnswersCounted'
  BY <1>1, <1>5, QuietAnswers DEF Restart
<1> QED
  BY <1>2, <1>3, <1>4, <1>5 DEF Next, Step, Fault, CheckQueue, Flush,
     SendText, SendRefused, NewRule, Leave, Join, Lose, vars

LEMMA AnswersOnce ==
  ASSUME IndInv, AnswersCounted
  PROVE  OneAnswerPerMemory
<1> SUFFICES ASSUME NEW p \in Peers, NEW m \in Mids
             PROVE  Cardinality(AnswersTo(p, m)) <= 1 + forgot[p][m]
  BY DEF OneAnswerPerMemory, AnswersTo
<1>1. /\ IsFiniteSet(AnswersTo(p, m))
      /\ Cardinality(AnswersTo(p, m))
           <= forgot[p][m] + (IF m \in cache[p] THEN 1 ELSE 0)
  BY DEF AnswersCounted
<1>2. Cardinality(AnswersTo(p, m)) \in Nat /\ forgot[p][m] \in Nat
  BY <1>1, FS_CardinalityType DEF IndInv, TypeOK
<1> QED
  BY <1>1, <1>2

\* An author hears of one member's answer to a text until its cache forgets
\* the mid: gchat_recv takes every other answer for a duplicate.
THEOREM AnsweredOnce == ASSUME ChatAssumption PROVE Spec => []OneAnswerPerMemory
<1>1. Init => AnswersCounted
  BY InitAnswers
<1>2. IndInv /\ AnswersCounted /\ [Next]_vars => AnswersCounted'
  BY NextAnswers
<1>3. IndInv /\ AnswersCounted => OneAnswerPerMemory
  BY AnswersOnce
<1> QED
  BY <1>1, <1>2, <1>3, IndInvHolds, PTL DEF Spec
=============================================================================
