------------------------------ MODULE GroupChat ------------------------------
(***************************************************************************)
(* One group conversation of mysteria5: gchat_send, check_gchatqueue and   *)
(* gchat_recv of every peer, over a network that delays, reorders and      *)
(* loses messages.                                                         *)
(*                                                                         *)
(* A peer keeps its unacknowledged texts in ::gchatqueue, the mids it has  *)
(* handled in ::gchatcache for ten minutes, and the texts it keeps in the  *)
(* history file h_<id>.dat.  Each pass of check_gchatqueue transmits a due *)
(* entry to all of its remaining targets and uses up one of its tries.     *)
(***************************************************************************)
EXTENDS Integers, FiniteSets

CONSTANTS
  Peers, NoPeer,
  Mids,        \* message ids: gchat_send draws a new one for every text
  Owner,       \* the peerid in the group's card
  Sources,     \* Sources[p]: the peers in p's mlsrc file of the group
  AtAddress,   \* AtAddress[p][q]: the peer ml_screen finds for q's address
  Retries,     \* "count" of a new queue entry: tries after the first one
  Rules,       \* the sets of users a control rule of the group may name
  MaxForget,   \* bound: cache expiries and restarts that hit one mid
  Lossy        \* whether the network may drop messages

ASSUME ChatAssumption ==
  /\ NoPeer \notin Peers
  /\ Owner \in Peers
  /\ Sources \in [Peers -> SUBSET Peers]
  /\ AtAddress \in [Peers -> [Peers -> Peers \cup {NoPeer}]]
  /\ Retries \in Nat /\ MaxForget \in Nat
  /\ Rules \subseteq SUBSET Peers
  /\ Lossy \in BOOLEAN

VARIABLES
  joined,     \* joined[p]: the group is in p's ::jgroups
  users,      \* users[p]: the users of p's ::rule
  queue,      \* queue[p]: ::gchatqueue, the targets and count of a mid
  cache,      \* cache[p]: the mids in ::gchatcache
  hist,       \* hist[p]: the mids in the history file
  net,        \* messages in flight
  author,     \* the signed "from" of each text
  shown,      \* shown[p][m]: times gchat_append wrote text m in p's window
  told,       \* told[p]: the answers that gchat_append_res has reported
  forgot      \* forgot[p][m]: times p's cache has dropped m

peerVars == <<joined, users, queue, cache, hist>>
logVars  == <<author, shown, told, forgot>>
vars     == <<peerVars, net, logVars>>

NoEntries == [m \in {} |-> {}]

Entry == [targets : SUBSET Peers, count : 0..Retries]

Message ==
  [type : {"TEXT", "OK", "NO"}, mid : Mids, from : Peers, to : Peers,
   try : 0..Retries]

Report == [mid : Mids, by : Peers, answer : {"OK", "NO"}]

TypeOK ==
  /\ joined \in [Peers -> BOOLEAN]
  /\ users \in [Peers -> SUBSET Peers]
  /\ DOMAIN queue = Peers
  /\ \A p \in Peers :
       /\ DOMAIN queue[p] \subseteq Mids
       /\ \A m \in DOMAIN queue[p] : queue[p][m] \in Entry
  /\ cache \in [Peers -> SUBSET Mids]
  /\ hist \in [Peers -> SUBSET Mids]
  /\ net \subseteq Message
  /\ author \in [Mids -> Peers \cup {NoPeer}]
  /\ shown \in [Peers -> [Mids -> Nat]]
  /\ told \in [Peers -> SUBSET Report]
  /\ forgot \in [Peers -> [Mids -> Nat]]

Init ==
  /\ joined \in [Peers -> BOOLEAN]
  /\ users \in [Peers -> Rules]
  /\ queue = [p \in Peers |-> NoEntries]
  /\ cache = [p \in Peers |-> {}]
  /\ hist = [p \in Peers |-> {}]
  /\ net = {}
  /\ author = [m \in Mids |-> NoPeer]
  /\ shown = [p \in Peers |-> [m \in Mids |-> 0]]
  /\ told = [p \in Peers |-> {}]
  /\ forgot = [p \in Peers |-> [m \in Mids |-> 0]]

-----------------------------------------------------------------------------
(* The control rule and the queue.                                         *)

\* rule_check for a header of type g
MayWrite(p, q) == q = Owner \/ q \in users[p]

\* ml_get_srcs: the mlsrc file and the users of the rule, p itself included
\* when the rule names it
Targets(p) == Sources[p] \cup users[p]

\* an array with some entries taken out ("array unset")
Without(q, gone) == [m \in DOMAIN q \ gone |-> q[m]]

Enqueue(q, m, targets) ==
  [n \in DOMAIN q \cup {m} |->
     IF n = m THEN [targets |-> targets, count |-> Retries] ELSE q[n]]

\* A pass over the due entries: each has used up one more try, and an entry
\* whose count falls below zero is gone.
Passed(q, due) ==
  [m \in DOMAIN q \ {n \in due : q[n].count = 0} |->
     IF m \in due THEN [targets |-> q[m].targets, count |-> q[m].count - 1]
                  ELSE q[m]]

\* Mutant of Answered: the answering peer stays a target.
AnsweredKept(q, m, r) == q

\* An answer of r takes r off the targets; the entry goes with its last one.
Answered(q, m, r) ==
  IF m \notin DOMAIN q THEN q
  ELSE IF q[m].targets \subseteq {r} THEN Without(q, {m})
  ELSE [q EXCEPT ![m] = [targets |-> q[m].targets \ {r},
                         count   |-> q[m].count]]

\* Mutant of Copies: an entry that was never transmitted is not due yet.
CopiesOfRetries(p, due) ==
  UNION {{[type |-> "TEXT", mid |-> m, from |-> p, to |-> t,
           try |-> queue[p][m].count] : t \in queue[p][m].targets \ {p}}
          : m \in {n \in due : queue[p][n].count < Retries}}

\* What a pass transmits.  A peer never holds an address for itself (the
\* last lines of check_peers), so what it sends to itself goes nowhere.
Copies(p, due) ==
  UNION {{[type |-> "TEXT", mid |-> m, from |-> p, to |-> t,
           try |-> queue[p][m].count] : t \in queue[p][m].targets \ {p}}
          : m \in due}

Reply(kind, m) ==
  [type |-> kind, mid |-> m.mid, from |-> m.to, to |-> m.from, try |-> m.try]

ReportOf(m) == [mid |-> m.mid, by |-> m.from, answer |-> m.type]

-----------------------------------------------------------------------------
(* Sending.                                                                *)

\* gchat_sendbutton, gchat_text and gchat_send: a new text is queued, shown
\* and kept by its author.
SendText(p, m) ==
  /\ joined[p]
  /\ MayWrite(p, p)
  /\ author[m] = NoPeer
  /\ author' = [author EXCEPT ![m] = p]
  /\ queue' = [queue EXCEPT ![p] = Enqueue(@, m, Targets(p))]
  /\ hist' = [hist EXCEPT ![p] = @ \cup {m}]
  /\ shown' = [shown EXCEPT ![p][m] = @ + 1]
  /\ UNCHANGED <<joined, users, cache, net, told, forgot>>

\* gchat_send for a group that is no longer in ::jgroups
SendRefused(p) ==
  /\ ~joined[p]
  /\ queue' = [queue EXCEPT ![p] = NoEntries]
  /\ UNCHANGED <<joined, users, cache, hist, net, logVars>>

\* Entries that have never been transmitted (last = 0) are always due, the
\* others once three seconds have passed since their last pass.
Fresh(p) == {m \in DOMAIN queue[p] : queue[p][m].count = Retries}

Flush(p, due) ==
  /\ due # {}
  /\ Fresh(p) \subseteq due
  /\ net' = net \cup Copies(p, due)
  /\ queue' = [queue EXCEPT ![p] = Passed(@, due)]
  /\ UNCHANGED <<joined, users, cache, hist, logVars>>

CheckQueue(p) == \E due \in SUBSET DOMAIN queue[p] : Flush(p, due)

\* The 100 ms timer of gchat_send: it finds at least the entry it was set for.
FirstFlush(p) == Fresh(p) # {} /\ CheckQueue(p)

-----------------------------------------------------------------------------
(* Receiving: gchat_recv, one action per way through it.                   *)

\* ml_screen lets the peer it knows at the sender's address in
Admitted(p, m) == joined[p] /\ MayWrite(p, AtAddress[p][m.from])

\* Mutant of Denied: only the address is checked against the rule.
DeniedNever(p, m) == FALSE

Denied(p, m) == m.type # "NO" /\ ~MayWrite(p, m.from)

Accepted(p, m) == Admitted(p, m) /\ ~Denied(p, m) /\ m.mid \notin cache[p]

Consume(m, replies) == net' = (net \ {m}) \cup replies

RecvScreened(p, m) ==
  /\ ~Admitted(p, m)
  /\ Consume(m, {})
  /\ UNCHANGED <<peerVars, logVars>>

\* Mutant of RecvDenied: the refusal is sent as an OK.
RecvDeniedOK(p, m) ==
  /\ Admitted(p, m)
  /\ Denied(p, m)
  /\ Consume(m, {Reply("OK", m)})
  /\ UNCHANGED <<peerVars, logVars>>

RecvDenied(p, m) ==
  /\ Admitted(p, m)
  /\ Denied(p, m)
  /\ Consume(m, {Reply("NO", m)})
  /\ UNCHANGED <<peerVars, logVars>>

\* A mid the cache knows is dropped, and is not answered again.
RecvDuplicate(p, m) ==
  /\ Admitted(p, m)
  /\ ~Denied(p, m)
  /\ m.mid \in cache[p]
  /\ Consume(m, {})
  /\ UNCHANGED <<peerVars, logVars>>

\* Mutant of RecvText: the mid is not put in the cache.
RecvTextUncached(p, m) ==
  /\ m.type = "TEXT"
  /\ Accepted(p, m)
  /\ shown' = [shown EXCEPT ![p][m.mid] = @ + 1]
  /\ hist' = [hist EXCEPT ![p] = @ \cup {m.mid}]
  /\ Consume(m, {Reply("OK", m)})
  /\ UNCHANGED <<joined, users, queue, cache, author, told, forgot>>

RecvText(p, m) ==
  /\ m.type = "TEXT"
  /\ Accepted(p, m)
  /\ cache' = [cache EXCEPT ![p] = @ \cup {m.mid}]
  /\ shown' = [shown EXCEPT ![p][m.mid] = @ + 1]
  /\ hist' = [hist EXCEPT ![p] = @ \cup {m.mid}]
  /\ Consume(m, {Reply("OK", m)})
  /\ UNCHANGED <<joined, users, queue, author, told, forgot>>

\* Mutant of RecvAnswer: the mid is not put in the cache.
RecvAnswerUncached(p, m) ==
  /\ m.type \in {"OK", "NO"}
  /\ Accepted(p, m)
  /\ told' = [told EXCEPT ![p] =
                IF m.mid \in hist[p] THEN @ \cup {ReportOf(m)} ELSE @]
  /\ queue' = [queue EXCEPT ![p] = Answered(@, m.mid, m.from)]
  /\ Consume(m, {})
  /\ UNCHANGED <<joined, users, cache, hist, author, shown, forgot>>

\* OK and NO: report the answer if the text is in the history, and take the
\* answering peer off the targets.  The mid of an answer is that of the text,
\* so one answer puts it in the cache and hides the next peer's answer.
RecvAnswer(p, m) ==
  /\ m.type \in {"OK", "NO"}
  /\ Accepted(p, m)
  /\ cache' = [cache EXCEPT ![p] = @ \cup {m.mid}]
  /\ told' = [told EXCEPT ![p] =
                IF m.mid \in hist[p] THEN @ \cup {ReportOf(m)}
                                     ELSE @]
  /\ queue' = [queue EXCEPT ![p] = Answered(@, m.mid, m.from)]
  /\ Consume(m, {})
  /\ UNCHANGED <<joined, users, hist, author, shown, forgot>>

Recv(p, m) ==
  /\ m.to = p
  /\ \/ RecvScreened(p, m)
     \/ RecvDenied(p, m)
     \/ RecvDuplicate(p, m)
     \/ RecvText(p, m)
     \/ RecvAnswer(p, m)

-----------------------------------------------------------------------------
(* Time, the user, and faults.                                             *)

\* The ten minutes of a ::gchatcache entry have passed.
Expire(p, m) ==
  /\ m \in cache[p]
  /\ forgot[p][m] < MaxForget
  /\ cache' = [cache EXCEPT ![p] = @ \ {m}]
  /\ forgot' = [forgot EXCEPT ![p][m] = @ + 1]
  /\ UNCHANGED <<joined, users, queue, hist, net, author, shown, told>>

\* The program ends and is started again: the history is on disk, the queue
\* and the cache are not.
Restart(p) ==
  /\ \A m \in cache[p] : forgot[p][m] < MaxForget
  /\ queue' = [queue EXCEPT ![p] = NoEntries]
  /\ cache' = [cache EXCEPT ![p] = {}]
  /\ forgot' = [forgot EXCEPT ![p] =
                  [m \in Mids |-> IF m \in cache[p] THEN @[m] + 1 ELSE @[m]]]
  /\ UNCHANGED <<joined, users, hist, net, author, shown, told>>

\* show_group_details_delete_cmd, show_group_details_add_cmd
Leave(p) ==
  /\ joined[p]
  /\ joined' = [joined EXCEPT ![p] = FALSE]
  /\ UNCHANGED <<users, queue, cache, hist, net, logVars>>

Join(p) ==
  /\ ~joined[p]
  /\ joined' = [joined EXCEPT ![p] = TRUE]
  /\ UNCHANGED <<users, queue, cache, hist, net, logVars>>

\* ml_replay of the mail that has arrived puts another control rule in force.
NewRule(p, rule) ==
  /\ users[p] # rule
  /\ users' = [users EXCEPT ![p] = rule]
  /\ UNCHANGED <<joined, queue, cache, hist, net, logVars>>

Lose(m) ==
  /\ Lossy
  /\ Consume(m, {})
  /\ UNCHANGED <<peerVars, logVars>>

-----------------------------------------------------------------------------

Step(p) ==
  \/ \E m \in Mids : SendText(p, m)
  \/ SendRefused(p)
  \/ CheckQueue(p)
  \/ \E m \in net : Recv(p, m)
  \/ \E m \in Mids : Expire(p, m)

Fault(p) ==
  \/ Restart(p)
  \/ Leave(p)
  \/ Join(p)
  \/ \E rule \in Rules : NewRule(p, rule)

Next == (\E p \in Peers : Step(p) \/ Fault(p)) \/ (\E m \in net : Lose(m))

Spec == Init /\ [][Next]_vars

-----------------------------------------------------------------------------
(* Properties.                                                             *)

\* Every "delivered" line in a window is true: the member it names has the
\* text on disk (gchat_recv keeps a text before it answers), whatever was
\* lost, answered twice, restarted or re-ruled in between.
DeliveredIsKept ==
  \A p \in Peers : \A r \in told[p] :
    r.answer = "OK" => r.mid \in hist[r.by]

\* A text appears once more in a window only after the cache has forgotten
\* its mid: the history file never doubles, the window may.
ShownOncePerMemory ==
  \A p \in Peers, m \in Mids : shown[p][m] <= 1 + forgot[p][m]

\* Answers carry the mid of the text, so the cache takes the answer of a
\* second member for a duplicate: an author hears of one member per text
\* until the cache forgets the mid.
OneAnswerPerMemory ==
  \A p \in Peers, m \in Mids :
    Cardinality({r \in told[p] : r.mid = m}) <= 1 + forgot[p][m]

\* Once the author has been told of a member's answer, check_gchatqueue never
\* transmits that text to that member again.
NeverAfterAnswer ==
  [][\A m \in net' \ net :
       m.type = "TEXT" => \A r \in told[m.from] :
         ~(r.mid = m.mid /\ r.by = m.to)]_vars

Delivery == INSTANCE ChatDelivery WITH
  permitted <- users,
  stored    <- [m \in Mids |-> {p \in Peers : m \in hist[p]}],
  confirmed <- [m \in Mids |->
                  {q \in Peers : \E p \in Peers : \E r \in told[p] :
                     author[m] = p /\ r = [mid |-> m, by |-> q,
                                           answer |-> "OK"]}]

\* The conversation keeps the promise of ChatDelivery.
ImplementsDelivery == Delivery!Spec

\* p has a text waiting for q, a joined member that lets p write and finds p
\* at its address.
Reaches(p, q, m) ==
  /\ m \in DOMAIN queue[p] /\ q \in queue[p][m].targets \ {p}
  /\ joined[q] /\ MayWrite(q, p) /\ MayWrite(q, AtAddress[q][p])
=============================================================================
