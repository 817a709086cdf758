------------------------------ MODULE Documents ------------------------------
(***************************************************************************)
(* One versioned document of a group at its members (doc.tcl, and what     *)
(* req_head and req_mail do for GDC and GDE).                              *)
(*                                                                         *)
(* A revision is a record in doc/<p>_<id>_<hash>_e.dat under the checksum  *)
(* of its author, time, parent and delta.  Records are numbered in the     *)
(* order in which they are made; 0 stands for the hash of the document,    *)
(* the parent of the first ones.  The window of a member shows one node;   *)
(* in Init all have opened the new document.                               *)
(***************************************************************************)
EXTENDS Delta

CONSTANTS
  Peers,
  Writers,     \* the members whom the group's rule lets write
  Line,        \* what may be on a line
  Blank,       \* the line without characters
  ErrorLine,   \* "APPLY DELTA ERROR"
  Texts,       \* what may be on a page when it is saved
  MaxEdits,    \* bound: records made
  MaxOpened    \* bound: times that a window is opened or gathers

ASSUME DocAssumption ==
  /\ Writers \subseteq Peers
  /\ Blank \in Line /\ ErrorLine \in Line /\ Texts \subseteq Seq(Line)
  /\ MaxEdits \in Nat /\ MaxOpened \in Nat
  \* The text widget ends its text with a newline.
  /\ \A t \in Texts : Len(t) > 1 /\ Last(t) = Blank

VARIABLES
  made,    \* the records: author, parent and delta
  typed,   \* typed[n]: what the author of n had on the page
  text,    \* text[n]: what the author of n saw when it was saved
  store,   \* store[p]: the numbers of the records in p's file
  node,    \* node[p]: ::doc(...,node)
  body,    \* body[p]: ::doc(...,body), as lines
  net,     \* messages in flight
  opened   \* how often a window was opened or gathered

vars == <<made, typed, text, store, node, body, net, opened>>

Records == 1..MaxEdits

Message ==
  [type : {"HEAD GDC", "MAIL GDC", "HEAD GDE", "MAIL GDE"},
   from : Peers, to : Peers, keys : SUBSET Records]

Init ==
  /\ made = <<>> /\ typed = <<>> /\ text = <<>>
  /\ store = [p \in Peers |-> <<>>]
  /\ node = [p \in Peers |-> 0]
  /\ body = [p \in Peers |-> <<>>]
  /\ net = {} /\ opened = 0

-----------------------------------------------------------------------------
(* The text of a node.                                                     *)

\* doc_apply: a difference that leaves no characters is taken for an error.
Revised(old, delta) ==
  LET new == ApplyDelta(old, delta) IN
  IF new \in {<<>>, <<Blank>>} THEN <<ErrorLine>> ELSE new

\* doc_apply from the hash of the document to n: every record is applied to
\* what its parent reads.
TextOf(log, n) ==
  LET reads[k \in 0..Len(log)] ==
        IF k = 0 THEN <<>> ELSE Revised(reads[log[k].parent], log[k].delta)
  IN reads[n]

\* Among the records there are n, its parent and so on to the hash.
Reached(log, there, n) ==
  \E line \in SUBSET there :
    n \in line /\ \A k \in line : log[k].parent \in line \cup {0}

\* doc_replay of the node n by p, whose file holds the records in file: with
\* a record missing, the new document is shown.
Replay(p, log, file, n) ==
  LET there == IF Reached(log, ToSet(file), n) THEN n ELSE 0 IN
  /\ node' = [node EXCEPT ![p] = there]
  /\ body' = [body EXCEPT ![p] = TextOf(log, there)]

-----------------------------------------------------------------------------
(* Messages.  One that is lost stays in flight for ever.                   *)

Msg(type, p, q, keys) == [type |-> type, from |-> p, to |-> q, keys |-> keys]

\* doc_head
Heads(p) == {Msg("HEAD GDC", p, q, {}) : q \in Peers \ {p}}

\* A message without records changes nothing where it arrives.
Filled(m) == IF m.keys = {} THEN {} ELSE {m}

Consume(m, replies) == net' = (net \ {m}) \cup replies

Has(p) == ToSet(store[p])

\* The records of a message come in any order.
Orders(keys) == {s \in [1..Cardinality(keys) -> keys] : ToSet(s) = keys}

\* save_bin: a record that is there stays where it is.
Save(p, keys) ==
  \E new \in Orders(keys \ Has(p)) :
    store' = [store EXCEPT ![p] = @ \o new]

\* HEAD GDC: the keys at hand
TakeHead(p, m) ==
  /\ m.type = "HEAD GDC"
  /\ Consume(m, {Msg("MAIL GDC", p, m.from, Has(p))})
  /\ UNCHANGED <<made, typed, text, store, node, body, opened>>

\* Mutants of TakeKeys: only the newest key is asked for; what the other
\* lacks is not sent.
TakeKeysNewest(p, m) ==
  LET lacking == m.keys \ Has(p)
      newest == {k \in lacking : \A l \in lacking : l <= k} IN
  /\ m.type = "MAIL GDC"
  /\ Consume(m, Filled(Msg("HEAD GDE", p, m.from, newest))
                \cup Filled(Msg("MAIL GDE", p, m.from, Has(p) \ m.keys)))
  /\ UNCHANGED <<made, typed, text, store, node, body, opened>>

TakeKeysOnly(p, m) ==
  /\ m.type = "MAIL GDC"
  /\ Consume(m, Filled(Msg("HEAD GDE", p, m.from, m.keys \ Has(p))))
  /\ UNCHANGED <<made, typed, text, store, node, body, opened>>

\* MAIL GDC: ask for what p lacks and send what the other lacks
TakeKeys(p, m) ==
  /\ m.type = "MAIL GDC"
  /\ Consume(m, Filled(Msg("HEAD GDE", p, m.from, m.keys \ Has(p)))
                \cup Filled(Msg("MAIL GDE", p, m.from, Has(p) \ m.keys)))
  /\ UNCHANGED <<made, typed, text, store, node, body, opened>>

\* HEAD GDE: the records that are asked for
TakeWanted(p, m) ==
  /\ m.type = "HEAD GDE"
  /\ Consume(m, {Msg("MAIL GDE", p, m.from, m.keys)})
  /\ UNCHANGED <<made, typed, text, store, node, body, opened>>

\* MAIL GDE: the records are saved; the page stays as it is.
TakeRecords(p, m) ==
  /\ m.type = "MAIL GDE"
  /\ Save(p, m.keys)
  /\ Consume(m, {})
  /\ UNCHANGED <<made, typed, text, node, body, opened>>

Recv(p, m) ==
  /\ m.to = p
  /\ TakeHead(p, m) \/ TakeKeys(p, m) \/ TakeWanted(p, m) \/ TakeRecords(p, m)

-----------------------------------------------------------------------------
(* The window.                                                             *)

Opened == opened < MaxOpened /\ opened' = opened + 1

\* show_doc: the last record of the file is shown.
Open(p) ==
  /\ Opened
  /\ net' = net \cup Heads(p)
  /\ Replay(p, made, store[p], IF store[p] = <<>> THEN 0 ELSE Last(store[p]))
  /\ UNCHANGED <<made, typed, text, store>>

\* The gather button
Gather(p) ==
  /\ Opened
  /\ net' = net \cup Heads(p)
  /\ UNCHANGED <<made, typed, text, store, node, body>>

\* doc_clickwindow: a record in the list of edits, which shows those of the
\* writers
Click(p, n) ==
  /\ n \in Has(p) /\ made[n].author \in Writers
  /\ Replay(p, made, store[p], n)
  /\ UNCHANGED <<made, typed, text, store, net, opened>>

\* doc_edit, the save button.  Without a difference nothing is saved.
Edit(p, t) ==
  /\ p \in Writers /\ Len(made) < MaxEdits
  /\ \E delta \in Deltas(body[p], t) \ {<<>>} :
       LET record == [author |-> p, parent |-> node[p], delta |-> delta]
           log == Append(made, record)
           file == Append(store[p], Len(log)) IN
       /\ made' = log
       /\ typed' = Append(typed, t)
       /\ store' = [store EXCEPT ![p] = file]
       /\ net' = net \cup Heads(p)
       /\ Replay(p, log, file, Len(log))
       /\ text' = Append(text, body'[p])
       /\ UNCHANGED opened

-----------------------------------------------------------------------------

User(p) == Open(p) \/ Gather(p)
           \/ (\E n \in Records : Click(p, n)) \/ (\E t \in Texts : Edit(p, t))

Next ==
  \/ \E p \in Peers : User(p)
  \/ \E m \in net : Recv(m.to, m)

Spec == Init /\ [][Next]_vars

\* Nothing is lost: of each kind of message there is for a member, one arrives.
Arrives(p, type) ==
  \E m \in net : m.to = p /\ m.type = type /\ Recv(p, m)

Fairness ==
  \A p \in Peers : \A t \in {m.type : m \in Message} :
    WF_vars(Arrives(p, t))

FairSpec == Spec /\ Fairness

-----------------------------------------------------------------------------
(* Properties.                                                             *)

TypeOK ==
  /\ Len(made) <= MaxEdits /\ Len(typed) = Len(made)
  /\ Len(text) = Len(made)
  /\ \A n \in DOMAIN made :
       made[n].author \in Writers /\ made[n].parent \in 0..(n - 1)
  /\ \A p \in Peers : Has(p) \subseteq DOMAIN made
  /\ node \in [Peers -> 0..Len(made)]
  /\ net \subseteq Message

\* The tree of revisions that the files, the windows and the messages make up
History == INSTANCE DocHistory WITH
  from  <- [n \in DOMAIN made |-> made[n].parent],
  known <- [p \in Peers |-> Has(p)],
  shown <- node,
  page  <- body

\* Whatever is lost and in whatever order the rest arrives: nobody has a
\* record without the ones it is built on, two members who look at a revision
\* read the same, and it is what its author typed unless lines repeat or move.
KeepsHistory == History!Spec

\* The test in delta.tcl: applying the difference of two texts to the first
\* gives the second.  So a page that was saved would show what was typed.
ShowsWhatWasTyped ==
  \A n \in DOMAIN made : text[n] = typed[n]

\* On a network that loses nothing an edit reaches every member, though it is
\* announced once and its record only comes with the answer to an answer.
EditsReachAll ==
  \A n \in Records : n <= Len(made) ~> \A p \in Peers : n \in Has(p)
=============================================================================
