------------------------------ MODULE GroupMail ------------------------------
(***************************************************************************)
(* The mail of one mysteria5 group at the peers that have joined it: the   *)
(* letters, the digests by which peers compare their headers (req_head,    *)
(* req_mail), and ml_replay, which derives the group's rule from the       *)
(* control letters and puts what the rule denies on the delete list.       *)
(*                                                                         *)
(* Headers and bodies travel separately.  A header is in mlhdr/<gid>.dat,  *)
(* a body in mailnews_all.dat, and a hash in mldel.dat stays there.        *)
(* Letters are numbered in the order of their epochs.                      *)
(***************************************************************************)
EXTENDS Integers, FiniteSets

CONSTANTS
  Peers,
  Owner,       \* the peerid in the group's card
  N,           \* letters 1..N may be posted
  Letter,      \* Letter[n]: who posts it, its kind, and the rule it carries
  Sources,     \* Sources[p]: the peers in p's mlsrc file of the group
  MaxOffers,   \* bound: digests a peer sends on request
  MaxAged,     \* bound: headers that fall out of the 31 days at one peer
  MaxRemoved   \* bound: letters a user deletes by hand

Letters == 1..N

Rule == [mods : SUBSET Peers, users : SUBSET Peers]

ASSUME MailAssumption ==
  /\ Owner \in Peers
  /\ N \in Nat
  /\ Letter \in [Letters -> [author : Peers, kind : {"g", "gc"}, rule : Rule]]
  /\ Sources \in [Peers -> SUBSET Peers]
  /\ \A p \in Peers : Sources[p] # {}   \* without any, form_message fails
  /\ MaxOffers \in Nat /\ MaxAged \in Nat /\ MaxRemoved \in Nat

VARIABLES
  hdr,       \* hdr[p]: the letters whose header p has stored
  body,      \* body[p]: the letters whose body p has stored
  denied,    \* denied[p]: hashes that ml_replay put on p's delete list
  removed,   \* removed[p]: hashes that p's user put there
  aged,      \* aged[p]: letters whose header p stored over 31 days ago
  rule,      \* rule[p]: ::rule of the group
  net,       \* messages in flight
  offers     \* offers[p]: digests p has sent on request

vars == <<hdr, body, denied, removed, aged, rule, net, offers>>

Message ==
  [type : {"DIG", "HEAD", "EML"}, from : Peers, to : Peers,
   letters : SUBSET Letters]

TypeOK ==
  /\ hdr \in [Peers -> SUBSET Letters]
  /\ body \in [Peers -> SUBSET Letters]
  /\ denied \in [Peers -> SUBSET Letters]
  /\ removed \in [Peers -> SUBSET Letters]
  /\ aged \in [Peers -> SUBSET Letters]
  /\ rule \in [Peers -> Rule]
  /\ net \subseteq Message
  /\ offers \in [Peers -> 0..MaxOffers]

StartRule == [mods |-> {Owner}, users |-> {}]

Init ==
  /\ hdr = [p \in Peers |-> {}]
  /\ body = [p \in Peers |-> {}]
  /\ denied = [p \in Peers |-> {}]
  /\ removed = [p \in Peers |-> {}]
  /\ aged = [p \in Peers |-> {}]
  /\ rule = [p \in Peers |-> StartRule]
  /\ net = {}
  /\ offers = [p \in Peers |-> 0]

-----------------------------------------------------------------------------
(* The rule of the group.                                                  *)

Author(n)    == Letter[n].author
IsControl(n) == Letter[n].kind = "gc"

\* rule_check: "allow" for a letter, "allow_set" for a control letter
MayWrite(r, q) == q = Owner \/ q \in r.users

MaySet(r, q) == q = Owner \/ q \in r.mods

Allowed(r, n) ==
  IF IsControl(n) THEN MaySet(r, Author(n)) ELSE MayWrite(r, Author(n))

\* The rule that the "mods" and "users" lines of a control letter stand for
Named(n) == [mods  |-> Letter[n].rule.mods \cup {Owner},
             users |-> Letter[n].rule.users \cup {Owner}]

\* ml_replay: what one letter does to the rule, or the rule to the letter
Replayed(before, n, seen, read) ==
  IF n \notin seen THEN before
  ELSE IF ~Allowed(before.rule, n)
    THEN [before EXCEPT !.denied = @ \cup {n}]
  ELSE IF IsControl(n) /\ n \in read
    THEN [before EXCEPT !.rule = Named(n)]
  ELSE before

NothingYet == [rule |-> StartRule, denied |-> {}]

\* Mutant of Replay: the newest letter comes first, as ml_showlist sorts them.
ReplayNewestFirst(seen, read) ==
  LET after[n \in 0..N] ==
        IF n = 0 THEN NothingYet
        ELSE Replayed(after[n - 1], N + 1 - n, seen, read)
  IN after[N]

\* ml_replay of the headers seen with the bodies at hand, in epoch order
Replay(seen, read) ==
  LET after[n \in 0..N] ==
        IF n = 0 THEN NothingYet
        ELSE Replayed(after[n - 1], n, seen, read)
  IN after[N]

\* mldel.dat; ml_filter_del and the 31 days of ml_get_hdrs
Gone(p) == denied[p] \cup removed[p]

Visible(p) == (hdr[p] \ Gone(p)) \ aged[p]

\* Mutant of Readable: the delete list is not asked.
ReadableStored(p) == body[p]

\* ml_get_eml finds a letter that is stored and not on the delete list
Readable(p) == body[p] \ Gone(p)

\* Mutant of ReplayOf: only the news is replayed.
ReplayOfNews(p, hs, bs) ==
  LET r == Replay((hs \ hdr[p]) \ Gone(p), bs) IN
  /\ rule' = [rule EXCEPT ![p] = r.rule]
  /\ denied' = [denied EXCEPT ![p] = @ \cup r.denied]

\* ml_replay, p having the headers hs (new ones among them) and bodies bs
ReplayOf(p, hs, bs) ==
  LET r == Replay((hs \ Gone(p)) \ aged[p], bs) IN
  /\ rule' = [rule EXCEPT ![p] = r.rule]
  /\ denied' = [denied EXCEPT ![p] = @ \cup r.denied]

-----------------------------------------------------------------------------
(* Messages.                                                               *)

\* A message without letters changes nothing where it arrives, unless it is
\* a digest.
Msg(type, p, q, ls) ==
  IF ls = {} /\ type # "DIG" THEN {}
  ELSE {[type |-> type, from |-> p, to |-> q, letters |-> ls]}

\* ml_get_srcs, without p itself
Targets(p) == (Sources[p] \cup rule[p].users) \ {p}

\* ml_screen for group mail: the sender may write under the receiver's rule
Admitted(p, q) == MayWrite(rule[p], q)

-----------------------------------------------------------------------------
(* Posting.                                                                *)

Posted == UNION {hdr[p] : p \in Peers}

\* One author's letters have growing epochs.
InTurn(p, n) ==
  /\ Author(n) = p /\ n \notin Posted
  /\ \A k \in 1..(n - 1) : Author(k) = p => k \in Posted

Store(p, n) ==
  /\ hdr' = [hdr EXCEPT ![p] = @ \cup {n}]
  /\ body' = [body EXCEPT ![p] = @ \cup {n}]

Announce(p, n, qs) ==
  net' = net \cup UNION {Msg("DIG", p, q, {n}) : q \in qs}

\* form_message: the letter is stored, and its header goes to the sources.
PostLetter(p, n) ==
  /\ InTurn(p, n) /\ ~IsControl(n)
  /\ Store(p, n)
  /\ Announce(p, n, Targets(p))
  /\ UNCHANGED <<denied, removed, aged, rule, offers>>

\* gmail_send: nobody is told before the next exchange of digests.
PostQuietly(p, n) ==
  /\ InTurn(p, n) /\ ~IsControl(n)
  /\ Store(p, n)
  /\ UNCHANGED <<denied, removed, aged, rule, net, offers>>

\* show_group_details_rule_cmd, a button that mods have: the rule is in force
\* here at once, and rule_send tells the others.
PostRule(p, n) ==
  /\ InTurn(p, n) /\ IsControl(n) /\ p \in rule[p].mods
  /\ Store(p, n)
  /\ Announce(p, n, (Sources[p] \cup Named(n).users) \ {p})
  /\ rule' = [rule EXCEPT ![p] = Named(n)]
  /\ UNCHANGED <<denied, removed, aged, offers>>

\* rule_add_user: the owner adds a user to the rule and replays at once.
AddUser(p, n) ==
  /\ InTurn(p, n) /\ IsControl(n) /\ p = Owner
  /\ \E q \in Peers :
       Letter[n].rule = [mods  |-> rule[p].mods \cup {Owner},
                         users |-> rule[p].users \cup {q}]
  /\ Store(p, n)
  /\ Announce(p, n, (Sources[p] \cup Letter[n].rule.users) \ {p})
  /\ ReplayOf(p, hdr[p] \cup {n}, body[p] \cup {n})
  /\ UNCHANGED <<removed, aged, offers>>

-----------------------------------------------------------------------------
(* Exchange.                                                               *)

\* req_head DIG at p for q, which may ask at any time (ml_grouphead): the
\* headers p shows.
Offer(p, q) ==
  /\ p # q /\ Admitted(p, q) /\ hdr[p] # {}
  /\ offers[p] < MaxOffers
  /\ offers' = [offers EXCEPT ![p] = @ + 1]
  /\ net' = net \cup Msg("DIG", p, q, Visible(p))
  /\ UNCHANGED <<hdr, body, denied, removed, aged, rule>>

Consume(m, replies) == net' = (net \ {m}) \cup replies

DropDigest(p, m) ==
  /\ ~Admitted(p, m.from)
  /\ Consume(m, {})
  /\ UNCHANGED <<hdr, body, denied, removed, aged, rule, offers>>

\* Mutant of TakeDigest: the headers are compared after they are stored.
TakeDigestAsksLate(p, m) ==
  LET new == m.letters \ Visible(p) IN
  /\ Admitted(p, m.from)
  /\ hdr' = [hdr EXCEPT ![p] = @ \cup new]
  /\ Consume(m, Msg("HEAD", p, m.from, m.letters \ hdr'[p])
                \cup Msg("EML", p, m.from, Visible(p) \cap Readable(p)))
  /\ ReplayOf(p, hdr[p] \cup new, body[p])
  /\ UNCHANGED <<body, removed, aged, offers>>

\* req_mail DIG: store the headers that are new, ask for their bodies, push
\* every body at hand, and replay (ml_showlist) before the answer comes.
TakeDigest(p, m) ==
  LET new == m.letters \ Visible(p) IN
  /\ Admitted(p, m.from)
  /\ hdr' = [hdr EXCEPT ![p] = @ \cup new]
  /\ Consume(m, Msg("HEAD", p, m.from, new)
                \cup Msg("EML", p, m.from, Visible(p) \cap Readable(p)))
  /\ ReplayOf(p, hdr[p] \cup new, body[p])
  /\ UNCHANGED <<body, removed, aged, offers>>

\* req_head EML: one message for each letter that is asked for and stored
TakeHead(p, m) ==
  /\ Consume(m, UNION {Msg("EML", p, m.from, {n}) :
                         n \in m.letters \cap Readable(p)})
  /\ UNCHANGED <<hdr, body, denied, removed, aged, rule, offers>>

\* req_mail EML, ml_add_eml: nothing on the delete list is stored.  Nobody is
\* screened here and the rule is not replayed.
TakeBodies(p, m) ==
  /\ body' = [body EXCEPT ![p] = @ \cup (m.letters \ Gone(p))]
  /\ Consume(m, {})
  /\ UNCHANGED <<hdr, denied, removed, aged, rule, offers>>

Recv(p, m) ==
  /\ m.to = p
  /\ \/ m.type = "DIG" /\ (DropDigest(p, m) \/ TakeDigest(p, m))
     \/ m.type = "HEAD" /\ TakeHead(p, m)
     \/ m.type = "EML" /\ TakeBodies(p, m)

-----------------------------------------------------------------------------
(* Time and the user.                                                      *)

\* ml_replay without news: startup, the timers of form_message, rule_send and
\* ml_grouphead, the windows that list a group
Refresh(p) ==
  /\ ReplayOf(p, hdr[p], body[p])
  /\ UNCHANGED <<hdr, body, removed, aged, net, offers>>

\* show_mail_delete_cmd
Remove(p, n) ==
  /\ n \in Visible(p)
  /\ Cardinality(removed[p]) < MaxRemoved
  /\ removed' = [removed EXCEPT ![p] = @ \cup {n}]
  /\ UNCHANGED <<hdr, body, denied, aged, rule, net, offers>>

\* 31 days have passed since p stored the header.
Age(p, n) ==
  /\ n \in hdr[p] \ aged[p]
  /\ Cardinality(aged[p]) < MaxAged
  /\ aged' = [aged EXCEPT ![p] = @ \cup {n}]
  /\ UNCHANGED <<hdr, body, denied, removed, rule, net, offers>>

-----------------------------------------------------------------------------

Post(p, n) ==
  PostLetter(p, n) \/ PostQuietly(p, n) \/ PostRule(p, n) \/ AddUser(p, n)

User(p) ==
  \/ \E n \in Letters : Post(p, n)
  \/ \E n \in Letters : Remove(p, n)

Exchange(p) ==
  \/ \E q \in Peers : Offer(p, q)
  \/ \E m \in net : Recv(p, m)

Next ==
  \E p \in Peers :
    User(p) \/ Exchange(p) \/ Refresh(p) \/ (\E n \in Letters : Age(p, n))

Spec == Init /\ [][Next]_vars

-----------------------------------------------------------------------------
(* Properties.                                                             *)

Controls == {n \in Letters : IsControl(n)}

\* The number of the latest control letter that a rule can come from
Rank(r) ==
  CHOOSE n \in {0} \cup Controls :
    /\ n = 0 \/ Named(n) = r
    /\ \A k \in Controls : Named(k) = r => k <= n

\* The owner's are all the control letters, and no rule comes back.
OwnersRules ==
  /\ \A n \in Controls : Author(n) = Owner
  /\ \A k, n \in Controls : Named(k) = Named(n) => k = n

\* While all control letters are the owner's: whatever order their headers and
\* bodies arrive in, a peer's rule falls back to an older one only when the
\* letter it comes from was deleted by the user or is older than 31 days there:
\* a replay does not see that letter any more and begins with StartRule.
RuleNeverGoesBack ==
  [][\A p \in Peers :
       OwnersRules /\ rule'[p] # rule[p] =>
         \/ Rank(rule'[p]) >= Rank(rule[p])
         \/ Rank(rule[p]) \in removed'[p] \cup aged'[p]]_vars

\* What the rule allows, by all the letters posted.
AllowedByAll(n) == n \notin Replay(Posted, Posted).denied

Misses(p, n) == n \notin (hdr[p] \cap body[p]) \ (Gone(p) \cup aged[p])

\* ml_replay deletes a letter that the complete log allows only at a peer that
\* misses an earlier control letter, or its body.
DenialNeedsGap ==
  [][\A p \in Peers : \A n \in denied'[p] \ denied[p] :
       AllowedByAll(n)' =>
         \E k \in Controls \cap Posted' : k < n /\ Misses(p, k)']_vars

\* A peer passes no letter on that is on its delete list, though letters it
\* deleted are asked for and its body store keeps what it had.
DeletedStaysHere ==
  [][\A m \in net' \ net :
       m.type \in {"DIG", "EML"} =>
         m.letters \cap (denied[m.from] \cup removed[m.from]) = {}]_vars

\* ml_replay's comment: "if type is g and author in users, allow, else
\* ignore".  A letter that the rule allows would never be deleted by its
\* readers for good.
NothingAllowedIsDenied ==
  [][\A p \in Peers : \A n \in denied'[p] \ denied[p] :
       p # Author(n) => ~AllowedByAll(n)']_vars
=============================================================================
