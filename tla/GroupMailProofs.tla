-------------------------- MODULE GroupMailProofs ---------------------------
(***************************************************************************)
(* Proofs about GroupMail.  First what ml_replay computes of any number of *)
(* letters: its recursion is turned into a table of what it has after each *)
(* letter, and facts about the table are shown by induction over them.     *)
(* Then an invariant of the peers' stores, and from both the properties of *)
(* rules and deletions.                                                    *)
(***************************************************************************)
EXTENDS GroupMail, WellFoundedInduction, TLAPS

USE MailAssumption

-----------------------------------------------------------------------------
(* Induction.                                                              *)

\* Induction over a set of numbers, from their order being well-founded
LEMMA SetInduction ==
  ASSUME NEW S \in SUBSET Nat, 0 \in S, \A n \in S : n + 1 \in S
  PROVE  S = Nat
<1> DEFINE Less == OpToRel(<, Nat)
           Left == Nat \ S
<1>1. IsWellFoundedOn(Less, Nat)
  BY NatLessThanWellFounded
<1>2. \A x, y \in Nat : <<x, y>> \in Less <=> x < y
  BY DEF OpToRel
<1>3. SUFFICES ASSUME Left # {} PROVE FALSE
  OBVIOUS
<1> HIDE DEF Less
<1>4. PICK x \in Left : \A y \in Left : ~ (<<y, x>> \in Less)
  BY <1>1, <1>3, WFMin
<1>5. x \in Nat /\ x # 0 /\ x - 1 \in Nat /\ x - 1 < x
  OBVIOUS
<1>6. x - 1 \in S
  BY <1>2, <1>4, <1>5
<1> QED
  BY <1>4, <1>5, <1>6

\* Induction over the letters
LEMMA LetterInduction ==
  ASSUME NEW S \in SUBSET (0..N), 0 \in S,
         \A n \in 1..N : n - 1 \in S => n \in S
  PROVE  S = 0..N
<1> DEFINE T == {n \in Nat : n \in S \/ n > N}
<1>1. T = Nat
  <2>1. T \in SUBSET Nat /\ 0 \in T
    OBVIOUS
  <2>2. ASSUME NEW n \in T PROVE n + 1 \in T
    <3>1. n \in Nat /\ n + 1 \in Nat /\ (n + 1) - 1 = n
      OBVIOUS
    <3>2. CASE n + 1 > N
      BY <3>1, <3>2
    <3>3. CASE ~ n + 1 > N
      <4>1. n + 1 \in 1..N /\ n \in S
        BY <3>1, <3>3
      <4> QED
        BY <3>1, <4>1
    <3> QED
      BY <3>2, <3>3
  <2> HIDE DEF T
  <2> QED
    BY <2>1, <2>2, SetInduction
<1>2. \A n \in 0..N : n \in S
  <2>1. \A n \in Nat : n \in S \/ n > N
    BY <1>1
  <2> QED
    BY <2>1
<1> QED
  BY <1>2

-----------------------------------------------------------------------------
(* ml_replay.                                                              *)

\* g[n] is what the replay has after the letters up to n, for n up to m.
IsTable(g, m, seen, read) ==
  g = [n \in 0..m |-> IF n = 0 THEN NothingYet
                      ELSE Replayed(g[n - 1], n, seen, read)]

Table(seen, read) == CHOOSE g : IsTable(g, N, seen, read)

LEMMA TableExists ==
  ASSUME NEW seen, NEW read
  PROVE  IsTable(Table(seen, read), N, seen, read)
<1> DEFINE S == {m \in Nat : \E g : IsTable(g, m, seen, read)}
<1>1. 0 \in S
  <2>1. IsTable([n \in 0..0 |-> NothingYet], 0, seen, read)
    BY DEF IsTable
  <2> QED
    BY <2>1
<1>2. ASSUME NEW m \in S PROVE m + 1 \in S
  <2>1. PICK g : IsTable(g, m, seen, read)
    OBVIOUS
  <2> DEFINE h == [n \in 0..(m + 1) |->
                     IF n = m + 1 THEN Replayed(g[m], m + 1, seen, read)
                     ELSE g[n]]
  <2>2. IsTable(h, m + 1, seen, read)
    BY <2>1 DEF IsTable
  <2> HIDE DEF h
  <2> QED
    BY <2>2
<1>3. S = Nat
  <2>1. S \in SUBSET Nat
    OBVIOUS
  <2> HIDE DEF S
  <2> QED
    BY <1>1, <1>2, <2>1, SetInduction
<1>4. \E g : IsTable(g, N, seen, read)
  BY <1>3
<1> QED
  BY <1>4 DEF Table

\* The rows of the table, and that its last one is the replay.
LEMMA TableRows ==
  ASSUME NEW seen, NEW read
  PROVE  /\ Table(seen, read)[0] = NothingYet
         /\ \A n \in 1..N :
              Table(seen, read)[n] =
                Replayed(Table(seen, read)[n - 1], n, seen, read)
         /\ Replay(seen, read) = Table(seen, read)[N]
<1> DEFINE g == Table(seen, read)
<1>1. g = [n \in 0..N |-> IF n = 0 THEN NothingYet
                          ELSE Replayed(g[n - 1], n, seen, read)]
  BY TableExists DEF IsTable
<1>2. Replay(seen, read) = g[N]
  BY DEF Replay, Table, IsTable
<1> HIDE DEF g
<1>3. g[0] = NothingYet /\ \A n \in 1..N : g[n] = Replayed(g[n - 1], n, seen, read)
  BY <1>1
<1> QED
  BY <1>2, <1>3 DEF g

Row == [rule : Rule, denied : SUBSET Letters]

LEMMA RowTypes ==
  ASSUME NEW seen, NEW read, NEW n \in 0..N
  PROVE  Table(seen, read)[n] \in Row
<1> DEFINE g == Table(seen, read)
           S == {k \in 0..N : g[k] \in Row}
<1>1. 0 \in S
  BY TableRows DEF NothingYet, StartRule, Rule, Row
<1>2. ASSUME NEW k \in 1..N, k - 1 \in S PROVE k \in S
  <2>1. g[k] = Replayed(g[k - 1], k, seen, read) /\ g[k - 1] \in Row
    BY <1>2, TableRows
  <2>2. k \in Letters /\ Named(k) \in Rule
    BY DEF Letters, Named, Rule
  <2> HIDE DEF g
  <2>3. g[k] \in Row
    BY <2>1, <2>2 DEF Replayed, Row
  <2> QED
    BY <2>3
<1>3. S = 0..N
  <2>1. S \in SUBSET (0..N)
    OBVIOUS
  <2> HIDE DEF S
  <2> QED
    BY <1>1, <1>2, <2>1, LetterInduction
<1> QED
  BY <1>3

\* The replay denies a letter when it comes to it, by the rule it has then.
LEMMA RowDenied ==
  ASSUME NEW seen, NEW read, NEW n \in 0..N, NEW l
  PROVE  l \in Table(seen, read)[n].denied <=>
           /\ l \in 1..n /\ l \in seen
           /\ ~Allowed(Table(seen, read)[l - 1].rule, l)
<1> DEFINE g == Table(seen, read)
           Refused(k) == k \in seen /\ ~Allowed(g[k - 1].rule, k)
           S == {k \in 0..N : l \in g[k].denied <=> l \in 1..k /\ Refused(l)}
<1>1. 0 \in S
  BY TableRows DEF NothingYet
<1>2. ASSUME NEW k \in 1..N, k - 1 \in S PROVE k \in S
  <2>1. /\ g[k] = Replayed(g[k - 1], k, seen, read)
        /\ g[k - 1] \in Row
    <3>1. k - 1 \in 0..N
      OBVIOUS
    <3>2. g[k - 1] \in Row
      BY <3>1, RowTypes
    <3>3. g[k] = Replayed(g[k - 1], k, seen, read)
      BY TableRows
    <3> QED
      BY <3>2, <3>3
  <2>2. l \in g[k - 1].denied <=> l \in 1..(k - 1) /\ Refused(l)
    BY <1>2
  <2>3. g[k].denied = IF Refused(k) THEN g[k - 1].denied \cup {k}
                                    ELSE g[k - 1].denied
    <3> HIDE DEF g
    <3> QED
      BY <2>1 DEF Replayed, Row
  <2> HIDE DEF Refused, g
  <2>4. l \in 1..k <=> l \in 1..(k - 1) \/ l = k
    OBVIOUS
  <2>5. l \in g[k].denied <=> l \in 1..k /\ Refused(l)
    BY <2>2, <2>3, <2>4
  <2> QED
    BY <2>5
<1>3. S = 0..N
  <2>1. S \in SUBSET (0..N)
    OBVIOUS
  <2> HIDE DEF S
  <2> QED
    BY <1>1, <1>2, <2>1, LetterInduction
<1>4. n \in S
  BY <1>3
<1> QED
  BY <1>4

\* ml_replay denies only what it has seen, and nothing of the owner.
LEMMA ReplayTypes ==
  ASSUME NEW seen, NEW read
  PROVE  /\ Replay(seen, read).rule \in Rule
         /\ Replay(seen, read).denied \subseteq seen \cap Letters
         /\ \A n \in Replay(seen, read).denied : Author(n) # Owner
<1>1. N \in 0..N
  OBVIOUS
<1>2. Replay(seen, read) = Table(seen, read)[N]
  BY TableRows
<1>3. Table(seen, read)[N].rule \in Rule
  BY <1>1, RowTypes DEF Row
<1>4. \A l : l \in Table(seen, read)[N].denied =>
               l \in 1..N /\ l \in seen /\ Author(l) # Owner
  BY <1>1, RowDenied DEF Allowed, MaySet, MayWrite
<1> QED
  BY <1>2, <1>3, <1>4 DEF Letters

\* A control letter that the replay can read, of the owner, is in force until
\* the next one.
InForce(k, seen, read) == k \in Controls /\ k \in seen /\ k \in read

LEMMA RowRule ==
  ASSUME \A k \in Controls : Author(k) = Owner,
         NEW seen, NEW read, NEW n \in 0..N
  PROVE  \/ /\ Table(seen, read)[n].rule = StartRule
            /\ \A k \in 1..n : ~InForce(k, seen, read)
         \/ \E j \in 1..n :
              /\ InForce(j, seen, read)
              /\ Table(seen, read)[n].rule = Named(j)
              /\ \A k \in (j + 1)..n : ~InForce(k, seen, read)
<1> DEFINE g == Table(seen, read)
           Start(r, m) == /\ r = StartRule
                          /\ \A k \in 1..m : ~InForce(k, seen, read)
           Latest(r, m, j) == /\ InForce(j, seen, read)
                              /\ r = Named(j)
                              /\ \A k \in (j + 1)..m : ~InForce(k, seen, read)
           S == {m \in 0..N : \/ Start(g[m].rule, m)
                             \/ \E j \in 1..m : Latest(g[m].rule, m, j)}
<1>1. 0 \in S
  BY TableRows DEF NothingYet
<1>2. ASSUME NEW m \in 1..N, m - 1 \in S PROVE m \in S
  <2>1. /\ g[m] = Replayed(g[m - 1], m, seen, read)
        /\ g[m - 1] \in Row
    <3>1. m - 1 \in 0..N
      OBVIOUS
    <3>2. g[m - 1] \in Row
      BY <3>1, RowTypes
    <3>3. g[m] = Replayed(g[m - 1], m, seen, read)
      BY TableRows
    <3> QED
      BY <3>2, <3>3
  <2>2. g[m].rule = IF InForce(m, seen, read) THEN Named(m) ELSE g[m - 1].rule
    <3>1. m \in Letters
      BY DEF Letters
    <3>2. IsControl(m) => m \in Controls /\ Allowed(g[m - 1].rule, m)
      BY <3>1 DEF Controls, Allowed, MaySet
    <3>3. m \in Controls => IsControl(m)
      BY DEF Controls
    <3> HIDE DEF g
    <3> QED
      BY <2>1, <3>2, <3>3 DEF Replayed, InForce, Row
  <2> HIDE DEF g
  <2>3. CASE InForce(m, seen, read)
    <3>1. m \in 1..m /\ Latest(g[m].rule, m, m)
      BY <2>2, <2>3
    <3> QED
      BY <3>1
  <2>4. CASE ~InForce(m, seen, read)
    <3>1. g[m].rule = g[m - 1].rule
      BY <2>2, <2>4
    <3>2. CASE Start(g[m - 1].rule, m - 1)
      <4>1. \A k \in 1..m : k \in 1..(m - 1) \/ k = m
        OBVIOUS
      <4>2. Start(g[m].rule, m)
        BY <2>4, <3>1, <3>2, <4>1
      <4> QED
        BY <4>2
    <3>3. ASSUME NEW j \in 1..(m - 1), Latest(g[m - 1].rule, m - 1, j)
          PROVE  m \in S
      <4>1. \A k \in (j + 1)..m : k \in (j + 1)..(m - 1) \/ k = m
        OBVIOUS
      <4>2. j \in 1..m /\ Latest(g[m].rule, m, j)
        BY <2>4, <3>1, <3>3, <4>1
      <4> QED
        BY <4>2
    <3> QED
      BY <1>2, <3>2, <3>3
  <2> QED
    BY <2>3, <2>4
<1>3. S = 0..N
  <2>1. S \in SUBSET (0..N)
    OBVIOUS
  <2> HIDE DEF S
  <2> QED
    BY <1>1, <1>2, <2>1, LetterInduction
<1>4. n \in S
  BY <1>3
<1> QED
  BY <1>4

\* Up to a letter, a replay that misses no control letter has the rule of one
\* that has them all.
LEMMA RowsAgree ==
  ASSUME NEW all, NEW seen \in SUBSET all, NEW read, NEW n \in Letters,
         \A k \in Controls \cap all : k < n => k \in seen /\ k \in read
  PROVE  Table(seen, read)[n - 1].rule = Table(all, all)[n - 1].rule
<1> DEFINE g == Table(seen, read)
           h == Table(all, all)
           S == {m \in 0..N : m < n => g[m].rule = h[m].rule}
<1>1. 0 \in S
  BY TableRows
<1>2. ASSUME NEW m \in 1..N, m - 1 \in S PROVE m \in S
  <2>1. SUFFICES ASSUME m < n PROVE g[m].rule = h[m].rule
    OBVIOUS
  <2>2. g[m - 1].rule = h[m - 1].rule
    <3>1. m - 1 < n
      BY <2>1 DEF Letters
    <3> HIDE DEF g, h
    <3> QED
      BY <1>2, <3>1
  <2>3. m - 1 \in 0..N /\ m \in Letters
    BY DEF Letters
  <2>4. g[m - 1] \in Row /\ h[m - 1] \in Row
    BY <2>3, RowTypes
  <2>5. /\ g[m] = Replayed(g[m - 1], m, seen, read)
        /\ h[m] = Replayed(h[m - 1], m, all, all)
    BY TableRows
  <2>6. \A r \in Row : \A s, b :
          Replayed(r, m, s, b).rule =
            IF m \in s /\ Allowed(r.rule, m) /\ IsControl(m) /\ m \in b
            THEN Named(m) ELSE r.rule
    BY DEF Replayed, Row
  <2>7. IsControl(m) => (m \in seen /\ m \in read <=> m \in all)
    BY <2>1, <2>3 DEF Controls
  <2>8. Allowed(g[m - 1].rule, m) <=> Allowed(h[m - 1].rule, m)
    BY <2>2
  <2> HIDE DEF g, h
  <2>9. g[m].rule = IF /\ m \in seen /\ Allowed(g[m - 1].rule, m)
                       /\ IsControl(m) /\ m \in read
                    THEN Named(m) ELSE g[m - 1].rule
    BY <2>4, <2>5, <2>6
  <2>10. h[m].rule = IF m \in all /\ Allowed(h[m - 1].rule, m) /\ IsControl(m)
                     THEN Named(m) ELSE h[m - 1].rule
    BY <2>4, <2>5, <2>6
  <2> QED
    BY <2>2, <2>7, <2>8, <2>9, <2>10
<1>3. S = 0..N
  <2>1. S \in SUBSET (0..N)
    OBVIOUS
  <2> HIDE DEF S
  <2> QED
    BY <1>1, <1>2, <2>1, LetterInduction
<1>4. n - 1 \in 0..N /\ n - 1 < n
  BY DEF Letters
<1>5. n - 1 \in S
  BY <1>3, <1>4
<1> QED
  BY <1>4, <1>5

\* A letter that is denied though the whole log allows it: a control letter
\* before it was missing.
Missed(n, all, seen, read) ==
  \E k \in Controls \cap all : k < n /\ ~ (k \in seen /\ k \in read)

LEMMA DenialNeedsMiss ==
  ASSUME NEW all, NEW seen, seen \subseteq all, NEW read,
         NEW n, n \in Replay(seen, read).denied,
         n \notin Replay(all, all).denied
  PROVE  Missed(n, all, seen, read)
<1>1. N \in 0..N
  OBVIOUS
<1>2. /\ n \in 1..N /\ n \in seen
      /\ ~Allowed(Table(seen, read)[n - 1].rule, n)
  BY <1>1, TableRows, RowDenied
<1>3. Allowed(Table(all, all)[n - 1].rule, n)
  <2>1. n \notin Table(all, all)[N].denied
    BY TableRows
  <2> QED
    BY <1>1, <1>2, <2>1, RowDenied
<1>4. n \in Letters
  BY <1>2 DEF Letters
<1>5. Table(seen, read)[n - 1].rule # Table(all, all)[n - 1].rule
  BY <1>2, <1>3
<1> SUFFICES ASSUME \A k \in Controls \cap all :
                      k < n => k \in seen /\ k \in read
             PROVE  FALSE
  BY DEF Missed
<1>6. Table(seen, read)[n - 1].rule = Table(all, all)[n - 1].rule
  BY <1>4, RowsAgree
<1> QED
  BY <1>5, <1>6

\* The rule that a replay ends with, the control letters being the owner's
LEMMA ReplayRule ==
  ASSUME \A k \in Controls : Author(k) = Owner, NEW seen, NEW read
  PROVE  \/ /\ Replay(seen, read).rule = StartRule
            /\ \A k \in Controls : ~InForce(k, seen, read)
         \/ \E j \in Controls :
              /\ InForce(j, seen, read)
              /\ Replay(seen, read).rule = Named(j)
              /\ \A k \in Controls : InForce(k, seen, read) => k <= j
<1> DEFINE r == Table(seen, read)[N].rule
<1>1. N \in 0..N /\ Replay(seen, read).rule = r
  BY TableRows
<1>2. Controls \subseteq 1..N
  BY DEF Controls, Letters
<1>3. \/ r = StartRule /\ \A k \in 1..N : ~InForce(k, seen, read)
      \/ \E j \in 1..N : /\ InForce(j, seen, read) /\ r = Named(j)
                         /\ \A k \in (j + 1)..N : ~InForce(k, seen, read)
  BY <1>1, RowRule
<1> HIDE DEF r
<1>4. CASE r = StartRule /\ \A k \in 1..N : ~InForce(k, seen, read)
  BY <1>1, <1>2, <1>4
<1>5. ASSUME NEW j \in 1..N, InForce(j, seen, read), r = Named(j),
             \A k \in (j + 1)..N : ~InForce(k, seen, read)
      PROVE  \E i \in Controls :
               /\ InForce(i, seen, read) /\ r = Named(i)
               /\ \A k \in Controls : InForce(k, seen, read) => k <= i
  <2>1. j \in Controls
    BY <1>5 DEF InForce
  <2>2. ASSUME NEW k \in Controls, InForce(k, seen, read) PROVE k <= j
    BY <1>2, <1>5, <2>2
  <2> QED
    BY <1>5, <2>1, <2>2
<1> QED
  BY <1>1, <1>3, <1>4, <1>5

-----------------------------------------------------------------------------
(* What the peers have.                                                    *)

\* What is on a delete list has a header, and nothing of the owner gets there
\* by the rule.
GoneIsStored ==
  \A p \in Peers : /\ denied[p] \subseteq hdr[p] /\ removed[p] \subseteq hdr[p]
                  /\ \A n \in denied[p] : Author(n) # Owner

\* What is stored or sent was posted.
AllPosted ==
  /\ \A p \in Peers : body[p] \subseteq Posted
  /\ \A m \in net : m.letters \subseteq Posted

\* An author's letters are posted in their order.
InSequence ==
  \A n \in Posted : \A k \in 1..(n - 1) : Author(k) = Author(n) => k \in Posted

OwnersOnly == \A k \in Controls : Author(k) = Owner

\* A peer's rule is of a control letter that it has.
HasRule(r, hs, bs) ==
  r = StartRule \/ \E k \in Controls : k \in hs /\ k \in bs /\ r = Named(k)

RuleIsStored ==
  OwnersOnly => \A p \in Peers : HasRule(rule[p], hdr[p], body[p])

Inv == TypeOK /\ GoneIsStored /\ AllPosted /\ InSequence /\ RuleIsStored

LEMMA PostedGrows ==
  ASSUME TypeOK, NEW p \in Peers, NEW X, hdr' = [hdr EXCEPT ![p] = @ \cup X]
  PROVE  Posted' = Posted \cup X
<1>1. \A q \in Peers : hdr'[q] = IF q = p THEN hdr[p] \cup X ELSE hdr[q]
  BY DEF TypeOK
<1> QED
  BY <1>1 DEF Posted

LEMMA PostedLetters ==
  ASSUME TypeOK
  PROVE  /\ Posted \subseteq Letters
         /\ \A p \in Peers : hdr[p] \subseteq Posted
BY DEF TypeOK, Posted

\* What a step at p that stores the headers X and the bodies Y has to see to
StepAt(p, X, Y) ==
  /\ TypeOK'
  /\ hdr' = [hdr EXCEPT ![p] = @ \cup X]
  /\ body' = [body EXCEPT ![p] = @ \cup Y]
  /\ X \subseteq Posted \/ \E n \in Letters : X = {n} /\ InTurn(p, n)
  /\ Y \subseteq Posted \cup X
  /\ \A m \in net' : m \in net \/ m.letters \subseteq Posted \cup X
  /\ denied'[p] \subseteq hdr'[p] /\ removed'[p] \subseteq hdr'[p]
  /\ \A n \in denied'[p] : n \in denied[p] \/ Author(n) # Owner
  /\ OwnersOnly => rule'[p] = rule[p] \/ HasRule(rule'[p], hdr'[p], body'[p])
  /\ \A q \in Peers \ {p} : /\ denied'[q] = denied[q]
                           /\ removed'[q] = removed[q]
                           /\ rule'[q] = rule[q]

LEMMA Keeps ==
  ASSUME Inv, NEW p \in Peers, NEW X, NEW Y, StepAt(p, X, Y)
  PROVE  Inv'
<1> USE DEF StepAt
<1>1. Posted' = Posted \cup X
  BY PostedGrows DEF Inv
<1>2. \A q \in Peers : /\ hdr'[q] = IF q = p THEN hdr[p] \cup X ELSE hdr[q]
                      /\ body'[q] = IF q = p THEN body[p] \cup Y ELSE body[q]
  BY DEF Inv, TypeOK
<1>3. GoneIsStored'
  BY <1>2 DEF Inv, GoneIsStored
<1>4. AllPosted'
  BY <1>1, <1>2 DEF Inv, AllPosted
<1>5. InSequence'
  <2>1. CASE X \subseteq Posted
    BY <1>1, <2>1 DEF Inv, InSequence
  <2>2. ASSUME NEW n \in Letters, X = {n}, InTurn(p, n)
        PROVE  InSequence'
    BY <1>1, <2>2 DEF Inv, InSequence, InTurn
  <2> QED
    BY <2>1, <2>2
<1>6. RuleIsStored'
  BY <1>2 DEF Inv, RuleIsStored, HasRule
<1> QED
  BY <1>3, <1>4, <1>5, <1>6 DEF Inv

LEMMA ReplayEffect ==
  ASSUME TypeOK, NEW p \in Peers, NEW hs, NEW bs, ReplayOf(p, hs, bs)
  PROVE  /\ rule' \in [Peers -> Rule]
         /\ denied' \in [Peers -> SUBSET Letters]
         /\ \A q \in Peers \ {p} : rule'[q] = rule[q] /\ denied'[q] = denied[q]
         /\ denied'[p] =
              denied[p] \cup Replay((hs \ Gone(p)) \ aged[p], bs).denied
         /\ rule'[p] = Replay((hs \ Gone(p)) \ aged[p], bs).rule
         /\ denied'[p] \subseteq denied[p] \cup hs
         /\ \A n \in denied'[p] : n \in denied[p] \/ Author(n) # Owner
         /\ OwnersOnly => HasRule(rule'[p], hs, bs)
<1> DEFINE r == Replay((hs \ Gone(p)) \ aged[p], bs)
<1>1. /\ r.rule \in Rule /\ r.denied \subseteq hs /\ r.denied \subseteq Letters
      /\ \A n \in r.denied : Author(n) # Owner
  BY ReplayTypes
<1>2. OwnersOnly => HasRule(r.rule, hs, bs)
  BY ReplayRule DEF OwnersOnly, HasRule, InForce
<1>3. /\ rule' = [rule EXCEPT ![p] = r.rule]
      /\ denied' = [denied EXCEPT ![p] = @ \cup r.denied]
  BY DEF ReplayOf
<1> HIDE DEF r
<1>4. rule'[p] = r.rule /\ denied'[p] = denied[p] \cup r.denied
  BY <1>3 DEF TypeOK
<1>5. /\ rule' \in [Peers -> Rule]
      /\ denied' \in [Peers -> SUBSET Letters]
      /\ \A q \in Peers \ {p} : rule'[q] = rule[q] /\ denied'[q] = denied[q]
  BY <1>1, <1>3 DEF TypeOK
<1> QED
  BY <1>1, <1>2, <1>4, <1>5 DEF r

-----------------------------------------------------------------------------
(* Every action keeps Inv.                                                 *)

\* The messages that are new come from p and have letters in ls.
Sends(p, types, ls) ==
  \A m \in net' :
    \/ m \in net
    \/ /\ m \in Message /\ m.from = p
       /\ m.type \in types /\ m.letters \subseteq ls

LEMMA MsgIs ==
  ASSUME NEW type \in {"DIG", "HEAD", "EML"}, NEW p \in Peers, NEW q \in Peers,
         NEW ls \in SUBSET Letters, NEW m \in Msg(type, p, q, ls)
  PROVE  m \in Message /\ m.from = p /\ m.type = type /\ m.letters = ls
BY DEF Msg, Message

LEMMA AnnounceSends ==
  ASSUME TypeOK, NEW p \in Peers, NEW n \in Letters, NEW qs \in SUBSET Peers,
         Announce(p, n, qs)
  PROVE  Sends(p, {"DIG"}, {n}) /\ net' \subseteq Message
<1>1. SUFFICES ASSUME NEW m \in net', m \notin net
               PROVE  /\ m \in Message /\ m.from = p
                      /\ m.type = "DIG" /\ m.letters = {n}
  BY DEF Sends, TypeOK
<1>2. PICK q \in qs : m \in Msg("DIG", p, q, {n})
  BY <1>1 DEF Announce
<1> QED
  BY <1>2, MsgIs

LEMMA StoreTypes ==
  ASSUME TypeOK, NEW p \in Peers, NEW n \in Letters, Store(p, n)
  PROVE  /\ hdr' \in [Peers -> SUBSET Letters]
         /\ body' \in [Peers -> SUBSET Letters]
         /\ hdr'[p] = hdr[p] \cup {n} /\ body'[p] = body[p] \cup {n}
         /\ hdr' = [hdr EXCEPT ![p] = @ \cup {n}]
         /\ body' = [body EXCEPT ![p] = @ \cup {n}]
BY DEF Store, TypeOK

\* What a post of any kind does, but for the rule and the delete list
LEMMA PostEffect ==
  ASSUME Inv, NEW p \in Peers, NEW n \in Letters, Post(p, n)
  PROVE  /\ InTurn(p, n) /\ Store(p, n)
         /\ Sends(p, {"DIG"}, {n}) /\ net' \subseteq Message
         /\ UNCHANGED <<removed, aged, offers>>
<1>1. CASE PostLetter(p, n)
  <2>1. Targets(p) \in SUBSET Peers
    BY DEF Inv, TypeOK, Targets, Rule
  <2> QED
    BY <1>1, <2>1, AnnounceSends DEF PostLetter, Inv
<1>2. CASE PostQuietly(p, n)
  BY <1>2 DEF PostQuietly, Sends, Inv, TypeOK
<1>3. CASE PostRule(p, n)
  <2>1. (Sources[p] \cup Named(n).users) \ {p} \in SUBSET Peers
    BY DEF Named, Rule
  <2> QED
    BY <1>3, <2>1, AnnounceSends DEF PostRule, Inv
<1>4. CASE AddUser(p, n)
  <2>1. (Sources[p] \cup Letter[n].rule.users) \ {p} \in SUBSET Peers
    BY DEF Rule
  <2> QED
    BY <1>4, <2>1, AnnounceSends DEF AddUser, Inv
<1> QED
  BY <1>1, <1>2, <1>3, <1>4 DEF Post

LEMMA PostKeeps ==
  ASSUME Inv, NEW p \in Peers, NEW n \in Letters, Post(p, n)
  PROVE  Inv'
<1>1. /\ InTurn(p, n) /\ Store(p, n)
      /\ Sends(p, {"DIG"}, {n}) /\ net' \subseteq Message
      /\ UNCHANGED <<removed, aged, offers>>
  BY PostEffect
<1>2. /\ hdr' \in [Peers -> SUBSET Letters]
      /\ body' \in [Peers -> SUBSET Letters]
      /\ hdr'[p] = hdr[p] \cup {n} /\ body'[p] = body[p] \cup {n}
      /\ hdr' = [hdr EXCEPT ![p] = @ \cup {n}]
      /\ body' = [body EXCEPT ![p] = @ \cup {n}]
  BY <1>1, StoreTypes DEF Inv
<1>3. /\ rule' \in [Peers -> Rule]
      /\ denied' \in [Peers -> SUBSET Letters]
      /\ \A q \in Peers \ {p} : rule'[q] = rule[q] /\ denied'[q] = denied[q]
      /\ denied'[p] \subseteq hdr'[p]
      /\ \A k \in denied'[p] : k \in denied[p] \/ Author(k) # Owner
      /\ OwnersOnly =>
           rule'[p] = rule[p] \/ HasRule(rule'[p], hdr'[p], body'[p])
  <2>1. CASE PostLetter(p, n) \/ PostQuietly(p, n)
    <3>1. UNCHANGED <<denied, rule>>
      BY <2>1 DEF PostLetter, PostQuietly
    <3> QED
      BY <1>2, <3>1 DEF Inv, TypeOK, GoneIsStored
  <2>2. CASE PostRule(p, n)
    <3>1. /\ IsControl(n)
          /\ rule' = [rule EXCEPT ![p] = Named(n)] /\ denied' = denied
      BY <2>2 DEF PostRule
    <3>2. Named(n) \in Rule
      BY DEF Named, Rule
    <3>3. n \in Controls /\ rule'[p] = Named(n)
      BY <3>1 DEF Controls, Inv, TypeOK
    <3>4. HasRule(rule'[p], hdr'[p], body'[p])
      BY <1>2, <3>3 DEF HasRule
    <3> QED
      BY <1>2, <3>1, <3>2, <3>4 DEF Inv, TypeOK, GoneIsStored
  <2>3. CASE AddUser(p, n)
    <3>1. ReplayOf(p, hdr'[p], body'[p])
      BY <1>2, <2>3 DEF AddUser
    <3>2. denied'[p] \subseteq denied[p] \cup hdr'[p]
      BY <3>1, ReplayEffect DEF Inv
    <3>3. denied'[p] \subseteq hdr'[p]
      BY <1>2, <3>2 DEF Inv, GoneIsStored
    <3> QED
      BY <3>1, <3>3, ReplayEffect DEF Inv
  <2> QED
    BY <2>1, <2>2, <2>3 DEF Post
<1>4. TypeOK'
  BY <1>1, <1>2, <1>3 DEF Inv, TypeOK
<1>5. removed'[p] \subseteq hdr'[p]
  BY <1>1, <1>2 DEF Inv, GoneIsStored
<1>6. \A m \in net' : m \in net \/ m.letters \subseteq Posted \cup {n}
  BY <1>1 DEF Sends
<1>7. StepAt(p, {n}, {n})
  BY <1>1, <1>2, <1>3, <1>4, <1>5, <1>6 DEF StepAt, Inv, TypeOK
<1> QED
  BY <1>7, Keeps

\* A step at p after which no header is new
LEMMA KeepsHeaders ==
  ASSUME Inv, NEW p \in Peers, UNCHANGED <<hdr, aged>>,
         offers' \in [Peers -> 0..MaxOffers],
         NEW Y \in SUBSET Posted, body' = [body EXCEPT ![p] = @ \cup Y],
         net' \subseteq Message,
         \A m \in net' : m \in net \/ m.letters \subseteq Posted,
         UNCHANGED <<denied, rule, removed>>
  PROVE  Inv'
<1>1. hdr' = [hdr EXCEPT ![p] = @ \cup {}]
  BY DEF Inv, TypeOK
<1>2. TypeOK'
  BY PostedLetters DEF Inv, TypeOK
<1>3. denied'[p] \subseteq hdr'[p] /\ removed'[p] \subseteq hdr'[p]
  BY DEF Inv, GoneIsStored
<1>4. StepAt(p, {}, Y)
  BY <1>1, <1>2, <1>3 DEF StepAt
<1> QED
  BY <1>4, Keeps

LEMMA SameBodies ==
  ASSUME Inv, NEW p \in Peers, body' = body
  PROVE  body' = [body EXCEPT ![p] = @ \cup {}]
BY DEF Inv, TypeOK

LEMMA OfferEffect ==
  ASSUME Inv, NEW p \in Peers, NEW q \in Peers, Offer(p, q)
  PROVE  Sends(p, {"DIG"}, Visible(p)) /\ net' \subseteq Message
<1>1. Visible(p) \in SUBSET Letters
  BY DEF Inv, TypeOK, Visible
<1>2. SUFFICES ASSUME NEW m \in net', m \notin net
               PROVE  /\ m \in Message /\ m.from = p
                      /\ m.type = "DIG" /\ m.letters = Visible(p)
  BY DEF Sends, Inv, TypeOK
<1>3. m \in Msg("DIG", p, q, Visible(p))
  BY <1>2 DEF Offer
<1> QED
  BY <1>1, <1>3, MsgIs

LEMMA OfferKeeps ==
  ASSUME Inv, NEW p \in Peers, NEW q \in Peers, Offer(p, q)
  PROVE  Inv'
<1>1. Sends(p, {"DIG"}, Visible(p)) /\ net' \subseteq Message
  BY OfferEffect
<1>2. UNCHANGED <<hdr, body, denied, removed, aged, rule>>
  BY DEF Offer
<1>3. offers' \in [Peers -> 0..MaxOffers]
  BY DEF Offer, Inv, TypeOK
<1>4. Visible(p) \subseteq Posted
  BY PostedLetters DEF Visible, Inv
<1>5. \A m \in net' : m \in net \/ m.letters \subseteq Posted
  BY <1>1, <1>4 DEF Sends
<1>6. body' = [body EXCEPT ![p] = @ \cup {}]
  BY <1>2, SameBodies
<1>7. {} \in SUBSET Posted
  OBVIOUS
<1> QED
  BY <1>1, <1>2, <1>3, <1>5, <1>6, <1>7, KeepsHeaders

\* What a peer answers a message
LEMMA RecvEffect ==
  ASSUME Inv, NEW p \in Peers, NEW m \in net, Recv(p, m)
  PROVE  /\ net' \subseteq Message
         /\ \A k \in net' :
              \/ k \in net
              \/ /\ k.from = p /\ k.letters \subseteq Posted
                 /\ \/ k.type = "HEAD"
                    \/ k.type = "EML" /\ k.letters \subseteq Readable(p)
<1>1. m.from \in Peers /\ m.letters \subseteq Letters /\ m.letters \subseteq Posted
  BY DEF Inv, TypeOK, Message, AllPosted
<1>2. Readable(p) \subseteq Letters /\ Readable(p) \subseteq Posted
  BY DEF Inv, TypeOK, Readable, AllPosted
<1>3. SUFFICES ASSUME NEW k \in net', k \notin net
               PROVE  /\ k \in Message /\ k.from = p /\ k.letters \subseteq Posted
                      /\ \/ k.type = "HEAD"
                         \/ k.type = "EML" /\ k.letters \subseteq Readable(p)
  BY DEF Inv, TypeOK
<1>4. CASE TakeDigest(p, m)
  <2> DEFINE new == m.letters \ Visible(p)
             old == Visible(p) \cap Readable(p)
  <2>1. k \in Msg("HEAD", p, m.from, new) \/ k \in Msg("EML", p, m.from, old)
    BY <1>3, <1>4 DEF TakeDigest, Consume
  <2>2. new \in SUBSET Letters /\ old \in SUBSET Letters
    BY <1>1, <1>2
  <2> HIDE DEF new, old
  <2>3. CASE k \in Msg("HEAD", p, m.from, new)
    <3>1. k \in Message /\ k.from = p /\ k.type = "HEAD" /\ k.letters = new
      BY <1>1, <2>2, <2>3, MsgIs
    <3> QED
      BY <1>1, <3>1 DEF new
  <2>4. CASE k \in Msg("EML", p, m.from, old)
    <3>1. k \in Message /\ k.from = p /\ k.type = "EML" /\ k.letters = old
      BY <1>1, <2>2, <2>4, MsgIs
    <3> QED
      BY <1>2, <3>1 DEF old
  <2> QED
    BY <2>1, <2>3, <2>4
<1>5. CASE TakeHead(p, m)
  <2>1. PICK n \in m.letters \cap Readable(p) : k \in Msg("EML", p, m.from, {n})
    BY <1>3, <1>5 DEF TakeHead, Consume
  <2>2. {n} \in SUBSET Letters
    BY <1>1, <2>1
  <2>3. k \in Message /\ k.from = p /\ k.type = "EML" /\ k.letters = {n}
    BY <1>1, <2>1, <2>2, MsgIs
  <2> QED
    BY <1>2, <2>1, <2>3
<1>6. CASE DropDigest(p, m) \/ TakeBodies(p, m)
  BY <1>3, <1>6 DEF DropDigest, TakeBodies, Consume
<1> QED
  BY <1>4, <1>5, <1>6 DEF Recv

LEMMA RecvKeeps ==
  ASSUME Inv, NEW p \in Peers, NEW m \in net, Recv(p, m)
  PROVE  Inv'
<1>1. /\ net' \subseteq Message
      /\ \A k \in net' : k \in net \/ k.letters \subseteq Posted
  BY RecvEffect
<1>2. m.letters \subseteq Posted /\ m.letters \subseteq Letters
  BY DEF Inv, TypeOK, Message, AllPosted
<1>3. CASE DropDigest(p, m) \/ TakeHead(p, m)
  <2>1. UNCHANGED <<hdr, body, denied, removed, aged, rule, offers>>
    BY <1>3 DEF DropDigest, TakeHead
  <2>2. offers' \in [Peers -> 0..MaxOffers]
    BY <2>1 DEF Inv, TypeOK
  <2>3. body' = [body EXCEPT ![p] = @ \cup {}]
    BY <2>1, SameBodies
  <2>4. {} \in SUBSET Posted
    OBVIOUS
  <2> QED
    BY <1>1, <2>1, <2>2, <2>3, <2>4, KeepsHeaders
<1>4. CASE TakeBodies(p, m)
  <2>1. /\ body' = [body EXCEPT ![p] = @ \cup (m.letters \ Gone(p))]
        /\ UNCHANGED <<hdr, denied, removed, aged, rule, offers>>
    BY <1>4 DEF TakeBodies
  <2>2. offers' \in [Peers -> 0..MaxOffers]
    BY <2>1 DEF Inv, TypeOK
  <2>3. m.letters \ Gone(p) \in SUBSET Posted
    BY <1>2
  <2> QED
    BY <1>1, <2>1, <2>2, <2>3, KeepsHeaders
<1>5. CASE TakeDigest(p, m)
  <2> DEFINE new == m.letters \ Visible(p)
  <2>1. /\ hdr' = [hdr EXCEPT ![p] = @ \cup new]
        /\ ReplayOf(p, hdr[p] \cup new, body[p])
        /\ UNCHANGED <<body, removed, aged, offers>>
    BY <1>5 DEF TakeDigest
  <2>2. new \subseteq Posted /\ new \subseteq Letters
    BY <1>2
  <2> HIDE DEF new
  <2>3. hdr' \in [Peers -> SUBSET Letters] /\ hdr'[p] = hdr[p] \cup new
    BY <2>1, <2>2 DEF Inv, TypeOK
  <2>4. TypeOK'
    BY <1>1, <2>1, <2>3, ReplayEffect DEF Inv, TypeOK
  <2>5. denied'[p] \subseteq hdr'[p] /\ removed'[p] \subseteq hdr'[p]
    BY <2>1, <2>3, ReplayEffect DEF Inv, GoneIsStored
  <2>6. /\ \A n \in denied'[p] : n \in denied[p] \/ Author(n) # Owner
        /\ OwnersOnly => HasRule(rule'[p], hdr'[p], body'[p])
        /\ \A q \in Peers \ {p} : /\ denied'[q] = denied[q]
                                 /\ removed'[q] = removed[q]
                                 /\ rule'[q] = rule[q]
    BY <2>1, <2>3, ReplayEffect DEF Inv
  <2>7. body' = [body EXCEPT ![p] = @ \cup {}]
    BY <2>1, SameBodies
  <2>8. StepAt(p, new, {})
    BY <1>1, <2>1, <2>2, <2>4, <2>5, <2>6, <2>7 DEF StepAt
  <2> QED
    BY <2>8, Keeps
<1> QED
  BY <1>3, <1>4, <1>5 DEF Recv

LEMMA RefreshKeeps ==
  ASSUME Inv, NEW p \in Peers, Refresh(p)
  PROVE  Inv'
<1>1. /\ ReplayOf(p, hdr[p], body[p])
      /\ UNCHANGED <<hdr, body, removed, aged, net, offers>>
  BY DEF Refresh
<1>2. hdr' = [hdr EXCEPT ![p] = @ \cup {}]
  BY <1>1 DEF Inv, TypeOK
<1>3. TypeOK'
  BY <1>1, ReplayEffect DEF Inv, TypeOK
<1>4. denied'[p] \subseteq hdr'[p] /\ removed'[p] \subseteq hdr'[p]
  BY <1>1, ReplayEffect DEF Inv, GoneIsStored
<1>5. /\ \A n \in denied'[p] : n \in denied[p] \/ Author(n) # Owner
      /\ OwnersOnly => HasRule(rule'[p], hdr'[p], body'[p])
      /\ \A q \in Peers \ {p} : /\ denied'[q] = denied[q]
                               /\ removed'[q] = removed[q]
                               /\ rule'[q] = rule[q]
  BY <1>1, ReplayEffect DEF Inv
<1>6. body' = [body EXCEPT ![p] = @ \cup {}]
  BY <1>1, SameBodies
<1>7. StepAt(p, {}, {})
  BY <1>1, <1>2, <1>3, <1>4, <1>5, <1>6 DEF StepAt
<1> QED
  BY <1>7, Keeps

LEMMA RemoveKeeps ==
  ASSUME Inv, NEW p \in Peers, NEW n \in Letters, Remove(p, n)
  PROVE  Inv'
<1>1. /\ n \in hdr[p] /\ removed' = [removed EXCEPT ![p] = @ \cup {n}]
      /\ UNCHANGED <<hdr, body, denied, aged, rule, net, offers>>
  BY DEF Remove, Visible
<1>2. /\ removed' \in [Peers -> SUBSET Letters]
      /\ removed'[p] = removed[p] \cup {n}
      /\ \A q \in Peers \ {p} : removed'[q] = removed[q]
  BY <1>1 DEF Inv, TypeOK
<1>3. TypeOK'
  BY <1>1, <1>2 DEF Inv, TypeOK
<1>4. denied'[p] \subseteq hdr'[p] /\ removed'[p] \subseteq hdr'[p]
  BY <1>1, <1>2 DEF Inv, GoneIsStored
<1>5. hdr' = [hdr EXCEPT ![p] = @ \cup {}]
  BY <1>1 DEF Inv, TypeOK
<1>6. body' = [body EXCEPT ![p] = @ \cup {}]
  BY <1>1, SameBodies
<1>7. StepAt(p, {}, {})
  BY <1>1, <1>2, <1>3, <1>4, <1>5, <1>6 DEF StepAt, Inv, GoneIsStored
<1> QED
  BY <1>7, Keeps

LEMMA AgeKeeps ==
  ASSUME Inv, NEW p \in Peers, NEW n \in Letters, Age(p, n)
  PROVE  Inv'
<1>1. UNCHANGED <<hdr, body, denied, removed, rule, net, offers>>
  BY DEF Age
<1>2. aged' \in [Peers -> SUBSET Letters]
  BY DEF Age, Inv, TypeOK
<1>3. Posted' = Posted
  BY <1>1 DEF Posted
<1> QED
  BY <1>1, <1>2, <1>3
  DEF Inv, TypeOK, GoneIsStored, AllPosted, InSequence, RuleIsStored
LEMMA InitHolds == Init => Inv
<1> SUFFICES ASSUME Init PROVE Inv
  OBVIOUS
<1>1. TypeOK
  BY DEF Init, TypeOK, StartRule, Rule, Message
<1>2. Posted = {}
  BY DEF Init, Posted
<1> QED
  BY <1>1, <1>2
  DEF Inv, Init, GoneIsStored, AllPosted, InSequence, RuleIsStored, HasRule

\* What the actors do, and time
StepOf(p) ==
  User(p) \/ Exchange(p) \/ Refresh(p) \/ (\E n \in Letters : Age(p, n))

LEMMA StepKeeps == Inv /\ [Next]_vars => Inv'
<1> SUFFICES ASSUME Inv, [Next]_vars PROVE Inv'
  OBVIOUS
<1>1. CASE UNCHANGED vars
  <2>1. Posted' = Posted
    BY <1>1 DEF vars, Posted
  <2> QED
    BY <1>1, <2>1 DEF Inv, TypeOK, GoneIsStored, AllPosted, InSequence,
                      RuleIsStored, vars
<1>2. ASSUME NEW p \in Peers, StepOf(p) PROVE Inv'
  <2>1. CASE User(p)
    BY <2>1, PostKeeps, RemoveKeeps DEF User
  <2>2. CASE Exchange(p)
    BY <2>2, OfferKeeps, RecvKeeps DEF Exchange
  <2>3. CASE Refresh(p)
    BY <2>3, RefreshKeeps
  <2>4. CASE \E n \in Letters : Age(p, n)
    BY <2>4, AgeKeeps
  <2> QED
    BY <1>2, <2>1, <2>2, <2>3, <2>4 DEF StepOf
<1> QED
  BY <1>1, <1>2 DEF Next, StepOf

LEMMA Invariance == Spec => []Inv
BY InitHolds, StepKeeps, PTL DEF Spec

-----------------------------------------------------------------------------
(* The theorems.                                                           *)

\* The state of the peers and the messages have their types.
THEOREM MailTypes == Spec => []TypeOK
BY Invariance, PTL DEF Inv

\* What a step sends: letters that are shown or readable there, or new ones.
LEMMA StepSends ==
  ASSUME Inv, NEW p \in Peers, StepOf(p), NEW m \in net', m \notin net,
         m.type \in {"DIG", "EML"}
  PROVE  /\ m.from = p
         /\ m.letters \cap (denied[p] \cup removed[p]) = {}
<1>1. CASE User(p)
  <2>1. PICK n \in Letters : Post(p, n)
    BY <1>1 DEF User, Remove
  <2>2. n \notin Posted /\ m.from = p /\ m.letters \subseteq {n}
    BY <2>1, PostEffect DEF InTurn, Sends
  <2>3. denied[p] \cup removed[p] \subseteq Posted
    BY PostedLetters DEF Inv, GoneIsStored
  <2> QED
    BY <2>2, <2>3
<1>2. CASE Exchange(p)
  <2>1. ASSUME NEW q \in Peers, Offer(p, q)
        PROVE  m.from = p /\ m.letters \subseteq Visible(p)
    BY <2>1, OfferEffect DEF Sends
  <2>2. ASSUME NEW k \in net, Recv(p, k)
        PROVE  m.from = p /\ m.letters \subseteq Readable(p)
    BY <2>2, RecvEffect
  <2> QED
    BY <1>2, <2>1, <2>2 DEF Exchange, Visible, Readable, Gone
<1>3. CASE Refresh(p) \/ \E n \in Letters : Age(p, n)
  BY <1>3 DEF Refresh, Age
<1> QED
  BY <1>1, <1>2, <1>3 DEF StepOf

\* No digest and no body of a letter on the delete list leaves a peer.
THEOREM StaysHere == Spec => DeletedStaysHere
<1>1. Inv /\ [Next]_vars
      => [\A m \in net' \ net :
            m.type \in {"DIG", "EML"} =>
              m.letters \cap (denied[m.from] \cup removed[m.from]) = {}]_vars
  <2> SUFFICES ASSUME Inv, Next, NEW m \in net' \ net,
                      m.type \in {"DIG", "EML"}
               PROVE  m.letters \cap (denied[m.from] \cup removed[m.from]) = {}
    BY DEF vars
  <2>1. PICK p \in Peers : StepOf(p)
    BY DEF Next, StepOf
  <2> QED
    BY <2>1, StepSends
<1> QED
  BY <1>1, Invariance, PTL DEF Spec, DeletedStaysHere

\* What a step does to the delete list: nothing, or what a replay does
LEMMA StepDenies ==
  ASSUME Inv, NEW p \in Peers, StepOf(p)
  PROVE  \/ denied' = denied
         \/ ReplayOf(p, hdr'[p], body'[p]) /\ UNCHANGED <<removed, aged>>
<1>1. ASSUME NEW n \in Letters, Post(p, n)
      PROVE  \/ denied' = denied
             \/ ReplayOf(p, hdr'[p], body'[p]) /\ UNCHANGED <<removed, aged>>
  <2>1. CASE PostLetter(p, n) \/ PostQuietly(p, n) \/ PostRule(p, n)
    BY <2>1 DEF PostLetter, PostQuietly, PostRule
  <2>2. CASE AddUser(p, n)
    <3>1. hdr'[p] = hdr[p] \cup {n} /\ body'[p] = body[p] \cup {n}
      BY <2>2, StoreTypes DEF AddUser, Inv
    <3> QED
      BY <2>2, <3>1 DEF AddUser
  <2> QED
    BY <1>1, <2>1, <2>2 DEF Post
<1>2. ASSUME NEW m \in net, Recv(p, m)
      PROVE  \/ denied' = denied
             \/ ReplayOf(p, hdr'[p], body'[p]) /\ UNCHANGED <<removed, aged>>
  <2>1. CASE TakeDigest(p, m)
    <3>1. hdr'[p] = hdr[p] \cup (m.letters \ Visible(p)) /\ body'[p] = body[p]
      BY <2>1 DEF TakeDigest, Inv, TypeOK
    <3> QED
      BY <2>1, <3>1 DEF TakeDigest
  <2>2. CASE DropDigest(p, m) \/ TakeHead(p, m) \/ TakeBodies(p, m)
    BY <2>2 DEF DropDigest, TakeHead, TakeBodies
  <2> QED
    BY <1>2, <2>1, <2>2 DEF Recv
<1>3. CASE User(p)
  BY <1>1, <1>3 DEF User, Remove
<1>4. CASE Exchange(p)
  BY <1>2, <1>4 DEF Exchange, Offer
<1>5. CASE Refresh(p) \/ \E n \in Letters : Age(p, n)
  BY <1>5 DEF Refresh, Age
<1> QED
  BY <1>3, <1>4, <1>5 DEF StepOf

\* A replay that denies what the whole log allows misses a control letter.
LEMMA ReplayHasGap ==
  ASSUME Inv, Inv', NEW p \in Peers, ReplayOf(p, hdr'[p], body'[p]),
         UNCHANGED <<removed, aged>>,
         NEW n \in denied'[p] \ denied[p], AllowedByAll(n)'
  PROVE  \E k \in Controls \cap Posted' : k < n /\ Misses(p, k)'
<1> DEFINE seen == (hdr'[p] \ Gone(p)) \ aged[p]
<1>1. denied'[p] = denied[p] \cup Replay(seen, body'[p]).denied
  <2>1. denied' = [denied EXCEPT ![p] = @ \cup Replay(seen, body'[p]).denied]
    BY DEF ReplayOf
  <2> QED
    BY <2>1 DEF Inv, TypeOK
<1>2. n \in Replay(seen, body'[p]).denied
  BY <1>1
<1>3. seen \in SUBSET Posted'
  BY DEF Posted
<1>4. n \notin Replay(Posted', Posted').denied
  BY DEF AllowedByAll
<1>5. \A k : k \in (hdr'[p] \cap body'[p]) \ (Gone(p)' \cup aged'[p])
               => k \in seen /\ k \in body'[p]
  BY <1>1 DEF Gone
<1> DEFINE all == Posted'
           read == body'[p]
<1> HIDE DEF seen, all, read
<1>6. Missed(n, all, seen, read)
  <2>1. seen \subseteq all /\ n \in Replay(seen, read).denied
    BY <1>2, <1>3 DEF all, read
  <2>2. n \notin Replay(all, all).denied
    BY <1>4 DEF all
  <2> QED
    BY <2>1, <2>2, DenialNeedsMiss
<1> QED
  BY <1>5, <1>6 DEF Missed, Misses, all, read

\* The rule that denied a letter was not the one of the whole log.
THEOREM DenialHasGap == Spec => DenialNeedsGap
<1>1. Inv /\ Inv' /\ [Next]_vars
      => [\A p \in Peers : \A n \in denied'[p] \ denied[p] :
            AllowedByAll(n)' =>
              \E k \in Controls \cap Posted' : k < n /\ Misses(p, k)']_vars
  <2> SUFFICES ASSUME Inv, Inv', Next, NEW p \in Peers,
                      NEW n \in denied'[p] \ denied[p], AllowedByAll(n)'
               PROVE  \E k \in Controls \cap Posted' : k < n /\ Misses(p, k)'
    BY DEF vars
  <2>1. PICK q \in Peers : StepOf(q)
    BY DEF Next, StepOf
  <2>2. ReplayOf(q, hdr'[q], body'[q]) /\ UNCHANGED <<removed, aged>>
    BY <2>1, StepDenies
  <2>3. \A o \in Peers \ {q} : denied'[o] = denied[o]
    BY <2>2, ReplayEffect DEF Inv
  <2>4. p = q
    BY <2>3
  <2> QED
    BY <2>2, <2>4, ReplayHasGap
<1> QED
  BY <1>1, StepKeeps, Invariance, PTL DEF Spec, DenialNeedsGap

\* A control letter's number is the rank of its rule.
LEMMA RankOf ==
  ASSUME OwnersRules, NEW j \in Controls
  PROVE  Rank(Named(j)) = j
<1> DEFINE Latest(n) == /\ n = 0 \/ Named(n) = Named(j)
                        /\ \A k \in Controls : Named(k) = Named(j) => k <= n
<1>1. Controls \subseteq 1..N
  BY DEF Controls, Letters
<1>2. j \in {0} \cup Controls /\ Latest(j)
  BY <1>1 DEF OwnersRules
<1>3. ASSUME NEW n \in {0} \cup Controls, Latest(n) PROVE n = j
  <2>1. j <= n
    BY <1>3
  <2>2. n \in Controls /\ Named(n) = Named(j)
    BY <1>1, <1>3, <2>1
  <2> QED
    BY <2>2 DEF OwnersRules
<1>4. Rank(Named(j)) = CHOOSE n \in {0} \cup Controls : Latest(n)
  BY DEF Rank
<1> HIDE DEF Latest
<1> QED
  BY <1>2, <1>3, <1>4

LEMMA RankOfStart == Rank(StartRule) = 0
<1> DEFINE Latest(n) == /\ n = 0 \/ Named(n) = StartRule
                        /\ \A k \in Controls : Named(k) = StartRule => k <= n
<1>1. \A n : Named(n) # StartRule
  BY DEF Named, StartRule
<1>2. 0 \in {0} \cup Controls /\ Latest(0)
  BY <1>1
<1>3. \A n \in {0} \cup Controls : Latest(n) => n = 0
  BY <1>1
<1>4. Rank(StartRule) = CHOOSE n \in {0} \cup Controls : Latest(n)
  BY DEF Rank
<1> HIDE DEF Latest
<1> QED
  BY <1>2, <1>3, <1>4

\* What a step does to the rule: nothing, what a replay does, or a new rule
LEMMA StepRules ==
  ASSUME Inv, NEW p \in Peers, StepOf(p)
  PROVE  \/ rule' = rule
         \/ ReplayOf(p, hdr'[p], body'[p]) /\ UNCHANGED <<removed, aged>>
         \/ \E n \in Letters : PostRule(p, n)
<1>1. ASSUME NEW n \in Letters, Post(p, n)
      PROVE  \/ rule' = rule
             \/ ReplayOf(p, hdr'[p], body'[p]) /\ UNCHANGED <<removed, aged>>
             \/ PostRule(p, n)
  <2>1. CASE PostLetter(p, n) \/ PostQuietly(p, n) \/ PostRule(p, n)
    BY <2>1 DEF PostLetter, PostQuietly
  <2>2. CASE AddUser(p, n)
    <3>1. hdr'[p] = hdr[p] \cup {n} /\ body'[p] = body[p] \cup {n}
      BY <2>2, StoreTypes DEF AddUser, Inv
    <3> QED
      BY <2>2, <3>1 DEF AddUser
  <2> QED
    BY <1>1, <2>1, <2>2 DEF Post
<1>2. ASSUME NEW m \in net, Recv(p, m)
      PROVE  \/ rule' = rule
             \/ ReplayOf(p, hdr'[p], body'[p]) /\ UNCHANGED <<removed, aged>>
  <2>1. CASE TakeDigest(p, m)
    <3>1. hdr'[p] = hdr[p] \cup (m.letters \ Visible(p)) /\ body'[p] = body[p]
      BY <2>1 DEF TakeDigest, Inv, TypeOK
    <3> QED
      BY <2>1, <3>1 DEF TakeDigest
  <2>2. CASE DropDigest(p, m) \/ TakeHead(p, m) \/ TakeBodies(p, m)
    BY <2>2 DEF DropDigest, TakeHead, TakeBodies
  <2> QED
    BY <1>2, <2>1, <2>2 DEF Recv
<1>3. CASE User(p)
  BY <1>1, <1>3 DEF User, Remove
<1>4. CASE Exchange(p)
  BY <1>2, <1>4 DEF Exchange, Offer
<1>5. CASE Refresh(p) \/ \E n \in Letters : Age(p, n)
  BY <1>5 DEF Refresh, Age
<1> QED
  BY <1>3, <1>4, <1>5 DEF StepOf

LEMMA HeldGrows ==
  ASSUME Inv, NEW p \in Peers, StepOf(p)
  PROVE  \A q \in Peers : hdr[q] \subseteq hdr'[q] /\ body[q] \subseteq body'[q]
<1>1. ASSUME NEW n \in Letters, Post(p, n)
      PROVE  \A q \in Peers : hdr[q] \subseteq hdr'[q] /\ body[q] \subseteq body'[q]
  <2>1. Store(p, n)
    BY <1>1, PostEffect
  <2> QED
    BY <2>1 DEF Store, Inv, TypeOK
<1>2. ASSUME NEW m \in net, Recv(p, m)
      PROVE  \A q \in Peers : hdr[q] \subseteq hdr'[q] /\ body[q] \subseteq body'[q]
  BY <1>2 DEF Recv, DropDigest, TakeDigest, TakeHead, TakeBodies, Inv, TypeOK
<1>3. CASE User(p)
  BY <1>1, <1>3 DEF User, Remove
<1>4. CASE Exchange(p)
  BY <1>2, <1>4 DEF Exchange, Offer
<1>5. CASE Refresh(p) \/ \E n \in Letters : Age(p, n)
  BY <1>5 DEF Refresh, Age
<1> QED
  BY <1>3, <1>4, <1>5 DEF StepOf

\* A replay finds the rule in force or one that is newer, if it sees the letter
\* that made the rule.
LEMMA ReplayAdvances ==
  ASSUME Inv, OwnersRules, NEW p \in Peers, ReplayOf(p, hdr'[p], body'[p]),
         Rank(rule[p]) \notin removed[p] \cup aged[p],
         hdr[p] \subseteq hdr'[p], body[p] \subseteq body'[p]
  PROVE  Rank(rule'[p]) >= Rank(rule[p])
<1> DEFINE seen == (hdr'[p] \ Gone(p)) \ aged[p]
<1>1. OwnersOnly
  BY DEF OwnersRules, OwnersOnly
<1>2. HasRule(rule[p], hdr[p], body[p])
  BY <1>1 DEF Inv, RuleIsStored
<1>3. rule'[p] = Replay(seen, body'[p]).rule
  <2>1. rule' = [rule EXCEPT ![p] = Replay(seen, body'[p]).rule]
    BY DEF ReplayOf
  <2> QED
    BY <2>1 DEF Inv, TypeOK
<1>4. \A k \in Controls : /\ k \in hdr[p] /\ k \in body[p]
                           /\ k \notin removed[p] \cup aged[p]
                           => InForce(k, seen, body'[p])
  BY <1>1 DEF OwnersOnly, InForce, Gone, Inv, GoneIsStored
<1> HIDE DEF seen
<1>5. \/ /\ rule'[p] = StartRule
         /\ \A k \in Controls : ~InForce(k, seen, body'[p])
      \/ \E j \in Controls :
           /\ rule'[p] = Named(j)
           /\ \A k \in Controls : InForce(k, seen, body'[p]) => k <= j
  BY <1>1, <1>3, ReplayRule DEF OwnersOnly
<1>6. Controls \subseteq 1..N
  BY DEF Controls, Letters
<1>7. CASE rule[p] = StartRule
  <2>1. rule'[p] = StartRule \/ \E j \in Controls : rule'[p] = Named(j)
    BY <1>5
  <2>2. Rank(rule'[p]) \in 0..N
    BY <1>6, <2>1, RankOf, RankOfStart
  <2> QED
    BY <1>7, <2>2, RankOfStart
<1>8. ASSUME NEW k \in Controls, k \in hdr[p], k \in body[p],
             rule[p] = Named(k)
      PROVE  Rank(rule'[p]) >= Rank(rule[p])
  <2>1. Rank(rule[p]) = k
    BY <1>8, RankOf
  <2>2. InForce(k, seen, body'[p])
    BY <1>4, <1>8, <2>1
  <2>3. PICK j \in Controls : rule'[p] = Named(j) /\ k <= j
    BY <1>5, <2>2
  <2>4. Rank(rule'[p]) = j
    BY <2>3, RankOf
  <2> QED
    BY <1>6, <2>1, <2>3, <2>4
<1> QED
  BY <1>2, <1>7, <1>8 DEF HasRule

\* A rule that is posted is newer than the one in force.
LEMMA PostAdvances ==
  ASSUME Inv, OwnersRules, NEW p \in Peers, NEW n \in Letters, PostRule(p, n)
  PROVE  Rank(rule'[p]) >= Rank(rule[p])
<1>1. OwnersOnly
  BY DEF OwnersRules, OwnersOnly
<1>2. HasRule(rule[p], hdr[p], body[p])
  BY <1>1 DEF Inv, RuleIsStored
<1>3. n \in Controls /\ n \notin Posted /\ rule'[p] = Named(n)
  BY DEF PostRule, Controls, InTurn, Inv, TypeOK
<1>4. Controls \subseteq 1..N
  BY DEF Controls, Letters
<1>5. Rank(rule'[p]) = n
  BY <1>3, RankOf
<1>6. CASE rule[p] = StartRule
  BY <1>3, <1>4, <1>5, <1>6, RankOfStart
<1>7. ASSUME NEW k \in Controls, k \in hdr[p], rule[p] = Named(k)
      PROVE  Rank(rule'[p]) >= Rank(rule[p])
  <2>1. k \in Posted
    BY <1>7, PostedLetters DEF Inv
  <2>2. Author(k) = Author(n)
    BY <1>1, <1>3 DEF OwnersOnly
  <2>3. n \notin 1..(k - 1)
    BY <1>3, <2>1, <2>2 DEF Inv, InSequence
  <2>4. n >= k
    BY <1>3, <1>4, <2>3
  <2> QED
    BY <1>5, <1>7, <2>4, RankOf
<1> QED
  BY <1>2, <1>6, <1>7 DEF HasRule

\* The rule of a peer does not fall back to an older one as long as the letter
\* it comes from is neither deleted nor older than 31 days.
THEOREM RulesAdvance == Spec => RuleNeverGoesBack
<1>1. Inv /\ Inv' /\ [Next]_vars
      => [\A p \in Peers :
            OwnersRules /\ rule'[p] # rule[p] =>
              \/ Rank(rule'[p]) >= Rank(rule[p])
              \/ Rank(rule[p]) \in removed'[p] \cup aged'[p]]_vars
  <2> SUFFICES ASSUME Inv, Inv', Next, OwnersRules, NEW p \in Peers,
                      rule'[p] # rule[p],
                      Rank(rule[p]) \notin removed'[p] \cup aged'[p]
               PROVE  Rank(rule'[p]) >= Rank(rule[p])
    BY DEF vars
  <2>1. PICK q \in Peers : StepOf(q)
    BY DEF Next, StepOf
  <2>2. ASSUME ReplayOf(q, hdr'[q], body'[q]), UNCHANGED <<removed, aged>>,
               p = q
        PROVE  Rank(rule'[p]) >= Rank(rule[p])
    BY <2>1, <2>2, HeldGrows, ReplayAdvances
  <2>3. ASSUME NEW n \in Letters, PostRule(q, n), p = q
        PROVE  Rank(rule'[p]) >= Rank(rule[p])
    BY <2>3, PostAdvances
  <2>4. p # q => rule'[p] = rule[p]
    <3>1. CASE \E n \in Letters : PostRule(q, n)
      BY <3>1 DEF PostRule, Inv, TypeOK
    <3>2. CASE ReplayOf(q, hdr'[q], body'[q])
      BY <3>2 DEF ReplayOf, Inv, TypeOK
    <3> QED
      BY <2>1, <3>1, <3>2, StepRules
  <2> QED
    BY <2>1, <2>2, <2>3, <2>4, StepRules
<1> QED
  BY <1>1, StepKeeps, Invariance, PTL DEF Spec, RuleNeverGoesBack
=============================================================================
