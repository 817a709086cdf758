----------------------------- MODULE DocHistory -----------------------------
(***************************************************************************)
(* What the versioned document of a group promises.  Its revisions form a  *)
(* tree that only grows.  Revision n continues from[n]; revision 0 is the  *)
(* document when it is new.  A member knows every revision that one it     *)
(* knows is built on, and all who look at a revision read the same text.   *)
(***************************************************************************)
EXTENDS Integers, Sequences

CONSTANT Peers

VARIABLES
  typed,   \* typed[n]: what the author of revision n had on the page
  text,    \* text[n]: what revision n reads
  from,    \* from[n]: the revision it was made of
  known,   \* known[p]: the revisions p has
  shown,   \* shown[p]: the revision p looks at
  page     \* page[p]: what it reads there

vars == <<typed, text, from, known, shown, page>>

TextOf(n, texts) == IF n = 0 THEN <<>> ELSE texts[n]

Lines(t) == {t[i] : i \in DOMAIN t}

Place(t, l) == CHOOSE i \in DOMAIN t : t[i] = l

NoLineTwice(t) == \A i, j \in DOMAIN t : t[i] = t[j] => i = j

\* From old to new no line moves past another, and none is there twice.
Orderly(old, new) ==
  /\ NoLineTwice(old) /\ NoLineTwice(new)
  /\ \A k, l \in Lines(old) \cap Lines(new) :
       Place(old, k) < Place(old, l) <=> Place(new, k) < Place(new, l)

Init ==
  /\ typed = <<>> /\ text = <<>> /\ from = <<>>
  /\ known = [p \in Peers |-> {}]
  /\ shown = [p \in Peers |-> 0]
  /\ page = [p \in Peers |-> <<>>]

Grows(s, t) == Len(t) = Len(s) + 1 /\ SubSeq(t, 1, Len(s)) = s

\* A new revision reads what was typed, if it is orderly.
Write(p) ==
  LET n == Len(text') IN
  /\ Grows(text, text') /\ Grows(typed, typed') /\ Grows(from, from')
  /\ from'[n] = shown[p]
  /\ Orderly(page[p], typed'[n]) => text'[n] = typed'[n]
  /\ known' = [known EXCEPT ![p] = @ \cup {n}]
  /\ shown' = [shown EXCEPT ![p] = n]
  /\ page' = [page EXCEPT ![p] = text'[n]]

\* What arrives leaves no gap and does not touch what is looked at.
Learn(p) ==
  /\ known[p] \subseteq known'[p]
  /\ \A n \in known'[p] :
       n \in 1..Len(text) /\ from[n] \in known'[p] \cup {0}
  /\ known' = [known EXCEPT ![p] = known'[p]]
  /\ UNCHANGED <<typed, text, from, shown, page>>

Show(p) ==
  /\ shown'[p] \in known[p] \cup {0}
  /\ shown' = [shown EXCEPT ![p] = shown'[p]]
  /\ page' = [page EXCEPT ![p] = TextOf(shown'[p], text)]
  /\ UNCHANGED <<typed, text, from, known>>

Next == \E p \in Peers : Write(p) \/ Learn(p) \/ Show(p)

Spec == Init /\ [][Next]_vars
=============================================================================
