-------------------------------- MODULE Delta --------------------------------
(***************************************************************************)
(* delta.tcl: the difference between two texts as a list of hunks, and the *)
(* text that a difference makes of another.  A text is the sequence of its *)
(* lines; a checksum of a line is the line.                                *)
(*                                                                         *)
(* A hunk drops lines of the old text from a place on and adds lines of    *)
(* the new one there: the "d" and the "a" command that delta writes one    *)
(* after the other for one place.                                          *)
(***************************************************************************)
EXTENDS Integers, SequencesExt

CONSTANT MaxHair   \* how many lines are compared with one, 1024

ASSUME DeltaAssumption == MaxHair \in Nat \ {0}

Shorter(f, t) == Min({Len(f), Len(t)})

\* Where the pieces that begin with the line i of f have to end
Limit(f, t, i) == Min({Shorter(f, t), i + MaxHair})

\* How many lines the texts have in common from the lines i of f and j of t
\* on.  Lines are counted from 0.
Common(f, t, i, j) ==
  Max({n \in 0..(Limit(f, t, i) - j) :
         \A k \in 1..n : f[i + k] = t[j + k]})

\* Where delta looks in t for the line i of f: not before the line i.
Candidates(f, t, i) ==
  {j \in i..(Limit(f, t, i) - 1) : f[i + 1] = t[j + 1]}

\* Of the pieces that begin with a line of f, the last of the list sorted by
\* decreasing length counts.  Which comes last of those of the shortest
\* length is up to the order of a Tcl array.
Chosen(f, t, i) ==
  {j \in Candidates(f, t, i) :
     \A k \in Candidates(f, t, i) : Common(f, t, i, j) <= Common(f, t, i, k)}

Found(f, t) ==
  {i \in 0..(Shorter(f, t) - 1) : Candidates(f, t, i) # {}}

\* The lines of f where a common piece begins; the first and the last are
\* there in any case (clear_unique).
Cuts(f, t) == Found(f, t) \cup {0, Len(f)}

\* The piece of f and t that begins at the line i of f.
Piece(f, t, i, start) ==
  IF i = Len(f) THEN [f |-> i, t |-> Len(t), length |-> 0]
  ELSE IF i \in DOMAIN start
    THEN [f |-> i, t |-> start[i], length |-> Common(f, t, i, start[i])]
  ELSE [f |-> 0, t |-> 0, length |-> 0]

\* What lies between the piece before, which ends at done.f and done.t, and
\* the piece p.  The pieces may overlap.
Hunk(f, t, done, p) ==
  [at |-> done.f, drop |-> Max({0, p.f - done.f}),
   add |-> SubSeq(t, done.t + 1, p.t)]

\* The line i of f, with the hunk before the piece that begins there
Passed(f, t, start, done, i) ==
  LET p == Piece(f, t, i, start)
      h == Hunk(f, t, done, p)
  IN IF i \notin Cuts(f, t) THEN done
     ELSE [f |-> p.f + p.length, t |-> p.t + p.length,
           hunks |-> IF h.drop = 0 /\ h.add = <<>> THEN done.hunks
                     ELSE Append(done.hunks, h)]

NothingPassed == [f |-> 0, t |-> 0, hunks |-> <<>>]

Hunks(f, t, start) ==
  LET done[n \in 0..(Len(f) + 1)] ==
        IF n = 0 THEN NothingPassed
        ELSE Passed(f, t, start, done[n - 1], n - 1)
  IN done[Len(f) + 1].hunks

\* delta: the differences that it may return
Deltas(f, t) ==
  {Hunks(f, t, start) :
     start \in {s \in [Found(f, t) -> 0..Len(t)] :
                  \A i \in DOMAIN s : s[i] \in Chosen(f, t, i)}}

\* Lines of f are copied up to the place of a hunk, if it lies ahead.
Applied(f, done, h) ==
  [at |-> Max({done.at, h.at}) + h.drop,
   out |-> done.out \o SubSeq(f, done.at + 1, h.at) \o h.add]

NothingApplied == [at |-> 0, out |-> <<>>]

AllApplied(f, hunks) ==
  LET done[n \in 0..Len(hunks)] ==
        IF n = 0 THEN NothingApplied ELSE Applied(f, done[n - 1], hunks[n])
  IN done[Len(hunks)]

\* apply_delta
ApplyDelta(f, hunks) ==
  LET end == AllApplied(f, hunks) IN end.out \o SubSeq(f, end.at + 1, Len(f))
=============================================================================
