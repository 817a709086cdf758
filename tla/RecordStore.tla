---------------------------- MODULE RecordStore -----------------------------
(***************************************************************************)
(* A file of records: save_bin, get_bin, find_bin and del_bin, which keep  *)
(* the mail, its delete list, the chat histories, the known peers and the  *)
(* own identity.  A record is a head (time, key, a byte that says whether  *)
(* it is deleted, length of the value) and the parts of its value; nothing *)
(* marks where it begins or ends, so a reader finds a record only by       *)
(* having read the one before it.  A crash, or a full disk (save_bin       *)
(* catches the errors of flush and close), leaves the first part of what   *)
(* was to be appended, and del_bin leaves a stray byte: its w_byte goes    *)
(* where the channel stands when it is flushed, the end of the file.       *)
(*                                                                         *)
(* A head may be torn before its key is complete (noise), between the key  *)
(* and the byte (a "bare" key), or after the byte (a "stub").  Of a stub   *)
(* get_bin finds the key with an empty value.  A bare key is not found     *)
(* until another save appends its first byte, which is 0 in a time of 8    *)
(* bytes and counts as the byte that is missing.                           *)
(***************************************************************************)
EXTENDS Integers, FiniteSets, Sequences

CONSTANTS
  Keys, Values,
  Size,       \* Size[v]: the parts of a value
  None,       \* no record of a key
  Broken,     \* a value read from a record that was not written whole
  MaxCells    \* bound: the length of the file from which no save begins

ASSUME StoreAssumption ==
  /\ Size \in [Values -> Nat] /\ Values # {}
  /\ None \notin Values /\ Broken \notin Values /\ None # Broken
  /\ MaxCells \in Nat

VARIABLES
  file,     \* the cells of the file
  saving,   \* save_bin is at work
  todo,     \* its array tmp: the values still to be written, by key
  due,      \* history: the keys of this save, if the file was sound before
  kept      \* history: the keys of the saves of a sound file that came to
            \* their end

vars == <<file, saving, todo, due, kept>>

HeadOf(k, v)    == [kind |-> "head", key |-> k, val |-> v, at |-> 0]
PartOf(k, v, n) == [kind |-> "part", key |-> k, val |-> v, at |-> n]

\* What is left of a head or a part that was written in part
BareOf(k) == [kind |-> "bare", key |-> k]
StubOf(k) == [kind |-> "stub", key |-> k]
Noise     == [kind |-> "noise"]

\* The byte of del_bin, which is not 0
Mark == [kind |-> "mark"]

Cell == [kind : {"head", "part"}, key : Keys, val : Values, at : Nat]
          \cup [kind : {"bare", "stub"}, key : Keys] \cup {Noise, Mark}

NoTodo == [k \in {} |-> None]

TypeOK ==
  /\ file \in Seq(Cell)
  /\ saving \in BOOLEAN
  /\ DOMAIN todo \subseteq Keys /\ todo \in [DOMAIN todo -> Values]
  /\ due \subseteq Keys /\ kept \subseteq Keys

Init ==
  /\ file = <<>>
  /\ saving = FALSE
  /\ todo = NoTodo
  /\ due = {} /\ kept = {}

-----------------------------------------------------------------------------
(* Reading.                                                                *)

\* Where a record begins that is written at least up to its key.
Starts(f) == {i \in 1..Len(f) : f[i].kind \in {"head", "bare", "stub"}}

\* Where a reader that has read the record at i goes on.
After(f, i) == i + 1 + Size[f[i].val]

\* A reader starts at 1 and goes from record to record.  Behind a head that was
\* torn, and wherever it meets what is no head, it takes bytes of a time, a key
\* or a text for lengths and keys: mostly for a length of more than the file
\* holds.  Assumed is that it finds no key of ours among them and does not
\* come upon the beginning of a later record by chance.
Closed(f, S) ==
  /\ 1 \in Starts(f) => 1 \in S
  /\ \A i \in S :
       f[i].kind = "head" /\ After(f, i) \in Starts(f) => After(f, i) \in S

\* The records a reader meets,
Met(f) ==
  {i \in Starts(f) : \A S \in SUBSET Starts(f) : Closed(f, S) => i \in S}

\* and those it takes for records that are not deleted.
Seen(f) ==
  {i \in Met(f) :
     f[i].kind = "bare" => i < Len(f) /\ f[i + 1].kind # "mark"}

\* The value at i is whole if the cells that follow are its own, and broken
\* if they are missing or another record's.
Whole(f, i) ==
  LET n == Size[f[i].val] IN
  /\ f[i].kind = "head"
  /\ i + n <= Len(f)
  /\ \A j \in 1..n : f[i + j] = PartOf(f[i].key, f[i].val, j)

SeenOf(f, k) == {i \in Seen(f) : f[i].key = k}

\* get_bin takes the first record of a key.
First(f, k) == CHOOSE i \in SeenOf(f, k) : \A j \in SeenOf(f, k) : i <= j

Get(f, k) ==
  IF SeenOf(f, k) = {} THEN None
  ELSE IF Whole(f, First(f, k)) THEN f[First(f, k)].val ELSE Broken

\* A reader gets to the end of the file.
Sound(f) ==
  \/ f = <<>>
  \/ \E i \in Seen(f) : f[i].kind = "head" /\ After(f, i) = Len(f) + 1

-----------------------------------------------------------------------------
(* Writing.                                                                *)

\* Mutant of Appended: the file is opened with w.
AppendedAnew(f, cells) == cells

\* save_bin opens the file with a.
Appended(f, cells) == f \o cells

\* The parts of a record that were written when n of them were.
Parts(k, v, n) == [j \in 1..n |-> PartOf(k, v, j)]

\* Mutant of Missing: a broken entry is written again.
MissingOrBroken(S) == {k \in S : Get(file, k) \in {None, Broken}}

\* Mutant of Missing: one key that is there keeps the others out.
MissingOrNone(S) == IF \E k \in S : SeenOf(file, k) # {} THEN {} ELSE S

\* save_bin drops the keys get_bin finds.
Missing(S) == {k \in S : SeenOf(file, k) = {}}

BeginSave(S, new) ==
  /\ ~saving /\ Len(file) < MaxCells
  /\ saving' = TRUE
  /\ todo' = [k \in Missing(S) |-> new[k]]
  /\ due' = IF Sound(file) THEN S ELSE {}
  /\ UNCHANGED <<file, kept>>

\* The records are written in the order of an array, which is any order.
WriteRecord(k) ==
  /\ k \in DOMAIN todo
  /\ file' = Appended(file, <<HeadOf(k, todo[k])>> \o
                              Parts(k, todo[k], Size[todo[k]]))
  /\ todo' = [l \in DOMAIN todo \ {k} |-> todo[l]]
  /\ UNCHANGED <<saving, due, kept>>

EndSave ==
  /\ saving /\ DOMAIN todo = {}
  /\ saving' = FALSE
  /\ due' = {}
  /\ kept' = kept \cup due
  /\ UNCHANGED <<file, todo>>

\* The program ends, or the disk is full: the rest of the save is not on it.
StopSave(cells) ==
  /\ saving
  /\ file' = Appended(file, cells)
  /\ saving' = FALSE
  /\ todo' = NoTodo
  /\ due' = {}
  /\ UNCHANGED kept

\* The last cell that is written may be written in part.
TearHead(k) ==
  \/ StopSave(<<Noise>>)
  \/ StopSave(<<BareOf(k)>>)
  \/ StopSave(<<StubOf(k)>>)

TearValue(k, n) ==
  \/ StopSave(<<HeadOf(k, todo[k])>> \o Parts(k, todo[k], n))
  \/ StopSave(<<HeadOf(k, todo[k])>> \o Parts(k, todo[k], n) \o <<Noise>>)

Tear ==
  \/ StopSave(<<>>)
  \/ \E k \in DOMAIN todo :
       \/ TearHead(k)
       \/ \E n \in 0..(Size[todo[k]] - 1) : TearValue(k, n)

\* del_bin of a key it finds, deleted or not; after its byte it reads on in
\* the wrong place.
Delete(k) ==
  /\ ~saving /\ Len(file) < MaxCells
  /\ \E i \in Met(file) : file[i].key = k
  /\ file' = Appended(file, <<Mark>>)
  /\ UNCHANGED <<saving, todo, due, kept>>

Next ==
  \/ \E S \in SUBSET Keys, new \in [Keys -> Values] :
       S # {} /\ BeginSave(S, new)
  \/ \E k \in Keys : WriteRecord(k)
  \/ EndSave
  \/ Tear
  \/ \E k \in Keys : Delete(k)

Spec == Init /\ [][Next]_vars

-----------------------------------------------------------------------------
(* Properties.                                                             *)

\* find_bin, which does not look for doubles, returns a key once, whatever
\* was torn, filled up by later records and saved again.
OncePerKey ==
  \A i, j \in Seen(file) : file[i].key = file[j].key => i = j

Store == INSTANCE KeyStore WITH entry <- [k \in Keys |-> Get(file, k)]

\* The file keeps the promise of KeyStore: what a key's first record says is
\* what it says for good, though later records fill up one that was torn.
KeepsTheFirst == Store!Spec

\* What was saved without an interruption, in a file that could be read to
\* its end, has an entry ever after, whatever happens to the file later.
SavedIsThere == \A k \in kept : Get(file, k) # None
=============================================================================
