------------------------- MODULE RecordStoreProofs --------------------------
(***************************************************************************)
(* Proofs about RecordStore.  What a reader has met in a file it meets     *)
(* again when the file has grown (MetAgain), and of what was appended at   *)
(* once it meets at most the one record that starts it, and that only if   *)
(* no torn head is in its way (MetNew): the rest follows from these two.   *)
(***************************************************************************)
EXTENDS RecordStore, TLAPS

Begins(c) == c.kind \in {"head", "bare", "stub"}

\* A record, or what is left of one: it can only begin with the first cell,
\* and a part cannot be the first.
Piece(g) ==
  /\ g \in Seq(Cell)
  /\ \A j \in 1..Len(g) : Begins(g[j]) => j = 1
  /\ Len(g) > 0 => g[1].kind # "part"

\* A reader has met a head that was torn, and is out of step behind it.
Stuck(f) == \E i \in Met(f) : f[i].kind # "head"

LEMMA CellType ==
  ASSUME NEW f \in Seq(Cell), NEW i \in 1..Len(f)
  PROVE  /\ f[i] \in Cell
         /\ i \in Starts(f) => f[i].key \in Keys
         /\ f[i].kind = "head" => /\ f[i].key \in Keys /\ f[i].val \in Values
                                  /\ Size[f[i].val] \in Nat
                                  /\ After(f, i) \in Nat /\ After(f, i) > i
<1>1. f[i] \in Cell
  OBVIOUS
<1>2. i \in Starts(f) => f[i].key \in Keys
  BY <1>1 DEF Cell, Starts, Noise, Mark
<1>3. f[i].kind = "head" => f[i].key \in Keys /\ f[i].val \in Values
  BY <1>1 DEF Cell, Noise, Mark
<1>4. f[i].kind = "head" => Size[f[i].val] \in Nat
  BY <1>3, StoreAssumption
<1> QED
  BY <1>1, <1>2, <1>3, <1>4 DEF After

LEMMA Concat ==
  ASSUME NEW f \in Seq(Cell), NEW g \in Seq(Cell)
  PROVE  /\ f \o g \in Seq(Cell)
         /\ Len(f \o g) = Len(f) + Len(g)
         /\ \A i \in 1..Len(f) : (f \o g)[i] = f[i]
         /\ \A i \in 1..Len(g) : (f \o g)[Len(f) + i] = g[i]
         /\ \A i \in 1..Len(f) : After(f \o g, i) = After(f, i)
  BY DEF After

LEMMA StartsOfConcat ==
  ASSUME NEW f \in Seq(Cell), NEW g \in Seq(Cell)
  PROVE  \A i \in 1..Len(f) : i \in Starts(f \o g) <=> i \in Starts(f)
  BY Concat DEF Starts

LEMMA MetIndex ==
  ASSUME NEW f \in Seq(Cell)
  PROVE  Met(f) \subseteq Starts(f) /\ Met(f) \subseteq 1..Len(f)
  BY DEF Met, Starts

LEMMA MetClosed ==
  ASSUME NEW f \in Seq(Cell)
  PROVE  Closed(f, Met(f))
  BY DEF Met, Closed

\* A reader meets in a file that has grown what it met before, and no more up
\* to the old end.
LEMMA MetAgain ==
  ASSUME NEW f \in Seq(Cell), NEW g \in Seq(Cell), NEW i \in 1..Len(f)
  PROVE  i \in Met(f \o g) <=> i \in Met(f)
<1> DEFINE h == f \o g
<1>h. /\ h \in Seq(Cell) /\ Len(h) = Len(f) + Len(g)
      /\ Len(f) \in Nat /\ Len(g) \in Nat
      /\ \A j \in 1..Len(f) : h[j] = f[j]
  BY Concat
<1>1. ASSUME i \in Met(h)
      PROVE  i \in Met(f)
  <2>1. i \in Starts(f)
    BY <1>1, StartsOfConcat DEF Met
  <2>2. ASSUME NEW S \in SUBSET Starts(f), Closed(f, S)
        PROVE  i \in S
    <3> DEFINE T == S \cup {j \in Starts(h) : j > Len(f)}
    <3>1. T \in SUBSET Starts(h)
      BY StartsOfConcat DEF Starts
    <3>2. 1 \in Starts(h) => 1 \in T
      BY <2>2, StartsOfConcat, <1>h DEF Closed, Starts
    <3>3. ASSUME NEW j \in T, h[j].kind = "head", After(h, j) \in Starts(h)
          PROVE  After(h, j) \in T
      <4>1. CASE After(h, j) > Len(f)
        BY <4>1, <3>3
      <4>2. CASE ~(After(h, j) > Len(f))
        <5>1. j \in 1..Len(h) /\ After(h, j) \in Nat /\ After(h, j) > j
          BY <3>1, <3>3, <1>h, CellType DEF Starts
        <5>2. j \in 1..Len(f) /\ After(h, j) \in 1..Len(f)
          BY <5>1, <4>2, <1>h, <3>3 DEF Starts
        <5>3. j \in S /\ After(h, j) = After(f, j) /\ f[j].kind = "head"
          BY <3>3, <5>2, <1>h, Concat
        <5>4. After(f, j) \in Starts(f)
          BY <5>2, <5>3, <3>3, StartsOfConcat
        <5> QED
          BY <5>3, <5>4, <2>2 DEF Closed
      <4> QED
        BY <4>1, <4>2
    <3>4. Closed(h, T)
      BY <3>2, <3>3 DEF Closed
    <3>5. i \in T
      BY <1>1, <3>1, <3>4 DEF Met
    <3> QED
      BY <3>5, <1>h
  <2> QED
    BY <2>1, <2>2 DEF Met
<1>2. ASSUME i \in Met(f)
      PROVE  i \in Met(h)
  <2>1. i \in Starts(h)
    BY <1>2, StartsOfConcat DEF Met
  <2>2. ASSUME NEW S \in SUBSET Starts(h), Closed(h, S)
        PROVE  i \in S
    <3> DEFINE T == {j \in S : j <= Len(f)}
    <3>1. T \in SUBSET Starts(f)
      <4>1. ASSUME NEW j \in T
            PROVE  j \in Starts(f)
        <5>1. j \in Starts(h) /\ j \in 1..Len(f)
          BY <1>h DEF Starts
        <5> QED
          BY <5>1, StartsOfConcat
      <4> QED
        BY <4>1
    <3>2. 1 \in Starts(f) => 1 \in T
      BY <2>2, StartsOfConcat, <1>h DEF Closed, Starts
    <3>3. ASSUME NEW j \in T, f[j].kind = "head", After(f, j) \in Starts(f)
          PROVE  After(f, j) \in T
      <4>1. j \in 1..Len(f) /\ After(f, j) \in 1..Len(f)
        BY <3>1, <3>3 DEF Starts
      <4>2. After(h, j) = After(f, j) /\ h[j].kind = "head"
        BY <3>3, <4>1, <1>h, Concat
      <4>3. After(h, j) \in Starts(h)
        BY <4>1, <4>2, <3>3, StartsOfConcat
      <4> QED
        BY <4>1, <4>2, <4>3, <2>2 DEF Closed
    <3>4. Closed(f, T)
      BY <3>2, <3>3 DEF Closed
    <3> QED
      BY <1>2, <3>1, <3>4 DEF Met
  <2> QED
    BY <2>1, <2>2 DEF Met
<1> QED
  BY <1>1, <1>2

\* All records but the last one that a reader meets are whole up to their
\* values, and it goes from one to the next.
LEMMA InOrderMet ==
  ASSUME NEW f \in Seq(Cell), NEW i \in Met(f), NEW j \in Met(f), j < i
  PROVE  f[j].kind = "head" /\ After(f, j) <= i
<1> DEFINE Next1(x, y) == x < y => f[x].kind = "head" /\ After(f, x) <= y
           U == {y \in Met(f) : \A x \in Met(f) : Next1(x, y)}
<1>m. /\ Met(f) \subseteq Starts(f) /\ Met(f) \subseteq 1..Len(f)
      /\ Closed(f, Met(f))
  BY MetIndex, MetClosed
<1>1. 1 \in Starts(f) => 1 \in U
  BY <1>m DEF Closed
<1>2. ASSUME NEW y \in U, f[y].kind = "head", After(f, y) \in Starts(f)
      PROVE  After(f, y) \in U
  <2> DEFINE m == After(f, y)
             V == Met(f) \ {x \in Met(f) : y < x /\ x < m}
  <2>1. y \in Met(f) /\ m \in Met(f) /\ y \in Nat /\ m \in Nat /\ y < m
    BY <1>2, <1>m, CellType DEF Closed
  <2>2. 1 \in Starts(f) => 1 \in V
    BY <1>m, <2>1 DEF Closed
  <2>3. ASSUME NEW x \in V, f[x].kind = "head", After(f, x) \in Starts(f)
        PROVE  After(f, x) \in V
    <3>1. /\ x \in Met(f) /\ x \in Nat /\ After(f, x) \in Nat
          /\ After(f, x) > x /\ After(f, x) \in Met(f)
      BY <2>3, <1>m, CellType DEF Closed
    <3>2. CASE x < y
      <4>1. After(f, x) <= y
        BY <1>2, <3>1, <3>2
      <4> QED
        BY <2>1, <3>1, <4>1
    <3>3. CASE x = y
      BY <2>1, <3>3
    <3>4. CASE x > y
      <4>1. x >= m
        BY <2>1, <2>3, <3>1, <3>4
      <4> QED
        BY <2>1, <3>1, <4>1
    <3> QED
      BY <2>1, <3>1, <3>2, <3>3, <3>4
  <2>4. Closed(f, V) /\ V \in SUBSET Starts(f)
    BY <1>m, <2>2, <2>3 DEF Closed
  <2>5. \A x \in Met(f) : x \in V
    BY <2>4 DEF Met
  <2>6. ASSUME NEW x \in Met(f), x < m
        PROVE  f[x].kind = "head" /\ After(f, x) <= m
    <3>1. x \in Nat /\ ~(y < x)
      BY <1>m, <2>5, <2>6
    <3>2. CASE x = y
      BY <1>2, <2>1, <3>2
    <3>3. CASE x < y
      <4>1. f[x].kind = "head" /\ After(f, x) <= y
        BY <1>2, <3>3
      <4>2. After(f, x) \in Nat
        BY <1>m, <4>1, CellType
      <4> QED
        BY <2>1, <4>1, <4>2
    <3> QED
      BY <2>1, <3>1, <3>2, <3>3
  <2> QED
    BY <2>1, <2>6
<1>3. Closed(f, U) /\ U \in SUBSET Starts(f)
  BY <1>1, <1>2, <1>m DEF Closed
<1>4. i \in U
  BY <1>3 DEF Met
<1> QED
  BY <1>4

\* Of a piece that is appended a reader meets its head, if it gets there.
LEMMA MetNew ==
  ASSUME NEW f \in Seq(Cell), NEW g, Piece(g)
  PROVE  /\ Met(f \o g) \subseteq Met(f) \cup {Len(f) + 1}
         /\ Len(f) + 1 \in Met(f \o g)
              => Len(g) > 0 /\ Begins(g[1]) /\ ~Stuck(f)
<1> DEFINE h == f \o g
<1>0. g \in Seq(Cell)
  BY DEF Piece
<1>h. /\ h \in Seq(Cell) /\ Len(h) = Len(f) + Len(g)
      /\ Len(f) \in Nat /\ Len(g) \in Nat
      /\ \A i \in 1..Len(g) : h[Len(f) + i] = g[i]
      /\ \A i \in 1..Len(f) : h[i] = f[i]
  BY <1>0, Concat
<1>1. ASSUME NEW i \in Met(h)
      PROVE  /\ i \in Met(f) \cup {Len(f) + 1}
             /\ i = Len(f) + 1 => Len(g) > 0 /\ Begins(g[1])
  <2>1. i \in 1..Len(h) /\ Begins(h[i])
    BY <1>1 DEF Met, Starts, Begins
  <2>2. CASE i <= Len(f)
    <3>1. i \in 1..Len(f)
      BY <2>1, <2>2, <1>h
    <3>2. i \in Met(f)
      BY <3>1, <1>0, <1>1, MetAgain
    <3> QED
      BY <3>2, <2>2, <1>h
  <2>3. CASE i > Len(f)
    <3>1. i - Len(f) \in 1..Len(g) /\ i = Len(f) + (i - Len(f))
      BY <2>1, <2>3, <1>h
    <3>2. h[i] = g[i - Len(f)]
      BY <3>1, <1>h
    <3>3. i - Len(f) = 1
      BY <2>1, <3>1, <3>2 DEF Piece
    <3> QED
      BY <2>1, <3>1, <3>2, <3>3, <1>h
  <2> QED
    BY <2>1, <2>2, <2>3, <1>h
<1>2. ASSUME Len(f) + 1 \in Met(h), NEW j \in Met(f)
      PROVE  f[j].kind = "head"
  <2>1. j \in 1..Len(f)
    BY MetIndex
  <2>2. j \in Met(h) /\ j < Len(f) + 1
    BY <1>0, <2>1, MetAgain
  <2>3. h[j].kind = "head"
    BY <1>2, <1>h, <2>2, InOrderMet
  <2> QED
    BY <1>h, <2>1, <2>3
<1> QED
  BY <1>1, <1>2 DEF Stuck

MetOf(f, k) == {i \in Met(f) : f[i].key = k}

Once(f) == \A i, j \in Met(f) : f[i].key = f[j].key => i = j

\* The piece does not begin with a key that a reader has met, unless it does
\* not get there any more.
IsNew(f, g) ==
  Len(g) > 0 /\ Begins(g[1]) => MetOf(f, g[1].key) = {} \/ Stuck(f)

LEMMA OnceKept ==
  ASSUME NEW f \in Seq(Cell), NEW g, Piece(g), Once(f), IsNew(f, g)
  PROVE  Once(f \o g)
<1> DEFINE h == f \o g
<1>0. g \in Seq(Cell)
  BY DEF Piece
<1>h. /\ Len(f) \in Nat
      /\ \A i \in 1..Len(f) : h[i] = f[i]
      /\ Len(g) > 0 => h[Len(f) + 1] = g[1]
  BY <1>0, Concat
<1>1. ASSUME NEW i \in Met(h), NEW j \in Met(f), i = Len(f) + 1
      PROVE  h[i].key # h[j].key
  <2>1. Len(g) > 0 /\ Begins(g[1]) /\ ~Stuck(f)
    BY <1>1, MetNew
  <2>2. MetOf(f, g[1].key) = {}
    BY <2>1 DEF IsNew
  <2>3. f[j].key # g[1].key
    BY <2>2 DEF MetOf
  <2> QED
    BY <2>1, <2>3, <1>1, <1>h, MetIndex
<1>2. ASSUME NEW i \in Met(f), NEW j \in Met(f), h[i].key = h[j].key
      PROVE  i = j
  BY <1>2, <1>h, MetIndex DEF Once
<1>3. Met(h) \subseteq Met(f) \cup {Len(f) + 1}
  BY MetNew
<1> QED
  BY <1>1, <1>2, <1>3 DEF Once

LEMMA StuckKept ==
  ASSUME NEW f \in Seq(Cell), NEW g, Piece(g), Stuck(f)
  PROVE  Stuck(f \o g)
<1>1. PICK i \in Met(f) : f[i].kind # "head"
  BY DEF Stuck
<1>2. g \in Seq(Cell) /\ i \in 1..Len(f)
  BY MetIndex DEF Piece
<1>3. i \in Met(f \o g) /\ (f \o g)[i] = f[i]
  BY <1>2, MetAgain, Concat
<1> QED
  BY <1>1, <1>3 DEF Stuck

\* What is taken for a record stays one, and a bare key may become one.
LEMMA SeenKept ==
  ASSUME NEW f \in Seq(Cell), NEW g, Piece(g)
  PROVE  /\ Seen(f) \subseteq Seen(f \o g)
         /\ \A i \in Seen(f \o g) :
              \/ i \in Seen(f)
              \/ i \in Met(f) /\ f[i].kind = "bare"
              \/ i = Len(f) + 1 /\ i \in Met(f \o g)
<1> DEFINE h == f \o g
<1>0. g \in Seq(Cell)
  BY DEF Piece
<1>h. /\ h \in Seq(Cell) /\ Len(h) = Len(f) + Len(g)
      /\ Len(f) \in Nat /\ Len(g) \in Nat
      /\ \A i \in 1..Len(f) : h[i] = f[i]
  BY <1>0, Concat
<1>1. ASSUME NEW i \in Seen(f)
      PROVE  i \in Seen(h)
  <2>1. i \in Met(f) /\ i \in 1..Len(f)
    BY MetIndex DEF Seen
  <2>2. i \in Met(h) /\ h[i] = f[i]
    BY <1>0, <1>h, <2>1, MetAgain
  <2>3. CASE f[i].kind = "bare"
    <3>1. i < Len(f) /\ f[i + 1].kind # "mark"
      BY <1>1, <2>3 DEF Seen
    <3>2. i + 1 \in 1..Len(f) /\ i < Len(h)
      BY <1>h, <2>1, <3>1
    <3>3. h[i + 1].kind # "mark"
      BY <1>h, <3>1, <3>2
    <3> QED
      BY <2>2, <3>2, <3>3 DEF Seen
  <2> QED
    BY <2>2, <2>3 DEF Seen
<1>2. ASSUME NEW i \in Seen(h), i \in Met(f), f[i].kind # "bare"
      PROVE  i \in Seen(f)
  BY <1>2 DEF Seen
<1>3. \A i \in Seen(h) : i \in Met(h)
  BY DEF Seen
<1>4. Met(h) \subseteq Met(f) \cup {Len(f) + 1}
  BY MetNew
<1> QED
  BY <1>1, <1>2, <1>3, <1>4

LEMMA SeenIndex ==
  ASSUME NEW f \in Seq(Cell)
  PROVE  Seen(f) \subseteq Met(f) /\ Seen(f) \subseteq 1..Len(f)
  BY MetIndex DEF Seen

\* The first record of a key, when there is but one.
LEMMA FirstIs ==
  ASSUME NEW f \in Seq(Cell), Once(f), NEW k, NEW i \in SeenOf(f, k)
  PROVE  First(f, k) = i
<1>1. \A j \in SeenOf(f, k) : j = i
  BY SeenIndex DEF Once, SeenOf
<1>2. i \in Nat
  BY SeenIndex DEF SeenOf
<1>3. \E m \in SeenOf(f, k) : \A j \in SeenOf(f, k) : m <= j
  BY <1>1, <1>2
<1> QED
  BY <1>1, <1>3 DEF First

LEMMA WholeKept ==
  ASSUME NEW f \in Seq(Cell), NEW g, Piece(g), NEW i \in 1..Len(f)
  PROVE  Whole(f \o g, i) <=> Whole(f, i)
<1> DEFINE h == f \o g
           n == Size[f[i].val]
<1>0. g \in Seq(Cell)
  BY DEF Piece
<1>h. /\ Len(f) \in Nat /\ Len(g) \in Nat /\ Len(h) = Len(f) + Len(g)
      /\ \A j \in 1..Len(f) : h[j] = f[j]
      /\ \A j \in 1..Len(g) : h[Len(f) + j] = g[j]
  BY <1>0, Concat
<1> SUFFICES ASSUME f[i].kind = "head"
             PROVE  Whole(h, i) <=> Whole(f, i)
  BY <1>h DEF Whole
<1>n. n \in Nat /\ i \in Nat /\ h[i] = f[i]
  BY CellType, <1>h
<1>1. CASE i + n <= Len(f)
  <2>1. \A j \in 1..n : i + j \in 1..Len(f)
    BY <1>1, <1>n, <1>h
  <2>2. \A j \in 1..n : h[i + j] = f[i + j]
    BY <2>1, <1>h
  <2>3. i + n <= Len(h)
    BY <1>1, <1>n, <1>h
  <2> QED
    BY <2>2, <2>3, <1>1, <1>n DEF Whole
<1>2. CASE i + n > Len(f)
  <2>1. ~Whole(f, i)
    BY <1>2, <1>h, <1>n DEF Whole
  <2>2. ASSUME Whole(h, i)
        PROVE  FALSE
    <3>1. /\ i + n <= Len(h)
          /\ \A j \in 1..n : h[i + j] = PartOf(f[i].key, f[i].val, j)
      BY <2>2, <1>n DEF Whole
    <3>2. Len(g) > 0
      BY <3>1, <1>2, <1>n, <1>h
    <3>3. /\ Len(f) + 1 - i \in 1..n
          /\ i + (Len(f) + 1 - i) = Len(f) + 1
      BY <1>2, <1>n, <1>h
    <3>4. h[Len(f) + 1] = PartOf(f[i].key, f[i].val, Len(f) + 1 - i)
      BY <3>1, <3>3
    <3>5. h[Len(f) + 1] = g[1]
      BY <3>2, <1>h
    <3> QED
      BY <3>2, <3>4, <3>5 DEF Piece, PartOf
  <2> QED
    BY <2>1, <2>2
<1> QED
  BY <1>1, <1>2, <1>h, <1>n

\* The entry of a key survives what is appended to the file.
LEMMA GetKept ==
  ASSUME NEW f \in Seq(Cell), NEW g, Piece(g), Once(f), IsNew(f, g),
         NEW k, SeenOf(f, k) # {}
  PROVE  SeenOf(f \o g, k) # {} /\ Get(f \o g, k) = Get(f, k)
<1> DEFINE h == f \o g
<1>0. g \in Seq(Cell) /\ h \in Seq(Cell) /\ Once(h)
  BY OnceKept, Concat DEF Piece
<1>1. PICK i \in SeenOf(f, k) : TRUE
  OBVIOUS
<1>2. i \in 1..Len(f) /\ i \in Seen(f) /\ f[i].key = k
  BY SeenIndex DEF SeenOf
<1>3. h[i] = f[i] /\ i \in Seen(h)
  BY <1>0, <1>2, Concat, SeenKept
<1>4. i \in SeenOf(h, k)
  BY <1>2, <1>3 DEF SeenOf
<1>5. First(f, k) = i /\ First(h, k) = i
  BY <1>0, <1>4, FirstIs
<1>6. Whole(h, i) <=> Whole(f, i)
  BY <1>2, WholeKept
<1> QED
  BY <1>3, <1>4, <1>5, <1>6 DEF Get

\* A key without an entry gets a broken one, or that of the piece.
LEMMA GetNew ==
  ASSUME NEW f \in Seq(Cell), NEW g, Piece(g), Once(f), IsNew(f, g),
         NEW k, SeenOf(f, k) = {}, SeenOf(f \o g, k) # {}
  PROVE  \/ Get(f \o g, k) = Broken
         \/ /\ Len(g) > 0 /\ g[1].kind = "head"
            /\ Get(f \o g, k) = g[1].val
<1> DEFINE h == f \o g
<1>0. g \in Seq(Cell) /\ h \in Seq(Cell) /\ Once(h)
  BY OnceKept, Concat DEF Piece
<1>1. PICK i \in SeenOf(h, k) : TRUE
  OBVIOUS
<1>2. i \in Seen(h) /\ h[i].key = k
  BY DEF SeenOf
<1>3. First(h, k) = i
  BY <1>0, FirstIs
<1>4. Get(h, k) = IF Whole(h, i) THEN h[i].val ELSE Broken
  BY <1>1, <1>3 DEF Get
<1>5. CASE i \in Met(f)
  <2>1. i \in 1..Len(f)
    BY <1>5, MetIndex
  <2>2. h[i] = f[i]
    BY <1>0, <2>1, Concat
  <2>3. i \notin Seen(f)
    BY <1>2, <2>2 DEF SeenOf
  <2>4. f[i].kind = "bare"
    BY <1>2, <1>5, <2>1, <2>3, SeenKept
  <2> QED
    BY <1>4, <2>2, <2>4 DEF Whole
<1>6. CASE i = Len(f) + 1 /\ i \in Met(h)
  <2>1. Len(g) > 0
    BY <1>6, MetNew
  <2>2. h[i] = g[1]
    BY <1>0, <1>6, <2>1, Concat
  <2> QED
    BY <1>4, <2>1, <2>2 DEF Whole
<1>7. Seen(f) \subseteq Met(f)
  BY SeenIndex
<1> QED
  BY <1>2, <1>5, <1>6, <1>7, SeenKept

-----------------------------------------------------------------------------
(* What the actions append.                                                *)

LEMMA PartsType ==
  ASSUME NEW k \in Keys, NEW v \in Values, NEW n \in Nat
  PROVE  /\ Parts(k, v, n) \in Seq(Cell) /\ Len(Parts(k, v, n)) = n
         /\ \A j \in 1..n : Parts(k, v, n)[j].kind = "part"
<1>1. \A j \in 1..n : PartOf(k, v, j) \in Cell /\ PartOf(k, v, j).kind = "part"
  BY DEF PartOf, Cell
<1> QED
  BY <1>1 DEF Parts

Front(k, v, n) == <<HeadOf(k, v)>> \o Parts(k, v, n)

LEMMA FrontIsPiece ==
  ASSUME NEW k \in Keys, NEW v \in Values, NEW n \in Nat
  PROVE  /\ Piece(Front(k, v, n)) /\ Len(Front(k, v, n)) = n + 1
         /\ Front(k, v, n)[1] = HeadOf(k, v)
<1>1. HeadOf(k, v) \in Cell /\ HeadOf(k, v).kind = "head"
  BY DEF HeadOf, Cell
<1>2. <<HeadOf(k, v)>> \in Seq(Cell)
  BY <1>1
<1>3. /\ Front(k, v, n) \in Seq(Cell) /\ Len(Front(k, v, n)) = n + 1
      /\ Front(k, v, n)[1] = HeadOf(k, v)
      /\ \A j \in 2..(n + 1) : Front(k, v, n)[j] = Parts(k, v, n)[j - 1]
  <2> DEFINE p == Parts(k, v, n)
             d == HeadOf(k, v)
  <2>1. p \in Seq(Cell) /\ Len(p) = n
    BY PartsType
  <2>2. d \in Cell /\ <<d>> \in Seq(Cell)
    BY <1>1
  <2> HIDE DEF p, d
  <2>3. /\ <<d>> \o p \in Seq(Cell) /\ Len(<<d>> \o p) = n + 1
        /\ (<<d>> \o p)[1] = d
        /\ \A j \in 2..(n + 1) : (<<d>> \o p)[j] = p[j - 1]
    BY <2>1, <2>2
  <2> QED
    BY <2>3 DEF Front, p, d
<1>4. ASSUME NEW j \in 2..(n + 1)
      PROVE  Front(k, v, n)[j].kind = "part"
  <2>1. j - 1 \in 1..n
    OBVIOUS
  <2>2. Parts(k, v, n)[j - 1].kind = "part"
    BY <2>1, PartsType
  <2> QED
    BY <2>2, <1>3
<1> QED
  BY <1>1, <1>3, <1>4 DEF Piece, Begins

\* What is left of a head, and the byte of del_bin
LEMMA RestIsPiece ==
  ASSUME NEW k \in Keys
  PROVE  \A c \in {Noise, Mark, BareOf(k), StubOf(k)} :
           Piece(<<c>>) /\ Len(<<c>>) = 1 /\ <<c>>[1] = c
<1>1. ASSUME NEW c \in {Noise, Mark, BareOf(k), StubOf(k)}
      PROVE  c \in Cell /\ c.kind # "part"
  BY DEF Cell, Noise, Mark, BareOf, StubOf
<1>2. ASSUME NEW c \in Cell, c.kind # "part"
      PROVE  Piece(<<c>>) /\ Len(<<c>>) = 1 /\ <<c>>[1] = c
  BY <1>2 DEF Piece
<1> QED
  BY <1>1, <1>2

LEMMA FrontAndNoise ==
  ASSUME NEW k \in Keys, NEW v \in Values, NEW n \in Nat
  PROVE  LET g == Front(k, v, n) \o <<Noise>> IN
         Piece(g) /\ Len(g) = n + 2 /\ g[1] = HeadOf(k, v)
<1> DEFINE f == Front(k, v, n)
           g == f \o <<Noise>>
<1>1. Piece(f) /\ Len(f) = n + 1 /\ f[1] = HeadOf(k, v)
  BY FrontIsPiece
<1>2. <<Noise>> \in Seq(Cell)
  BY DEF Cell
<1>3. /\ g \in Seq(Cell) /\ Len(g) = n + 2
      /\ \A j \in 1..(n + 1) : g[j] = f[j]
      /\ g[n + 2] = Noise
  BY <1>1, <1>2 DEF Piece
<1>4. ASSUME NEW j \in 1..Len(g), Begins(g[j])
      PROVE  j = 1
  <2>1. j # n + 2
    BY <1>3, <1>4 DEF Begins, Noise
  <2>2. j \in 1..(n + 1)
    BY <2>1, <1>3
  <2> QED
    BY <2>2, <1>1, <1>3, <1>4 DEF Piece
<1>5. g[1].kind # "part"
  BY <1>1, <1>3 DEF HeadOf
<1>6. g[1] = HeadOf(k, v)
  BY <1>1, <1>3
<1> HIDE DEF g
<1>7. Piece(g) /\ Len(g) = n + 2 /\ g[1] = HeadOf(k, v)
  BY <1>3, <1>4, <1>5, <1>6 DEF Piece
<1> QED
  BY <1>7 DEF g

LEMMA EmptyIsPiece == Piece(<<>>) /\ Len(<<>>) = 0
  BY DEF Piece

\* A whole record that is appended to a file that can be read to its end is
\* read, and the file can be read to its end.
LEMMA SoundKept ==
  ASSUME NEW f \in Seq(Cell), Sound(f), NEW k \in Keys, NEW v \in Values
  PROVE  LET h == f \o Front(k, v, Size[v]) IN
         Sound(h) /\ SeenOf(h, k) # {}
<1> DEFINE g == Front(k, v, Size[v])
           h == f \o g
           at == Len(f) + 1
<1>n. Size[v] \in Nat
  BY StoreAssumption
<1>g. g \in Seq(Cell) /\ Len(g) = Size[v] + 1 /\ g[1] = HeadOf(k, v)
  BY <1>n, FrontIsPiece DEF Piece
<1>h. /\ h \in Seq(Cell) /\ Len(h) = Len(f) + Size[v] + 1 /\ Len(f) \in Nat
      /\ h[at] = HeadOf(k, v)
      /\ \A i \in 1..Len(f) : After(h, i) = After(f, i)
  <2>1. /\ h \in Seq(Cell) /\ Len(h) = Len(f) + Len(g)
        /\ \A i \in 1..Len(g) : h[Len(f) + i] = g[i]
        /\ \A i \in 1..Len(f) : After(h, i) = After(f, i)
    BY <1>g, Concat
  <2>2. Len(f) \in Nat
    OBVIOUS
  <2> HIDE DEF g, h
  <2>3. h[at] = g[1]
    <3>1. 1 \in 1..Len(g)
      BY <1>g, <1>n
    <3>2. h[Len(f) + 1] = g[1]
      BY <3>1, <2>1
    <3> QED
      BY <3>2
  <2> QED
    BY <2>1, <2>2, <2>3, <1>g, <1>n
<1>1. at \in Starts(h) /\ h[at].kind = "head"
  BY <1>h, <1>n DEF Starts, HeadOf
<1>2. ASSUME NEW S \in SUBSET Starts(h), Closed(h, S)
      PROVE  at \in S
  <2>1. CASE f = <<>>
    BY <2>1, <1>1, <1>2 DEF Closed
  <2>2. CASE f # <<>>
    <3>1. PICK i \in Seen(f) : f[i].kind = "head" /\ After(f, i) = Len(f) + 1
      BY <2>2 DEF Sound
    <3>2. i \in 1..Len(f) /\ i \in Met(f)
      BY SeenIndex
    <3>3. i \in Met(h) /\ h[i].kind = "head"
      BY <3>1, <3>2, <1>g, MetAgain, Concat
    <3>4. i \in S
      BY <3>3, <1>2 DEF Met
    <3>5. After(h, i) = at
      BY <3>1, <3>2, <1>h
    <3> QED
      BY <3>3, <3>4, <3>5, <1>1, <1>2 DEF Closed
  <2> QED
    BY <2>1, <2>2
<1>3. at \in Seen(h)
  BY <1>1, <1>2 DEF Seen, Met
<1>4. After(h, at) = Len(h) + 1
  <2>1. h[at].val = v
    BY <1>h DEF HeadOf
  <2> HIDE DEF h
  <2> QED
    BY <2>1, <1>h, <1>n DEF After
<1>5. at \in SeenOf(h, k)
  <2>1. h[at].key = k
    BY <1>h DEF HeadOf
  <2> HIDE DEF h
  <2> QED
    BY <2>1, <1>3 DEF SeenOf
<1> QED
  BY <1>1, <1>3, <1>4, <1>5 DEF Sound

-----------------------------------------------------------------------------
(* The invariant.                                                          *)

\* What is still to be written has not been met in the file, or will not be
\* met: a bare key, say, that was not found when the save began.
TodoIsNew == Stuck(file) \/ \A k \in DOMAIN todo : MetOf(file, k) = {}

Idle == ~saving => DOMAIN todo = {} /\ due = {}

\* A save that began in a sound file: sound it stays, and the keys that are
\* not written yet will be.
DueIsThere ==
  due # {} =>
    /\ Sound(file)
    /\ \A k \in due : k \in DOMAIN todo \/ SeenOf(file, k) # {}

KeptIsThere == \A k \in kept : SeenOf(file, k) # {}

IInv ==
  /\ TypeOK
  /\ Once(file)
  /\ TodoIsNew
  /\ Idle
  /\ DueIsThere
  /\ KeptIsThere

Extends(g) == Piece(g) /\ IsNew(file, g) /\ file' = file \o g

\* Every step appends a piece, perhaps an empty one.
LEMMA Grows ==
  ASSUME IInv, [Next]_vars
  PROVE  \E g : Extends(g)
<1> USE DEF IInv, TypeOK
<1>1. CASE UNCHANGED file
  <2>1. Extends(<<>>)
    BY <1>1, EmptyIsPiece DEF Extends, IsNew
  <2> QED
    BY <2>1
<1>2. ASSUME NEW k \in DOMAIN todo
      PROVE  /\ k \in Keys /\ todo[k] \in Values /\ Size[todo[k]] \in Nat
             /\ MetOf(file, k) = {} \/ Stuck(file)
  BY StoreAssumption DEF TodoIsNew
<1>3. ASSUME NEW k \in DOMAIN todo, NEW g, Piece(g),
             Len(g) > 0 /\ Begins(g[1]) => g[1].key = k,
             file' = Appended(file, g)
      PROVE  Extends(g)
  BY <1>2, <1>3 DEF Extends, IsNew, Appended
<1>4. ASSUME NEW k \in Keys, WriteRecord(k)
      PROVE  \E g : Extends(g)
  <2>1. k \in DOMAIN todo
    BY <1>4 DEF WriteRecord
  <2> DEFINE g == Front(k, todo[k], Size[todo[k]])
  <2>2. Piece(g) /\ g[1] = HeadOf(k, todo[k])
    BY <2>1, <1>2, FrontIsPiece
  <2>3. file' = Appended(file, g)
    BY <1>4 DEF WriteRecord, Front
  <2>4. g[1].key = k
    BY <2>2 DEF HeadOf
  <2> HIDE DEF g
  <2> QED
    BY <2>1, <2>2, <2>3, <2>4, <1>3
<1>5. ASSUME Tear
      PROVE  \E g : Extends(g)
  <2>1. CASE StopSave(<<>>)
    BY <2>1, EmptyIsPiece DEF StopSave, Appended, Extends, IsNew
  <2>2. ASSUME NEW k \in DOMAIN todo, TearHead(k)
        PROVE  \E g : Extends(g)
    <3>1. PICK c \in {Noise, Mark, BareOf(k), StubOf(k)} :
            file' = Appended(file, <<c>>)
      BY <2>2 DEF TearHead, StopSave
    <3>2. Piece(<<c>>) /\ <<c>>[1] = c
      BY <1>2, RestIsPiece
    <3>3. Begins(c) => c.key = k
      BY DEF Begins, Noise, Mark, BareOf, StubOf
    <3> QED
      BY <3>1, <3>2, <3>3, <1>3
  <2>3. ASSUME NEW k \in DOMAIN todo,
               NEW n \in 0..(Size[todo[k]] - 1), TearValue(k, n)
        PROVE  \E g : Extends(g)
    <3> DEFINE f == Front(k, todo[k], n)
               e == f \o <<Noise>>
    <3>1. n \in Nat
      BY <1>2
    <3>2. /\ Piece(f) /\ f[1] = HeadOf(k, todo[k])
          /\ Piece(e) /\ e[1] = HeadOf(k, todo[k])
      BY <3>1, <1>2, FrontIsPiece, FrontAndNoise
    <3>3. file' = Appended(file, f) \/ file' = Appended(file, e)
      BY <2>3 DEF TearValue, StopSave, Front
    <3>4. f[1].key = k /\ e[1].key = k
      BY <3>2 DEF HeadOf
    <3> HIDE DEF e, f
    <3> QED
      BY <3>2, <3>3, <3>4, <1>3
  <2> QED
    BY <1>5, <2>1, <2>2, <2>3 DEF Tear
<1>6. ASSUME NEW k \in Keys, Delete(k)
      PROVE  \E g : Extends(g)
  <2>1. file' = file \o <<Mark>>
    BY <1>6 DEF Delete, Appended
  <2>2. Piece(<<Mark>>) /\ <<Mark>>[1] = Mark
    BY RestIsPiece
  <2>3. ~Begins(Mark)
    BY DEF Begins, Mark
  <2>4. Extends(<<Mark>>)
    BY <2>1, <2>2, <2>3 DEF Extends, IsNew
  <2> QED
    BY <2>4
<1>7. ASSUME NEW S, NEW new, BeginSave(S, new)
      PROVE  UNCHANGED file
  BY <1>7 DEF BeginSave
<1>8. EndSave \/ UNCHANGED vars => UNCHANGED file
  BY DEF EndSave, vars
<1> QED
  BY <1>1, <1>4, <1>5, <1>6, <1>7, <1>8 DEF Next

LEMMA TypeStep ==
  ASSUME IInv, [Next]_vars
  PROVE  TypeOK'
<1> USE DEF IInv, TypeOK
<1>1. file' \in Seq(Cell)
  <2>1. PICK g : Extends(g)
    BY Grows
  <2> QED
    BY <2>1, Concat DEF Extends, Piece
<1>2. /\ saving' \in BOOLEAN
      /\ due' \subseteq Keys /\ kept' \subseteq Keys
  BY DEF Next, BeginSave, WriteRecord, EndSave, Tear, TearHead, TearValue,
         StopSave, Delete, vars
<1>3. DOMAIN todo' \subseteq Keys /\ todo' \in [DOMAIN todo' -> Values]
  <2>1. ASSUME NEW S \in SUBSET Keys, NEW new \in [Keys -> Values],
               BeginSave(S, new)
        PROVE  DOMAIN todo' \subseteq Keys /\ todo' \in [DOMAIN todo' -> Values]
    <3>1. Missing(S) \subseteq Keys
      BY DEF Missing
    <3>2. todo' = [k \in Missing(S) |-> new[k]]
      BY <2>1 DEF BeginSave
    <3> QED
      BY <3>1, <3>2
  <2>2. ASSUME NEW k \in Keys, WriteRecord(k)
        PROVE  DOMAIN todo' \subseteq Keys /\ todo' \in [DOMAIN todo' -> Values]
    BY <2>2 DEF WriteRecord
  <2>3. ASSUME Tear
        PROVE  DOMAIN todo' \subseteq Keys /\ todo' \in [DOMAIN todo' -> Values]
    <3>1. todo' = NoTodo
      BY <2>3 DEF Tear, TearHead, TearValue, StopSave
    <3> QED
      BY <3>1 DEF NoTodo
  <2>4. EndSave \/ (\E k \in Keys : Delete(k)) \/ UNCHANGED vars
          => UNCHANGED todo
    BY DEF EndSave, Delete, vars
  <2> QED
    BY <2>1, <2>2, <2>3, <2>4 DEF Next
<1> QED
  BY <1>1, <1>2, <1>3

\* What a step does to the entries of the file.
LEMMA EntriesStep ==
  ASSUME IInv, [Next]_vars
  PROVE  /\ Once(file)'
         /\ Stuck(file) => Stuck(file)'
         /\ \A k : SeenOf(file, k) # {} =>
              SeenOf(file', k) # {} /\ Get(file', k) = Get(file, k)
<1>1. PICK g : Extends(g)
  BY Grows
<1>2. /\ file \in Seq(Cell) /\ Once(file)
      /\ Piece(g) /\ IsNew(file, g) /\ file' = file \o g
  BY <1>1 DEF IInv, TypeOK, Extends
<1>3. Once(file')
  BY <1>2, OnceKept
<1>4. Stuck(file) => Stuck(file')
  BY <1>2, StuckKept
<1> QED
  BY <1>2, <1>3, <1>4, GetKept DEF Once, Stuck

LEMMA TodoStep ==
  ASSUME IInv, [Next]_vars
  PROVE  TodoIsNew'
<1>1. ASSUME NEW S \in SUBSET Keys, NEW new \in [Keys -> Values],
             BeginSave(S, new), ~Stuck(file)
      PROVE  TodoIsNew'
  <2>1. DOMAIN todo' = Missing(S) /\ file' = file
    BY <1>1 DEF BeginSave
  <2>2. ASSUME NEW k \in Missing(S), NEW i \in MetOf(file, k)
        PROVE  FALSE
    <3>1. i \in Met(file) /\ file[i].kind = "head"
      BY <1>1 DEF MetOf, Stuck
    <3> QED
      BY <2>2, <3>1 DEF Missing, SeenOf, Seen, MetOf
  <2> QED
    BY <2>1, <2>2 DEF TodoIsNew
<1>2. ASSUME NEW k \in Keys, WriteRecord(k), ~Stuck(file)
      PROVE  TodoIsNew'
  <2> DEFINE g == Front(k, todo[k], Size[todo[k]])
  <2>1. /\ k \in DOMAIN todo /\ todo[k] \in Values
        /\ Size[todo[k]] \in Nat
    BY <1>2, StoreAssumption DEF WriteRecord, IInv, TypeOK
  <2>2. Piece(g) /\ g[1] = HeadOf(k, todo[k]) /\ g \in Seq(Cell) /\ Len(g) > 0
    BY <2>1, FrontIsPiece DEF Piece
  <2>3. file' = file \o g /\ file \in Seq(Cell)
    BY <1>2 DEF WriteRecord, Front, Appended, IInv, TypeOK
  <2>4. ASSUME NEW l \in DOMAIN todo', NEW i \in MetOf(file', l)
        PROVE  FALSE
    <3>1. l \in DOMAIN todo /\ l # k
      BY <1>2, <2>4 DEF WriteRecord
    <3>2. MetOf(file, l) = {}
      BY <1>2, <3>1 DEF IInv, TodoIsNew
    <3>3. i \in Met(file') /\ file'[i].key = l
      BY DEF MetOf
    <3> HIDE DEF g
    <3>4. CASE i \in Met(file)
      <4>1. file'[i] = file[i]
        BY <2>2, <2>3, <3>4, MetIndex, Concat
      <4> QED
        BY <3>2, <3>3, <3>4, <4>1 DEF MetOf
    <3>5. CASE i = Len(file) + 1
      <4>1. file'[i] = g[1]
        BY <2>2, <2>3, <3>5, Concat
      <4> QED
        BY <2>2, <3>1, <3>3, <4>1 DEF HeadOf
    <3> QED
      BY <2>2, <2>3, <3>3, <3>4, <3>5, MetNew
  <2> QED
    BY <2>4 DEF TodoIsNew
<1>3. ASSUME Tear
      PROVE  TodoIsNew'
  <2>1. todo' = NoTodo
    BY <1>3 DEF Tear, TearHead, TearValue, StopSave
  <2> QED
    BY <2>1 DEF NoTodo, TodoIsNew
<1>4. ASSUME NEW k \in Keys, Delete(k)
      PROVE  TodoIsNew'
  <2>1. DOMAIN todo' = {}
    BY <1>4 DEF Delete, IInv, Idle
  <2> QED
    BY <2>1 DEF TodoIsNew
<1>5. ASSUME EndSave \/ UNCHANGED vars
      PROVE  TodoIsNew'
  <2>1. UNCHANGED <<file, todo>>
    BY <1>5 DEF EndSave, vars
  <2> QED
    BY <2>1 DEF IInv, TodoIsNew
<1>6. CASE Stuck(file)
  BY <1>6, EntriesStep DEF TodoIsNew
<1> QED
  BY <1>1, <1>2, <1>3, <1>4, <1>5, <1>6 DEF Next

LEMMA IdleStep ==
  ASSUME IInv, [Next]_vars
  PROVE  Idle'
<1>1. ASSUME Tear
      PROVE  Idle'
  <2>1. todo' = NoTodo /\ due' = {}
    BY <1>1 DEF Tear, TearHead, TearValue, StopSave
  <2> QED
    BY <2>1 DEF NoTodo, Idle
<1>2. ASSUME NEW k \in Keys, WriteRecord(k)
      PROVE  Idle'
  <2>1. saving' = saving /\ saving
    BY <1>2 DEF WriteRecord, IInv, Idle
  <2> QED
    BY <2>1 DEF Idle
<1>3. ASSUME NEW S, NEW new, BeginSave(S, new)
      PROVE  Idle'
  BY <1>3 DEF BeginSave, Idle
<1>4. ASSUME EndSave \/ (\E k \in Keys : Delete(k)) \/ UNCHANGED vars
      PROVE  Idle'
  BY <1>4 DEF EndSave, Delete, vars, IInv, Idle
<1> QED
  BY <1>1, <1>2, <1>3, <1>4 DEF Next

LEMMA DueStep ==
  ASSUME IInv, [Next]_vars
  PROVE  DueIsThere'
<1>1. ASSUME NEW S \in SUBSET Keys, NEW new \in [Keys -> Values],
             BeginSave(S, new)
      PROVE  DueIsThere'
  <2>1. /\ DOMAIN todo' = Missing(S) /\ file' = file
        /\ due' = IF Sound(file) THEN S ELSE {}
    BY <1>1 DEF BeginSave
  <2> QED
    BY <2>1 DEF Missing, DueIsThere
<1>2. ASSUME NEW k \in Keys, WriteRecord(k), due # {}
      PROVE  DueIsThere'
  <2>1. /\ k \in DOMAIN todo /\ todo[k] \in Values
        /\ file \in Seq(Cell) /\ Sound(file)
    BY <1>2 DEF WriteRecord, IInv, TypeOK, DueIsThere
  <2>2. file' = file \o Front(k, todo[k], Size[todo[k]])
    BY <1>2 DEF WriteRecord, Front, Appended
  <2>3. Sound(file') /\ SeenOf(file', k) # {}
    BY <2>1, <2>2, SoundKept
  <2>4. ASSUME NEW l \in due
        PROVE  l \in DOMAIN todo' \/ SeenOf(file', l) # {}
    <3>1. CASE l = k
      BY <2>3, <3>1
    <3>2. CASE l # k /\ l \in DOMAIN todo
      BY <1>2, <3>2 DEF WriteRecord
    <3>3. CASE SeenOf(file, l) # {}
      BY <3>3, EntriesStep
    <3> QED
      BY <3>1, <3>2, <3>3, <1>2 DEF IInv, DueIsThere
  <2>5. due' = due
    BY <1>2 DEF WriteRecord
  <2> QED
    BY <2>3, <2>4, <2>5 DEF DueIsThere
<1>3. ASSUME due' = {}
      PROVE  DueIsThere'
  BY <1>3 DEF DueIsThere
<1>4. EndSave \/ Tear => due' = {}
  BY DEF EndSave, Tear, TearHead, TearValue, StopSave
<1>5. ASSUME NEW k \in Keys, Delete(k)
      PROVE  due' = {}
  BY <1>5 DEF Delete, IInv, Idle
<1>6. ASSUME UNCHANGED vars
      PROVE  DueIsThere'
  BY <1>6 DEF vars, IInv, DueIsThere
<1>7. ASSUME NEW k \in Keys, WriteRecord(k), due = {}
      PROVE  due' = {}
  BY <1>7 DEF WriteRecord
<1> QED
  BY <1>1, <1>2, <1>3, <1>4, <1>5, <1>6, <1>7 DEF Next

LEMMA KeptStep ==
  ASSUME IInv, [Next]_vars
  PROVE  KeptIsThere'
<1>1. ASSUME NEW k \in kept'
      PROVE  SeenOf(file, k) # {}
  <2>1. CASE kept' = kept
    BY <1>1, <2>1 DEF IInv, KeptIsThere
  <2>2. CASE EndSave
    BY <1>1, <2>2 DEF EndSave, IInv, KeptIsThere, DueIsThere
  <2>3. EndSave \/ kept' = kept
    BY DEF Next, BeginSave, WriteRecord, Tear, TearHead, TearValue,
           StopSave, Delete, vars
  <2> QED
    BY <2>1, <2>2, <2>3
<1> QED
  BY <1>1, EntriesStep DEF KeptIsThere

LEMMA InvInit == Init => IInv
<1> SUFFICES ASSUME Init PROVE IInv
  OBVIOUS
<1>1. TypeOK
  <2>1. file \in Seq(Cell)
    BY DEF Init
  <2>2. DOMAIN todo = {} /\ todo \in [{} -> Values]
    BY DEF Init, NoTodo
  <2> QED
    BY <2>1, <2>2 DEF Init, TypeOK
<1>2. Met(file) = {}
  BY DEF Init, Met, Starts
<1> QED
  BY <1>1, <1>2 DEF Init, IInv, Once, TodoIsNew, Idle, DueIsThere,
                    KeptIsThere, NoTodo

THEOREM StoreInvHolds == Spec => []IInv
<1>1. IInv /\ [Next]_vars => IInv'
  BY TypeStep, EntriesStep, TodoStep, IdleStep, DueStep, KeptStep DEF IInv
<1> QED
  BY InvInit, <1>1, PTL DEF Spec

\* No key is read twice, whatever files, values and crashes there are.
THEOREM NoKeyTwice == Spec => []OncePerKey
<1>1. IInv => OncePerKey
  BY SeenIndex DEF IInv, TypeOK, Once, OncePerKey
<1> QED
  BY StoreInvHolds, <1>1, PTL

LEMMA GetType ==
  ASSUME NEW f \in Seq(Cell), Once(f), NEW k
  PROVE  /\ Get(f, k) \in Values \cup {None, Broken}
         /\ Get(f, k) = None <=> SeenOf(f, k) = {}
<1>1. CASE SeenOf(f, k) = {}
  BY <1>1 DEF Get
<1>2. CASE SeenOf(f, k) # {}
  <2>1. PICK i \in SeenOf(f, k) : TRUE
    BY <1>2
  <2>2. First(f, k) = i
    BY FirstIs
  <2>3. Whole(f, i) => f[i].val \in Values
    BY SeenIndex, CellType DEF SeenOf, Whole
  <2> QED
    BY <1>2, <2>2, <2>3, StoreAssumption DEF Get
<1> QED
  BY <1>1, <1>2

\* What came through a save of a sound file stays.
THEOREM SavedStays == Spec => []SavedIsThere
<1>1. IInv => SavedIsThere
  BY GetType DEF IInv, TypeOK, KeptIsThere, SavedIsThere
<1> QED
  BY StoreInvHolds, <1>1, PTL

LEMMA StoreInit == Init => Store!Init
<1> SUFFICES ASSUME Init PROVE Store!Init
  OBVIOUS
<1>1. \A k : SeenOf(file, k) = {}
  BY DEF Init, SeenOf, Seen, Met, Starts
<1> QED
  BY <1>1 DEF Store!Init, Get

Entries(f) == [k \in Keys |-> Get(f, k)]
entries    == Entries(file)

LEMMA StoreStep ==
  ASSUME IInv, IInv', [Next]_vars
  PROVE  [Store!Next]_entries
<1>1. PICK g : Extends(g)
  BY Grows
<1>2. /\ file \in Seq(Cell) /\ Once(file) /\ file' \in Seq(Cell) /\ Once(file')
      /\ Piece(g) /\ IsNew(file, g) /\ file' = file \o g /\ g \in Seq(Cell)
  BY <1>1 DEF IInv, TypeOK, Extends, Piece
<1>3. CASE Len(g) = 0
  <2>1. file' = file
    BY <1>2, <1>3
  <2> QED
    BY <2>1 DEF entries
<1>4. CASE Len(g) > 0
  <2>0. PICK v \in Values : g[1].kind = "head" => g[1].val = v
    <3>1. 1 \in 1..Len(g)
      BY <1>2, <1>4
    <3>2. g[1].kind = "head" => g[1].val \in Values
      BY <1>2, <3>1, CellType
    <3> QED
      BY <3>2, StoreAssumption
  <2> DEFINE new == [k \in Keys |-> v]
  <2>1. new \in [Keys -> Values]
    BY <2>0
  <2>2. ASSUME NEW k \in Keys
        PROVE  /\ Get(file', k) \in Values \cup {None, Broken}
               /\ IF Get(file, k) = None
                    THEN Get(file', k) \in {None, Broken, new[k]}
                    ELSE Get(file', k) = Get(file, k)
    <3>1. /\ Get(file', k) \in Values \cup {None, Broken}
          /\ Get(file, k) = None <=> SeenOf(file, k) = {}
          /\ Get(file', k) = None <=> SeenOf(file', k) = {}
      BY <1>2, GetType
    <3>2. SeenOf(file, k) # {} => Get(file', k) = Get(file, k)
      BY <1>2, GetKept
    <3>3. ASSUME SeenOf(file, k) = {}, SeenOf(file', k) # {}
          PROVE  Get(file', k) \in {Broken, new[k]}
      BY <1>2, <2>0, <3>3, GetNew
    <3> QED
      BY <3>1, <3>2, <3>3
  <2>3. Entries(file') \in
          {e \in [Keys -> Values \cup {None, Broken}] :
             \A k \in Keys :
               IF Entries(file)[k] = None THEN e[k] \in {None, Broken, new[k]}
                                          ELSE e[k] = Entries(file)[k]}
    <3> HIDE DEF new
    <3> QED
      BY <2>2 DEF Entries
  <2>4. Store!Save(new)
    BY <2>3 DEF Store!Save, Store!Reached, Entries
  <2> QED
    BY <2>1, <2>4 DEF Store!Next
<1> QED
  BY <1>2, <1>3, <1>4 DEF entries

\* The file implements the store of first entries.
THEOREM ImplementsKeyStore == Spec => KeepsTheFirst
<1>1. IInv /\ IInv' /\ [Next]_vars => [Store!Next]_entries
  BY StoreStep
<1> QED
  BY StoreInvHolds, StoreInit, <1>1, PTL
     DEF Spec, KeepsTheFirst, Store!Spec, Entries, entries
=============================================================================
