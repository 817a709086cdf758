--------------------------- MODULE DocumentsProofs ---------------------------
(***************************************************************************)
(* Proofs about Documents.  First delta.tcl alone: for texts of any length *)
(* in which no line repeats or moves past another, the difference of two   *)
(* texts applied to the first is the second.  Then the tree of revisions   *)
(* at the members, and with both that Documents implements DocHistory.     *)
(***************************************************************************)
EXTENDS Documents, SequenceTheorems, FiniteSetTheorems, WellFoundedInduction,
        TLAPS

-----------------------------------------------------------------------------
(* Numbers.                                                                *)

LEMMA LeastNumber ==
  ASSUME NEW S \in SUBSET Nat, S # {}
  PROVE  \E x \in S : \A y \in S : x <= y
<1> DEFINE Less == OpToRel(<, Nat)
<1>1. IsWellFoundedOn(Less, Nat)
  BY NatLessThanWellFounded
<1>2. \A x, y \in Nat : <<x, y>> \in Less <=> x < y
  BY DEF OpToRel
<1> HIDE DEF Less
<1>3. PICK x \in S : \A y \in S : ~ (<<y, x>> \in Less)
  BY <1>1, WFMin
<1>4. \A y \in S : x <= y
  <2> TAKE y \in S
  <2>1. x \in Nat /\ y \in Nat /\ ~ (y < x)
    BY <1>2, <1>3
  <2> QED
    BY <2>1
<1> QED
  BY <1>4

\* Induction over the numbers in a set
LEMMA SetInduction ==
  ASSUME NEW S \in SUBSET Nat, 0 \in S, \A n \in S : n + 1 \in S
  PROVE  S = Nat
<1> SUFFICES ASSUME Nat \ S # {} PROVE FALSE
  OBVIOUS
<1>1. PICK x \in Nat \ S : \A y \in Nat \ S : x <= y
  BY LeastNumber
<1>2. x # 0 /\ x - 1 \in Nat /\ x - 1 < x
  BY <1>1
<1>3. x - 1 \in S
  BY <1>1, <1>2
<1> QED
  BY <1>1, <1>2, <1>3

LEMMA MaxIs ==
  ASSUME NEW S \in SUBSET Nat, S # {}, NEW b \in Nat, \A x \in S : x <= b
  PROVE  Max(S) \in S /\ \A x \in S : x <= Max(S)
<1> DEFINE T == {b - x : x \in S}
<1>1. T \in SUBSET Nat /\ T # {}
  <2>1. ASSUME NEW x \in S PROVE b - x \in Nat
    <3>1. x \in Nat /\ x <= b
      OBVIOUS
    <3> QED
      BY <3>1
  <2>2. \E x \in S : TRUE
    OBVIOUS
  <2> QED
    BY <2>1, <2>2
<1> HIDE DEF T
<1>2. PICK d \in T : \A e \in T : d <= e
  BY <1>1, LeastNumber
<1>3. PICK x \in S : d = b - x
  BY <1>2 DEF T
<1>4. \A y \in S : y <= x
  <2> TAKE y \in S
  <2>1. b - y \in T
    BY DEF T
  <2> QED
    BY <1>2, <1>3, <2>1
<1>5. \E z \in S : \A y \in S : z >= y
  BY <1>4
<1>6. Max(S) \in S /\ \A y \in S : Max(S) >= y
  BY <1>5 DEF Max
<1> QED
  BY <1>6

LEMMA LargerOfTwo ==
  ASSUME NEW a \in Int, NEW b \in Int
  PROVE  Max({a, b}) = IF a >= b THEN a ELSE b
<1> DEFINE x == IF a >= b THEN a ELSE b
<1>1. x \in {a, b} /\ \A y \in {a, b} : x >= y
  OBVIOUS
<1>2. \A z \in {a, b} : (\A y \in {a, b} : z >= y) => z = x
  OBVIOUS
<1> HIDE DEF x
<1>3. Max({a, b}) = x
  BY <1>1, <1>2 DEF Max
<1> QED
  BY <1>3 DEF x

LEMMA SmallerOfTwo ==
  ASSUME NEW a \in Int, NEW b \in Int
  PROVE  Min({a, b}) = IF a <= b THEN a ELSE b
<1> DEFINE x == IF a <= b THEN a ELSE b
<1>1. x \in {a, b} /\ \A y \in {a, b} : x <= y
  OBVIOUS
<1>2. \A z \in {a, b} : (\A y \in {a, b} : z <= y) => z = x
  OBVIOUS
<1> HIDE DEF x
<1>3. Min({a, b}) = x
  BY <1>1, <1>2 DEF Min
<1> QED
  BY <1>3 DEF x

-----------------------------------------------------------------------------
(* The pieces that delta finds.                                            *)

LEMMA ShorterIs ==
  ASSUME NEW f \in Seq(Line), NEW t \in Seq(Line)
  PROVE  /\ Len(f) \in Nat /\ Len(t) \in Nat /\ Shorter(f, t) \in Nat
         /\ Shorter(f, t) <= Len(f) /\ Shorter(f, t) <= Len(t)
         /\ Shorter(f, t) = Len(f) \/ Shorter(f, t) = Len(t)
BY SmallerOfTwo DEF Shorter

LEMMA LimitIs ==
  ASSUME NEW f \in Seq(Line), NEW t \in Seq(Line), NEW i \in Nat
  PROVE  /\ Limit(f, t, i) \in Nat /\ Limit(f, t, i) <= Shorter(f, t)
         /\ \A k \in Nat : i <= k => Limit(f, t, i) <= Limit(f, t, k)
<1> DEFINE s == Shorter(f, t)
<1>1. s \in Nat /\ MaxHair \in Nat
  BY ShorterIs, DeltaAssumption
<1>2. ASSUME NEW k \in Nat
      PROVE  Limit(f, t, k) = IF s <= k + MaxHair THEN s ELSE k + MaxHair
  <2>1. k + MaxHair \in Int
    BY <1>1
  <2> HIDE DEF s
  <2>2. Min({s, k + MaxHair})
          = IF s <= k + MaxHair THEN s ELSE k + MaxHair
    BY <1>1, <2>1, SmallerOfTwo
  <2> QED
    BY <2>2 DEF Limit, s
<1> HIDE DEF s
<1>3. Limit(f, t, i) \in Nat /\ Limit(f, t, i) <= s
  BY <1>1, <1>2
<1>4. ASSUME NEW k \in Nat, i <= k
      PROVE  Limit(f, t, i) <= Limit(f, t, k)
  BY <1>1, <1>2, <1>4
<1> QED
  BY <1>3, <1>4 DEF s

LEMMA CandidateIs ==
  ASSUME NEW f \in Seq(Line), NEW t \in Seq(Line), NEW i \in Nat,
         NEW j \in Candidates(f, t, i)
  PROVE  /\ i <= j /\ j \in Nat
         /\ j < Limit(f, t, i) /\ j < Shorter(f, t)
         /\ f[i + 1] = t[j + 1]
<1> DEFINE s == Limit(f, t, i)
<1>1. j \in i..(s - 1) /\ f[i + 1] = t[j + 1]
  BY DEF Candidates
<1>2. s \in Nat /\ s <= Shorter(f, t) /\ Shorter(f, t) \in Nat
  BY LimitIs, ShorterIs
<1> HIDE DEF s
<1>3. i <= j /\ j \in Nat /\ j < s /\ j < Shorter(f, t)
  BY <1>1, <1>2
<1> QED
  BY <1>1, <1>3 DEF s

\* A piece is as long as it can be.
LEMMA CommonIs ==
  ASSUME NEW f \in Seq(Line), NEW t \in Seq(Line), NEW i \in Nat,
         NEW j \in Candidates(f, t, i)
  PROVE  LET n == Common(f, t, i, j) IN
         /\ n \in Nat /\ n >= 1 /\ j + n <= Limit(f, t, i)
         /\ \A k \in 1..n : f[i + k] = t[j + k]
         /\ j + n = Limit(f, t, i) \/ f[i + n + 1] # t[j + n + 1]
<1> DEFINE s == Limit(f, t, i)
           S == {n \in 0..(s - j) : \A k \in 1..n : f[i + k] = t[j + k]}
<1>1. s \in Nat /\ j \in Nat /\ i <= j /\ j < s /\ f[i + 1] = t[j + 1]
  BY LimitIs, CandidateIs
<1>2. s - j \in Nat /\ S \in SUBSET Nat /\ \A n \in S : n <= s - j
  <2> HIDE DEF s
  <2> QED
    BY <1>1
<1>3. 1 \in S
  <2>1. \A k \in 1..1 : k = 1
    OBVIOUS
  <2>2. \A k \in 1..1 : f[i + k] = t[j + k]
    BY <1>1, <2>1
  <2> HIDE DEF s
  <2> QED
    BY <1>1, <2>2
<1>4. Max(S) \in S /\ \A n \in S : n <= Max(S)
  <2> HIDE DEF S, s
  <2> QED
    BY <1>2, <1>3, MaxIs
<1>5. Common(f, t, i, j) = Max(S)
  BY DEF Common
<1> DEFINE m == Max(S)
<1>6. m \in 0..(s - j) /\ \A k \in 1..m : f[i + k] = t[j + k]
  BY <1>4
<1>7. ASSUME m < s - j, f[i + m + 1] = t[j + m + 1] PROVE FALSE
  <2>1. m \in Nat
    BY <1>2, <1>4
  <2>2. \A k \in 1..(m + 1) : f[i + k] = t[j + k]
    <3> HIDE DEF m
    <3> TAKE k \in 1..(m + 1)
    <3>1. CASE k = m + 1
      <4>1. i + k = i + m + 1 /\ j + k = j + m + 1
        BY <1>1, <2>1, <3>1
      <4> QED
        BY <1>7, <4>1
    <3>2. CASE k # m + 1
      BY <1>6, <2>1, <3>2
    <3> QED
      BY <3>1, <3>2
  <2>3. m + 1 \in S
    <3>1. m + 1 \in 0..(s - j)
      <4> HIDE DEF m, s
      <4> QED
        BY <1>1, <1>7, <2>1
    <3> HIDE DEF m, s
    <3> QED
      BY <2>2, <3>1
  <2>4. m + 1 <= m
    BY <1>4, <2>3
  <2> HIDE DEF m
  <2> QED
    BY <2>1, <2>4
<1> HIDE DEF S
<1>8. 1 <= m
  BY <1>3, <1>4
<1> HIDE DEF m, s
<1>9. m \in 0..(s - j)
  BY <1>6
<1>10. m \in Nat /\ m >= 1 /\ j + m <= s /\ (j + m = s \/ m < s - j)
  BY <1>1, <1>8, <1>9
<1> QED
  BY <1>5, <1>6, <1>7, <1>10 DEF m, s

\* Lines of both texts stand in the same order, and none is in t twice.
SameOrder(f, t) ==
  /\ \A a, b \in 1..Len(t) : t[a] = t[b] => a = b
  /\ \A a, b \in 1..Len(f) : \A c, d \in 1..Len(t) :
       f[a] = t[c] /\ f[b] = t[d] => (a < b <=> c < d)

LEMMA PlaceIs ==
  ASSUME NEW t \in Seq(Line), History!NoLineTwice(t), NEW a \in 1..Len(t)
  PROVE  t[a] \in History!Lines(t) /\ History!Place(t, t[a]) = a
<1>1. DOMAIN t = 1..Len(t)
  BY LenProperties
<1>2. \A b \in DOMAIN t : t[b] = t[a] => b = a
  BY <1>1 DEF History!NoLineTwice
<1>3. t[a] \in History!Lines(t)
  BY <1>1 DEF History!Lines
<1>4. History!Place(t, t[a]) = a
  BY <1>1, <1>2 DEF History!Place
<1> QED
  BY <1>3, <1>4

LEMMA OrderlyIs ==
  ASSUME NEW f \in Seq(Line), NEW t \in Seq(Line), History!Orderly(f, t)
  PROVE  SameOrder(f, t)
<1>1. History!NoLineTwice(f) /\ History!NoLineTwice(t)
  BY DEF History!Orderly
<1>2. ASSUME NEW a \in 1..Len(t), NEW b \in 1..Len(t), t[a] = t[b]
      PROVE  a = b
  <2>1. DOMAIN t = 1..Len(t)
    BY LenProperties
  <2> QED
    BY <1>1, <1>2, <2>1 DEF History!NoLineTwice
<1>3. ASSUME NEW a \in 1..Len(f), NEW b \in 1..Len(f),
             NEW c \in 1..Len(t), NEW d \in 1..Len(t),
             f[a] = t[c], f[b] = t[d]
      PROVE  a < b <=> c < d
  <2>1. /\ f[a] \in History!Lines(f) /\ History!Place(f, f[a]) = a
        /\ f[b] \in History!Lines(f) /\ History!Place(f, f[b]) = b
    BY <1>1, PlaceIs
  <2>2. /\ t[c] \in History!Lines(t) /\ History!Place(t, t[c]) = c
        /\ t[d] \in History!Lines(t) /\ History!Place(t, t[d]) = d
    BY <1>1, PlaceIs
  <2>3. \A k, l \in History!Lines(f) \cap History!Lines(t) :
          History!Place(f, k) < History!Place(f, l)
            <=> History!Place(t, k) < History!Place(t, l)
    BY DEF History!Orderly
  <2>4. /\ f[a] \in History!Lines(f) \cap History!Lines(t)
        /\ f[b] \in History!Lines(f) \cap History!Lines(t)
    BY <1>3, <2>1, <2>2
  <2> QED
    BY <1>3, <2>1, <2>2, <2>3, <2>4
<1> QED
  BY <1>2, <1>3 DEF SameOrder

\* A line that is in both texts once has one place to be found at.
Choice(f, t, start) ==
  /\ start \in [Found(f, t) -> 0..Len(t)]
  /\ \A i \in Found(f, t) : start[i] \in Candidates(f, t, i)

LEMMA DeltaChoice ==
  ASSUME NEW f, NEW t, NEW delta \in Deltas(f, t)
  PROVE  \E start : Choice(f, t, start) /\ delta = Hunks(f, t, start)
BY DEF Deltas, Choice, Chosen

\* Within a common piece the following lines are found where the piece has
\* them, with at least what is left of it: the limit is a later one.
LEMMA InsidePiece ==
  ASSUME NEW f \in Seq(Line), NEW t \in Seq(Line), SameOrder(f, t),
         NEW start, Choice(f, t, start),
         NEW i \in Found(f, t), NEW k \in Found(f, t),
         i <= k, k < i + Common(f, t, i, start[i])
  PROVE  /\ start[k] - k = start[i] - i
         /\ k + Common(f, t, k, start[k]) >= i + Common(f, t, i, start[i])
<1> DEFINE s == Shorter(f, t)
           j == start[i]
           n == Common(f, t, i, j)
           l == start[k]
           m == Common(f, t, k, l)
           si == Limit(f, t, i)
           sk == Limit(f, t, k)
<1>1. /\ i \in Nat /\ k \in Nat
      /\ j \in Candidates(f, t, i) /\ l \in Candidates(f, t, k)
  BY ShorterIs DEF Choice, Found
<1>2. /\ i <= j /\ j \in Nat /\ j < s
      /\ k <= l /\ l \in Nat /\ l < s /\ f[k + 1] = t[l + 1]
      /\ s \in Nat /\ s <= Len(f) /\ s <= Len(t)
  <2>1. i <= j /\ j \in Nat /\ j < s
    BY <1>1, CandidateIs
  <2>2. k <= l /\ l \in Nat /\ l < s /\ f[k + 1] = t[l + 1]
    BY <1>1, CandidateIs
  <2> QED
    BY <2>1, <2>2, ShorterIs
<1>3. /\ n \in Nat /\ n >= 1 /\ j + n <= si
      /\ \A x \in 1..n : f[i + x] = t[j + x]
  BY <1>1, CommonIs
<1>4. /\ m \in Nat /\ m >= 1 /\ l + m <= sk
      /\ l + m = sk \/ f[k + m + 1] # t[l + m + 1]
  BY <1>1, CommonIs
<1>5. k < i + n
  OBVIOUS
<1>6. \A a, b \in 1..Len(t) : t[a] = t[b] => a = b
  BY DEF SameOrder
<1>7. Len(f) \in Nat /\ Len(t) \in Nat
  OBVIOUS
<1>8. si \in Nat /\ sk \in Nat /\ si <= sk /\ si <= s
  <2>1. i <= k
    OBVIOUS
  <2> QED
    BY <1>1, <2>1, LimitIs
<1> HIDE DEF s, j, n, l, m, si, sk
<1>9. l - k = j - i
  <2> DEFINE x == k - i + 1
  <2>1. x \in 1..n /\ i + x = k + 1
    BY <1>1, <1>3, <1>5
  <2>2. f[k + 1] = t[j + x]
    BY <1>3, <2>1
  <2>3. j + x \in 1..Len(t) /\ l + 1 \in 1..Len(t)
    <3>1. j \in Nat /\ n \in Nat /\ j + n <= Len(t)
      BY <1>2, <1>3, <1>7, <1>8
    <3>2. l \in Nat /\ l + 1 <= Len(t)
      BY <1>2, <1>7
    <3> HIDE DEF x
    <3> QED
      BY <1>7, <2>1, <3>1, <3>2
  <2>4. l + 1 = j + x
    <3>1. t[l + 1] = t[j + x]
      BY <1>2, <2>2
    <3> HIDE DEF x
    <3> QED
      BY <1>6, <2>3, <3>1
  <2> QED
    BY <1>1, <1>2, <2>4
<1>10. /\ i \in Nat /\ j \in Nat /\ k \in Nat /\ l \in Nat
      /\ n \in Nat /\ m \in Nat /\ si \in Nat /\ sk \in Nat
      /\ j + n <= sk
  <2>1. j \in Nat /\ n \in Nat /\ j + n <= si /\ si <= sk
    BY <1>2, <1>3, <1>8
  <2>2. j + n <= sk
    BY <1>8, <2>1
  <2> QED
    BY <1>1, <1>2, <1>4, <1>8, <2>1, <2>2
<1>11. ~(k + m < i + n)
  <2> SUFFICES ASSUME k + m < i + n PROVE FALSE
    OBVIOUS
  <2> DEFINE x == k + m + 1 - i
  <2>1. x \in 1..n /\ i + x = k + m + 1 /\ j + x = l + m + 1
    <3>1. 1 <= m /\ i <= k
      BY <1>4
    <3> QED
      BY <1>9, <1>10, <3>1
  <2>2. f[k + m + 1] = t[l + m + 1]
    BY <1>3, <2>1
  <2>3. l + m < sk
    BY <1>9, <1>10
  <2> QED
    BY <1>4, <1>10, <2>2, <2>3
<1>12. k + m >= i + n
  BY <1>10, <1>11
<1> QED
  BY <1>9, <1>12 DEF j, n, l, m

\* Behind a common piece the lines are found behind it.
LEMMA BehindPiece ==
  ASSUME NEW f \in Seq(Line), NEW t \in Seq(Line), SameOrder(f, t),
         NEW start, Choice(f, t, start),
         NEW i \in Found(f, t), NEW k \in Found(f, t),
         i + Common(f, t, i, start[i]) <= k
  PROVE  start[i] + Common(f, t, i, start[i]) <= start[k]
<1> DEFINE s == Shorter(f, t)
           j == start[i]
           n == Common(f, t, i, j)
           l == start[k]
<1>1. /\ i \in Nat /\ k \in Nat
      /\ j \in Candidates(f, t, i) /\ l \in Candidates(f, t, k)
  BY ShorterIs DEF Choice, Found
<1>2. /\ i <= j /\ j \in Nat /\ j < s
      /\ k <= l /\ l \in Nat /\ l < s /\ f[k + 1] = t[l + 1]
      /\ s \in Nat /\ s <= Len(f) /\ s <= Len(t)
  <2>1. i <= j /\ j \in Nat /\ j < s
    BY <1>1, CandidateIs
  <2>2. k <= l /\ l \in Nat /\ l < s /\ f[k + 1] = t[l + 1]
    BY <1>1, CandidateIs
  <2> QED
    BY <2>1, <2>2, ShorterIs
<1>3. /\ n \in Nat /\ n >= 1 /\ j + n <= s
      /\ \A x \in 1..n : f[i + x] = t[j + x]
  <2> DEFINE e == Limit(f, t, i)
  <2>1. /\ n \in Nat /\ n >= 1 /\ j + n <= e
        /\ \A x \in 1..n : f[i + x] = t[j + x]
    BY <1>1, CommonIs
  <2>2. e \in Nat /\ e <= s
    BY <1>1, LimitIs
  <2> HIDE DEF e, n, j, s
  <2>3. j + n <= s
    BY <1>2, <2>1, <2>2
  <2> QED
    BY <2>1, <2>3
<1>4. i + n <= k
  OBVIOUS
<1>5. Len(f) \in Nat /\ Len(t) \in Nat
  OBVIOUS
<1>6. \A a, b \in 1..Len(f) : \A c, d \in 1..Len(t) :
        f[a] = t[c] /\ f[b] = t[d] => (a < b <=> c < d)
  BY DEF SameOrder
<1> HIDE DEF s, j, n, l
<1>7. f[i + n] = t[j + n]
  BY <1>3
<1>8. /\ i + n \in 1..Len(f) /\ k + 1 \in 1..Len(f)
      /\ j + n \in 1..Len(t) /\ l + 1 \in 1..Len(t)
      /\ i + n < k + 1
  BY <1>1, <1>2, <1>3, <1>4, <1>5
<1>9. j + n < l + 1
  BY <1>2, <1>6, <1>7, <1>8
<1>10. j + n <= l
  BY <1>2, <1>3, <1>9
<1> QED
  BY <1>10 DEF j, n, l

-----------------------------------------------------------------------------
(* What delta and apply_delta do line by line and hunk by hunk: their       *)
(* recursions as tables.                                                   *)

\* g[n] is what delta has after the first n lines, for n up to m.
IsPassing(g, m, f, t, start) ==
  g = [n \in 0..m |-> IF n = 0 THEN NothingPassed
                      ELSE Passed(f, t, start, g[n - 1], n - 1)]

AllPassed(f, t, start) == CHOOSE g : IsPassing(g, Len(f) + 1, f, t, start)

LEMMA PassingExists ==
  ASSUME NEW f, NEW t, NEW start, NEW m \in Nat
  PROVE  \E g : IsPassing(g, m, f, t, start)
<1> DEFINE S == {k \in Nat : \E g : IsPassing(g, k, f, t, start)}
<1>1. 0 \in S
  <2>1. IsPassing([n \in 0..0 |-> NothingPassed], 0, f, t, start)
    BY DEF IsPassing
  <2> QED
    BY <2>1
<1>2. ASSUME NEW k \in S PROVE k + 1 \in S
  <2>1. PICK g : IsPassing(g, k, f, t, start)
    OBVIOUS
  <2> DEFINE h == [n \in 0..(k + 1) |->
                     IF n = k + 1 THEN Passed(f, t, start, g[k], k) ELSE g[n]]
  <2>2. IsPassing(h, k + 1, f, t, start)
    BY <2>1 DEF IsPassing
  <2> HIDE DEF h
  <2> QED
    BY <2>2
<1>3. S = Nat
  <2>1. S \in SUBSET Nat
    OBVIOUS
  <2> HIDE DEF S
  <2> QED
    BY <1>1, <1>2, <2>1, SetInduction
<1> QED
  BY <1>3

LEMMA PassingRows ==
  ASSUME NEW f \in Seq(Line), NEW t, NEW start
  PROVE  /\ AllPassed(f, t, start)[0] = NothingPassed
         /\ \A i \in 0..Len(f) :
              AllPassed(f, t, start)[i + 1] =
                Passed(f, t, start, AllPassed(f, t, start)[i], i)
         /\ Hunks(f, t, start) = AllPassed(f, t, start)[Len(f) + 1].hunks
<1> DEFINE g == AllPassed(f, t, start)
           m == Len(f) + 1
<1>1. m \in Nat /\ m = Len(f) + 1
  OBVIOUS
<1>2. \E h : IsPassing(h, m, f, t, start)
  BY <1>1, PassingExists
<1>3. IsPassing(g, m, f, t, start)
  BY <1>2 DEF AllPassed
<1>4. Hunks(f, t, start) = g[m].hunks
  BY DEF Hunks, AllPassed, IsPassing
<1>5. Len(f) \in Nat
  OBVIOUS
<1> HIDE DEF g, m
<1>6. g = [n \in 0..m |-> IF n = 0 THEN NothingPassed
                          ELSE Passed(f, t, start, g[n - 1], n - 1)]
  BY <1>3 DEF IsPassing
<1>7. g[0] = NothingPassed
  BY <1>1, <1>6
<1>8. ASSUME NEW i \in 0..Len(f)
      PROVE  g[i + 1] = Passed(f, t, start, g[i], i)
  <2>1. i + 1 \in 0..m /\ i + 1 # 0 /\ (i + 1) - 1 = i
    BY <1>1, <1>5
  <2> QED
    BY <1>6, <2>1
<1> QED
  BY <1>4, <1>7, <1>8 DEF g, m

IsApplying(g, m, f, hunks) ==
  g = [n \in 0..m |-> IF n = 0 THEN NothingApplied
                      ELSE Applied(f, g[n - 1], hunks[n])]

LEMMA ApplyingExists ==
  ASSUME NEW f, NEW hunks, NEW m \in Nat
  PROVE  \E g : IsApplying(g, m, f, hunks)
<1> DEFINE S == {k \in Nat : \E g : IsApplying(g, k, f, hunks)}
<1>1. 0 \in S
  <2>1. IsApplying([n \in 0..0 |-> NothingApplied], 0, f, hunks)
    BY DEF IsApplying
  <2> QED
    BY <2>1
<1>2. ASSUME NEW k \in S PROVE k + 1 \in S
  <2>1. PICK g : IsApplying(g, k, f, hunks)
    OBVIOUS
  <2> DEFINE h == [n \in 0..(k + 1) |->
                     IF n = k + 1 THEN Applied(f, g[k], hunks[k + 1])
                     ELSE g[n]]
  <2>2. IsApplying(h, k + 1, f, hunks)
    BY <2>1 DEF IsApplying
  <2> HIDE DEF h
  <2> QED
    BY <2>2
<1>3. S = Nat
  <2>1. S \in SUBSET Nat
    OBVIOUS
  <2> HIDE DEF S
  <2> QED
    BY <1>1, <1>2, <2>1, SetInduction
<1> QED
  BY <1>3

ApplyingOf(f, hunks) == CHOOSE g : IsApplying(g, Len(hunks), f, hunks)

LEMMA ApplyingRows ==
  ASSUME NEW f, NEW hunks, Len(hunks) \in Nat
  PROVE  /\ ApplyingOf(f, hunks)[0] = NothingApplied
         /\ \A n \in 1..Len(hunks) :
              ApplyingOf(f, hunks)[n] =
                Applied(f, ApplyingOf(f, hunks)[n - 1], hunks[n])
         /\ AllApplied(f, hunks) = ApplyingOf(f, hunks)[Len(hunks)]
<1> DEFINE g == ApplyingOf(f, hunks)
           m == Len(hunks)
<1>1. m \in Nat
  OBVIOUS
<1>2. \E h : IsApplying(h, m, f, hunks)
  BY <1>1, ApplyingExists
<1>3. IsApplying(g, m, f, hunks)
  BY <1>2 DEF ApplyingOf
<1>4. AllApplied(f, hunks) = g[m]
  BY DEF AllApplied, ApplyingOf, IsApplying
<1> HIDE DEF g, m
<1>5. g = [n \in 0..m |-> IF n = 0 THEN NothingApplied
                          ELSE Applied(f, g[n - 1], hunks[n])]
  BY <1>3 DEF IsApplying
<1>6. g[0] = NothingApplied
  BY <1>1, <1>5
<1>7. ASSUME NEW n \in 1..m PROVE g[n] = Applied(f, g[n - 1], hunks[n])
  BY <1>1, <1>5
<1> QED
  BY <1>4, <1>6, <1>7 DEF g, m

LEMMA NoHunks == ASSUME NEW f PROVE AllApplied(f, <<>>) = NothingApplied
<1>1. Len(<<>>) = 0
  OBVIOUS
<1> QED
  BY <1>1, ApplyingRows

\* apply_delta of a difference with one more hunk
LEMMA OneMoreHunk ==
  ASSUME NEW f, NEW S, NEW hunks \in Seq(S), NEW h \in S
  PROVE  AllApplied(f, Append(hunks, h)) = Applied(f, AllApplied(f, hunks), h)
<1> DEFINE more == Append(hunks, h)
           m == Len(hunks)
           g == ApplyingOf(f, hunks)
           k == ApplyingOf(f, more)
<1>1. /\ m \in Nat /\ Len(more) = m + 1
      /\ \A n \in 1..m : more[n] = hunks[n]
      /\ more[m + 1] = h
  BY AppendProperties
<1>2. /\ g[0] = NothingApplied
      /\ \A n \in 1..m : g[n] = Applied(f, g[n - 1], hunks[n])
      /\ AllApplied(f, hunks) = g[m]
  BY <1>1, ApplyingRows
<1>3. /\ k[0] = NothingApplied
      /\ \A n \in 1..(m + 1) : k[n] = Applied(f, k[n - 1], more[n])
      /\ AllApplied(f, more) = k[m + 1]
  <2>1. Len(more) \in Nat
    BY <1>1
  <2> HIDE DEF more
  <2> QED
    BY <1>1, <2>1, ApplyingRows
<1> HIDE DEF more, m, g, k
<1> DEFINE T == {n \in Nat : n <= m => k[n] = g[n]}
<1>4. 0 \in T
  BY <1>2, <1>3
<1>5. ASSUME NEW n \in T PROVE n + 1 \in T
  <2> SUFFICES ASSUME n + 1 <= m PROVE k[n + 1] = g[n + 1]
    OBVIOUS
  <2>1. /\ n \in Nat /\ n + 1 \in 1..m /\ n + 1 \in 1..(m + 1)
        /\ (n + 1) - 1 = n /\ k[n] = g[n]
    BY <1>1
  <2>2. g[n + 1] = Applied(f, g[n], hunks[n + 1])
    BY <1>2, <2>1
  <2>3. k[n + 1] = Applied(f, k[n], more[n + 1])
    BY <1>3, <2>1
  <2> QED
    BY <1>1, <2>1, <2>2, <2>3
<1>6. T = Nat
  <2>1. T \in SUBSET Nat
    OBVIOUS
  <2> HIDE DEF T
  <2> QED
    BY <1>4, <1>5, <2>1, SetInduction
<1>7. k[m] = g[m]
  BY <1>1, <1>6
<1>8. k[m + 1] = Applied(f, k[m], h)
  <2>1. m + 1 \in 1..(m + 1) /\ (m + 1) - 1 = m
    BY <1>1
  <2> QED
    BY <1>1, <1>3, <2>1
<1>9. AllApplied(f, more) = Applied(f, AllApplied(f, hunks), h)
  BY <1>2, <1>3, <1>7, <1>8
<1> QED
  BY <1>9 DEF more

-----------------------------------------------------------------------------
(* Whatever the texts are, a difference of f is made of lines of f.         *)

Change(f) == [at : 0..Len(f), drop : Nat, add : Seq(Line)]

Passing(f, t) == [f : 0..Len(f), t : 0..Len(t), hunks : Seq(Change(f))]

Applying == [at : Nat, out : Seq(Line)]

\* The first lines of a text and the following ones
LEMMA Joined ==
  ASSUME NEW s \in Seq(Line), NEW a \in Nat, NEW b \in Nat, NEW c \in Nat,
         a <= b, b <= c, c <= Len(s)
  PROVE  SubSeq(s, a + 1, b) \o SubSeq(s, b + 1, c) = SubSeq(s, a + 1, c)
<1>1. Len(s) \in Nat
  OBVIOUS
<1>2. /\ a + 1 \in 1..(Len(s) + 1)
      /\ b \in ((a + 1) - 1)..Len(s) /\ c \in b..Len(s)
  BY <1>1
<1> QED
  BY <1>2, ConcatAdjacentSubSeq

LEMMA Beginning ==
  ASSUME NEW s \in Seq(Line), NEW b \in Nat, NEW c \in Nat,
         b <= c, c <= Len(s)
  PROVE  SubSeq(s, 1, b) \o SubSeq(s, b + 1, c) = SubSeq(s, 1, c)
<1>1. 0 \in Nat /\ 0 <= b /\ 0 + 1 = 1
  OBVIOUS
<1>2. SubSeq(s, 0 + 1, b) \o SubSeq(s, b + 1, c) = SubSeq(s, 0 + 1, c)
  BY <1>1, Joined
<1> QED
  BY <1>1, <1>2

LEMMA Part ==
  ASSUME NEW s \in Seq(Line), NEW a \in Nat, NEW b \in Int, b <= Len(s)
  PROVE  /\ SubSeq(s, a + 1, b) \in Seq(Line)
         /\ Len(SubSeq(s, a + 1, b)) = IF a < b THEN b - a ELSE 0
         /\ \A i \in 1..(b - a) : SubSeq(s, a + 1, b)[i] = s[a + i]
<1>1. Len(s) \in Nat
  OBVIOUS
<1>2. \A i \in (a + 1)..b : s[i] \in Line
  <2> TAKE i \in (a + 1)..b
  <2>1. i \in 1..Len(s)
    BY <1>1
  <2> QED
    BY <2>1, ElementOfSeq
<1>3. a + 1 \in Int
  OBVIOUS
<1>4. /\ SubSeq(s, a + 1, b) \in Seq(Line)
      /\ Len(SubSeq(s, a + 1, b)) = IF a + 1 <= b THEN b - (a + 1) + 1 ELSE 0
      /\ \A i \in 1..(b - (a + 1) + 1) :
           SubSeq(s, a + 1, b)[i] = s[(a + 1) + i - 1]
  BY <1>2, <1>3, SubSeqProperties
<1> DEFINE p == SubSeq(s, a + 1, b)
<1> HIDE DEF p
<1>5. b - (a + 1) + 1 = b - a /\ (a + 1 <= b <=> a < b)
  OBVIOUS
<1>6. \A i \in 1..(b - a) : (a + 1) + i - 1 = a + i
  OBVIOUS
<1> QED
  BY <1>4, <1>5, <1>6

LEMMA AppliedType ==
  ASSUME NEW f \in Seq(Line), NEW done \in Applying, NEW h \in Change(f)
  PROVE  Applied(f, done, h) \in Applying
<1>1. /\ done.at \in Nat /\ done.out \in Seq(Line)
      /\ h.at \in 0..Len(f) /\ h.drop \in Nat /\ h.add \in Seq(Line)
  BY DEF Applying, Change
<1>2. Len(f) \in Nat
  OBVIOUS
<1>3. SubSeq(f, done.at + 1, h.at) \in Seq(Line)
  BY <1>1, <1>2, Part
<1>4. done.out \o SubSeq(f, done.at + 1, h.at) \o h.add \in Seq(Line)
  BY <1>1, <1>3, ConcatProperties
<1>5. Max({done.at, h.at}) + h.drop \in Nat
  <2>1. done.at \in Int /\ h.at \in Int
    BY <1>1, <1>2
  <2>2. Max({done.at, h.at}) = IF done.at >= h.at THEN done.at ELSE h.at
    BY <2>1, LargerOfTwo
  <2> QED
    BY <1>1, <1>2, <2>2
<1> QED
  BY <1>4, <1>5 DEF Applied, Applying

LEMMA AllAppliedType ==
  ASSUME NEW f \in Seq(Line), NEW hunks \in Seq(Change(f))
  PROVE  AllApplied(f, hunks) \in Applying
<1> DEFINE g == ApplyingOf(f, hunks)
           m == Len(hunks)
           T == {n \in Nat : n <= m => g[n] \in Applying}
<1>1. m \in Nat /\ \A n \in 1..m : hunks[n] \in Change(f)
  BY ElementOfSeq
<1>2. /\ g[0] = NothingApplied
      /\ \A n \in 1..m : g[n] = Applied(f, g[n - 1], hunks[n])
      /\ AllApplied(f, hunks) = g[m]
  BY <1>1, ApplyingRows
<1> HIDE DEF g, m
<1>3. 0 \in T
  <2>1. NothingApplied \in Applying
    BY DEF NothingApplied, Applying
  <2> QED
    BY <1>2, <2>1
<1>4. ASSUME NEW n \in T PROVE n + 1 \in T
  <2> SUFFICES ASSUME n + 1 <= m PROVE g[n + 1] \in Applying
    OBVIOUS
  <2>1. /\ n \in Nat /\ n + 1 \in 1..m /\ (n + 1) - 1 = n
        /\ g[n] \in Applying
    BY <1>1
  <2>2. g[n + 1] = Applied(f, g[n], hunks[n + 1])
    BY <1>2, <2>1
  <2> QED
    BY <1>1, <2>1, <2>2, AppliedType
<1>5. T = Nat
  <2>1. T \in SUBSET Nat
    OBVIOUS
  <2> HIDE DEF T
  <2> QED
    BY <1>3, <1>4, <2>1, SetInduction
<1>6. g[m] \in Applying
  BY <1>1, <1>5
<1> HIDE DEF T
<1> QED
  BY <1>2, <1>6

LEMMA ApplyDeltaType ==
  ASSUME NEW f \in Seq(Line), NEW hunks \in Seq(Change(f))
  PROVE  ApplyDelta(f, hunks) \in Seq(Line)
<1> DEFINE end == AllApplied(f, hunks)
<1>1. end.at \in Nat /\ end.out \in Seq(Line)
  BY AllAppliedType DEF Applying
<1> HIDE DEF end
<1>2. SubSeq(f, end.at + 1, Len(f)) \in Seq(Line)
  BY <1>1, Part
<1>3. end.out \o SubSeq(f, end.at + 1, Len(f)) \in Seq(Line)
  BY <1>1, <1>2, ConcatProperties
<1> QED
  BY <1>3 DEF ApplyDelta, end

\* A piece lies within both texts.
LEMMA PieceIs ==
  ASSUME NEW f \in Seq(Line), NEW t \in Seq(Line), NEW start,
         Choice(f, t, start), NEW i \in 0..Len(f)
  PROVE  LET p == Piece(f, t, i, start) IN
         /\ p = [f |-> p.f, t |-> p.t, length |-> p.length]
         /\ p.f \in Nat /\ p.t \in Nat /\ p.length \in Nat
         /\ p.f + p.length <= Len(f) /\ p.t + p.length <= Len(t)
         /\ i = Len(f) => p.f = i /\ p.t = Len(t) /\ p.length = 0
         /\ i < Len(f) /\ i \in Found(f, t) =>
              /\ p.f = i /\ p.t = start[i]
              /\ p.length = Common(f, t, i, start[i])
         /\ i < Len(f) /\ i \notin Found(f, t) =>
              p.f = 0 /\ p.t = 0 /\ p.length = 0
<1>1. Len(f) \in Nat /\ Len(t) \in Nat
  OBVIOUS
<1>2. CASE i = Len(f)
  BY <1>1, <1>2 DEF Piece
<1>3. CASE i # Len(f) /\ i \in Found(f, t)
  <2> DEFINE s == Limit(f, t, i)
             j == start[i]
             n == Common(f, t, i, j)
  <2>1. i \in DOMAIN start
    BY <1>3 DEF Choice
  <2>2. Piece(f, t, i, start) = [f |-> i, t |-> j, length |-> n]
    BY <1>3, <2>1 DEF Piece
  <2>3. i \in Nat /\ j \in Candidates(f, t, i)
    BY <1>3 DEF Choice
  <2>4. i <= j /\ j \in Nat
    BY <2>3, CandidateIs
  <2>5. n \in Nat /\ j + n <= s
    BY <2>3, CommonIs
  <2>6. s \in Nat /\ s <= Len(f) /\ s <= Len(t)
    <3> DEFINE e == Shorter(f, t)
    <3>1. s \in Nat /\ s <= e
      BY <2>3, LimitIs
    <3>2. e \in Nat /\ e <= Len(f) /\ e <= Len(t)
      BY ShorterIs
    <3> HIDE DEF s, e
    <3> QED
      BY <1>1, <3>1, <3>2
  <2> HIDE DEF s, n, j
  <2>7. i + n <= Len(f) /\ j + n <= Len(t)
    BY <1>1, <2>3, <2>4, <2>5, <2>6
  <2> QED
    BY <1>3, <2>2, <2>3, <2>4, <2>5, <2>7 DEF n, j
<1>4. CASE i # Len(f) /\ i \notin Found(f, t)
  <2>1. i \notin DOMAIN start
    BY <1>4 DEF Choice
  <2>2. Piece(f, t, i, start) = [f |-> 0, t |-> 0, length |-> 0]
    BY <1>4, <2>1 DEF Piece
  <2> QED
    BY <1>1, <1>4, <2>2
<1> QED
  BY <1>2, <1>3, <1>4

LEMMA HunkType ==
  ASSUME NEW f \in Seq(Line), NEW t \in Seq(Line), NEW start,
         Choice(f, t, start), NEW i \in 0..Len(f), NEW done \in Passing(f, t)
  PROVE  Hunk(f, t, done, Piece(f, t, i, start)) \in Change(f)
<1> DEFINE p == Piece(f, t, i, start)
<1>1. /\ p.f \in Nat /\ p.t \in Nat /\ p.length \in Nat
      /\ p.t + p.length <= Len(t)
  BY PieceIs
<1>2. /\ done.f \in 0..Len(f) /\ done.t \in 0..Len(t)
      /\ Len(f) \in Nat /\ Len(t) \in Nat
  BY DEF Passing
<1> HIDE DEF p
<1>3. Max({0, p.f - done.f}) \in Nat
  <2>1. p.f - done.f \in Int
    BY <1>1, <1>2
  <2>2. Max({0, p.f - done.f})
          = IF 0 >= p.f - done.f THEN 0 ELSE p.f - done.f
    BY <2>1, LargerOfTwo
  <2> QED
    BY <2>1, <2>2
<1>4. SubSeq(t, done.t + 1, p.t) \in Seq(Line)
  <2>1. done.t \in Nat /\ p.t \in Int /\ p.t <= Len(t)
    BY <1>1, <1>2
  <2> QED
    BY <2>1, Part
<1>5. Hunk(f, t, done, p) \in Change(f)
  BY <1>2, <1>3, <1>4 DEF Hunk, Change
<1> QED
  BY <1>5 DEF p

LEMMA PassedType ==
  ASSUME NEW f \in Seq(Line), NEW t \in Seq(Line), NEW start,
         Choice(f, t, start), NEW i \in 0..Len(f), NEW done \in Passing(f, t)
  PROVE  Passed(f, t, start, done, i) \in Passing(f, t)
<1> DEFINE p == Piece(f, t, i, start)
           h == Hunk(f, t, done, p)
<1>1. /\ p.f \in Nat /\ p.t \in Nat /\ p.length \in Nat
      /\ p.f + p.length <= Len(f) /\ p.t + p.length <= Len(t)
  BY PieceIs
<1>2. /\ done.f \in 0..Len(f) /\ done.t \in 0..Len(t)
      /\ done.hunks \in Seq(Change(f))
      /\ Len(f) \in Nat /\ Len(t) \in Nat
  BY DEF Passing
<1> HIDE DEF p
<1>3. h \in Change(f)
  BY HunkType DEF p
<1> HIDE DEF h
<1>4. Append(done.hunks, h) \in Seq(Change(f))
  BY <1>2, <1>3, AppendProperties
<1>5. p.f + p.length \in 0..Len(f) /\ p.t + p.length \in 0..Len(t)
  <2>1. \A u, v, w \in Nat : u + v <= w => u + v \in 0..w
    OBVIOUS
  <2> QED
    BY <1>1, <1>2, <2>1
<1> QED
  BY <1>2, <1>4, <1>5 DEF Passed, Passing, p, h

LEMMA AllPassedType ==
  ASSUME NEW f \in Seq(Line), NEW t \in Seq(Line), NEW start,
         Choice(f, t, start)
  PROVE  \A n \in 0..(Len(f) + 1) :
           AllPassed(f, t, start)[n] \in Passing(f, t)
<1> DEFINE g == AllPassed(f, t, start)
           m == Len(f)
           T == {n \in Nat : n <= m + 1 => g[n] \in Passing(f, t)}
<1>1. m \in Nat
  OBVIOUS
<1>2. /\ g[0] = NothingPassed
      /\ \A i \in 0..m : g[i + 1] = Passed(f, t, start, g[i], i)
  BY PassingRows
<1>3. NothingPassed \in Passing(f, t)
  BY DEF NothingPassed, Passing
<1>4. ASSUME NEW i \in 0..m, g[i] \in Passing(f, t)
      PROVE  g[i + 1] \in Passing(f, t)
  BY <1>2, <1>4, PassedType
<1> HIDE DEF g, m
<1>5. 0 \in T
  BY <1>2, <1>3
<1>6. ASSUME NEW n \in T PROVE n + 1 \in T
  <2> SUFFICES ASSUME n + 1 <= m + 1 PROVE g[n + 1] \in Passing(f, t)
    OBVIOUS
  <2>1. n \in 0..m /\ g[n] \in Passing(f, t)
    BY <1>1
  <2> QED
    BY <1>4, <2>1
<1>7. T = Nat
  <2>1. T \in SUBSET Nat
    OBVIOUS
  <2> HIDE DEF T
  <2> QED
    BY <1>5, <1>6, <2>1, SetInduction
<1>8. \A n \in 0..(m + 1) : g[n] \in Passing(f, t)
  BY <1>1, <1>7
<1> QED
  BY <1>8 DEF g, m

LEMMA DeltaType ==
  ASSUME NEW f \in Seq(Line), NEW t \in Seq(Line), NEW delta \in Deltas(f, t)
  PROVE  delta \in Seq(Change(f)) /\ ApplyDelta(f, delta) \in Seq(Line)
<1>1. PICK start : Choice(f, t, start) /\ delta = Hunks(f, t, start)
  BY DeltaChoice
<1>2. Len(f) + 1 \in 0..(Len(f) + 1)
  OBVIOUS
<1>3. AllPassed(f, t, start)[Len(f) + 1] \in Passing(f, t)
  BY <1>1, <1>2, AllPassedType
<1>4. delta \in Seq(Change(f))
  BY <1>1, <1>3, PassingRows DEF Passing
<1> QED
  BY <1>4, ApplyDeltaType

-----------------------------------------------------------------------------
(* The difference of texts whose lines keep their order, applied.           *)

\* What is written when f has been copied up to x
Copied(f, done, x) == done.out \o SubSeq(f, done.at + 1, x)

\* With the hunks applied and f copied up to x, there is t up to y.
Reads(f, t, hunks, x, y) ==
  LET all == AllApplied(f, hunks) IN
  /\ all.at <= x
  /\ Copied(f, all, x) = SubSeq(t, 1, y)

\* A hunk brings both further, and so does the lack of one where there is
\* nothing to drop and to add.
LEMMA HunkReads ==
  ASSUME NEW f \in Seq(Line), NEW t \in Seq(Line),
         NEW hunks \in Seq(Change(f)),
         NEW a \in Nat, NEW b \in Nat, NEW x \in Nat, NEW y \in Nat,
         a <= x, x <= Len(f), b <= y, y <= Len(t),
         Reads(f, t, hunks, a, b),
         NEW h \in Change(f),
         h.at = a, h.drop = x - a, h.add = SubSeq(t, b + 1, y)
  PROVE  Reads(f, t, IF h.drop = 0 /\ h.add = <<>> THEN hunks
                     ELSE Append(hunks, h), x, y)
<1> DEFINE all == AllApplied(f, hunks)
<1>1. /\ all.at \in Nat /\ all.out \in Seq(Line)
      /\ Len(f) \in Nat /\ Len(t) \in Nat
  BY AllAppliedType DEF Applying
<1>2. /\ all.at <= a
      /\ all.out \o SubSeq(f, all.at + 1, a) = SubSeq(t, 1, b)
  BY DEF Reads, Copied
<1>3. /\ SubSeq(t, b + 1, y) \in Seq(Line)
      /\ Len(SubSeq(t, b + 1, y)) = IF b < y THEN y - b ELSE 0
  BY <1>1, Part
<1>4. h.drop = x - a /\ h.at = a /\ h.add = SubSeq(t, b + 1, y)
  OBVIOUS
<1>5. SubSeq(t, 1, b) \o SubSeq(t, b + 1, y) = SubSeq(t, 1, y)
  BY <1>1, Beginning
<1>6. CASE h.drop = 0 /\ h.add = <<>>
  <2>1. x = a
    BY <1>4, <1>6
  <2>2. y = b
    <3>1. Len(SubSeq(t, b + 1, y)) = 0
      BY <1>4, <1>6
    <3> QED
      BY <1>3, <3>1
  <2>3. Reads(f, t, hunks, x, y)
    BY <2>1, <2>2
  <2> QED
    BY <1>6, <2>3
<1>7. CASE ~(h.drop = 0 /\ h.add = <<>>)
  <2> DEFINE new == AllApplied(f, Append(hunks, h))
  <2>2. new = Applied(f, all, h)
    BY OneMoreHunk
  <2>3. Max({all.at, a}) = a
    <3>1. all.at \in Int /\ a \in Int
      BY <1>1
    <3>2. Max({all.at, a}) = IF all.at >= a THEN all.at ELSE a
      BY <3>1, LargerOfTwo
    <3> QED
      BY <1>1, <1>2, <3>2
  <2>4. /\ new.at = Max({all.at, a}) + (x - a)
        /\ new.out = all.out \o SubSeq(f, all.at + 1, a)
                       \o SubSeq(t, b + 1, y)
    <3> HIDE DEF new, all
    <3> QED
      BY <1>4, <2>2 DEF Applied
  <2>5. new.at = x /\ new.out = SubSeq(t, 1, y)
    <3>1. a + (x - a) = x
      OBVIOUS
    <3> HIDE DEF new, all
    <3> QED
      BY <1>2, <1>5, <2>3, <2>4, <3>1
  <2>6. SubSeq(f, x + 1, x) = <<>>
    BY SubSeqEmpty
  <2>7. SubSeq(t, 1, y) \o <<>> = SubSeq(t, 1, y)
    <3>1. SubSeq(t, 0 + 1, y) \in Seq(Line)
      BY <1>1, Part
    <3>2. SubSeq(t, 1, y) \in Seq(Line)
      BY <3>1
    <3> QED
      BY <3>2, ConcatEmptySeq
  <2>8. new.at <= x /\ new.out \o SubSeq(f, new.at + 1, x) = SubSeq(t, 1, y)
    <3> HIDE DEF new
    <3> QED
      BY <2>5, <2>6, <2>7
  <2>9. Reads(f, t, Append(hunks, h), x, y)
    BY <2>8 DEF Reads, Copied
  <2> QED
    BY <1>7, <2>9
<1> QED
  BY <1>6, <1>7

Join(p, q) == p \o q

LEMMA Regrouped ==
  ASSUME NEW p \in Seq(Line), NEW q \in Seq(Line), NEW r \in Seq(Line)
  PROVE  Join(p, Join(q, r)) = Join(Join(p, q), r)
<1>1. p \o (q \o r) = (p \o q) \o r
  OBVIOUS
<1> QED
  BY <1>1 DEF Join

LEMMA CopiedFurther ==
  ASSUME NEW f \in Seq(Line), NEW done \in Applying,
         NEW x \in Nat, NEW z \in Nat,
         done.at <= x, x <= z, z <= Len(f)
  PROVE  Copied(f, done, z) = Copied(f, done, x) \o SubSeq(f, x + 1, z)
<1> DEFINE o == done.out
           a == done.at
           p == SubSeq(f, a + 1, x)
           q == SubSeq(f, x + 1, z)
           rest == SubSeq(f, a + 1, z)
<1>1. o \in Seq(Line) /\ a \in Nat /\ a <= x
  BY DEF Applying
<1> HIDE DEF o, a
<1>2. p \in Seq(Line) /\ q \in Seq(Line)
  <2>1. x \in Int /\ z \in Int /\ x <= Len(f)
    OBVIOUS
  <2> QED
    BY <1>1, <2>1, Part
<1>3. rest = Join(p, q)
  BY <1>1, Joined DEF Join
<1>4. /\ Copied(f, done, x) = Join(o, p) /\ Copied(f, done, z) = Join(o, rest)
      /\ Copied(f, done, x) \o q = Join(Copied(f, done, x), q)
  BY DEF Copied, Join, o, a
<1> HIDE DEF p, q, rest
<1>5. Join(o, rest) = Join(Join(o, p), q)
  BY <1>1, <1>2, <1>3, Regrouped
<1>6. Copied(f, done, z) = Copied(f, done, x) \o q
  BY <1>4, <1>5
<1> QED
  BY <1>6 DEF q

LEMMA ReadsFurther ==
  ASSUME NEW f \in Seq(Line), NEW t \in Seq(Line),
         NEW hunks \in Seq(Change(f)),
         NEW x \in Nat, NEW y \in Nat, NEW z \in Nat, NEW w \in Nat,
         x <= z, z <= Len(f), y <= w, w <= Len(t),
         SubSeq(f, x + 1, z) = SubSeq(t, y + 1, w),
         Reads(f, t, hunks, x, y)
  PROVE  Reads(f, t, hunks, z, w)
<1> DEFINE all == AllApplied(f, hunks)
<1>1. all \in Applying
  BY AllAppliedType
<1>2. all.at <= x /\ Copied(f, all, x) = SubSeq(t, 1, y)
  BY DEF Reads
<1>3. SubSeq(t, 1, y) \o SubSeq(t, y + 1, w) = SubSeq(t, 1, w)
  BY Beginning
<1> HIDE DEF all
<1>4. Copied(f, all, z) = Copied(f, all, x) \o SubSeq(f, x + 1, z)
  BY <1>1, <1>2, CopiedFurther
<1>5. Copied(f, all, z) = SubSeq(t, 1, w)
  BY <1>2, <1>3, <1>4
<1>6. all.at <= z
  BY <1>1, <1>2 DEF Applying
<1> QED
  BY <1>5, <1>6 DEF Reads, all

\* So do lines that both texts have.
LEMMA CommonReads ==
  ASSUME NEW f \in Seq(Line), NEW t \in Seq(Line),
         NEW hunks \in Seq(Change(f)),
         NEW x \in Nat, NEW y \in Nat, NEW z \in Nat, NEW w \in Nat,
         x <= z, z <= Len(f), y <= w, w <= Len(t), z - x = w - y,
         \A k \in 1..(z - x) : f[x + k] = t[y + k],
         Reads(f, t, hunks, x, y)
  PROVE  Reads(f, t, hunks, z, w)
<1> DEFINE C == SubSeq(f, x + 1, z)
           D == SubSeq(t, y + 1, w)
<1>1. C = D
  <2>1. /\ C \in Seq(Line)
        /\ Len(C) = IF x < z THEN z - x ELSE 0
        /\ \A k \in 1..(z - x) : C[k] = f[x + k]
    <3>1. z \in Int
      OBVIOUS
    <3> QED
      BY <3>1, Part
  <2>2. /\ D \in Seq(Line)
        /\ Len(D) = IF y < w THEN w - y ELSE 0
        /\ \A k \in 1..(w - y) : D[k] = t[y + k]
    <3>1. w \in Int
      OBVIOUS
    <3> QED
      BY <3>1, Part
  <2> HIDE DEF C, D
  <2>3. Len(C) = z - x /\ Len(D) = z - x
    BY <2>1, <2>2
  <2>4. \A k \in 1..Len(C) : C[k] = D[k]
    BY <2>1, <2>2, <2>3
  <2> QED
    BY <2>1, <2>2, <2>3, <2>4, SeqEqual
<1> QED
  BY <1>1, ReadsFurther

\* What delta has passed before the line i
Right(f, t, start, done, i) ==
  /\ i = 0 => done = NothingPassed
  /\ Reads(f, t, done.hunks, done.f, done.t)
  /\ \A k \in Found(f, t) :
       k >= i =>
         IF k < done.f
           THEN /\ start[k] - k = done.t - done.f
                /\ k + Common(f, t, k, start[k]) >= done.f
           ELSE done.t <= start[k]

LEMMA StartsRight ==
  ASSUME NEW f \in Seq(Line), NEW t \in Seq(Line), NEW start,
         Choice(f, t, start)
  PROVE  Right(f, t, start, NothingPassed, 0)
<1> DEFINE d == NothingPassed
<1>1. d.f = 0 /\ d.t = 0 /\ d.hunks = <<>>
  BY DEF NothingPassed
<1>2. AllApplied(f, <<>>) = [at |-> 0, out |-> <<>>]
  BY NoHunks DEF NothingApplied
<1>3. SubSeq(f, 1, 0) = <<>> /\ SubSeq(t, 1, 0) = <<>>
  BY SubSeqEmpty
<1>4. <<>> \o <<>> = <<>>
  OBVIOUS
<1>5. Reads(f, t, <<>>, 0, 0)
  BY <1>2, <1>3, <1>4 DEF Reads, Copied
<1>6. \A k \in Found(f, t) : k \in Nat /\ start[k] \in Nat
  BY ShorterIs DEF Found, Choice
<1> QED
  BY <1>1, <1>5, <1>6 DEF Right

\* A line of f more.

LEMMA StepRight ==
  ASSUME NEW f \in Seq(Line), NEW t \in Seq(Line), SameOrder(f, t),
         NEW start, Choice(f, t, start),
         NEW done \in Passing(f, t), NEW i \in Nat, i < Len(f),
         Right(f, t, start, done, i)
  PROVE  Right(f, t, start, Passed(f, t, start, done, i), i + 1)
<1> DEFINE p == Piece(f, t, i, start)
           h == Hunk(f, t, done, p)
           new == Passed(f, t, start, done, i)
<1>1. /\ done.f \in Nat /\ done.t \in Nat /\ done.hunks \in Seq(Change(f))
      /\ done.f <= Len(f) /\ done.t <= Len(t)
      /\ Len(f) \in Nat /\ Len(t) \in Nat
  BY DEF Passing
<1>2. /\ Reads(f, t, done.hunks, done.f, done.t)
      /\ i = 0 => done = NothingPassed
      /\ \A k \in Found(f, t) :
           k >= i =>
             IF k < done.f
               THEN /\ start[k] - k = done.t - done.f
                    /\ k + Common(f, t, k, start[k]) >= done.f
               ELSE done.t <= start[k]
  BY DEF Right
<1>3. \A k \in Found(f, t) : k \in Nat /\ start[k] \in Nat
  BY ShorterIs DEF Found, Choice
<1>4. ASSUME new.f = done.f, new.t = done.t, new.hunks = done.hunks
      PROVE  Right(f, t, start, new, i + 1)
  <2>1. \A k \in Found(f, t) : k >= i + 1 => k >= i
    BY <1>3
  <2>2. i + 1 # 0
    OBVIOUS
  <2> HIDE DEF new
  <2> QED
    BY <1>2, <1>4, <2>1, <2>2 DEF Right
<1>5. CASE i \notin Cuts(f, t)
  BY <1>4, <1>5 DEF Passed
<1>6. ASSUME i \in Cuts(f, t)
      PROVE  /\ new.f = p.f + p.length /\ new.t = p.t + p.length
             /\ new.hunks = IF h.drop = 0 /\ h.add = <<>> THEN done.hunks
                            ELSE Append(done.hunks, h)
  <2> HIDE DEF p, h
  <2> QED
    BY <1>6 DEF Passed, p, h
<1>7. /\ h.at = done.f
      /\ h.drop = Max({0, p.f - done.f})
      /\ h.add = SubSeq(t, done.t + 1, p.t)
  BY DEF Hunk
<1>8. i \in 0..Len(f)
  BY <1>1
<1>9. /\ p.f \in Nat /\ p.t \in Nat /\ p.length \in Nat
      /\ p.f + p.length <= Len(f) /\ p.t + p.length <= Len(t)
      /\ i \in Found(f, t) =>
           /\ p.f = i /\ p.t = start[i]
           /\ p.length = Common(f, t, i, start[i])
      /\ i \notin Found(f, t) =>
           p.f = 0 /\ p.t = 0 /\ p.length = 0
  BY <1>8, PieceIs
<1>10. Max({0, p.f - done.f})
         = IF 0 >= p.f - done.f THEN 0 ELSE p.f - done.f
  <2>1. p.f - done.f \in Int
    BY <1>1, <1>9
  <2> HIDE DEF p
  <2> QED
    BY <2>1, LargerOfTwo
<1> HIDE DEF p, h, new
<1>11. ASSUME p.f <= done.f, p.t <= done.t
       PROVE  h.drop = 0 /\ h.add = <<>>
  <2>1. SubSeq(t, done.t + 1, p.t) = <<>>
    <3>1. done.t + 1 \in Int /\ p.t \in Int /\ done.t + 1 > p.t
      BY <1>1, <1>9, <1>11
    <3> QED
      BY <3>1, SubSeqEmpty
  <2>2. 0 >= p.f - done.f
    BY <1>1, <1>9, <1>11
  <2> QED
    BY <1>7, <1>10, <2>1, <2>2
<1>12. CASE i \in Cuts(f, t) /\ i \notin Found(f, t)
  <2>1. i = 0
    BY <1>12 DEF Cuts
  <2>2. done.f = 0 /\ done.t = 0
    BY <1>2, <2>1 DEF NothingPassed
  <2>3. p.f = 0 /\ p.t = 0 /\ p.length = 0
    BY <1>9, <1>12
  <2>4. h.drop = 0 /\ h.add = <<>>
    BY <1>11, <2>2, <2>3
  <2>5. new.f = done.f /\ new.t = done.t /\ new.hunks = done.hunks
    BY <1>6, <1>12, <2>2, <2>3, <2>4
  <2> QED
    BY <1>4, <2>5 DEF new
<1>13. CASE i \in Found(f, t)
  <2> DEFINE j == start[i]
             n == Common(f, t, i, j)
  <2>1. i \in Cuts(f, t)
    BY <1>13 DEF Cuts
  <2>2. p.f = i /\ p.t = j /\ p.length = n /\ j \in Nat
    BY <1>3, <1>9, <1>13
  <2>3. /\ n \in Nat /\ n >= 1
        /\ \A k \in 1..n : f[i + k] = t[j + k]
    <3>1. i \in Nat /\ j \in Candidates(f, t, i)
      BY <1>13 DEF Choice
    <3>2. /\ n \in Nat /\ n >= 1 /\ j + n <= Limit(f, t, i)
          /\ \A k \in 1..n : f[i + k] = t[j + k]
      BY <3>1, CommonIs
    <3> QED
      BY <3>2
  <2>4. IF i < done.f
          THEN j - i = done.t - done.f /\ i + n >= done.f
          ELSE done.t <= j
    BY <1>2, <1>13
  <2> HIDE DEF j, n
  <2>5. new.f = i + n /\ new.t = j + n
    BY <1>6, <2>1, <2>2
  <2>6. new.hunks \in Seq(Change(f))
    BY <1>8, PassedType DEF Passing, new
  <2>7. Reads(f, t, new.hunks, i + n, j + n)
    <3> DEFINE z == i + n
               w == j + n
    <3>1. z <= Len(f) /\ w <= Len(t)
      BY <1>9, <2>2
    <3>2. /\ z \in Nat /\ w \in Nat /\ i <= z /\ j <= w
          /\ z - i = n /\ w - j = n /\ z = i + n /\ w = j + n
      BY <2>2, <2>3
    <3> HIDE DEF z, w
    <3>3. CASE i < done.f
      <4>1. j - i = done.t - done.f /\ done.f <= i + n
        BY <2>4, <3>3
      <4>2. p.f <= done.f /\ p.t <= done.t
        BY <1>1, <2>2, <3>3, <4>1
      <4>3. h.drop = 0 /\ h.add = <<>>
        BY <1>11, <4>2
      <4>4. new.hunks = done.hunks
        BY <1>6, <2>1, <4>3
      <4>5. /\ j \in Nat /\ n \in Nat /\ z \in Nat /\ w \in Nat
            /\ done.f \in Nat /\ done.t \in Nat
            /\ z = i + n /\ w = j + n
        BY <1>1, <2>2, <2>3, <3>2
      <4>6. done.f <= z /\ done.t <= w /\ z - done.f = w - done.t
        <5> DEFINE x == done.f
                   y == done.t
        <5>1. /\ x \in Nat /\ y \in Nat
              /\ j - i = y - x /\ x <= i + n
          BY <4>1, <4>5
        <5> HIDE DEF x, y
        <5>2. x <= z /\ y <= w /\ z - x = w - y
          BY <4>5, <5>1
        <5> QED
          BY <5>2 DEF x, y
      <4>7. ASSUME NEW k \in 1..(z - done.f)
            PROVE  f[done.f + k] = t[done.t + k]
        <5> DEFINE x == done.f
                   y == done.t
                   l == x - i + k
        <5>1. /\ x \in Nat /\ y \in Nat /\ k \in 1..(z - x)
              /\ j - i = y - x /\ i < x
          BY <3>3, <4>1, <4>5
        <5> HIDE DEF x, y
        <5>2. /\ l \in 1..n
              /\ i + l = x + k /\ j + l = y + k
          BY <4>5, <5>1
        <5>3. f[i + l] = t[j + l]
          BY <2>3, <5>2
        <5> HIDE DEF l
        <5> QED
          BY <5>2, <5>3 DEF x, y
      <4>8. Reads(f, t, done.hunks, z, w)
        BY <1>1, <1>2, <3>1, <4>5, <4>6, <4>7, CommonReads
      <4> QED
        BY <3>2, <4>4, <4>8
    <3>4. CASE done.f <= i
      <4>1. done.t <= j
        BY <1>1, <2>4, <3>4
      <4>2. /\ h.at = done.f /\ h.drop = i - done.f
            /\ h.add = SubSeq(t, done.t + 1, j)
        <5>1. Max({0, p.f - done.f}) = i - done.f
          BY <1>1, <1>10, <2>2, <3>4
        <5> QED
          BY <1>7, <2>2, <5>1
      <4>3. Reads(f, t, IF h.drop = 0 /\ h.add = <<>> THEN done.hunks
                        ELSE Append(done.hunks, h), i, j)
        <5>1. i <= Len(f) /\ j <= Len(t)
          BY <1>1, <1>9, <2>2, <2>3
        <5>2. h \in Change(f)
          BY <1>8, HunkType DEF h, p
        <5>3. Reads(f, t, done.hunks, done.f, done.t)
          BY <1>2
        <5>4. /\ done.f \in Nat /\ done.t \in Nat /\ j \in Nat
              /\ done.hunks \in Seq(Change(f))
          BY <1>1, <2>2
        <5> QED
          BY <3>4, <4>1, <4>2, <5>1, <5>2, <5>3, <5>4, HunkReads
      <4>4. Reads(f, t, new.hunks, i, j)
        BY <1>6, <2>1, <4>3
      <4>5. /\ z - i = w - j
            /\ \A k \in 1..(z - i) : f[i + k] = t[j + k]
        BY <2>3, <3>2
      <4>6. Reads(f, t, new.hunks, z, w)
        BY <2>2, <2>6, <3>1, <3>2, <4>4, <4>5, CommonReads
      <4> QED
        BY <3>2, <4>6
    <3> QED
      BY <1>1, <3>3, <3>4
  <2>8. ASSUME NEW k \in Found(f, t), k >= i + 1
        PROVE  IF k < new.f
                 THEN /\ start[k] - k = new.t - new.f
                      /\ k + Common(f, t, k, start[k]) >= new.f
                 ELSE new.t <= start[k]
    <3>1. k \in Nat /\ i <= k
      BY <1>3, <2>8
    <3>2. CASE k < i + n
      <4>1. start[k] - k = j - i /\ k + Common(f, t, k, start[k]) >= i + n
        BY <1>13, <3>1, <3>2, InsidePiece DEF j, n
      <4>2. (j + n) - (i + n) = j - i
        BY <2>2, <2>3
      <4> QED
        BY <2>5, <3>2, <4>1, <4>2
    <3>3. CASE ~(k < i + n)
      <4>1. i + n <= k
        BY <2>3, <3>1, <3>3
      <4>2. j + n <= start[k]
        BY <1>13, <4>1, BehindPiece DEF j, n
      <4> QED
        BY <2>5, <3>3, <4>2
    <3> QED
      BY <3>2, <3>3
  <2>9. i + 1 # 0
    OBVIOUS
  <2>10. Right(f, t, start, new, i + 1)
    BY <2>5, <2>7, <2>8, <2>9 DEF Right
  <2> QED
    BY <2>10 DEF new
<1> QED
  BY <1>5, <1>12, <1>13 DEF new

\* Every line of f
LEMMA AllRight ==
  ASSUME NEW f \in Seq(Line), NEW t \in Seq(Line), SameOrder(f, t),
         NEW start, Choice(f, t, start)
  PROVE  \A n \in 0..Len(f) :
           Right(f, t, start, AllPassed(f, t, start)[n], n)
<1> DEFINE g == AllPassed(f, t, start)
           m == Len(f)
           T == {n \in Nat : n <= m => Right(f, t, start, g[n], n)}
<1>1. m \in Nat
  OBVIOUS
<1>2. /\ g[0] = NothingPassed
      /\ \A i \in 0..m : g[i + 1] = Passed(f, t, start, g[i], i)
  BY PassingRows
<1>3. \A n \in 0..(m + 1) : g[n] \in Passing(f, t)
  BY AllPassedType
<1>4. ASSUME NEW i \in Nat, i < m, Right(f, t, start, g[i], i)
      PROVE  Right(f, t, start, g[i + 1], i + 1)
  <2>1. i \in 0..m /\ i \in 0..(m + 1)
    BY <1>1, <1>4
  <2>2. g[i] \in Passing(f, t) /\ g[i + 1] = Passed(f, t, start, g[i], i)
    BY <1>2, <1>3, <2>1
  <2> HIDE DEF g
  <2> QED
    BY <1>4, <2>2, StepRight
<1>5. Right(f, t, start, NothingPassed, 0)
  BY StartsRight
<1> HIDE DEF g, m
<1>6. 0 \in T
  BY <1>2, <1>5
<1>7. ASSUME NEW n \in T PROVE n + 1 \in T
  <2> SUFFICES ASSUME n + 1 <= m PROVE Right(f, t, start, g[n + 1], n + 1)
    OBVIOUS
  <2>1. n \in Nat /\ n < m /\ Right(f, t, start, g[n], n)
    BY <1>1
  <2> QED
    BY <1>4, <2>1
<1>8. T = Nat
  <2>1. T \in SUBSET Nat
    OBVIOUS
  <2> HIDE DEF T
  <2> QED
    BY <1>6, <1>7, <2>1, SetInduction
<1>9. \A n \in 0..m : Right(f, t, start, g[n], n)
  BY <1>1, <1>8
<1> QED
  BY <1>9 DEF g, m

\* delta, then apply_delta (delta.tcl): where no line repeats or moves past
\* another, the difference of two texts applied to the first is the second,
\* whatever the texts are and whichever of its choices delta takes.
THEOREM DeltaApplies ==
  ASSUME NEW f \in Seq(Line), NEW t \in Seq(Line), History!Orderly(f, t),
         NEW delta \in Deltas(f, t)
  PROVE  ApplyDelta(f, delta) = t
<1>1. SameOrder(f, t)
  BY OrderlyIs
<1>2. PICK start : Choice(f, t, start) /\ delta = Hunks(f, t, start)
  BY DeltaChoice
<1> DEFINE m == Len(f)
           done == AllPassed(f, t, start)[m]
           p == Piece(f, t, m, start)
           h == Hunk(f, t, done, p)
           new == Passed(f, t, start, done, m)
<1>3. m \in Nat /\ Len(t) \in Nat /\ m \in 0..m /\ m \in 0..(m + 1)
  OBVIOUS
<1>4. done \in Passing(f, t)
  BY <1>2, <1>3, AllPassedType
<1>5. Right(f, t, start, done, m)
  BY <1>1, <1>2, <1>3, AllRight
<1>6. delta = new.hunks
  BY <1>2, <1>3, PassingRows
<1> HIDE DEF done
<1>7. /\ done.f \in Nat /\ done.t \in Nat /\ done.hunks \in Seq(Change(f))
      /\ done.f <= m /\ done.t <= Len(t)
  BY <1>3, <1>4 DEF Passing
<1>8. Reads(f, t, done.hunks, done.f, done.t)
  BY <1>5 DEF Right
<1>9. h \in Change(f)
  BY <1>2, <1>3, <1>4, HunkType
<1>10. p = [f |-> m, t |-> Len(t), length |-> 0]
  BY DEF Piece
<1>11. /\ h.at = done.f /\ h.drop = Max({0, m - done.f})
       /\ h.add = SubSeq(t, done.t + 1, Len(t))
  <2> HIDE DEF p, m
  <2> QED
    BY <1>10 DEF Hunk
<1>12. h.drop = m - done.f
  <2>1. m - done.f \in Int /\ m - done.f >= 0
    BY <1>3, <1>7
  <2>2. Max({0, m - done.f}) = IF 0 >= m - done.f THEN 0 ELSE m - done.f
    BY <2>1, LargerOfTwo
  <2> HIDE DEF h, m
  <2> QED
    BY <1>11, <2>1, <2>2
<1>13. new.hunks = IF h.drop = 0 /\ h.add = <<>> THEN done.hunks
                   ELSE Append(done.hunks, h)
  <2>1. m \in Cuts(f, t)
    BY DEF Cuts
  <2> HIDE DEF p, h, m
  <2> QED
    BY <2>1 DEF Passed, h, p
<1> HIDE DEF h, p, new
<1>14. Reads(f, t, delta, m, Len(t))
  <2>1. Reads(f, t, IF h.drop = 0 /\ h.add = <<>> THEN done.hunks
                    ELSE Append(done.hunks, h), m, Len(t))
    <3>1. m <= Len(f) /\ Len(t) <= Len(t)
      BY <1>3
    <3> HIDE DEF m
    <3> QED
      BY <1>3, <1>7, <1>8, <1>9, <1>11, <1>12, <3>1, HunkReads
  <2> QED
    BY <1>6, <1>13, <2>1
<1>15. SubSeq(t, 1, Len(t)) = t
  BY SubSeqFull
<1> QED
  BY <1>14, <1>15 DEF Reads, Copied, ApplyDelta

-----------------------------------------------------------------------------
(* The text of a revision.                                                  *)

\* A text that was saved comes back as it was typed.
LEMMA TypedComesBack ==
  ASSUME DocAssumption, NEW f \in Seq(Line), NEW t \in Texts,
         History!Orderly(f, t), NEW delta \in Deltas(f, t)
  PROVE  Revised(f, delta) = t
<1>1. t \in Seq(Line) /\ Len(t) > 1
  BY DEF DocAssumption
<1>2. ApplyDelta(f, delta) = t
  BY <1>1, DeltaApplies
<1>3. t # <<>> /\ t # <<Blank>>
  BY <1>1
<1> QED
  BY <1>2, <1>3 DEF Revised

LEMMA RevisedType ==
  ASSUME DocAssumption, NEW f \in Seq(Line), NEW t \in Seq(Line),
         NEW delta \in Deltas(f, t)
  PROVE  Revised(f, delta) \in Seq(Line)
<1>1. ApplyDelta(f, delta) \in Seq(Line)
  BY DeltaType
<1>2. <<ErrorLine>> \in Seq(Line)
  BY DEF DocAssumption
<1> QED
  BY <1>1, <1>2 DEF Revised

IsReading(g, log) ==
  g = [k \in 0..Len(log) |->
         IF k = 0 THEN <<>> ELSE Revised(g[log[k].parent], log[k].delta)]

ReadingOf(log) == CHOOSE g : IsReading(g, log)

\* texts are those of the revisions in log.
Reading(log, texts) ==
  \A n \in 1..Len(log) :
    /\ log[n].parent \in 0..(n - 1)
    /\ texts[n] = Revised(History!TextOf(log[n].parent, texts), log[n].delta)

LEMMA TextOfIs ==
  ASSUME NEW log, Len(log) \in Nat, NEW texts, Reading(log, texts)
  PROVE  \A n \in 0..Len(log) : TextOf(log, n) = History!TextOf(n, texts)
<1> DEFINE m == Len(log)
           r(n) == History!TextOf(n, texts)
           h == [k \in 0..m |-> r(k)]
           g == ReadingOf(log)
<1>1. r(0) = <<>>
  BY DEF History!TextOf
<1>2. ASSUME NEW n \in 1..m
      PROVE  /\ log[n].parent \in 0..(n - 1)
             /\ r(n) = Revised(r(log[n].parent), log[n].delta)
  BY DEF History!TextOf, Reading
<1>3. m \in Nat
  OBVIOUS
<1> HIDE DEF r, m
<1>4. h = [k \in 0..m |-> IF k = 0 THEN <<>>
                          ELSE Revised(h[log[k].parent], log[k].delta)]
  <2>1. ASSUME NEW k \in 0..m
        PROVE  r(k) = IF k = 0 THEN <<>>
                      ELSE Revised(h[log[k].parent], log[k].delta)
    <3>1. CASE k = 0
      BY <1>1, <3>1
    <3>2. CASE k # 0
      <4>1. k \in 1..m
        BY <1>3, <3>2
      <4>2. log[k].parent \in 0..m
        BY <1>2, <1>3, <4>1
      <4>3. h[log[k].parent] = r(log[k].parent)
        BY <4>2
      <4> QED
        BY <1>2, <3>2, <4>1, <4>3
    <3> QED
      BY <3>1, <3>2
  <2> QED
    BY <2>1
<1>5. IsReading(h, log)
  <2> HIDE DEF h
  <2> QED
    BY <1>4 DEF IsReading, m
<1>6. IsReading(g, log)
  <2>1. \E k : IsReading(k, log)
    BY <1>5
  <2> HIDE DEF h
  <2> QED
    BY <2>1 DEF ReadingOf
<1>7. \A n : TextOf(log, n) = g[n]
  BY DEF TextOf, ReadingOf, IsReading
<1> HIDE DEF g, h
<1>8. /\ g[0] = <<>>
      /\ \A k \in 1..m : g[k] = Revised(g[log[k].parent], log[k].delta)
  BY <1>3, <1>6 DEF IsReading, m
<1> DEFINE T == {n \in Nat : \A k \in 0..n : k <= m => g[k] = r(k)}
<1>9. 0 \in T
  <2>1. \A k \in 0..0 : k = 0
    OBVIOUS
  <2> QED
    BY <1>1, <1>8, <2>1
<1>10. ASSUME NEW n \in T PROVE n + 1 \in T
  <2> SUFFICES ASSUME NEW k \in 0..(n + 1), k <= m PROVE g[k] = r(k)
    OBVIOUS
  <2>1. n \in Nat /\ \A i \in 0..n : i <= m => g[i] = r(i)
    OBVIOUS
  <2>2. CASE k <= n
    <3>1. k \in 0..n
      BY <2>1, <2>2
    <3> QED
      BY <2>1, <3>1
  <2>3. CASE ~(k <= n)
    <3>1. k \in 1..m
      BY <2>1, <2>3
    <3>2. log[k].parent \in 0..n /\ log[k].parent <= m
      BY <1>2, <1>3, <2>1, <3>1
    <3>3. g[log[k].parent] = r(log[k].parent)
      BY <2>1, <3>2
    <3> QED
      BY <1>2, <1>8, <3>1, <3>3
  <2> QED
    BY <2>2, <2>3
<1>11. T = Nat
  <2>1. T \in SUBSET Nat
    OBVIOUS
  <2> HIDE DEF T
  <2> QED
    BY <1>9, <1>10, <2>1, SetInduction
<1>12. \A n \in 0..m : g[n] = r(n)
  <2> TAKE n \in 0..m
  <2>1. n \in Nat /\ n \in 0..n /\ n <= m
    BY <1>3
  <2>2. n \in T
    <3> HIDE DEF T
    <3> QED
      BY <1>11, <2>1
  <2> QED
    BY <2>1, <2>2
<1>13. \A n \in 0..m : TextOf(log, n) = r(n)
  BY <1>7, <1>12
<1> QED
  BY <1>13 DEF r, m

-----------------------------------------------------------------------------
(* Sequences.                                                               *)

LEMMA SetOfAppended ==
  ASSUME NEW S, NEW s \in Seq(S), NEW e \in S
  PROVE  ToSet(Append(s, e)) = ToSet(s) \cup {e}
<1>1. /\ Append(s, e) \in Seq(S)
      /\ Len(Append(s, e)) = Len(s) + 1
      /\ \A i \in 1..Len(s) : Append(s, e)[i] = s[i]
      /\ Append(s, e)[Len(s) + 1] = e
  BY AppendProperties
<1>2. DOMAIN s = 1..Len(s) /\ Len(s) \in Nat
  BY LenProperties
<1> DEFINE a == Append(s, e)
<1>3. DOMAIN a = 1..Len(a)
  BY <1>1, LenProperties
<1> HIDE DEF a
<1>4. DOMAIN a = DOMAIN s \cup {Len(s) + 1}
  BY <1>1, <1>2, <1>3 DEF a
<1>5. ToSet(a) = {a[i] : i \in DOMAIN s} \cup {e}
  BY <1>1, <1>4 DEF ToSet, a
<1>6. {a[i] : i \in DOMAIN s} = ToSet(s)
  BY <1>1, <1>2 DEF ToSet, a
<1> QED
  BY <1>5, <1>6 DEF a

LEMMA SetOfJoined ==
  ASSUME NEW S, NEW s \in Seq(S), NEW u \in Seq(S)
  PROVE  ToSet(s \o u) = ToSet(s) \cup ToSet(u)
<1> DEFINE c == s \o u
<1>1. /\ c \in Seq(S) /\ Len(c) = Len(s) + Len(u)
      /\ \A i \in 1..(Len(s) + Len(u)) :
           c[i] = IF i <= Len(s) THEN s[i] ELSE u[i - Len(s)]
  BY ConcatProperties
<1>2. /\ DOMAIN s = 1..Len(s) /\ Len(s) \in Nat
      /\ DOMAIN u = 1..Len(u) /\ Len(u) \in Nat
  BY LenProperties
<1>3. DOMAIN c = 1..Len(c)
  BY <1>1, LenProperties
<1> HIDE DEF c
<1>4. ASSUME NEW x \in ToSet(c) PROVE x \in ToSet(s) \cup ToSet(u)
  <2>1. PICK i \in DOMAIN c : x = c[i]
    BY DEF ToSet
  <2>2. i \in DOMAIN s \/ i - Len(s) \in DOMAIN u
    BY <1>1, <1>2, <1>3
  <2> QED
    BY <1>1, <1>2, <1>3, <2>1, <2>2 DEF ToSet
<1>5. ASSUME NEW x \in ToSet(s) PROVE x \in ToSet(c)
  <2>1. PICK i \in DOMAIN s : x = s[i]
    BY DEF ToSet
  <2>2. i \in DOMAIN c /\ c[i] = x
    BY <1>1, <1>2, <1>3, <2>1
  <2> QED
    BY <2>2 DEF ToSet
<1>6. ASSUME NEW x \in ToSet(u) PROVE x \in ToSet(c)
  <2>1. PICK i \in DOMAIN u : x = u[i]
    BY DEF ToSet
  <2>2. Len(s) + i \in DOMAIN c /\ c[Len(s) + i] = x
    BY <1>1, <1>2, <1>3, <2>1
  <2> QED
    BY <2>2 DEF ToSet
<1>7. ToSet(c) = ToSet(s) \cup ToSet(u)
  BY <1>4, <1>5, <1>6
<1> QED
  BY <1>7 DEF c

LEMMA AppendGrows ==
  ASSUME NEW S, NEW s \in Seq(S), NEW e \in S
  PROVE  History!Grows(s, Append(s, e)) /\ Append(s, e)[Len(s) + 1] = e
<1> DEFINE a == Append(s, e)
<1>1. /\ a \in Seq(S) /\ Len(a) = Len(s) + 1
      /\ \A i \in 1..Len(s) : a[i] = s[i]
      /\ a[Len(s) + 1] = e
  BY AppendProperties
<1>2. Len(s) \in Nat
  OBVIOUS
<1> HIDE DEF a
<1>3. /\ SubSeq(a, 1, Len(s)) \in Seq(S)
      /\ Len(SubSeq(a, 1, Len(s))) = Len(s)
      /\ \A i \in 1..Len(s) : SubSeq(a, 1, Len(s))[i] = a[i]
  <2>1. \A i \in 1..Len(s) : a[i] \in S
    BY <1>1, ElementOfSeq
  <2> DEFINE n == Len(s)
  <2>2. n \in Int /\ n >= 0
    BY <1>2
  <2> HIDE DEF n
  <2>3. \A i \in 1..n : a[i] \in S
    BY <2>1 DEF n
  <2>4. /\ SubSeq(a, 1, n) \in Seq(S)
        /\ Len(SubSeq(a, 1, n)) = IF 1 <= n THEN n - 1 + 1 ELSE 0
        /\ \A i \in 1..(n - 1 + 1) : SubSeq(a, 1, n)[i] = a[1 + i - 1]
    BY <2>2, <2>3, SubSeqProperties
  <2>5. n - 1 + 1 = n /\ (~(1 <= n) => n = 0) /\ \A i \in 1..n : 1 + i - 1 = i
    BY <2>2
  <2>6. /\ Len(SubSeq(a, 1, n)) = n
        /\ \A i \in 1..n : SubSeq(a, 1, n)[i] = a[i]
    BY <2>4, <2>5
  <2> QED
    BY <2>4, <2>6 DEF n
<1>4. SubSeq(a, 1, Len(s)) = s
  <2> DEFINE b == SubSeq(a, 1, Len(s))
  <2>1. b \in Seq(S) /\ Len(b) = Len(s) /\ \A i \in 1..Len(b) : b[i] = s[i]
    BY <1>1, <1>3
  <2> HIDE DEF b
  <2>2. b = s
    BY <2>1, SeqEqual
  <2> QED
    BY <2>2 DEF b
<1> QED
  BY <1>1, <1>4 DEF History!Grows, a

-----------------------------------------------------------------------------
(* The tree of revisions at the members.                                    *)

Difference == Seq([at : Nat, drop : Nat, add : Seq(Line)])

Revision == [author : Writers, parent : Nat, delta : Difference]

Types ==
  /\ made \in Seq(Revision) /\ Len(made) <= MaxEdits
  /\ typed \in Seq(Texts) /\ Len(typed) = Len(made)
  /\ text \in Seq(Seq(Line)) /\ Len(text) = Len(made)
  /\ store \in [Peers -> Seq(Nat)]
  /\ node \in [Peers -> Nat]
  /\ body \in [Peers -> Seq(Line)]
  /\ net \subseteq Message

\* Of every revision in S all that it is built on are there.
Rooted(log, S) ==
  \A n \in S : n \in 1..Len(log) /\ log[n].parent \in S \cup {0}

\* The revisions that a message brings leave no gap where it arrives.  The
\* member who asks for some has the others that they are built on, and who
\* tells what he has does not lose it.
Safe(m) ==
  /\ m.type = "MAIL GDC" =>
       Rooted(made, m.keys) /\ m.keys \subseteq Has(m.from)
  /\ m.type = "HEAD GDE" => Rooted(made, m.keys \cup Has(m.from))
  /\ m.type = "MAIL GDE" => Rooted(made, m.keys \cup Has(m.to))

\* The window shows a revision of the file, or the new document.
Looked(p) ==
  /\ node[p] \in Has(p) \cup {0}
  /\ body[p] = History!TextOf(node[p], text)

IndInv ==
  /\ Types
  /\ Reading(made, text)
  /\ \A p \in Peers : Rooted(made, Has(p)) /\ Looked(p)
  /\ \A m \in net : Safe(m)

LEMMA RootedBoth ==
  ASSUME NEW log, NEW S, NEW T, Rooted(log, S), Rooted(log, T)
  PROVE  Rooted(log, S \cup T)
BY DEF Rooted

LEMMA HasIs ==
  ASSUME IndInv, NEW p \in Peers
  PROVE  /\ store[p] \in Seq(Nat) /\ Rooted(made, Has(p))
         /\ Has(p) \in SUBSET Records /\ Has(p) \subseteq 1..Len(made)
         /\ node[p] \in 0..Len(made) /\ node[p] \in Has(p) \cup {0}
         /\ body[p] \in Seq(Line)
         /\ body[p] = History!TextOf(node[p], text)
         /\ Len(made) \in Nat
<1>1. /\ Types /\ Rooted(made, Has(p)) /\ Looked(p)
  BY DEF IndInv
<1>2. /\ store[p] \in Seq(Nat) /\ body[p] \in Seq(Line)
      /\ Len(made) \in Nat /\ Len(made) <= MaxEdits
  BY <1>1 DEF Types
<1>3. Has(p) \subseteq 1..Len(made)
  BY <1>1 DEF Rooted
<1>4. \A n \in 1..Len(made) : n \in Records
  <2> SUFFICES ASSUME DocAssumption, NEW n \in 1..Len(made)
               PROVE  n \in 1..MaxEdits
    BY DocAssumption DEF Records
  <2> QED
    BY <1>2 DEF DocAssumption
<1>5. Has(p) \in SUBSET Records
  BY <1>3, <1>4
<1>6. node[p] \in Has(p) \cup {0} /\ body[p] = History!TextOf(node[p], text)
  BY <1>1 DEF Looked
<1>7. node[p] \in 0..Len(made)
  BY <1>2, <1>3, <1>6
<1> QED
  BY <1>1, <1>2, <1>3, <1>5, <1>6, <1>7

\* What a message brings stays safe when the tree and the files grow.
LEMMA SafeStays ==
  ASSUME NEW m \in Message, Safe(m), Len(made) \in Nat, Len(made)' \in Nat,
         Len(made) <= Len(made)',
         \A n \in 1..Len(made) : made'[n].parent = made[n].parent,
         \A p \in Peers : Has(p) \subseteq Has(p)' /\ Rooted(made, Has(p))',
         m.from \in Peers, m.to \in Peers
  PROVE  Safe(m)'
<1>1. \A n \in 1..Len(made) : n \in 1..Len(made)'
  OBVIOUS
<1>2. ASSUME NEW K, NEW p \in Peers, Rooted(made, K \cup Has(p))
      PROVE  Rooted(made', K \cup Has(p)')
  <2> SUFFICES ASSUME NEW n \in K \cup Has(p)'
               PROVE  /\ n \in 1..Len(made)'
                      /\ made'[n].parent \in K \cup Has(p)' \cup {0}
    BY DEF Rooted
  <2>1. CASE n \in Has(p)'
    BY <2>1 DEF Rooted
  <2>2. CASE n \in K
    <3>1. n \in 1..Len(made) /\ made[n].parent \in K \cup Has(p) \cup {0}
      BY <1>2, <2>2 DEF Rooted
    <3> QED
      BY <1>1, <3>1
  <2> QED
    BY <2>1, <2>2
<1>3. ASSUME NEW K, Rooted(made, K) PROVE Rooted(made', K)
  <2> SUFFICES ASSUME NEW n \in K
               PROVE  n \in 1..Len(made)' /\ made'[n].parent \in K \cup {0}
    BY DEF Rooted
  <2>1. n \in 1..Len(made) /\ made[n].parent \in K \cup {0}
    BY <1>3 DEF Rooted
  <2> QED
    BY <1>1, <2>1
<1> QED
  BY <1>2, <1>3 DEF Safe

\* A step that only sends what is safe
LEMMA OnlyMessages ==
  ASSUME IndInv, UNCHANGED <<made, typed, text, store, node, body>>,
         net' \subseteq Message, \A m \in net' : m \in net \/ Safe(m)
  PROVE  IndInv'
<1>1. /\ made' = made /\ typed' = typed /\ text' = text /\ store' = store
      /\ node' = node /\ body' = body
  OBVIOUS
<1>2. Types' /\ Reading(made, text)'
  BY <1>1 DEF IndInv, Types, Reading
<1>3. \A p \in Peers : Has(p)' = Has(p)
  BY <1>1 DEF Has
<1>4. \A p \in Peers : (Rooted(made, Has(p)) /\ Looked(p))'
  BY <1>1, <1>3 DEF IndInv, Looked
<1>5. \A m \in net' : Safe(m)'
  <2> SUFFICES ASSUME NEW m \in net' PROVE Safe(m)'
    OBVIOUS
  <2>1. Safe(m)
    BY DEF IndInv
  <2> QED
    BY <1>1, <2>1 DEF Safe, Has
<1> QED
  BY <1>2, <1>4, <1>5 DEF IndInv

LEMMA MessageHas ==
  ASSUME NEW m \in Message
  PROVE  m.from \in Peers /\ m.to \in Peers /\ m.keys \in SUBSET Records
BY DEF Message

LEMMA HeadsSafe ==
  ASSUME NEW p \in Peers
  PROVE  Heads(p) \subseteq Message /\ \A m \in Heads(p) : Safe(m)
<1> SUFFICES ASSUME NEW m \in Heads(p) PROVE m \in Message /\ Safe(m)
  OBVIOUS
<1>1. PICK q \in Peers : m = Msg("HEAD GDC", p, q, {})
  BY DEF Heads
<1>2. m \in Message /\ m.type = "HEAD GDC"
  <2>1. {} \in SUBSET Records
    OBVIOUS
  <2> QED
    BY <1>1, <2>1 DEF Msg, Message
<1> QED
  BY <1>2 DEF Safe

LEMMA FilledIs ==
  ASSUME NEW m PROVE Filled(m) \subseteq {m}
BY DEF Filled

LEMMA TakeHeadKeeps ==
  ASSUME IndInv, NEW p \in Peers, NEW m \in net, TakeHead(p, m)
  PROVE  IndInv'
<1> DEFINE r == Msg("MAIL GDC", p, m.from, Has(p))
<1>1. net \subseteq Message /\ m.from \in Peers
  BY MessageHas DEF IndInv, Types
<1>2. Has(p) \in SUBSET Records /\ Rooted(made, Has(p))
  BY HasIs
<1>3. /\ r \in Message /\ r.type = "MAIL GDC" /\ r.from = p
      /\ r.keys = Has(p)
  BY <1>1, <1>2 DEF Msg, Message
<1>4. net' = (net \ {m}) \cup {r}
  BY DEF TakeHead, Consume
<1> HIDE DEF r
<1>5. Safe(r)
  BY <1>2, <1>3 DEF Safe
<1>6. UNCHANGED <<made, typed, text, store, node, body>>
  BY DEF TakeHead
<1> QED
  BY <1>1, <1>3, <1>4, <1>5, <1>6, OnlyMessages

LEMMA TakeKeysKeeps ==
  ASSUME IndInv, NEW p \in Peers, NEW m \in net, TakeKeys(p, m)
  PROVE  IndInv'
<1> DEFINE ask == Msg("HEAD GDE", p, m.from, m.keys \ Has(p))
           give == Msg("MAIL GDE", p, m.from, Has(p) \ m.keys)
<1>1. net \subseteq Message
  BY DEF IndInv, Types
<1>2. m.from \in Peers /\ m.keys \in SUBSET Records
  BY <1>1, MessageHas
<1>3. Has(p) \in SUBSET Records /\ Rooted(made, Has(p))
  BY HasIs
<1>4. Rooted(made, Has(m.from))
  BY <1>2, HasIs
<1>5. Rooted(made, m.keys) /\ m.keys \subseteq Has(m.from)
  BY DEF IndInv, Safe, TakeKeys
<1>6. /\ ask \in Message /\ ask.type = "HEAD GDE" /\ ask.from = p
      /\ ask.keys = m.keys \ Has(p)
  BY <1>2, <1>3 DEF Msg, Message
<1>7. /\ give \in Message /\ give.type = "MAIL GDE" /\ give.to = m.from
      /\ give.keys = Has(p) \ m.keys
  BY <1>2, <1>3 DEF Msg, Message
<1>8. net' = (net \ {m}) \cup (Filled(ask) \cup Filled(give))
  BY DEF TakeKeys, Consume
<1> HIDE DEF ask, give
<1>9. Safe(ask)
  <2>1. Rooted(made, m.keys \cup Has(p))
    BY <1>3, <1>5, RootedBoth
  <2>2. (m.keys \ Has(p)) \cup Has(p) = m.keys \cup Has(p)
    OBVIOUS
  <2>3. Rooted(made, ask.keys \cup Has(ask.from))
    BY <1>6, <2>1, <2>2
  <2> QED
    BY <1>6, <2>3 DEF Safe
<1>10. Safe(give)
  <2>1. Rooted(made, Has(p) \cup Has(m.from))
    BY <1>3, <1>4, RootedBoth
  <2>2. (Has(p) \ m.keys) \cup Has(m.from) = Has(p) \cup Has(m.from)
    BY <1>5
  <2>3. Rooted(made, give.keys \cup Has(give.to))
    BY <1>7, <2>1, <2>2
  <2> QED
    BY <1>7, <2>3 DEF Safe
<1>11. UNCHANGED <<made, typed, text, store, node, body>>
  BY DEF TakeKeys
<1>12. /\ net' \subseteq Message
       /\ \A n \in net' : n \in net \/ Safe(n)
  <2>1. net' \subseteq net \cup {ask, give}
    BY <1>8, FilledIs
  <2> QED
    BY <1>1, <1>6, <1>7, <1>9, <1>10, <2>1
<1> QED
  BY <1>11, <1>12, OnlyMessages

LEMMA TakeWantedKeeps ==
  ASSUME IndInv, NEW p \in Peers, NEW m \in net, TakeWanted(p, m)
  PROVE  IndInv'
<1> DEFINE r == Msg("MAIL GDE", p, m.from, m.keys)
<1>1. net \subseteq Message
  BY DEF IndInv, Types
<1>2. m.from \in Peers /\ m.keys \in SUBSET Records
  BY <1>1, MessageHas
<1>3. /\ r \in Message /\ r.type = "MAIL GDE" /\ r.to = m.from
      /\ r.keys = m.keys
  BY <1>2 DEF Msg, Message
<1>4. net' = (net \ {m}) \cup {r}
  BY DEF TakeWanted, Consume
<1> HIDE DEF r
<1>5. Rooted(made, m.keys \cup Has(m.from))
  BY DEF IndInv, Safe, TakeWanted
<1>6. Safe(r)
  BY <1>3, <1>5 DEF Safe
<1>7. UNCHANGED <<made, typed, text, store, node, body>>
  BY DEF TakeWanted
<1> QED
  BY <1>1, <1>3, <1>4, <1>6, <1>7, OnlyMessages

\* save_bin: the file has what came besides what was there.
LEMMA Saved ==
  ASSUME DocAssumption, IndInv, NEW p \in Peers, NEW keys \in SUBSET Records,
         Save(p, keys)
  PROVE  /\ store' \in [Peers -> Seq(Nat)]
         /\ Has(p)' = Has(p) \cup keys
         /\ \A q \in Peers \ {p} : Has(q)' = Has(q)
<1> DEFINE lacking == keys \ Has(p)
           c == Cardinality(lacking)
<1>1. lacking \in SUBSET Nat /\ c \in Nat
  <2>1. MaxEdits \in Nat
    BY DEF DocAssumption
  <2>2. IsFiniteSet(1..MaxEdits)
    BY <2>1, FS_Interval
  <2>3. lacking \in SUBSET (1..MaxEdits)
    BY DEF Records
  <2>4. IsFiniteSet(lacking)
    BY <2>2, <2>3, FS_Subset
  <2>5. c \in Nat
    BY <2>4, FS_CardinalityType
  <2> QED
    BY <2>1, <2>3, <2>5
<1>2. PICK new \in Orders(lacking) :
        store' = [store EXCEPT ![p] = store[p] \o new]
  BY DEF Save
<1>3. new \in [1..c -> lacking] /\ ToSet(new) = lacking
  BY <1>2 DEF Orders
<1> HIDE DEF lacking, c
<1>4. new \in Seq(Nat)
  <2>1. new \in [1..c -> Nat]
    BY <1>1, <1>3
  <2> QED
    BY <1>1, <2>1, SeqDef
<1>5. store \in [Peers -> Seq(Nat)] /\ store[p] \in Seq(Nat)
  BY HasIs DEF IndInv, Types
<1>6. store[p] \o new \in Seq(Nat)
  BY <1>4, <1>5, ConcatProperties
<1>7. store'[p] = store[p] \o new
  BY <1>2, <1>5
<1>8. ToSet(store[p] \o new) = ToSet(store[p]) \cup ToSet(new)
  BY <1>4, <1>5, SetOfJoined
<1>9. Has(p)' = Has(p) \cup keys
  BY <1>3, <1>7, <1>8 DEF Has, lacking
<1>10. \A q \in Peers \ {p} : Has(q)' = Has(q)
  BY <1>2, <1>5 DEF Has
<1>11. store' \in [Peers -> Seq(Nat)]
  BY <1>2, <1>5, <1>6
<1> QED
  BY <1>9, <1>10, <1>11

\* What arrives leaves no gap in the file.
LEMMA TakeRecordsLearns ==
  ASSUME DocAssumption, IndInv, NEW m \in net, TakeRecords(m.to, m)
  PROVE  /\ m.to \in Peers /\ m \in Message
         /\ store' \in [Peers -> Seq(Nat)]
         /\ Has(m.to)' = Has(m.to) \cup m.keys
         /\ \A q \in Peers \ {m.to} : Has(q)' = Has(q)
         /\ Rooted(made, Has(m.to) \cup m.keys)
         /\ net' = net \ {m}
         /\ UNCHANGED <<made, typed, text, node, body>>
<1>1. m \in Message
  BY DEF IndInv, Types
<1>2. m.to \in Peers /\ m.keys \in SUBSET Records
  BY <1>1, MessageHas
<1>3. Save(m.to, m.keys)
  BY DEF TakeRecords
<1>4. /\ store' \in [Peers -> Seq(Nat)]
      /\ Has(m.to)' = Has(m.to) \cup m.keys
      /\ \A q \in Peers \ {m.to} : Has(q)' = Has(q)
  BY <1>2, <1>3, Saved
<1>5. Rooted(made, m.keys \cup Has(m.to))
  BY DEF IndInv, Safe, TakeRecords
<1>6. m.keys \cup Has(m.to) = Has(m.to) \cup m.keys
  OBVIOUS
<1>7. net' = net \ {m} /\ UNCHANGED <<made, typed, text, node, body>>
  BY DEF TakeRecords, Consume
<1> QED
  BY <1>1, <1>2, <1>4, <1>5, <1>6, <1>7

LEMMA TakeRecordsKeeps ==
  ASSUME DocAssumption, IndInv, NEW m \in net, TakeRecords(m.to, m)
  PROVE  IndInv'
<1>1. /\ m.to \in Peers /\ store' \in [Peers -> Seq(Nat)]
      /\ Has(m.to)' = Has(m.to) \cup m.keys
      /\ \A q \in Peers \ {m.to} : Has(q)' = Has(q)
      /\ Rooted(made, Has(m.to) \cup m.keys)
      /\ net' = net \ {m}
      /\ UNCHANGED <<made, typed, text, node, body>>
  BY TakeRecordsLearns
<1>2. Types' /\ Reading(made, text)'
  BY <1>1 DEF IndInv, Types, Reading
<1>3. \A q \in Peers : Has(q) \subseteq Has(q)' /\ Rooted(made', Has(q)')
  BY <1>1 DEF IndInv
<1>4. \A q \in Peers : Looked(q)'
  BY <1>1, <1>3 DEF IndInv, Looked
<1>5. ASSUME NEW n \in net' PROVE Safe(n)'
  <2>1. n \in Message /\ Safe(n) /\ n.from \in Peers /\ n.to \in Peers
    BY <1>1, MessageHas DEF IndInv, Types
  <2>2. Len(made) \in Nat /\ made' = made
    BY <1>1 DEF IndInv, Types
  <2> QED
    BY <1>3, <2>1, <2>2, SafeStays
<1> QED
  BY <1>2, <1>3, <1>4, <1>5 DEF IndInv

\* A window shows a record of the file or the new document, and the one that
\* is asked for when all that it is built on is there.
LEMMA ReplayShows ==
  ASSUME NEW p \in Peers, NEW log, NEW file, NEW n, Replay(p, log, file, n)
  PROVE  \E there \in ToSet(file) \cup {0} :
           /\ node' = [node EXCEPT ![p] = there]
           /\ body' = [body EXCEPT ![p] = TextOf(log, there)]
           /\ Reached(log, ToSet(file), n) => there = n
<1> DEFINE there == IF Reached(log, ToSet(file), n) THEN n ELSE 0
<1>1. there \in ToSet(file) \cup {0}
  BY DEF Reached
<1>2. /\ node' = [node EXCEPT ![p] = there]
      /\ body' = [body EXCEPT ![p] = TextOf(log, there)]
  BY DEF Replay
<1>3. Reached(log, ToSet(file), n) => there = n
  OBVIOUS
<1> HIDE DEF there
<1> QED
  BY <1>1, <1>2, <1>3

\* What opening the window and a click on a record do
Shows(p) ==
  \E there \in Has(p) \cup {0} :
    /\ node' = [node EXCEPT ![p] = there]
    /\ body' = [body EXCEPT ![p] = History!TextOf(there, text)]
    /\ UNCHANGED <<made, typed, text, store>>
    /\ net' \subseteq net \cup Heads(p)

LEMMA WindowShows ==
  ASSUME IndInv, NEW p \in Peers, NEW n, Replay(p, made, store[p], n),
         UNCHANGED <<made, typed, text, store>>,
         net' \subseteq net \cup Heads(p)
  PROVE  Shows(p)
<1>1. PICK there \in Has(p) \cup {0} :
        /\ node' = [node EXCEPT ![p] = there]
        /\ body' = [body EXCEPT ![p] = TextOf(made, there)]
  BY ReplayShows DEF Has
<1>2. there \in 0..Len(made) /\ Len(made) \in Nat
  BY HasIs
<1>3. TextOf(made, there) = History!TextOf(there, text)
  BY <1>2, TextOfIs DEF IndInv
<1> QED
  BY <1>1, <1>3 DEF Shows

LEMMA ShowsKeeps ==
  ASSUME IndInv, NEW p \in Peers, Shows(p)
  PROVE  IndInv'
<1>1. PICK there \in Has(p) \cup {0} :
        /\ node' = [node EXCEPT ![p] = there]
        /\ body' = [body EXCEPT ![p] = History!TextOf(there, text)]
        /\ made' = made /\ typed' = typed /\ text' = text /\ store' = store
        /\ net' \subseteq net \cup Heads(p)
  BY DEF Shows
<1>2. there \in 0..Len(made) /\ Len(made) \in Nat
  BY HasIs
<1>3. History!TextOf(there, text) \in Seq(Line)
  <2>1. text \in Seq(Seq(Line)) /\ Len(text) = Len(made)
    BY DEF IndInv, Types
  <2>2. <<>> \in Seq(Line)
    OBVIOUS
  <2>3. there # 0 => text[there] \in Seq(Line)
    BY <1>2, <2>1, ElementOfSeq
  <2> QED
    BY <2>2, <2>3 DEF History!TextOf
<1>4. Types'
  <2>1. net' \subseteq Message
    BY <1>1, HeadsSafe DEF IndInv, Types
  <2>2. node' \in [Peers -> Nat] /\ body' \in [Peers -> Seq(Line)]
    BY <1>1, <1>2, <1>3 DEF IndInv, Types
  <2> QED
    BY <1>1, <2>1, <2>2 DEF IndInv, Types
<1>5. Reading(made, text)'
  BY <1>1 DEF IndInv, Reading
<1>6. \A q \in Peers : Has(q)' = Has(q)
  BY <1>1 DEF Has
<1>7. \A q \in Peers : (Rooted(made, Has(q)) /\ Looked(q))'
  <2> SUFFICES ASSUME NEW q \in Peers
               PROVE  Rooted(made', Has(q)') /\ Looked(q)'
    OBVIOUS
  <2>1. Rooted(made, Has(q)) /\ Looked(q)
    BY DEF IndInv
  <2>2. node \in [Peers -> Nat] /\ body \in [Peers -> Seq(Line)]
    BY DEF IndInv, Types
  <2>3. Looked(q)'
    BY <1>1, <1>6, <2>1, <2>2 DEF Looked
  <2> QED
    BY <1>1, <1>6, <2>1, <2>3
<1>8. \A m \in net' : Safe(m)'
  <2> SUFFICES ASSUME NEW m \in net' PROVE Safe(m)'
    OBVIOUS
  <2>1. Safe(m)
    BY <1>1, HeadsSafe DEF IndInv
  <2> QED
    BY <1>1, <2>1 DEF Safe, Has
<1> QED
  BY <1>4, <1>5, <1>7, <1>8 DEF IndInv

LEMMA OpenShows ==
  ASSUME IndInv, NEW p \in Peers, Open(p)
  PROVE  Shows(p)
<1>1. PICK n : Replay(p, made, store[p], n)
  BY DEF Open
<1>2. /\ UNCHANGED <<made, typed, text, store>>
      /\ net' \subseteq net \cup Heads(p)
  BY DEF Open
<1> QED
  BY <1>1, <1>2, WindowShows

LEMMA ClickShows ==
  ASSUME IndInv, NEW p \in Peers, NEW n \in Records, Click(p, n)
  PROVE  Shows(p)
<1>1. /\ Replay(p, made, store[p], n)
      /\ UNCHANGED <<made, typed, text, store>>
      /\ net' \subseteq net \cup Heads(p)
  BY DEF Click
<1> QED
  BY <1>1, WindowShows

LEMMA GatherKeeps ==
  ASSUME IndInv, NEW p \in Peers, Gather(p)
  PROVE  IndInv'
<1>1. /\ net' = net \cup Heads(p)
      /\ UNCHANGED <<made, typed, text, store, node, body>>
  BY DEF Gather
<1>2. net' \subseteq Message /\ \A m \in net' : m \in net \/ Safe(m)
  BY <1>1, HeadsSafe DEF IndInv, Types
<1> QED
  BY <1>1, <1>2, OnlyMessages

\* What saving a page does: the record is built on what the window shows,
\* and the window then shows the record.
Writes(p, t) ==
  \E delta \in Deltas(body[p], t) :
    LET n == Len(made) + 1
        new == Revised(body[p], delta)
        record == [author |-> p, parent |-> node[p], delta |-> delta] IN
    /\ p \in Writers /\ n <= MaxEdits
    /\ record \in Revision /\ new \in Seq(Line)
    /\ made' = Append(made, record)
    /\ typed' = Append(typed, t)
    /\ text' = Append(text, new)
    /\ store' = [store EXCEPT ![p] = Append(store[p], n)]
    /\ node' = [node EXCEPT ![p] = n]
    /\ body' = [body EXCEPT ![p] = new]
    /\ net' = net \cup Heads(p)
    /\ Reading(Append(made, record), Append(text, new))

LEMMA DeltaIsDifference ==
  ASSUME NEW f \in Seq(Line), NEW t \in Seq(Line), NEW delta \in Deltas(f, t)
  PROVE  delta \in Difference
<1> DEFINE H == [at : Nat, drop : Nat, add : Seq(Line)]
<1>1. delta \in Seq(Change(f))
  BY DeltaType
<1>2. Change(f) \subseteq H
  <2>1. 0..Len(f) \subseteq Nat
    OBVIOUS
  <2> QED
    BY <2>1 DEF Change
<1> HIDE DEF H
<1>3. delta \in Seq(H)
  <2>1. PICK n \in Nat : delta \in [1..n -> Change(f)]
    BY <1>1, SeqDef
  <2>2. delta \in [1..n -> H]
    BY <1>2, <2>1
  <2> QED
    BY <2>1, <2>2, SeqDef
<1> QED
  BY <1>3 DEF Difference, H

\* With one record more, which is built on one of the others
LEMMA OneMoreReads ==
  ASSUME NEW S, NEW log \in Seq(S), NEW record \in S,
         NEW texts \in Seq(Seq(Line)), Len(texts) = Len(log),
         Reading(log, texts), record.parent \in 0..Len(log),
         NEW new \in Seq(Line),
         new = Revised(History!TextOf(record.parent, texts), record.delta)
  PROVE  Reading(Append(log, record), Append(texts, new))
<1> DEFINE more == Append(log, record)
           all == Append(texts, new)
           m == Len(log)
<1>1. /\ m \in Nat /\ Len(more) = m + 1 /\ more[m + 1] = record
      /\ \A n \in 1..m : more[n] = log[n]
  BY AppendProperties
<1>2. /\ Len(all) = m + 1 /\ all[m + 1] = new
      /\ \A n \in 1..m : all[n] = texts[n]
  BY AppendProperties
<1> HIDE DEF more, all, m
<1>3. \A n \in 0..m : History!TextOf(n, all) = History!TextOf(n, texts)
  BY <1>1, <1>2 DEF History!TextOf
<1>4. ASSUME NEW n \in 1..Len(more)
      PROVE  /\ more[n].parent \in 0..(n - 1)
             /\ all[n] = Revised(History!TextOf(more[n].parent, all),
                                 more[n].delta)
  <2>1. CASE n \in 1..m
    <3>1. /\ log[n].parent \in 0..(n - 1)
          /\ texts[n] = Revised(History!TextOf(log[n].parent, texts),
                                log[n].delta)
      BY <2>1 DEF Reading, m
    <3>2. log[n].parent \in 0..m
      BY <1>1, <2>1, <3>1
    <3> QED
      BY <1>1, <1>2, <1>3, <2>1, <3>1, <3>2
  <2>2. CASE n = m + 1
    <3>1. record.parent \in 0..m /\ (m + 1) - 1 = m
      BY <1>1 DEF m
    <3> QED
      BY <1>1, <1>2, <1>3, <2>2, <3>1
  <2> QED
    BY <1>1, <2>1, <2>2
<1>5. Reading(more, all)
  BY <1>4 DEF Reading
<1> QED
  BY <1>5 DEF more, all

LEMMA EditWrites ==
  ASSUME DocAssumption, IndInv, NEW p \in Peers, NEW t \in Texts, Edit(p, t)
  PROVE  Writes(p, t)
<1>1. /\ store[p] \in Seq(Nat) /\ Rooted(made, Has(p))
      /\ node[p] \in 0..Len(made) /\ node[p] \in Has(p) \cup {0}
      /\ body[p] \in Seq(Line) /\ body[p] = History!TextOf(node[p], text)
      /\ Len(made) \in Nat
  BY HasIs
<1>2. /\ made \in Seq(Revision)
      /\ text \in Seq(Seq(Line)) /\ Len(text) = Len(made)
      /\ Reading(made, text)
  BY DEF IndInv, Types
<1> DEFINE n == Len(made) + 1
           file == Append(store[p], n)
           rec(d) == [author |-> p, parent |-> node[p], delta |-> d]
<1>3. PICK delta \in Deltas(body[p], t) :
        LET record == [author |-> p, parent |-> node[p], delta |-> delta]
            log == Append(made, record)
            after == Append(store[p], Len(log)) IN
        /\ made' = log
        /\ typed' = Append(typed, t)
        /\ store' = [store EXCEPT ![p] = after]
        /\ net' = net \cup Heads(p)
        /\ Replay(p, log, after, Len(log))
        /\ text' = Append(text, body'[p])
  BY DEF Edit
<1> DEFINE record == rec(delta)
           log == Append(made, record)
           new == Revised(body[p], delta)
<1>4. p \in Writers /\ Len(made) < MaxEdits
  BY DEF Edit
<1>5. n \in Nat /\ n <= MaxEdits /\ n # 0
  <2>1. MaxEdits \in Nat
    BY DEF DocAssumption
  <2> QED
    BY <1>1, <1>4, <2>1
<1>6. t \in Seq(Line)
  BY DEF DocAssumption
<1>7. record \in Revision
  <2>1. delta \in Difference
    BY <1>1, <1>6, DeltaIsDifference
  <2>2. node[p] \in Nat
    BY <1>1
  <2> QED
    BY <1>4, <2>1, <2>2 DEF Revision
<1>8. new \in Seq(Line)
  BY <1>1, <1>6, RevisedType
<1>9. record.parent = node[p] /\ record.delta = delta
  OBVIOUS
<1> HIDE DEF record, new
<1>10. /\ Len(log) = n /\ log[n] = record
       /\ \A k \in 1..Len(made) : log[k] = made[k]
  BY <1>2, <1>7, AppendProperties
<1>11. Reading(log, Append(text, new))
  <2>1. new = Revised(History!TextOf(record.parent, text), record.delta)
    BY <1>1, <1>9 DEF new
  <2>2. record.parent \in 0..Len(made)
    BY <1>1, <1>9
  <2> QED
    BY <1>2, <1>7, <1>8, <2>1, <2>2, OneMoreReads
<1>12. TextOf(log, n) = new
  <2> DEFINE texts == Append(text, new)
  <2>1. texts[n] = new
    BY <1>2, <1>8, AppendProperties
  <2>2. Len(log) \in Nat /\ n \in 0..Len(log)
    BY <1>1, <1>10
  <2>3. Reading(log, texts)
    BY <1>11
  <2> HIDE DEF n, log, texts
  <2>4. TextOf(log, n) = History!TextOf(n, texts)
    BY <2>2, <2>3, TextOfIs
  <2> QED
    BY <1>5, <2>1, <2>4 DEF History!TextOf
<1>13. ToSet(file) = Has(p) \cup {n}
  BY <1>1, <1>5, SetOfAppended DEF Has
<1> HIDE DEF file
<1>14. Reached(log, ToSet(file), n)
  <2> DEFINE line == Has(p) \cup {n}
  <2>1. line \in SUBSET ToSet(file) /\ n \in line
    BY <1>13
  <2>2. ASSUME NEW k \in line PROVE log[k].parent \in line \cup {0}
    <3>1. CASE k \in Has(p)
      <4>1. k \in 1..Len(made) /\ made[k].parent \in Has(p) \cup {0}
        BY <1>1, <3>1 DEF Rooted
      <4> QED
        BY <1>10, <4>1
    <3>2. CASE k = n
      BY <1>1, <1>9, <1>10, <3>2
    <3> QED
      BY <3>1, <3>2
  <2> HIDE DEF line
  <2> QED
    BY <2>1, <2>2 DEF Reached
<1>15. /\ made' = log
       /\ typed' = Append(typed, t)
       /\ store' = [store EXCEPT ![p] = file]
       /\ net' = net \cup Heads(p)
       /\ Replay(p, log, file, n)
       /\ text' = Append(text, body'[p])
  <2>1. Len(Append(made, rec(delta))) = n
    BY <1>10 DEF record
  <2> QED
    BY <1>3, <2>1 DEF record, file
<1>16. /\ node' = [node EXCEPT ![p] = n]
       /\ body' = [body EXCEPT ![p] = new]
  <2> HIDE DEF n, log
  <2>1. PICK there \in ToSet(file) \cup {0} :
          /\ node' = [node EXCEPT ![p] = there]
          /\ body' = [body EXCEPT ![p] = TextOf(log, there)]
          /\ Reached(log, ToSet(file), n) => there = n
    BY <1>15, ReplayShows
  <2>2. there = n
    BY <1>14, <2>1
  <2> QED
    BY <1>12, <2>1, <2>2
<1>17. text' = Append(text, new)
  <2>1. body'[p] = new
    BY <1>16 DEF IndInv, Types
  <2> QED
    BY <1>15, <2>1
<1> QED
  BY <1>4, <1>5, <1>7, <1>8, <1>11, <1>15, <1>16, <1>17
     DEF Writes, record, new, file

LEMMA WritesKeeps ==
  ASSUME DocAssumption, IndInv, NEW p \in Peers, NEW t \in Texts, Writes(p, t)
  PROVE  IndInv'
<1> DEFINE n == Len(made) + 1
<1>1. PICK record \in Revision, new \in Seq(Line) :
        /\ n <= MaxEdits /\ record.parent = node[p]
        /\ made' = Append(made, record)
        /\ typed' = Append(typed, t)
        /\ text' = Append(text, new)
        /\ store' = [store EXCEPT ![p] = Append(store[p], n)]
        /\ node' = [node EXCEPT ![p] = n]
        /\ body' = [body EXCEPT ![p] = new]
        /\ net' = net \cup Heads(p)
        /\ Reading(Append(made, record), Append(text, new))
  BY DEF Writes
<1>2. /\ store[p] \in Seq(Nat) /\ Rooted(made, Has(p))
      /\ node[p] \in Has(p) \cup {0} /\ Len(made) \in Nat
  BY HasIs
<1>3. Types
  BY DEF IndInv
<1>4. /\ made' \in Seq(Revision) /\ Len(made') = n /\ made'[n] = record
      /\ \A k \in 1..Len(made) : made'[k] = made[k]
  BY <1>1, <1>3, AppendProperties DEF Types
<1>5. /\ text' \in Seq(Seq(Line)) /\ Len(text') = n /\ text'[n] = new
      /\ \A k \in 1..Len(made) : text'[k] = text[k]
  BY <1>1, <1>3, AppendProperties DEF Types
<1>6. typed' \in Seq(Texts) /\ Len(typed') = n
  BY <1>1, <1>3, AppendProperties DEF Types
<1>7. n \in Nat /\ n # 0
  BY <1>2
<1>8. Append(store[p], n) \in Seq(Nat)
  BY <1>2, <1>7, AppendProperties
<1> HIDE DEF n
<1>9. Types'
  <2>1. net' \subseteq Message
    BY <1>1, <1>3, HeadsSafe DEF Types
  <2>2. /\ store' \in [Peers -> Seq(Nat)] /\ node' \in [Peers -> Nat]
        /\ body' \in [Peers -> Seq(Line)]
    BY <1>1, <1>3, <1>7, <1>8 DEF Types
  <2> QED
    BY <1>1, <1>4, <1>5, <1>6, <2>1, <2>2 DEF Types
<1>10. Reading(made, text)'
  BY <1>1 DEF Reading
<1>11. /\ Has(p)' = Has(p) \cup {n}
       /\ \A q \in Peers \ {p} : Has(q)' = Has(q)
  <2>1. /\ store'[p] = Append(store[p], n)
        /\ \A q \in Peers \ {p} : store'[q] = store[q]
    BY <1>1, <1>3 DEF Types
  <2>2. ToSet(Append(store[p], n)) = ToSet(store[p]) \cup {n}
    BY <1>2, <1>7, SetOfAppended
  <2> QED
    BY <2>1, <2>2 DEF Has
<1>12. ASSUME NEW q \in Peers
       PROVE  Has(q) \subseteq Has(q)' /\ Rooted(made', Has(q)')
  <2>1. Has(q) \subseteq Has(q)'
    BY <1>11
  <2>2. Rooted(made', Has(q))
    <3>1. Rooted(made, Has(q))
      BY HasIs
    <3>2. \A k \in 1..Len(made) : k \in 1..Len(made')
      BY <1>2, <1>4 DEF n
    <3> QED
      BY <1>4, <3>1, <3>2 DEF Rooted
  <2>3. CASE q = p
    <3>1. Rooted(made', Has(p))
      BY <2>2, <2>3
    <3>2. n \in 1..Len(made') /\ made'[n].parent \in Has(p) \cup {0}
      BY <1>1, <1>2, <1>4, <1>7
    <3>3. Rooted(made', Has(p) \cup {n})
      BY <3>1, <3>2 DEF Rooted
    <3> QED
      BY <1>11, <2>1, <2>3, <3>3
  <2>4. CASE q # p
    BY <1>11, <2>1, <2>2, <2>4
  <2> QED
    BY <2>3, <2>4
<1>13. ASSUME NEW q \in Peers PROVE Looked(q)'
  <2>1. node \in [Peers -> Nat] /\ body \in [Peers -> Seq(Line)]
    BY <1>3 DEF Types
  <2>2. CASE q = p
    <3>1. node'[q] = n /\ body'[q] = new /\ n \in Has(q)'
      BY <1>1, <1>11, <2>1, <2>2
    <3>2. History!TextOf(n, text') = new
      BY <1>5, <1>7 DEF History!TextOf
    <3> QED
      BY <3>1, <3>2 DEF Looked
  <2>3. CASE q # p
    <3>1. node'[q] = node[q] /\ body'[q] = body[q] /\ Has(q)' = Has(q)
      BY <1>1, <1>11, <2>1, <2>3
    <3>2. /\ node[q] \in Has(q) \cup {0} /\ node[q] \in 0..Len(made)
          /\ body[q] = History!TextOf(node[q], text)
      BY HasIs
    <3>3. History!TextOf(node[q], text') = History!TextOf(node[q], text)
      <4>1. node[q] # 0 => node[q] \in 1..Len(made)
        BY <1>2, <3>2
      <4> QED
        BY <1>5, <4>1 DEF History!TextOf
    <3> QED
      BY <3>1, <3>2, <3>3 DEF Looked
  <2> QED
    BY <2>2, <2>3
<1>14. ASSUME NEW m \in net' PROVE Safe(m)'
  <2>1. m \in Message /\ Safe(m)
    BY <1>1, <1>3, HeadsSafe DEF IndInv, Types
  <2>2. m.from \in Peers /\ m.to \in Peers
    BY <2>1, MessageHas
  <2>3. /\ Len(made)' \in Nat /\ Len(made) <= Len(made)'
        /\ \A k \in 1..Len(made) : made'[k].parent = made[k].parent
    BY <1>2, <1>4 DEF n
  <2>4. \A q \in Peers : Has(q) \subseteq Has(q)' /\ Rooted(made, Has(q))'
    BY <1>12
  <2> QED
    BY <1>2, <2>1, <2>2, <2>3, <2>4, SafeStays
<1> QED
  BY <1>9, <1>10, <1>12, <1>13, <1>14 DEF IndInv

LEMMA InitInv == ASSUME DocAssumption, Init PROVE IndInv
<1>1. /\ made = <<>> /\ typed = <<>> /\ text = <<>>
      /\ store = [p \in Peers |-> <<>>]
      /\ node = [p \in Peers |-> 0]
      /\ body = [p \in Peers |-> <<>>]
      /\ net = {}
  BY DEF Init
<1>2. Len(<<>>) = 0 /\ \A S : <<>> \in Seq(S)
  OBVIOUS
<1>3. Types
  <2>1. MaxEdits \in Nat
    BY DEF DocAssumption
  <2> QED
    BY <1>1, <1>2, <2>1 DEF Types
<1>4. Reading(made, text)
  BY <1>1, <1>2 DEF Reading
<1>5. ASSUME NEW p \in Peers PROVE Rooted(made, Has(p)) /\ Looked(p)
  <2>1. Has(p) = {}
    <3>1. ToSet(<<>>) = {}
      BY DEF ToSet
    <3> QED
      BY <1>1, <3>1 DEF Has
  <2>2. Rooted(made, Has(p))
    BY <2>1 DEF Rooted
  <2>3. Looked(p)
    BY <1>1 DEF Looked, History!TextOf
  <2> QED
    BY <2>2, <2>3
<1> QED
  BY <1>1, <1>3, <1>4, <1>5 DEF IndInv

\* What a step of the members is to the tree of revisions
LEMMA StepIs ==
  ASSUME DocAssumption, IndInv, [Next]_vars
  PROVE  \/ \E p \in Peers, t \in Texts : Writes(p, t)
         \/ \E p \in Peers : Shows(p)
         \/ \E m \in net : TakeRecords(m.to, m)
         \/ IndInv' /\ UNCHANGED <<made, typed, text, store, node, body>>
<1>1. CASE UNCHANGED vars
  <2>1. UNCHANGED <<made, typed, text, store, node, body>> /\ net' = net
    BY <1>1 DEF vars
  <2>2. net' \subseteq Message /\ \A m \in net' : m \in net
    BY <2>1 DEF IndInv, Types
  <2> QED
    BY <2>1, <2>2, OnlyMessages
<1>2. ASSUME NEW p \in Peers, Open(p)
      PROVE  \E q \in Peers : Shows(q)
  BY <1>2, OpenShows
<1>3. ASSUME NEW p \in Peers, Gather(p)
      PROVE  IndInv' /\ UNCHANGED <<made, typed, text, store, node, body>>
  BY <1>3, GatherKeeps DEF Gather
<1>4. ASSUME NEW p \in Peers, NEW n \in Records, Click(p, n)
      PROVE  \E q \in Peers : Shows(q)
  BY <1>4, ClickShows
<1>5. ASSUME NEW p \in Peers, NEW t \in Texts, Edit(p, t)
      PROVE  \E q \in Peers, u \in Texts : Writes(q, u)
  BY <1>5, EditWrites
<1>6. ASSUME NEW m \in net, TakeHead(m.to, m)
      PROVE  IndInv' /\ UNCHANGED <<made, typed, text, store, node, body>>
  <2>1. m.to \in Peers
    BY MessageHas DEF IndInv, Types
  <2>2. IndInv'
    BY <1>6, <2>1, TakeHeadKeeps
  <2> QED
    BY <1>6, <2>2 DEF TakeHead
<1>7. ASSUME NEW m \in net, TakeKeys(m.to, m)
      PROVE  IndInv' /\ UNCHANGED <<made, typed, text, store, node, body>>
  <2>1. m.to \in Peers
    BY MessageHas DEF IndInv, Types
  <2>2. IndInv'
    BY <1>7, <2>1, TakeKeysKeeps
  <2> QED
    BY <1>7, <2>2 DEF TakeKeys
<1>8. ASSUME NEW m \in net, TakeWanted(m.to, m)
      PROVE  IndInv' /\ UNCHANGED <<made, typed, text, store, node, body>>
  <2>1. m.to \in Peers
    BY MessageHas DEF IndInv, Types
  <2>2. IndInv'
    BY <1>8, <2>1, TakeWantedKeeps
  <2> QED
    BY <1>8, <2>2 DEF TakeWanted
<1>9. CASE \E p \in Peers : User(p)
  <2>1. PICK p \in Peers : User(p)
    BY <1>9
  <2>2. \/ Open(p) \/ Gather(p)
        \/ (\E n \in Records : Click(p, n)) \/ (\E t \in Texts : Edit(p, t))
    BY <2>1 DEF User
  <2> QED
    BY <1>2, <1>3, <1>4, <1>5, <2>2
<1>10. CASE \E m \in net : Recv(m.to, m)
  <2>1. PICK m \in net : Recv(m.to, m)
    BY <1>10
  <2>2. \/ TakeHead(m.to, m) \/ TakeKeys(m.to, m) \/ TakeWanted(m.to, m)
        \/ TakeRecords(m.to, m)
    BY <2>1 DEF Recv
  <2> QED
    BY <1>6, <1>7, <1>8, <2>2
<1> QED
  BY <1>1, <1>9, <1>10 DEF Next

LEMMA StepKeeps ==
  ASSUME DocAssumption, IndInv, [Next]_vars
  PROVE  IndInv'
BY StepIs, WritesKeeps, ShowsKeeps, TakeRecordsKeeps

\* The tree hangs together at every member and in every message that is on
\* its way, and every window shows the text of its revision.
THEOREM IndInvHolds == Spec => []IndInv
<1>1. Init => IndInv
  BY DocAssumption, InitInv
<1>2. IndInv /\ [Next]_vars => IndInv'
  BY DocAssumption, StepKeeps
<1> QED
  BY <1>1, <1>2, PTL DEF Spec

\* The records, the files, the windows and the messages are what they are
\* taken for; a record is made by a member who may write, after its parent.
THEOREM TypeCorrect == Spec => []TypeOK
<1>1. IndInv => TypeOK
  <2> SUFFICES ASSUME IndInv PROVE TypeOK
    OBVIOUS
  <2>1. /\ made \in Seq(Revision) /\ Len(made) \in Nat
        /\ DOMAIN made = 1..Len(made)
    <3>1. made \in Seq(Revision)
      BY DEF IndInv, Types
    <3> QED
      BY <3>1, LenProperties
  <2>2. /\ Len(made) <= MaxEdits /\ Len(typed) = Len(made)
        /\ Len(text) = Len(made) /\ net \subseteq Message
        /\ node \in [Peers -> Nat]
    BY DEF IndInv, Types
  <2>3. ASSUME NEW n \in DOMAIN made
        PROVE  made[n].author \in Writers /\ made[n].parent \in 0..(n - 1)
    <3>1. made[n] \in Revision
      BY <2>1, ElementOfSeq
    <3> QED
      BY <2>1, <3>1 DEF Revision, IndInv, Reading
  <2>4. \A p \in Peers :
          Has(p) \subseteq DOMAIN made /\ node[p] \in 0..Len(made)
    BY <2>1, HasIs
  <2>5. node \in [Peers -> 0..Len(made)]
    BY <2>2, <2>4
  <2> QED
    BY <2>2, <2>3, <2>4, <2>5 DEF TypeOK
<1> QED
  BY <1>1, IndInvHolds, PTL

-----------------------------------------------------------------------------
(* Documents implements DocHistory.                                         *)

\* What the revisions are made of, and the revisions of the members
From == [n \in DOMAIN made |-> made[n].parent]

Known == [p \in Peers |-> Has(p)]

LEMMA InitIsHistory == ASSUME Init PROVE History!Init
<1>1. made = <<>> /\ DOMAIN made = {}
  BY DEF Init
<1>2. [n \in DOMAIN made |-> made[n].parent] = <<>>
  BY <1>1
<1>3. \A p \in Peers : Has(p) = {}
  BY DEF Init, Has, ToSet
<1> QED
  BY <1>2, <1>3 DEF Init, History!Init

LEMMA FromIs ==
  ASSUME NEW log \in Seq(Revision)
  PROVE  LET up == [n \in DOMAIN log |-> log[n].parent] IN
         /\ up \in Seq(Nat) /\ Len(up) = Len(log)
         /\ \A n \in 1..Len(log) : up[n] = log[n].parent
<1> DEFINE up == [n \in DOMAIN log |-> log[n].parent]
           m == Len(log)
<1>1. m \in Nat /\ DOMAIN log = 1..m
  BY LenProperties
<1>2. ASSUME NEW n \in 1..m PROVE log[n].parent \in Nat
  <2>1. log[n] \in Revision
    BY ElementOfSeq
  <2> QED
    BY <2>1 DEF Revision
<1> HIDE DEF m
<1>3. up \in [1..m -> Nat]
  BY <1>1, <1>2
<1>4. \A n \in 1..m : up[n] = log[n].parent
  BY <1>1
<1> HIDE DEF up
<1>5. up \in Seq(Nat)
  BY <1>1, <1>3, SeqDef
<1>6. Len(up) = m
  <2>1. DOMAIN up = 1..Len(up) /\ Len(up) \in Nat /\ DOMAIN up = 1..m
    BY <1>3, <1>5, LenProperties
  <2>2. \A a, b \in Nat : 1..a = 1..b => a = b
    <3> SUFFICES ASSUME NEW a \in Nat, NEW b \in Nat, 1..a = 1..b
                 PROVE  a = b
      OBVIOUS
    <3>1. a # 0 => a \in 1..b
      BY SMT
    <3>2. b # 0 => b \in 1..a
      BY SMT
    <3> QED
      BY <3>1, <3>2
  <2> QED
    BY <1>1, <2>1, <2>2
<1> QED
  BY <1>4, <1>5, <1>6 DEF up, m

LEMMA WritesIsWrite ==
  ASSUME DocAssumption, IndInv, NEW p \in Peers, NEW t \in Texts, Writes(p, t)
  PROVE  History!Write(p)
<1> DEFINE n == Len(made) + 1
           new(d) == Revised(body[p], d)
           rec(d) == [author |-> p, parent |-> node[p], delta |-> d]
<1>1. PICK delta \in Deltas(body[p], t) :
        /\ rec(delta) \in Revision /\ new(delta) \in Seq(Line)
        /\ made' = Append(made, rec(delta))
        /\ typed' = Append(typed, t)
        /\ text' = Append(text, new(delta))
        /\ store' = [store EXCEPT ![p] = Append(store[p], n)]
        /\ node' = [node EXCEPT ![p] = n]
        /\ body' = [body EXCEPT ![p] = new(delta)]
  BY DEF Writes
<1>2. /\ made \in Seq(Revision) /\ Len(made) \in Nat
      /\ typed \in Seq(Texts) /\ Len(typed) = Len(made)
      /\ text \in Seq(Seq(Line)) /\ Len(text) = Len(made)
      /\ store \in [Peers -> Seq(Nat)]
      /\ store[p] \in Seq(Nat) /\ body[p] \in Seq(Line)
      /\ node[p] \in Nat
  BY HasIs DEF IndInv, Types
<1>3. History!Orderly(body[p], t) => new(delta) = t
  BY <1>2, TypedComesBack
<1> DEFINE record == rec(delta)
           reads == new(delta)
<1>4. record.parent = node[p] /\ record \in Revision /\ reads \in Seq(Line)
  BY <1>1
<1> HIDE DEF rec, new
<1>5. /\ Len(text') = n /\ History!Grows(text, text') /\ text'[n] = reads
  <2>1. Len(Append(text, reads)) = Len(text) + 1
    BY <1>2, <1>4, AppendProperties
  <2>2. text \in Seq(Seq(Line)) /\ reads \in Seq(Line)
    BY <1>2, <1>4
  <2>3. /\ History!Grows(text, Append(text, reads))
        /\ Append(text, reads)[Len(text) + 1] = reads
    BY <2>2, AppendGrows
  <2> QED
    BY <1>1, <1>2, <2>1, <2>3
<1>6. History!Grows(typed, typed') /\ typed'[n] = t
  <2>1. /\ History!Grows(typed, Append(typed, t))
        /\ Append(typed, t)[Len(typed) + 1] = t
    BY <1>2, AppendGrows
  <2> QED
    BY <1>1, <1>2, <2>1
<1>7. History!Grows(From, From') /\ From'[n] = node[p]
  <2>1. /\ made' \in Seq(Revision) /\ Len(made') = n /\ made'[n] = record
        /\ \A k \in 1..Len(made) : made'[k] = made[k]
    BY <1>1, <1>2, <1>4, AppendProperties
  <2>2. /\ From \in Seq(Nat) /\ Len(From) = Len(made)
        /\ \A k \in 1..Len(made) : From[k] = made[k].parent
    BY <1>2, FromIs DEF From
  <2>3. /\ From' \in Seq(Nat) /\ Len(From') = n
        /\ \A k \in 1..n : From'[k] = made'[k].parent
    BY <2>1, FromIs DEF From
  <2>4. From' = Append(From, node[p])
    <3> DEFINE a == Append(From, node[p])
    <3>1. /\ a \in Seq(Nat) /\ Len(a) = n /\ a[n] = node[p]
          /\ \A k \in 1..Len(made) : a[k] = From[k]
      BY <1>2, <2>2, AppendProperties
    <3> HIDE DEF a
    <3>2. \A k \in 1..n : From'[k] = a[k]
      <4> SUFFICES ASSUME NEW k \in 1..n PROVE From'[k] = a[k]
        OBVIOUS
      <4>1. k \in 1..Len(made) \/ k = n
        BY <1>2
      <4>2. CASE k \in 1..Len(made)
        <5>1. From'[k] = made'[k].parent
          BY <2>3
        <5>2. made'[k].parent = made[k].parent /\ a[k] = made[k].parent
          BY <2>1, <2>2, <3>1, <4>2
        <5> QED
          BY <5>1, <5>2
      <4>3. CASE k = n
        <5>1. From'[n] = made'[n].parent
          BY <2>3, <4>3
        <5> QED
          BY <1>4, <2>1, <3>1, <4>3, <5>1
      <4> QED
        BY <4>1, <4>2, <4>3
    <3>3. From' = a
      BY <2>3, <3>1, <3>2, SeqEqual
    <3> QED
      BY <3>3 DEF a
  <2>5. /\ History!Grows(From, Append(From, node[p]))
        /\ Append(From, node[p])[Len(From) + 1] = node[p]
    <3>1. From \in Seq(Nat) /\ node[p] \in Nat
      BY <1>2, <2>2
    <3> HIDE DEF From
    <3> QED
      BY <3>1, AppendGrows
  <2> QED
    BY <2>2, <2>4, <2>5
<1>8. Known' = [Known EXCEPT ![p] = Known[p] \cup {n}]
  <2>1. /\ Has(p)' = Has(p) \cup {n}
        /\ \A q \in Peers \ {p} : Has(q)' = Has(q)
    <3>1. /\ store'[p] = Append(store[p], n)
          /\ \A q \in Peers \ {p} : store'[q] = store[q]
      BY <1>1, <1>2
    <3>2. n \in Nat
      BY <1>2
    <3>3. \A k \in Nat :
            ToSet(Append(store[p], k)) = ToSet(store[p]) \cup {k}
      BY <1>2, SetOfAppended
    <3> QED
      BY <3>1, <3>2, <3>3 DEF Has
  <2> QED
    BY <2>1 DEF Known
<1> HIDE DEF n, record, reads
<1>9. Len(text') = n
  BY <1>5
<1>10. node' = [node EXCEPT ![p] = n] /\ body' = [body EXCEPT ![p] = text'[n]]
  BY <1>1, <1>5 DEF reads
<1>11. History!Orderly(body[p], typed'[n]) => text'[n] = typed'[n]
  BY <1>3, <1>5, <1>6 DEF reads
<1> QED
  BY <1>5, <1>6, <1>7, <1>8, <1>9, <1>10, <1>11
     DEF History!Write, From, Known

LEMMA ShowsIsShow ==
  ASSUME IndInv, NEW p \in Peers, Shows(p)
  PROVE  History!Show(p)
<1>1. PICK there \in Has(p) \cup {0} :
        /\ node' = [node EXCEPT ![p] = there]
        /\ body' = [body EXCEPT ![p] = History!TextOf(there, text)]
        /\ made' = made /\ typed' = typed /\ text' = text /\ store' = store
  BY DEF Shows
<1>2. node'[p] = there
  BY <1>1 DEF IndInv, Types
<1>3. From' = From /\ Known' = Known
  BY <1>1 DEF From, Known, Has
<1>4. Known[p] = Has(p)
  BY DEF Known
<1> QED
  BY <1>1, <1>2, <1>3, <1>4 DEF History!Show, From, Known

LEMMA TakeRecordsIsLearn ==
  ASSUME DocAssumption, IndInv, NEW m \in net, TakeRecords(m.to, m)
  PROVE  \E p \in Peers : History!Learn(p)
<1> DEFINE p == m.to
<1>1. /\ p \in Peers
      /\ Has(p)' = Has(p) \cup m.keys
      /\ \A q \in Peers \ {p} : Has(q)' = Has(q)
      /\ Rooted(made, Has(p) \cup m.keys)
      /\ UNCHANGED <<made, typed, text, node, body>>
  BY TakeRecordsLearns
<1> HIDE DEF p
<1>2. Known'[p] = Has(p)' /\ Known[p] = Has(p)
  BY <1>1 DEF Known
<1>3. Known' = [Known EXCEPT ![p] = Known'[p]]
  BY <1>1, <1>2 DEF Known
<1>4. /\ made \in Seq(Revision) /\ Len(text) = Len(made)
  BY DEF IndInv, Types
<1>5. ASSUME NEW n \in Known'[p]
      PROVE  n \in 1..Len(text) /\ From[n] \in Known'[p] \cup {0}
  <2>1. n \in 1..Len(made) /\ made[n].parent \in Known'[p] \cup {0}
    BY <1>1, <1>2 DEF Rooted
  <2>2. From[n] = made[n].parent
    BY <1>4, <2>1, FromIs DEF From
  <2> QED
    BY <1>4, <2>1, <2>2
<1>6. From' = From
  BY <1>1 DEF From
<1>7. Known[p] \subseteq Known'[p]
  BY <1>1, <1>2
<1>8. History!Learn(p)
  BY <1>1, <1>3, <1>5, <1>6, <1>7 DEF History!Learn, From, Known
<1> QED
  BY <1>1, <1>8

LEMMA NextIsHistory ==
  ASSUME DocAssumption, IndInv, [Next]_vars
  PROVE  [History!Next]_(History!vars)
<1>1. ASSUME NEW p \in Peers, NEW t \in Texts, Writes(p, t)
      PROVE  History!Next
  BY <1>1, WritesIsWrite DEF History!Next
<1>2. ASSUME NEW p \in Peers, Shows(p) PROVE History!Next
  BY <1>2, ShowsIsShow DEF History!Next
<1>3. ASSUME NEW m \in net, TakeRecords(m.to, m) PROVE History!Next
  BY <1>3, TakeRecordsIsLearn DEF History!Next
<1>4. ASSUME UNCHANGED <<made, typed, text, store, node, body>>
      PROVE  UNCHANGED History!vars
  <2>1. \A p \in Peers : Has(p)' = Has(p)
    BY <1>4 DEF Has
  <2> QED
    BY <1>4, <2>1 DEF History!vars
<1> QED
  BY <1>1, <1>2, <1>3, <1>4, StepIs

\* Whatever is lost and in whatever order the rest arrives, the members of a
\* group keep the tree of revisions that DocHistory promises: nobody has a
\* record without the ones it is built on, all who look at a revision read
\* the same, and it is what its author typed unless lines repeat or move.
THEOREM ImplementsHistory == Spec => KeepsHistory
<1>1. Init => History!Init
  BY InitIsHistory
<1>2. IndInv /\ [Next]_vars => [History!Next]_(History!vars)
  BY DocAssumption, NextIsHistory
<1> QED
  BY <1>1, <1>2, IndInvHolds, PTL DEF Spec, KeepsHistory, History!Spec
=============================================================================
