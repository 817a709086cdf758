--------------------------- MODULE DownloadProofs ---------------------------
(***************************************************************************)
(* Proofs about Download: what is in the temporary files and in            *)
(* downloads/, in which the number of requests plays no part; and then     *)
(* that number.                                                            *)
(***************************************************************************)
EXTENDS Download, FiniteSetTheorems, TLAPS

\* What the files depend on
Types ==
  /\ state \in [Hashes -> States]
  /\ top \in [Hashes -> Nat]
  /\ finish \in [Hashes -> Nat]
  /\ temp \in [Names -> File]
  /\ final \in [Names -> File]
  /\ known \subseteq Hashes
  /\ gets \in [Message -> Nat]
  /\ gives \in [Message -> Nat]
  /\ added \in [Hashes -> Nat]
  /\ mixed \in [Hashes -> BOOLEAN]

\* A file in downloads/ belongs to a known hash.
FinalKnown ==
  \A n \in Names :
    final[n] = Absent \/ \E h \in known : Name[h] = n /\ final[n] = Whole(h)

\* What is known is copied and not fetched.
RunUnknown == \A h \in Hashes : state[h] = "RUN" => h \notin known

InFlight(m) == gets[m] > 0 \/ gives[m] > 0

\* Requests and answers are about chunks of the file, and not of a download
\* to come.
Sent ==
  \A m \in Message :
    InFlight(m) =>
      /\ m.at \in Nat /\ m.at < Size[m.hash]
      /\ m.add <= added[m.hash]

\* Nothing but the present download has touched the temporary file of h.
Clean(h) == ~mixed[h] /\ state[h] # "NONE"

Temp(h) == temp[Name[h]]

\* Its own chunks, and no more than it has
Pure ==
  \A h \in Hashes :
    Clean(h) => /\ Len(Temp(h)) <= Size[h]
                /\ \A i \in 1..Len(Temp(h)) : Temp(h)[i] = h

\* While it is fetched the position, and what it asks for, are at most one
\* chunk ahead.
Reached ==
  \A h \in Hashes : Clean(h) /\ h \notin known => top[h] <= Len(Temp(h))

AskedFor ==
  \A m \in Message :
    LET h == m.hash IN
    InFlight(m) /\ Clean(h) /\ h \notin known /\ m.add = added[h] =>
      m.at <= Len(Temp(h))

\* dl_finish only comes when all of it is there.
Ended ==
  \A h \in Hashes :
    Clean(h) => /\ h \in known => Temp(h) \in {Absent, Whole(h)}
                /\ h \notin known /\ finish[h] > 0 => Temp(h) = Whole(h)

Inv ==
  /\ Types
  /\ KnownIsKept /\ FinalKnown /\ RunUnknown
  /\ Sent /\ Pure /\ Reached /\ AskedFor /\ Ended
  /\ ErrorOnlyWhenMixed

USE DownloadAssumption DEF States

-----------------------------------------------------------------------------
(* Files.                                                                  *)

LEMMA WholeFile ==
  ASSUME NEW h \in Hashes
  PROVE  /\ Whole(h) \in File
         /\ Len(Whole(h)) = Size[h]
         /\ \A i \in 1..Size[h] : Whole(h)[i] = h
         /\ Whole(h) # Absent
<1>1. Size[h] \in Nat /\ Size[h] > 0
  OBVIOUS
<1> DEFINE f == Whole(h)
<1>3. f \in File
  BY <1>1 DEF Whole, File
<1>4. Len(f) = Size[h]
  <2>1. DOMAIN f = 1..Size[h]
    BY DEF Whole
  <2> HIDE DEF f
  <2> QED
    BY <1>1, <1>3, <2>1 DEF File
<1> QED
  BY <1>1, <1>3, <1>4 DEF Whole, Absent

LEMMA EmptyFile ==
  ASSUME NEW f, f = Absent
  PROVE  Len(f) = 0
BY DEF Absent

\* A file is of one hash.
LEMMA WholeOfOne ==
  ASSUME NEW g \in Hashes, NEW h \in Hashes, Whole(g) = Whole(h)
  PROVE  g = h
<1>1. 1 \in 1..Size[g] /\ 1 \in 1..Size[h]
  OBVIOUS
<1>2. Whole(g)[1] = g /\ Whole(h)[1] = h
  BY <1>1, WholeFile
<1> QED
  BY <1>2

\* A file of Size[h] chunks of h is that of h.
LEMMA WholeWhenFull ==
  ASSUME NEW h \in Hashes, NEW f \in File, Len(f) = Size[h],
         \A i \in 1..Len(f) : f[i] = h
  PROVE  f = Whole(h)
<1>1. f = [i \in 1..Len(f) |-> f[i]]
  BY DEF File
<1> QED
  BY <1>1 DEF Whole

LEMMA Longer ==
  ASSUME NEW a \in Nat, NEW b \in Nat
  PROVE  /\ Max({a, b}) \in Nat /\ a <= Max({a, b}) /\ b <= Max({a, b})
         /\ Max({a, b}) \in {a, b}
<1>1. \E x \in {a, b} : \A y \in {a, b} : x >= y
  OBVIOUS
<1> QED
  BY <1>1 DEF Max

\* What dl_write makes of a file without a gap.
LEMMA WrittenFile ==
  ASSUME NEW f \in File, NEW at \in Nat, NEW h \in Hashes
  PROVE  /\ Written(f, at, h) \in File
         /\ Len(Written(f, at, h)) \in {Len(f), at + 1}
         /\ Len(Written(f, at, h)) >= Len(f)
         /\ Len(Written(f, at, h)) >= at + 1
         /\ (/\ at <= Len(f)
             /\ \A i \in 1..Len(f) : f[i] = h)
              => \A i \in 1..Len(Written(f, at, h)) : Written(f, at, h)[i] = h
<1> DEFINE n == Max({Len(f), at + 1})
<1>1. Len(f) \in Nat /\ at + 1 \in Nat
  BY DEF File
<1>2. n \in Nat /\ Len(f) <= n /\ at + 1 <= n /\ n \in {Len(f), at + 1}
  BY <1>1, Longer
<1>3. Written(f, at, h) =
        [i \in 1..n |->
           IF i = at + 1 THEN h ELSE IF i <= Len(f) THEN f[i] ELSE Hole]
  BY DEF Written
<1> HIDE DEF n
<1>4. \A i \in 1..Len(f) : f[i] \in Hashes \cup {Hole}
  BY DEF File
<1>5. Written(f, at, h) \in File
  <2>1. \A i \in 1..n :
          (IF i = at + 1 THEN h ELSE IF i <= Len(f) THEN f[i] ELSE Hole)
            \in Hashes \cup {Hole}
    BY <1>1, <1>2, <1>4
  <2> QED
    BY <1>2, <1>3, <2>1 DEF File
<1>6. Len(Written(f, at, h)) = n
  BY <1>2, <1>3
<1> QED
  BY <1>1, <1>2, <1>3, <1>5, <1>6

-----------------------------------------------------------------------------
(* Every action keeps Inv.                                                 *)

LEMMA OfMessage ==
  ASSUME NEW m \in Message
  PROVE  m.hash \in Hashes
BY DEF Message

\* What an action keeps that changes no file.
LEMMA SameFiles ==
  ASSUME Inv, Types', UNCHANGED files,
         \A h \in Hashes : state'[h] = "RUN" => h \notin known
  PROVE  KnownIsKept' /\ FinalKnown' /\ RunUnknown'
BY DEF Inv, KnownIsKept, FinalKnown, RunUnknown, files

\* dl_run: it asks for what comes next, or the file is complete.
LEMMA AskKeeps ==
  ASSUME Inv, NEW h \in Hashes, state[h] = "RUN", Ask(h),
         UNCHANGED <<top, files, gives, added, mixed>>
  PROVE  Inv'
<1>1. Types'
  BY DEF Inv, Types, Ask, files
<1>2. \A g \in Hashes : /\ state'[g] = "RUN" => state[g] = "RUN"
                        /\ state'[g] = "ERROR" => state[g] = "ERROR"
                        /\ state'[g] = "NONE" <=> state[g] = "NONE"
  BY DEF Inv, Types, Ask
<1>3. KnownIsKept' /\ FinalKnown' /\ RunUnknown'
  BY <1>1, <1>2, SameFiles DEF Inv, RunUnknown
<1>4. \A g \in Hashes : Clean(g)' <=> Clean(g)
  BY <1>2 DEF Clean
<1>5. \A g \in Hashes : Temp(g)' = Temp(g)
  BY DEF Temp, files
<1>6. \A m \in Message :
        InFlight(m)' => \/ InFlight(m)
                        \/ m = Request(h) /\ top[h] < Size[h]
  BY DEF InFlight, Ask, Inv, Types
<1>7. Sent'
  BY <1>6, OfMessage DEF Sent, Inv, Types, Request
<1>8. Pure' /\ Reached'
  BY <1>4, <1>5 DEF Inv, Pure, Reached, files
<1>9. AskedFor'
  BY <1>4, <1>5, <1>6, OfMessage DEF Inv, AskedFor, Reached, Request, files
<1>10. Ended'
  <2> SUFFICES ASSUME NEW g \in Hashes, Clean(g)
               PROVE  /\ g \in known => Temp(g) \in {Absent, Whole(g)}
                      /\ g \notin known /\ finish'[g] > 0 =>
                           Temp(g) = Whole(g)
    BY <1>4, <1>5 DEF Ended, files
  <2>1. CASE finish'[g] = finish[g]
    BY <2>1 DEF Inv, Ended
  <2>2. CASE finish'[g] # finish[g]
    <3>1. g = h /\ ~ top[h] < Size[h]
      BY <2>2 DEF Ask, Inv, Types
    <3>2. h \notin known
      BY DEF Inv, RunUnknown
    <3>3. Temp(h) \in File /\ Len(Temp(h)) \in Nat
      BY DEF Inv, Types, Temp, File
    <3>4. Len(Temp(h)) <= Size[h] /\ top[h] <= Len(Temp(h))
      BY <3>1, <3>2 DEF Inv, Pure, Reached
    <3>5. Len(Temp(h)) = Size[h]
      BY <3>1, <3>3, <3>4 DEF Inv, Types
    <3>6. Temp(h) = Whole(h)
      BY <3>1, <3>3, <3>5, WholeWhenFull DEF Inv, Pure
    <3> QED
      BY <3>1, <3>2, <3>6
  <2> QED
    BY <2>1, <2>2
<1>11. ErrorOnlyWhenMixed'
  BY <1>2 DEF Inv, ErrorOnlyWhenMixed
<1> QED
  BY <1>1, <1>3, <1>7, <1>8, <1>9, <1>10, <1>11 DEF Inv

\* What keeps Inv because it changes neither a file nor what is known of the
\* downloads.
LEMMA QuietKeeps ==
  ASSUME Inv, Types', UNCHANGED <<top, finish, files, added, mixed>>,
         \A h \in Hashes :
           /\ state'[h] = "RUN" => h \notin known
           /\ state'[h] = "ERROR" => state[h] = "ERROR"
           /\ state[h] = "NONE" <=> state'[h] = "NONE",
         \A m \in Message : InFlight(m)' => InFlight(m)
  PROVE  Inv'
<1>1. KnownIsKept' /\ FinalKnown' /\ RunUnknown'
  BY SameFiles
<1>2. \A h \in Hashes : Clean(h)' <=> Clean(h)
  BY DEF Clean
<1>3. \A h \in Hashes : Temp(h)' = Temp(h)
  BY DEF Temp, files
<1>4. Sent'
  BY DEF Inv, Sent
<1>5. Pure' /\ Reached' /\ Ended'
  BY <1>2, <1>3 DEF Inv, Pure, Reached, Ended, files
<1>6. AskedFor'
  BY <1>2, <1>3, OfMessage DEF Inv, AskedFor, files
<1>7. ErrorOnlyWhenMixed'
  BY DEF Inv, ErrorOnlyWhenMixed
<1> QED
  BY <1>1, <1>4, <1>5, <1>6, <1>7 DEF Inv

LEMMA RunTimerKeeps ==
  ASSUME Inv, NEW h \in Hashes, RunTimer(h)
  PROVE  Inv'
<1>1. CASE state[h] = "RUN"
  BY <1>1, AskKeeps DEF RunTimer, logVars
<1>2. CASE state[h] # "RUN"
  BY <1>2, QuietKeeps
  DEF RunTimer, Inv, Types, InFlight, RunUnknown, files, logVars
<1> QED
  BY <1>1, <1>2

LEMMA CheckTurnKeeps ==
  ASSUME Inv, NEW h \in Hashes, CheckTurn(h)
  PROVE  Inv'
<1>1. CASE state[h] = "RUN"
  BY <1>1, AskKeeps DEF CheckTurn
<1>2. CASE state[h] # "RUN"
  BY <1>2, QuietKeeps DEF CheckTurn, Inv, Types, InFlight, RunUnknown, files
<1> QED
  BY <1>1, <1>2

LEMMA NetworkKeeps ==
  ASSUME Inv, NEW m \in Message, Serve(m) \/ Lose(m)
  PROVE  Inv'
<1>1. Types'
  BY DEF Serve, Lose, Inv, Types, files, timers, logVars
<1>2. \A k \in Message : InFlight(k)' => InFlight(k)
  BY DEF Serve, Lose, Inv, Types, InFlight
<1> QED
  BY <1>1, <1>2, QuietKeeps
  DEF Serve, Lose, Inv, RunUnknown, timers, logVars

LEMMA StopKeeps ==
  ASSUME Inv, NEW h \in Hashes, Stop(h)
  PROVE  Inv'
BY QuietKeeps
DEF Stop, Inv, Types, RunUnknown, InFlight, files, timers, network, logVars

LEMMA StartFetchKeeps ==
  ASSUME Inv, NEW h \in Hashes, NEW sources \in BOOLEAN,
         StartFetch(h, sources)
  PROVE  Inv'
BY QuietKeeps DEF StartFetch, Inv, Types, RunUnknown, InFlight, files, network

\* A chunk goes to the end of what is there, or onto one of its own; what it
\* does to another download of the name is marked.
LEMMA GiveKeeps ==
  ASSUME Inv, NEW m \in Message, Give(m)
  PROVE  Inv'
<1> DEFINE h == m.hash
<1>0. h \in Hashes /\ gives[m] > 0
  BY OfMessage DEF Give
<1>1. CASE state[h] # "RUN"
  <2>1. Types' /\ \A k \in Message : InFlight(k)' => InFlight(k)
    BY <1>1 DEF Give, Inv, Types, InFlight
  <2> QED
    BY <1>1, <2>1, QuietKeeps DEF Give, Inv, RunUnknown, files
<1>2. CASE state[h] = "RUN"
  <2> DEFINE n == Name[h]
             new == Written(temp[n], m.at, h)
  <2>1. /\ temp' = [temp EXCEPT ![n] = new]
        /\ top' = [top EXCEPT ![h] = m.at + 1]
        /\ Mix(Sharing(h) \cup (IF m.add = added[h] THEN {} ELSE {h}))
        /\ UNCHANGED <<state, finish, final, known, gets, added>>
        /\ gives' = [gives EXCEPT ![m] = @ - 1]
    BY <1>2 DEF Give
  <2>2. h \notin known /\ n \in Names /\ temp[n] \in File
    BY <1>0, <1>2 DEF Inv, RunUnknown, Types
  <2>3. m.at \in Nat /\ m.at < Size[h]
    BY <1>0 DEF Inv, Sent, InFlight
  <2>4. new \in File
    BY <1>0, <2>2, <2>3, WrittenFile
  <2>5. Types'
    <3>1. mixed' \in [Hashes -> BOOLEAN]
      BY <2>1 DEF Mix, Inv, Types
    <3> HIDE DEF new, n, h
    <3>2. temp' \in [Names -> File]
      BY <2>1, <2>2, <2>4 DEF Inv, Types
    <3>3. top' \in [Hashes -> Nat]
      BY <1>0, <2>1, <2>3 DEF Inv, Types
    <3>4. gives' \in [Message -> Nat]
      BY <1>0, <2>1 DEF Inv, Types
    <3> QED
      BY <2>1, <3>1, <3>2, <3>3, <3>4 DEF Inv, Types
  <2>6. \A k \in Message : InFlight(k)' => InFlight(k)
    BY <2>1 DEF Inv, Types, InFlight
  <2>7. \A g \in Hashes :
          Clean(g)' => /\ Clean(g)
                       /\ \/ Name[g] # n
                          \/ g = h /\ m.add = added[h]
    BY <2>1 DEF Clean, Mix, Sharing
  <2>8. \A g \in Hashes : Name[g] # n => Temp(g)' = Temp(g)
    BY <2>1 DEF Temp, Inv, Types
  <2>9. Temp(h)' = new /\ Temp(h) = temp[n]
    BY <2>1, <2>2 DEF Temp, Inv, Types
  <2>10. ASSUME Clean(h)'
         PROVE  /\ Len(new) \in Nat /\ Len(new) <= Size[h]
                /\ \A i \in 1..Len(new) : new[i] = h
                /\ Len(temp[n]) <= Len(new)
                /\ m.at + 1 <= Len(new)
                /\ finish[h] > 0 => new = Whole(h)
    <3>1. Clean(h) /\ m.add = added[h]
      BY <1>0, <2>7, <2>10
    <3>2. m.at <= Len(temp[n])
      BY <1>0, <2>2, <2>9, <3>1 DEF Inv, AskedFor, InFlight
    <3>3. /\ Len(temp[n]) \in Nat /\ Len(temp[n]) <= Size[h]
          /\ \A i \in 1..Len(temp[n]) : temp[n][i] = h
      BY <1>0, <2>2, <2>9, <3>1 DEF Inv, Pure, File
    <3>4. /\ Len(new) \in {Len(temp[n]), m.at + 1}
          /\ Len(new) >= Len(temp[n]) /\ Len(new) >= m.at + 1
          /\ \A i \in 1..Len(new) : new[i] = h
      BY <1>0, <2>2, <2>3, <3>2, <3>3, WrittenFile
    <3> HIDE DEF new, n
    <3>5. Len(new) \in Nat /\ Len(new) <= Size[h]
      BY <1>0, <2>3, <3>3, <3>4
    <3>6. ASSUME finish[h] > 0
          PROVE  new = Whole(h)
      <4>1. Len(temp[n]) = Size[h]
        <5>1. temp[n] = Whole(h)
          BY <1>0, <2>2, <2>9, <3>1, <3>6 DEF Inv, Ended
        <5> QED
          BY <1>0, <5>1, WholeFile
      <4>2. Len(new) = Size[h]
        BY <1>0, <3>4, <3>5, <4>1
      <4> QED
        BY <1>0, <2>4, <3>4, <4>2, WholeWhenFull
    <3> QED
      BY <2>3, <3>3, <3>4, <3>5, <3>6
  <2>11. KnownIsKept' /\ FinalKnown' /\ RunUnknown' /\ Sent'
    BY <2>1, <2>6 DEF Inv, KnownIsKept, FinalKnown, RunUnknown, Sent
  <2> HIDE DEF new, n, h
  <2>12. Pure'
    BY <2>7, <2>8, <2>9, <2>10 DEF Inv, Pure
  <2>13. Reached'
    <3>1. \A g \in Hashes \ {h} : top'[g] = top[g]
      BY <2>1 DEF Inv, Types
    <3>2. top'[h] = m.at + 1
      BY <1>0, <2>1 DEF Inv, Types
    <3> QED
      BY <2>1, <2>7, <2>8, <2>9, <2>10, <3>1, <3>2 DEF Inv, Reached
  <2>14. AskedFor'
    <3> SUFFICES ASSUME NEW k \in Message, InFlight(k)', Clean(k.hash)',
                        k.hash \notin known, k.add = added[k.hash]
                 PROVE  k.at <= Len(Temp(k.hash)')
      BY <2>1 DEF AskedFor
    <3>1. k.hash \in Hashes /\ k.at \in Nat
      BY <2>6, OfMessage DEF Inv, Sent
    <3>2. Clean(k.hash) /\ k.at <= Len(Temp(k.hash))
      BY <2>6, <2>7, <3>1 DEF Inv, AskedFor
    <3>3. CASE Name[k.hash] # n
      BY <2>8, <3>1, <3>2, <3>3
    <3>4. CASE k.hash = h
      <4>1. Len(temp[n]) \in Nat
        BY <2>2 DEF File
      <4>2. k.at <= Len(temp[n]) /\ Len(temp[n]) <= Len(new)
        BY <2>9, <2>10, <3>2, <3>4
      <4> QED
        BY <2>9, <2>10, <3>1, <3>4, <4>1, <4>2
    <3> QED
      BY <2>7, <3>1, <3>3, <3>4
  <2>15. Ended'
    BY <2>1, <2>2, <2>7, <2>8, <2>9, <2>10 DEF Inv, Ended
  <2>16. ErrorOnlyWhenMixed'
    BY <2>1 DEF Inv, ErrorOnlyWhenMixed, Mix
  <2> QED
    BY <2>5, <2>11, <2>12, <2>13, <2>14, <2>15, <2>16 DEF Inv
<1> QED
  BY <1>1, <1>2

\* A download that starts over is clean only if nothing is left of another.
LEMMA AddKeeps ==
  ASSUME Inv, NEW h \in Hashes, Add(h)
  PROVE  Inv'
<1>1. Types'
  BY DEF Add, Inv, Types, files, timers, network
<1>2. /\ added'[h] = added[h] + 1 /\ state'[h] = "STOP" /\ top'[h] = 0
      /\ ~mixed'[h] => temp[Name[h]] = Absent /\ ~ finish[h] > 0
  BY DEF Add, Inv, Types
<1>3. \A g \in Hashes \ {h} :
        /\ added'[g] = added[g] /\ state'[g] = state[g]
        /\ top'[g] = top[g] /\ mixed'[g] = mixed[g]
  BY DEF Add, Inv, Types
<1>4. UNCHANGED <<finish, temp, final, known, gets, gives>>
  BY DEF Add, files, timers, network
<1>5. KnownIsKept' /\ FinalKnown' /\ RunUnknown'
  BY <1>2, <1>3, <1>4 DEF Inv, KnownIsKept, FinalKnown, RunUnknown
<1>6. Sent'
  <2> SUFFICES ASSUME NEW m \in Message, InFlight(m)
               PROVE  /\ m.at \in Nat /\ m.at < Size[m.hash]
                      /\ m.add <= added'[m.hash]
    BY <1>4 DEF Sent, InFlight
  <2>1. /\ m.at \in Nat /\ m.at < Size[m.hash] /\ m.add <= added[m.hash]
        /\ m.hash \in Hashes
    BY OfMessage DEF Inv, Sent
  <2>2. m.add \in Nat /\ added[m.hash] \in Nat
    BY <2>1 DEF Message, Inv, Types
  <2> QED
    BY <1>2, <1>3, <2>1, <2>2
<1>7. \A g \in Hashes \ {h} : /\ Clean(g)' <=> Clean(g)
                              /\ Temp(g)' = Temp(g)
  BY <1>3, <1>4 DEF Clean, Temp
<1>8. Clean(h)' => Temp(h)' = Absent /\ ~ finish[h] > 0
  BY <1>2, <1>4 DEF Clean, Temp
<1>9. Pure'
  <2> SUFFICES ASSUME NEW g \in Hashes, Clean(g)'
               PROVE  /\ Len(Temp(g)') <= Size[g]
                      /\ \A i \in 1..Len(Temp(g)') : Temp(g)'[i] = g
    BY DEF Pure
  <2>1. CASE g = h
    BY <1>8, <2>1, EmptyFile
  <2>2. CASE g # h
    BY <1>7, <2>2 DEF Inv, Pure
  <2> QED
    BY <2>1, <2>2
<1>10. Reached'
  <2> SUFFICES ASSUME NEW g \in Hashes, Clean(g)', g \notin known
               PROVE  top'[g] <= Len(Temp(g)')
    BY <1>4 DEF Reached
  <2>1. CASE g = h
    BY <1>2, <1>8, <2>1, EmptyFile
  <2>2. CASE g # h
    BY <1>3, <1>7, <2>2 DEF Inv, Reached
  <2> QED
    BY <2>1, <2>2
<1>11. AskedFor'
  <2> SUFFICES ASSUME NEW m \in Message, InFlight(m), Clean(m.hash)',
                      m.hash \notin known, m.add = added'[m.hash]
               PROVE  m.at <= Len(Temp(m.hash)')
    BY <1>4 DEF AskedFor, InFlight
  <2>1. m.hash # h
    <3>1. m.add <= added[m.hash] /\ m.hash \in Hashes
      BY OfMessage DEF Inv, Sent
    <3> QED
      BY <1>2, <3>1 DEF Inv, Types
  <2> QED
    BY <1>3, <1>7, <2>1, OfMessage DEF Inv, AskedFor
<1>12. Ended'
  BY <1>4, <1>7, <1>8 DEF Inv, Ended
<1>13. ErrorOnlyWhenMixed'
  BY <1>2, <1>3 DEF Inv, ErrorOnlyWhenMixed
<1> QED
  BY <1>1, <1>5, <1>6, <1>9, <1>10, <1>11, <1>12, <1>13 DEF Inv

\* A copy of a finished file is whole.
LEMMA StartKnownKeeps ==
  ASSUME Inv, NEW h \in Hashes, StartKnown(h)
  PROVE  Inv'
<1> DEFINE n == Name[h]
<1>1. /\ h \in known /\ state[h] # "NONE" /\ n \in Names
      /\ final[n] = Whole(h)
  BY DEF StartKnown, Inv, KnownIsKept
<1>2. /\ temp' = [temp EXCEPT ![n] = IF @ = Absent THEN final[n] ELSE @]
      /\ finish' = [finish EXCEPT ![h] = @ + 1]
      /\ UNCHANGED <<state, top, final, known, gets, gives, added>>
      /\ IF temp[n] = Absent THEN Mix(Sharing(h)) ELSE UNCHANGED mixed
  BY DEF StartKnown, network
<1> HIDE DEF n
<1>3. Types'
  <2>1. mixed' \in [Hashes -> BOOLEAN]
    BY <1>2 DEF Mix, Inv, Types
  <2>2. temp' \in [Names -> File]
    BY <1>1, <1>2 DEF Inv, Types
  <2>3. finish' \in [Hashes -> Nat]
    BY <1>2 DEF Inv, Types
  <2> QED
    BY <1>2, <2>1, <2>2, <2>3 DEF Inv, Types
<1>4. KnownIsKept' /\ FinalKnown' /\ RunUnknown' /\ Sent'
  BY <1>2 DEF Inv, KnownIsKept, FinalKnown, RunUnknown, Sent, InFlight
<1>5. \A g \in Hashes : Clean(g)' => Clean(g)
  BY <1>2 DEF Clean, Mix
<1>6. \A g \in Hashes \ {h} : Clean(g)' => Temp(g)' = Temp(g)
  BY <1>1, <1>2 DEF Clean, Mix, Sharing, Temp, n, Inv, Types
<1>7. Clean(h)' => Temp(h)' = Whole(h)
  <2>1. temp'[n] = IF temp[n] = Absent THEN Whole(h) ELSE temp[n]
    BY <1>1, <1>2 DEF Inv, Types
  <2>2. Clean(h) => temp[n] \in {Absent, Whole(h)}
    BY <1>1 DEF Inv, Ended, Temp, n
  <2>3. Temp(h)' = temp'[n]
    BY DEF Temp, n
  <2> QED
    BY <1>5, <2>1, <2>2, <2>3
<1>8. Pure'
  <2> SUFFICES ASSUME NEW g \in Hashes, Clean(g)'
               PROVE  /\ Len(Temp(g)') <= Size[g]
                      /\ \A i \in 1..Len(Temp(g)') : Temp(g)'[i] = g
    BY DEF Pure
  <2>1. CASE g = h
    <3>1. Temp(g)' = Whole(g) /\ Size[g] \in Nat
      BY <1>7, <2>1
    <3> QED
      BY <3>1, WholeFile
  <2>2. CASE g # h
    BY <1>5, <1>6, <2>2 DEF Inv, Pure
  <2> QED
    BY <2>1, <2>2
<1>9. Reached' /\ AskedFor'
  BY <1>1, <1>2, <1>5, <1>6, OfMessage
  DEF Inv, Reached, AskedFor, InFlight
<1>10. Ended'
  <2>1. \A g \in Hashes \ {h} : finish'[g] = finish[g]
    BY <1>2 DEF Inv, Types
  <2> QED
    BY <1>1, <1>2, <1>5, <1>6, <1>7, <2>1 DEF Inv, Ended
<1>11. ErrorOnlyWhenMixed'
  BY <1>2 DEF Inv, ErrorOnlyWhenMixed, Mix
<1> QED
  BY <1>3, <1>4, <1>8, <1>9, <1>10, <1>11 DEF Inv

\* dl_del takes the temporary file from others only when they are marked.
LEMMA RemoveKeeps ==
  ASSUME Inv, NEW h \in Hashes, Remove(h),
         UNCHANGED <<top, finish, final, known, network, added>>
  PROVE  Inv'
<1>1. CASE state[h] = "NONE" \/ state[h] = "DONE"
  <2>1. /\ UNCHANGED <<temp, mixed>>
        /\ state' \in [Hashes -> States]
        /\ \A g \in Hashes : state'[g] \in {state[g], "NONE"}
    BY <1>1 DEF Remove, Inv, Types
  <2>2. Types'
    BY <2>1 DEF Inv, Types, network
  <2>3. KnownIsKept' /\ FinalKnown' /\ RunUnknown'
    BY <2>1, <2>2, SameFiles DEF files, Inv, RunUnknown
  <2>4. \A g \in Hashes : /\ Clean(g)' => Clean(g)
                          /\ Temp(g)' = Temp(g)
    <3> TAKE g \in Hashes
    <3>1. state'[g] \in {state[g], "NONE"}
      BY <2>1
    <3> QED
      BY <2>1, <3>1 DEF Clean, Temp
  <2>5. Sent' /\ ErrorOnlyWhenMixed'
    <3>1. Sent'
      BY DEF Inv, Sent, InFlight, network
    <3>2. ErrorOnlyWhenMixed'
      BY <2>1 DEF Inv, ErrorOnlyWhenMixed
    <3> QED
      BY <3>1, <3>2
  <2>6. Pure' /\ Reached' /\ AskedFor' /\ Ended'
    BY <2>4, OfMessage
    DEF Inv, Pure, Reached, AskedFor, Ended, InFlight, network
  <2> QED
    BY <2>2, <2>3, <2>5, <2>6 DEF Inv
<1>2. CASE state[h] \notin {"NONE", "DONE"}
  <2> DEFINE n == Name[h]
  <2>1. /\ state' = [state EXCEPT ![h] = "NONE"]
        /\ temp' = [temp EXCEPT ![n] = Absent]
        /\ Mix(Sharing(h))
    BY <1>2 DEF Remove
  <2>2. Types'
    <3>1. mixed' \in [Hashes -> BOOLEAN]
      BY <2>1 DEF Mix, Inv, Types
    <3>2. Absent \in File
      BY DEF Absent, File
    <3>3. temp' \in [Names -> File]
      BY <2>1, <3>2 DEF Inv, Types
    <3>4. state' \in [Hashes -> States]
      BY <2>1 DEF Inv, Types
    <3> QED
      BY <3>1, <3>3, <3>4 DEF Inv, Types, network
  <2>3. \A g \in Hashes : /\ state'[g] \in {state[g], "NONE"}
                          /\ mixed[g] => mixed'[g]
    BY <2>1 DEF Mix, Inv, Types
  <2>4. \A g \in Hashes : Clean(g)' => Clean(g) /\ Temp(g)' = Temp(g)
    <3> TAKE g \in Hashes
    <3>1. CASE g = h
      BY <2>1, <3>1 DEF Clean, Inv, Types
    <3>2. CASE g # h /\ Name[g] = n
      BY <2>1, <3>2 DEF Clean, Mix, Sharing
    <3>3. CASE g # h /\ Name[g] # n
      BY <2>1, <2>3, <3>3 DEF Clean, Temp, Inv, Types
    <3> QED
      BY <3>1, <3>2, <3>3
  <2>5. KnownIsKept' /\ FinalKnown' /\ RunUnknown' /\ Sent'
    BY <2>3
    DEF Inv, KnownIsKept, FinalKnown, RunUnknown, Sent, InFlight, network
  <2>6. ErrorOnlyWhenMixed'
    BY <2>3 DEF Inv, ErrorOnlyWhenMixed
  <2>7. Pure' /\ Reached' /\ AskedFor' /\ Ended'
    BY <2>4, OfMessage
    DEF Inv, Pure, Reached, AskedFor, Ended, InFlight, network
  <2> QED
    BY <2>2, <2>5, <2>6, <2>7 DEF Inv
<1> QED
  BY <1>1, <1>2

\* A rejected file was not clean; an accepted one takes its own name, or
\* leaves what is there.
LEMMA FinishTimerKeeps ==
  ASSUME Inv, NEW h \in Hashes, FinishTimer(h)
  PROVE  Inv'
<1> DEFINE n == Name[h]
<1>0. /\ finish[h] > 0 /\ n \in Names
      /\ finish' = [finish EXCEPT ![h] = @ - 1]
      /\ UNCHANGED <<top, gets, gives, added>>
  BY DEF FinishTimer, network
<1>1. finish' \in [Hashes -> Nat] /\ \A g \in Hashes : finish'[g] <= finish[g]
  BY <1>0 DEF Inv, Types
<1>2. CASE ~Finishable(h)
  <2>1. /\ state' = [state EXCEPT ![h] =
                       IF @ = "NONE" \/ temp[n] = Absent THEN @ ELSE "ERROR"]
        /\ UNCHANGED <<temp, final, known, mixed>>
    BY <1>2 DEF FinishTimer, FinishFails, files
  <2>2. Types'
    BY <1>0, <1>1, <2>1 DEF Inv, Types
  <2>3. \A g \in Hashes : /\ Clean(g)' <=> Clean(g)
                          /\ Temp(g)' = Temp(g)
                          /\ state'[g] = "RUN" => state[g] = "RUN"
    BY <2>1 DEF Inv, Types, Clean, Temp
  <2>4. KnownIsKept' /\ FinalKnown' /\ RunUnknown'
    BY <2>1, <2>2, <2>3, SameFiles DEF files, Inv, RunUnknown
  <2>5. Sent' /\ Pure' /\ Reached' /\ AskedFor'
    BY <1>0, <2>1, <2>3, OfMessage
    DEF Inv, Sent, Pure, Reached, AskedFor, InFlight
  <2>6. Ended'
    <3>1. \A g \in Hashes : finish'[g] > 0 => finish[g] > 0
      BY <1>1 DEF Inv, Types
    <3> QED
      BY <2>1, <2>3, <3>1 DEF Inv, Ended
  <2>7. ErrorOnlyWhenMixed'
    <3>1. Clean(h) => Temp(h) \in {Absent, Whole(h)}
      BY <1>0 DEF Inv, Ended
    <3>2. Clean(h) => temp[n] = Absent
      BY <1>2, <3>1 DEF Finishable, HashMatches, Clean, Temp
    <3> QED
      BY <2>1, <3>2 DEF Inv, Types, ErrorOnlyWhenMixed, Clean
  <2> QED
    BY <2>2, <2>4, <2>5, <2>6, <2>7 DEF Inv
<1>3. CASE Finishable(h)
  <2>1. /\ state' = [state EXCEPT ![h] = "DONE"]
        /\ Mix(Sharing(h))
        /\ temp' = [temp EXCEPT ![n] = IF final[n] = Absent THEN Absent ELSE @]
        /\ final' = [final EXCEPT ![n] = KeptFile(h)]
        /\ known' = known \cup {g \in Hashes : KeptFile(h) = Whole(g)}
    BY <1>3 DEF FinishTimer, FinishMoves, HashMatches
  <2>2. temp[n] = Whole(h) /\ state[h] # "NONE"
    BY <1>3 DEF Finishable, HashMatches
  <2>3. KeptFile(h) = IF final[n] = Absent THEN Whole(h) ELSE final[n]
    BY <2>2 DEF KeptFile
  <2>4. Types'
    <3>1. mixed' \in [Hashes -> BOOLEAN]
      BY <2>1 DEF Mix, Inv, Types
    <3>2. Absent \in File /\ KeptFile(h) \in File
      BY <1>0, <2>3, WholeFile DEF Absent, File, Inv, Types
    <3>3. temp' \in [Names -> File] /\ final' \in [Names -> File]
      BY <2>1, <3>2 DEF Inv, Types
    <3> QED
      BY <1>0, <1>1, <2>1, <3>1, <3>3 DEF Inv, Types
  <2>5. /\ known \subseteq known'
        /\ final[n] = Absent => known' = known \cup {h}
        /\ final[n] # Absent => known' = known
    <3>1. CASE final[n] = Absent
      BY <2>1, <2>3, <3>1, WholeOfOne
    <3>2. CASE final[n] # Absent
      <4>1. PICK f \in known : final[n] = Whole(f)
        BY <1>0, <3>2 DEF Inv, FinalKnown
      <4> QED
        BY <2>1, <2>3, <3>2, <4>1, WholeOfOne DEF Inv, Types
    <3> QED
      BY <3>1, <3>2
  <2>6. /\ final'[n] = IF final[n] = Absent THEN Whole(h) ELSE final[n]
        /\ \A k \in Names \ {n} : final'[k] = final[k]
    BY <1>0, <2>1, <2>3 DEF Inv, Types
  <2>7. KnownIsKept'
    <3> SUFFICES ASSUME NEW g \in known' PROVE final'[Name[g]] = Whole(g)
      BY DEF KnownIsKept
    <3>1. CASE g \in known
      <4>1. final[Name[g]] = Whole(g) /\ g \in Hashes
        BY <3>1 DEF Inv, KnownIsKept, Types
      <4> QED
        BY <2>6, <4>1, WholeFile
    <3>2. CASE g = h /\ final[n] = Absent
      BY <2>6, <3>2
    <3> QED
      BY <2>5, <3>1, <3>2
  <2>8. FinalKnown'
    BY <2>5, <2>6 DEF Inv, FinalKnown
  <2>9. \A g \in Hashes : /\ state'[g] = "RUN" => state[g] = "RUN" /\ g # h
                          /\ state'[g] = "ERROR" => state[g] = "ERROR"
                          /\ state'[g] # "NONE" => state[g] # "NONE"
                          /\ mixed[g] => mixed'[g]
    BY <2>1, <2>2 DEF Mix, Inv, Types
  <2>10. RunUnknown' /\ Sent' /\ ErrorOnlyWhenMixed'
    BY <1>0, <2>5, <2>9
    DEF Inv, RunUnknown, Sent, InFlight, ErrorOnlyWhenMixed
  <2>11. \A g \in Hashes : Clean(g)' => Clean(g)
    BY <2>9 DEF Clean
  <2>12. \A g \in Hashes \ {h} : Clean(g)' => Temp(g)' = Temp(g)
    BY <1>0, <2>1 DEF Clean, Mix, Sharing, Temp, Inv, Types
  <2>13. \/ Temp(h)' = Temp(h)
         \/ h \in known' /\ Temp(h)' = Absent
    BY <1>0, <2>1, <2>2, <2>5 DEF Temp, Inv, Types
  <2>14. \A g \in Hashes :
           Clean(g)' => /\ Clean(g)
                        /\ \/ Temp(g)' = Temp(g)
                           \/ g \in known' /\ Temp(g)' = Absent
    BY <2>11, <2>12, <2>13
  <2>15. Pure'
    <3> SUFFICES ASSUME NEW g \in Hashes, Clean(g)'
                 PROVE  /\ Len(Temp(g)') <= Size[g]
                        /\ \A i \in 1..Len(Temp(g)') : Temp(g)'[i] = g
      BY DEF Pure
    <3>1. CASE Temp(g)' = Temp(g)
      BY <2>14, <3>1 DEF Inv, Pure
    <3>2. CASE Temp(g)' = Absent
      BY <3>2, EmptyFile
    <3> QED
      BY <2>14, <3>1, <3>2
  <2>16. Reached' /\ AskedFor'
    BY <1>0, <2>5, <2>14, OfMessage DEF Inv, Reached, AskedFor, InFlight
  <2>17. Ended'
    <3> SUFFICES ASSUME NEW g \in Hashes, Clean(g)'
                 PROVE  /\ g \in known' => Temp(g)' \in {Absent, Whole(g)}
                        /\ g \notin known' /\ finish'[g] > 0 =>
                             Temp(g)' = Whole(g)
      BY DEF Ended
    <3>1. CASE g \in known' /\ Temp(g)' = Absent
      BY <3>1
    <3>2. CASE Temp(g)' = Temp(g) /\ g # h
      <4>1. g \in known' <=> g \in known
        BY <2>5, <3>2
      <4>2. finish'[g] > 0 => finish[g] > 0
        BY <1>1 DEF Inv, Types
      <4> QED
        BY <2>14, <3>2, <4>1, <4>2 DEF Inv, Ended
    <3>3. CASE Temp(g)' = Temp(g) /\ g = h
      BY <2>2, <3>3 DEF Temp
    <3> QED
      BY <2>14, <3>1, <3>2, <3>3
  <2> QED
    BY <2>4, <2>7, <2>8, <2>10, <2>15, <2>16, <2>17 DEF Inv
<1> QED
  BY <1>2, <1>3

-----------------------------------------------------------------------------
(* The theorems.                                                           *)

LEMMA InitHolds == Init => Inv
<1> SUFFICES ASSUME Init PROVE Inv
  OBVIOUS
<1>1. Absent \in File
  BY DEF Absent, File
<1>2. Types
  BY <1>1 DEF Init, Types
<1>3. KnownIsKept /\ FinalKnown /\ RunUnknown /\ ErrorOnlyWhenMixed
  BY DEF Init, KnownIsKept, FinalKnown, RunUnknown, ErrorOnlyWhenMixed
<1>4. \A h \in Hashes : ~ Clean(h)
  BY DEF Init, Clean
<1>5. Sent /\ Pure /\ Reached /\ AskedFor /\ Ended
  BY <1>4, OfMessage
  DEF Init, Sent, Pure, Reached, AskedFor, Ended, InFlight
<1> QED
  BY <1>2, <1>3, <1>5 DEF Inv

LEMMA StepKeeps == Inv /\ [Next]_vars => Inv'
<1> SUFFICES ASSUME Inv, [Next]_vars PROVE Inv'
  OBVIOUS
<1>1. ASSUME NEW h \in Hashes, Program(h) PROVE Inv'
  <2>1. CASE RunTimer(h)
    BY <2>1, RunTimerKeeps
  <2>2. CASE CheckTurn(h)
    BY <2>2, CheckTurnKeeps
  <2>3. CASE FinishTimer(h)
    BY <2>3, FinishTimerKeeps
  <2>4. CASE DelTimer(h)
    BY <2>4, RemoveKeeps DEF DelTimer, network
  <2> QED
    BY <1>1, <2>1, <2>2, <2>3, <2>4 DEF Program
<1>2. ASSUME NEW h \in Hashes, User(h) PROVE Inv'
  <2>1. CASE Add(h)
    BY <2>1, AddKeeps
  <2>2. CASE StartKnown(h)
    BY <2>2, StartKnownKeeps
  <2>3. CASE \E sources \in BOOLEAN : StartFetch(h, sources)
    BY <2>3, StartFetchKeeps
  <2>4. CASE Stop(h)
    BY <2>4, StopKeeps
  <2>5. CASE Delete(h)
    BY <2>5, RemoveKeeps DEF Delete, timers, network
  <2> QED
    BY <1>2, <2>1, <2>2, <2>3, <2>4, <2>5 DEF User
<1>3. CASE Network
  BY <1>3, GiveKeeps, NetworkKeeps DEF Network
<1>4. CASE UNCHANGED vars
  <2>1. Types'
    BY <1>4 DEF Inv, Types, vars, timers, files, network, logVars
  <2> QED
    BY <1>4, <2>1, QuietKeeps
    DEF Inv, RunUnknown, InFlight, vars, timers, files, network, logVars
<1> QED
  BY <1>1, <1>2, <1>3, <1>4 DEF Next

LEMMA Invariance == Spec => []Inv
BY InitHolds, StepKeeps, PTL DEF Spec

\* The timers and the bounded counters
Counted ==
  /\ run \in [Hashes -> Nat]
  /\ del \in [Hashes -> Nat]
  /\ checking \in [Hashes -> BOOLEAN]
  /\ added \in [Hashes -> Nat] /\ \A h \in Hashes : added[h] <= MaxAdds[h]
  /\ kicks \in [Hashes -> Nat] /\ \A h \in Hashes : kicks[h] <= MaxKicks[h]

LEMMA StepCounts == Counted /\ [Next]_vars => Counted'
<1> SUFFICES ASSUME Counted, [Next]_vars PROVE Counted'
  OBVIOUS
<1>1. ASSUME NEW h \in Hashes, Program(h) PROVE Counted'
  <2>1. CASE RunTimer(h)
    <3>1. UNCHANGED <<del, checking, added, kicks>>
      BY <2>1 DEF RunTimer, logVars
    <3>2. run[h] > 0 /\ run' = [run EXCEPT ![h] = @ - 1]
      BY <2>1 DEF RunTimer
    <3>3. run' \in [Hashes -> Nat]
      BY <3>2 DEF Counted
    <3> QED
      BY <3>1, <3>3 DEF Counted
  <2>2. CASE CheckTurn(h)
    <3>1. UNCHANGED <<run, del, added>>
      BY <2>2 DEF CheckTurn
    <3>2. \/ kicks' = kicks
          \/ kicks[h] < MaxKicks[h] /\ kicks' = [kicks EXCEPT ![h] = @ + 1]
      BY <2>2 DEF CheckTurn
    <3>3. /\ kicks' \in [Hashes -> Nat]
          /\ \A g \in Hashes : kicks'[g] <= MaxKicks[g]
      BY <3>2 DEF Counted
    <3>4. checking' \in [Hashes -> BOOLEAN]
      BY <2>2 DEF CheckTurn, Counted
    <3> QED
      BY <3>1, <3>3, <3>4 DEF Counted
  <2>3. CASE FinishTimer(h)
    BY <2>3 DEF FinishTimer, FinishFails, Counted
  <2>4. CASE DelTimer(h)
    BY <2>4 DEF DelTimer, Counted
  <2> QED
    BY <1>1, <2>1, <2>2, <2>3, <2>4 DEF Program
<1>2. ASSUME NEW h \in Hashes, User(h) PROVE Counted'
  <2>1. CASE Add(h)
    BY <2>1 DEF Add, Counted, timers
  <2>2. CASE StartKnown(h)
    BY <2>2 DEF StartKnown, Counted
  <2>3. ASSUME NEW sources \in BOOLEAN, StartFetch(h, sources) PROVE Counted'
    BY <2>3 DEF StartFetch, Counted
  <2>4. CASE Stop(h) \/ Delete(h)
    BY <2>4 DEF Stop, Delete, Counted, timers, logVars
  <2> QED
    BY <1>2, <2>1, <2>2, <2>3, <2>4 DEF User
<1>3. ASSUME NEW m \in Message, Serve(m) \/ Give(m) \/ Lose(m) PROVE Counted'
  BY <1>3, OfMessage DEF Serve, Give, Lose, Counted, timers, logVars
<1>4. CASE UNCHANGED vars
  BY <1>4 DEF vars, timers, logVars, Counted
<1> QED
  BY <1>1, <1>2, <1>3, <1>4 DEF Next, Network

\* The variables keep their types, and what is started by hand its bounds.
THEOREM DownloadTypes == Spec => []TypeOK
<1>1. Init => Counted
  BY DEF Init, Counted
<1>2. Inv /\ Counted => TypeOK
  BY DEF Inv, Types, Counted, TypeOK
<1> QED
  BY <1>1, <1>2, StepCounts, Invariance, PTL DEF Spec

\* A running download that nothing else has touched has no gap in its file,
\* in whatever order dl_write gets the chunks.
THEOREM NoGaps == Spec => []InOrder
<1>1. Inv => InOrder
  <2> SUFFICES ASSUME Inv, NEW h \in Hashes, state[h] = "RUN", ~mixed[h]
               PROVE  /\ top[h] <= Len(Temp(h))
                      /\ \A i \in 1..Len(Temp(h)) : Temp(h)[i] = h
    BY DEF InOrder, Temp
  <2>1. Clean(h)
    BY DEF Clean
  <2> QED
    BY <2>1 DEF Inv, RunUnknown, Pure, Reached
<1> QED
  BY <1>1, Invariance, PTL

\* dl_finish rejects no file that only the present download has touched: where
\* it fails, another download of that name or a chunk, a file or a timer that
\* an earlier one of the same file left got into it.
THEOREM NoFalseErrors == Spec => []ErrorOnlyWhenMixed
<1>1. Inv => ErrorOnlyWhenMixed
  BY DEF Inv
<1> QED
  BY <1>1, Invariance, PTL

\* What ::file_by_hash leads to has that hash.
THEOREM KnownKept == Spec => []KnownIsKept
<1>1. Inv => KnownIsKept
  BY DEF Inv
<1> QED
  BY <1>1, Invariance, PTL

-----------------------------------------------------------------------------
(* The number of requests.                                                 *)

LEMMA CopyIn ==
  ASSUME NEW counts \in [Message -> Nat], NEW h
  PROVE  \A c : c \in Copies(counts, h)
                 <=> \E m \in Message : \E i \in 1..counts[m] :
                       m.hash = h /\ c = [of |-> m, nr |-> i]
BY DEF Copies

\* If the counts of all messages about h but m agree, so do their copies.
LEMMA CopyOther ==
  ASSUME NEW counts \in [Message -> Nat], NEW others \in [Message -> Nat],
         NEW m, NEW h,
         \A n \in Message : n # m /\ n.hash = h => others[n] = counts[n],
         NEW c, m \in Message /\ m.hash = h => c.of # m
  PROVE  c \in Copies(others, h) <=> c \in Copies(counts, h)
<1>1. c \in Copies(counts, h)
        <=> \E n \in Message : \E i \in 1..counts[n] :
              n.hash = h /\ c = [of |-> n, nr |-> i]
  BY CopyIn
<1>2. c \in Copies(others, h)
        <=> \E n \in Message : \E i \in 1..others[n] :
              n.hash = h /\ c = [of |-> n, nr |-> i]
  BY CopyIn
<1>3. \A n \in Message : \A i :
        n.hash = h /\ c = [of |-> n, nr |-> i] => n # m
  OBVIOUS
<1> QED
  BY <1>1, <1>2, <1>3

\* The copies of m itself are numbered.
LEMMA CopyThis ==
  ASSUME NEW counts \in [Message -> Nat], NEW h,
         NEW m \in Message, m.hash = h, NEW c
  PROVE  c \in Copies(counts, h) /\ c.of = m
           <=> \E i \in 1..counts[m] : c = [of |-> m, nr |-> i]
<1>1. c \in Copies(counts, h)
        <=> \E n \in Message : \E i \in 1..counts[n] :
              n.hash = h /\ c = [of |-> n, nr |-> i]
  BY CopyIn
<1> QED
  BY <1>1

\* One more message in flight is at most one more copy.
LEMMA CopyMore ==
  ASSUME NEW counts \in [Message -> Nat], NEW more \in [Message -> Nat],
         NEW m \in Message, NEW h, IsFiniteSet(Copies(counts, h)),
         \A n \in Message : n # m => more[n] = counts[n],
         more[m] = counts[m] + 1
  PROVE  /\ IsFiniteSet(Copies(more, h))
         /\ Cardinality(Copies(more, h))
              <= Cardinality(Copies(counts, h))
                 + (IF m.hash = h THEN 1 ELSE 0)
<1>1. Cardinality(Copies(counts, h)) \in Nat
  BY FS_CardinalityType
<1>2. CASE m.hash = h
  <2> DEFINE c == [of |-> m, nr |-> counts[m] + 1]
             S == Copies(counts, h)
             T == Copies(more, h)
  <2>1. \A i : i \in 1..more[m] <=> i \in 1..counts[m] \/ i = counts[m] + 1
    OBVIOUS
  <2>2. \A d : d.of # m => (d \in T <=> d \in S)
    BY CopyOther
  <2>3. \A d : d \in T /\ d.of = m
                 <=> \E i \in 1..more[m] : d = [of |-> m, nr |-> i]
    BY <1>2, CopyThis
  <2>4. \A d : d \in S /\ d.of = m
                 <=> \E i \in 1..counts[m] : d = [of |-> m, nr |-> i]
    BY <1>2, CopyThis
  <2>5. \A d : d.of = m => (d \in T <=> d \in S \/ d = c)
    <3> HIDE DEF S, T
    <3> QED
      BY <2>1, <2>3, <2>4
  <2>6. c.of = m
    OBVIOUS
  <2>7. IsFiniteSet(S)
    OBVIOUS
  <2> HIDE DEF c, S, T
  <2>8. T = S \cup {c}
    BY <2>2, <2>5, <2>6
  <2>9. IsFiniteSet(T) /\ Cardinality(T) <= Cardinality(S) + 1
    <3>1. /\ IsFiniteSet(S \cup {c})
          /\ Cardinality(S \cup {c}) = IF c \in S THEN Cardinality(S)
                                       ELSE Cardinality(S) + 1
      BY <2>7, FS_AddElement
    <3>2. Cardinality(S) \in Nat
      BY <2>7, FS_CardinalityType
    <3> QED
      BY <2>8, <3>1, <3>2
  <2> QED
    BY <1>2, <2>9 DEF S, T
<1>3. CASE m.hash # h
  <2>1. \A d : d \in Copies(more, h) <=> d \in Copies(counts, h)
    BY <1>3, CopyOther
  <2>2. Copies(more, h) = Copies(counts, h)
    BY <2>1
  <2> QED
    BY <1>1, <1>3, <2>2
<1> QED
  BY <1>2, <1>3

\* One less is one copy less.
LEMMA CopyLess ==
  ASSUME NEW counts \in [Message -> Nat], NEW less \in [Message -> Nat],
         NEW m \in Message, NEW h, IsFiniteSet(Copies(counts, h)),
         \A n \in Message : n # m => less[n] = counts[n],
         counts[m] > 0, less[m] = counts[m] - 1
  PROVE  /\ IsFiniteSet(Copies(less, h))
         /\ Cardinality(Copies(less, h))
              = Cardinality(Copies(counts, h))
                - (IF m.hash = h THEN 1 ELSE 0)
<1>1. Cardinality(Copies(counts, h)) \in Nat
  BY FS_CardinalityType
<1>2. CASE m.hash = h
  <2> DEFINE c == [of |-> m, nr |-> counts[m]]
             S == Copies(counts, h)
             T == Copies(less, h)
  <2>1. \A i : i \in 1..less[m] <=> i \in 1..counts[m] /\ i # counts[m]
    OBVIOUS
  <2>2. \A d : d.of # m => (d \in T <=> d \in S)
    BY CopyOther
  <2>3. \A d : d \in T /\ d.of = m
                 <=> \E i \in 1..less[m] : d = [of |-> m, nr |-> i]
    BY <1>2, CopyThis
  <2>4. \A d : d \in S /\ d.of = m
                 <=> \E i \in 1..counts[m] : d = [of |-> m, nr |-> i]
    BY <1>2, CopyThis
  <2>5. \A d : d.of = m => (d \in T <=> d \in S /\ d # c)
    <3>1. \A i : [of |-> m, nr |-> i] = c <=> i = counts[m]
      OBVIOUS
    <3> HIDE DEF S, T, c
    <3> QED
      BY <2>1, <2>3, <2>4, <3>1
  <2>6. c.of = m /\ c \in S
    <3>1. counts[m] \in 1..counts[m]
      OBVIOUS
    <3> HIDE DEF S
    <3> QED
      BY <2>4, <3>1
  <2>7. IsFiniteSet(S)
    OBVIOUS
  <2> HIDE DEF c, S, T
  <2>8. T = S \ {c}
    BY <2>2, <2>5, <2>6
  <2>9. IsFiniteSet(T) /\ Cardinality(T) = Cardinality(S) - 1
    <3>1. /\ IsFiniteSet(S \ {c})
          /\ Cardinality(S \ {c}) = IF c \in S THEN Cardinality(S) - 1
                                    ELSE Cardinality(S)
      BY <2>7, FS_RemoveElement
    <3> QED
      BY <2>6, <2>8, <3>1
  <2> QED
    BY <1>2, <2>9 DEF S, T
<1>3. CASE m.hash # h
  <2>1. \A d : d \in Copies(less, h) <=> d \in Copies(counts, h)
    BY <1>3, CopyOther
  <2>2. Copies(less, h) = Copies(counts, h)
    BY <2>1
  <2> QED
    BY <1>1, <1>3, <2>2
<1> QED
  BY <1>2, <1>3

\* The copies about every hash can be counted, and there are few enough.
Steady ==
  \A h \in Hashes :
    /\ IsFiniteSet(Copies(gets, h)) /\ IsFiniteSet(Copies(gives, h))
    /\ UnderWay(h) <= kicks[h]

\* dl_run asks once, if at all.
LEMMA AskCounts ==
  ASSUME gets \in [Message -> Nat], NEW g \in Hashes, NEW h \in Hashes,
         IsFiniteSet(Copies(gets, h)), Ask(g) \/ UNCHANGED gets
  PROVE  /\ IsFiniteSet(Copies(gets', h))
         /\ Cardinality(Copies(gets', h))
              <= Cardinality(Copies(gets, h)) + (IF g = h THEN 1 ELSE 0)
<1>1. Cardinality(Copies(gets, h)) \in Nat
  BY FS_CardinalityType
<1>2. CASE gets' = [gets EXCEPT ![Request(g)] = @ + 1]
  <2>1. CASE Request(g) \in Message
    <3> DEFINE m == Request(g)
    <3>1. m.hash = g
      BY DEF Request
    <3>2. /\ gets' \in [Message -> Nat]
          /\ \A n \in Message : n # m => gets'[n] = gets[n]
          /\ gets'[m] = gets[m] + 1
      BY <1>2, <2>1
    <3> HIDE DEF m
    <3>3. m \in Message
      BY <2>1 DEF m
    <3>4. /\ IsFiniteSet(Copies(gets', h))
          /\ Cardinality(Copies(gets', h))
               <= Cardinality(Copies(gets, h)) + (IF m.hash = h THEN 1 ELSE 0)
      BY <3>2, <3>3, CopyMore
    <3> QED
      BY <3>1, <3>4
  <2>2. CASE Request(g) \notin Message
    <3>1. gets' = gets
      BY <1>2, <2>2
    <3> QED
      BY <1>1, <3>1
  <2> QED
    BY <2>1, <2>2
<1>3. CASE gets' = gets
  BY <1>1, <1>3
<1> QED
  BY <1>2, <1>3 DEF Ask

LEMMA TakenCounts ==
  ASSUME NEW counts \in [Message -> Nat], NEW m \in Message, counts[m] > 0,
         NEW h, IsFiniteSet(Copies(counts, h)), NEW less
  PROVE  less = [counts EXCEPT ![m] = @ - 1] =>
           /\ IsFiniteSet(Copies(less, h))
           /\ Cardinality(Copies(less, h))
                = Cardinality(Copies(counts, h))
                  - (IF m.hash = h THEN 1 ELSE 0)
<1>1. ASSUME less = [counts EXCEPT ![m] = @ - 1]
      PROVE  /\ less \in [Message -> Nat]
             /\ \A n \in Message : n # m => less[n] = counts[n]
             /\ less[m] = counts[m] - 1
  BY <1>1
<1>2. ASSUME less \in [Message -> Nat],
             \A n \in Message : n # m => less[n] = counts[n],
             less[m] = counts[m] - 1
      PROVE  /\ IsFiniteSet(Copies(less, h))
             /\ Cardinality(Copies(less, h))
                  = Cardinality(Copies(counts, h))
                    - (IF m.hash = h THEN 1 ELSE 0)
  BY <1>2, CopyLess
<1> QED
  BY <1>1, <1>2

LEMMA AddedCounts ==
  ASSUME NEW counts \in [Message -> Nat], NEW m \in Message,
         NEW h, IsFiniteSet(Copies(counts, h)),
         NEW more, more = [counts EXCEPT ![m] = @ + 1]
  PROVE  /\ IsFiniteSet(Copies(more, h))
         /\ Cardinality(Copies(more, h))
              <= Cardinality(Copies(counts, h))
                 + (IF m.hash = h THEN 1 ELSE 0)
<1>1. /\ more \in [Message -> Nat]
      /\ \A n \in Message : n # m => more[n] = counts[n]
      /\ more[m] = counts[m] + 1
  OBVIOUS
<1> QED
  BY <1>1, CopyMore

\* What a step does to the timers, copies and starts of h decides.
LEMMA SteadySums ==
  ASSUME Counted, Counted', NEW h \in Hashes, Steady,
         IsFiniteSet(Copies(gets', h)), IsFiniteSet(Copies(gives', h)),
         NEW r \in Int, NEW a \in Int, NEW b \in Int, NEW k \in Int,
         run'[h] <= run[h] + r,
         Cardinality(Copies(gets', h)) <= Cardinality(Copies(gets, h)) + a,
         Cardinality(Copies(gives', h)) <= Cardinality(Copies(gives, h)) + b,
         kicks'[h] = kicks[h] + k, r + a + b <= k
  PROVE  UnderWay(h)' <= kicks'[h]
<1>1. /\ Cardinality(Copies(gets, h)) \in Nat
      /\ Cardinality(Copies(gives, h)) \in Nat
  BY FS_CardinalityType DEF Steady
<1>2. /\ Cardinality(Copies(gets', h)) \in Nat
      /\ Cardinality(Copies(gives', h)) \in Nat
  BY FS_CardinalityType
<1>3. /\ run[h] \in Nat /\ run'[h] \in Nat
      /\ kicks[h] \in Nat /\ kicks'[h] \in Nat
  BY DEF Counted
<1>4. run[h] + Cardinality(Copies(gets, h)) + Cardinality(Copies(gives, h))
        <= kicks[h]
  BY DEF Steady, UnderWay
<1> DEFINE x == Cardinality(Copies(gets, h))
           y == Cardinality(Copies(gives, h))
           X == Cardinality(Copies(gets', h))
           Y == Cardinality(Copies(gives', h))
<1>5. run'[h] + X + Y <= kicks'[h]
  <2> HIDE DEF x, y, X, Y
  <2> QED
    BY <1>1, <1>2, <1>3, <1>4 DEF x, y, X, Y
<1> QED
  BY <1>5 DEF UnderWay

LEMMA ProgramSteady ==
  ASSUME Types, Counted, Counted', Steady, NEW g \in Hashes, Program(g)
  PROVE  Steady'
<1> SUFFICES ASSUME NEW h \in Hashes
             PROVE  /\ IsFiniteSet(Copies(gets', h))
                    /\ IsFiniteSet(Copies(gives', h))
                    /\ UnderWay(h)' <= kicks'[h]
  BY DEF Steady
<1> DEFINE one == IF g = h THEN 1 ELSE 0
<1>1. one \in Int
  OBVIOUS
<1>2. /\ IsFiniteSet(Copies(gets, h)) /\ IsFiniteSet(Copies(gives, h))
      /\ Cardinality(Copies(gets, h)) \in Nat
      /\ Cardinality(Copies(gives, h)) \in Nat
  BY FS_CardinalityType DEF Steady
<1>3. gets \in [Message -> Nat] /\ run \in [Hashes -> Nat]
      /\ kicks \in [Hashes -> Nat]
  BY DEF Types, Counted
<1>4. CASE RunTimer(g)
  <2>1. /\ Ask(g) \/ UNCHANGED gets
        /\ gives' = gives /\ kicks' = kicks
        /\ run' = [run EXCEPT ![g] = @ - 1]
    BY <1>4 DEF RunTimer, logVars
  <2>2. /\ IsFiniteSet(Copies(gets', h))
        /\ Cardinality(Copies(gets', h)) <= Cardinality(Copies(gets, h)) + one
    BY <1>2, <1>3, <2>1, AskCounts
  <2>3. run'[h] <= run[h] + (0 - one) /\ kicks'[h] = kicks[h] + 0
    BY <1>3, <2>1
  <2>4. /\ IsFiniteSet(Copies(gives', h))
        /\ Cardinality(Copies(gives', h)) <= Cardinality(Copies(gives, h)) + 0
    BY <1>2, <2>1
  <2> DEFINE minus == 0 - one
  <2>5. minus + one + 0 <= 0 /\ minus \in Int /\ run'[h] <= run[h] + minus
    BY <2>3
  <2> HIDE DEF one, minus
  <2> QED
    BY <1>1, <2>2, <2>3, <2>4, <2>5, SteadySums
<1>5. CASE CheckTurn(g)
  <2>1. gives' = gives /\ run' = run
    BY <1>5 DEF CheckTurn
  <2>2. CASE gets' = gets /\ kicks' = kicks
    BY <1>2, <2>1, <2>2 DEF Steady, UnderWay
  <2>3. CASE Ask(g) /\ kicks' = [kicks EXCEPT ![g] = @ + 1]
    <3>1. /\ IsFiniteSet(Copies(gets', h))
          /\ Cardinality(Copies(gets', h))
               <= Cardinality(Copies(gets, h)) + one
      BY <1>2, <1>3, <2>3, AskCounts
    <3>2. run'[h] <= run[h] + 0 /\ kicks'[h] = kicks[h] + one
      BY <1>3, <2>1, <2>3
    <3>3. /\ IsFiniteSet(Copies(gives', h))
          /\ Cardinality(Copies(gives', h))
               <= Cardinality(Copies(gives, h)) + 0
      BY <1>2, <2>1
    <3>4. 0 + one + 0 <= one
      OBVIOUS
    <3> HIDE DEF one
    <3> QED
      BY <1>1, <3>1, <3>2, <3>3, <3>4, SteadySums
  <2> QED
    BY <1>5, <2>2, <2>3 DEF CheckTurn
<1>6. CASE FinishTimer(g) \/ DelTimer(g)
  <2>1. UNCHANGED <<run, gets, gives, kicks>>
    BY <1>6 DEF FinishTimer, DelTimer, network
  <2> QED
    BY <1>2, <2>1 DEF Steady, UnderWay
<1> QED
  BY <1>4, <1>5, <1>6 DEF Program

LEMMA UserSteady ==
  ASSUME Types, Counted, Counted', Steady, NEW g \in Hashes, User(g)
  PROVE  Steady'
<1> SUFFICES ASSUME NEW h \in Hashes
             PROVE  /\ IsFiniteSet(Copies(gets', h))
                    /\ IsFiniteSet(Copies(gives', h))
                    /\ UnderWay(h)' <= kicks'[h]
  BY DEF Steady
<1>1. UNCHANGED <<gets, gives>>
  BY DEF User, Add, StartKnown, StartFetch, Stop, Delete, network
<1>2. /\ IsFiniteSet(Copies(gets', h)) /\ IsFiniteSet(Copies(gives', h))
      /\ Cardinality(Copies(gets, h)) \in Nat
      /\ Cardinality(Copies(gives, h)) \in Nat
  BY <1>1, FS_CardinalityType DEF Steady
<1>3. /\ Cardinality(Copies(gets', h)) <= Cardinality(Copies(gets, h)) + 0
      /\ Cardinality(Copies(gives', h)) <= Cardinality(Copies(gives, h)) + 0
  BY <1>1, <1>2
<1>4. \E k \in Nat : run'[h] <= run[h] + k /\ kicks'[h] = kicks[h] + k
  <2>1. CASE Add(g) \/ Stop(g) \/ Delete(g)
    <3>1. run' = run /\ kicks' = kicks
      BY <2>1 DEF Add, Stop, Delete, timers, logVars
    <3> QED
      BY <3>1 DEF Counted
  <2>2. CASE StartKnown(g)
    BY <2>2 DEF StartKnown, Counted
  <2>3. ASSUME NEW sources \in BOOLEAN, StartFetch(g, sources)
        PROVE  \E k \in Nat : run'[h] <= run[h] + k /\ kicks'[h] = kicks[h] + k
    BY <2>3 DEF StartFetch, Counted
  <2> QED
    BY <2>1, <2>2, <2>3 DEF User
<1>5. PICK k \in Nat : run'[h] <= run[h] + k /\ kicks'[h] = kicks[h] + k
  BY <1>4
<1>6. k + 0 + 0 <= k
  OBVIOUS
<1>7. UnderWay(h)' <= kicks'[h]
  BY <1>2, <1>3, <1>5, <1>6, SteadySums
<1> QED
  BY <1>2, <1>7

LEMMA NetworkSteady ==
  ASSUME Types, Counted, Counted', Steady, NEW m \in Message,
         Serve(m) \/ Give(m) \/ Lose(m)
  PROVE  Steady'
<1> SUFFICES ASSUME NEW h \in Hashes
             PROVE  /\ IsFiniteSet(Copies(gets', h))
                    /\ IsFiniteSet(Copies(gives', h))
                    /\ UnderWay(h)' <= kicks'[h]
  BY DEF Steady
<1> DEFINE one == IF m.hash = h THEN 1 ELSE 0
<1>1. one \in Int /\ 0 - one \in Int
  OBVIOUS
<1>2. /\ IsFiniteSet(Copies(gets, h)) /\ IsFiniteSet(Copies(gives, h))
      /\ Cardinality(Copies(gets, h)) \in Nat
      /\ Cardinality(Copies(gives, h)) \in Nat
  BY FS_CardinalityType DEF Steady
<1>3. /\ gets \in [Message -> Nat] /\ gives \in [Message -> Nat]
      /\ run \in [Hashes -> Nat] /\ kicks \in [Hashes -> Nat]
      /\ m.hash \in Hashes
  BY OfMessage DEF Types, Counted
<1>4. /\ gets[m] > 0 /\ gets' = [gets EXCEPT ![m] = @ - 1] =>
           /\ IsFiniteSet(Copies(gets', h))
           /\ Cardinality(Copies(gets', h))
                = Cardinality(Copies(gets, h)) - one
      /\ gives[m] > 0 /\ gives' = [gives EXCEPT ![m] = @ - 1] =>
           /\ IsFiniteSet(Copies(gives', h))
           /\ Cardinality(Copies(gives', h))
                = Cardinality(Copies(gives, h)) - one
  BY <1>2, <1>3, TakenCounts
<1>5. kicks'[h] = kicks[h] + 0
  BY <1>3 DEF Serve, Give, Lose, logVars
<1>6. CASE Serve(m)
  <2>1. /\ gets[m] > 0 /\ gets' = [gets EXCEPT ![m] = @ - 1]
        /\ gives' = [gives EXCEPT ![m] = @ + 1] /\ run' = run
    BY <1>6 DEF Serve, timers
  <2>2. /\ IsFiniteSet(Copies(gives', h))
        /\ Cardinality(Copies(gives', h))
             <= Cardinality(Copies(gives, h)) + one
    BY <1>2, <1>3, <2>1, AddedCounts
  <2>3. /\ IsFiniteSet(Copies(gets', h))
        /\ Cardinality(Copies(gets', h))
             <= Cardinality(Copies(gets, h)) + (0 - one)
    BY <1>2, <1>4, <2>1
  <2> DEFINE minus == 0 - one
  <2>4. run'[h] <= run[h] + 0 /\ 0 + minus + one <= 0 /\ minus \in Int
    BY <1>3, <2>1
  <2>5. Cardinality(Copies(gets', h)) <= Cardinality(Copies(gets, h)) + minus
    BY <2>3
  <2> HIDE DEF one, minus
  <2> QED
    BY <1>1, <1>5, <2>2, <2>3, <2>4, <2>5, SteadySums
<1>7. CASE Give(m)
  <2>1. /\ gives[m] > 0 /\ gives' = [gives EXCEPT ![m] = @ - 1]
        /\ gets' = gets
        /\ run' = run \/ run' = [run EXCEPT ![m.hash] = @ + 1]
    BY <1>7 DEF Give
  <2>2. /\ IsFiniteSet(Copies(gives', h))
        /\ Cardinality(Copies(gives', h))
             <= Cardinality(Copies(gives, h)) + (0 - one)
    BY <1>2, <1>4, <2>1
  <2>3. /\ IsFiniteSet(Copies(gets', h))
        /\ Cardinality(Copies(gets', h)) <= Cardinality(Copies(gets, h)) + 0
    BY <1>2, <2>1
  <2> DEFINE minus == 0 - one
  <2>4. run'[h] <= run[h] + one /\ one + 0 + minus <= 0 /\ minus \in Int
    BY <1>3, <2>1
  <2>5. Cardinality(Copies(gives', h)) <= Cardinality(Copies(gives, h)) + minus
    BY <2>2
  <2> HIDE DEF one, minus
  <2> QED
    BY <1>1, <1>5, <2>2, <2>3, <2>4, <2>5, SteadySums
<1>8. CASE Lose(m)
  <2>1. run' = run
    BY <1>8 DEF Lose, timers
  <2>2. run'[h] <= run[h] + 0
    BY <1>3, <2>1
  <2>3. CASE /\ gets[m] > 0 /\ gets' = [gets EXCEPT ![m] = @ - 1]
             /\ gives' = gives
    <3>1. /\ IsFiniteSet(Copies(gives', h)) /\ IsFiniteSet(Copies(gets', h))
          /\ Cardinality(Copies(gives', h))
               <= Cardinality(Copies(gives, h)) + 0
          /\ Cardinality(Copies(gets', h)) <= Cardinality(Copies(gets, h)) + 0
      BY <1>2, <1>4, <2>3
    <3> QED
      BY <1>5, <2>2, <3>1, SteadySums
  <2>4. CASE /\ gives[m] > 0 /\ gives' = [gives EXCEPT ![m] = @ - 1]
             /\ gets' = gets
    <3>1. /\ IsFiniteSet(Copies(gives', h)) /\ IsFiniteSet(Copies(gets', h))
          /\ Cardinality(Copies(gives', h))
               <= Cardinality(Copies(gives, h)) + 0
          /\ Cardinality(Copies(gets', h)) <= Cardinality(Copies(gets, h)) + 0
      BY <1>2, <1>4, <2>4
    <3> QED
      BY <1>5, <2>2, <3>1, SteadySums
  <2> QED
    BY <1>8, <2>3, <2>4 DEF Lose
<1> QED
  BY <1>6, <1>7, <1>8

LEMMA StepSteady ==
  Types /\ Counted /\ Counted' /\ Steady /\ [Next]_vars => Steady'
<1> SUFFICES ASSUME Types, Counted, Counted', Steady, [Next]_vars
             PROVE  Steady'
  OBVIOUS
<1>1. CASE UNCHANGED vars
  <2>1. UNCHANGED <<run, gets, gives, kicks>>
    BY <1>1 DEF vars, timers, network, logVars
  <2> QED
    BY <2>1 DEF Steady, UnderWay
<1>2. ASSUME NEW g \in Hashes, Program(g) PROVE Steady'
  BY <1>2, ProgramSteady
<1>3. ASSUME NEW g \in Hashes, User(g) PROVE Steady'
  BY <1>3, UserSteady
<1>4. ASSUME NEW m \in Message, Serve(m) \/ Give(m) \/ Lose(m) PROVE Steady'
  BY <1>4, NetworkSteady
<1> QED
  BY <1>1, <1>2, <1>3, <1>4 DEF Next, Network

LEMMA InitSteady == Init => Steady
<1> SUFFICES ASSUME Init, NEW h \in Hashes
             PROVE  /\ IsFiniteSet(Copies(gets, h))
                    /\ IsFiniteSet(Copies(gives, h))
                    /\ UnderWay(h) <= kicks[h]
  BY DEF Steady
<1>1. Copies(gets, h) = {} /\ Copies(gives, h) = {}
  BY DEF Init, Copies
<1>2. Cardinality({}) = 0 /\ IsFiniteSet({})
  BY FS_EmptySet
<1>3. run[h] = 0 /\ kicks[h] = 0
  BY DEF Init
<1> QED
  BY <1>1, <1>2, <1>3 DEF UnderWay

\* However answers are late, lost, or meet a download that was stopped, added
\* again or started twice: the timers, requests and answers under way for a
\* file are never more than dl_start and dl_check have started.
THEOREM KicksBound == Spec => []OneRequestPerKick
<1>1. Init => Counted
  BY DEF Init, Counted
<1>2. Inv => Types
  BY DEF Inv
<1>3. Steady => OneRequestPerKick
  BY DEF Steady, OneRequestPerKick
<1> QED
  BY <1>1, <1>2, <1>3, StepCounts, Invariance, InitSteady, StepSteady, PTL
  DEF Spec
=============================================================================
