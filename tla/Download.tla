------------------------------ MODULE Download ------------------------------
(***************************************************************************)
(* File exchange of mysteria5, as the fetching peer sees it: the dl_*      *)
(* procedures with their timers and files, against a peer that answers GET *)
(* (req_get, dl_read) over a network that delays, reorders and loses.      *)
(*                                                                         *)
(* A file is a sequence of chunks.  Chunk i of hash h is written as h, so  *)
(* the file of h is h repeated Size[h] times and anything else fails the   *)
(* hash check.  <<>> is a file that does not exist.                        *)
(***************************************************************************)
EXTENDS Integers, Sequences, FiniteSetsExt

CONSTANTS
  Hashes, Hole,
  Names,       \* file names; two files may share one
  Name,        \* Name[h]: the name under which h is offered
  Size,        \* Size[h]: chunks of h
  MaxKicks,    \* bound: requests for h started that no answer asked for
  MaxAdds      \* bound: dl_add calls for h

ASSUME DownloadAssumption ==
  /\ Hole \notin Hashes
  /\ Name \in [Hashes -> Names]
  /\ Size \in [Hashes -> Nat \ {0}]
  /\ MaxKicks \in [Hashes -> Nat] /\ MaxAdds \in [Hashes -> Nat]

VARIABLES
  state,     \* ::dlstate_by_hash(h,state), NONE when there is no entry
  top,       \* ::dlstate_by_hash(h,top), in chunks
  run,       \* how many "after .. dl_run h" are pending
  finish,    \* how many "after 1000 dl_finish h" are pending
  del,       \* how many "after 18000 dl_del h" are pending
  checking,  \* a dl_check loop of h is running
  temp,      \* temp/<name>
  final,     \* downloads/<name>
  known,     \* the hashes in ::file_by_hash, all of files in downloads/
  gets,      \* how many copies of each GET are in flight
  gives,     \* how many copies of each GIVE are in flight
  added,     \* added[h]: dl_add calls so far
  kicks,     \* kicks[h]: requests started so far that no answer asked for
  mixed      \* mixed[h]: something else than h's present download touched
             \* h's temporary file since dl_add

timers  == <<run, finish, del, checking>>
files   == <<temp, final, known>>
network == <<gets, gives>>
logVars == <<added, kicks, mixed>>
vars    == <<state, top, timers, files, network, logVars>>

States == {"NONE", "STOP", "RUN", "ERROR", "DONE"}

MaxSize == Max({Size[h] : h \in Hashes})

\* A request for the chunk at an offset and its answer; "add" is the dl_add
\* during which it was sent.
Message == [hash : Hashes, at : 0..(MaxSize - 1),
            add : 1..Max({MaxAdds[h] : h \in Hashes})]

File == Seq(Hashes \cup {Hole})

TypeOK ==
  /\ state \in [Hashes -> States]
  /\ top \in [Hashes -> Nat]
  /\ run \in [Hashes -> Nat]
  /\ finish \in [Hashes -> Nat]
  /\ del \in [Hashes -> Nat]
  /\ checking \in [Hashes -> BOOLEAN]
  /\ temp \in [Names -> File]
  /\ final \in [Names -> File]
  /\ known \subseteq Hashes
  /\ gets \in [Message -> Nat]
  /\ gives \in [Message -> Nat]
  /\ added \in [Hashes -> Nat] /\ \A h \in Hashes : added[h] <= MaxAdds[h]
  /\ kicks \in [Hashes -> Nat] /\ \A h \in Hashes : kicks[h] <= MaxKicks[h]
  /\ mixed \in [Hashes -> BOOLEAN]

Absent == <<>>

Init ==
  /\ state = [h \in Hashes |-> "NONE"]
  /\ top = [h \in Hashes |-> 0]
  /\ run = [h \in Hashes |-> 0]
  /\ finish = [h \in Hashes |-> 0]
  /\ del = [h \in Hashes |-> 0]
  /\ checking = [h \in Hashes |-> FALSE]
  /\ temp = [n \in Names |-> Absent]
  /\ final = [n \in Names |-> Absent]
  /\ known = {}
  /\ gets = [m \in Message |-> 0]
  /\ gives = [m \in Message |-> 0]
  /\ added = [h \in Hashes |-> 0]
  /\ kicks = [h \in Hashes |-> 0]
  /\ mixed = [h \in Hashes |-> FALSE]

-----------------------------------------------------------------------------
(* Files.                                                                  *)

Whole(h) == [i \in 1..Size[h] |-> h]

\* crypto_cksum of the data is the hash
HashMatches(file, h) == file = Whole(h)

\* dl_write: "a+" lets the seek decide, so the chunk goes to its offset, and
\* a gap before it reads as zeros.
Written(file, at, h) ==
  [i \in 1..Max({Len(file), at + 1}) |->
     IF i = at + 1 THEN h ELSE IF i <= Len(file) THEN file[i] ELSE Hole]

\* The first n chunks of h are there and nothing else is.
IsPrefix(file, n, h) == n = Len(file) /\ \A i \in 1..n : file[i] = h

\* The others whose temporary file is h's.
Sharing(h) == {g \in Hashes \ {h} : Name[g] = Name[h]}

Mix(hs) == mixed' = [h \in Hashes |-> mixed[h] \/ h \in hs]

-----------------------------------------------------------------------------
(* Requests and answers.                                                   *)

Request(h) == [hash |-> h, at |-> top[h], add |-> added[h]]

\* Mutant of Ask: the last chunk is not asked for.
AskTooFew(h) ==
  IF top[h] < Size[h] - 1
    THEN /\ gets' = [gets EXCEPT ![Request(h)] = @ + 1]
         /\ UNCHANGED <<state, finish>>
    ELSE /\ state' = [state EXCEPT ![h] = "STOP"]
         /\ finish' = [finish EXCEPT ![h] = @ + 1]
         /\ UNCHANGED gets

\* The body of dl_run for a running download; what it leaves alone is up to
\* the action that calls it.
Ask(h) ==
  IF top[h] < Size[h]
    THEN /\ gets' = [gets EXCEPT ![Request(h)] = @ + 1]
         /\ UNCHANGED <<state, finish>>
    ELSE /\ state' = [state EXCEPT ![h] = "STOP"]
         /\ finish' = [finish EXCEPT ![h] = @ + 1]
         /\ UNCHANGED gets

\* A dl_run timer fires.
RunTimer(h) ==
  /\ run[h] > 0
  /\ run' = [run EXCEPT ![h] = @ - 1]
  /\ IF state[h] = "RUN" THEN Ask(h) ELSE UNCHANGED <<state, finish, gets>>
  /\ UNCHANGED <<top, del, checking, files, gives, logVars>>

\* A turn of the dl_check loop: it ends with the download, and asks again when
\* nothing was written for ten seconds.
CheckTurn(h) ==
  /\ checking[h]
  /\ IF state[h] # "RUN"
       THEN /\ checking' = [checking EXCEPT ![h] = FALSE]
            /\ UNCHANGED <<state, finish, gets, kicks>>
       ELSE /\ kicks[h] < MaxKicks[h]
            /\ kicks' = [kicks EXCEPT ![h] = @ + 1]
            /\ Ask(h)
            /\ UNCHANGED checking
  /\ UNCHANGED <<top, run, del, files, gives, added, mixed>>

\* The other peer: req_get reads the chunk it is asked for.
Serve(m) ==
  /\ gets[m] > 0
  /\ gets' = [gets EXCEPT ![m] = @ - 1]
  /\ gives' = [gives EXCEPT ![m] = @ + 1]
  /\ UNCHANGED <<state, top, timers, files, logVars>>

\* Mutant of Give: two dl_run timers are set.
GiveTwice(m) ==
  LET h == m.hash  n == Name[h] IN
  /\ gives[m] > 0
  /\ gives' = [gives EXCEPT ![m] = @ - 1]
  /\ IF state[h] = "RUN"
       THEN /\ temp' = [temp EXCEPT ![n] = Written(@, m.at, h)]
            /\ top' = [top EXCEPT ![h] = m.at + 1]
            /\ run' = [run EXCEPT ![h] = @ + 2]
            /\ Mix(Sharing(h) \cup (IF m.add = added[h] THEN {} ELSE {h}))
       ELSE UNCHANGED <<temp, top, run, mixed>>
  /\ UNCHANGED <<state, finish, del, checking, final, known, gets, added,
                 kicks>>

\* Mutant of Give: dl_run is left to dl_check.
GiveStops(m) ==
  LET h == m.hash  n == Name[h] IN
  /\ gives[m] > 0
  /\ gives' = [gives EXCEPT ![m] = @ - 1]
  /\ IF state[h] = "RUN"
       THEN /\ temp' = [temp EXCEPT ![n] = Written(@, m.at, h)]
            /\ top' = [top EXCEPT ![h] = m.at + 1]
            /\ Mix(Sharing(h) \cup (IF m.add = added[h] THEN {} ELSE {h}))
       ELSE UNCHANGED <<temp, top, mixed>>
  /\ UNCHANGED <<state, run, finish, del, checking, final, known, gets, added,
                 kicks>>

\* req_give, dl_write: a running download takes any chunk of its hash.
Give(m) ==
  LET h == m.hash  n == Name[h] IN
  /\ gives[m] > 0
  /\ gives' = [gives EXCEPT ![m] = @ - 1]
  /\ IF state[h] = "RUN"
       THEN /\ temp' = [temp EXCEPT ![n] = Written(@, m.at, h)]
            /\ top' = [top EXCEPT ![h] = m.at + 1]
            /\ run' = [run EXCEPT ![h] = @ + 1]
            /\ Mix(Sharing(h) \cup (IF m.add = added[h] THEN {} ELSE {h}))
       ELSE UNCHANGED <<temp, top, run, mixed>>
  /\ UNCHANGED <<state, finish, del, checking, final, known, gets, added,
                 kicks>>

Lose(m) ==
  /\ \/ gets[m] > 0 /\ gets' = [gets EXCEPT ![m] = @ - 1] /\ UNCHANGED gives
     \/ gives[m] > 0 /\ gives' = [gives EXCEPT ![m] = @ - 1] /\ UNCHANGED gets
  /\ UNCHANGED <<state, top, timers, files, logVars>>

-----------------------------------------------------------------------------
(* Starting, ending and removing a download.                               *)

\* Mutant of Add: the old position is kept.
AddKeepsTop(h) ==
  /\ added[h] < MaxAdds[h]
  /\ added' = [added EXCEPT ![h] = @ + 1]
  /\ state' = [state EXCEPT ![h] = "STOP"]
  /\ mixed' = [mixed EXCEPT ![h] = temp[Name[h]] # Absent \/ finish[h] > 0]
  /\ UNCHANGED <<top, timers, files, network, kicks>>

\* dl_add: a new entry, or the old one reset.  What is left in the temporary
\* file may be of another download, and so may a pending dl_finish.
Add(h) ==
  /\ added[h] < MaxAdds[h]
  /\ added' = [added EXCEPT ![h] = @ + 1]
  /\ state' = [state EXCEPT ![h] = "STOP"]
  /\ top' = [top EXCEPT ![h] = 0]
  /\ mixed' = [mixed EXCEPT ![h] = temp[Name[h]] # Absent \/ finish[h] > 0]
  /\ UNCHANGED <<timers, files, network, kicks>>

\* dl_start of a file that is already in downloads/: copy it (unless a
\* temporary file is in the way) and check it a second later.
StartKnown(h) ==
  LET n == Name[h] IN
  /\ state[h] # "NONE" /\ h \in known
  /\ kicks[h] < MaxKicks[h]
  /\ kicks' = [kicks EXCEPT ![h] = @ + 1]
  /\ temp' = [temp EXCEPT ![n] = IF @ = Absent THEN final[n] ELSE @]
  /\ finish' = [finish EXCEPT ![h] = @ + 1]
  /\ IF temp[n] = Absent THEN Mix(Sharing(h)) ELSE UNCHANGED mixed
  /\ UNCHANGED <<state, top, run, del, checking, final, known, network,
                 added>>

\* dl_start otherwise.  dl_getpeers sets a second dl_run timer when the
\* sources of h are known.
StartFetch(h, sources) ==
  LET new == IF sources THEN 2 ELSE 1 IN
  /\ state[h] # "NONE" /\ h \notin known
  /\ kicks[h] + new <= MaxKicks[h]
  /\ kicks' = [kicks EXCEPT ![h] = @ + new]
  /\ run' = [run EXCEPT ![h] = @ + new]
  /\ state' = [state EXCEPT ![h] = "RUN"]
  /\ checking' = [checking EXCEPT ![h] = TRUE]
  /\ UNCHANGED <<top, finish, del, files, network, added, mixed>>

\* The stop button.
Stop(h) ==
  /\ state[h] # "NONE"
  /\ state' = [state EXCEPT ![h] = "STOP"]
  /\ UNCHANGED <<top, timers, files, network, logVars>>

\* dl_finish of a file that is not h's, or is not there
FinishFails(h) ==
  /\ state' = [state EXCEPT ![h] =
                 IF @ = "NONE" \/ temp[Name[h]] = Absent THEN @ ELSE "ERROR"]
  /\ UNCHANGED <<del, files, mixed>>

\* What is under the name of h once its download is moved there.
KeptFile(h) == IF final[Name[h]] = Absent THEN temp[Name[h]] ELSE final[Name[h]]

\* Mutant of FinishMoves: the hash of the download is registered for whatever
\* file is there.
FinishTrusts(h) ==
  LET n == Name[h] IN
  /\ temp' = [temp EXCEPT ![n] = IF final[n] = Absent THEN Absent ELSE @]
  /\ final' = [final EXCEPT ![n] = KeptFile(h)]
  /\ known' = known \cup {h}

\* The file is moved unless one of its name is there, and what is there then
\* is registered (hash_file).
FinishMoves(h) ==
  LET n == Name[h] IN
  /\ temp' = [temp EXCEPT ![n] = IF final[n] = Absent THEN Absent ELSE @]
  /\ final' = [final EXCEPT ![n] = KeptFile(h)]
  /\ known' = known \cup {g \in Hashes : HashMatches(KeptFile(h), g)}

Finishable(h) == state[h] # "NONE" /\ HashMatches(temp[Name[h]], h)

\* A dl_finish timer fires.
FinishTimer(h) ==
  /\ finish[h] > 0
  /\ finish' = [finish EXCEPT ![h] = @ - 1]
  /\ IF Finishable(h)
       THEN /\ FinishMoves(h)
            /\ state' = [state EXCEPT ![h] = "DONE"]
            /\ del' = [del EXCEPT ![h] = @ + 1]
            /\ Mix(Sharing(h))
       ELSE FinishFails(h)
  /\ UNCHANGED <<top, run, checking, network, added, kicks>>

\* dl_del, whoever calls it: the temporary file goes unless h is done.
Remove(h) ==
  LET n == Name[h] IN
  IF state[h] = "NONE" THEN UNCHANGED <<state, temp, mixed>>
  ELSE /\ state' = [state EXCEPT ![h] = "NONE"]
       /\ IF state[h] # "DONE"
            THEN temp' = [temp EXCEPT ![n] = Absent] /\ Mix(Sharing(h))
            ELSE UNCHANGED <<temp, mixed>>

\* The delete button, and the click on a picture or voice message.
Delete(h) ==
  /\ state[h] # "NONE"
  /\ Remove(h)
  /\ UNCHANGED <<top, timers, final, known, network, added, kicks>>

\* The timer that the end of a download has set.
DelTimer(h) ==
  /\ del[h] > 0
  /\ del' = [del EXCEPT ![h] = @ - 1]
  /\ Remove(h)
  /\ UNCHANGED <<top, run, finish, checking, final, known, network, added,
                 kicks>>

-----------------------------------------------------------------------------

Program(h) == RunTimer(h) \/ CheckTurn(h) \/ FinishTimer(h) \/ DelTimer(h)

User(h) ==
  \/ Add(h)
  \/ StartKnown(h)
  \/ \E sources \in BOOLEAN : StartFetch(h, sources)
  \/ Stop(h)
  \/ Delete(h)

Network == \E m \in Message : Serve(m) \/ Give(m) \/ Lose(m)

Next == (\E h \in Hashes : Program(h) \/ User(h)) \/ Network

Spec == Init /\ [][Next]_vars

\* h is added once, nobody stops or deletes it and no message is lost.
Undisturbed(h) ==
  \/ Program(h)
  \/ added[h] = 0 /\ Add(h)
  \/ StartKnown(h)
  \/ \E sources \in BOOLEAN : StartFetch(h, sources)
  \/ \E m \in Message : m.hash = h /\ (Serve(m) \/ Give(m))

-----------------------------------------------------------------------------
(* Properties.                                                             *)

\* Whatever order the chunks of one download arrive in, late and twice, with
\* dl_write pulling the position back and forth: the temporary file has no
\* gap and reaches the position.
InOrder ==
  \A h \in Hashes :
    state[h] = "RUN" /\ ~mixed[h] =>
      LET file == temp[Name[h]] IN
      /\ top[h] <= Len(file)
      /\ \A i \in 1..Len(file) : file[i] = h

\* dl_finish rejects a file only if another download, a chunk or a timer of
\* an earlier one got into it.
ErrorOnlyWhenMixed ==
  \A h \in Hashes : state[h] = "ERROR" => mixed[h]

\* Every copy of a request for h, or of an answer, that is in flight
Copies(counts, h) ==
  UNION {[of : {m}, nr : 1..counts[m]] : m \in {n \in Message : n.hash = h}}

UnderWay(h) ==
  run[h] + Cardinality(Copies(gets, h)) + Cardinality(Copies(gives, h))

\* A request leads to one answer, one timer and one further request: the
\* requests under way are never more than were started by hand or by timeout.
OneRequestPerKick == \A h \in Hashes : UnderWay(h) <= kicks[h]

\* ::file_by_hash never leads to a file of other content, though downloads of
\* one name compete for it.
KnownIsKept == \A h \in known : final[Name[h]] = Whole(h)
=============================================================================
