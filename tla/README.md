# mysteria5 in TLA+

mysteria5 (`src/`) is a peer-to-peer messenger in Tcl: chat, mail, files,
documents and voice between buddies and in groups, over a DHT of peers and an
I2P router. This directory holds a specification of its core: what each peer's
event loop does to its state, what goes wrong on the network, on the disk and
with timers in between, what the program promises all the same, and where it
does not.

A peer is one thread. Every action of a module is one event handler run to its
end: a message, a timer (`after`), a readable socket, a button. What makes the
program hard is not parallel threads but the order of those events: timers that
nobody cancels, messages that overtake each other, state that is forgotten,
and many peers that hold different parts of one truth.

## Inventory

`mysteria.tcl` unless another file is named.

| Component | State | Operations | Interacts with | Hard because | Right when |
|---|---|---|---|---|---|
| Group chat (5436-6192) | `::gchatqueue`, `::gchatcache`, history files, windows | `gchat_send`, `check_gchatqueue`, `gchat_recv` | rules of group mail, DHT for addresses, transport | loss, retries, duplicates, restarts, members coming and going | an author is told only the truth; a text is shown once; the history has it once |
| Group mail and rules (1679-1832, 4112-4240, 7630-7866, 8639-9457) | header, body and delete stores, `::rule` | `form_message`, `rule_send`, `req_head`, `req_mail`, `ml_replay`, `ml_add_*`, `ml_filter_del` | DHT to reach members, group chat (rules) | headers and bodies travel apart, every peer replays its own part of the log, deletions are for good | a rule falls back only when the letter it comes from is deleted or older than 31 days; what the log allows is not lost; what was deleted by hand is not sent on |
| Personal mail | `mlphdr` stores | as group mail, without rules | DHT | as above, without replay | a letter is stored once |
| File exchange (7942-7973, 9458-9802) | `::dlstate_by_hash`, `temp/`, `downloads/`, `::file_by_hash` | `dl_add`, `dl_start`, `dl_run`, `dl_check`, `dl_write`, `dl_finish`, `dl_del`, `req_get`, `req_give` | DHT, shared file index | late chunks, timeouts that ask again, leftover timers, shared names | no gap in a file; a finished file has its hash; what is known is there |
| I2P control session (`i2p.tcl` 62-419) | `::cur(i2p,state)`, `sock`, `key`, the voice twin | `i2p_start`, `i2p_check`, `i2p_handler`, `i2p_end`, `net_toggle` | the router, data streams, voice | 60 s timers that are never cancelled | it comes back after every failure and not when the user has switched it off |
| I2P streams and queue (`i2p.tcl` 148-202, 421-700) | data sockets, `::cur(i2p,<dest>,queue,*)` | `i2p_start_data`, `i2p_handler_data`, `i2p_maintain_data`, `i2p_send`, `i2p_checkqueue` | control session (`i2p_end` closes the sockets and empties the queue), every sender | retries, throttling, dead sockets, sessions that end | a queued message goes out once at most; it does go out unless it is lost with its session or in a stream whose end nobody has read, or a socket hangs in hello |
| DHT requests (7433-8162) | `::p(s,*)`, one automaton per request | `str_create`, `str_start`, `str_*`, `req_*` | buckets, transport, directory | overlapping timeouts, further hops, sessions that are forgotten | each request ends, and once |
| Routing buckets (6250-6279, 7274-7432) | `::b`, `::peerstore` | `check_peers`, `put_to_bucket`, `check_bucket`, `closest_in_buckets` | DHT requests | overlapping pings, stale addresses, limits | who is in a bucket has answered; nobody reachable is forgotten |
| Directory (5019-5325, 6531-6732) | `::waitvalue`, `::valuestore`, the stores of contacts, groups, headers | `sc_get_value`, `sc_stop`, `sc_publish*`, `sol_store`, `net_update`, `check_waitvalues`, `req_store` | DHT requests | a throttle that drops calls, timers on searches that are over, values that raise errors | a value that has come is seen; a search ends |
| Presence (6489-6530) | `::statuses`, one timer per notice | `set_peer_status`, `send_my_status` | chat window, DHT | timers that are told apart by whole seconds | silence, and only silence, makes a peer offline |
| Record store (9813-10087, `bin.tcl`) | files of `ts key del val` records without end marks | `save_bin`, `get_bin`, `find_bin`, `del_bin` | mail, history, peers, keys | a crash or a full disk within a record, a deletion mark in the wrong place | a key has one entry that never changes, and what was saved into a sound file is found |
| Documents (`doc.tcl`, `delta.tcl`; 7867-7941) | revisions as deltas in `doc/*_e.dat`, the window's node and text | `doc_edit`, `doc_replay`, `doc_apply`, `delta`, `apply_delta`, `req_head`, `req_mail` for GDC and GDE | user interface, mail's messages, rules | edits at the same time, revisions that arrive in any order, lines that repeat | a revision can be rebuilt wherever it is known and reads the same there |
| TCP transport (6921-7260) | sockets, `::tcpqueue` | `tcp_send`, `tcp_init`, `tcp_cleanup` | DHT requests | back-off, shared sockets | used when no transport is loaded, which the program as it is never does without |
| Text persistence (3539-4110) | lists of peers, groups, files | `load_*`, `write_*` | all | whole-file rewrites | |
| Voice (`audio.tcl`, `fifo_fix.tcl`) | one call | `audio_*` | I2P's voice session | callbacks of devices | |
| Stack machine (`mysm.tcl`), flowcharts (`gr.tcl`) | interpreters' states | | none | | |
| Framing, encryption, interface, offline exchange, options | | | | | out of scope, reasons below and in `PROJECT.json` |

Messages between components are calls within one event, except the ones named
above that go through the network or an `after`.

## Modules

| Module | Models | Proved in |
|---|---|---|
| `ChatDelivery` | what a group conversation promises: who is confirmed has stored, who stores was permitted | |
| `GroupChat` | every peer's half of a group conversation and the network; implements `ChatDelivery` | `GroupChatProofs` |
| `Download` | one peer's downloads against a peer that serves them | `DownloadProofs` |
| `GroupMail` | group letters, rules and their replay at every peer | `GroupMailProofs` |
| `I2pSession` | the control session with the I2P router | `I2pProofs` |
| `I2pStreams` | data sockets with the router and the queue of outgoing messages | `I2pProofs` |
| `Peering` | one peer's store of addresses, pings and buckets | `PeeringProofs` |
| `Clock` | the clock of a node and the order of its timers | |
| `Directory` | searches, publications and their DHT sessions, on `Clock` | with `Node` |
| `Presence` | who is shown online, on `Clock` | with `Node` |
| `Node` | `Directory` and `Presence` on one clock and behind one switch | `NodeProofs` |
| `KeyStore` | what a file of records promises: the first entry of a key stays | |
| `RecordStore` | the file itself, torn or whole; implements `KeyStore` | `RecordStoreProofs` |
| `Delta` | the algorithm of `delta.tcl` | with `Documents` |
| `DocHistory` | what a document of a group promises: a growing tree of revisions | |
| `Documents` | a document at every member and the exchange of its revisions, on `Delta`; implements `DocHistory` | `DocumentsProofs` |
| `MC...` | instances for TLC, and the liveness of those modules whose quiet behaviours are narrower than their `Next` | |

Operators introduced by "Mutant of" are plausible bugs; nothing in the
specification uses them. They document that the property named in
`PROJECT.json` would notice.

### GroupChat

`queue[p]`, `cache[p]` and `hist[p]` are `::gchatqueue`, `::gchatcache` and the
history file for one group; `users[p]` is the part of `::rule` that
`rule_check_gchat` reads. `SendText` is `gchat_text` up to and including
`gchat_send`; `CheckQueue` one pass of `check_gchatqueue`, which sends a due
text to all targets and uses up a try; `Recv` is `gchat_recv` with its early
returns as the actions `RecvScreened`, `RecvDenied`, `RecvDuplicate`, and
`RecvText`, `RecvAnswer` for what is left. `Expire` is the 600 s timer of a
cache entry, `Restart` a restart (queue and cache are memory, the history is a
file), `Join`, `Leave` and `NewRule` the changes around the conversation.
`AtAddress[p][q]` is the peer `ml_screen` finds for the address q's messages
come from: two members behind one address are a legal configuration, and the
checked instance is one.

Abstracted: texts are their mids; encryption; the clock of the 3 s resend
interval (`CheckQueue` may run at any time, which includes every clock).

Assumed: the history file takes every text. The program does not know whether
it does: `save_bin` hides a failed `open` (9832) and a full disk (9843, 9852),
and `gchat_recv` answers OK in any case (5746-5747). What is said here of an
author who was told of a delivery is true of disks that are not full.
`GroupMail` and `Documents` make the same assumption of their stores; what a
failed or torn save leaves in a file is `RecordStore`.

### Download

A file is a sequence of chunks, each marked with the hash it belongs to; `Hole`
marks what a seek past the end leaves. `run`, `finish` and `del` count pending
timers, because nothing cancels them. `Ask` is what `dl_run` does when it runs
(from a timer or from `dl_start`), `CheckTurn` one turn of a `dl_check` loop,
`Give` is `dl_write` on an answer. `kicks`, `added` and `mixed` are history:
requests nobody's answer asked for, `dl_add` calls, and whether anything but
the present download may have touched its temporary file. That is another file
of the same name, and also what an earlier download of the same file has left:
a late answer or a repeated chunk, the temporary file itself, a pending timer.

### GroupMail

Letters are numbered in the order of their epochs, which is the order
`ml_replay` takes. `hdr`, `body`, `denied` and `removed` are the header store,
the body store and the two ways a letter gets on the delete list (by replay, by
hand). `Replayed` is one turn of the loop of `ml_replay` and `Replay` the loop,
a recursive function over the letters; a control letter acts only if it is
allowed and its body is there, and a letter that is not allowed is deleted for
good. `Offer`, `TakeDigest`, `TakeHead`, `TakeBodies` are the digest exchange;
`Age` takes a letter out of the 31 days `ml_get_hdrs` returns. `form_message`
stores locally and announces; `gmail_send` announces nothing (`PostQuietly`).

A replay begins with the start rule and sees 31 days of letters. A rule can
therefore fall back: when the control letter it comes from is older than that,
or is deleted. `RuleNeverGoesBack` says that these are the only ways.

Assumed: every member has sources (without, `form_message` runs into a `break`
outside of a loop at line 4223).

### I2pSession

`starts`, `vstarts`, `checks`, `vchecks` count the pending 60 s timers; none of
them knows for which session it was armed, and neither does the model. `asked`
holds the commands on each control socket that the router has not answered,
`holder` the socket whose session the router has granted. A handler action is
the branch of `i2p_handler` for an answer: it goes by `::cur(i2p,state)` and
writes to `::cur(i2p,sock)`, whichever socket it was called for. The voice
session after its hello is one state, `"up"`. The empty string of the code is
`"none"`.

### I2pStreams

`sock[c]` is `::cur(i2p,datasock,c,*)`, `chan[c]` the channel behind it: the
bridge may stop answering on it (`"mute"`) or close it (`"ended"`). Tcl's `eof`
holds only of a channel whose end was read (`"eof"`): `EofRead` is the call of
`i2p_handler_data` that reads it, `EofSeen` the next one, which closes the
socket. Until then a `puts` to an ended channel is lost without a word (`lost`)
or raises an error: the retry that writes it sets no timer any more (`Retry`,
`HelloOK`), and an `i2p_checkqueue` ends there, with the messages before that
one gone and the others kept (`CheckRaises`).

Names of sockets are used again, and `retry[c]` counts the pending
`i2p_handler_data_retry` timers of a name, by their attempts. `Replace` is the
opening of sockets by `i2p_start_data`, `Drop` the unset and close that ends
one. `CheckQueue` is `i2p_checkqueue`; one that comes too soon is
`CheckDropped`, which may happen to any. `Maintain(old)` is
`i2p_maintain_data` when the sockets in `old` have been idle for long enough.

The session is reduced to off, starting and ready. `SessionEnds` is `i2p_end`,
which closes and unsets every data socket and unsets every queued message
(i2p.tcl:210-215), while the timers stay: the retries of a name, pending
`i2p_start_data` and a pending check. `SessionReadies` opens the listening
sockets. The steps `Starts`, `Readies`, `Restarts` and `Ends` are those that
`I2pSession` makes, and whenever its session goes off an `i2p_end` has run
(`SessionAsSeen` in `I2pProofs`).

Assumed: a ready session has key and destination (`i2p_handler_data` tests for
them and then goes on regardless).

### Peering

`store` is `::peerstore` reduced to addresses, `bucket` the peers in `::b`
(their times only decide who leaves a full bucket: the newest, who has just
been put there), `pings` the requests of `::p` whose 30 s timer is
pending, `check` an `after 200 check_peers`. `Put` is `put_to_bucket` with
`check_bucket`, `Check` is `check_peers` with every request it starts, `Answer`
and `Timeout` the two halves of `str_ping`. `News` is whatever tells us an
address (`req_sol`, the answers to FIND_NODE and FIND_VALUE), right or wrong.
`met` is history: who has answered, from where. An answer that comes after the
timer is refused by `str_req` and counts as lost. `Order` is `distorder`, the
number of the bucket; two peers are never at one address at a time.

### Clock, Directory, Presence, Node

Here times matter: what a throttle drops and which timer comes first decide
what is overlooked. `now` counts units of which one is the 1 ms of
`check_waitvalues` in the directory; the delays of the code are constants whose
order is assumed (`Throttle <= Delay`, `Timeout < Lasting`) and whose values
are not. A set of timers is Tcl's queue: `Fires` lets only the one due first
run, `Late` how far the event loop may fall behind.

`p[x]` is the state of a session (`"GONE"` when it is unset), `wait[s]` an entry
of `::waitvalue`, `found` is `::valuestore`, `stored` the keys with a value in
the stores that the user sees. `Begin` and `Timeouts` are `str_create` and
`str_start`; `Hop` is an answer that names other peers, each of which gets a
timer beside that of the first; `Value`, `Confirmed`, `Refused` are the ends
that `str_find_value`, `str_find_node` and `str_store` know. `TimeoutTimer`,
`ForgetTimer`, `CloseTimer`, `EraseTimer`, `CheckTimer`, `StartTimer` are the
`after`s of the code, one each. `Pass` is one `check_waitvalues`: `missed` is
history and names the searches it did not come to because a value raised an
error in its loop. Peers that are asked are any (`closest_in_buckets` is not
followed), an answer is any that `str_req` takes. `StopAll` is `sc_stop all`,
which no caller asks for: five seconds later it ends every search there is by
then.

`Hear` is a STATUS notice and `AwayTimer` the timer it sets, which looks at
whole seconds (`Second`) to see whether another came later.

`Node` puts both behind `net_toggle`'s switch and on one clock.

### RecordStore

A file is a sequence of cells: a head (time, key, the byte that says whether it
is deleted, length), the parts of a value, and what is left of a head or a part
that was torn. A head torn before its key is complete is noise, one torn behind
the key a bare key, one torn in the length a stub, of which `get_bin` finds the
key with an empty value. A bare key is found once the next save has appended
its first byte, a zero, which counts as the byte that is missing, but not
before that nor if `del_bin` has put its byte there (`Mark`: it lands at the
end of the file). `Met` is where a reader gets to, from record to record,
defined as the least set that contains the first record and the one after each
head it contains; `Seen` is what of it does not look deleted. `BeginSave` is
`save_bin` up to the point where it has read the file and knows what is
missing; `WriteRecord` appends one record, `EndSave` is its return, `Tear` a
crash or a full disk (the `catch`es of `save_bin` make no difference between
them) with any first part of a record written. `Delete` is `del_bin`. `due` and
`kept` are history.

Assumed: behind a torn head, and where a value is not followed by a head, a
reader is out of step and takes bytes of a time, a key or a text for lengths.
Mostly such a length is more than the file holds, and the reader is at its end.
It need not be: the seconds of a time begin with four zero bytes, so a head torn
after seven of its eight bytes makes the next length about 105. Assumed is that
what the reader takes for a key there is none that is looked for, and that it
does not come upon the beginning of a later record by chance.

### Delta, Documents

A text is the sequence of its lines. `Deltas(f, t)` is the set of differences
that `delta` may return: where two common pieces have one length, the order of
a Tcl array decides. `Limit` is the window of `MaxHair` lines (1024) in which
`delta` compares, so a piece in common may end there and the next one overlap
it. `Applied` and `ApplyDelta` are `apply_delta`. The loops over lines and
commands are recursive functions (`Passed`, `Applied` are one turn each).

A revision is a record in a document's file under its checksum; `made` numbers
them. `Edit` is `doc_edit`, `Open`, `Gather` and `Click` are the window's
commands, `TakeKeys` and its neighbours the branches of `req_head` and
`req_mail` for GDC and GDE. `typed[n]` is history: what the author had on the
page, while `text[n]` is what the same author reads after the save.

## What is checked

Bounds are constants named in the module and marked "bound".

| Run | Instance | Shows |
|---|---|---|
| `chat` | owner and two members, one shared address, one text, one retry, two rules, one cache loss, lossy; and the same with nothing lost or forgotten | `DeliveredIsKept`, `ShownOncePerMemory`, `OneAnswerPerMemory`, `NeverAfterAnswer`, refinement of `ChatDelivery` (`ImplementsDelivery`), `EveryMemberGetsIt` |
| `download` | two files of one name, of one chunk and of two; the second added twice, with three unasked requests; and the second alone, undisturbed | `InOrder`, `ErrorOnlyWhenMixed`, `OneRequestPerKick`, `KnownIsKept`, `Completes` |
| `mail` | two peers; a user is let in, writes and is let out; a letter gets too old at one peer, one is removed by hand at each; and, calm, the first two letters with a digest on request | `RuleNeverGoesBack`, `DenialNeedsGap`, `DeletedStaysHere`, `BodyFollowsHeader`, `RuleReachesMembers` |
| `i2p` | three control sockets, one time off, two failures, two timers of a kind | `ComesBack`, `OffStaysOff`, `ReadyIsOurs`, `Recovers` |
| `peering` | three peers, a bucket for two, three open requests, two of: a move, news, a loss, the network off | `BucketAnswered`, `NotForgotten`, `Converges` |
| `streams` | one destination, one message, two names of sockets, three troubles: a failed or silent socket, a closed one, an end or a restart of the session | `NoGhosts`, `WrittenOnce`, `ConnectEnds`, `GoesOut` |
| `node` | one key with good and broken values, two searches, a session of each kind of which one is begun, stops of one search and of all, a friend | `NothingOverlooked`, `EndsOnce`, `LookupsOver`, `AllEnds`, `SilenceShows`, `OnlySilence` |
| `store` | two keys, a value of one part and one of two, saves and deletions that begin in a file of less than five cells | `OncePerKey`, `SavedIsThere`, refinement of `KeyStore` (`KeepsTheFirst`) |
| `docs` | two members who write two revisions, of two pages whose common beginning is longer than `MaxHair`, and open or gather twice | refinement of `DocHistory` (`KeepsHistory`), `EditsReachAll` |
| `mail_order`, `peering_oldest`, `docs_repeat` | see below | a violation each, of `NothingAllowedIsDenied`, `FreshStays`, `ShowsWhatWasTyped` |

A run with two moods starts in either (`followed`, `calm` in the `MC` module)
and stays in it: safety is checked in both, and liveness is claimed of the one
in which nothing is lost. One run thus covers what are two questions of one
model.

Why the bounds are enough. One text is enough for the chat since no handler
compares two mids; two answers for one text need two members besides its
author. Two chunks are the least with a first and a last one; a second file is
what can get in the way of the first. Three letters are the least with a rule,
what it allows and the rule that ends it. Three sockets are a current one and
two left behind; timers are counted up to a bound and no further, so that more
of them are as many. Three peers are one more than the bucket holds; three
requests allow two to one peer while another is asked. Two names of sockets
allow two streams to one destination and a name used again while its timers
run. In `node` users and other nodes act for the first three units (`Quiet`)
and notices come for five; the timers then run out. Its sessions meet only in
the searches they serve, so one at a time shows what a session does, and two
searches of one key are what an error in one pass tells apart; one stop at a
time (`MaxStops`), of one search or of all, meets whatever was begun since;
directory and presence share the clock and the switch and nothing else, so
either is busy while the other rests (`Together`). Five cells are a torn record,
the record that fills it up, and one that follows. Two revisions are the least for two
that are made at the same time, or one of the other. For what is proved, no
bound matters.

### Where code and comment disagree

- `mail_order`: `ml_replay` runs on the headers of a digest before their bodies
  have come, and deletes for good a letter that the missing body allows. The
  comment says "else ignore". (`DenialNeedsGap` says how far this goes: a
  letter that the whole log allows is only denied where an earlier control
  letter is missing; one older than 31 days is missing, too.)
- `peering_oldest`: `oldest_in_bucket` returns the newest peer, so a full
  bucket loses the one that has just answered.
- `docs_repeat`: `test_delta` asserts that the difference of two texts makes the
  second of the first. With lines that repeat it does not: a page of two equal
  lines that is saved again unchanged reads as three.

### Fairness

- `MCGroupChat`, calm: messages in flight are handled, and the first pass of the
  queue, an `after 100`, runs. Nothing else is assumed of the queue.
- `MCDownload`, calm: timers of the event loop fire, and requests and answers
  arrive. Nobody stops or deletes the download.
- `MCGroupMail`, calm: members refresh their groups again and again (the
  program does so by timer) and messages arrive.
- `I2pSession.FairSessionSpec`: timers fire, the router answers what it is asked,
  and a program that says hello again and again is answered in time once (strong
  fairness: a check may end a hello before its answer, and start another).
  `Recovers` claims nothing once a socket was abandoned, that is replaced by a
  second `i2p_start` while its session was under way: its answers then go on
  disturbing the session that replaced it.
- `I2pStreams.FairSpec`: the event loop runs, the session comes back, the router
  answers a hello unless it leaves it unanswered for good. There is always
  something else to send, and not all of it within 2.5 ms of the last (strong
  fairness), which is what the program relies on with its timer-driven messages;
  a destination that is asked again and again answers once (strong fairness). A
  hello without an answer blocks its destination (`i2p_check_data` never closes
  the socket): `GoesOut` claims nothing of a message while such a socket stays
  for good (`Blocked`), nor of one that was lost with its session or in an
  ended stream.
- `Peering.FairSpec`: timers fire, what is not lost is answered, and the user
  switches the network on again. Moves, news and losses come to an end, as
  their bound says; `Converges` is about what happens then.
- `Node.FairSpec`: time passes and timers run. Nobody has to answer: `AllEnds`
  holds by the timers alone.
- `Documents.FairSpec`: what is sent arrives, any kind of message at any member
  again and again. Nobody has to open or gather.

## What is proved

The theorems hold for every value of the constants that the named assumptions
of the modules allow. Type correctness is a theorem of each module that has
proofs and no run repeats it.

| Module | Theorems | Of every |
|---|---|---|
| `GroupChatProofs` | `TypeCorrect`, `DeliveredTrue`, `ShownOnce`, `AnsweredOnce`, `SilentAfterAnswer`, `Implements` | number of peers, texts, tries, rules, addresses |
| `DownloadProofs` | `DownloadTypes`, `NoGaps`, `NoFalseErrors`, `KicksBound`, `KnownKept` | number of files, names, chunks, requests |
| `GroupMailProofs` | `MailTypes`, `RulesAdvance`, `DenialHasGap`, `StaysHere` | number of peers, letters, rules, sources |
| `I2pProofs` | `SessionTypes`, `SessionComesBack`, `OffHolds`, `ReadyHolds`, `SessionAsSeen`; `StreamsTypes`, `NeverGhosts`, `OnceWritten`, `ConnectsEnd` | number of sockets, destinations, messages, timers, switches, failures |
| `PeeringProofs` | `PeeringTypes`, `OnlyWhoAnswered`, `NobodyForgotten` | number of peers, addresses, requests, every size of a bucket |
| `NodeProofs` | `NodeTypes`, `NeverOverlooked`, `SessionsEndOnce`, `NoAnswerCutOff`, `SilenceIsShown`, `OfflineIsSilence` | number of searches, sessions, keys, friends, and all delays |
| `RecordStoreProofs` | `NoKeyTwice`, `SavedStays`, `ImplementsKeyStore` | keys, values, sizes, and length of the file |
| `DocumentsProofs` | `DeltaApplies`, `TypeCorrect`, `IndInvHolds`, `ImplementsHistory` | number of members and revisions, text of any length, window of `delta` |

The properties are seldom inductive alone; what carries them:

- *Chat.* The relation of messages in flight to the peers' state: an OK in
  flight means its sender has the text on disk, a text in flight has an author,
  and a reported answer means that the member is gone from the queue entry.
  On top of it the answers about a text are counted: one for a mid the cache
  holds, one for every time it was forgotten (`AnswersCounted`).
- *Downloads.* A file that nothing else has touched holds its own chunks and no
  more than it has; the position and every request and answer that still
  counts are at most at its end, so no seek leaves a hole; `dl_finish` is only
  armed when all of it is there.
  Requests and answers in flight are counted as sets of copies (`Copies`, which
  are finite): a step that sends one or arms a timer for one has used up
  another, or was started by hand or by a timeout (`Steady`).
- *Mail.* First of the replay alone, by induction over the letters (in the form
  of the least letter outside a set): its rule is that of the last control
  letter in force (`ReplayRule`), and two replays agree up to the first control
  letter that one of them misses (`RowsAgree`, `DenialNeedsMiss`). Then of the
  peers: a letter on a delete list has a header, no letter of the owner is
  denied, an author's letters are posted in their order, and the rule in force
  is that of a stored control letter. A replay finds that letter or a later one
  in force, unless that letter itself is deleted or older than 31 days.
- *Session.* `i2p_end` finds the socket that belongs to the state, so a restart
  is always pending; whatever ends the session also leaves `ready`. What streams
  see of it (`Seen`) is then followed step by step: no step of `I2pSession`
  makes a move that `I2pStreams` does not allow for, and every one that leaves it
  off is one in which `i2p_end` runs. What is proved of streams does not rest on
  a session that is too well-behaved.
- *Streams.* Each handler is first shown to keep variables and channels together
  (`SocksKept`) and then, by what it does to the timers, `ConnectEnds`: an
  `i2p_end` takes the sockets and leaves their timers, which can only add a
  close. A message leaves the queue in the step that writes or loses it.
- *Peering.* `check_peers` opens a request for everybody it asks without closing
  another (`PingStarts`), and eviction does not exceed what came in
  (`PutBounded`).
- *Node.* A session under way has a timeout that is due before the end of its
  search (`InTime`), a search that has not begun nothing that closes it
  (`NotYet`), and only a confirmed STORE has a timer that forgets it
  (`ForgetsDone`); a check that is
  due later than the last pass by the throttle cannot be dropped.
- *Records.* Appending to a file leaves what a reader has met where it was, and
  adds at most the records that begin at its end, which only a reader who was not
  stuck behind a torn head gets to (`Stuck`). What a save still has to write is
  therefore new to every reader, or out of every reader's reach; and a bare key
  that comes to be seen is the last record anybody meets.
- *Delta.* Line by line of the old text: the commands so far, applied, with the
  old text copied up to where `delta` is in it, read as the new text up to where
  it is in that (`Reads`); and each later line is found where the piece that
  covers it has it, with at least as much in common as is left of that piece,
  or else behind it (`Right`). This needs lines that do not repeat and keep their
  order: without, the pieces overlap in the new text (`docs_repeat`). The
  induction over lines takes the form of the least line outside a set.
- *Documents.* At every member and in every message on its way a revision comes
  with those it is built on, as its receiver will have it (`Rooted`, `Safe`): who
  asks for revisions has what the others are built on, and who tells what he has
  does not lose it. Every window shows the text of its revision (`Looked`), which
  is the same wherever it is rebuilt (`Reading`). With `DeltaApplies` a save of an
  orderly edit reads as typed.

Every safety invariant and every refinement that a run checks is a theorem.
Only model-checked are the liveness properties, as the prover has no ENABLED:
`EveryMemberGetsIt`, `Completes`, `BodyFollowsHeader`, `RuleReachesMembers`,
`Recovers`, `Converges`, `GoesOut`, `AllEnds`, `EditsReachAll`.

## Plan

Done, in this order: `GroupChat` with `ChatDelivery`, `Download`, `GroupMail`,
`I2pSession`, `I2pStreams`, `Peering`; `Directory` and `Presence` on a clock
and as one `Node`; `RecordStore` with `KeyStore`; `Documents` with `DocHistory`;
the proofs of all of them; the session that streams see as that of `I2pSession`.

Left:

1. An abstract specification of the transport (a message is sent, then gone or
   out) that `I2pStreams` implements, and `closest_in_buckets` beneath
   `Directory`.
2. Personal mail as an instance of `GroupMail`'s stores without rules; the
   messages (`m` files) of a document, which travel as its revisions do.

## Not modelled

- *TCP transport*: used only when no transport is loaded; the program always
  loads `i2p.tcl`.
- *Voice*: a prototype. The dialogue its comments describe (DOWN, BACK) is sent
  in parts only, and its devices are callbacks of a C library. `I2pSession` has
  the voice session as far as it steers the main one.
- *SYNC* of group chat: `gchat_history_ids` sorts texts with `lsort -integer`,
  which always raises an error, so no SYNC gets further. ARC, GRS and RENEW
  refresh addresses.
- *`sc_get_sources`*: its searches ask nobody new. *`iter_bin`* upgrades old
  files at a start, nothing else runs then.
- *Documents*: the `m` records, drawing the page, and moving the window with the
  epoch of a revision.
- *Stack machine and flowcharts*: interpreters without interleavings, failures
  or files. *Offline exchange*: files carried by hand.
- *Interface, drawing, logging, encodings, options, external programs.* Cards
  and keys are taken as they are: a message comes from whom it names, while the
  address it comes from need not be what the receiver expects. Clock
  differences between peers are not modelled; letters have one order of epochs.
- *Vendored libraries* (`src/contrib`): Tcl, Tk and other third-party code.
  They are almost all of the repository's lines.
