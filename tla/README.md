# A TLA+ model of callover-server

callover-server is a NestJS backend for audio and video calls: clients sign in
over HTTP, connect a socket.io socket, see who is online, and signal calls
through it. The server keeps the state of running calls and of presence in
Redis, everything permanent in MongoDB, and ends calls that nobody ends with
delayed jobs of a BullMQ queue.

The code is a set of `async` handlers. Each `await` is a place where every other
handler may run, in this process or in another one, and no service guards a write
by what it read before: there is no `WATCH`, no script, no MongoDB transaction. The
project therefore models handlers command by command. An action is one Redis, MongoDB
or queue command together with the checks made on its answer.

## 1. The system

| component (src/src/modules/...) | state it keeps | operations |
|---|---|---|
| `calls` CallsService | Redis `calls:user:<id>` (a record per user in a call), `calls:room:<id>:users`, `calls:room:<id>:pending-ice:<user>` | initiateCall, acceptCall, declineCall, cancelCall, endCall, endCallByRoom, timeoutRingingCall, addPendingIceCandidate, queries |
| `call-lifecycle` | none | what happens around each of them: job, log, notification, message |
| `call-timeouts`, `-processor`, `-notifier` | BullMQ queue `call-timeouts` | ringing timeout (90 s), maximum duration (6 h) |
| `call-logs` | MongoDB `call-logs` | writePair; paging by cursor; delete all of a user |
| `call-coordinator`, `call-permissions` | none | permission check, sockets of the peer, ICE |
| `signaling` gateway | socket.io rooms | offer, answer, decline, cancel, end, ice-candidate |
| `presence` | Redis `presence:socket:<id>:user`, `presence:user:<id>:sockets` (sorted by expiry), `presence:online_users` | markSocketOnline, refreshSocket, markSocketOffline, cleanup, queries |
| `presence-subsciptions` | Redis `presence_subscriptions:watchers:<id>` and its mirror `watched:<id>` | subscribe, refresh, unsubscribe, two cleanups |
| `realtime` gateway, guard, event bus | a refresh timer per socket | connect, disconnect, presence.subscribe |
| `sessions`, `auth`, `users`, `account` | MongoDB `sessions`, `users` | sign in, register, log out, change password, update profile, delete account |
| `contacts` | MongoDB `contacts` | create, update, remove, page by cursor |
| `notifications` | MongoDB `notifications` | create, list, mark as read, count unread |
| `push-tokens` | MongoDB `push-tokens` | save, invalidate, delete |

How they meet: a socket's message reaches SignalingGateway, which asks
CallCoordinatorService, which checks permissions and calls CallLifecycleService; that
one changes the records through CallsService and then schedules a job or writes the
log. Due jobs enter CallLifecycleService through CallTimeoutsProcessor. Delivery asks
PresenceService for the sockets of a user, and asking cleans up expired ones.
RealtimeGateway feeds PresenceService and tells watchers. Call records and presence
do not depend on each other: a disconnect does not end a call (that code is commented
out), so their models are separate.

What is hard in it:

- **Interleaving and atomicity.** All checks of CallsService are read-then-write with
  an await between. So are the last-socket test of PresenceService, the subscriptions,
  password change against sign-in, and account deletion against everything.
- **Crashes and retries.** Records are deleted before the log is written. BullMQ runs a
  job again if its worker died, and keeps a failed one without running it again.
- **Time.** Every Redis key expires on its own, independently of the keys it belongs
  with. Jobs are never cancelled and may be late.
- **Ordering.** `handleDisconnect` may be handled while `handleConnection` is still
  waiting; ICE candidates arrive after the call has ended.

`PROJECT.json` lists the hazards one by one, at the line where each bites, with the
property that covers it.

What makes each component correct:

- calls: a user is in one call at a time; the two records of a call agree; an end
  removes everything of the call and nothing else; a call gets one outcome, logged
  once for each side, truthfully; every call ends and is logged.
- presence: the index of online users follows the sockets; a connected socket counts, a
  gone one stops counting.
- subscriptions: the two mirrored sets do not come apart; a change that is announced
  reaches who watches; who is gone watches nobody.
- accounts: a session exists only for a password that is valid; a deleted user leaves
  nothing; names are unique; a push token stays with its present owner.
- feeds: paging shows everything that is there all the time, and once; a client that
  asks for what changed has it all in the end; a block lasts until it is lifted.

## 2. Modules

| module | models | role |
|---|---|---|
| `Calls` | CallsService, CallLifecycleService, the queue, writePair, the missed-call notification | core, 25 actions |
| `CallSession` | what calls promise, without handlers, Redis or jobs | abstract specification |
| `CallsRefinement` | which handlers are isolated (`IsolatedSpec`); the mapping of `Calls` to `CallSession` | refinement |
| `CallsProofs`, `MissedCallsProofs` | theorems about `Calls` | TLAPS |
| `IsolatedCallsProofs` | theorems about `IsolatedSpec`, the refinement among them | TLAPS |
| `MCCalls` | symmetry for the runs | model checking |
| `Presence` | PresenceService and the life of a connection in RealtimeGateway | second component |
| `PresenceProofs` | theorems about `Presence` | TLAPS |
| `MCPresence` | who owns the sockets | model checking |
| `PresenceSubscriptions` | PresenceSubscriptionsService, the messages of RealtimeGateway to watchers, presence.subscribe | third component |
| `PresenceSubscriptionsProofs` | theorems about it | TLAPS |
| `MCPresenceSubscriptions` | who owns the sockets, who watches whom | model checking |
| `Accounts` | AuthService, SessionsService, UsersService, AccountsService, PushTokensService, AuthGuard, their controllers | fourth component |
| `AccountsProofs` | theorems about it | TLAPS |
| `MCAccounts` | which operations meet in one behaviour | model checking |
| `Paging` | documents with an _id and a date, sorting, limit, cursors | shared by the next three |
| `Contacts` | ContactsService, CallPermissionsService, a client with a copy | list read by a cursor on updatedAt |
| `CallLogs` | CallLogsService, a client that pages | list read by a cursor on startedAt |
| `Notifications` | NotificationsService and its controller, a client that pages | list read by offset |
| `Feeds` | the three lists, one to a behaviour | composition |
| `FeedsProofs` | theorems about the lists | TLAPS |
| `NotificationsProofs` | theorem about reading by offset | TLAPS |
| `MCFeeds` | requests and dates for each list | model checking |

### Calls

State and code correspond as follows.

| variable | code |
|---|---|
| `call[u]` | the JSON at `calls:user:<u>`: direction, user, peer, room, status |
| `members[r]` | the set `calls:room:<r>:users` |
| `ice` | which `pending-ice` lists exist |
| `jobs[n][r]` | the job with jobId `ringing-timeout-<r>` or `max-duration-<r>` |
| `callLogs` | the documents of `call-logs`, a bag, for no index makes them unique |
| `notifications` | `missed_call` notifications, a set, for the unique index does |
| `handler[h]` | the local variables and the position of an `async` function in progress |
| `session[r]` | history only: no guard reads it, but that a room id is fresh |

A client event takes a free slot and becomes a frame; `at` names the next command. The
five ways of ending a call share their code path (`ReadPeerCall`, `ReadRoomUsers`,
`DeleteRoom`, `WriteCallLog`) as they do in the source, and differ in the first read and
in `Endable` and `Outcome`. `WriteCallLog` is taken twice, in either order, because
`writePair` uses `Promise.all`.

BullMQ is modelled from the options the code passes: `jobId` (adding an id that exists
does nothing), `removeOnComplete`, `removeOnFail: 1000` (a failed job is kept), no
`attempts` (a failed job is not run again), the default concurrency of one per worker,
the default of one rerun of a stalled job. A job is due at any time after it was
added: there is no clock, so no property rests on 90 s or 6 h. A job stalls when its worker
dies; that a living worker keeps the lock of its job is BullMQ's promise and assumed here.
When one insert of `writePair`'s `Promise.all` fails, the handler goes on without the other,
which is then not done: one that lands later still is not modelled.

Left out: payloads (SDP, candidates, call type), dates and socket ids, which are copied
and never tested; the permission check, which only drops offers; delivery.

### CallSession

A call is started between two users no other call holds, is answered or not, gets
one outcome, which frees both, and only that outcome is logged, once per user. The
server may forget (`Lapse`): Redis keys expire. `CallsRefinement` reads the phase off
`session`, the users held off `call`, and the log off `callLogs`.

The code keeps this promise only while no two handlers are busy with one user, and
nothing in it sees to that: no lock, no `WATCH`. `Involved(f)` says whom a handler has read
something of that it will still rely on (from its first read until it writes or deletes the
records; scheduling, logging and notifying afterwards involve nobody), `Isolated` that no two
handlers share such a user, and `IsolatedSpec` is `Calls` without the steps that would break it.
Handlers of different calls still overlap, as do the log and the jobs of one call with the start
of the next; keys expire, commands fail, workers die and jobs are run again as in `Spec`. One
handler at a time is a special case. `Isolated` is an assumption about the environment: the
violation runs below show what happens without it.

### Presence

A task per socket for each of connect, refresh and disconnect, and one per user for the
cleanup that queries do first. `due` holds the entries whose score has passed.
`Kept(s)` is the one assumption about time: a socket whose refresh timer is set and
whose key exists is refreshed (120 s) before anything of it expires (600 s).

Bounds: a socket id is used for one connection; at most one cleanup per user at a time;
a process does not die inside a cleanup (`ServerDies` stops the tasks of a socket).
`earlyDisconnect` in `Faults` allows `handleDisconnect` while `handleConnection` waits.

### PresenceSubscriptions

| variable | code |
|---|---|
| `watchers`, `watched` | the members of all `watchers:<id>` and `watched:<id>` keys, as pairs <<subscriber, watched user>> |
| `due` | the entries whose score has passed |
| `present` | the members of all `presence:user:<id>:sockets` keys |
| `link`, `ticking` | the transport of a socket; whether its interval is set |
| `at`, `found`, `seen` | position and local variables of each task of a socket |
| `told` | history: what a client was last told of a user, or "unsure" |
| `scenario` | which sockets leave, return and die in this behaviour (a bound) |

A task (connect, disconnect, refresh, subscribe) takes one Redis command or MULTI per
action, those of PresenceService included: `Register` is the MULTI of `markSocketOnline`;
`Disconnect`, `Count` and `Wipe` are `zRem`, `zCard` and the second MULTI of `markSocketOffline`,
between which another socket of the user may register, be wiped with the set, and be brought back by
its refresh (`Rejoin`), which tells nobody. `Lapse`, followed by the same `Count` and `Wipe`,
is the cleanup of a socket that expired. `DropDue`, the second half of the cleanup of entries,
removes what its read found, renewed or not. `Unsubscribe` deletes the whole watched key but only
the watchers entries that were listed, which is why the mirror holds in one direction only; an
entry left in the watchers key alone is renewed by nobody, and falls due although its subscriber
is connected (`EntryFallsDue`).

`NoChangeMissed` is about changes the code announces. A client becomes "unsure", and may stay
wrong in the real program, in five cases: its message or reply was out of date as it left; its entry was taken out
(it expired, or a late `unsubscribe` met a client connected again); the user came or went without a
message (its last socket expired, or a refresh brought back a set that was deleted); the client's own
socket was wiped and is not back; the process that was to send the message died. The second to fourth
are behaviours of the code that no message repairs; `hazards` lists them.

Bounds: a socket's name is used again only when nothing of the last connection is left that could
be taken for the next one's; the MULTI of `markSocketOnline` and setting the interval are one step, as are the
read and the MULTI of `Lapse`; a cleanup that finds nothing is one step with the list after it; the
sockets of all watchers are looked up and told in one step; a socket's client subscribes to one
list of users (`Wants`). The index of online users and the expiry of PresenceService's keys one
by one are in Presence.

### Accounts

| variable | code |
|---|---|
| `account`, `username`, `email`, `password` | the documents of `users` |
| `session` | the documents of `sessions`, with the password that opened each (history) |
| `owner` | `userId` in the document of each push token |
| `documents` | who has documents in `call-logs`, `contacts`, `notifications` |
| `req` | a request in progress: the command it is at and what it carries |
| `ops` | the operations that meet in this behaviour (a bound) |
| `late`, `cut` | history: written after the purge of its user; a password change that stopped before it revoked |

One action per MongoDB command. `deleteAccount` begins five deletes at once: `Purge` takes any
that is left, `PurgeFails` fails one, after which the others go on and the user stays.
AuthGuard asks for a session and not for its user, so a session that outlives its
user still lets requests in. `InsertDocument` stands for every handler that looks first and writes later;
`WriteDocument` asks nothing of the owner, who may be gone: it is enough that he was made.

The documents of a user are those the delete's filter finds. `createCallLog` stores `new Types.ObjectId(userId)`
and `deleteMany({ userId })` passes a string; the two are equal because the schema declares an ObjectId and
mongoose casts the filter by it. That is taken as given, like the rest of mongoose.

### Feeds

`Paging` has the documents' order and what a page and its cursor are, and the clock, whose
dates several documents may share. `Contacts` separates the date of a write from the
write: mongoose sets `updatedAt` in the Node process. The client keeps what it has read
(`copy`), the latest date it has got to (`mark`, which it sends as changedAfter) and the cursor;
it may give up and start over. `CallLogs` inserts at any date up to now, because a call is
logged when it ends and sorted by its start. `Notifications` takes the two queries of one request in
either order and lets a tie in `createdAt` be sorted in either way each time; the client reads all, those read or
those unread. The total and the page are two reads: one that comes into the list after the first and before the second
(a new notification; in the list of those read, one marked meanwhile) takes a place on the page but is not in the total,
and `get` ends the reading with the oldest unseen. `shaken` marks these readings, and those of the unread list
during which something was marked as read, and `NoneSkipped` speaks of the others. Every query has
one user's id in its filter, so the collections are those of one user; other filters and search only narrow
a list. `part` says which list a behaviour is about: they share no data.

## 3. Runs

All runs disable the deadlock check, because the systems may stop: nobody has to send
an event, room ids run out, a socket id is used once.

Bounds by name: `Users`, `Rooms` (calls a behaviour can start, enforced by `RoomLeft`),
`Requests` and `JobWorkers` (slots for handlers in progress: their number is the number
of handlers that may overlap; when the two sets are equal a slot serves both), `Events`
(which client events arrive), `Faults`; `Sockets` for Presence and its subscriptions;
`Ids`, `Sids`, `Scenarios` (operations that meet), `Requests` for Accounts; `Ids`, `ContactIds`,
`MaxTime`, `Clock` (the last date, for each list), `Limit`, `Bodies` (what updates ask for) for Feeds.

| run | bounds | shows |
|---|---|---|
| `calls_two_calls` | 2 users, 2 rooms, 2 overlapping handlers; offers, answers, ICE candidates, jobs; no faults | `TypeOK`; `PartiesAgree`: everything stored under a room names its two users, each on the right side; `ActiveIffAnswered`: both records agree on whether the call was answered |
| `calls_faults` | 2 users, 1 room, 2 overlapping handlers; expiry, failed commands, dying workers | `CompletedWasAnswered`, `MissedCallOnce`, `NotifiedIsLogged`, `EndLeavesNothing`; `EndedNeverRings`: whatever an overlapping handler writes or leaves, no record of a call that ended is ringing |
| `calls_isolated` | 3 users, 2 rooms, one client handler and one worker, never busy with one user at once; expiry | `AcceptedOnce`, `LoggedOnce`, `NoDoubleBooking`, `JobEndsItsRoom`, `DeletesOnlyItsCall`, and `ImplementsCallSession` |
| `calls_fair` | 2 users, 1 room, one client handler and one worker; dying workers | `EveryCallFreed`, `EveryCallLogged` |
| `presence` | 1 user, 2 sockets, dying servers | `TypeOK`, `IndexComplete`, `IndexExact`, `ConnectedIsCounted`, `GoneIsNotCounted` |
| `presence_subscriptions` | 2 users with a socket each, one watches the other (and itself, as a client may ask); three scenarios: the watched user leaves, returns, dies; the watcher does; both leave and the watched user returns; no early disconnect, no slow handler | `TypeOK`; `Mirrored`: no entry in a watched key alone; `NoChangeMissed`: what a watcher was told is so or about to be told, but for the exceptions above; `GoneWatchNobody` |
| `accounts` | 2 users, 2 sessions, 2 overlapping requests, failing commands; three sets of operations | `TypeOK`, `UniqueUsers`, `OldPasswordOut`, `NothingLeftBehind`, `TokenOfAnotherKept` |
| `feeds` | contacts: 2 documents, 2 requests, 2 dates; call logs and notifications (all, read, unread): 3 documents, 3 dates; pages of one | `TypeOK`, `SyncMissesNothing`, `LogsShownOnce`, `NoneSkipped`, `BlockStays` |

Why the bounds are enough: a race of this code is between two handlers, about the two
records of one call or about a user's records of two calls, so two slots and two rooms
contain it; a third user matters for double booking only, which is where it is. With
two users, the second call of a pair may have the roles swapped. The slots of a run differ in nothing
but their name and are symmetric. The events of `calls_two_calls`, `calls_faults` and `calls_isolated`
leave out `decline` and `cancel`, to keep them small: both end an unanswered call along the path of the ringing timeout,
which is there. `calls_two_calls` leaves out `end` too, whose path is that of the maximum-duration job after its
second read; two ends of one call still overlap there (a late ringing timeout and the maximum duration).
All three are in `calls_fair` and in two violation runs, and in every theorem.
In Presence the sockets of one user interact; users meet only in the index, of which
each task touches its own member.
An entry of PresenceSubscriptions is about two users, and every race is between two
handlers that touch one entry; both roles are there. A second socket of the watched user is the same name connected
again while the disconnect of the first is still between its commands, so each order of a `DEL` and a
`markSocketOnline` is there with one name. The faults left out (an early disconnect, a handler slower than
its entries) are in the theorems. In Accounts a race is between two
requests about one user or one name; the three scenarios put together the operations that touch the same
documents (names; sessions and passwords; what a deletion purges). Pages of one document
make a cursor or an offset out of every document. Three documents are one
before, one at and one behind it; two contacts are enough because an update moves one past the
other, and the theorems below hold for any number. Contacts are
checked with a client that reads and, in another part, with requests that block and unblock.

Isolated handlers are not what production guarantees, and `calls_isolated` does not claim it: it
separates what the checks of CallsService establish when no two handlers are busy with one user (an
outcome per call, no stealing, jobs and expiry included) from what overlapping breaks. That an ended call
comes back is not asked there: isolation removes the only step that could do it.
Failing commands and dying workers are not in that run, to keep it small; the theorems about
`IsolatedSpec` include them.
What breaks is shown by the runs that expect a violation.

| run | what the trace does |
|---|---|
| `calls_double_booking` | two offers to one user: both look, both write |
| `calls_wrong_room` | `endCallByRoom` compares the room of one read and ends the call of the next |
| `calls_resurrected` | the call is declined between `acceptCall`'s reads and its writes, and comes back |
| `presence_ghost` | the disconnect is handled while `handleConnection` waits; the socket is registered afterwards and refreshed for good |

Each contradicts a unit test's title in the repository, which tests the same behaviour
one call at a time; `findings` in `PROJECT.json` quotes the lines.

`AcceptedOnce`, `LoggedOnce` and `DeletesOnlyItsCall` also fail when handlers of one user overlap
(two devices answer; two ends; a late `DEL`): same cause, listed as hazards. `EndedNeverRings` says how far
`calls_resurrected` goes: what comes back is an answered call, never one that rings, so no timeout
reports it as missed.

### Fairness

`Calls!Fairness`: weak fairness of each handler in progress (a command is answered and
Node resumes the function) and of the dispatch of each due job (BullMQ polls). No client
event is fair. `calls_fair` has one client slot: with two, an answer whose write
is delayed until after the maximum-duration job ran leaves a call that no job ends; in
this untimed model six hours may pass inside one handler. `EveryCallLogged` names its
exception: a worker that died between deleting and logging has lost the entry.

`Presence!Fairness`: weak fairness of each task (which includes the timer's tick) and of
time for entries that nobody refreshes. Nobody has to connect, disconnect or ask.
The index is exact only up to a question: `IndexExact` names who may still hold a user
in it.

`PresenceSubscriptions!Fairness`: weak fairness of the handlers of each socket, and of time for
each entry that no socket of its subscriber renews. Nobody has to connect, disconnect or
subscribe. Accounts and Feeds have no fairness: their properties are safety.

## 4. Proofs

TLAPS proves the following for all values of the constants (any number of users, rooms,
slots, sockets, every combination of faults, early disconnects included).

| theorem | states |
|---|---|
| `TypeCorrect` | `Spec => []TypeOK` (Calls) |
| `PartiesAlwaysAgree` | `Spec => []PartiesAgree` |
| `ActiveMeansAnswered` | `Spec => []ActiveIffAnswered` |
| `CompletedMeansAnswered` | `Spec => []CompletedWasAnswered` |
| `DeletionIsComplete` | `Spec => EndLeavesNothing`, an action property |
| `MissedOnlyOnce`, `NotifiedCallsAreLogged` | `Spec => []MissedCallOnce`, `Spec => []NotifiedIsLogged` |
| `NoEndedCallRings` | `Spec => []EndedNeverRings` |
| `OneOutcomeLogged` | `IsolatedSpec => []LoggedOnce` |
| `OtherCallsAreLeftAlone` | `IsolatedSpec => DeletesOnlyItsCall`, an action property |
| `CallsKeepThePromise` | `IsolatedSpec => ImplementsCallSession`: the refinement |
| `PresenceTypeCorrect`, `IndexIsComplete`, `IndexIsExact` | the invariants of Presence |
| `SubscriptionsTypeCorrect`, `KeysStayMirrored`, `WatchersAreTold` | `TypeOK`, `Mirrored`, `NoChangeMissed` of PresenceSubscriptions |
| `AccountsTypeCorrect`, `NamesStayUnique`, `OldPasswordEnds`, `DeletionLeavesNothing` | `TypeOK`, `UniqueUsers`, `OldPasswordOut`, `NothingLeftBehind` of Accounts |
| `TokenKept` | `Spec => TokenOfAnotherKept`, an action property of Accounts |
| `FeedsTypeCorrect`, `SyncIsComplete`, `LogsArePagedOnce` | `TypeOK`, `SyncMissesNothing`, `LogsShownOnce` of Feeds |
| `BlocksStay` | `Spec => BlockStays`, an action property of Feeds |
| `NothingSkipped` | `Spec => []NoneSkipped` (Feeds, the notifications) |

Assumed: the `ASSUME` of each module (the sets of events and faults contain what
they should; `None` is no member of the sets it stands beside; ids and dates are numbers and a page has
room for one document), nothing else.

**Calls.** None of the invariants is inductive: what a handler writes it read some time
ago. The strengthening `IInv == TypeOK /\ Store /\ FramesOK /\ JobsHeld` adds what holds of a
copy in a frame however old it is (`FramesOK`): it describes the call of its room, its
status was legal when read, and what has become of the room since can only have made it
out of date in one direction (answered, never unanswered). So `WriteAccepted` writes a pair of the same
room whose call counts as answered from then on, and no old copy says `active` of a
call that was not. `JobsHeld` says that the job a worker runs is in the queue as active, and
no second worker runs it. There is a
lemma per action; `NextStep` collects them, `Invariance` closes the induction.
`EndLeavesNothing` follows from `MembersAgree` and `RecordsAgree` for the frame that
deletes: whoever holds a record of the room is one of its two users, and
`UsersToDelete` always contains both. For the same reason `EndedNeverRings` is kept by the end itself, and after it
nothing writes a ringing record of the room: `CreateCall` takes a fresh one, and an answer, however
late, writes `active` (`EndedStep`).

`MissedCallOnce` and `NotifiedIsLogged` (`MissedCallsProofs`) rest on `IInv` and on `MInv`. A job that died
while it reported a missed call runs again, so one run's order of writes proves nothing by itself.
What the next run finds in Redis does: once the records were deleted in order to
report the room, no record of it rings (`RingsUnreported`; `CreateCall` rings only in a new
room, `WriteAccepted` writes `active`), and a run without a ringing record stops at its check.
`TimeoutOK` carries this through the run: what rang when it was read belongs to a room not yet reported,
and `JobsHeld` excludes a second run that would report it meanwhile; then it says which sides
are logged and which are not.

The theorems about isolated handlers (`IsolatedCallsProofs`) add `SInv` to `IInv`, which `Spec` itself does
not keep: a copy in a frame is not only a former state of its record but the present one, unless that has
expired (`UpToDate`), and the call of its room is open, active exactly if the copy says so. A frame stays
up to date while nobody else writes the records of the users it is involved with (`StaysUpToDate`);
a step writes only such records of its own handler, so `Isolated` is all that is needed (`MovesOn`).
`RoomsOK` says that a record exists of open calls only, which is why a handler that finds one
ends a call nobody has ended; `LogsOK` ties each log document to the one outcome of its room, and two
frames that log are about different rooms. `DeleteRoomEffect`, `CreateCallEffect`, `WriteAcceptedEffect` describe what
the three writing steps do; the invariance proof and the refinement both cite them.

The refinement maps each action: `CreateCall` starts a call, `WriteAccepted` answers it, `DeleteRoom`
finishes it (that its outcome is legal for the phase is `UpToDate`: a ringing timeout found
it ringing), `Expire` of a record lets it lapse, each half of `WriteCallLog` records the outcome of one
side, and every other step changes nothing that the mapping reads.

**Presence.** `IInv` is `TypeOK`, `IndexComplete` and `IndexExact` together: a set is only
emptied in the same MULTI that removes the user from the index, or by a task that goes on
to `count`, and a task between `count` and `forget` is what the exception of `IndexExact`
names. A step may end such a task without removing the user only if it saw a socket, or
if its server died. `Ordered`, a second invariant, says that a connection's tasks follow its life
(nothing disconnects that never connected, a connect task never counts), so that
connecting or disconnecting overwrites no task that was about to look.

**PresenceSubscriptions.** `Mirrored` alone is not inductive: a refresh and `unsubscribe` act on
entries read before. `RewritesItsOwn` says that these belong to the handler's user, so that
`Unsubscribe`, which deletes every entry of that user from `watched`, leaves none whose
watchers entry it removes. `NoChangeMissed` needs `KnownIsWatched`: who knows something of a user is connected and
listed, so any announcement that starts from then on finds it, and it is still among those an announcement under
way has listed or has become unsure since. `WillTell` asks for a task whose message is the true one,
so a step that changes `State(present, u)` must either be the start of such a task (`Register`, `Disconnect`,
`Wipe` of a disconnect) or make those unsure who were told otherwise (`UnannouncedStep`, for `Rejoin`, `Lapse` and the
`Wipe` of a cleanup); other users are not concerned (`OtherUsers`). What is delicate is the set that is no longer empty
when it is deleted: then somebody has registered between `Count` and `Wipe`, "online" was on its way, and `Wipe` makes its own
"offline" the true message.

**Accounts.** `IInv` adds to the properties: what a request carries belongs to its step
(`Frames`); live sessions, and emails, belong to users that were made; and `PurgedForGood`, which says of
a deletion under way what `NothingLeftBehind` says of a finished one, collection by
collection: what a deletion has ticked off is empty but for the late writes. `UniqueUsers` and `OldPasswordOut`
are then inductive.

**Feeds.** First come pages: of finitely many documents in a total order one is last
(`LastExists`), a page is closed downwards, and the cursor is the last document of its page,
with everything before it on the page (`CursorEndsPage`). For the call log the invariant says that the client has been
shown all that stands up to its cursor and nothing behind it (`ShownUpToCursor`); a new document has
a new id, so it is neither shown nor expected. For contacts `PassedIsCopied` says that what the client
will not ask for again (`Passed`, by its mark or by its cursor) it has, or it was overtaken, and
`DatesAreRead` that mark and cursor are dates it has really read: a write with a date that is passed is
then always noticed as overtaken. `BlockStays` needs that an update clears only
fields its request named and that a caller has one contact at most (the unique index).

**Notifications by offset.** `NoneSkipped` speaks of the end of the reading, so it needs what holds
on the way (`OffsetsInv`): what the client still has to see has at least as many newer
documents of its list in front of it as the offset says (`StandBehind`), and, once the page was read, as many as
the next offset. What comes into the list only increases the number; what expires is the oldest, behind all others
(`StandBehindKept`); marking as read changes no position in an unfiltered list (`StandBehindRewritten`) and adds to the list of
those read. The total and the page need not be of one moment; unless the reading is shaken, nothing came in between them
(`Counted`), so the list the page is taken from is no longer than the total (`LastPage`). A page has at most `Limit` documents, because
any two of them have different positions (`PageIsNotLonger`), and what is behind the offset and not on the page is behind the
next offset (`RestStandsBehindPage`). When the controller says that there is no next page, the number
of a skipped document would be at least the total, and so at least the size of the list it is in.

Only model-checked: the liveness properties, which are out of the prover's reach, as is anything
about ENABLED: `EveryCallFreed`, `EveryCallLogged`, `ConnectedIsCounted`, `GoneIsNotCounted`,
`GoneWatchNobody`. And three properties of `calls_isolated`: `AcceptedOnce`, `NoDoubleBooking` and `JobEndsItsRoom`, which
isolation reduces to the guards of one handler at a time and which the refinement (the first two) already
says. Every other invariant and action property of the passing runs is proved. The violation runs
are counterexamples, which need no proof.

## 5. Not modelled, and the plan

Not modelled: delivery of signaling messages (SignalingGateway and CallCoordinatorService send
them to whatever sockets PresenceService names, and keep nothing); that a connected
socket outlives its session (RealtimeAuthGuard drops its messages, nothing disconnects
it); the unread counter of notifications, which counts read ones too; operations without a caller
(`deleteSession`, `updateActivity`, `invalidateTokenForUser`, `createMutedCallNotification`).
Bootstrap, configuration, health check, HTTP error filter, validators and DTOs
have no state; the Redis client provider, the socket.io adapter and the Redis
stand-in of the unit tests are external, or a test double; e-mail verification has no
code beyond a flag.

Of Presence, PresenceSubscriptions has the sockets of each user with every step that changes them, and not the index of
online users, nor a socket's key apart from its membership: a refresh that finds the key expired is in Presence only. The deletion of
an account is not composed with Calls: `InsertDocument` stands for the log entry of a call
that ends after its user was deleted.

Next:

1. The hazards without a property (`PROJECT.json`, those with a note), if a clock for the expiry of keys
   against the delay of jobs can be afforded.
2. The composition of an account's deletion with a call under way.
