# Verification of goblin-base-server

TLA+ modules, TLC runs and TLAPS proofs for the server in `src/`: a game backend
in Node.js in which many processes share MongoDB and Redis. Nearly everything
that can go wrong in it happens between two callbacks: the processes keep no
common memory, every shared step is a Redis script or a MongoDB command, and
anything may interleave between two of them.

`PROJECT.json` lists components, runs, mutants, theorems, hazards, findings and,
per definition, the source lines it models. This file explains them.

## 1. Inventory

| part | state it keeps | operations | talks to |
|---|---|---|---|
| **resource locker** `generalUtils/opResourceLocker.js`, `lua/resourcesLock/*` | Redis `lk:<name>`, `lkq:<key>`; per process `bustlerBuffer`, `lockWaitings` | `getLock`, `returnLock`, message handler of `rs-lk`, three timers | cloud functions, atomic acts, profiles |
| **atomic acts** `features/atomic/atomicActs.js` | MongoDB `atomicacts` (an act and its progress `st`), key `refreshac` | `createAnAct`, `checkAtomicActs`, `atomicActsLoop` | locker, profiles, records, receipts, battle journal |
| **cloud functions** `features/cloudFunctions/*` | sources in memory, per call: locked ids, nodes read and set | run a function: lock, read, set, persist | locker, atomic acts, every feature through its API |
| **accounts, profiles, battle journal** `features/accountsAndProfiles/*` | MongoDB accounts (`pid`, `npid`), profiles, entries; the mark `unlinkedTtlIndex` | get, create, link, unlink, write; removal of unlinked profiles | sessions, locker, atomic acts, cloud functions |
| **leaderboards** `features/leaderboards/*` | MongoDB records, sorted sets `rc:<segment>` | post, read, refresh, remove | acts, matchmaking (ratings) |
| **matchmaking** `features/matchmaking/*` | Redis `qplr:`, `sq:`, `grmb:`, `grooms`; per process `longPollingConnections` | search, stop, pick, accept, wait, decline, drop, check | rooms (bookings), sessions |
| **realtime rooms** `features/realtimePvp/*` | Redis pairs, message queues, quotas; per process `wsConnections` | enter, place, exchange messages, pause, lose, surrender, autodefeat | matchmaking, cloud functions (handlers of messages) |
| **sessions** `webMiddleware/sessionKeeper.js`, `requesOrderValidation.js`, `hmacValidation.js` | Redis session hash, `sexp` lock, request counter, indexes by account and human id | get, flush, unlock, kill | every request |
| **background refresher, maintenance** `webMiddleware/bgRefresher.js`, `maintenanceManager.js` | timestamps in Redis, flags per process | four jobs in turn, run by requests | acts, leaderboards, profiles |
| **chats** `features/chats/*` | Redis messages with reference counts, buckets of inboxes; a registry of polls | post, list, fetch, subscribe | sessions |
| **simple PvE** `features/pve/simplePve.js` | Redis battle model and debt key, MongoDB battles | begin, act, finalise | cloud functions |
| **tickets** `features/metaFeatures/tickets.js` | MongoDB tickets, their time-to-live index | send, list, confirm, reject, discharge, dismiss, release | profiles, sessions |
| **social networks and purchases** `features/socialNetworksAndInapps/*` | MongoDB purchases of VK and OK, receipts; two sequences | take orders, list, consume, validate | external services |
| web routing, persistence, operative subsystem, utilities, configuration | connections, collections, the sequence counter, `runMediator` jobs | plumbing | all |

What is hard in it, by part, and the property that says it is right:

* **Locker.** Replies, wake-ups and timers of one call race; a wake-up can
  overtake the reply that parks the call; a lock can expire under its holder. Right
  means: locks that may still be trusted exclude each other, a late return frees
  nobody else's lock, nobody waits while he holds, a parked call is woken, a caller
  hears one outcome and does hear it.
* **Atomic acts.** Several processes carry on the same act from copies of different
  age, each may fail or die between any two writes, and the loop locks nobody. Right
  means: the recorded progress never runs ahead of the stores, an act is deleted only
  when all of it was applied, whoever reads under a lock reads what is current, no
  write is lost, every act ends.
* **Matchmaking.** Chains of scripts of several players interleave, each with the
  time read at its start; the clean-up of one player's request removes entries of
  others; messages answer polls that have been replaced. Right means: matched
  players have each other, a booking belongs to the entry that names it, the queue
  neither loses who searches nor gives away who does not, a player is never booked
  with somebody he did not accept.
* **Rooms.** Requests of two players, timeouts, a surrender and the end of a game cross;
  seven scripts take a pair's keys apart and some stop half-way; every process hears
  of an end. Messages are handled by whatever process takes the queue, and again when
  it is too slow. Right means: a battle starts from what both players gave, has one end,
  a key leads to no battle of strangers, free places are free, and the model is made of
  every move once and in order.
* **Sessions.** Requests of one session run at once; a flush comes after a kill; counters
  are advanced before they are compared. Right means: a removed session stays dead, an
  account has one session, one number accepts one request.
* **Accounts and profiles.** Creation, links and removal are chains of reads and writes
  of two collections that cross and end half-way; profiles are written by several kinds of
  requests that read first. Right means: a player's profile stays with his account and is
  not removed, no write is made from what another has replaced.
* **PvE, tickets, purchases.** Steps persisted one after the other with a death or a second
  request between: a battle finalised once, a ticket that ends in one way, an order with
  one number.
* **Chats.** Reference counts that must reach zero.

## 2. Plan

Order: what other parts rely on first, then the largest protocols.

1. `ResourceLocker`, `LeaseService` and their proofs - **done**.
2. `AtomicActs` over the lease service, and proofs - **done**.
3. `Matchmaking` with its registry of polls, `MatchService` that it implements - **done**.
4. `GameRoom` (life of a pair) and `RoomMessages` (its message queue) - **done**.
5. `Sessions`, `Accounts`, `ProfileWrites` (over the lease service), `Tickets`,
   `SimplePve`, `Purchases`, checked together in `MCServices` - **done**.
6. Proofs for these, for `AtomicActs` under its locks, and for the wake-ups of
   the locker: every safety property of the passing runs is a theorem - **done**.
7. The connections of a room: opening, pausing, the late close of an old socket.
8. The refresh of leaderboard records and its repair of a record that Redis misses; the
   inboxes of the chats and their reference counts.
9. Proofs for 7 and 8 when they are there.

## 3. Modules

| module | models | extends / instances |
|---|---|---|
| `LeaseService` | what the locker promises: leases taken as a whole, disjoint, kept while trusted | |
| `ResourceLocker` | the locker: both scripts, the channel, the tables and timers of the processes | refines `LeaseService` |
| `ResourceLockerProofs` | proofs | `ResourceLocker`, TLAPS |
| `AtomicActs` | acts, cloud functions, getProfile, the loop | takes its locks from `LeaseService` |
| `AtomicActsProofs` | proofs: progress, stores, visits | `AtomicActs`, TLAPS |
| `ActLocksProofs` | proofs: what the locks do for acts | `AtomicActsProofs` |
| `MatchService` | what matchmaking promises players: opponents for each other, places for both, an end for both | |
| `Matchmaking` | queue, match, booking, requests and polls | refines `MatchService` |
| `GameRoom` | pairs of a room: place, payload, ready, start, every way to end | |
| `RoomMessages` | the moves of one playing pair and the workers that handle them | |
| `Sessions` | logins, request order, index by account, flush, kill mark, expiry | |
| `Accounts` | accounts, profiles, links, removal of unlinked profiles | |
| `ProfileWrites` | writers of one profile | takes its locks from `LeaseService` |
| `Tickets`, `SimplePve`, `Purchases` | the features of these names | |
| `MatchmakingProofs`, `GameRoomProofs` | proofs | the module each is named after, TLAPS |
| `AccountsProofs` | proofs: sessions, accounts, writes of a profile | `Sessions`, `Accounts`, `ProfileWrites`, TLAPS |
| `FeaturesProofs` | proofs | `Tickets`, `Purchases`, `SimplePve`, `RoomMessages`, TLAPS |
| `MCResourceLocker`, `MCAtomicActs`, `MCMatchmaking`, `MCGameRoom` | constants for TLC | |
| `MCServices` | constants for TLC of the last seven features, one of them at work per behaviour | `RoomMessages` and the modules below it |
| `ServicesProofs` | proofs: what is proved of each feature holds of that composition | `MCServices`, `AccountsProofs`, `FeaturesProofs` |

### 3.1 ResourceLocker

A *call* is one `getLock` with its `returnLock`; its lock key is the call itself (the
code draws a random key). Redis is `lk` (key and time-to-live of each name), `lkq`
(which keys wait behind a key, as counts: a list is only ever read as a whole) and
`lkqTtl`. A process is a part of the calls (`WorkerOf`) with the entries of
`bustlerBuffer` and `lockWaitings` and their running timers. `wire` is the command a
call has sent or the reply on its way back, so a script and the callback that handles
its reply are two steps; `caller` is what the code that called `getLock` was told.

One action per callback: `GetLock` (78-131), `RedisGet` (the script: all or nothing,
else push the key behind each holder), `OnGranted`, `OnError`, `OnRefused`,
`OnRefusedRung` (the wake-up came first: ask again), `BustlerDies` and `WaitingDies`
(timers), `Deliver` (the message handler for a list of keys), `ReturnRotted`,
`ReturnLock`, `RedisReturn`, `OnReturned`; and the environment: `RedisGetFails`,
`RedisReturnFails`, `MissMessage` (a subscriber that reconnects), `Crash`, `Tick`.
`Tick` counts down all times-to-live and timers together; timers may also be late
unless `Prompt`. `age` is the time since the call read its `now`.

### 3.2 AtomicActs

*Jobs* are runs of cloud functions (`Codes`), of getProfile (`Visits`) and the loop
(`Loopers`). An act is its id (`_id`s of MongoDB grow with creation), `body` says which
players have a part in which of the four stages, `st` how far each player is. A
profile and a record are the id of the act or direct write that wrote them last; `done` is
the set of parts that were applied. A job holds copies (`copy`) of acts and, while it
executes one, the progress it has made since (`cs`, the code's changed states).

A step of a job is one command to a store: `Fetch`, `SaveStates` (doPersist of `st`),
`ProfileSet`, `RecordSet` with the later `RecordPush` to Redis, `DocumentAdd` (receipts,
journal), `NextStage`, `FinishAct`; `BeginCode`, `CheckOther` (checkForAtomicActs of
another player), `Commit` (store the act and execute it), `WriteOnly` (one player, no
act), `EndCode`; `BeginVisit`; `LoopStart`, `LoopPage`, `LoopUnlock`. `TakeLock` and `ReturnLock` are the
lease service's `Take` and `Lapse`. `Fail`, `Crash`, `RotLock` (a lock expires under a living
job), `Expire` and `Restart` are what goes wrong, at most `MaxFaults` times.

The loop locks the name `Cursor` only: `atomicActs.js:305` passes its callback to `find`
and is handed a cursor (finding `acts_unlocked`).

Abstractions: the cloud function `mutateProfile` run on other profiles (405-426) is
left out; reading and bulk-writing records is one step; removal of a record is not told
apart from setting it; the order of players within a stage is any; a loop whose page
is empty ends at once; `Aged` (acts older than 60 s, where a lock lives 7.5 s) is "the
creator's lock is trusted no more"; the comparison of `LAST_FROM` in the unlock script
is always true, so the loop always recomputes its range.

### 3.3 Matchmaking

Redis is `qplr`, `sq`, `grmb` and the score `free` of the best room. Times are absolute:
every request keeps the `now` it read first. Request number *r* has *r* as the
booking key it may generate. A request is at `refresh`, `check` or `op` (the script it will
run next), `answer` (the final reply is on its way), `wait` (an open poll) or `over`; `open`,
`timer` and `ear` say that its response is unsent, its timer runs and its close
listener is there. `lp` is `longPollingConnections`, `mail` the channel `mm-pub`.

`Ask` registers or refuses a poll; `Refresh` is `refreshStats.lua` with `ProcessKey` for the
caller and at most one scanned key (`refreshStatsBatchSize` is 1), including its abort
when an entry lacks the fields of its booking; `CheckInQueue` with `Fresh` and `Clear` is
`checkInQueue.lua`; `SearchRefused`, `SearchForOpponent`, `StopSearching`, `PickOpponent`, `Drop`, `Accept`,
`Decline` are the scripts of those names; `Answer`, `Deliver`, `ColdResponse`, `Close` end polls, each
with the side effects of `_callback`, which deletes the player's registration whichever
request it is of. `EnterRoom`, `StayInRoom`, `LeaveRoom` and `SetOccupation` are the scripts run
by rooms. `torn` is a ghost: some match was ended for one of its players only, which
`dropAllMatchmakingData.lua`, `clear_stuff` of `checkInQueue.lua`, the bot branch of
`acceptMatch.lua:18` and a battle that ends for one player all do.

Abstractions: one web process; ratings, ranges and win rates decide only which of the
waiting are candidates, so any set of them may be; fewer than ten stale names stand
before a candidate (the scripts look at ten); one room; the remembered opponent
(`mmrem`) and the answer's wording are left out, and so are calls from cloud functions, which
use the same chains with a callback instead of a socket. Which of several places in a
room's life ends a battle is left to the room's module.

### 3.4 GameRoom

`room` is the room's Redis: `pair`, the indexes `pinx` (by booking key) and `pidnx` (by
player), the way in `pgoto`, the quotas and the occupation. A pair is named by the key of the
player who was placed first. The scripts are operators on that record
(`PlacePlayerInRoom`, `SetPayloadIn`, `SetReadyIn`, `AbandonPairGameplay`, `DoSurrender`,
`GameOverIn`, `Refreshed` for `refreshStats.lua`), so that a script that throws half-way leaves
what it did: `EndPair` and `Lost` say where a missing index makes the name of the next key
fail to concatenate. `req` is the HTTP request of a key between its scripts (under its lock
`hloc`, hence one per key): `ReleaseBooking` goes through refresh, entry and place;
`AskPayload` and `AskReady` through refresh and their script; whoever is ready last goes on to
`DoInitGameplayModel`, which starts the pair or abandons it. `mail` is what each process has
yet to handle of `gr-pub`; `WriteAutoDefeat` redeems the quota, `closing` is the
`pvpAutoCloseHandler` that then runs. `entry` and `booked` are the matchmaking's side.

Abstractions: ages of a pair are fresh, idle (past the time of its stage) or long; a scan
of `refreshStats` may do any one of its four clean-ups or none (its batches); payloads
are there or not; `GameOver` is the end of `completeQueueMessage` in one step with the
handler's result. Not here: connections, pauses, datagrams.

A player may have two live pairs: the release of a booking that was slow is overtaken by his
next search and battle. What the indexes by key still promise is `KeyLeadsToItsBattle`.

Kept as the code has it: the bot of a battle has the profile of a real player, so that
placing a player against it deletes the pair which that profile's owner plays in, and the
message that ends the battle tells both; a battle against a bot may start without a payload;
`setReady` at stage 3 sends its caller on to make the model once more, which `setGameplayModel`
then refuses to all but one.

### 3.5 RoomMessages

`pair` holds the counters of both senders (`tur`: counted in, `turx`: processed), the model as
the sequence of moves it was made of, and the mark `qupd` of the worker that has the
head; `pq` is the queue. A sender counts (`CheckMessageSequenceAndIncrement`), then pushes, and
the push may fail: the number is then spent and the pair stalls at the gap. A worker fetches the
head, reads the model, runs the handlers and completes or fails; `MarkLapses` is
`timeToProcessMessageMs`. `completeQueueMessage` compares the mark with a time that no later mark
fails, so only the message's number protects the queue from a late worker: a late worker may
overwrite a newer model, and `failQueueMessage` pops whatever is the head. `late` marks runs in
which a mark lapsed under a worker.

### 3.6 Sessions

`sess` are the hashes; one that a late `hset` made anew has no platform and is let in by nobody.
A login replaces the session of the same identifier, `IndexSessionWithAid` removes the account's
other one, `GetSession` counts the request (or obeys the kill mark), `CheckCurrentRequest`
compares, and the request then flushes, unlocks, marks, destroys or dies. `sexp` is not in the
model: `getUnicornSession.lua` lets a request pass as long as the key lives, so it excludes nobody.
Not modelled: `pingSession`, the index by human id (the same script), the limit on the number of
players, tokens and signatures.

### 3.7 Accounts

`account` (pid, npid, social id), `profile` in insertion order with the mark `due`, the sequence
`humanId`, a session per account, and `task` per request: its stage and what it has read. `CreateProfile`
.. `FlushNewProfile` and the seven steps of a link are the callbacks of the source in their order; the
functions for VK, OK and FB are copies of each other and share the steps. The refresher reads a page,
looks up its accounts (`refresh.named`: whose profiles those accounts name) and removes what has none;
`raced` are the profiles that came to be linked between the two. Kept as the code has it: the mark is in seconds and
compared with milliseconds (a marked profile is due at once); the page stops at the number of the
*oldest* document; an account without `npid` makes `doc.npid.equals` throw unless its `pid`
settles the comparison; `updateLinked` unmarks one profile of several; a linked profile that existed before
keeps its mark; `UpdateAccountPid` asks for nothing and overwrites. Abstractions: one refresher at
a time, whose batch holds every profile.

### 3.8 ProfileWrites

A profile is the number of writes it reflects. `DoSetProfile` replaces all of it, `DoUpdateProfile` and
`DoUpdateProfileJP` change what is there, functions (`RunCloudFunction`, of another player, or inside
`GetProfile`) read (`ReadNode`), think, and write what they read plus their own. Locks are those of
`LeaseService`; `unfenced` marks that somebody wrote on a lapsed lease. `caller` is the session: none, or
without or with the human id that the writers ask for.

### 3.9 Tickets, SimplePve, Purchases

`Tickets`: the collection by `tid`; every answer is one conditional write on what a listing showed some
time ago; `told` is what was answered about each. Confirming and rejecting by a social id answers success
even when nothing was written (`raw.n` is never there): that answer is left out of `told`.

`SimplePve`: the model `me` and the debt `meDebt`; requests read the model, run functions and overwrite it.
`crossed` marks runs in which two requests overlapped or a finaliser did not unload: the code keeps neither
from finalising a battle twice.

`Purchases`: purchases by order, the two sequences, receipts; `TryToPersistPurchase` is the upsert, whose
loser throws (`response.result.upserted.length`) and is never answered. A store receipt is looked up and
kept in separate steps with a unique index that includes the player: two players may both be told it is valid.

## 4. Runs

All runs use two workers; times are of a small machine.

| run | question | bounds | result |
|---|---|---|---|
| `locker_prompt` | nobody holds while waiting, no wake-up is lost | 3 calls, 2 names, 2 processes, lock 4, wait 2; nothing fails or is late | holds, 2.75 M states |
| `locker_faults` | exclusion, returns, one callback, lease service, every call answered | 2 calls, 2 names, 2 processes, lock 2, wait 1; errors, lost messages, deaths, late replies | holds, 238 k states |
| `acts_faults` | the safety of acts | 2 functions, 1 visit, 2 players, 2 ids, acts with all four stages, 1 fault | holds, 1.7 M states |
| `acts_loop` | acts with the loop | 2 functions, the loop, 1 fault | holds, 654 k states |
| `acts_live` | every act ends | 1 function, 1 visit, the loop, 2 faults, fairness | holds, 114 k states |
| `acts_stale` | is any update lost? | 2 functions, 1 visit, no fault | violated: finding |
| `acts_unlocked` | does only the holder of a lock write? | 2 functions, the loop, 1 error | violated: finding |
| `match_pair` | the safety of matches, bookings and the queue | 2 players, 5 requests of eight kinds, clock 2, booking 2, other times 1, 1 place, errors | holds, 2.4 M states |
| `match_triangle` | are players booked only with each other? | 3 players, 7 requests, no expiry, no error | violated: finding |
| `match_polls` | has a player one waiting poll? | 1 player, 3 searches, 2 at a time | violated: finding |
| `room_bot` | the safety of pairs | 3 players; battles of ann and bob, of ann and a bot with bob's profile, of ann and carl; 2 processes, 2 places, 9 requests (a booking counts as 3), errors, silence, lost entries | holds, 2.0 M states |
| `services` | `RoomMessages`, `Tickets`, `Sessions`, `SimplePve`, `Accounts`, `ProfileWrites`, `Purchases`, one per behaviour | 2 players, handlers or workers; 2 messages each, 2 tickets, 2 logins with 3 identifiers of 2 accounts, 2 battles of 2 moves, 1 native and 1 social account with 3 profile numbers, 2 writes, 2 orders and 1 receipt | holds, 970 k states |

Why the bounds are enough to be interesting. Two calls suffice for every pair
property of the locker; the third adds a queue of two behind a holder and wake-ups of
several keys in one message. A lock time of 2 with a wait of 1 lets a lock rot before and
after its reply and timers fire on both sides of it. Two acts can overlap in both
players and in any stage; one fault at any step leaves an act half done with its
progress saved or not, and the second job meets it; two faults hit a repair as well. In
`match_pair` five requests are what a match needs from both searches to both
acceptances and one more: a check, a new search or anybody's clean-up; with a clock of 2 the
entry of a battle goes silent before its booking expires, and both happen. In
`room_bot` nine requests are a whole battle of two players (its booking and six requests), or a battle
against the bot with a second one booked and begun while the first is at any of its stages;
both processes hear of every end. In `services` two of everything let any request cross
any other at any step; three profile numbers are one created, one linked and one that
crosses either, and are also what requests that end half-way draw from; the crossing of
links is explored for VK only because the three networks have the same steps. In the runs about matches `Asks`
lists what the r-th request may be, so that runs are about stories that meet and
not about all words over eight kinds; the interleaving of their scripts, messages,
timers and expiries is free. `KeepAlive` is FALSE in the runs about matches:
listeners of answered polls then go with their socket.

Every property of a passing run has a mutant: a plausible slip of the code (a dropped
comparison, a clean-up that forgets one side, a timer that forgets its entry) under
which TLC finds the property violated in the same run. The mutants are in the modules,
each before the definition it replaces.

CHECK_DEADLOCK is FALSE where calls and requests are finite and the system may
rightly come to rest.

### Fairness

`locker_faults` assumes that Redis executes what it received, that replies, messages and due
timers are handled and that time passes. It does **not** assume that a caller returns its
lock, that messages arrive (a missed one is a step of its own) or that processes
survive. `acts_live` assumes weak fairness of `Progress` for each job: a job that began goes on,
a dead process is restarted, a lock of a dead process expires, and the loop is run again and
again. The last holds only under traffic: `bgRefresher.js` runs in the middleware of
requests, one of four jobs per request in turn. Faults are finite there; an act whose
write fails every time blocks the acts behind it, in the code too.

### Findings

* `acts_stale`: getProfile reads the unfinished acts and only then waits for the lock;
  it may apply an act that is finished and overwritten.
* `acts_unlocked`: the background loop locks no player.
* `match_triangle`: after a drop the first opponent can be booked with a player who accepted
  somebody else, because `acceptMatch.lua` never asks whom its opponent has.
* `match_polls`: refusing a concurrent poll unregisters the poll it protects.

Each is quoted with its lines in `PROJECT.json`.

## 5. Proofs

For all values of the constants that satisfy the named assumptions: any number of
players, processes, requests, names and any times. Every safety property of a passing
run is a theorem, in the form in which the run checks it. TLC checked each inductive invariant on a
run before it was proved. A property is seldom inductive as it stands; what follows says
for each what had to be added, which is why the property holds.

### Locker: `ResourceLockerProofs`

Assumes finitely many names, `WorkerOf` total, times natural numbers.

* `MutualExclusion`: nothing in it ties what a process believes to what Redis has. `IInv` adds
  it: a lock that is trusted, or whose '1' is on the way, is in Redis under its own key, for
  every name it wants, with at least `LockTime - age` left; a request on the wire is at most as
  old as the time since its `now`; a call that asks or waits has no key at all. Exclusion
  follows, because a name has one key. The same invariant gives `NoHoldAndWait`,
  `OnlyOwnerFrees`, `CalledBackOnce` and the refinement `LeaseSpec`: `RedisGet` that grants is
  `Take`; `Tick`, `RedisReturn` and the ends of trust are `Lapse`; all else stutters.
* `NoLostWakeup` is proved (`WakeupIsNotLost`) where replies and timers are in time (`Prompt`) and no
  process misses a message, with errors, deaths and callers that never return allowed. `WakeInv`
  starts at the refusal in Redis, not at the parked call: from there until it is rung, the key is in
  a list or its message is in the inbox. The list is given `LockTime` when it is made and must
  outlive the reply (up to `WaitTime`) and the wait (`WaitTime`), hence the hypothesis
  `2 * WaitTime - 1 <= LockTime`: 7.5 s and 2 s in `opResourceLocker.js:12`. It is tight: with
  `LockTime = WaitTime = 2` TLC finds a lost wake-up, with 3 it finds none.

### Acts: `AtomicActsProofs`, `ActLocksProofs`

Assume the job sets disjoint and `Self` total.

* `StateIsDone` and `DeletedIsDone` speak of `st` and `acts`, but every write comes from some
  job's copy, so the invariant must speak of copies: `StoredSound` (what `st` counts is in `done`),
  `CopiesSound` (so is what any copy or changed state counts), `StageIdle`, `PushSound`,
  `StageReached` (a job past a stage has applied it for its targets), `VisitOwes` (a visit still has on
  its list every act that owes something to its player), `Unissued` (ids not given out have no
  trace) and `TypeOK`. Progress in `done` is never undone, which is what lets stale copies
  be harmless here - and not for `NoUpdateLost`, which the code violates.
* `LockInv`: a job at work holds what it asked for and writes to players among them only. With
  `SeenIsCurrent` (no act waits to change a player whom a function has looked at, but those it
  has in hand) it gives `CheckedIsCurrent`, under any faults but a lock that expires under
  a living job.
* `OnlyHolderWrites` has the hypothesis `Loopers = {}`, which the finding `acts_unlocked` shows to be
  needed: the loop takes no player's lock.
* `LeaderboardAgrees` and `FunctionsSerialise` rest on `Faultless`: while nothing has failed, an act that is
  there has its creator at work on it, under its locks, so the loop finds no act that is old enough.
  The first adds that a record between MongoDB and Redis belongs to a player its job holds. The second
  adds that an act in work is newer than the profiles it is to change, and has the
  hypothesis `Visits = {}`: the finding `acts_stale` is a visit that breaks the order.

### Matchmaking: `MatchmakingProofs`

Assumes at least one segment, times of at least 1, `Asks` of players and kinds.

* `StoreSound` says what each stat promises of its entry (who was found has an opponent, who
  searches or is matched has a key), that no two entries have one key, and that who searches is in
  the queue of his segment (`SearchingIsQueued`). Keys differ because they are *minted*: a key is the number of a
  request that is past its last script (`KeysMinted`), so the key a search is about to use is nobody's.
* Under `~torn`, `Matched`: matched entries name each other at stages that fit, an entry in a battle names
  a booking that is for it, and every booking is named. None of the three is inductive alone: a
  booking is removed by its entry's key, an entry by its opponent's name. `MutualPair` and `BookingIsNamed` follow.
* Nearly all scripts only take away. `LeavingKeepsMatches` says once what is enough: players leave together
  with their opponents and with just their own bookings. `LookKeeps` and the lemmas about
  `ProcessKey` and `Refresh` show that the clean-ups do that, or set `torn`.
* `NobodyIsTaken`, an action property: of all scripts only a search makes an entry found, and it chooses
  after it has struck the names that no longer search (`Gone`); every other script leaves an entry, takes it
  away, or moves it on, which `NoNewMatch` sums up.
* `BookedForBoth` (`MatchIsBookedForBoth`) is what the code does promise where `match_triangle` finds `BookedTogether`
  violated: unless the match is torn, a place of two players is booked for both in one step, and each had the other as
  his opponent. Only `acceptMatch.lua` books one (`RefreshBooksNothing`, `EndsBookNothing`, `AcceptBooksBoth`), and `Matched` makes
  the opponent whom it books the mutual one. So a triangle needs a match that was ended for one of its players only.
* `ServiceSpec` (`MatchmakingServes`) is the refinement of `MatchService`, which knows neither queue nor stat nor key: two free
  players become each other's opponents (`searchForOpponent`), both get a place in one step (`acceptMatch`), matches end
  for all their players (everything else), and nothing is promised any more from the first step that tears a match. The opponent is read
  from the entry, the place from the bookings. As a step that tears nothing has `Matched` on both of its sides, who has a place can be
  read from his entry too (`PlaceIsInEntry`), and it is enough to look at what the step does to each entry: if each is
  afterwards in no match or in the one it was in (`Remains`), matches have ended, and for both, since what is left is
  mutual (`RemainingIsPart`); else it is `PairingIsMatch` or `BookingIsPlace`. No run has it as a property: it
  doubles the time of `match_pair`, the largest run, whose invariants are what its proof rests on.

### Rooms: `GameRoomProofs`, and `RoomMessages` in `FeaturesProofs`

Assume `Of` and `Foe` total, battles sets of keys.

* The scripts are operators on a room, and so are the invariants: `RoomSound` is what every script keeps
  (`PairSound`: what ready and a stage promise; `KeySound`: a key that leads to another's pair waits
  in it for its opponent; `GotoSound`: a way in is for him whom the pair waits for; `PlacesSound`). Two
  contracts cover the seven scripts that take apart: `Shrunk` (indexes, ways in and pairs go, nothing is counted)
  and `Erased` (places are counted and ends offered for what went).
* `StartedByBoth` speaks of stages 3 and 4 and is not inductive: `PairSound` adds what the mark of one who is
  ready promises while the other is not yet. `KeyLeadsToItsBattle` is `KeySound`: the seven scripts may
  leave indexes of pairs that are gone, but none that leads elsewhere.
* `OneEndPerBattle` counts ends that are still *owed*: a battle that plays, an end offered as a quota and
  a handler under way are one each, and with the ends already written they never outnumber the
  starts (`EndsSound`). Each step that ends something only moves a battle from one of these to the next.
* `NeverOverbooked`: occupation plus live pairs, which is not the capacity (a recount may
  lag), but never more.
* `MovesInOrder` needs that the queues hold each sender's messages in order and the counted before the
  pushed (`QueuesInOrder`), that any model a worker carries is in order too (`WorkIsSound`), since a late
  worker may write it back, and, until one is late, `InTime`: one worker has the head, the queue is ahead of
  what was processed, and the model holds just the processed messages.

### Sessions: `AccountsProofs`

`EndedStaysEnded` holds because a unicorn that was not given is unknown and a removed one is never given a
platform again (`NotGivenIsUnknown`); `OneSessionPerAccount` because a session that knows its account, or is about
to, is the one its account's index points to (`IndexIsCurrent`); `NoOrderTwice` because the counter of a usable session
is at or past every number under comparison and no two requests compare the same one (`OrdersAreCounted`).

### Profiles: `AccountsProofs`

* `NoWriteLost` uses of the locker only what `LeaseService` promises: who trusts his lease holds the
  human id, at most one does, and a function that has read then read what the profile still is.
  It is stated for runs without a write on a lapsed lease (`unfenced`), which nothing in the code prevents.
* `ProfileIsKept`: documents have the numbers 1 to n without a gap and no more numbers were drawn than
  will be stored (`DocumentsAreNumbered`); an account with a `npid` has its own profile there, and with only a `pid`
  there (`OwnIsNamed`); a link or unlink under way carries that profile in its task (`TasksAreSound`);
  and the refresher takes all profiles that accounts named when it looked for owned (`LookIsSound`).
  What was linked after it looked and removed is in `raced`.

### Tickets, purchases, PvE: `FeaturesProofs`

`OneOutcome` and `AnswerIsKept`: of a stored ticket just the one answer it holds was told, and of an identifier not stored
yet nothing was (`ToldIsAnswered`, `TidsAreFresh`). `PaidOnce`: what was told of an order is its stored number, and what was
consumed or validated is what the marks say. `DebtIsOfUnfinished` holds for any crossing;
`BattleIsPlayedOnce` only under `~crossed`, where it needs that requests come one by one with the model they read
still current (`Uncrossed`).

### The features together: `ServicesProofs`

`ServicesAreSeparate`: a behaviour of `ServicesSpec` is a behaviour of each of the seven specifications, because the
feature at work takes its own steps and the others rest. So every theorem about a feature is one about the
composition that TLC explores (`ServicesTyping`, `ServicesAreSafe`), and what TLC finds of it is what is proved.

### Only model-checked

* Liveness (`EveryCallAnswered`, `EveryActEnds`): fairness and ENABLED are outside the prover.
* `NoUpdateLost`, `OnlyHolderWrites` with the loop, `BookedTogether` and `OnePoll` are claims that the code violates.

## 6. Not modelled

* The connections of a room (`gameplayRoom.js:1445-2166` but for the counting and pushing of
  messages): opening and closing of sockets, pauses, pings, datagrams, resending.
* Leaderboards beyond the records that acts write; chats; the maintenance flag.
* The parts of modelled components that only read (battle journal, public profiles, item lists), and
  the talk with networks and stores: its outcome is a choice.
* Web routing, persistence, opClients, statistics and configuration are plumbing: a Redis script and
  a single MongoDB command are taken as atomic, and that is all the models need of them.

The ghosts `late`, `crossed`, `raced` and `unfenced` mark runs in which the
code itself gives up a promise (a worker outlived its mark, requests crossed where nothing keeps them
apart, a profile was linked under the removal, a lease lapsed). The properties are stated for the other
runs, or, where something weaker still holds, for all; the hazards in `PROJECT.json` say which.
