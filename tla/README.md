# wuzz-chat in TLA+

A verification project kept beside the wuzz-chat repository: the Go backend
(`src/backend`), the browser client (`src/frontend`) and the mobile client
(`src/mobile`) of a chat application with groups, forums, voice calls and
shared media. It holds TLA+ modules translated from the source, TLC
configurations that check small instances of them, and theorems that TLAPS
checks for every size: about the connection registry, about what becomes
of a sent message, about who hears a conversation, about the rows, pins and
receipts of messages, about media and their retention, about the arbiter of calls,
about the phone's connection and what it shows and stores, about an account's
devices, sessions and key, about blocks between users, about the jobs and drafts of
ended topics and the requests to join them, and about the streaks of the daily game.

Paths below are relative to `src/`; `hub.go`, `client.go` and `handler.go` are
in `backend/internal/ws/`, `sql.go`, `sql_group_store.go`, `user_store.go` and
`memory_store.go` in `backend/internal/store/`, `ws-client.ts` in
`frontend/lib/`, `CallContext.tsx`, `MessageContext.tsx` and `AuthContext.tsx` in
`mobile/src/context/`, `websocket.ts` in `mobile/src/services/`.

Contents: [the system](#the-system) · [modules and code](#modules-and-code) ·
[runs](#runs) · [what the runs show of the code](#what-the-runs-show-of-the-code) ·
[proofs](#proofs) · [what is not modelled](#what-is-not-modelled) ·
[plan](#plan) · [reproducing](#reproducing)

## The system

One or more backend processes ("nodes") share an SQL database, an object store
(R2) and a Redis broker. A user has up to `maxActiveDevices` devices, each with
a WebSocket to some node. A node keeps everything about its sockets in memory,
in one `ws.Hub` guarded by one mutex; nodes tell each other about broadcasts,
receipts and kicks over broker channels. HTTP handlers of the same processes
edit, delete, pin and forward messages, change memberships, log users in and
out. Background workers purge media, expire forums, and run AI jobs. A phone
keeps a copy of its conversations in SQLite and one socket, a browser keeps a
queue of what it has not seen confirmed.

| Component (module) | State | Operations | Talks to | What is hard | What makes it correct |
|---|---|---|---|---|---|
| Connection registry (`HubSessions`) | `clients`, `userClients`, `rooms`, presence rows | connect with quota and eviction, join a room, unregister, kick a user or device | each socket's goroutines, database, other nodes' kicks | eviction closes a socket 500 ms later while it keeps reading; unregistration goes by key, not by connection | registries agree, quota holds, nothing keeps a dead connection, a live one is registered |
| Message pipeline (`OutboundDelivery`) | the browser's outbound queue; per-node duplicate guard; rate windows; `messages` | send, reconnect, resend, ack, save, publish | browser ↔ hub ↔ database ↔ other nodes | broken sockets and crashes between any two steps, lost acks, resends to another node | nothing vanishes, broadcast once per node, confirmed means stored, everything settles |
| Reactions and receipts of the browser (`DurableFrames`) | the same queue | open a room, receive, click a reaction, reconnect | browser → hub → database | the frames are queued, never acknowledged, and replayed at each reconnection | "read" means seen, the reaction is the one clicked |
| Message rows (`MessageRow`) | one row: text, media, deleted, hidden-by list, reactions list | edit, delete for everyone or for oneself, react | HTTP handlers, WebSocket handlers | read and write are separate statements without a lock | an erased message stays erased, a hidden one hidden, reactions are the users' own |
| Pinned messages (`PinnedMessages`) | `pinned_messages` | pin, unpin, unpinning by deletion | HTTP handlers | look-up, count, drop, insert are four statements, two of which may fail unseen | no more pins beyond the limit than overlaps and unseen failures account for, none of an erased message |
| Message status (`MessageStatus`) | `messages.status` | save, forward, join, single and collective receipts | WebSocket and HTTP handlers | receipts late, out of order, collective | status moves forward only, "read" means opened |
| Voice calls (`CallSignaling`) | call session of each device, `activeCalls` of each node | place, accept, reject, hang up | devices ↔ hub ↔ other nodes | answers, rejections and hang-ups cross; several devices ring | one device wins, both ends agree, no ghost ringing |
| Membership and fan-out (`MembershipFanout`) | `conversation_members`, cache and rooms of each node | add, remove, join a room, send | HTTP handlers, hub, database, other nodes | check, cache fill and change interleave; topics depend on their group | outsiders hear nothing, members hear everything |
| Media lifecycle (`MediaLifecycle`) | message media columns, bucket, `media_purge_queue`, `upload_tickets` | upload, send, download, forward, delete, purge, drain, sweep | handlers, worker, bucket | every statement and storage call may fail, the process may stop in between | a retained message has its file, an expired one leaves no orphan, uploads end |
| Mobile timeline (`MobileTimeline`) | messages on screen, delayed write queue, SQLite, pending request | write, edit, delete, join, page back, restart | phone ↔ hub, REST | frames wait for the room's key and overtake each other; histories replace what is shown; optimistic changes are rolled back | once quiet, screen and disk show what the server has, and quiet always comes |
| Phone session and socket (`PhoneSocket`) | `ws`, state, timers and flags of the socket singleton; session of AuthContext | sign in, restart, log out, cancel, connect, late open and close | socket callbacks, timers, awaits of AuthContext | a close is reported after the client was reset for the next session | one connection, the session's own, ended by its own server message |
| Accounts (`AccountSessions`) | sessions, revocations, devices, active device, published key | log in with quota and kick, renew, log out, revoke, remove a device, publish a key | database, hub kicks | count and insert apart; renewal races revocation | quota, no session outlives its revocation, a key stands |
| Connections between users (`Friendship`) | the pair's row, friend cache of each node | request, accept, decline, unfriend, block, unblock | database | both sides at once; stale cache | a block ends by its owner's hand, the cache is right |
| End of a topic and AI memory (`ForumMemory`) | topic status and deadline, jobs, drafts, approved memories | expire, extend, enqueue, claim, draft, approve, edit, reject, delete | database, workers, model service | two-phase expiry; claimed jobs of a stopped worker; edits and deletions beside approvals | an ended topic of an enabled group gets its job, jobs end, what is published was reviewed |
| Join requests (`JoinRequests`) | `conversation_join_requests`, membership | apply, answer, invite, remove, purge at the topic's end | HTTP handlers | status read outside the transaction | the last answer is in force |
| Daily game (`DailyGame`) | attempts, streak row, time zone | start, submit, change the time zone | HTTP handlers, the clock | attempt and streak are saved apart; overlapping updates; dates that go back | the streak is the run of days played |
| Push, feed, tenants, device transfer, web and mobile UI, … | see [what is not modelled](#what-is-not-modelled) | | | | |

The complete list with its files is `components` in `PROJECT.json`; the
hazards, each at its line and with the properties that cover it, are `hazards`.

## Modules and code

Each component is one module that knows nothing of the others. `MC<Module>`
extends one and gives TLC its identities; five MC modules put several
components into one run: `MCBroadcast` (messages and calls, both through
`BroadcastRoom`), `MCMessages` (row, pins, status, browser frames),
`MCPeople` (fan-out, account, friends, game), `MCTopics` (memory, join requests)
and `MCPhone` (session, timeline). Their components share no state in the code
either, so a behaviour of such a run is about one *part*, chosen in the initial
state, and leaves the others as they began: the run checks each part
exhaustively and its interleavings with parts it cannot touch not at all.
`HubSessions` instantiates `SessionSlots` for refinement. The theorems are in modules
of their own, one for each component or for the components of a run:
`HubSessions_proofs`, `MembershipFanout_proofs`, `MediaLifecycle_proofs`,
`Broadcast_proofs` (`OutboundDelivery`, `CallSignaling`), `Messages_proofs`
(`MessageRow`, `MessageStatus`, `PinnedMessages`, `DurableFrames`), `People_proofs` (`AccountSessions`,
`Friendship`, `DailyGame`), `Topics_proofs` (`ForumMemory`, `JoinRequests`) and
`Phone_proofs` (`PhoneSocket`, `MobileTimeline`).

**`HubSessions`** (hub.go `Register`, `Unregister`, `JoinRoom`, kicks; handler.go
`ServeHTTP`; client.go `ReadPump`). One node, any connections. A connection's
goroutine is `pc`: `Upgrade` → `Register` → `PersistPresence` → reading, where
`ReadJoin` and `JoinRoom` are apart because authorization comes between the
frame and the critical section → `ReadFails` → `Unregister` → `DropPresence`.
Each critical section of `Hub.mu` is one action. The goroutines that close a
socket after a grace period are `closing` with `CloseKicked`; what the peer does
is `Disconnect`. `Register` has the three cases of the code: same device
reconnects, quota reached (oldest session of the user is evicted), otherwise.
A room entry sits at `sessionKey`, and, as in the code, leaving a room also
deletes the entry at the plain user id, which is the key of a session without
device id.

**`SessionSlots`** is what the registry promises: one session per device, at most
`MaxActiveDevices` sessions, and a session is pushed out only by its device's
successor or because all slots are taken. `HubSessions` implements it with
`registered <- {c : Registered(c)}`.

**`OutboundDelivery`** (ws-client.ts; client.go `onMessage`; hub.go
`IsDuplicateAndRecord`, `BroadcastRoom`). The browser: `Send`, `Open` (resends
the whole queue), `OpenFails`, `Break`, `Receive`; the server, for each socket:
`Read` (rate limit, guard), `BroadcastLocal`, `SaveMessage`, `Confirm`.
Environment: `WindowPasses`, `GuardForgets` (the guard's two minutes), `Crash`. A
socket keeps a number of its own, so the server can still be busy with the
frames of an older one. `SafeSend` on a full channel drops the frame.

**`DurableFrames`** (ws-client.ts; `frontend/app/chat/page.tsx`; client.go
`onReceipt`, `onJoin`, `onReaction`). The same queue for frames nobody
acknowledges. Here a socket carries frames at once or breaks after a prefix of
them; frames in flight are the subject of `OutboundDelivery`.

**`MessageRow`** (`EditMessage`, `DeleteMessage`, `ToggleReaction` of sql.go;
messaging/service.go). A request is `Begin` (SELECT and checks) and `Finish` (the
UPDATE of its own columns, with the lists it read before). `age` stands for the
one minute of deletion for everyone and the 15 minutes of editing.

**`PinnedMessages`** (`PinMessage`, `UnpinMessage`, `DeleteMessage` of sql.go), one
action per statement; the unique key of the table is in `PinInsert`. The `DELETE ...
IN (SELECT ... LIMIT 1)` is two: `PinPick` reads the oldest row from what is
committed, `PinDrop` deletes it if it is still there, and two requests may pick the
same one. A look-up that fails counts as not pinned; a `COUNT` or a `DELETE` that
fails is passed over and the `INSERT` goes on (`PinOverlooks`); the other failures
end the request (`PinStops`). `overlooked` counts the pins let in with nothing
dropped for them, until as many pins have gone.

**`MessageStatus`** (client.go, messaging/service.go, sql.go), one action per
statement or group of statements that no other writer can separate in effect:
`LookForPeer` computes the initial status ("delivered" if a reader is online, and
possibly if only the author is, whose own entry in the room can pass for the peer:
client.go:381), `Save` stores it later; `Forward`
stores and `ForwardBroadcast` stores again.

**`CallSignaling`** (CallContext.tsx; hub.go `BroadcastRoom`). Devices with their
screens, pending asynchronous offers and answers, and the uncancelled timers; the
hub with `Judge` (the arbiter under the lock), `FanOut` (after the lock) and
`FromCluster`. Connections and cluster channels are FIFO.

**`MembershipFanout`** (hub.go `getRoomMembers`, `broadcastLocal`,
`InvalidateRoomMembersCache`; group/service.go; `IsUserInConversation` and the
member statements of the stores). A broadcast is fetch, then deliver and fill; a
change is the row, then the announcement. A topic is a conversation with a
parent; access needs both memberships, the fan-out list only its own. Jobs and
cluster events carry the users who were entitled to the message when it was
sent; a removal takes the entitlement away, so that a user who left and came
back is owed only what was sent since.

**`MediaLifecycle`** (`purge_worker.go`, `media_purge_queue.go`,
`media_release.go`, `upload_tickets.go`, `ForwardMessage`, `DeleteMessage`). The
worker's cycle is purge, sweep, drain, with a step for each statement and
storage call, each of which may fail; `age` and `ticket` stand for the retention
and the 72 hours of a ticket.

**`MobileTimeline`** (MessageContext.tsx, messageStore.ts, ChatScreen.tsx,
sqliteStorage.ts, historyMerge.ts; for the server's half client.go, hub.go,
messaging/service.go). One conversation on one phone. Each frame the server sends
is handled in one step (`OnMessage`, `OnEdited`, `OnDeleted`, `OnReceipt`, `OnAck`,
`OnHistory`), or waits for the room's key (`held`) and is handled later, possibly
after younger frames. `Reconcile` is the merge of a history with the window,
`QueuePersist`/`Flush` the 300 ms of delayed writing, `AskOlder`, `Ask`,
`DeleteAnswered` the REST requests with their optimistic changes, `SendAudio` the
voice message that is uploaded first. `Restart` reads SQLite back. Abstracted:
the key is always found in the end (the retries of decryption are left out),
SQLite writes in the order of the requests, the suppression of a repeated last
message is part of the suppression by id, hydration is part of `Restart`.

**`PhoneSocket`** (websocket.ts; the steps of AuthContext.tsx around it). `net` is
the singleton with its sockets; a socket reports its close later, with the code
of whichever end closed it first. `Login`/`Started` and `RestoreFails` are the
sign-in before and after its awaits, `Logout`/`LoggedOut`,
`CancelKeyConflict`/`Cancelled` likewise. `OnClose` has the branches by close code;
the server never sends 4426 or a plain 4003, so these are left out.

**`AccountSessions`** (authz/service.go, device_handler.go, auth_handler.go,
handler.go, session_store.go, device_store.go, token_store.go, user_store.go).
One account. A request is a sequence of statements: a login counts
(`Login`), may kick (`KickForLogin`), creates its session (`IssueToken`) and
registers the device (`RegisterDevice`, whose failure is only logged); a renewal
checks, issues, retires the old token; `PublishKey` writes the key on what
`UpdatePublicKey` had read.

**`Friendship`** (connection/service.go, infra/sql_repository.go). Each operation
reads the row of the pair and decides; the write comes in a step of its own and
looks only at the row's id or the pair. `IsFriend`/`Fill` and the invalidations are
the friend cache of each node.

**`ForumMemory`** (group/service.go, ttl_worker.go, sql_group_store.go and its
`_extend` file, memory_store.go and its `_delete` and gate files,
memory_worker.go, processor.go, memory/service.go). `ListEnded` → `ExpireListed`
→ `CreateJob` is the TTL worker, `ClaimJob` → `Generate` → `CompleteJob`/`FailJob`
the job worker, `Approve`/`Publish`, `Edit`/`WriteEdit`, `Reject`,
`DeleteLooks`/`DeleteCommits` the review. `enabled` is what the gate of the deployment
(`MEMORY_ENABLED_GROUPS`) says of the topic's group: for others no job is made or
handed out. A deletion is a transaction of several statements, each of which reads
what is committed by then: `DeleteLooks` takes the artifacts and the published memory
it can see, `DeleteCommits` the draft, for whose row it may have waited, and the job.
If the draft was approved in between, its memory stays as an `Orphan`. A worker may
stop at any point (`Stops`), a job's insert or completion may fail. The language model
is the outcome of `Generate`.

**`JoinRequests`** (sql_group_store.go), on PostgreSQL: SQLite's `INSERT OR REPLACE`
gives a reopened request a new id.

**`DailyGame`** (game/service.go, streak.go, infra/sql_repository.go). `ApplySolve`
and `EffectiveStreak` are the pure rules of streak.go; `Submit`, `CompleteAttempt`,
`GetStreak`, `SaveStreak` the statements of a solved puzzle, `Fails` the failure
between them, `UpdateTimezone` the settings with their lock of a week.

Some variables record history for the properties and are written but never read
by the actions: `overflown`, `confirmed`, `refused`, `unsaved`, `abandoned`
(OutboundDelivery), `lost` (MessageRow, DailyGame), `pinCrossed`, `overlooked` (PinnedMessages), `crossed`
(ForumMemory), `joinCrossed` (JoinRequests), `took`, `rewritten`, `replayed` (DurableFrames), `cut`,
`late` (CallSignaling), `shared` (MediaLifecycle), `been`, `overheard`, `missed`,
`doubtful` and the entitlements (MembershipFanout), `excuse` (MobileTimeline),
`stray` (PhoneSocket), `shut`, `gone`, `kept`, `released`, `uncounted`
(AccountSessions), `pairDoubtful` (Friendship), `missed`, `early`, `unreported`,
`abandoned` (ForumMemory), `removed` (JoinRequests), `counted`, `turnedBack`
(DailyGame). They make the exceptions in the properties exact: a property names
the very overlap that breaks the promise, and TLC shows that nothing else does. Such a
property does not show that the race is harmless: the hazards in `PROJECT.json` say in
a note which race a property excuses and what it shows besides.

## Runs

All runs are exhaustive. Deadlock is not checked: every bounded instance stops
once its bounds are used up, and a registry whose sockets have all closed is at
rest. `PROJECT.json` gives for each property a mutant of the code that the
property's run catches.

| Run | Instance and why it is enough | Shows |
|---|---|---|
| `hub_sessions` | three connections of one user, two of the same device, quota 1, one room: a reconnect, a quota eviction and a late unregistration can all overlap | both registries agree; quota; a device's only connection stays registered and can be sent to; nothing is held after `Unregister`; rooms are left by nobody else's doing; refinement of `SessionSlots` |
| `hub_eviction_ends` | two connections, one without a device id (the two keys that collide), two rooms | an evicted connection ends and is held nowhere |
| `hub_live_registered` | three connections, two of one device | *violated*: finding 1 |
| `broadcast` | *messages*: two messages, queue, rate and buffer of one, two nodes, two faults among breaks, crashes and forgotten ids; saves may fail. *calls*: caller on one node, two devices of the callee on another, one call, two hang-ups, two rejections | a message leaves the queue only by a decision of the server or of the queue; each node broadcasts once; confirmed means stored, with two exact exceptions; every message settles. The first answer wins; both ends agree, and nothing rings for nobody, except after a signal let through behind the call's end |
| `messages` | *row*: two users, two overlapping requests. *pins*: three messages, limit 1, two requests, failures at will. *status*: three users, two rooms, two messages. *frames*: two messages, queue of four, two breaks, three acts of the user | the row shows what the requests made of it, but for three lost updates; the limit of pins is overrun by at most one per overlapping request and one per pin let in with nothing dropped, and an erased message is pinned only if a request was pinning it then or its unpinning failed; a status never goes back; "read" means a reader opened the room; what was seen becomes read; only replayed room receipts and reactions misreport |
| `media` | two messages that may share one file, three attempts, two failures, one crash, one forward | retained messages have their file unless forwarded, expired ones leave no orphan; uploads end |
| `media_forward` | the same without failures or sweep | *violated*: finding 2 |
| `people` | *fanout*: two users on two nodes, a group and a topic, two handlers, two changes, one message. *account*: three devices, quota 1, three tokens, four requests. *friends*: two users, two nodes, three rows. *game*: five days about the turn of a week, and either two changes of the time zone, a failure, or a solution too fast to count | only members hear, and every member hears except through a cache a change does not reach; who was turned out comes back only by a login; the quota is exceeded only by devices nobody counted; a key stands; a block sticks; the friend cache is right; the streak is the run of days |
| `topics` | *memory*: one topic, its group enabled or not, one TTL worker, one job worker, two requests, an extension, two jobs of two attempts (the second one's draft is neither edited nor deleted: it comes after a deletion of the first), an edit, one stop or failed statement. *joins*: three requests at a time, three rows | an ended topic of an enabled group gets its job and no other does; jobs and drafts agree; what is published is what was reviewed, but for the named races; topics end and jobs finish; the last answer to a join request is in force unless two crossed |
| `phone` | *session*: three sign-ins, five sockets, three mixes of logouts, cancellations, restarts, breaks, replacements, suspensions, repeated connects. *timeline*: two messages of the user's, three of the peer's, histories of two rows, eight mixes of events | one connection, the session's, ended by its own server message, and connected in the end; once quiet, screen and disk show what the server has but for the named races; quiet always comes |
| `phone_socket_own` | two sign-ins | *violated*: finding 3 |
| `block_lifted` | two users, one handler | *violated*: finding 4 |

Bounds. The environment is bounded by named constants: `MaxMsgs`, `MaxFaults`,
`MaxActs`, `MaxBreaks`, `MaxCalls`, `MaxHangUps`, `MaxRejects`, `MaxChanges`,
`MaxMessages`, `MaxCrashes`, `MaxForwards`, `MaxRequests`, `MaxTokens`, `MaxRows`,
`MaxJobs`, `MaxExtensions`, `MaxEdits`, `Sessions`, `SocketIds` (how many sockets
exist at once; identifiers are used again), `FirstDay`, `LastDay`. `Budgets`
(MobileTimeline, PhoneSocket, DailyGame) is a set of such bounds, one number for
each kind of event: the initial state picks one, so that each mix of events is
explored by itself where all together would be out of TLC's reach. `MaxQueue`,
`MaxAttempts`, `RateLimit`, `SendBuffer`, `MaxPins` (3 in the code, 1 here),
`MaxActiveDevices` (2 in the code, 1 here), `HistoryLimit` are the code's limits,
made small so that they are hit. Limits of the instances that matter: one call is
placed (with two, the stale timers of the first clear the second, see below),
`media` has one node (with two and the liveness property the state space is
beyond TLC), and of the memory's tasks there is one of each worker; with two
sweepers and two workers the safety properties held on 6.6 million states in a
run too long to be kept.

The request handlers of `people` are alike, and only safety is checked there, so
they are declared symmetric; no run with a liveness property has symmetry.

Fairness, all weak, and where the code justifies it:

- `HubSessions!FairSpec`: goroutines are scheduled (`Handler`) and `time.Sleep` in
  the closing goroutine returns (`CloseKicked`). Peers owe nothing: `ReadJoin`,
  `Upgrade` and `Disconnect` are not fair.
- `OutboundDelivery!FairSpec`: frames on an open socket arrive (`Receive`), the
  reconnect timer fires and opens a socket (`Open`), handlers run (`Serve`).
  `OpenFails` may still use up the attempts; that is the `link = "stopped"` case.
- `DurableFrames!FairFrames`: the reconnect timer fires (`Reopen`).
- `MediaLifecycle!FairSpec`: the hourly worker runs (`Cycle`), requests run to
  their end, and time passes (`RowAges`, `TicketAges`, `ComesDue`).
- `ForumMemory!FairSpec`: the workers poll as long as their node runs (`Sweep`,
  `Serve`), and the transaction of an extension ends (`Extended`), of which there is
  one at a time. Admins and the language model's success owe nothing:
  a failing `Generate` uses up the job's attempts.
- `MobileTimeline!FairTimeline`: the event loop handles what arrived, timers fire, keys
  are found, the server answers what reaches it (`Progress`). The user, the peer's
  next message, breaks, faults and restarts owe nothing.
- `PhoneSocket!FairSpec`: timers fire and sockets report (`Callbacks`); what
  AuthContext began it ends (`Started`, `LoggedOut`, `Cancelled`).

The `MC` modules that put components together repeat the fairness of each.

## What the runs show of the code

Four statements of the repository are refuted (`findings`):

1. **A live connection can be unregistered** (`hub_live_registered`). `Unregister`
   (hub.go:502) deletes the entry at the session key whoever holds it. When a
   device reconnects, the late `Unregister` of its former connection removes the
   new one: it serves frames but gets no broadcasts and counts for no quota.
   `SoleSessionStaysRegistered` is what does hold.
2. **A forwarded file is deleted with its original** (`media_forward`).
   `PurgeOnce` (purge_worker.go:171) does not ask whether another message uses
   the file; a copy forwarded later loses it within its own retention.
3. **A new sign-in can go on over the old session's socket** (`phone_socket_own`).
   `onclose` (websocket.ts:259) of a socket the phone closed itself runs after
   `reset()` has cleared `isExplicitlyClosed` and schedules a reconnection with the
   old token; `connect()` of the next session finds an open socket and returns.
4. **The blocked user's own block lifts the block he is under** (`block_lifted`).
   `BlockUser` (connection/service.go:306) deletes whatever row the pair has, also
   the other's block, although a comment says that it cannot be opened by the
   other side; unblocking then leaves nothing of either.

The other exceptions are written into the properties, each at its line:

| Property | Exception | Where |
|---|---|---|
| `NothingVanishes`, `EventuallySettled` | a queue over its limit drops its oldest message | ws-client.ts:81 |
| | a queue flushed at once meets the rate limit, whose refusal removes the message | client.go:328 |
| `ConfirmedIsSaved` | a failed save is logged only, and receipt and ack go out | hub.go:946 |
| | the id is recorded before the message is saved; after a handler's death in between, a resend to a guard that still knows it is confirmed | client.go:360 |
| `BroadcastOnce` | the guard is a node's memory of two minutes; other nodes, a crash, and time are beyond it | hub.go:1240 |
| `RowAsRequested` | an edit that read the row before the deletion writes after it | sql.go:1758 |
| | two users' lists, read and written as a whole, overwrite each other | sql.go:1704, 910 |
| `PinsInOrder` | overlapping pins, once for each further request in progress | sql.go:2074 |
| | two `DELETE`s that pick one row, a failing `COUNT` or `DELETE` whose error is dropped: each time one more pin stays, so that the number of pins has no limit in the code | sql.go:2078, 2074 |
| | a deletion between a pin's check and its INSERT, or one whose unpinning fails | sql.go:2098, 1679 |
| `ToldAsItWas` | receipts for a room and reactions are never acknowledged and are sent again at each reconnection | ws-client.ts:74 |
| `FirstDeviceWins`, `EndsAgree` | an end or a rejection makes the node forget who answered, and a late answer is let through | hub.go:896, 884 |
| `EndsAgree` | the offer is sent after an `await`, also when the caller has hung up meanwhile | CallContext.tsx:377 |
| `EveryMemberHears` | the invalidation reaches only its own node; a fill under way stores the older list | hub.go:305, 684 |
| `UploadsEnd` | a forwarded file can outlive its ticket; if the release of its last message fails, nothing looks for it any more | upload_tickets.go:187 |
| `LeavesOnlyItself` | a session without a device id loses its room entry when another session of the user leaves | hub.go:520 |
| `EjectedStaysOut` | an overriding login's kick leaves the kicked device's tokens valid; a login or renewal under way when its device is turned out creates its session afterwards | authz/service.go:696 |
| `DevicesWithinQuota` | a handshake and a removal register unknown devices without counting; two logins count before either registers; the device to kick need not be an active one | authz/service.go:235 |
| `KeyStands` | two updates that both read the account as unclaimed both write | user_store.go:641 |
| `BlockSticks` | a removal that had read the row before the block deletes it; finding 4 | connection/service.go:276, 306 |
| `FriendCacheIsCurrent` | caches of other nodes; a fill under way; a block that deleted the friendship and lost its INSERT to a new request | connection/service.go:482 |
| `MemoryFollowsTopic` | the job's insert fails, or its maker stops: nobody looks for such topics again | sql_group_store.go:1711 |
| | an extension granted after the topic was listed: an active topic has a job, its real end gets none | sql_group_store.go:1711 |
| | `CompleteJob` fails after the draft was inserted: the retries violate `UNIQUE job_id` and end in FAILED beside a draft | memory_store.go:505 |
| | an edit that runs beside the approval, or after it, is answered as saved and not published | memory/service.go:340 |
| | a draft deleted beside its approval: the memory stays published without it, cannot be deleted any more, and keeps the topic's place from another | memory_store_delete.go:71 |
| `EndsAndIsSummarized` | a job whose worker stopped stays PROCESSING | memory_store.go:505 |
| `AnswerInForce` | two answers, or two applications, cross | sql_group_store.go:1511 |
| `StreakAsPlayed` | the attempt is closed before the streak is saved, so that a failure or an overlapping update loses the day for good | game/service.go:183 |
| | a change of the time zone back into last week fills the freeze again, although streak.go:41 has it once a week | streak.go:28 |
| `ShownIsCurrent`, `DiscardedStaysAway` | a history read too early, or an empty one sent after a database error, takes messages off screen and disk; a history keeps an older text; a handler that waited for the key writes over newer state | MessageContext.tsx:182, hub.go:1050 |
| | an ack sets "sent" after "delivered" and ignores its error status; a receipt of one message is applied to all of the user's own; a voice message is "sent" once handed to the socket | MessageContext.tsx |
| | a refused deletion restores the whole list as it was before the request | ChatScreen.tsx:1459 |
| `HistoryKeepsStored` | the empty history | hub.go:1050 |
| `ConnectionIsTheSessions`, `EndedByItsOwn` | a close reported after the reset; a sign-in that ends after its session. The late 4001 of an old socket ends the new session and deletes its keys | websocket.ts:259, AuthContext.tsx:536 |

Seen while modelling, with no property of their own: `MarkUserMessagesAsDelivered`
marks the pending messages of all rooms, also of rooms the user is no member of
(sql.go:1028); "delivered" is computed before the broadcast, when the peer may
already have left (client.go:396); the timers that clear a finished call are
never cancelled and clear the next one (CallContext.tsx:559); the arbiter is per
node, so two devices of the callee on different nodes can both win (hub.go:848);
a topic's messages go to its members even when they are no longer in the parent
group (hub.go:734); `ClaimDue` only reads, so that two nodes work on the same
queue entries (media_purge_queue.go:56); the predecessor of a renewed token is
refused at once, although a comment of `RefreshToken` lets it run out by itself
(authz/service.go:649); a deleted job's worker can still insert a draft, and a
second approved memory of a topic fails on `UNIQUE forum_id`; the answer to a join
request looks at no expiry, and reopening a purged request is silently lost.

## Proofs

The proofs hold for every value of the constants that satisfies the named
assumptions; 35 theorems are listed in `PROJECT.json`, 34 of them the very
properties the runs check.

| Module | Theorem | Establishes |
|---|---|---|
| `HubSessions_proofs` | `TypeCorrect` | `Spec => []TypeOK` |
| | `RegistriesAlwaysAgree` | `Spec => []RegistriesAgree` |
| | `QuotaKept` | `Spec => []DeviceQuota` |
| | `NothingHeld` | `Spec => []NothingHeldAfterUnregister` |
| | `SoleSessionKept` | `Spec => []SoleSessionStaysRegistered` |
| | `ReceiversKept` | `Spec => []RegisteredCanReceive` |
| | `RoomsLeftByOneself` | `Spec => LeavesOnlyItself` |
| | `KeepsPromise` | `Spec => ImplementsSlots` (refinement) |
| `Broadcast_proofs` | `QueueLosesNothing` | `Spec => []NothingVanishes` |
| | `SentMeansSaved` | `Spec => []ConfirmedIsSaved` |
| | `GuardBroadcastsOnce` | `Spec => []BroadcastOnce` |
| | `FirstAnswerStands` | `CallSpec => FirstDeviceWins` |
| | `EndsOfOneCall` | `CallSpec => []EndsAgree`, for one call (`MaxCalls = 1`) and callees whose devices are on one node |
| `Messages_proofs` | `RowFollowsRequests` | `RowSpec => []RowAsRequested` |
| | `StatusGoesForward` | `Spec => StatusNeverRegresses` |
| | `ReadIsOpened` | `Spec => []ReadMeansOpened` |
| | `PinsKeepOrder` | `PinsSpec => []PinsInOrder` |
| | `FramesTellWhatWas` | `FramesSpec => []ToldAsItWas` |
| `MediaLifecycle_proofs` | `RetentionIsKept` | `Spec => []FilesFollowRetention` |
| `MembershipFanout_proofs` | `OnlyMembersHear` | `Spec => []OutsidersNeverHear` |
| | `MembersHear` | `Spec => []EveryMemberHears` |
| `People_proofs` | `QuotaIsKept` | `AccountSpec => []DevicesWithinQuota` |
| | `EjectedStayOut` | `AccountSpec => []EjectedStaysOut` |
| | `KeysStand` | `AccountSpec => KeyStands` |
| | `BlocksStick` | `FriendsSpec => BlockSticks` |
| | `CacheStaysCurrent` | `FriendsSpec => []FriendCacheIsCurrent` |
| | `StreakTold` | `GameSpec => []StreakAsPlayed` |
| | `ShownContinues` | what is shown is what solving that day continues, for every row and date |
| `Topics_proofs` | `MemoryFollows` | `Spec => []MemoryFollowsTopic` |
| | `LastAnswerHolds` | `JoinSpec => []AnswerInForce` |
| `Phone_proofs` | `SessionsConnection` | `Spec => []ConnectionIsTheSessions` |
| | `SessionsEnd` | `Spec => EndedByItsOwn` |
| | `HistoryIsMerged` | `TimelineSpec => HistoryKeepsStored` |
| | `DeletedStayAway` | `TimelineSpec => []DiscardedStaysAway` |
| | `QuietIsCurrent` | `TimelineSpec => []ShownIsCurrent` |

Assumptions. `ConnAssumption` (each connection has a user and a device key;
`NoConn` is none of them), `DeviceAssumption` (devices are finitely many,
`NoDevice` is not one), `QuotaAssumption` (the quota is a positive number);
`DeliveryAssumption` (there is a node; the limits are positive numbers),
`CallAssumption` (each device has a user and a node, the callers are devices);
`SenderAssumption` and `StatusAssumption` (an author is a member of the room),
`PinsAssumption` (the limit is positive, the requests finitely many: they are
counted), `FramesAssumption` (the queue holds at least one frame); `MediaAssumption` (a deletion from the bucket is tried at least twice,
`NoFile` is no file); `FanoutAssumption` (each user has a node, each room a parent or
none, handlers and nodes are not the same things, the founders are users);
`AccountAssumption` (as for the registry), `FriendshipAssumption`, `JoinAssumption`
(their bounds are numbers); `GameAssumption` (the first day is a day, the bounds are
numbers); `ForumMemoryAssumption` (the bounds are numbers, with at least one attempt
and one job); `SocketAssumption` (0, which stands for no socket, is none);
`TimelineAssumption` (what the user and the peer write are two sequences in which no
message comes twice; a history has at least one row). TLC evaluates them in the runs.
Sets of users, messages, rooms, files, handlers and nodes may be infinite but where
finiteness is named.

**The registry.** The inductive invariant is
`RegistryInv == TypeOK /\ RegistriesAgree /\ EntriesOwned`: the registries agree
because `Register` and `Unregister` change both at the same keys, and
`EntriesOwned`, every entry sits at its own connection's key, is what the other
theorems need: without it the eviction of a session could clear another slot
than the one it occupies, and the quota or `NothingHeld` would not be inductive.
The lemma `StepKinds` reduces every step to one of four kinds (a `Register`, a
`JoinRoom`, an `Unregister`, or a step that leaves the registries and rooms
alone). `QuotaKept` bounds the cardinality of the new device set: a reconnect does
not enlarge it, an eviction takes one out before one comes in, and otherwise there
was room; this is where finiteness of the devices is needed. `NothingHeld` follows
from `HeldOnlyWhileServing`: a connection is held only between its `Register` and
its `Unregister`, which is inductive because `Unregister` clears the very keys at
which the connection could be held. `SoleSessionKept` follows from
`SoleRegistered`: only its own key's users can remove a connection, and a sole one
shares its key with nobody; an eviction removes it too, but puts it in `closing`.
`ReceiversKept` says that a send channel is closed only when the registry has let
go of the connection. `RoomsLeftByOneself` rests on `SharedRoomKey`: two
connections that hold a room and whose keys meet in it are one, as long as they
have a device id.

For the refinement, `KeepsPromise`, the registered connections of a user and his
devices are put in bijection (`SlotsCount`: the registry holds one connection for
each device, by `EntriesOwned` and `RegistriesAgree`), so that the code's test of
the number of *devices* is the promise's test of the number of *sessions*
(`SlotsCounted`). A `Register` is then `Enter` with what it evicted (`RegisterEnters`),
an `Unregister` that clears a slot is `Leave`, and every other step is a stutter.

**Delivery.** `DeliveryInv` says what everything on its way knows: a frame to the
browser, an entry of a node's guard and a handler past the guard each speak of a
message the server has dealt with (`FramesTell`, `HistoryTells`, `StoredIsKept`),
where dealt with is saved, failed to be saved, given up by a stopped handler, or in a
handler's hand. `NothingVanishes` and `ConfirmedIsSaved` are the moments at which the
browser acts on such a frame. For `BroadcastOnce` the invariant counts broadcasts
done and those a handler is past the guard with (`Pending`): together at most one
more than the losses of the guard's memory, and that one only while the guard
remembers (`BroadcastsCounted`). The count is of a set of sockets, and that those
are enough is an invariant too: each but the first was opened after a fault
(`SocketsCounted`).

**Calls.** Once the types of the signals on their way are known to hold, a step that
takes an answered call from its device can only be a `Judge`, which writes the
arbiter's record of an answered call only for an end, for a new offer, or for another
answer of the device that has it; cluster signals are fanned out and leave the arbiter
alone.

`EndsOfOneCall` has two hypotheses that the other theorems do without: one call is
placed, and the devices of the users who are called are on one node (the caller's, or
another). Neither can be dropped: a timer of a first call clears a second one, and
two nodes each keep their own `activeCalls`, so that each gives the call to a device
of its own. Under them the theorem holds for any number of devices, hang-ups and
rejections. `EndsAgree` speaks of states with nothing under way, and nothing about
such a state follows from one step before it; the invariant (`OneCall`, for the
caller and the node of the callees) says what must be true while signals are on
their way. `RolesOK` and `SignalsOK` say who can be in which phase and who can have
sent what. `OfferOnce` follows the one offer along its way (prepared, on the caller's
connection, in the fan-out, on the cluster channel, on a callee's connection): it is
in one place only, and a callee it has not reached has nothing of the call yet.
`Refused` and `NotYet` are about a refused call and about a callee whose answer the
arbiter has not seen. `Passed` ties what is in flight to the arbiter's decision: an
answer in flight was accepted, an end or a rejection in flight has freed the call.
With these, `Told` can promise every callee its message: once the call is decided,
whoever rings, or will ring when the offer arrives, has an answer, an end or a
rejection coming *after* it; before that the caller waits. A callee that counts as
connected has the call, or its answer, its busy or an end is still on the way; and
`Partner` says the same for the caller. When nothing is under way any more the
promises have all been kept, which is `CallInvAgrees`. An offer or an answer that got
through after the call's end ends the argument, as it ends the property's claim; what
remains then is that every signal is still of that call (`FirstCall`). The invariant
was checked with TLC before it was proved, on three instances: two devices of the
callee on another node, on the caller's node, and a caller with a second device.

**The fan-out.** `FanoutInv` is `TypeOK /\ ListenersHaveBeen /\ OutsidersNeverHear`:
whoever is named as a listener anywhere (in a cache, as a viewer of a room, in a
list just read, in a join about to be entered) has been a member. That is all
`OnlyMembersHear` needs, and why it survives every stale list. For `MembersHear`
the invariant says what has to be true of a list so that nobody who is owed the
message is missed: entitlements are only held by users with access (`Claims`);
a list read and about to fill a cache has all members, unless the room is in
doubt on that node (`ListsServe`); a cache with no announcement due is full, or
in doubt (`CachesServe`); and a change whose announcement is still due has put
every node but its own in doubt (`OneNodeTold`), because only its own will hear
of it. A change of membership is what fills `doubtful`, so that the exception of
the property is exactly the gap of the proof.

**Rows and receipts.** `RowInv` is the property with types; the fact that carries it
is the type of a request in progress, by which an edit found the message not deleted,
so that finishing it on a deleted one means it was overtaken. For receipts, the two
lemmas are that a save leaves a row that is there alone, and that whoever marks the
messages of his room is a reader of each that is not his own.

**Pins.** `PinsInv` gives each request about to insert a place of its own
(`PlacesLeft`: pins and pending inserts together stay within the overrun the property
allows, since whoever counted last found a place, made one, or is counted in
`overlooked`), keeps pins distinct, and has the row a request has found or picked
still there (`RowsThere`: a row that goes sends on whoever was about to write it, and
each of them that had picked it counts in `overlooked`). `NobodyPinsDeleted` is what an
erasure leaves behind unless it crossed a pin.

**Frames written again.** `FramesInv` compares three counts of the same clicks: the
user's last click, the reactions in the queue, and what the server stores. Until a
frame is dropped the queue holds every reaction ever clicked, so that their number is
odd exactly when the last click put the reaction (`ClicksQueued`), and one that the
server has processed is still there (`TookStillQueued`): an onopen that writes the
queue to a server that has processed none of it leaves the reaction as clicked, and to
any other it is a replay, the exception the property names. The lemmas are about the
number of reactions in a queue with a frame more behind it or before it. "read" is said
by a receipt of a message on the screen, which is never queued because its "delivered"
receipt has the same id, or by one for the room: fresh while the room is on the screen,
or written again by an onopen.

**Media.** `MediaInv` turns on one notion: a file is `Settled` when nothing keeps it
any more, that is, when it was sent or its ticket ran out and no row within its
retention names it, or when it was shared by a forward and so is beyond what the code
tracks. Whatever was decided from such a reading stays true while it waits in a
request, in a worker's list or in the queue (`RequestsOK`, `WorkersOK`, `QueueOK`):
no new use of a settled file can begin, because a send takes a fresh ticket and a
forward marks the file shared. This is why the worker may delete long after it
read, and why a crash between its statements harms nothing that is retained.

**An account.** `AccountInv` says of each request what it still relies on. A login
past its count has its own device and the counted ones within the quota plus the
devices nobody counted (`Foreseen`); whoever is about to publish a key found none,
or nobody active (`KeysFree`); a device that was turned out has no request about to
register it (`GoneStaysOut`), and one whose sessions were revoked has none about to
issue it a token, with the exceptions of `EjectedStaysOut` for the tokens it keeps
(`ShutOut`). `kept`, `uncounted` and `released` are those exceptions; each is set in the
step of the code that causes it.

**Blocks.** `PairInv` says of each handler what it still knows of the row it read
(`Knows`): ids are not used again, and a row whose id is still the one read was not a
block, or was the handler's own, because nothing turns a row into a block: a block is
always a new row. `Fresh` says of an answer on its way into a cache that it is the
database's, or that `late` was set by the change.

**The phone's connection.** `PhoneInv` has two parts. `ClientInv`, of the socket
singleton whoever calls it: the one socket that is up, if any, is `ws`, and once
`over` there is none; there is a lemma for each method, with `OneWs` as its
hypothesis where a method runs on a state whose socket has just gone. `Serves`, of
the client and AuthContext together: but for a stray connection, either the client
is silent (no socket up, no timer armed) or a session is there, nothing of it is
starting or leaving or blocked, and the client's token and every socket that is up
are the session's. `Silent` must speak of the timer, because a timer armed for an
ended session is what would connect it again. Both theorems follow: whoever reports
a replacement while the client serves a session is a socket of that session, or one
that was closed before.

**The phone's timeline.** The invariant has three layers, each inductive on the ones
before. `Basics` is bookkeeping: types, the order in which messages were broadcast,
what is stored of them, what the socket carries when it is down, that each of the
user's messages is handed over once, and what a deletion under way remembers.
`HistoriesOK` says of every history read, on its way or waiting for the key that it
has each row it knew of, but for rows older than all of its own, and so a merge cannot
take a known message off the screen: that is `HistoryIsMerged`. `NothingBack` relates
the screen, the disk and the changes not yet written to what the user deleted,
with the deletion still under way (`Hiding`) as the one exception that ends with its
answer: `DeletedStayAway`. For `QuietIsCurrent` it takes what frames still to come
make up for. `NothingMissing`: every message of the latest history is on the screen,
was taken off by a named cause, or is in a history or frame that is still coming.
`FramesFollow` reads the frames in their order: whatever a frame says that is no
longer so is corrected by a later frame of the same connection. `EntriesFollow` says
the same of each entry on the screen: text, erasure and status are the row's, or
excused, or a frame on the wire, an edit waiting for the key or the user's own
request will make up for the difference. With nothing on its way, held or asked
for, what is left is the property. The excuses are struck out as soon as the
difference is gone (`Excuse`), and the invariant holds with them struck out: a
message that was once excused is owed its text again.

**The end of a topic.** `TopicInv` is `TypeOK /\ EndInv /\ JobInv /\ ReviewInv`. By
`EndInv` a topic that ended has its job, or somebody is about to insert it, or
`missed` says that the insert was lost, or its group is not enabled and there is none;
and nobody is about to make a job for a topic
that an extension under way brings back, unless `early` says that it was granted to a
topic already listed. By `JobInv` jobs are numbered as they are made, the one there
is belongs to at most one worker and is then PROCESSING, and its status tells what
became of its draft, but for the jobs in `unreported`. By `ReviewInv` the approved
draft is the published one with its edits, and an edit under way of that draft is in
`crossed`; a memory whose draft was deleted beside its approval is nobody's (`Orphan`).
The exceptions of `MemoryFollowsTopic` are these and nothing else.

**Join requests.** An answer begins from a pending request (`AnswersPending`), and
its transaction writes request and membership together, so that the two agree
(`InForce`: of an open request as well as of a rejected one, nobody is a member by an
approval) unless what was read had changed by then, which is `joinCrossed`.

**The game.** The property tells a streak from the *set* of days counted
(`RunTo`: a day joins the day before, or the one before that when it is the first
of its week to do so), the code from one row with a counter. `GameInv` is
`TypeOK /\ RowsTell /\ EveryDayCounts`, where `RowsTell` says of the stored row and
of every row a handler has read that it tells the run of the days it had counted
when it was read (`days` in the handler's record). Since the row is overwritten as a
whole, an overlapping update brings back an older row together with its older set,
and the invariant survives; the days lost are named in `lost`. The arithmetic is in
the lemmas about one row: a later day either extends the run, or bridges one missing
day with the week's freeze, which is spent exactly when some day of that week was
bridged (`Spent`), or starts a run of one.

Beyond the prover: liveness (`EvictionCompletes`, `EventuallySettled`,
`SeenBecomesRead`, `UploadsEnd`, `EndsAndIsSummarized`, `TimelineSettles`,
`StaysConnected`), which needs `ENABLED`. No module declares a `RECURSIVE` operator.
Every safety property a passing run checks is stated by a theorem; `EndsAgree` of
`CallSignaling` only under the two hypotheses above, because it does not hold without
them.

## What is not modelled

- The user interface, which is most of the TypeScript: `ChatScreen.tsx`,
  `page.tsx`, the modals, lists and settings of both clients. Their state is the
  screen's; what they do to messages is in `MobileTimeline` and `DurableFrames`. The
  modules therefore stand for a small part of the repository's lines, and could
  not honestly stand for a third of them.
- Push (FCM, Web Push), the staff notification dispatcher, feed, tenants,
  entitlements, moderation, the account eraser: external calls, bounded queues,
  or single-statement database operations.
- Device transfer: one token redeemed in one transaction that locks its row.
- The broker and the database are taken as they are used: cluster channels deliver
  in order, a statement is atomic, an INSERT with a conflict clause does nothing on
  conflict.
- End-to-end encryption, validation and rendering; HTTP parsing; SQL schema;
  command-line tools.
- The puzzle generator and solver, pure algorithms over grids too large to
  enumerate usefully, and the leaderboards.
- Within the modelled parts: replies, mentions, avatars, thumbnails as files of
  their own, ICE and media of calls, the call log, calls that begin with a push
  notification, direct messages and blocking in the fan-out, entries the account
  eraser adds to the purge queue; on the phone reactions, pins, attachments other
  than voice, the 500 messages a room is cut to, the renewal of tokens; of the
  account registration, suspension, password versions and the revocation caches
  of other nodes, and the failures of statements but the device's registration;
  of topics their creation, roles, evidence and search.

## Plan

What would come next, most valuable first:

1. Refinements of further components by what they promise, in the way `KeepsPromise`
   does it for the registry.
2. `CallSignaling` with a second call and its stale timers, and with the callee's
   devices on different nodes; `MediaLifecycle` with two nodes and safety only, and
   with the account eraser.
3. `AccountSessions` with the revocation caches of other nodes and suspension;
   the transfer token.
4. `MobileTimeline` with reactions and pins; the browser's message cache, which
   follows other rules than the phone's.

## Reproducing

    tlc -workers 2 -config HubSessions.cfg MCHubSessions
    tlc -workers 2 -config People.cfg MCPeople
    tlapm HubSessions_proofs.tla
    tlapm Broadcast_proofs.tla
    tlapm Messages_proofs.tla
    tlapm MediaLifecycle_proofs.tla
    tlapm MembershipFanout_proofs.tla
    tlapm People_proofs.tla
    tlapm Topics_proofs.tla
    tlapm Phone_proofs.tla

Each run takes up to three minutes on two cores, `Phone_proofs` about ten, the other
proofs one to five. `PROJECT.json` lists, for each
run, its module, configuration and properties; for each definition, the lines of
the source it translates; and for each property, a mutant of such a definition
under which the run fails.
