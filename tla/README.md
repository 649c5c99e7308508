# A TLA+ verification of lumiere-server

lumiere-server is the backend of a chat application: an HTTP API and a
WebSocket gateway in one Rust process (axum on tokio), PostgreSQL for metadata,
ScyllaDB for messages, Redis for sessions, limits and caches, NATS for events
and, through JetStream, for background work. This directory holds TLA+ modules
of the parts whose correctness depends on interleavings, failures and
boundaries, the TLC configurations that check them on small instances, and
TLAPS proofs of the most important properties for every size. `PROJECT.json`
lists components, runs, mutants, hazards and theorems, and maps every
definition that models code to the lines it models.

Paths below are relative to `src/crates/`.

## 1. Inventory

| component | state it keeps | operations | hard behaviour | what makes it correct |
|---|---|---|---|---|
| gateway sessions: `lumiere-gateway/src/{handler,session}.rs` | in-memory registry (`sessions`, `user_sessions`), Redis `gateway_session:<id>`, published presence | identify, resume, presence update, receive loop, cleanup, delayed offline broadcast | one task per connection; register and remove are several map accesses; Redis between them; process crash | a session stays with its user and with one connection; the registry lists who is connected and nothing dead; a user who left is announced offline |
| gateway dispatch: `handler.rs` | sequence counter, replay list in Redis, bounded outbound channel | listener tasks, buffering, replay, heartbeat | listeners overtake each other between numbering and sending; a Resume on a connection that has a session; channel full; connection lost at any point | handshake first, subject order, distinct numbers, a complete replay |
| id generator: `lumiere-models/src/snowflake.rs` | one atomic word per process | `next_id` | compare-and-swap races, exhausted sequence, clock set back, restart | ids unique and increasing; fields readable |
| coalescing and cache: `lumiere-data-services/src/` | in-flight map, broadcast channels, Redis cache | `get_or_fetch`, `invalidate` | followers and leader race on the channel; dropped futures; stale fills | one fetch per key, followers told what the leader found, no stale answer |
| membership: `lumiere-server/src/routes/servers.rs` | rows of servers, members, roles, bans, invites | create, update, delete server; kick, leave, ban, unban, invite, join | several statements per request, READ COMMITTED, row locks, deadlock | limits of invites, owner is a member, bans last, count right |
| channels: `routes/channels.rs`, overrides of `routes/roles.rs`, webhooks of `routes/webhooks.rs` | channels, their parents, overrides, webhooks | create, change, move, delete, follow; set and delete overrides; make, move and delete webhooks | limits counted before the write; the last text channel; a replacement in a transaction | limits hold; foreign keys hold; overrides are what was asked for |
| roles: `routes/roles.rs`, `update_member` of `routes/servers.rs` | roles, positions, permissions, who holds what | create, change, move, delete, assign | positions and permissions checked statements before the write; any position may be asked for; roles are assigned without either check | no role permits what its writer had not; nobody changes a role that is not below him, but for two ways past the comparison |
| permissions: `lumiere-permissions/src/lib.rs` | none | `compute_permissions` | order of overwrites | the most specific override decides |
| messages: `routes/messages.rs` | ScyllaDB messages and pins, `channels.last_message_id`, slow-mode keys | send, edit, delete, bulk delete, pin, history | check-then-act limits, two databases without a transaction, best-effort publishing, buckets | rows, pins, newest message and index agree once requests have ended; limits hold |
| workers: `lumiere-server/src/workers/` | search index, read states, push | consume JetStream | at-least-once delivery, events fetched ahead and delivered again when late, failure half-way | each worker gets done with every event |
| auth: `lumiere-auth/src/`, `routes/auth.rs`, `delete_me` and `update_me` of `routes/users.rs` | rows of users, Redis `refresh:<jti>`, `user_sessions:<id>`, `username_change:<id>` | register, login, refresh, logout, rename, delete the account | several Redis commands per operation; rotation races | a token is exchanged once; revocation lasts |
| rate limits: `middleware/rate_limit.rs` | Redis token buckets, failure counters and blocks | allow, count, block | keys that expire on their own, ignored errors | guesses of a password bounded |
| relationships, DMs: `routes/users.rs` | relationship rows, DM channels | request, accept, block, open DM | check-then-act over several statements | both rows of a pair match, friends have both asked, one channel per pair |
| reactions, typing, read states: `routes/{reactions,typing}.rs` | ScyllaDB and Redis rows | add, remove, ack | unordered acks | acks monotone |
| applications, moderation, devices, attachments, push, search, voice | rows and objects of external services | single-row operations and calls | partial failure | - |
| wiring, configuration, middleware, models | none | construction, mapping | - | - |

How they interact: an HTTP handler writes PostgreSQL or ScyllaDB, then
publishes an event on a NATS subject (`server.<id>.events`,
`channel.<id>.messages`, `user.<id>.*`); the gateway's listeners of the sessions
subscribed to it number the event and pass it to the client. `send_message`
publishes a second, durable copy to the JetStream stream from which the three
workers pull. Every row has an id from the generator, and the bucket a message is
stored in is computed from the id's timestamp. Redis is shared by the gateway
(resume, replay, presence), the auth sessions, the rate limits and slow mode.
The registry of the gateway is shared by all connections of the process and by
the timers their cleanups leave behind.

## 2. Plan

All of it is done but what the last paragraph names.

1. `GatewaySession` with `GatewaySessionProofs`: the registry and its handlers.
2. `GatewayDispatch` with `GatewayDispatchProofs`: one session's events over
   reconnects. (It is kept apart from `GatewaySession`: who may resume does not
   depend on numbers, and the numbers do not depend on the registry.)
3. `Snowflake`, refining the abstract `UniqueIds`, with proofs in
   `MessagePipelineProofs`.
4. `DataService`, with proofs in `ChannelTreeProofs`: `DataService::get_or_fetch`
   composed with `CoalescingCache::get_or_fetch`.
5. `Membership` with `MembershipProofs`: requests as sequences of SQL statements.
6. `MessagePipeline` with `MessagePipelineProofs`: the handlers of messages and pins over ScyllaDB,
   PostgreSQL and Redis, composed with the stream and the workers.
7. `AuthSessions` with `AuthSessionsProofs`: accounts, refresh tokens and the
   blocking of logins.
8. `Relationships` with `RelationshipsProofs`: friends, blocks and direct channels.
9. `ChannelTree` with `ChannelTreeProofs`: channels, categories, overrides and
   webhooks.
10. `Roles` with `RolesProofs`: roles, who holds them, and the permissions crate.

To come: the token bucket and the walk over history buckets against reference
definitions; voice states; an abstract index that equals the live messages once
the stream is drained.

## 3. The modules

### GatewaySession
Each connection `c` is a task; `pc[c]` is the point of `handle_connection`,
`handle_identify` or `handle_resume` it has reached, `session[c]` the local
`session`, `pending[c]` the session a handler is building. `sessions` and
`user_sessions` are the two maps of `SessionManager`, `stored` the Redis keys that
make a session resumable, `announced` the last presence published per user.
`register()` is two accesses (`Identify` or `ResumeInsert`, then `RegisterPush`),
`remove()` is three (`RemoveSession`, `RemoveRetain`, `RemoveEntry`), `GET` and
`DEL` of the resume key are two actions, and the ten-second timer is a state of the
task, whose look at the index (`OfflineTimer`) and broadcast (`OfflineBroadcast`) are
two. `Crash` loses everything in the process. `origin`, `resumed`, `abandoned` and
`erased` are history for the properties: who identified a session, the sessions that
were resumed, those a task dropped without `remove()`, and those whose id a `remove()`
took out of the index with an entry it had found empty before.

Abstractions: one server process; the ids `user_sessions` lists for a user form a
set (the code keeps a vector; `retain` removes every copy); a status other than
`invisible` counts as online; the key `presence:<user>`, which only the push worker
reads, is left out; a Redis expiry may happen at any time.

### GatewayDispatch
One session and its client over successive connections. Each NATS subject has a
listener task with the steps `Subscribe`, `Take` (the event is numbered),
`BufferEvent` (Redis), `TrySend` (the bounded channel); `Deliver` is the sender
task. A disconnect aborts the listeners at their next await, and a Redis push
under way may still be executed. `Resume`, `ReplayNext`, `Resumed` are
`handle_resume` and `replay_events`; the session starts again at the number the
client sends, any of `Claims`, since nothing compares it with the one stored. If one
of the two queries after RESUMED fails, the stored session is consumed and nobody
can resume it (`lost`). `missed` records what the list held and the client lacked at
the moment of the resume.

`OpCode::Resume` does not ask whether the connection has a session. A client may
therefore identify another one on a new connection (`IdentifyOther`) and then resume
this one: the tasks of that former session (`FormerSubscribe`, `FormerSend`) offer
their events to the same channel during the replay, and are aborted when
`handle_resume` has returned (`FormerAbort`). Of the former session only these tasks
are kept; its numbers and its list are its own.

`ahead` counts what has been offered to the channel before the handshake: heartbeat
acks and whatever the former session sends. `RoomAhead` says that it leaves room for
a full list and RESUMED, with the code's 1024 against 1000 up to 23 messages. The
client may send 120 commands a minute and leave the acks unread, so that this is no
assumption of the module, but the condition under which the replay is complete.

### DataService
A call walks through the five steps of `DataService::get_or_fetch` with
`CoalescingCache::get_or_fetch` inside. A channel is named by the leader that
made it. `early[c]` says a follower subscribed before the send; `Closed` says
when no sender of a channel is left, and counts the clone that a follower of the
slow path holds. Values are versions of the database row. `Cancel` drops the
future of a call at an await. `floor[c]` is the version a call may expect.
`DataFairSpec` polls every call until it returns. Nothing
in the server calls this crate yet; it is public and documented for the read path.

### Snowflake, UniqueIds
`UniqueIds` is what the server relies on. `Snowflake` has an action per access of
`next_id`'s loop: the clock, the load, the exchange. The packed word is a pair, the
id is the number the shifts compute, so that a field that outgrows its bits spills
into the next. The refinement mapping is the identity on `issued`.

The code keeps nothing across a restart, so the model restarts only when the
clock is past the last id's timestamp and is not set back to before the restart
(`RestartAfterLastId`, `StepBack`). A clock before 2024-01-01, on which the
subtraction of the epoch would underflow, is not modelled; the 42 bits of the
timestamp are not exhausted (`MaxTime`).

### Membership
A handler is given as a function from each SQL statement to the next
(`kick_member`, `use_invite`, ...), a request is at one statement, and each
statement is an action. Statements outside `use_invite` commit by themselves.
Isolation is READ COMMITTED: `UPDATE servers SET member_count = (SELECT COUNT ...)`
is two actions, the count of its snapshot and the write, which waits for the row.
Row locks follow from the requests' positions (`HoldsInvite`, `HasInserted`,
`HoldsCount`, `DeletesServer`). The deletion of a server and a join can wait for
each other; `BreakDeadlock` aborts one. A failed statement ends the request, and
rolls back if it was in the transaction.

Abstractions: one server; the reads of one permission helper are one step; of
roles only "moderator" is kept (a role above @everyone that grants what the
handlers ask for); whether an invite has expired is a free choice; the deleting
owner's password check is part of the owner check; updates of names, nicknames and
timeouts, which touch none of this state, are left out. `races` records which of
three overlaps have happened.

### MessagePipeline
The messages of one channel. A handler is a function from each call to the next
(`send_message`, `pin_message`, ...), as in `Membership`; a call on ScyllaDB,
PostgreSQL, Redis or JetStream is an action, and there is no transaction. `messages`
and `pins` are the ScyllaDB tables, `last_message_id` the column of `channels`,
`slowmode` the Redis keys, `stream` the JetStream stream MESSAGES. `Fail` is a call
whose error is returned, or a handler dropped because its client has gone; calls
whose errors the code ignores (the check and the key of slow mode, a deletion of
`bulk_delete`, `publish_durable`) have the failure as an alternative.

A worker has a durable consumer. The stream of `messages()` fetches ahead: `Deliver`
puts an event into the worker's `inbox`, in the order of the stream, and again, up to
`MaxDeliver` times, an event that is not acknowledged when its `ack_wait` has passed.
That runs from the delivery, so that an event may come again while its first copy is
still waiting, without any failure. `Handle` takes the next event of the inbox,
processes it (`IndexMessage`, `PushMessage`, `UpdateReadStates`) and acknowledges it or
not; nobody waits for a worker or looks at its work half-done, so that this is one
action. A worker whose stream ends loses its inbox and restarts. The read-state worker
writes to a table `read_states` that the migrations create in ScyllaDB only, while it
uses PostgreSQL: where there is a member to write for, processing fails at every
delivery.

`races` records overlaps that the code does not exclude: two sends of a user
(`slow`), two sends between id and UPDATE (`post`), a pin and an unpin of one
message between their two writes (`pin`), a deletion of a message whose sender has not
published it (`event`), an event delivered again while it waits (`overdue`), and a push
whose ack is lost (`unacked`). `event` leaves a deleted message in the index for good,
since the stream then holds the deletion before the creation; `overdue` may do the same,
when the second copy of the creation is handled after the deletion.

Abstractions: ScyllaDB as one replica; ids that no row has, which clients may send,
are left out; requests refused by permissions or timeouts change nothing and are left
out; the channel has slow mode all the time; of a text only whether it is empty is
kept; the events for the gateway are left out (`GatewayDispatch` has them);
`execute_webhook` publishes no durable event and does not touch `last_message_id`.

### AuthSessions
Handlers are functions from call to call, as before, over PostgreSQL and Redis.
`accounts` and `settings` are the rows of users, `sessions` the keys
`refresh:<jti>`, `user_sessions` the Redis sets, `ip_fail` and `ip_block` the two
keys of the one address the requests come from, `username_change` the counter of
a user's changes of name. `create_session`,
`revoke_session` and `revoke_all_sessions` are two, two and two or more Redis
commands, each an action (`SetKey`, `ListKey`; `DeleteKey`, `UnlistKey`;
`ReadList`, `DeleteEach`, `DeleteList`). An access token is looked up nowhere, so
that whoever was ever given one may log out or delete the account (`May`).
Counter and block live equally long, from the first failure and from the last
block, hence the order in which they may expire (`ip_block`).

`held` is what clients were given; `dead` and `closed` are what completed
revocations were to end. `straddled` records the users for whom a login or a
refresh was past its check while `revoke_all_sessions` was reading or deleting:
then SADD may fall between SMEMBERS and DEL, and a token stays good that no later
logout finds. `replayed` records tokens that two refreshes read before either
deleted them.

Abstractions: one address; hashing, signing and the lifetime of an access token;
whether a user owns servers, or a name is taken, is a free choice; `touch_session`, which nothing
calls, is left out.

### Relationships
`type[u][v]` is the row of `relationships` that u has for v. A request and a
friendship are two rows, written by one statement each, a block is one.
`Accept` is an UPDATE of whatever rows the two have by then: after a removal it
finds none, after a block it makes the block a friendship (`overtaken`). The
primary key makes `InsertPair` and `InsertBlock` fail when a row has come back
(`crossed`: two users who block one another at once). A direct channel is looked
for, created and filled in four statements (`doubled`).

Abstractions: the users exist; the events to the gateway are left out; reading
lists of friends and channels is left out.

### ChannelTree
A channel is its type and its parent, an override its target, a webhook the channel
it posts to. `UPDATE` of a
parent and the two effects of a DELETE (`ON DELETE SET NULL` for the children,
`ON DELETE CASCADE` for overrides and webhooks) are as the foreign keys have them;
`delete_channel` of a category first does by hand what the key would do. The
replacement of overrides is one transaction under READ COMMITTED: its DELETE sees
the rows that are committed when it begins (`ClearOverrides`), the rows that come
in until the commit stay, or collide with an INSERT (`ReplaceOverrides`).
`intended` is what the overrides would be if each request were served in one step.

Abstractions: one server; permissions, names, topics, positions and the bits of an
override are left out; a request that changes a row and its overrides is two, one
for the row and one for the overrides; the names of webhooks are left out, and
`follow_channel` follows a channel of the same server.

### Roles
`roles[r]` is a position and a set of permissions, `held[u]` the rows of
`member_roles`. The position `get_actor_highest_position` returns is kept by the
handler (`highest`) until it writes, entry by entry for `reorder_roles`.
`Hierarchy` and `Permitted` are the helpers of `servers.rs`. `granted` is history:
what roles permitted at first, or came from the owner; `trespasses` records that a
member changed a role not below him although no other request has written since
the comparison (`overtaken`), and how: he was let off the comparison, the body had moved
the role before (`moved`), or it was not compared. A body asks for any position between
`MinPosition` and `MaxPosition`, and one that reorders may name a role twice.
`Below` lets off whoever has `MaxPosition`, as the code does with `i32::MAX`, and
`ReadMaxPosition` either ends the request or wraps around above it. `compute_permissions` is translated from the
permissions crate, `get_user_permissions` from the SQL of `servers.rs`.

Abstractions: one server, a fixed owner, members who stay; the statements one
check reads with are one step; names, colours and the like are left out;
`update_member` is there for its list of roles only.

## 4. The runs

| run | instance | shows |
|---|---|---|
| `session` | 3 connections, 2 users, 2 ids, 2 resumes, 1 failure, 1 crash | `TypeOK`, `SessionsBelongToOwner`, `ExclusiveUntilCleanup`, `RegistryMatchesTasks`, `OfflineSettles` |
| `dispatch` | 2 listeners, 3 events (2 beside an ack or a former session, `FewerEvents`), list of 2 and channel of 4, 1 resume with either of 2 numbers, 1 heartbeat, 1 task of a former session, 1 failure | `TypeOK`, `HandshakeFirst`, `SubjectOrder`, `AboveLastReplayed` |
| `data_service` | 3 calls, 2 keys, limit 1, 1 write per key, 1 fault | `DataTypeOK`, `OneFetchPerKey`, `FollowersShareOutcome`, `NotOlderThanStart` |
| `snowflake` | 3 threads on 2 machines, 2 sequence numbers per millisecond, 1 restart | `SnowflakeTypeOK`, `FieldsTold`, refinement of `UniqueIds` (`ImplementsUniqueIds`) |
| `membership` | 2 requests, 3 users, 2 invites for one use, 1 failure, every quiescent initial state | `TypeOK`, `UseLimitKept`, `OwnerIsMember`, `BannedAreOut`, `CountSettles` |
| `messages` | 2 requests, 2 users (1 manager), 3 messages and 2 more, 1 pin, search worker, 2 deliveries, 1 failure | `TypeOK`, `DeletionsTrue`, `LimitsWithinReach`, `Settles` |
| `message_workers` | 2 requests one after the other, 1 message, push and read-state worker, 2 deliveries, 1 failure, fair workers | `EachConsumed` |
| `auth` | 4 requests, 2 at once, 1 user, 4 tokens, blocked after 2 failures, 1 change of name, 1 fault | `TypeOK`, `RevokedStayOut`, `RotatedOnce`, `AttemptsBounded` |
| `relationships` | 5 requests, 2 at once, 2 users, 4 channels, 1 failure | `TypeOK`, `PairsMatch`, `FriendsConsented`, `OneDirectChannel` |
| `channels` | 3 requests, 2 at once, 4 channels of at most 3, 1 per category, 1 target, 1 webhook, 1 failure | `TypeOK`, `LimitsWithinReach`, `OverridesSerial` |
| `roles` | 2 requests at once, owner and member, 3 roles, 2 permissions, new positions -1 and 3 (the extremes), failures anywhere | `TypeOK`, `BitsFromOwner`, `HierarchyKept` |

`HandshakeFirst` also says that live numbers are distinct, `OneFetchPerKey` that an
entry of the in-flight map is led; `RegistryMatchesTasks` has three parts (no entry
outlives its connection, the index lists nothing dead, and it misses no session that a
connection has, but for ids that were resumed or erased); `Settles` has three parts
(pins, last message, index) and each `LimitsWithinReach` the limits of its module.

One more run ends in a counterexample. `late_waiter` (2 calls of 1 key, fair) checks
`WaitersAnswered`, what the comments of coalescing.rs promise: "only one fetch executes
and all waiters receive the result" (lines 9-10), "all waiting receivers will get
RecvError" (line 93). The model, which does what the code does, refutes it: a follower
of the slow path that subscribes after its leader has sent gets neither a value nor an
error, and waits for good on a channel that its own clone of the sender keeps open. It is the
finding of `PROJECT.json`.

Why the bounds are enough. `session`: a resume involves the connection that is
cleaning up and one that takes over; the third connection is a second resume of
the same session, or another device, so that two cleanups of one user interleave; every failure and every crash point occurs.
`dispatch`: two listeners are what it takes to overtake; three events fill a list
of two, so the trim happens; the channel of four holds the replay, RESUMED and one
ack and overflows after; with number 1 the client claims to have received READY only, with
2 one event. One task of a former session sends before, among and after
the replay; with its READY, an ack and a channel of four `RoomAhead` is met and missed. `data_service`: a leader, a follower of each path, and a
second key. `snowflake`: two sequence numbers are exhausted by the third id of a
millisecond, two threads race and a third is on another machine. `membership`: the
races are between two requests; three users allow an owner, a moderator and a
target, or two joiners of an invite for one. `messages`: the races are between two
requests; a limit of one pin is passed by the second; two deliveries are one
redelivery. `message_workers`: two events, so that one is delivered again behind
the other, or while both wait. `auth`: tokens of different users never meet, so that one user is
enough; four requests are a login, two refreshes of one token and a logout, or three
guesses against a limit of two. A second change of name passes a limit of one.
`relationships`: a request, its acceptance, a block and a request made anew, with a
failure; a third user adds only pairs that do not interact. `channels`: two requests meet, the third prepares what they meet over; a
category for one is passed by the second child. `roles`: two requests at once over
every small server, where one lowers the role the other has compared, or lifts a role to
the greatest position and the next is let off.
Deadlock checking is off where clients may stop for good or bounds run out; it
is on for `snowflake`.

Fairness. `WaitersAnswered` is refuted with every call polled until it returns:
tokio polls a spawned task that is ready, and Redis calls end. `EachConsumed` assumes weak fairness of each worker: the task is polled, it restarts
after its five seconds, and the stream delivers again what is overdue; a worker that
fails at every event is not assumed to succeed.

### Races the properties except

The properties of the passing runs say what holds. These executions of the models are the
ones they name as exceptions, or do not speak of; each is an execution of the code as it
is, and the properties do not catch it. What they show is that nothing else breaks them.

- `SessionManager::remove` drops the lock of the user's entry between finding it
  empty and removing it (`RemoveRetain`, `RemoveEntry`). A second device that
  registers in between is erased from the index (`erased`), and the timer of the first, which is there to
  "Check if user has reconnected before broadcasting offline" (handler.rs:251), announces
  the user offline while he is connected.
- A query that fails after `register()`, and a Resume on a connection that has a session,
  leave an entry in the registry for good (`abandoned`).
- A listener awaits Redis between taking its number and sending (`BufferEvent`,
  `TrySend`). A higher number can reach the client first; if the connection is then
  lost, the lower one is in the list but is filtered out of the replay, and the list
  is deleted. `AboveLastReplayed` speaks of the numbers above the client's only, and
  only while the channel has room (`RoomAhead`): beyond that `replay_events` drops events,
  counts them as replayed and deletes the list (handler.rs:583-591).
- On a Resume the handles of a former session are aborted after the new listeners have
  started, although the comment reads "Cancel old NATS subscriptions before replacing"
  (handler.rs:183): until the abort lands, an event reaches the client through both.
- A follower that finds the entry of the in-flight map occupied clones the sender and
  subscribes later. If the leader has sent in between, or fails, the follower waits on
  a channel that its own clone keeps open; run `late_waiter`.
- The COUNT that servers.rs:968 introduced against a race of the member count is taken
  from the statement's snapshot, before the row is locked.
- Two sends pass slow mode together, or leave `last_message_id` at the smaller id; a
  pin and an unpin of one message leave mark and list apart; a deletion overtakes the
  creation on its way to the index.
- The read-state worker, which "increments unread / mention counts in the read_states
  table" (read_state_worker.rs:10-11), writes to a table that no migration of PostgreSQL
  creates: it fails at every MESSAGE_CREATE with a member to write for, and is given up on
  after three deliveries (`UpdateReadStates`).
- A worker that does not get to an event within its `ack_wait` is handed it again: a message
  may be pushed twice, or come back into the index after its deletion.
- A transfer of ownership between the check and the removal of the new owner leaves an owner
  who is no member; a join between the two statements of a ban leaves a banned member.
- A login that stores its session between SMEMBERS and DEL of a logout leaves a token
  that is good and in no set; two refreshes that have both read one token exchange it twice.
- A block between the check and the UPDATE of an acceptance becomes a friendship with
  one side; two users who open a direct channel at once get two.
- Two deletions of the last two text channels leave none; an override written while the
  list is being replaced survives the replacement.
- A role moved by another request between comparison and write is changed at or above its
  actor (`overtaken`). Two ways past the comparison need no other request, and are what
  `let_off` and `named_twice` stand for in `trespasses`. "Server owner bypasses hierarchy
  checks" (servers.rs:199) is implemented by comparing the position with `i32::MAX`
  (roles.rs:264, 389, 430), which a member who has two roles reaches by moving the lower
  one there. "Verify all roles being repositioned are below the actor's highest role
  position" (roles.rs:428) is done before the first UPDATE, so that a second entry for one
  role writes it wherever the first has put it.
- `update_member` compares the roles it assigns with nothing; no property speaks of it.

## 5. The proofs

Checked by TLAPS, for every value of the constants that satisfies the modules'
named assumptions.

`MessagePipelineProofs` and `ChannelTreeProofs` each hold a second part, about the
generator of message ids and about the read path of rows such as channels. A proof
module extends both of its components, whose names therefore differ: where the two
would collide, `Snowflake` says `SnowflakeInit`, `SnowflakeTypeOK`, `RestartProcess`, and
`DataService` says `DataInit`, `DataTypeOK`, `Call`, `Serve`, `Absent`. The parts cite
nothing of each other.

Ids (in `MessagePipelineProofs`). `IdFields` and `IdOrder` say that ids pack without overlap and
sort by timestamp and sequence. `SnowflakeTypeCorrect` gives the range of the sequence.
`UniqueIdsImplemented` needs the inductive invariant `Recorded`: every id handed
out is the id of a pair that lies in the past of its machine, which is before the
word or before the last restart, and the word's timestamp has been shown by the
clock. A successful exchange stores a pair after the word (`SwapIssues`), hence
after every pair of the past (`IssuesLaterId`); ids of two machines differ in
their machine field. A restart moves the past into `floor`: this is where
`RestartAfterLastId` is used.

`GatewaySessionProofs`. `TypeCorrect`: also that a task registers and cleans up with
a session in hand. `OwnershipHolds`: `SessionsBelongToOwner` is inductive given
the types, in four parts (registry, Redis, tasks, index), because every id is
copied from a place of which the property already speaks, and `ResumeGet` compares
users. `ExclusiveHolds`: `ExclusiveUntilCleanup` is inductive only with `Anchored`: a
session a task holds or builds names the task's own connection, a session with an
origin has a connection that has started, and only such sessions have been
resumed. With it, a task that resumes or cleans up works on a session that is no
longer sheltered (`WorksUnsheltered`). `RegistryAlive`: an entry is in its task's hands
from the insertion to the `remove()` (`EntriesHeld`), and an id that gets into the index
of a user is registered or has been resumed because the task that pushes it is still
building that session (`IdsKnown`) and nobody else can have removed the entry
(`ExclusiveUntilCleanup`). `remove()` takes entry and id away in two steps; in between
the removing task is the excuse (`IndexAlive`). In the other direction, the id of a session
a connection has stays listed until the task's own `retain`, a resume, or the
`RemoveEntry` of another task, which records it in `erased`. `OfflineTold`
says in every state what the timers owe: whoever was announced online is served by a task
(`Serving`), which registers, is connected or is in cleanup. That a task which leaves
has another to leave the broadcast to (`AnotherServes`) follows from `RegistryMatchesTasks`
where the entry has an id, and from `EmptyErased`, that some task is about to remove it,
where it has none. Since a cleanup has finitely many steps and its task is polled to the
end, the user is announced offline once all his connections have left; only this last
remark is liveness.

`GatewayDispatchProofs`. `Delivered` is what the client has and what the channel still
holds, in order. The invariant follows an event: it is queued for its listener
(`Queued`), pushed to the list (`Buffered`), sent or replayed (`Ordered`), and at each
place the events of a subject are older than at the place before; hence
`SubjectsOrdered`. `HandshakeComesFirst` needs `Room`: before the handshake the channel
holds no more than `ahead` and what has been replayed, so that under `RoomAhead` the
`try_send` of READY, of the replay and of RESUMED cannot fail; `Places`, that READY or
RESUMED is the only one, before all that is live and after all that is replayed,
whatever a former session's listeners put between; and `Numbers`, that what a listener
holds is above the handshake and shared with nobody. `ReplayComplete` needs `Replaying`:
under `RoomAhead`, what was missed above the client's number is in the rest of the replay
or on the connection.

The read path (in `ChannelTreeProofs`). `FetchesOnce`: an entry of the map names the leader that made it
until that leader removes it, and a channel belongs to the leader of its key
(`EntriesLed`, `ChannelsOfLeaders`). `FollowersToldTheSame`: what has been sent on a
channel is what its leader returns, and a dropped leader has sent nothing
(`SentByLeaders`). `AnswersFresh` needs `FloorsKept`: the version a call may expect is at
most that in the database, in Redis, in the hands of every fetch of its key and on the
call's channel, since every path to an answer goes through one of these.

`AuthSessionsProofs`. The types are inductive with `OwnTokens`: a request handles tokens
of its own user, and the one it is minting is with nobody. `RotatesOnce`
(`ExchangedOnce`): unless two refreshes have both read the session of a token, one at
most is past that look, and has not handed out a successor. `RevocationHolds`
needs what a revocation has to do with everything else of its user
(`RevocationsAlone`): unless straddled, no login or refresh is past its check while tokens
are revoked or once the account is deleted, and what is still good is on the
revocation's list; it also needs that whoever has a token has an account
(`Registered`). `AttemptsAreBounded` (`GuessesCounted`, `RenamesCounted`) counts the requests
between a check and the command that counts: a wrong guess is in the counter, on its
way there, or met a failed call, and the block outlives the counter.

`MembershipProofs`. `HandlersPlaced` turns the tables of handlers into what each
statement tells of its handler and its predecessor; `MoveEffect` says that a step
changes one request and takes it to the next statement of its handler. On these rest
four inductive parts. The types need the second: the row a COMMIT writes is there.
`InvitesInv`: one request at a time is between the lock of an invite and the end of
its transaction (`OneHolder`), and the use it has found left is still left
(`HeldAdmits`); hence `InviteLimit`. `OwnerInv`: unless a transfer and a removal of one
user have overlapped, a transfer past its check names a member and a removal past its
check does not name the owner; hence `OwnerBelongs`. `BanInv`, likewise for joiners past
`not_banned` and bans past their removal; hence `BanLasts`. The proofs of these two
say what the code relies on: each pair of checks has one window, and the window is the
race recorded in `races`. `CountInv`: while no call has failed and no count was overtaken,
what a request has counted is the number of members, and `member_count` is right or a
request is on its way to correct it; a join commits one member and one more in the
count together, and its user is no member before and nobody else is adding the same
(`JoinersNew`); hence `CountIsRight`. They assume finitely many users, and that None is
neither a user nor a request.

`RolesProofs`. `MostSpecificDecides` says what `compute_permissions` decides for one
who is neither owner nor administrator, bit by bit and for any roles and overrides;
`SamePermissions` that the SQL of `get_user_permissions` agrees with it. The types are
inductive with the shapes of requests (`TypeInv`). `EscalationPrevented` needs
`WriteGranted`: what a request is about to write has been compared with what its
writer had, and a member has only what roles permit, hence only what came from the
owner (`HasFromOwner`); that an administrator has everything is why the invariant has
`WithAdministrator` on its right, which is monotone. `HierarchyHolds` needs
`StillBelow`: unless overtaken or let off, the position a request has kept is at most that of
a role of its actor which the body has not moved, and what it compared and has not moved is
still below. Within a list of moves this is because what the request moves was below its
actor's position, and so is not the role that gives the actor this position; a role the body
has moved is out of the comparison, which is why the property names that case. The module's
assumptions say that None is none of the values it stands beside.

`RelationshipsProofs`. The types are inductive once requests are known to be at
statements of their handlers (`RequestsPlaced`) and a request that fills a channel to
own it (`OwnChannels`). The rows of each pair need five facts (`PairInv`): they match;
between the DELETE and the INSERT of a block the other has no block; between the look
at a request and the UPDATE of its acceptance the rows are those of a request or of
friends and the other has asked; whoever has an outgoing request has asked; so have
friends. Each is disturbed only by statements of the same two users, and `overtaken`
and `crossed` record exactly those that would break it. `OneDirectChannel` needs that
a request which adds recipients adds its own pair (`AddsItsPair`), that at most one
request of a pair opens a channel unless `doubled` (`OneOpens`), and that while one
does there is no other channel of the pair (`OpensTheOnly`). The module's assumptions
say that None is none of the values it stands beside.

`ChannelTreeProofs`. `TreeInv` is one invariant. Its part on requests and types says
which statement belongs to which handler, so that each action is proved once for all
handlers that have its statement (the lemmas whose names end in `Moves`). The foreign keys hold
because the effects of a DELETE are part of it. `OverridesReplaced` needs `AllSeen`: what the
DELETE of a replacement saw is all there is at its commit, if nobody wrote in between;
that is where `mixed` is needed and why the code's transaction alone is not enough.
`LimitsHold` counts, beside the rows, the requests that have found room and have not
inserted yet (`Counted`, `Born`, in `RoomLeft`): a check passes only below the limit, when
the one who checks is not among them. For the last text channel it needs that a text
channel about to be deleted leaves another and is the only one about to be (`TextStays`).
That `MaxChannels` is at least two (it is 500) is needed for the two channels every
server begins with.

`MessagePipelineProofs`. `PipelineInv` has seven parts. `TypeInv` says of each request which
message it is about and whether that has a row by then (`Placed`), that no two posts
share an id, and that a request publishes once and sends once, which is what bounds
the stream and the counters (`CountsOK`); that a notification is a delivery of the one
event that created its message (`PushedOK`) bounds `pushed`. `NotifiedOnce` adds to it that
while no event is given to a worker that has it waiting and no ack after a push is lost,
an inbox holds no event twice and none that is acknowledged, and what has been pushed is
acknowledged (`PushInv`), so that no message is pushed twice, through any number of
disconnects; it is the safety part of `EachConsumed`. `DeletionsToldTrue` needs that
what a request has deleted and not yet told of (`Removing`) stays deleted: nothing in
the code revives a row. `LimitsHold` needs `PinsLimited`, which counts the requests between
the count of the pins and the insertion, and `SlowOnce`: one send at a time is past the
check of a user, finds no message in its period until it inserts, and whoever has sent has
a key. `StoresSettle` has three: where mark and list of pins differ, the request that wrote
one is about to write the other (`PinsAgree`); a message newer than `last_message_id`
belongs to a send about to set it, and the one send between its id and that UPDATE
has the newest (`LastFollows`); and for the index (`IndexFollows`) the worker has got done
with a prefix of the stream and has the next events waiting in order, a message is live until its sender has published it, what
the worker added is found while live, and what is found or will be added although
deleted is told of by a later event or by a request that is about to publish one. Each
of these is claimed only without a failure and without the overlaps recorded for it, so
that the proof of a property shows which overlaps it has to except, and that it has to
except no other.

The assumptions the proofs use are the modules' own (`ConstantsAssumption`,
`SnowflakeAssumption`, `DataAssumption`, `NoneAssumption`): the bounds constants have in the
code, that at least one request can be served, finite sets where something is counted, and
that `None` is none of the values it stands beside. TLC evaluates them on every run.

Every invariant of every passing run is proved, and the refinement of `UniqueIds`. Only
model-checked: the liveness of `EachConsumed`, since liveness and fairness, and ENABLED, are
out of the prover's reach, as are facts by induction over data and about RECURSIVE
operators. The modules here use none.

## 6. Not modelled

- The token bucket of the rate limiter: one script over two numbers and a clock.
- The history's walk over its buckets and the bucket arithmetic, which read only.
- Voice states, applications and commands, moderation, devices, reactions, typing:
  single rows or keys, or calls of an external service.
- `touch_session` of the auth sessions and `dispatch_to_user` of the registry, which
  nothing calls.
- Hashing, signing and parsing; HTTP clients of push and search services; image
  processing; headers and text sanitising; configuration.

The components list in `PROJECT.json` names each with its reason.
