# cc2cc: models, checks and proofs

cc2cc lets Claude Code sessions send each other messages. A **hub** (Bun, one
process, one event loop) keeps registry and sockets in memory and queues, topics
and schedules in Redis. Each session runs a **plugin** (an MCP server with a
WebSocket to the hub). A **dashboard** (Next.js) shows events the hub emits and
calls its REST API. This directory holds TLA+ models of the three, TLC
configurations that check them, and TLAPS proofs about the message queues and their
migration, the records of who is connected, topics, schedules, the plugin's
connection and the dashboard.

All definitions are translated from the code in `src/`; `PROJECT.json` maps each
to its lines. Documents of the repository are used only as claims to be checked.

## 1. Inventory

The hub's handlers are `async`, and between two `await`s of Redis any other handler
may run; plugin and dashboard are event-driven in the same way, with a network
between them and the hub. There are no threads and no locks.

| Component | State | Operations | Hard because | Correct when | Model |
|---|---|---|---|---|---|
| Message queues (`hub/src/queue.ts`) | Redis lists `queue:{id}`, `processing:{id}` | `pushMessage`, `atomicFlushOne`, `ackProcessed`, `replayProcessing`, `flushQueue`, `migrateQueue` | every operation is several commands; crashes in between; several drains at once | nothing lost, no second copy, bounded, drained | MessageQueue, SessionMigration |
| Plugin connection lifecycle (`ws-handler.ts`) | `ws.data.instanceId`, a 5 s timer per connection | `onPluginOpen`, `onPluginClose`, `session_update`, delayed flush, message dispatch | late closes, identity changes under running handlers | registry, broadcast map, Redis agree with the sockets | Connections, MessageQueue, SessionMigration, Delivery, Topics |
| Registry (`registry.ts`) | map id → status, role, wsRef, queueDepth; key `instance:{id}` | `register`, `markOffline`, `setWsRef`, `setRole`, `setQueueDepth`, `deregister`, `hydrateOffline`, lookups | entry replaced while others await | online means reachable | Connections, MessageQueue, Delivery |
| Broadcast manager (`broadcast.ts`) | map id → socket; last broadcast per sender | `addPluginWs`, `removePluginWs`, `broadcast` | second copy of the registry's reference | names the registry's socket; everybody else hears it once | Connections, Delivery |
| Event bus (`event-bus.ts`) | set of dashboard sockets | `emitToDashboards` | events of different handlers reorder | what was told agrees with the hub | Connections, DashboardView |
| Rate limiter (`ws-handler.ts`) | map id → count, window | `checkRateLimit`, eviction | window boundary, full map, reset on close | bounded frames per window | RateLimits |
| Topics (`topic-manager.ts`) | hash, subscriber set, reverse index, `topics:index`; deletion timers in memory | create, delete, subscribe, unsubscribe, migrate, recover, publish | two indexes kept by separate commands; timers race subscribers | indexes agree; empty topics expire, others do not; each subscriber hears once | Topics, Delivery |
| Scheduler (`scheduler.ts`) | hash, `schedules:index`, sorted set `schedules:pending` | poll, create, update, delete, recover | three keys per schedule, poll races requests, crashes | fires when due, counted, survives a restart | Scheduler |
| Startup, shutdown (`index.ts`) | none of its own | re-hydrate, replay, recover topics and schedules, `routeMessage` | runs while connections are accepted | restart invisible to senders | in each module; the order of a graceful shutdown is left out |
| REST API (`api.ts`) | none of its own | routes for instances, queues, topics, schedules | check, await, act | does not undo what happened meanwhile | in each module |
| Authentication, validation (`auth.ts`, `validation.ts`, `packages/shared/src/schema.ts`) | none | predicates | – | a refusal is answered, or the caller times out | partly: a refusal may happen (PluginConnection, Scheduler) |
| Configuration, Redis client (`config.ts`, `redis.ts`) | one connection | – | answers in order | – | partly: InOrder |
| Shared types and events (`packages/shared/src`) | none | – | – | – | partly: what properties tell apart |
| Plugin hub connection (`plugin/src/connection.ts`) | socket, backoff, reconnect timer, pending requests | `connect`, `send`, `request`, `destroy` | timeout against late answer; reconnect; destroy | what is pending outlives the socket it went by; a destroyed connection stays closed | PluginConnection |
| Session watcher (`plugin/src/session-watcher.ts`) | current session, connection, `active` | file event handler | a change during an update; an unheard answer; the swap | one live identity, the file's, known to the hub | PluginConnection |
| Plugin server and tools (`plugin/src/tools.ts`, `channel.ts`, `index.ts`) | none | one request each | – | – | partly: PluginConnection |
| Dashboard live view (`ws-provider.tsx`, `use-reconnecting-ws.ts`, `use-plugin-ws.ts`) | instances, topics, schedules, tasks, feed; two sockets; requests | one reducer per event, REST seeds, requests | seeds race events, events race each other, sockets close | shows what the hub has; no caller hangs | Connections (instance list), DashboardView, FeedViews |
| Dashboard pages | forms, filters, picks, a drag | topics and schedules pages, send bar; feed, conversations, graph, timeline | read a feed that drops its oldest; nodes vanish while dragged | pages agree with each other | partly: DashboardView, FeedViews |
| Dashboard proxy (`app/api/hub`) | none | forwards requests | – | – | not modelled |
| Skill, hooks, scripts | none | – | – | – | not modelled |

How they interact. A plugin opens a socket: the hub registers it, joins it to its
project's topic, emits `instance:joined`, and after 5 s flushes its queue. A message
is always pushed to the recipient's queue and, if the recipient's socket is open, also
sent live; the plugin may pull its queue with `get_messages`. A message may name one
instance, a project (its online instances), a role or a topic, or be broadcast. A
schedule that is due goes through `routeMessage` (`index.ts`), which does the same. When
Claude Code changes its session, a hook writes the session file, the session watcher
sends `session_update`, the hub migrates queue, registry entry, broadcast entry and
subscriptions to the new id and answers, and the watcher opens a connection under the
new id and destroys the old one. Everything that changes is announced to dashboards,
which seed themselves over REST and may send messages through a plugin socket of their
own.

`PROJECT.json` lists, under `hazards`, what in this code is hard to test, at
the line where it bites, with the properties that cover it.

## 2. Modules

    RedisLists         Redis list commands as operators on sequences
    Mailbox            what the queues promise, without Redis
    MessageQueue       the queues                          EXTENDS RedisLists
    SessionMigration   migrateQueue under a session_update EXTENDS RedisLists
    InOrder            the one Redis connection
    Connections        registry, sockets, presence         EXTENDS InOrder
    Topics             topics and their timers             EXTENDS InOrder
    Scheduler          schedules                           EXTENDS InOrder
    Delivery           who gets a message with many recipients, EXTENDS InOrder
    RateLimits         the frame limiter
    PluginConnection   the plugin: connection and session watcher
    DashboardView      the dashboard's copy of the hub, its requests and pages
    FeedViews          the feed and the pages that are functions of it
    *_proofs           theorems
    MC*                instances for TLC

**How handlers become actions.** A handler runs without interruption from one
`await` to the next. An action is one such stretch: it starts where a Redis command
takes effect and its handler resumes, and ends by naming, in the program
counter, the command that is awaited next. An early return ends the handler.

**Two views of Redis.** ioredis uses one connection, so commands take
effect, and handlers resume, in the order in which they were issued. `InOrder` is
that line of waiting handlers; Connections, Topics, Scheduler and Delivery use it,
because without it they would show races that cannot happen. MessageQueue and
SessionMigration let the commands of different handlers interleave in any
order: they allow more than the code does, so their safety properties, and the
theorems, hold of the code whatever the client does, and their
violation runs use few enough handlers for the order not to matter (one handler's
commands and a crash, or one handler after another).

**Several modules in one run.** MCPluginDelivery (PluginConnection, Delivery, RateLimits)
and MCDashboardView (with FeedViews) check modules that share no state; the variable
`about` chooses the one that a behaviour steps, so no interleavings of independent parts
are enumerated.

### MessageQueue and Mailbox

`queue`, `processing` and `presence` are the Redis keys; `status`, `wsRef`, `depth` the
registry entry as far as the queues look at it; `push[m]` the program counter of
`pushMessage`, `pc[w]` that of a draining handler `w`, which is the flush of a
socket or a `get_messages` request. Actions: `PushMessage` (RPUSH), `TrimQueue` (LPOP
on the depth the RPUSH returned), `DeliverLive` (back in the handler);
`OpenRegister`, `OpenAttach`, `FlushTimer`, `PeerDies`, `CloseMarkOffline`,
`CloseDetach`; `GetMessages`, `AtomicFlushOne` (RPOPLPUSH), `FlushSend`,
`FlushSendThrows`, `AckProcessed` (LREM), `GetQueueDepth`, `ReportDepth`;
`FlushQueue`, `FlushQueueDone` (the DELETE route); `Crash`, `HydrateOffline`,
`ReplayProcessing`. The replay visits every id where the code visits those with a
list; an empty list costs one step without effect.

The histories `handed`, `discarded`, `received`, `replayed` record where a message
went. A message is *handed* when it is given to `ws.send` or put into a
`get_messages` reply, *received* when the plugin at the other end was alive then. It is
*stranded* when the `ws.send` of a flush throws: the handler drops it, reports the depth
and ends, and the message stays in the processing list, held by nobody, until the next
start of the hub.

`Mailbox` is the promise: accept, hand over (again), settle what was handed over,
discard. There, a crash, a replay and the order of commands are stutters.

### Connections

The registry entry, the broadcast map, the presence keys, `ws.data.instanceId` of each
socket and the instance list of a dashboard. One socket may die, unseen, while
another opens under the same id; a `session_update` may name any id; a removal may
race a reconnect; the hub has just started and still scans Redis. The awaits of
the topic manager and the queues, which change nothing here, are any number of
turns in the line.

### SessionMigration

`migrateQueue` command by command: the processing list first, then LLEN of the old and
the new queue, then RENAME or a loop of RPOPLPUSH, then the new identity; with
senders pushing to both ids and a drain that began under the old one. It may
start with a message left in the processing list by a send that failed. The watcher asks
for a new session when its last request has settled (`active`), so updates come one after
another, any number of them, unless a request settles before the hub has answered it:
`MayGiveUp`. The cap, TTLs and crashes are left to MessageQueue.

### Topics

The hash of a topic (only whether it exists and may expire), its subscribers, the reverse
index, `topics:index`, and the set of topics with a running timer. A request is one
of: create (two kinds), join of the project topic by a connecting plugin, subscribe
and unsubscribe by a plugin (no check) or by the REST API (404 first), delete,
removal of an instance, `session_update`; `op` holds what it asks for and `pc` the
command awaited. The handler of a topic's timer is named by the topic, and a topic's
timer does not fire again before its handler has ended (an hour against
milliseconds). Initially Redis holds anything in which the indexes agree, as a
stopped hub left it, and the startup scan may run at any time. There is no
crash action: a crash in the middle of a request leaves the indexes apart, which
`IndexesAgree` does not claim otherwise.

`skewed` collects the pairs of topic and instance changed by two operations at once
when one of them is a deletion, a removal or a `session_update`; for these
the indexes may end up apart, and a ghost subscriber may stay. A `session_update` that
takes the topics of such an identity to a new one takes the doubt with it
(`Doubtful`). The
property says that this is the only way: subscribes, unsubscribes, joins, creations, timers
and the startup scan never do that to each other. A plugin that tries to
leave its own project topic is refused; this guard is left out,
since the removal of an instance and the REST API do the same without it.

### Scheduler

`hash`, `index` and `score` are the three Redis structures; `leftover` marks
hashes that a poll's HSET made after a delete. An expression is a period and fires
at its multiples; `now` ticks, and `polledAt` is the `now` a poll captured. Polls,
requests (create, which may be refused, update, delete), the recovery and crashes at
any command are actions. An update gives a name, a limit, a minute of expiry, no limit,
an expression or `enabled`, the last two together too. `RouteFails` is `routeMessage`
throwing, before it has reached anyone or half-way through its recipients; the latter and
the crashes are the `mishaps` after which a fire may not be counted. A record's `limitedAt`
is history, the count at which an update set the limit: since the update does not look at
the count, a schedule may then be at or beyond its limit until its next fire. `overlapped`
collects the schedules that two handlers had in hand at once; for these the code
guarantees little (an update writes back the whole record it read, two polls both
fire), and the properties exclude them. A schedule that a poll has listed and not read
yet is *not* excluded: the poll must notice that it was paused or deleted meanwhile,
and it does. But the poll trusts the list for the time: a schedule that is rescheduled in
that window fires early, once, and so does one that is resumed when its pause was cut
by a crash before the pending set changed. `FiresWhenDue` says that a schedule which is
listed has no other early fires; one that is not listed is never looked at by the
recovery and keeps whatever score a crash left it.

### Delivery and RateLimits

Delivery follows one message with many recipients: to a role, a topic, everybody, a
full or a partial address, sent by a plugin's frame or by the scheduler's
`routeMessage`; and `set_role`, which tells everybody. What matters is when each
of these looks at the registry. A role is resolved at once and each recipient's
socket looked up after its own push; a topic's sockets are looked up *before* the
awaited SMEMBERS and used after it; a broadcast reads the map of sockets without any
await. Meanwhile sockets open (`OpenRegister`, `OpenAttach`) and close
(`CloseMarkOffline`, `CloseDetach`), and instances subscribe, leave and declare
roles. A call's record keeps what it looked up (`refs`), whom it still has to serve
(`todo`) and what it will answer; `recipients`, `copies`, `sent`, `steady` and
`declared` are histories: to whom it was owed, what was queued and sent, and who
was connected, or had a role, all the time. `Limited` is a broadcast refused by the
5 s limit per sender.

RateLimits has the limiter's map as a function from an id to its count, the start of its
window and `since`, the number of the frame that made the entry: JavaScript walks a Map
in the order of insertion, so the least `since` is the entry it evicts first. `log`
(the frames, when they came and whether they passed) and `dropped` (the ids whose
entry was evicted or went with a socket) are histories.

### PluginConnection

A plugin with its session file. `watching`, `file` and `event` are the watcher and its
`fs.watchFile` callback; `session` is the identity, `conn` the connection in use and
`updating` the request the watcher awaits (`active`). Each connection has a socket
that is `none`, `connecting`, `open` or waits to `retry`. Each request has a promise
and a frame: `sent`, `answered`, or `orphan`, when the socket that carried it has
gone and the hub may handle it yet, to nobody's knowledge. `hubId` is the id that the hub gives the socket, `home` the id whose
queue holds what was sent to this session. Actions: `SocketOpens`, `ConnectFails`,
`SocketCloses`, `Reconnect`; `ToolCall`, `FetchEnds`, `AnswerArrives`, `Timeout`;
`SessionFileChanges` (the hook, outside the program), `EventIgnored`, `NothingNew`,
`SessionUpdate`, `SessionUpdated`; and, of the hub, `HubAnswers`, `HubGoesOn` (it
carries out a frame whose answer nobody awaits) and `HubSilent` (a frame it drops).
A session may be *malformed*: an id the hub refuses. `missed` says that a change of
the file was ignored because an update was in progress, or that the file appeared when
`pollSessionFile` had read it for the last time and `fs.watchFile` had not yet looked at
it, so the plugin runs under a random id; `unheard` that the hub
carried out an update whose answer came too late.

### DashboardView and FeedViews

In DashboardView an operation of the hub changes its state at one moment and
emits its event at a later one, in any order with other operations' events; what
happens between is the subject of the modules above. The dashboard's socket carries
events in order and may close, losing those on their way and those emitted while it
is down. REST seeds read the hub and are merged later, with the merge of each kind
of seed as the code does it. Part of the view are instances, a topic, schedules or
tasks; they share nothing but the socket, so each behaviour is about one `part`. A
page's handler (create, delete, subscribe, toggle, fire now) awaits a REST answer, or
a request by the plugin socket, which closes and reopens on its own. `behind` is what
the dashboard could not know, and `stray` that the topic's count was changed by an
event that changed no member.

FeedViews has the feed (`told` is everything, `feed` what is kept), the pages that are
functions of it, as sets of its entries: the filters, the graph's edges, the threads of
a conversation, the timeline's dots; and the pages with state of their own: the clock of
the timeline (`nowMs`, which `TimelineRefreshes` sets every 5 s and which lags behind the
feed in between), the picker of two instances and the drag of a node in the graph.

## 3. Runs

State counts are of distinct states.

| Run | Instance | Shows |
|---|---|---|
| `queue_safety` | 2 messages, 1 id, 1 socket, 1 `get_messages` of up to 2, cap 1, 1 crash, 1 admin flush; about 730 000 states | TypeOK, SingleCopy, NothingLost, ProcessingOwned, OnceUntilReplay, OverflowBounded, ImplementsMailbox |
| `queue_live` | 2 messages, 1 socket, 2 `get_messages`, cap 1, no crash; about 570 000 states | FlushDrains, CapRestored |
| `queue_at_least_once` | 1 message, 1 crash | **violates** AtLeastOnce |
| `connections` | 2 ids, 2 sockets, 1 update, 1 removal, startup scan | TypeOK, RecordsAgree, OnlineIsShown |
| `connections_late_close` | 1 id, 2 sockets | **violates** ConnectedIsOnline |
| `migration` | 3 messages, 2 ids, 2 updates one after the other, 1 drain; about 790 000 states | TypeOK, NoneLostOrCopied, MigratesAll, MigrationEnds |
| `migration_retry` | 1 message, 2 ids, 2 updates, the first of them given up | **violates** UpdateAnswered |
| `topics` | 1 topic, 2 instances, any 2 requests, timer, startup scan; about 820 000 states | TypeOK, IndexesAgree, NoTimerWhileSubscribed, TimerSparesSubscribers, LastLeaverExpires |
| `scheduler` | 2 schedules, 1 poll, 1 request, 1 mishap (crash or half-way route), minutes 0 to 2; about 870 000 states | TypeOK, ListedArePending, CountsFires, FiresWhenDue, DueIsHandled |
| `plugin_delivery` | plugin: 3 sessions, one malformed, 3 connections, 2 requests at a time, 2 file changes, 1 lost socket; delivery: 2 instances sharing an address, 2 sockets each, 1 call; limiter: 3 ids, map of 2, 2 frames per window of 2, 5 arrivals; about 2.8 million states | TypeOK, OneLiveConnection, SessionFollowsFile, HubKnowsIdentity, DeliveryTypeOK, EveryRecipientOnce, CountsAgree, LimiterBounds |
| `limiter_sliding` | 1 id, 2 frames per window of 2, 4 arrivals | **violates** AtMostPerWindow |
| `dashboard` | 2 instances, 1 task, 1 fetch, 3 operations of the hub, 1 lost socket; feed of 3, 4 messages, 3 peers; about 2.5 million states | TypeOK, UpToDate, NoneHangs, ViewsAgree, GesturesEnd |

What the properties say:

- *SingleCopy*: no interleaving of pushes, drains, replays and crashes gives a message a
  second copy. *NothingLost*: between the lists nothing falls through.
  *ProcessingOwned*: an entry in a processing list has a handler between its pop and its
  LREM, or a replay to come, or was left by a send that threw; and what was left so is
  still there when the next start looks for it. *OnceUntilReplay*: two drains never hand over the same message; a second
  delivery from the queue needs a crash. *OverflowBounded*: how far a queue exceeds
  its cap, and why. *ImplementsMailbox*: the refinement.
- *FlushDrains*: the flush of a socket that stays open empties the queue although other
  drains take messages out of it. *CapRestored*: an over-full queue comes back.
- *RecordsAgree, OnlineIsShown*: at rest, that is when every command has been
  answered, the four records of who is connected and the dashboard's list agree, with
  the exceptions their comments name.
- *NoneLostOrCopied*: a migration makes no second copy, and loses nothing but a push to
  the new id between LLEN and RENAME. *MigratesAll, MigrationEnds*: what waited for the
  old id is under the new one when the socket takes it, and a migration to another id
  ends.
- *IndexesAgree, NoTimerWhileSubscribed, TimerSparesSubscribers, LastLeaverExpires*:
  the indexes agree, timers run only for empty topics and delete nobody who
  subscribed before the handler counted, and the last leave ends in deletion.
- *ListedArePending, CountsFires, FiresWhenDue, DueIsHandled*: crashes anywhere leave
  schedules the recovery makes whole; fires are counted, happen when due and enabled,
  none but the last takes the count to the limit, or further where an update set the limit
  at or below the count (`Within`), and what is due is handled although routing may fail.
- *OneLiveConnection*: no connection but the one in use has a socket or a timer that
  would open one, however reconnects and swaps interleave. *SessionFollowsFile*: the
  plugin has the session of its file or is asking for it, except for changes that came
  during an update or before the watcher's first look. *HubKnowsIdentity*: hub and plugin agree on the identity and on the
  queue that holds its messages, except while an update is under way or after one went
  unheard.
- *EveryRecipientOnce*: every recipient has the message once in its queue and at most
  once live, and live if it was connected throughout, although sockets are replaced
  between the lookup and the send. *CountsAgree*: what the sender is told is what was
  done. *LimiterBounds*: fewer than twice the limit of an id's frames pass within
  the length of a window, even around a boundary; a frame is dropped only after the
  limit was used up; the map stays within its bound.
- *UpToDate*: a view that was told of every operation shows what the hub has, except
  for what `behind` names; this lists all the ways in which a dashboard goes stale.
  *NoneHangs*: "Reject all in-flight requests so callers don't hang"
  (`use-plugin-ws.ts`), of callers and of pages that await them.
- *ViewsAgree*: the pages show the same messages, each in one place: edges count what
  the feed lists, each message is in one thread, filters split the feed, and each entry
  that the timeline's clock has reached, and its window still holds, has one dot; what was
  received since the clock was read has none. *GesturesEnd*: two different instances are picked, and with
  no button down no node is held, although nodes come and go during the drag.

**Bounds.** They are in the configurations and in the constants marked `bound`.
A cap of 1 makes two messages overflow it; two ids make a migration and a confusion of ids
possible; two sockets a late close; one crash a replay (a second one repeats it from a
state the first already allows); two pulls and a flush drains that interleave on one queue; two updates in a row what the first
leaves to the second; two requests every pairwise race in Topics; two
schedules a poll whose list grows stale; three minutes a schedule that fires twice,
reaches its limit and expires, and, with a limit of 1 among the values, one that is
given a limit it has reached. In `plugin_delivery` two changes of the file make one that comes
during an update and one that repairs it; three connections are the first, its
successor and one more; two requests let an update race a tool's call, and
a request is used again, so late answers meet new calls. Two sockets per
instance make a reconnect between lookup and send; a map of two with three ids makes an
eviction, five arrivals a full window on each side of a boundary. In `dashboard` three
operations make an event overtaken by another one with a seed between, and a feed of
three that is told four messages drops one that a later one replies to.
`queue_safety` uses symmetry and a VIEW without the cached depths and the history
`received`, which no guard reads and no property of that run but TypeOK (and that one
is proved). `connections`, `plugin_delivery` and `dashboard`, which check only safety, use the symmetry
of instances (`connections` also of sockets); `queue_live`, `migration`, `topics` and `scheduler` check liveness and use none.

**CHECK_DEADLOCK FALSE.** Messages, sockets, requests, crashes, minutes, operations and
arrivals are used up, and a hub with nothing to do is idle: stopping is legitimate.

**Fairness.** Redis answers and the event loop runs (weak fairness of each started
handler, or of the head of the line), timers fire and the poll repeats (`setTimeout`,
`setInterval`), and a message that is routed again and again is routed in the end
(strong fairness of `RouteSucceeds`, only used by DueIsHandled: without it a
schedule is retried for ever, as the code intends). PluginConnection and the other
modules of safety properties assume none. Nothing obliges plugins, peers or administrators
to act, and nothing prevents a crash within its bound. `queue_live` has no crash: with
arbitrary interleaving, a replay and a flush whose sends throw can pass one message
back and forth in an order the one connection does not allow for ever.

## 4. Findings

1. `queue_at_least_once`: `get_messages` acknowledges to Redis before its reply
   is sent; a crash in between loses messages the README says are never lost.
2. `connections_late_close`: `onPluginClose` acts on the id, so the late close of an old
   socket takes a reconnected instance offline; every change of session does so.
3. `migration_retry`: a repeated `session_update` migrates a queue onto itself
   and never ends.
4. `limiter_sliding`: the frame limiter's windows are fixed, where `ws-handler.ts:32` and
   `docs/ARCHITECTURE.md:391` say sliding: up to twice the limit passes within 10 s.

Noticed while reading, and kept out of the runs (the models do as the code does):

- RPUSH and RPOPLPUSH work at the same end of a queue, so its messages are delivered
  newest first (`hub/src/queue.ts:66`); `plugin/src/index.ts:198` says oldest first.
- `maxFireCount: null` is answered as done and changes nothing
  (`hub/src/scheduler.ts:161`; `docs/REST_API.md:471`).
- A schedule whose `maxFireCount` is set to what it has fired already is not deleted
  (`packages/shared/src/types.ts:116`, "auto-delete when reached") but fires once more
  (`scheduler.ts:404`); CountsFires allows it.
- Two `session_update`s at once can lose messages: the second RENAME replaces what the
  first one moved. The watcher sends one at a time, but gives up on one after 10 s.
- A session file that appears between the last read of `pollSessionFile` and the first look
  of `fs.watchFile` goes unnoticed until it changes (`plugin/src/config.ts:70`).
- A message has no dot on the timeline until the page's clock is refreshed, up to 5 s later
  (`activity-timeline.tsx:59`, `:82`).
- When `routeMessage` throws half-way through its recipients, those it reached get the
  message again at the next poll (`scheduler.ts:253`).
- The watcher adopts the new session whatever the answer says. After a refused id it
  connects under that id, which the hub turns away until the session changes again.
  Other tools than `unsubscribe_topic` also return an error answer as a success
  (`plugin/src/tools.ts:203`).
- After a change of session the hub keeps the old id, offline, while dashboards drop it.
- A topic deleted by its timer is not announced (`topic-manager.ts:44`), and neither are the
  subscriptions a `session_update` moves. `topic:unsubscribed` is emitted for
  non-members too, and dashboards decrement their count (`ws-provider.tsx:332`).
  Seeds add and overwrite, and remove nothing; a reconnected dashboard does not seed
  itself again.
- A schedule to a partial address pushes to a queue named by that address, which nobody
  drains. Scheduled broadcasts share one sender's 5 s limit, and `routeMessage` ignores
  the refusal (`index.ts:75`).
- A failed "fire now" leaves the form of the schedules page open; trying again makes a
  second schedule.
- `broadcast:sent` carries no message id, so replies to it do not join its thread
  (`ws-provider.tsx:250`); a reply to a reply makes a thread of its own
  (`conversation-view.tsx:26`).
- A second mouse button pressed during a drag leaves the first node pinned
  (`graph/page.tsx:502`).

## 5. Proofs

`RedisLists_proofs` proves, for every sequence, what the list commands do to elements, to
distinctness, to length and to the order of two elements (`Precedes`): the last is what
the proofs about the line of handlers rest on. The theorems hold for any values of the
constants that satisfy the module's one assumption (`QueueAssumptions`,
`MigrationAssumptions`, `ConnectionAssumptions`, `TopicAssumptions`,
`SchedulerAssumptions`, `PluginAssumptions`, `DeliveryAssumptions`, `LimiterAssumptions`,
`DashboardAssumptions`, `FeedAssumptions`), which TLC evaluates in the module's runs. Two
modules of proofs are about several components, whose names do not meet. Each inductive invariant was checked by TLC before it was proved.

**MessageQueue_proofs**, for any messages, ids, sockets, requests, cap and crashes:

- `TypeSafety`: `Spec => []TypeOK`. The invariant is `TInv`: the types, what each program
  counter implies about the handler's socket and held message (`WorkerInv`), and that a
  pushed message has a recipient (`PushInv`). Types alone are not inductive: `AckProcessed`
  needs to know that `held` is a message and `via` a socket with an owner.
- `SingleCopySafety`: `Spec => []SingleCopy`, from `TInv`: a message is pushed
  once (`PushInv` says a new one is nowhere), RPOPLPUSH takes it from the one
  list it is in, and both lists of an id hold only what was sent to it.
- `Refinement`: `Spec => ImplementsMailbox`. Initial states map to initial states, and
  each action maps to a Mailbox step or a stutter. It needs SingleCopy, since LREM
  removes the *first* copy and the Mailbox's `Settle` the message, and `HeldInv`: a
  flush holds only what was pushed.
- `NothingLostSafety`: `Spec => []NothingLost`, from the refinement and the Mailbox's
  own invariant.
- `ProcessingOwnedSafety`: an entry of a processing list has a holder, a replay to
  come, or is what a failed send left, and that stays until it is replayed. `IdleInv` supplies what the property does not say: the socket of a running handler
  is not free, and a handler that has not popped yet holds nothing, so a step that gives a
  socket a new owner (`OwnerStays`) never takes the entry of a running handler from it.
- `OnceSafety`: no second hand-over before a replay. `HoldInv`: a message
  has one holder, in whose processing list it is unless it was replayed; `HandedInv`:
  only what was pushed is handed over.
- `OverflowSafety`: `OverflowBounded` is not inductive, since a replayed message that
  is in a processing list comes back later. `CapInv` counts it only while it is out of
  there (`Back`), and knows that what was pushed is a finite set.

**SessionMigration_proofs**:

- `TypeSafety` (`TInv`: types and `HandlerInv`, what each program counter implies).
- `CopySafety`: for any number of overlapping updates, no second copy (`CopyInv` is
  `OneCopy` and, as above, that a message not pushed is nowhere).
- `MigrationSafety`: `~MayGiveUp /\ Spec => []NoneLostOrCopied`, for any number of
  updates. `OneAtATime`, that no two are in progress, is an invariant then, by the watcher's
  `active` guard. `RenameInv`: between LLEN and RENAME, all that the RENAME
  will replace was pushed after the LLEN, and `raced` knows it. The hypothesis is needed:
  with two updates at once TLC finds a loss (section 4). The code has it as long as the hub
  answers within 10 s and the socket stays open.
- `MigratesSafety`: MigratesAll, likewise. `PendingInv` follows what waited for the old identity
  through the parts of migrateQueue: once the processing list has been emptied only drains
  put something there, once the queue has been only senders do, and nothing that waited
  came between LLEN and RENAME, so what RENAME replaces is none of it.

**Connections_proofs**, for any numbers of instances, sockets, updates and removals:

- `TypeSafety`: `TInv` adds to the types who is in the line (`LineInv`) and which
  instance each handler is about (`ArgumentInv`).
- `RecordsSafety` and `ShownSafety`: RecordsAgree and OnlineIsShown speak of the hub at
  rest; `RecordsInv` says what holds while handlers are under way. An instance that is
  online without a socket, a presence key or a place in the dashboard's list has a handler
  in the line that will supply it; one that is offline but attached has one that will
  detach it; and (`Followed`) *whoever is yet to undo a change has behind it in the line
  whoever made the later one*. That order is what the one Redis connection gives, and
  without it the invariant, and the properties, fail.

**Topics_proofs**, for any numbers of topics, instances and requests:

- `TypeSafety`: `TInv` has the line, the commands of each operation (`PartOf`) and the
  arguments it needs (`OpInv`).
- `SparesSafety`: TimerSparesSubscribers is an action property; `SpareInv` says that what a
  timer's handler will delete was counted by it.
- `AgreeSafety`: IndexesAgree. `PairInv` says of each pair of topic and instance what a
  half-done operation knows (`HalfDone`). Several subscribes and unsubscribes of a pair
  may be half done at once, and only the last of them in the line can tell what the index
  holds (`LastAbout`): the others are overtaken. TLC's run with one topic had hidden that
  IndexesAgree is false with two, when doubt about an identity is not passed on to the one
  that replaces it; the proof attempt found it, and `Doubtful` is the repair.
- `NoTimerSafety`: NoTimerWhileSubscribed. `TimerInv`: a subscriber whose topic has a timer,
  or an unsubscribe about to set one, has not finished to subscribe, and comes behind it.

**Scheduler_proofs**, for any schedules, requests, crashes and time, with crashes at any
command:

- `TypeSafety` (`TInv`: which commands each kind of handler issues, and what it has in hand).
- `PendingSafety` and `CountSafety`: ListedArePending and CountsFires, both from
  `ScheduleInv`: a schedule that nobody works on is whole, within its limit and counted
  (`Idle`); one that a handler works on is so as far as that handler has got (`Phase`).
  A crash may leave it anywhere; it is whole again once the recovery has `Visited` it.
- `PunctualSafety`: `(\A p, r \in Polls : p = r) /\ Spec => FiresWhenDue`. `PunctualInv`: what
  a poll has listed is not early. Two polls at once do fire early: one lists what the other
  is about to advance. The code starts a poll every 30 s whether or not the last one has
  ended (`scheduler.ts:201`), so the hypothesis is that a poll takes less.

**Delivery_proofs**, of the plugin's end of the wire (PluginConnection), for any numbers of
sessions, connections and requests:

- `TypeSafety` (`TInv`: types; `CallInv`, an update that waits is the one the
  watcher awaits; `UpdatingInv`, and the converse; `UrlInv`, the URL of the connection in
  use carries the plugin's identity).
- `OneLiveSafety`: OneLiveConnection is inductive with `TInv`.
- `FollowSafety`: `FollowInv` adds what holds while an update is awaited: it asks for the
  file's session, unless the file has changed since, which is reported or missed.
- `IdentitySafety`: `HubInv` adds what holds *during* an update: a frame that can still be
  answered belongs to the connection in use, and once the hub has answered an update the
  queue is under the new id, before that under the plugin's.

of the limiter (RateLimits), for any limit, window, cap of the map, ids, frames and time:

- `LimiterSafety`: LimiterBounds speaks of any stretch of time as long as a window,
  the code of windows that begin when it says. `LimiterInv` ties the two: for an id that
  was never dropped, the entry's count is the number of its frames that passed since its
  window began, none passed after the window ended, and in the length of a window before
  it fewer than the limit did. For other ids the count is no more than what passed.

and of Delivery, for any numbers of instances, sockets and calls that overlap:

- `DeliveryTypeSafety`, `RecipientSafety` and `CountsSafety`, from `DeliveryInv`. Both
  properties speak of a call that has ended; what the invariant adds is what it has done
  so far. `SocketInv`: an entry that is attached names the socket of the broadcast map, and
  who declared the role has it. `OrderInv`: nothing waits that would change the entry of
  an attached instance, nor anything of the same instance behind the open of its current
  socket, so who is attached stays so until the socket closes; that is again the order of
  the one Redis connection. `SteadyInv`: whoever kept its socket since the call began is
  attached, by the socket that a topic's call looked up. `CallsInv`: nobody has two
  copies, those still to do and the sender none (`Copied`); between two recipients the
  others have what they are owed, and the counts are theirs (`Between`); while one is
  served, its copy in the queue is made but not counted yet (`Serving`).

**DashboardView_proofs**, for any instances, tasks, numbers of requests, operations of the
hub and lost sockets:

- `TypeSafety`: `TInv` adds to the types which events a part of the hub sends (`EventOK`)
  and that what a behaviour is not about stays as it was (`PartOK`).
- `UpToDateSafety`: UpToDate speaks of a view that was told of everything; `ViewInv` says
  what it has while events are `coming`, those in the socket and then those of operations
  in progress, in one sequence. An event that a later one overtook is `late`; behind the
  last late one the order is that of the operations, so the last event about an instance
  tells what the hub has (`InstanceOK`), a deletion of the topic is followed by a creation
  (`TopicOrder`), a schedule is told in full by all but a fire (`ScheduleOrder`), and
  a task is told of once (`TaskOK`). The view, and each snapshot that no event crossed, is
  the hub's state but for what those events change (`Agrees`, `Lacks`). A step of the socket
  moves events and loses some: `Moves`, `Crosses` and `Loses` say which facts outlast
  it, whichever part they are about. An event that someone left says nothing to a view
  that has not seen them, which is why InstanceOK also has what precedes it.
- `HangSafety`: NoneHangs is inductive by itself.
- `GesturesSafety`, of FeedViews and for any instances: GesturesEnd, from `GestureInv`: a node
  that is pinned is the one dragged, and without a button down there is none, whatever
  nodes came and went meanwhile.
- `ViewsSafety`, of FeedViews and for any size of the feed, window and messages: ViewsAgree.
  The feed is the end of what was told, in its order, which is inductive once told is
  known to be a sequence (`LatestInv`); the agreement of the pages follows from what
  entries can look like (`EntryOK`). `TotalLemma` counts without an induction: a
  bijection takes each direct message to its edge and its number there.

Only model-checked: liveness and whatever is stated with fairness (FlushDrains, CapRestored,
MigrationEnds, LastLeaverExpires, DueIsHandled), which is beyond the prover.

## 6. Not modelled

Key TTLs (24 h, 1 h for an offline instance) and Redis failures: a rejected command ends
its handler with a log line, anywhere. Statistics, log output and message contents.
The predicates on strings of authentication and validation, which change nothing when they
fail; that they may fail is modelled where it matters. Queue entries that are not
JSON, which `pushMessage` never writes. The parsing of intervals and irregular cron
expressions. The order of a graceful shutdown, which the models treat as a stop at any
command. The dashboard's proxy, which forwards requests and keeps nothing; the skill, the
hooks and the scripts, whose one effect is a new session file. Schemas and texts of the
tools and the notifications to Claude Code. Layout, drawing and physics of the pages.

## 7. What is left

1. Proofs about pairs of components: that a queue's drain in MessageQueue is what Delivery
   and SessionMigration rely on, as refinements of one abstract queue.
2. Two updates at once in `migration` (`MayGiveUp`), with a history of what the second RENAME
   replaces, to bound the loss of section 4; two polls in `scheduler`.
3. Delivery with a third instance and two calls, whose states are too many for now.
4. `parseSimpleInterval` and `validateMinInterval` as operators against a reference
   definition.
5. The order of a graceful shutdown against handlers in progress.
