----------------------------- MODULE DashboardView -----------------------------
(***************************************************************************)
(* The dashboard's live view (dashboard/src/components/ws-provider): a copy *)
(* of the hub's instances, of a topic, of a schedule and of the open tasks, *)
(* made from REST snapshots ("seeds") and from the events of a socket that  *)
(* closes and reopens (hooks/use-reconnecting-ws.ts); the pages that change *)
(* schedules and topics over REST; and the requests that the dashboard sends *)
(* by its plugin socket (hooks/use-plugin-ws.ts).                           *)
(*                                                                         *)
(* Of the hub, an operation changes its state at one moment and emits its   *)
(* event at a later one, in any order with the events of other operations:  *)
(* the awaits between are the subject of Connections, Topics and Scheduler. *)
(* The feed of messages, queue depths and roles are left out.  The parts of *)
(* the view share nothing but the socket: a behaviour is about one of them. *)
(***************************************************************************)
EXTENDS Integers, FiniteSets, Sequences

CONSTANTS
  Instances,    \* instance ids
  Tasks,        \* messages of type task
  Fetches,      \* GET requests in progress at a time
  MaxOps,       \* operations of the hub
  MaxCloses,    \* sockets lost
  None

ASSUME DashboardAssumptions ==
  /\ IsFiniteSet(Instances) /\ MaxOps \in Nat /\ MaxCloses \in Nat
  /\ Tasks \cap (Instances \cup {"topic", "schedule"}) = {}
  /\ None \notin Instances \cup Tasks
  /\ \A S \in SUBSET Instances : S # None
  /\ None \notin [enabled : BOOLEAN, fires : Nat]
  /\ None \notin [count : Nat, subscribers : SUBSET Instances]

VARIABLES
  part,         \* what the behaviour is about
  instances,    \* hub: status of each instance
  members,      \* hub: subscribers of the topic, None if there is no topic
  schedule,     \* hub: the schedule, or None
  tasks,        \* hub: "new", "sent" or, when its result was sent, "closed"
  emitting,     \* hub: events of operations in progress, oldest operation first
  socket,       \* the dashboard socket
  stream,       \* events on their way in it
  vInstances, vTopic, vSchedule,   \* the view
  pendingTaskIds, activeTasks,
  fetch,        \* GET requests
  seeded,       \* fetchInstances was called: it is once
  behind,       \* history: what the view is not told
  stray,        \* history: the topic's count is off
  page,         \* a page's handler
  plug, request, \* the plugin socket, the request in pendingRef
  ops, closes

hub    == <<part, instances, members, schedule, tasks>>
wire   == <<emitting, socket, stream>>
shown  == <<vInstances, vTopic, vSchedule, pendingTaskIds, activeTasks>>
view   == <<shown, behind, stray>>
seeds  == <<fetch, seeded>>
sender == <<page, plug, request>>
bounds == <<ops, closes>>
vars   == <<hub, wire, view, seeds, sender, bounds>>

Statuses == {"absent", "online", "offline"}
Keys  == Instances \cup Tasks \cup {"topic", "schedule"}
Parts == {"instances", "topics", "schedules", "tasks"}

(* An event: keys names what it is about, data what it carries.  seen is    *)
(* history, the snapshots older than its operation; late, too: the event of *)
(* a later operation was emitted before, or it is none at all ("silent").   *)
Event(kind, keys, id, data) ==
  [kind |-> kind, keys |-> keys, id |-> id, data |-> data,
   seen |-> { f \in Fetches : \/ fetch[f].step = "answered"
                               \/ (fetch[f].step = "counted" /\ kind \in {"deleted", "silent"}) },
   late |-> kind = "silent"]

NoFetch == [step |-> "idle", list |-> None, count |-> 0, crossed |-> {}]

(* Events that did not reach the view before snapshots older than them.     *)
Crossed(events) ==
  [f \in Fetches |->
    [fetch[f] EXCEPT !.crossed = @ \cup UNION { e.keys : e \in { e \in events : f \in e.seen } }]]

-----------------------------------------------------------------------------
(* handleEvent.                                                            *)

InstancesAfter(v, e) ==
  CASE e.kind = "joined"          -> [v EXCEPT ![e.id] = "online"]
    [] e.kind = "left"            -> [v EXCEPT ![e.id] = IF @ = "absent" THEN @ ELSE "offline"]
    [] e.kind = "removed"         -> [v EXCEPT ![e.id] = "absent"]
    [] e.kind = "session_updated" -> [v EXCEPT ![e.id] = "absent", ![e.data] = "online"]
    [] OTHER                      -> v

With(t, i)           == [count |-> t.count + 1, subscribers |-> t.subscribers \cup {i}]
Subscribed(t, i)     == IF i \in t.subscribers THEN t ELSE With(t, i)
Unsubscribed(t, i)   == [count |-> IF t.count = 0 THEN 0 ELSE t.count - 1,
                         subscribers |-> t.subscribers \ {i}]

TopicAfter(t, e) ==
  CASE e.kind = "created" /\ t = None       -> [count |-> 0, subscribers |-> {}]
    [] e.kind = "deleted"                   -> None
    [] e.kind = "subscribed" /\ t # None    -> Subscribed(t, e.id)
    [] e.kind = "unsubscribed" /\ t # None  -> Unsubscribed(t, e.id)
    [] OTHER                                -> t

ScheduleAfter(s, e) ==
  CASE e.kind \in {"schedule:created", "schedule:updated"} -> e.data
    [] e.kind = "schedule:deleted"                         -> None
    [] e.kind = "schedule:fired" /\ s # None               -> [s EXCEPT !.fires = e.data.fires]
    [] OTHER                                               -> s

(* A result closes the task it replies to, if that is tracked.              *)
Active_Untracked(n, e) == IF e.kind = "result" THEN n - 1 ELSE IF e.kind = "task" THEN n + 1 ELSE n
Active(n, e) ==
  CASE e.kind = "task" -> n + 1
    [] e.kind = "result" /\ e.id \in pendingTaskIds -> IF n = 0 THEN 0 ELSE n - 1
    [] OTHER -> n

PendingAfter(p, e) ==
  CASE e.kind = "task" -> p \cup {e.id} [] e.kind = "result" -> p \ {e.id} [] OTHER -> p

(* History: what the view has right after the event whatever it had before, *)
(* and what it then has wrong: the hub keeps an identity that a session     *)
(* update replaced as offline, the view drops it.                           *)
Settled(e) ==
  CASE e.kind = "session_updated" -> {e.data}
    [] e.kind \in {"joined", "removed", "deleted", "schedule:created", "schedule:updated",
                   "schedule:deleted"} -> e.keys
    [] OTHER -> {}
Dropped(e) == IF e.kind = "session_updated" THEN {e.id} ELSE {}

HandleEvent ==
  LET e == Head(stream) IN
  /\ stream # << >>
  /\ stream' = Tail(stream)
  /\ vInstances' = InstancesAfter(vInstances, e)
  /\ vTopic' = TopicAfter(vTopic, e)
  /\ vSchedule' = ScheduleAfter(vSchedule, e)
  /\ pendingTaskIds' = PendingAfter(pendingTaskIds, e)
  /\ activeTasks' = Active(activeTasks, e)
  /\ fetch' = Crossed({e})
  /\ behind' = IF e.late THEN behind \cup e.keys ELSE (behind \ Settled(e)) \cup Dropped(e)
  /\ stray' = \/ stray /\ e.kind # "deleted"
              \/ e.kind = "unsubscribed" /\ vTopic # None /\ e.id \notin vTopic.subscribers
  /\ UNCHANGED <<hub, emitting, socket, seeded, sender, bounds>>

-----------------------------------------------------------------------------
(* The dashboard socket.                                                   *)

SocketOpens ==
  /\ socket = "closed"
  /\ socket' = "open"
  /\ UNCHANGED <<hub, emitting, stream, view, seeds, sender, bounds>>

SocketCloses ==
  LET lost == { stream[n] : n \in DOMAIN stream } IN
  /\ socket = "open" /\ closes < MaxCloses
  /\ closes' = closes + 1
  /\ socket' = "closed" /\ stream' = << >>
  /\ behind' = behind \cup UNION { e.keys : e \in lost }
  /\ fetch' = Crossed(lost)
  /\ UNCHANGED <<hub, emitting, shown, seeded, stray, sender, ops>>

(* emitToDashboards, at the end of the operation emitting[n]: those that    *)
(* began earlier and are about the same are late.                           *)
EmitToDashboards(n) ==
  LET e == emitting[n]
      Later(d) == IF d.keys \cap e.keys # {} THEN [d EXCEPT !.late = TRUE] ELSE d
  IN /\ n \in DOMAIN emitting
     /\ emitting' = [m \in 1..(Len(emitting) - 1) |->
                       IF m < n THEN Later(emitting[m]) ELSE emitting[m + 1]]
     /\ \/ /\ socket = "open"
           /\ stream' = Append(stream, e)
           /\ UNCHANGED <<behind, fetch>>
        \/ /\ socket # "open"
           /\ behind' = behind \cup e.keys
           /\ fetch' = Crossed({e})
           /\ UNCHANGED stream
     /\ UNCHANGED <<hub, socket, shown, seeded, stray, sender, bounds>>

-----------------------------------------------------------------------------
(* Operations of the hub, asked for by a page over REST or by anyone else.  *)
(* A page that waits for its own goes on.                                   *)

TopicCalls == [created |-> "create", deleted |-> "delete", subscribed |-> "subscribe",
               unsubscribed |-> "unsubscribe"]
ScheduleCalls(kind) ==
  IF kind = "schedule:created" THEN "created"
  ELSE IF kind \in {"schedule:updated", "schedule:deleted"} THEN "changed" ELSE "idle"

Operation(p, e) ==
  /\ part = p /\ ops < MaxOps
  /\ ops' = ops + 1
  /\ emitting' = Append(emitting, e)
  /\ \/ UNCHANGED page
     \/ page = "asked" /\ page' = ScheduleCalls(e.kind) /\ page' # "idle"
     \/ e.kind \in DOMAIN TopicCalls /\ page = TopicCalls[e.kind] /\ page' = "idle"
  /\ UNCHANGED <<part, socket, stream, view, seeds, plug, request, closes>>

Joins(i) ==
  /\ instances[i] # "online"
  /\ instances' = [instances EXCEPT ![i] = "online"]
  /\ Operation("instances", Event("joined", {i}, i, None))
  /\ UNCHANGED <<members, schedule, tasks>>

Leaves(i) ==
  /\ instances[i] = "online"
  /\ instances' = [instances EXCEPT ![i] = "offline"]
  /\ Operation("instances", Event("left", {i}, i, None))
  /\ UNCHANGED <<members, schedule, tasks>>

Removed(i) ==
  /\ instances[i] # "absent"
  /\ instances' = [instances EXCEPT ![i] = "absent"]
  /\ Operation("instances", Event("removed", {i}, i, None))
  /\ UNCHANGED <<members, schedule, tasks>>

SessionUpdated(i, j) ==
  /\ instances[i] = "online" /\ i # j
  /\ instances' = [instances EXCEPT ![i] = "offline", ![j] = "online"]
  /\ Operation("instances", Event("session_updated", {i, j}, i, j))
  /\ UNCHANGED <<members, schedule, tasks>>

TopicCreated ==
  /\ members = None /\ members' = {}
  /\ Operation("topics", Event("created", {"topic"}, None, None))
  /\ UNCHANGED <<instances, schedule, tasks>>

TopicDeleted ==
  /\ members = {} /\ members' = None
  /\ Operation("topics", Event("deleted", {"topic"}, None, None))
  /\ UNCHANGED <<instances, schedule, tasks>>

(* The event is emitted whether or not the instance was a member.           *)
Subscribes(i) ==
  /\ members # None /\ members' = members \cup {i}
  /\ Operation("topics", Event("subscribed", {"topic"}, i, None))
  /\ UNCHANGED <<instances, schedule, tasks>>

Unsubscribes(i) ==
  /\ members # None /\ members' = members \ {i}
  /\ Operation("topics", Event("unsubscribed", {"topic"}, i, None))
  /\ UNCHANGED <<instances, schedule, tasks>>

(* No event tells of a topic that expires, or of the topics of an identity  *)
(* that a session_update moves.                                            *)
TopicExpires ==
  /\ members = {} /\ members' = None
  /\ Operation("topics", Event("silent", {"topic"}, None, None))
  /\ UNCHANGED <<instances, schedule, tasks>>

SubscriptionMoves(i, j) ==
  /\ members # None /\ i \in members /\ i # j
  /\ members' = (members \ {i}) \cup {j}
  /\ Operation("topics", Event("silent", {"topic"}, None, None))
  /\ UNCHANGED <<instances, schedule, tasks>>

ScheduleOp(kind, s, data) ==
  /\ schedule' = s
  /\ Operation("schedules", Event(kind, {"schedule"}, None, data))
  /\ UNCHANGED <<instances, members, tasks>>

ScheduleCreated ==
  LET s == [enabled |-> TRUE, fires |-> 0]
  IN  schedule = None /\ ScheduleOp("schedule:created", s, s)

ScheduleUpdated ==
  LET s == [schedule EXCEPT !.enabled = ~@]
  IN  schedule # None /\ ScheduleOp("schedule:updated", s, s)

ScheduleDeleted == schedule # None /\ ScheduleOp("schedule:deleted", None, None)

ScheduleFired ==
  LET s == [schedule EXCEPT !.fires = @ + 1]
  IN  schedule # None /\ schedule.enabled /\ ScheduleOp("schedule:fired", s, s)

MessageSent(t) ==
  /\ \/ /\ tasks[t] = "new"
        /\ tasks' = [tasks EXCEPT ![t] = "sent"]
        /\ Operation("tasks", Event("task", {t}, t, None))
     \/ /\ tasks[t] = "sent"
        /\ tasks' = [tasks EXCEPT ![t] = "closed"]
        /\ Operation("tasks", Event("result", {t}, t, None))
  /\ UNCHANGED <<instances, members, schedule>>

-----------------------------------------------------------------------------
(* Seeds.  A request that the hub has not read for yet is one not yet made. *)

Begins(f, g) == fetch[f].step = "idle" /\ fetch' = [fetch EXCEPT ![f] = g]

Answer(list) == [NoFetch EXCEPT !.step = "answered", !.list = list]

(* GET /api/instances, once, when the dashboard loads.                      *)
FetchInstances(f) ==
  /\ part = "instances" /\ ~seeded
  /\ Begins(f, Answer(instances))
  /\ seeded' = TRUE
  /\ UNCHANGED <<hub, wire, view, sender, bounds>>

(* GET /api/topics, then and when the page opens: listTopics counts the     *)
(* subscribers, listTopicsWithSubscribers lists them.                      *)
FetchTopics(f) ==
  /\ part = "topics"
  /\ \/ members = None /\ Begins(f, Answer(None))
     \/ members # None /\ Begins(f, [NoFetch EXCEPT !.step = "counted",
                                                   !.count = Cardinality(members)])
  /\ UNCHANGED <<hub, wire, view, seeded, sender, bounds>>

ListSubscribers(f) ==
  /\ fetch[f].step = "counted"
  /\ fetch' = [fetch EXCEPT ![f] = [@ EXCEPT !.step = "answered",
                                             !.list = IF members = None THEN {} ELSE members]]
  /\ UNCHANGED <<hub, wire, view, seeded, sender, bounds>>

(* GET /api/schedules, likewise.                                           *)
FetchSchedules(f) ==
  /\ part = "schedules"
  /\ Begins(f, Answer(schedule))
  /\ UNCHANGED <<hub, wire, view, seeded, sender, bounds>>

(* The end of a fetch, of which the events on their way are news no more.   *)
Ends(f) ==
  LET Forget(events) == [n \in DOMAIN events |-> [events[n] EXCEPT !.seen = @ \ {f}]] IN
  /\ fetch' = [fetch EXCEPT ![f] = NoFetch]
  /\ emitting' = Forget(emitting) /\ stream' = Forget(stream)

(* A GET that fails, or takes 10 s, is an empty list: it changes nothing.   *)
FetchFails(f) ==
  /\ fetch[f].step # "idle"
  /\ Ends(f)
  /\ UNCHANGED <<hub, socket, view, seeded, sender, bounds>>

(* An instance the view has already is left alone: its events are newer.    *)
Added_Overwrite(v, list) == list
Added(v, list) == [i \in Instances |-> IF v[i] = "absent" THEN list[i] ELSE v[i]]

SeedInstances(f) ==
  LET g == fetch[f] IN
  /\ g.step = "answered" /\ part = "instances"
  /\ vInstances' = Added(vInstances, g.list)
  /\ behind' = { k \in behind : k \in Instances /\ vInstances[k] = "absent" => k \in g.crossed }
               \cup { i \in g.crossed : vInstances[i] = "absent" /\ g.list[i] # "absent" }
  /\ Ends(f)
  /\ UNCHANGED <<hub, socket, vTopic, vSchedule, pendingTaskIds, activeTasks, stray, seeded,
                 sender, bounds>>

(* What is listed is taken; what is not listed stays.                      *)
Listed(old, new) == IF new = None THEN old ELSE new

(* Whether the view is behind about k after a seed of it.                  *)
BehindAfter(g, k, old) ==
  IF g.list = None /\ old # None THEN behind
  ELSE IF k \in g.crossed THEN (IF g.list = None THEN behind ELSE behind \cup {k}) ELSE behind \ {k}

SeedTopics(f) ==
  LET g == fetch[f]
      t == IF g.list = None THEN None ELSE [count |-> g.count, subscribers |-> g.list]
  IN /\ g.step = "answered" /\ part = "topics"
     /\ vTopic' = Listed(vTopic, t)
     /\ behind' = BehindAfter(g, "topic", vTopic)
     /\ stray' = IF t = None THEN stray ELSE t.count # Cardinality(t.subscribers)
     /\ Ends(f)
     /\ UNCHANGED <<hub, socket, vInstances, vSchedule, pendingTaskIds, activeTasks, seeded,
                    sender, bounds>>

SeedSchedules(f) ==
  LET g == fetch[f] IN
  /\ g.step = "answered" /\ part = "schedules"
  /\ vSchedule' = Listed(vSchedule, g.list)
  /\ behind' = BehindAfter(g, "schedule", vSchedule)
  /\ Ends(f)
  /\ UNCHANGED <<hub, socket, vInstances, vTopic, pendingTaskIds, activeTasks, stray, seeded,
                 sender, bounds>>

-----------------------------------------------------------------------------
(* The pages, and the requests of the dashboard's plugin socket.            *)

(* A handler's POST, PATCH or DELETE; one that fails shows an error.        *)
PageAsks ==
  /\ part = "schedules" /\ page = "idle" /\ page' = "asked"
  /\ UNCHANGED <<hub, wire, view, seeds, plug, request, bounds>>

(* On the page of topics; subscription is toggled by what the view shows of *)
(* the dashboard's own id, which is any id here.                            *)
TopicPageAsks(i) ==
  /\ part = "topics" /\ page = "idle"
  /\ \/ page' = "create"
     \/ vTopic # None /\ page' = "delete"
     \/ vTopic # None /\ page' = IF i \in vTopic.subscribers THEN "unsubscribe" ELSE "subscribe"
  /\ UNCHANGED <<hub, wire, view, seeds, plug, request, bounds>>

PageFails ==
  /\ page = "asked" \/ \E kind \in DOMAIN TopicCalls : page = TopicCalls[kind]
  /\ page' = "idle"
  /\ UNCHANGED <<hub, wire, view, seeds, plug, request, bounds>>

(* After a change of a schedule the page refreshes them.                    *)
PageRefreshes(f) ==
  /\ page \in {"created", "changed"} /\ page' = "idle"
  /\ Begins(f, Answer(schedule))
  /\ UNCHANGED <<hub, wire, view, seeded, plug, request, bounds>>

(* pluginRequest rejects at once when the socket is not open.              *)
PluginRequest == request = "none" /\ plug = "open" /\ request' = "sent"

(* The send bar; what it sends to a topic goes over REST.                   *)
HandleSend ==
  /\ PluginRequest
  /\ UNCHANGED <<hub, wire, view, seeds, page, plug, bounds>>

(* handleCreate may fire the new schedule at once: by this socket or, to a  *)
(* topic, over REST.  If that fails, the page shows an error, with the       *)
(* schedule created, and does not refresh.                                 *)
FireNow ==
  /\ page = "created"
  /\ \/ PluginRequest /\ page' = "firing"
     \/ page' = "idle" /\ UNCHANGED request
  /\ UNCHANGED <<hub, wire, view, seeds, plug, bounds>>

(* The promise settles: fulfilled, or rejected.                            *)
Fulfilled == IF page = "firing" THEN "changed" ELSE page
Rejected  == IF page = "firing" THEN "idle" ELSE page

RequestAnswered ==
  /\ request = "sent" /\ request' = "none"
  /\ page' \in {Fulfilled, Rejected}
  /\ UNCHANGED <<hub, wire, view, seeds, plug, bounds>>

(* 10 s without an answer.                                                 *)
RequestTimeout ==
  /\ request = "sent" /\ request' = "none" /\ page' = Rejected
  /\ UNCHANGED <<hub, wire, view, seeds, plug, bounds>>

PlugOpens ==
  /\ part \in {"schedules", "tasks"} /\ plug = "closed" /\ plug' = "open"
  /\ UNCHANGED <<hub, wire, view, seeds, page, request, bounds>>

(* onClose rejects all that is pending.                                    *)
AfterClose_Waits == request
AfterClose       == "none"

PlugCloses ==
  /\ plug = "open" /\ closes < MaxCloses
  /\ closes' = closes + 1
  /\ plug' = "closed"
  /\ request' = AfterClose
  /\ page' = Rejected
  /\ UNCHANGED <<hub, wire, view, seeds, ops>>

-----------------------------------------------------------------------------
Init ==
  /\ part \in Parts
  /\ instances \in [Instances -> IF part = "instances" THEN Statuses ELSE {"absent"}]
  /\ members \in IF part = "topics" THEN (SUBSET Instances) \cup {None} ELSE {None}
  /\ schedule \in IF part = "schedules" THEN {None, [enabled |-> TRUE, fires |-> 0]} ELSE {None}
  /\ tasks = [t \in Tasks |-> "new"]
  /\ emitting = << >> /\ stream = << >> /\ socket = "closed"
  /\ vInstances = [i \in Instances |-> "absent"] /\ vTopic = None /\ vSchedule = None
  /\ pendingTaskIds = {} /\ activeTasks = 0
  /\ fetch = [f \in Fetches |-> NoFetch] /\ seeded = FALSE
  /\ behind = Keys \ Tasks /\ stray = FALSE
  /\ page = "idle" /\ plug = "closed" /\ request = "none"
  /\ ops = 0 /\ closes = 0

Next ==
  \/ HandleEvent
  \/ SocketOpens
  \/ SocketCloses
  \/ \E n \in 1..MaxOps : EmitToDashboards(n)
  \/ \E i \in Instances :
       \/ TopicPageAsks(i)
       \/ Joins(i)
       \/ Leaves(i)
       \/ Removed(i)
       \/ Subscribes(i)
       \/ Unsubscribes(i)
       \/ \E j \in Instances : SessionUpdated(i, j) \/ SubscriptionMoves(i, j)
  \/ TopicCreated
  \/ TopicDeleted
  \/ TopicExpires
  \/ ScheduleCreated
  \/ ScheduleUpdated
  \/ ScheduleDeleted
  \/ ScheduleFired
  \/ \E t \in Tasks : MessageSent(t)
  \/ \E f \in Fetches :
       \/ FetchInstances(f)
       \/ FetchTopics(f)
       \/ ListSubscribers(f)
       \/ FetchSchedules(f)
       \/ FetchFails(f)
       \/ SeedInstances(f)
       \/ SeedTopics(f)
       \/ SeedSchedules(f)
       \/ PageRefreshes(f)
  \/ PageAsks
  \/ PageFails
  \/ HandleSend
  \/ FireNow
  \/ RequestAnswered
  \/ RequestTimeout
  \/ PlugOpens
  \/ PlugCloses

Spec == Init /\ [][Next]_vars

-----------------------------------------------------------------------------
Schedules == [enabled : BOOLEAN, fires : Nat] \cup {None}

HubEvent ==
  [kind : {"joined", "left", "removed", "session_updated", "created", "deleted", "subscribed",
           "unsubscribed", "silent", "schedule:created", "schedule:updated", "schedule:deleted",
           "schedule:fired", "task", "result"},
   keys : SUBSET Keys, id : Instances \cup Tasks \cup {None}, data : Instances \cup Schedules,
   seen : SUBSET Fetches, late : BOOLEAN]

TypeOK ==
  /\ instances \in [Instances -> Statuses] /\ vInstances \in [Instances -> Statuses]
  /\ members \in (SUBSET Instances) \cup {None}
  /\ vTopic \in [count : Nat, subscribers : SUBSET Instances] \cup {None}
  /\ schedule \in Schedules /\ vSchedule \in Schedules
  /\ part \in Parts /\ tasks \in [Tasks -> {"new", "sent", "closed"}]
  /\ pendingTaskIds \subseteq Tasks /\ activeTasks \in Nat
  /\ emitting \in Seq(HubEvent) /\ stream \in Seq(HubEvent)
  /\ socket \in {"open", "closed"} /\ plug \in {"open", "closed"}
  /\ \A f \in Fetches :
       /\ fetch[f].step \in {"idle", "counted", "answered"}
       /\ fetch[f].count \in Nat /\ fetch[f].crossed \subseteq Keys
  /\ seeded \in BOOLEAN /\ stray \in BOOLEAN /\ behind \subseteq Keys
  /\ page \in {"idle", "asked", "created", "changed", "firing", "create", "delete", "subscribe",
               "unsubscribe"}
  /\ request \in {"none", "sent"}
  /\ ops \in 0..MaxOps /\ closes \in 0..MaxCloses

(* No operation about k has its event still to come.                       *)
Told(k) == \A events \in {emitting, stream} : \A n \in DOMAIN events : k \notin events[n].keys

(* Once it has been told of every operation, the view is the hub's state,   *)
(* however seeds and events crossed and whenever the socket closed, but for *)
(* what it may not know (behind): changes whose event was lost, came after  *)
(* that of a later one or was never emitted, seeds applied after an event   *)
(* newer than they, and identities replaced.  A later seed repairs it.      *)
UpToDate ==
  /\ \A i \in Instances \ behind : Told(i) => vInstances[i] = instances[i]
  /\ "topic" \notin behind /\ Told("topic") =>
       IF vTopic = None THEN members = None
       ELSE /\ vTopic.subscribers = members
            /\ ~stray => vTopic.count = Cardinality(members)
  /\ "schedule" \notin behind /\ Told("schedule") => vSchedule = schedule
  /\ \A t \in Tasks \ behind : Told(t) => (t \in pendingTaskIds <=> tasks[t] = "sent")
  /\ activeTasks = Cardinality(pendingTaskIds)

(* use-plugin-ws.ts, "Reject all in-flight requests so callers don't hang": *)
(* whatever waits, a caller or a page, waits for an answer that can come by *)
(* the socket it was sent on.                                              *)
NoneHangs == (request # "none" => plug = "open") /\ (page = "firing" => request = "sent")
=============================================================================
