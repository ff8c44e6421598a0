-------------------------------- MODULE Topics --------------------------------
(***************************************************************************)
(* Topics and their subscribers (hub/src/topic-manager.ts): the hash and   *)
(* subscriber set of a topic, the reverse index of an instance, and the    *)
(* timers that delete empty topics, under the requests that reach them     *)
(* from plugins, the REST API, session_update and the startup scan         *)
(* (ws-handler.ts, api.ts, index.ts).  Every request is a sequence of      *)
(* Redis commands on the hub's one connection; a request's program counter *)
(* names the command it awaits.                                            *)
(***************************************************************************)
EXTENDS InOrder, FiniteSets

CONSTANTS
  TopicNames,     \* valid topic names
  ProjectTopic,   \* the topic of the instances' project
  Instances,      \* instance ids
  Requests,       \* requests of plugins and administrators
  Startup,        \* the handler that scans topics after a start
  None

ASSUME TopicAssumptions ==
  /\ ProjectTopic \in TopicNames
  /\ Startup \notin Requests \cup TopicNames /\ Requests \cap TopicNames = {}
  /\ None \notin Instances \cup TopicNames

VARIABLES
  hash,           \* Redis, topic:{t}: "none", or what autoExpire says: "expires", "kept"
  indexed,        \* Redis, topics:index
  subscribers,    \* Redis, topic:{t}:subscribers
  topicsOf,       \* Redis, instance:{i}:topics
  pending,        \* _pendingDeletions: topics with a timer
  pc, op, seen,   \* handlers: command awaited, operation, names an earlier command returned
  skewed,         \* history: <<topic, instance>> that two operations changed at once
  counted         \* history: per topic, who has joined since its timer's handler counted

redis   == <<hash, indexed, subscribers, topicsOf>>
history == <<skewed, counted>>
vars    == <<waiting, redis, pending, pc, op, seen, history>>

(* The handler of a topic's timer goes by the topic's name.                *)
Handlers == Requests \cup TopicNames \cup {Startup}

(* An operation: what, on which topic, for whom, and for a session_update  *)
(* the identity that who is replaced by.                                   *)
Operation(k, t, i, j) == [kind |-> k, topic |-> t, who |-> i, to |-> j]
Kinds == {"create", "createKept", "join", "subscribe", "unsubscribe", "delete", "remove", "session",
          "expire", "recover"}
Requested ==
  { Operation(k, t, None, None) : k \in {"create", "createKept", "delete"}, t \in TopicNames }
    \cup { Operation(k, t, i, None) : k \in {"subscribe", "unsubscribe"}, t \in TopicNames,
                                       i \in Instances }
    \cup { Operation("join", ProjectTopic, i, None) : i \in Instances }
    \cup { Operation("remove", None, i, None) : i \in Instances }
    \cup { Operation("session", ProjectTopic, i, j) : i, j \in Instances }

(* The command an operation begins with.  Plugins subscribe and unsubscribe *)
(* directly; the REST API looks first whether the topic exists.            *)
FirstOf(o) ==
  CASE o.kind = "subscribe"   -> {"exists", "add"}
    [] o.kind = "unsubscribe" -> {"exists", "leave"}
    [] o.kind = "remove"      -> {"topics"}
    [] o.kind = "session"     -> {"migrate"}
    [] OTHER                  -> {"exists"}

(* createTopic's autoExpire; a project topic is kept.                      *)
AutoExpire_Unset(o) == IF o.kind = "createKept" THEN "kept" ELSE "undefined"
AutoExpire(o) == IF o.kind = "create" THEN "expires" ELSE "kept"

(* The pairs that a handler has changed in one set and not yet in the      *)
(* other, or is about to change because of what it read.                   *)
Changing(h) ==
  CASE pc[h] \in {"addIndex", "leaveIndex"} /\ op[h].kind # "remove" -> {<<op[h].topic, op[h].who>>}
    [] pc[h] \in {"unindex", "drop"}        -> {op[h].topic} \X Instances
    [] pc[h] = "swap"                       -> TopicNames \X {op[h].who, op[h].to}
    [] op[h].kind = "remove" /\ pc[h] \notin {"topics", "done"} -> TopicNames \X {op[h].who}
    [] OTHER                                -> {}
OneStepAtATime(h) == op[h].kind \in {"join", "subscribe", "unsubscribe"}

(* A session_update to the identity the instance has counts as two.        *)
Overlapping ==
  { p \in TopicNames \X Instances :
      \E g, h \in Handlers : /\ p \in Changing(g) \cap Changing(h)
                            /\ \/ g # h /\ ~OneStepAtATime(g)
                               \/ g = h /\ pc[h] = "swap" /\ op[h].who = op[h].to }

(* What is in doubt about an identity passes to the one that replaces it.   *)
Doubtful ==
  LET met == skewed \cup Overlapping
  IN  met \cup { p \in TopicNames \X Instances :
                    \E h \in Handlers : /\ pc[h] = "swap" /\ op[h].to = p[2]
                                        /\ <<p[1], op[h].who>> \in met }

(* A handler begins, resumes, and goes on to its next command.             *)
Arrives(h, l) ==
  /\ pc' = [pc EXCEPT ![h] = l]
  /\ Await(h)
  /\ skewed' = Doubtful
At(h, l) == Answered(h) /\ pc[h] = l
Goto(h, l) ==
  /\ pc' = [pc EXCEPT ![h] = l]
  /\ IF l \in {"done", "rejected"} THEN Resolved ELSE AwaitAgain(h)
  /\ skewed' = Doubtful

(* What the commands do.                                                   *)
Joined(t, i)          == [subscribers EXCEPT ![t] = @ \cup {i}]
Left(t, i)            == [subscribers EXCEPT ![t] = @ \ {i}]
Indexed(t, i)         == [topicsOf EXCEPT ![i] = @ \cup {t}]
Unindexed_Not(t, i)   == topicsOf
Unindexed(t, i)       == [topicsOf EXCEPT ![i] = @ \ {t}]
Cancelled_Not(t)      == pending
Cancelled(t)          == pending \ {t}
Scheduled_Not(t)      == pending
Scheduled(t)          == pending \cup {t}
TimerStops_Never(t)   == FALSE
TimerStops(t)         == subscribers[t] # {}
Swapped(ts, i, j)     == [t \in TopicNames |-> IF t \in ts THEN (subscribers[t] \ {i}) \cup {j}
                                                           ELSE subscribers[t]]

(* Redis as a stopped hub left it, the two indexes in agreement.           *)
Init ==
  /\ waiting = << >>
  /\ hash \in [TopicNames -> {"none", "expires", "kept"}]
  /\ indexed = { t \in TopicNames : hash[t] # "none" }
  /\ subscribers \in [TopicNames -> SUBSET Instances]
  /\ \A t \in TopicNames : hash[t] = "none" => subscribers[t] = {}
  /\ topicsOf = [i \in Instances |-> { t \in TopicNames : i \in subscribers[t] }]
  /\ pending = {}
  /\ pc = [h \in Handlers |-> "no"]
  /\ op = [h \in Handlers |-> IF h \in TopicNames
                                THEN Operation("expire", h, None, None)
                                ELSE Operation(IF h = Startup THEN "recover" ELSE "create",
                                               None, None, None)]
  /\ seen = [h \in Handlers |-> {}]
  /\ skewed = {} /\ counted = [t \in TopicNames |-> {}]

-----------------------------------------------------------------------------
(* A request arrives.                                                      *)
Request(q, o) ==
  /\ pc[q] = "no"
  /\ op' = [op EXCEPT ![q] = o]
  /\ \E l \in FirstOf(o) : Arrives(q, l)
  /\ UNCHANGED <<redis, pending, seen, counted>>

(* topicExists: the REST API answers 404 for a topic without a hash.       *)
TopicExists(q) ==
  /\ At(q, "exists")
  /\ IF op[q].kind \in {"create", "createKept", "join"} THEN Goto(q, "read")
     ELSE IF hash[op[q].topic] = "none" THEN Goto(q, "rejected")
     ELSE Goto(q, CASE op[q].kind = "subscribe"   -> "add"
                    [] op[q].kind = "unsubscribe" -> "leave"
                    [] op[q].kind = "delete"      -> "members")
  /\ UNCHANGED <<redis, pending, op, seen, counted>>

-----------------------------------------------------------------------------
(* createTopic: HGETALL, then heal the index of a topic that exists or     *)
(* write a new one.                                                        *)
Created(q) == Goto(q, IF op[q].kind = "join" THEN "add" ELSE "done")

ReadTopic(q) ==
  /\ At(q, "read")
  /\ Goto(q, IF hash[op[q].topic] = "none" THEN "write" ELSE "heal")
  /\ UNCHANGED <<redis, pending, op, seen, counted>>

HealIndex(q) ==
  /\ At(q, "heal")
  /\ indexed' = indexed \cup {op[q].topic}
  /\ Goto(q, "count")
  /\ UNCHANGED <<hash, subscribers, topicsOf, pending, op, seen, counted>>

CountSubscribers(q) ==
  /\ At(q, "count") /\ Created(q)
  /\ UNCHANGED <<redis, pending, op, seen, counted>>

WriteTopic(q) ==
  /\ At(q, "write")
  /\ hash' = [hash EXCEPT ![op[q].topic] = AutoExpire(op[q])]
  /\ indexed' = indexed \cup {op[q].topic}
  /\ Created(q)
  /\ UNCHANGED <<subscribers, topicsOf, pending, op, seen, counted>>

-----------------------------------------------------------------------------
(* subscribe: SADD, SADD, and the timer is cancelled.                       *)
Subscribe(q) ==
  LET t == op[q].topic IN
  /\ At(q, "add")
  /\ subscribers' = Joined(t, op[q].who)
  /\ counted' = [counted EXCEPT ![t] = @ \cup {op[q].who}]
  /\ Goto(q, "addIndex")
  /\ UNCHANGED <<hash, indexed, topicsOf, pending, op, seen>>

SubscribeIndex(q) ==
  LET t == op[q].topic IN
  /\ At(q, "addIndex")
  /\ topicsOf' = Indexed(t, op[q].who)
  /\ pending' = Cancelled(t)
  /\ Goto(q, "done")
  /\ UNCHANGED <<hash, indexed, subscribers, op, seen, counted>>

-----------------------------------------------------------------------------
(* unsubscribe: SREM, SREM, SCARD, and of an empty topic HGETALL.  The     *)
(* removal of an instance does so for each of its topics.                  *)
Unsubscribe(q) ==
  /\ At(q, "leave")
  /\ subscribers' = Left(op[q].topic, op[q].who)
  /\ Goto(q, "leaveIndex")
  /\ UNCHANGED <<hash, indexed, topicsOf, pending, op, seen, counted>>

UnsubscribeIndex(q) ==
  /\ At(q, "leaveIndex")
  /\ topicsOf' = Unindexed(op[q].topic, op[q].who)
  /\ Goto(q, "left")
  /\ UNCHANGED <<hash, indexed, subscribers, pending, op, seen, counted>>

(* On with the next name that seen holds, or out of the loop.              *)
NextName(h, l, end) ==
  \/ seen[h] = {} /\ Goto(h, end) /\ UNCHANGED <<op, seen>>
  \/ \E t \in seen[h] : /\ op' = [op EXCEPT ![h].topic = t]
                        /\ seen' = [seen EXCEPT ![h] = @ \ {t}]
                        /\ Goto(h, l)
Continue(h) ==
  CASE op[h].kind = "unsubscribe" -> Goto(h, "done") /\ UNCHANGED <<op, seen>>
    [] op[h].kind = "remove"      -> NextName(h, "leave", "flush")
    [] op[h].kind = "recover"     -> NextName(h, "left", "done")

CountLeft(h) ==
  /\ At(h, "left")
  /\ IF subscribers[op[h].topic] = {} THEN Goto(h, "expires") /\ UNCHANGED <<op, seen>>
                                      ELSE Continue(h)
  /\ UNCHANGED <<redis, pending, counted>>

(* _scheduleEmptyTopicDeletion, unless autoExpire is false.  The startup   *)
(* scan also skips a topic without a hash.                                 *)
ScheduleDeletion(h) ==
  LET t == op[h].topic IN
  /\ At(h, "expires")
  /\ pending' = IF hash[t] = "kept" \/ (hash[t] = "none" /\ op[h].kind = "recover")
                  THEN pending ELSE Scheduled(t)
  /\ Continue(h)
  /\ UNCHANGED <<redis, counted>>

-----------------------------------------------------------------------------
(* The timer fires: the topic is deleted if it is empty and may expire.    *)
TimerFires(t) ==
  /\ t \in pending /\ pc[t] \in {"no", "done"}
  /\ pending' = pending \ {t}
  /\ Arrives(t, "timer")
  /\ UNCHANGED <<redis, op, seen, counted>>

TimerCount(t) ==
  /\ At(t, "timer")
  /\ Goto(t, IF TimerStops(t) THEN "done" ELSE "timerHash")
  /\ counted' = [counted EXCEPT ![t] = {}]
  /\ UNCHANGED <<redis, pending, op, seen>>

TimerReadsHash(t) ==
  /\ At(t, "timerHash")
  /\ Goto(t, IF hash[t] = "kept" THEN "done" ELSE "delete")
  /\ UNCHANGED <<redis, pending, op, seen, counted>>

-----------------------------------------------------------------------------
(* DELETE /api/topics/:name answers 409 for a topic with subscribers.       *)
GetSubscribers(q) ==
  /\ At(q, "members")
  /\ Goto(q, IF subscribers[op[q].topic] # {} THEN "rejected" ELSE "delete")
  /\ UNCHANGED <<redis, pending, op, seen, counted>>

(* deleteTopic: SMEMBERS, an SREM for each member, and a pipeline.          *)
ReadMembers(h) ==
  LET s == subscribers[op[h].topic] IN
  /\ At(h, "delete")
  /\ seen' = [seen EXCEPT ![h] = s]
  /\ Goto(h, IF s = {} THEN "drop" ELSE "unindex")
  /\ UNCHANGED <<redis, pending, op, counted>>

UnindexMembers(h) ==
  /\ At(h, "unindex")
  /\ topicsOf' = [i \in Instances |-> topicsOf[i] \ (IF i \in seen[h] THEN {op[h].topic} ELSE {})]
  /\ seen' = [seen EXCEPT ![h] = {}]
  /\ Goto(h, "drop")
  /\ UNCHANGED <<hash, indexed, subscribers, pending, op, counted>>

DropTopic(h) ==
  LET t == op[h].topic IN
  /\ At(h, "drop")
  /\ subscribers' = [subscribers EXCEPT ![t] = {}]
  /\ hash' = [hash EXCEPT ![t] = "none"]
  /\ indexed' = indexed \ {t}
  /\ Goto(h, "done")
  /\ UNCHANGED <<topicsOf, pending, op, seen, counted>>

-----------------------------------------------------------------------------
(* DELETE /api/instances/:id: leave every topic, flush the queue, DEL.      *)
RemovedTopics(q) ==
  /\ At(q, "topics")
  /\ \/ topicsOf[op[q].who] = {} /\ Goto(q, "flush") /\ UNCHANGED <<op, seen>>
     \/ \E t \in topicsOf[op[q].who] :
          /\ op' = [op EXCEPT ![q].topic = t]
          /\ seen' = [seen EXCEPT ![q] = topicsOf[op[q].who] \ {t}]
          /\ Goto(q, "leave")
  /\ UNCHANGED <<redis, pending, counted>>

FlushQueue(q) ==
  /\ At(q, "flush") /\ Goto(q, "deregister")
  /\ UNCHANGED <<redis, pending, op, seen, counted>>

Deregister(q) ==
  /\ At(q, "deregister")
  /\ topicsOf' = [topicsOf EXCEPT ![op[q].who] = {}]
  /\ Goto(q, "done")
  /\ UNCHANGED <<hash, indexed, subscribers, pending, op, seen, counted>>

-----------------------------------------------------------------------------
(* migrateSubscriptions: SMEMBERS, and one pipeline; then the new identity  *)
(* joins the project topic.                                                *)
Rejoin(q) == op' = [op EXCEPT ![q] = Operation("join", ProjectTopic, op[q].to, None)]

MigrateRead(q) ==
  LET ts == topicsOf[op[q].who] IN
  /\ At(q, "migrate")
  /\ \/ ts = {} /\ Rejoin(q) /\ Goto(q, "exists") /\ UNCHANGED seen
     \/ ts # {} /\ seen' = [seen EXCEPT ![q] = ts] /\ Goto(q, "swap") /\ UNCHANGED op
  /\ UNCHANGED <<redis, pending, counted>>

MigrateSwap(q) ==
  LET i == op[q].who
      j == op[q].to
  IN /\ At(q, "swap")
     /\ subscribers' = Swapped(seen[q], i, j)
     /\ topicsOf' = [[topicsOf EXCEPT ![j] = @ \cup topicsOf[i]] EXCEPT ![i] = {}]
     /\ seen' = [seen EXCEPT ![q] = {}]
     /\ counted' = [t \in TopicNames |-> IF t \in seen[q] THEN counted[t] \cup {j} ELSE counted[t]]
     /\ Rejoin(q)
     /\ Goto(q, "exists")
     /\ UNCHANGED <<hash, indexed, pending>>

-----------------------------------------------------------------------------
(* recoverEmptyTopics, once after a start.                                  *)
RecoverEmptyTopics ==
  /\ pc[Startup] = "no"
  /\ Arrives(Startup, "names")
  /\ UNCHANGED <<redis, pending, op, seen, counted>>

RecoverNames ==
  /\ At(Startup, "names")
  /\ \/ indexed = {} /\ Goto(Startup, "done") /\ UNCHANGED <<op, seen>>
     \/ \E t \in indexed : /\ op' = [op EXCEPT ![Startup].topic = t]
                           /\ seen' = [seen EXCEPT ![Startup] = indexed \ {t}]
                           /\ Goto(Startup, "left")
  /\ UNCHANGED <<redis, pending, counted>>

-----------------------------------------------------------------------------
(* Redis answers the command at the head of the line.                      *)
Answer ==
  \/ \E q \in Requests :
       \/ TopicExists(q) \/ ReadTopic(q) \/ HealIndex(q) \/ CountSubscribers(q) \/ WriteTopic(q)
       \/ Subscribe(q) \/ SubscribeIndex(q) \/ Unsubscribe(q) \/ UnsubscribeIndex(q)
       \/ GetSubscribers(q) \/ RemovedTopics(q) \/ FlushQueue(q) \/ Deregister(q)
       \/ MigrateRead(q) \/ MigrateSwap(q)
  \/ \E t \in TopicNames : TimerCount(t) \/ TimerReadsHash(t)
  \/ \E h \in Handlers :
       CountLeft(h) \/ ScheduleDeletion(h) \/ ReadMembers(h) \/ UnindexMembers(h) \/ DropTopic(h)
  \/ RecoverNames

Next ==
  \/ \E q \in Requests, o \in Requested : Request(q, o)
  \/ \E t \in TopicNames : TimerFires(t)
  \/ RecoverEmptyTopics
  \/ Answer

(* Redis answers and timers fire; nobody is obliged to make a request.     *)
Fairness ==
  /\ WF_vars(Answer)
  /\ \A t \in TopicNames : WF_vars(TimerFires(t))

Spec == Init /\ [][Next]_vars /\ Fairness

-----------------------------------------------------------------------------
TypeOK ==
  /\ waiting \in Seq(Handlers)
  /\ hash \in [TopicNames -> {"none", "expires", "kept"}]
  /\ indexed \subseteq TopicNames /\ pending \subseteq TopicNames
  /\ subscribers \in [TopicNames -> SUBSET Instances]
  /\ topicsOf \in [Instances -> SUBSET TopicNames]
  /\ pc \in [Handlers -> {"no", "exists", "read", "heal", "count", "write", "add", "addIndex", "leave",
                          "leaveIndex", "left", "expires", "timer", "timerHash", "members", "delete",
                          "unindex", "drop", "topics", "flush", "deregister", "migrate", "swap",
                          "names", "done", "rejected"}]
  /\ op \in [Handlers -> [kind : Kinds, topic : TopicNames \cup {None},
                          who : Instances \cup {None}, to : Instances \cup {None}]]
  /\ seen \in [Handlers -> SUBSET (TopicNames \cup Instances)]
  /\ skewed \subseteq TopicNames \X Instances
  /\ counted \in [TopicNames -> SUBSET Instances]

(* topic:{t}:subscribers and instance:{i}:topics agree whenever no request *)
(* is under way, except about a pair that a deletion, a session_update or  *)
(* a removal changed while another operation was half done with it, and    *)
(* about the identity that replaced one of such a pair.                    *)
IndexesAgree ==
  Rest => \A t \in TopicNames, i \in Instances :
            <<t, i>> \in skewed \/ (i \in subscribers[t] <=> t \in topicsOf[i])

(* A topic with a settled subscriber has no deletion timer running.        *)
NoTimerWhileSubscribed ==
  Rest => \A t \in pending : {t} \X subscribers[t] \subseteq skewed

(* topic-manager.ts: the timer's handler does "Re-check subscriber count": *)
(* it deletes nobody's subscription but those made since it counted.       *)
TimerSparesSubscribers ==
  [][\A t \in TopicNames :
       pc[t] = "drop" /\ pc'[t] = "done" => subscribers[t] \subseteq counted[t]]_vars

(* When the last subscriber leaves an auto-expiring topic, the topic is    *)
(* deleted in the end unless somebody subscribes.                          *)
LastLeaverExpires ==
  \A t \in TopicNames :
    (/\ hash[t] = "expires" /\ subscribers[t] = {}
     /\ \E q \in Requests : pc[q] = "leaveIndex" /\ op[q].topic = t)
      ~> (hash[t] = "none" \/ subscribers[t] # {})

=============================================================================
