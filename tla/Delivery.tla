------------------------------- MODULE Delivery -------------------------------
(***************************************************************************)
(* How the hub hands one message to many: a role, a topic, everyone, or    *)
(* one instance by its full or its partial address                         *)
(* (hub/src/ws-handler.ts, broadcast.ts, topic-manager.ts, registry.ts),   *)
(* by a plugin's frame, past the frame limiter, or by the scheduler        *)
(* (routeMessage in index.ts), while plugins disconnect, come back and     *)
(* declare roles.  What becomes of a queued copy is MessageQueue's         *)
(* subject, sockets that overlap under one id are Connections'.            *)
(***************************************************************************)
EXTENDS InOrder, Naturals, FiniteSets

CONSTANTS
  Instances,    \* instance ids
  Namesakes,    \* the ids that a partial address stands for
  System,       \* SYSTEM_SENDER_ID: not an instance
  Calls,        \* frames of plugins, fires of schedules
  Sockets,      \* sockets an instance opens, numbered from 1
  NoOne

ASSUME DeliveryAssumptions ==
  /\ IsFiniteSet(Instances) /\ Namesakes \subseteq Instances
  /\ System \notin Instances /\ NoOne \notin Instances \cup {System}
  /\ Sockets \in Nat

VARIABLES
  status, wsRef, role,  \* registry entry; the socket's number, 0 for none; TRUE: has the role
  pluginWs,             \* BroadcastManager._pluginWs
  ready, opened,        \* number of an id's OPEN socket, 0 for none; sockets opened so far
  subscribers,          \* Redis: topic:{name}:subscribers
  call,                 \* calls in progress
  declared              \* history: ids that declared the role and have not reconnected since

connections == <<status, wsRef, role, pluginWs, ready, opened, declared>>
delivery    == <<waiting, connections, subscribers, call>>

Senders == Instances \cup {System}
Zero    == [i \in Instances |-> 0]

(* A call not yet made.  recipients, copies, sent and steady are history:  *)
(* whom the message is owed, the copies queued and sent to each, and who    *)
(* has kept one open socket all along.                                     *)
Blank == [kind |-> "none", from |-> NoOne, step |-> "new", persistent |-> FALSE, todo |-> {},
          next |-> NoOne, refs |-> Zero, delivered |-> 0, queued |-> 0, answer |-> "none",
          recipients |-> {}, copies |-> Zero, sent |-> Zero, steady |-> {}]

Idle(k) == call[k].step \in {"new", "done"}

Attached == { i \in Instances : wsRef[i] # 0 /\ wsRef[i] = ready[i] }

(* registry.getByRole, online and offline; setWsRef(i, null).              *)
ByRole_Online == { i \in Instances : role[i] /\ status[i] = "online" }
ByRole        == { i \in Instances : role[i] }
Detached_Gone(i) == [wsRef EXCEPT ![i] = NoOne]
Detached(i)      == [wsRef EXCEPT ![i] = 0]

(* registry.resolvePartial: a single match that is online or, when none is, *)
(* a single one that is offline.                                           *)
ResolvesTo(t) ==
  LET online  == { i \in Namesakes : status[i] = "online" }
      offline == { i \in Namesakes : status[i] = "offline" }
  IN  online = {t} \/ (online = {} /\ offline = {t})

(* publishToTopic: a recipient is online if its socket of the snapshot is   *)
(* still open.  A persistent message is queued for it all the same.         *)
IsOnline(k, i)     == call[k].refs[i] # 0 /\ call[k].refs[i] = ready[i]
Queues_Offline(c, online) == c.persistent /\ ~online
Queues(c, online)         == c.persistent

(* A copy sent live is counted as delivered, one that is only queued as     *)
(* queued; a topic counts every copy it queues.                            *)
Counted_Queued(c, online) == [c EXCEPT !.queued = @ + 1, !.delivered = IF online THEN @ + 1 ELSE @]
Counted(c, online)        == IF online THEN [c EXCEPT !.delivered = @ + 1]
                                       ELSE [c EXCEPT !.queued = @ + 1]
Sent(c, i)                == [c EXCEPT !.sent[i] = @ + 1]

InitDelivery ==
  /\ waiting = << >>
  /\ status = [i \in Instances |-> "absent"]
  /\ wsRef = Zero /\ pluginWs = Zero /\ ready = Zero /\ opened = Zero
  /\ role = [i \in Instances |-> FALSE] /\ declared = {}
  /\ subscribers \in SUBSET Instances
  /\ call = [k \in Calls |-> Blank]

-----------------------------------------------------------------------------
(* Plugins come and go.                                                    *)

(* register makes a new entry, without a role.                             *)
OpenRegister(i) ==
  /\ ready[i] = 0 /\ opened[i] < Sockets
  /\ opened' = [opened EXCEPT ![i] = @ + 1]
  /\ ready' = [ready EXCEPT ![i] = opened[i] + 1]
  /\ status' = [status EXCEPT ![i] = "online"]
  /\ wsRef' = Detached(i)
  /\ role' = [role EXCEPT ![i] = FALSE]
  /\ declared' = declared \ {i}
  /\ Await(<<"open", i, opened[i] + 1>>)
  /\ UNCHANGED <<pluginWs, subscribers, call>>

OpenAttach(i, n) ==
  /\ Answered(<<"open", i, n>>) /\ Resolved
  /\ wsRef' = [wsRef EXCEPT ![i] = n]
  /\ pluginWs' = [pluginWs EXCEPT ![i] = n]
  /\ UNCHANGED <<status, role, ready, opened, declared, subscribers, call>>

CloseMarkOffline(i) ==
  /\ ready[i] # 0
  /\ ready' = [ready EXCEPT ![i] = 0]
  /\ status' = [status EXCEPT ![i] = "offline"]
  /\ call' = [k \in Calls |-> IF Idle(k) THEN call[k] ELSE [call[k] EXCEPT !.steady = @ \ {i}]]
  /\ Await(<<"close", i, 0>>)
  /\ UNCHANGED <<wsRef, role, pluginWs, opened, declared, subscribers>>

CloseDetach(i) ==
  /\ Answered(<<"close", i, 0>>) /\ Resolved
  /\ wsRef' = Detached(i)
  /\ pluginWs' = [pluginWs EXCEPT ![i] = 0]
  /\ UNCHANGED <<status, role, ready, opened, declared, subscribers, call>>

(* Members come and go through Topics' operations.                         *)
Subscribe(i) ==
  /\ subscribers' = subscribers \cup {i} /\ subscribers' # subscribers
  /\ UNCHANGED <<waiting, connections, call>>

Unsubscribe(i) ==
  /\ subscribers' = subscribers \ {i} /\ subscribers' # subscribers
  /\ UNCHANGED <<waiting, connections, call>>

-----------------------------------------------------------------------------
(* onPluginMessage hands the frame to a handler; routeMessage has no socket. *)
Begins(k, f) ==
  /\ Idle(k)
  /\ f # System => ready[f] # 0

(* Turned away by a limiter (RateLimits), without a request id: any frame,  *)
(* by checkRateLimit, or a broadcast.                                      *)
Limited(k, f) ==
  /\ Begins(k, f)
  /\ call' = [call EXCEPT ![k] = [Blank EXCEPT !.step = "done", !.answer = "silent"]]
  /\ UNCHANGED <<waiting, connections, subscribers>>

Made(f, kind) == [Blank EXCEPT !.from = f, !.kind = kind, !.steady = Attached]

(* The answer closes the call; a handler that awaits nothing more is done.  *)
Done(c, answer) ==
  [c EXCEPT !.step = "done", !.answer = answer, !.next = NoOne, !.refs = Zero]

-----------------------------------------------------------------------------
(* set_role.                                                               *)

SetRole(k, f) ==
  /\ f \in Instances /\ Begins(k, f)
  /\ \/ /\ status[f] # "absent"
        /\ role' = [role EXCEPT ![f] = TRUE]
        /\ call' = [call EXCEPT ![k] = [Made(f, "set_role") EXCEPT !.step = "role"]]
        /\ Await(<<"call", k, 0>>)
     \/ /\ status[f] = "absent"
        /\ call' = [call EXCEPT ![k] = Done(Made(f, "set_role"), "error")]
        /\ UNCHANGED <<waiting, role>>
  /\ UNCHANGED <<status, wsRef, pluginWs, ready, opened, declared, subscribers>>

(* The entry that was changed may have been replaced meanwhile.            *)
RoleSet(k) ==
  /\ Answered(<<"call", k, 0>>) /\ call[k].step = "role" /\ Resolved
  /\ declared' = IF call[k].from \in call[k].steady THEN declared \cup {call[k].from} ELSE declared
  /\ call' = [call EXCEPT ![k] = Done(@, "ok")]
  /\ UNCHANGED <<status, wsRef, role, pluginWs, ready, opened, subscribers>>

-----------------------------------------------------------------------------
(* broadcast: to every open socket of the map, nothing is queued.          *)

Reached(f) == { i \in Instances \ {f} : pluginWs[i] # 0 /\ pluginWs[i] = ready[i] }

Broadcast(k, f) ==
  /\ Begins(k, f)
  /\ call' = [call EXCEPT ![k] =
       [Done(Made(f, "broadcast"), "ok") EXCEPT
          !.recipients = Attached \ {f}, !.delivered = Cardinality(Reached(f)),
          !.sent = [i \in Instances |-> IF i \in Reached(f) THEN 1 ELSE 0]]]
  /\ UNCHANGED <<waiting, connections, subscribers>>

-----------------------------------------------------------------------------
(* A role, or one instance: push, then look at the registry for a socket.  *)

SendTo(k, f, kind, targets, owed, n) ==
  LET c == [Made(f, kind) EXCEPT !.recipients = owed] IN
  \/ /\ targets = {}
     /\ call' = [call EXCEPT ![k] = Done(c, "error")]
     /\ UNCHANGED waiting
  \/ /\ n \in targets
     /\ call' = [call EXCEPT ![k] = [c EXCEPT !.step = "push", !.next = n, !.todo = targets \ {n}]]
     /\ Await(<<"call", k, 0>>)

(* The sender is left out; the scheduler is not an instance.  The message   *)
(* is owed to those who declared the role, too.                            *)
RoleSend(k, f) ==
  /\ Begins(k, f)
  /\ \E n \in Instances : SendTo(k, f, "role", ByRole \ {f}, declared \ {f}, n)
  /\ UNCHANGED <<connections, subscribers>>

SendMessage(k, f, t) ==
  /\ Begins(k, f)
  /\ SendTo(k, f, "send", {t}, {t}, t)
  /\ UNCHANGED <<connections, subscribers>>

SendPartial(k, f) ==
  /\ f \in Instances /\ Begins(k, f)
  /\ LET to == { i \in Namesakes : ResolvesTo(i) }
     IN  \E n \in Instances : SendTo(k, f, "send", to, to, n)
  /\ UNCHANGED <<connections, subscribers>>

(* pushMessage, for a role, an instance or a topic: RPUSH, then the rest.   *)
PushMessage(k) ==
  /\ Answered(<<"call", k, 0>>) /\ call[k].step = "push" /\ AwaitAgain(<<"call", k, 0>>)
  /\ call' = [call EXCEPT ![k].copies[call[k].next] = @ + 1, ![k].step = "stats"]
  /\ UNCHANGED <<connections, subscribers>>

(* Live delivery to a recipient that has an open socket by now; then the    *)
(* next one, or the answer.                                                *)
SendLive(k) ==
  LET i == call[k].next
      c == IF i \in Attached THEN Counted(Sent(call[k], i), TRUE) ELSE Counted(call[k], FALSE)
  IN /\ Answered(<<"call", k, 0>>) /\ call[k].step = "stats" /\ call[k].kind # "publish"
     /\ \/ /\ c.todo = {}
           /\ call' = [call EXCEPT ![k] = Done(c, "ok")]
           /\ Resolved
        \/ \E n \in c.todo :
             /\ call' = [call EXCEPT ![k] = [c EXCEPT !.step = "push", !.next = n, !.todo = @ \ {n}]]
             /\ AwaitAgain(<<"call", k, 0>>)
     /\ UNCHANGED <<connections, subscribers>>

-----------------------------------------------------------------------------
(* publish_topic and the publish route: the sockets are looked up before    *)
(* the subscribers are read.                                               *)

GetOnlineWsRefs == [i \in Instances |-> IF status[i] = "online" THEN wsRef[i] ELSE 0]

Publish(k, f, persistent) ==
  /\ Begins(k, f)
  /\ call' = [call EXCEPT ![k] =
       [Made(f, "publish") EXCEPT
          !.step = "members", !.persistent = persistent, !.refs = GetOnlineWsRefs]]
  /\ Await(<<"call", k, 0>>)
  /\ UNCHANGED <<connections, subscribers>>

(* From the recipients in todo to the next await: those that need no queue  *)
(* are served on the way to i, the first to be queued.                     *)
Served(k, c, passed) ==
  LET live == { j \in passed : IsOnline(k, j) } IN
  [c EXCEPT !.todo = @ \ passed, !.delivered = @ + Cardinality(live),
            !.sent = [j \in Instances |-> IF j \in live THEN @[j] + 1 ELSE @[j]]]

Continue(k, c) ==
  LET toQueue == { j \in c.todo : Queues(c, IsOnline(k, j)) }
      rest    == Served(k, c, c.todo)
  IN \/ /\ toQueue = {} /\ c.persistent
        /\ call' = [call EXCEPT ![k] = Done(rest, "ok")]
        /\ Resolved
     \/ /\ toQueue = {} /\ ~c.persistent
        /\ call' = [call EXCEPT ![k] = [rest EXCEPT !.step = "counted"]]
        /\ AwaitAgain(<<"call", k, 0>>)
     \/ \E i \in toQueue :
          /\ call' = [call EXCEPT ![k] = [Served(k, c, {i}) EXCEPT !.step = "push", !.next = i]]
          /\ AwaitAgain(<<"call", k, 0>>)

(* SMEMBERS, without the sender.                                           *)
PublishMembers(k) ==
  LET to == subscribers \ {call[k].from} IN
  /\ Answered(<<"call", k, 0>>) /\ call[k].step = "members"
  /\ Continue(k, [call[k] EXCEPT !.todo = to, !.recipients = to])
  /\ UNCHANGED <<connections, subscribers>>

PublishPushed(k) ==
  /\ Answered(<<"call", k, 0>>) /\ call[k].step = "stats" /\ call[k].kind = "publish"
  /\ Continue(k, [call[k] EXCEPT !.queued = @ + 1])
  /\ UNCHANGED <<connections, subscribers>>

(* The counter of the day, then the answer.                                *)
PublishEnds(k) ==
  /\ Answered(<<"call", k, 0>>) /\ call[k].step = "counted" /\ Resolved
  /\ call' = [call EXCEPT ![k] = Done(@, "ok")]
  /\ UNCHANGED <<connections, subscribers>>

-----------------------------------------------------------------------------
NextDelivery ==
  \/ \E i \in Instances :
       \/ OpenRegister(i)
       \/ \E n \in 1..Sockets : OpenAttach(i, n)
       \/ CloseMarkOffline(i)
       \/ CloseDetach(i)
       \/ Subscribe(i)
       \/ Unsubscribe(i)
  \/ \E k \in Calls :
       \/ \E f \in Senders :
            \/ Limited(k, f)
            \/ SetRole(k, f)
            \/ Broadcast(k, f)
            \/ RoleSend(k, f)
            \/ SendPartial(k, f)
            \/ \E t \in Instances : SendMessage(k, f, t)
            \/ \E p \in BOOLEAN : Publish(k, f, p)
       \/ RoleSet(k)
       \/ PushMessage(k)
       \/ SendLive(k)
       \/ PublishMembers(k)
       \/ PublishPushed(k)
       \/ PublishEnds(k)

SpecDelivery == InitDelivery /\ [][NextDelivery]_delivery

-----------------------------------------------------------------------------
CallType ==
  [kind : {"none", "set_role", "broadcast", "role", "send", "publish"}, from : Senders \cup {NoOne},
   step : {"new", "role", "push", "stats", "members", "counted", "done"}, persistent : BOOLEAN,
   todo : SUBSET Instances, next : Instances \cup {NoOne}, refs : [Instances -> 0..Sockets],
   delivered : Nat, queued : Nat, answer : {"none", "ok", "error", "silent"},
   recipients : SUBSET Instances, copies : [Instances -> Nat], sent : [Instances -> Nat],
   steady : SUBSET Instances]

DeliveryTypeOK ==
  /\ status \in [Instances -> {"absent", "online", "offline"}]
  /\ wsRef \in [Instances -> 0..Sockets] /\ pluginWs \in [Instances -> 0..Sockets]
  /\ ready \in [Instances -> 0..Sockets] /\ opened \in [Instances -> 0..Sockets]
  /\ role \in [Instances -> BOOLEAN] /\ declared \subseteq Instances
  /\ subscribers \subseteq Instances
  /\ call \in [Calls -> CallType]

Answers(k) == call[k].step = "done" /\ call[k].answer # "silent"

(* When a call ends, however plugins came and went during its awaits: who   *)
(* declared the role and has not reconnected since, was a member when the   *)
(* members were read, or is the address has one copy in its queue (of a     *)
(* topic's message, if that is persistent), whoever kept one open socket    *)
(* all along has received one, and no one has two, or the sender any.       *)
EveryRecipientOnce ==
  \A k \in Calls : Answers(k) =>
    LET c == call[k] IN
    /\ \A i \in c.recipients :
         /\ c.kind \in {"role", "send"} \/ c.persistent => c.copies[i] = 1
         /\ i \in c.steady => c.sent[i] = 1
    /\ \A i \in Instances :
         /\ c.copies[i] <= 1 /\ c.sent[i] <= 1
         /\ i = c.from /\ c.kind # "send" => c.copies[i] = 0 /\ c.sent[i] = 0

(* The counts the sender is told are those of the copies: delivered, the    *)
(* live ones; queued, those that wait in a queue without a live copy, or    *)
(* for a topic all that were queued.                                       *)
CountsAgree ==
  \A k \in Calls : Answers(k) =>
    LET c == call[k] IN
    /\ c.delivered = Cardinality({ i \in Instances : c.sent[i] = 1 })
    /\ c.queued = Cardinality({ i \in Instances : c.copies[i] = 1
                                                 /\ (c.kind = "publish" \/ c.sent[i] = 0) })
=============================================================================
