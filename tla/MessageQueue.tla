----------------------------- MODULE MessageQueue -----------------------------
(***************************************************************************)
(* Per-instance message queues of the hub: pushMessage, the delayed flush  *)
(* after a connection opens, get_messages, the administrator's flush, and  *)
(* the startup replay after a crash (hub/src/queue.ts, ws-handler.ts,      *)
(* api.ts, index.ts), with as much of the registry as they consult.        *)
(*                                                                         *)
(* The hub is one event loop.  A handler runs without interruption up to   *)
(* its next await of Redis, so each action below is one Redis command      *)
(* together with the synchronous code around it, and the commands of       *)
(* different handlers interleave freely.  TTLs are not modelled: no key    *)
(* expires during a behaviour.                                             *)
(***************************************************************************)
EXTENDS RedisLists, FiniteSets

CONSTANTS
  Messages,        \* message envelopes; each is sent at most once
  Instances,       \* instance ids
  Sockets,         \* plugin WebSocket connections; each opens at most once
  Pulls,           \* get_messages requests
  None,            \* "no socket", "no message", "no instance"
  MaxQueueDepth,   \* MAX_QUEUE_DEPTH
  PullLimits,      \* the limits get_messages may carry (clamped to 1..100)
  MaxCrashes,      \* bound: hub crashes in a behaviour
  MaxFlushes       \* bound: DELETE /api/queue requests in a behaviour

ASSUME QueueAssumptions ==
  /\ MaxQueueDepth \in Nat \ {0}
  /\ PullLimits \subseteq Nat \ {0}
  /\ MaxCrashes \in Nat
  /\ MaxFlushes \in Nat
  /\ None \notin Messages \cup Instances \cup Sockets
  /\ Sockets \cap Pulls = {}

(* The handlers that drain a queue: the 5 s timer a socket's opening arms  *)
(* is identified with the socket.                                          *)
Workers == Sockets \cup Pulls

VARIABLES
  queue, processing,       \* Redis: queue:{id}, processing:{id}
  presence,                \* Redis: ids that have an instance:{id} key
  status, wsRef, depth,    \* registry entry of an id; "absent" when there is none
  sock, owner,             \* socket state; the instance id it connected as
  to, push, reply,         \* pushMessage: recipient, program counter, RPUSH's reply
  pc, via, held,           \* draining handlers: program counter, socket, message popped
  left, batch, count,      \* loop budget, get_messages reply so far, LLEN's reply
  emptied, flushes,        \* ids whose admin flush has yet to reset depth; flushes so far
  hydrate, replay,         \* ids the startup scans have still to visit
  crashes,
  handed, discarded,       \* history: handed to a connection, dropped on purpose
  received, replayed,      \* history: reached a live plugin, moved by the replay
  stranded                 \* history: ws.send threw, left in processing:{id} since

redis    == <<queue, processing>>
registry == <<status, wsRef, depth>>
sockets  == <<sock, owner>>
pushes   == <<to, push, reply>>
workers  == <<pc, via, held, left, batch, count>>
admin    == <<emptied, flushes>>
startup  == <<hydrate, replay, crashes>>
history  == <<handed, discarded, received, replayed, stranded>>
vars     == <<redis, presence, registry, sockets, pushes, workers, admin, startup, history>>

SocketStates == {"free", "open", "dead", "closing", "closed"}
WorkerPCs    == {"new", "registering", "armed", "pop", "send", "ack", "llen", "report", "done"}
PushPCs      == {"new", "trim", "deliver", "done", "cut"}

(* The instance a draining handler works for.                              *)
InstanceOf(w) == owner[via[w]]

(* A handler between the pop of a message and its LREM.                    *)
Holding(w) == pc[w] \in {"send", "ack"}

(* readyState === OPEN: the hub has not yet seen the socket close.  The    *)
(* peer of a "dead" one is gone.                                           *)
ReadyOpen(s) == sock[s] \in {"open", "dead"}

(* registry.setQueueDepth: ignored without an entry.                       *)
SetQueueDepth(i, n) == depth' = IF status[i] = "absent" THEN depth ELSE [depth EXCEPT ![i] = n]

(* The decisions of the handlers below, each with the slip that the runs    *)
(* are shown to notice.                                                     *)

(* pushMessage trims when RPUSH's reply exceeds the cap.                    *)
OverCap_Late(n) == n > MaxQueueDepth + 1
OverCap(n)      == n > MaxQueueDepth

Trimmed_Not(q) == q
Trimmed(q)     == LPop(q)

(* RPOPLPUSH queue processing: what the command leaves in either list.      *)
Flushed_Peek(q)             == q
Flushed(q)                  == RPop(q)
IntoProcessing_Forget(p, m) == p
IntoProcessing(p, m)        == LPush(p, m)

(* The flush loop goes on until the queue is empty, get_messages until its  *)
(* limit.                                                                   *)
AfterAck_NoLimit(w) == "pop"
AfterAck(w)         == IF w \in Pulls /\ left[w] <= 1 THEN "llen" ELSE "pop"

(* The startup scan visits every processing:{id}; RPOPLPUSH processing queue. *)
ToReplay_Nothing == {}
ToReplay         == Instances
Replayed_Copy(p) == p
Replayed(p)      == RPop(p)

(* Pushes that saw an over-full queue and have not popped it: those in      *)
(* progress and those a crash cut short, which never will.                  *)
Untrimmed(i) == { m \in Messages : push[m] \in {"trim", "cut"} /\ to[m] = i }

Stored == { m \in Messages :
              \E i \in Instances : m \in Elements(queue[i]) \cup Elements(processing[i]) }

Init ==
  /\ queue = [i \in Instances |-> << >>]
  /\ processing = [i \in Instances |-> << >>]
  /\ presence = {}
  /\ status = [i \in Instances |-> "absent"]
  /\ wsRef = [i \in Instances |-> None]
  /\ depth = [i \in Instances |-> 0]
  /\ sock = [s \in Sockets |-> "free"]
  /\ owner = [s \in Sockets |-> None]
  /\ to = [m \in Messages |-> None]
  /\ push = [m \in Messages |-> "new"]
  /\ reply = [m \in Messages |-> 0]
  /\ pc = [w \in Workers |-> "new"]
  /\ via = [w \in Workers |-> IF w \in Sockets THEN w ELSE None]
  /\ held = [w \in Workers |-> None]
  /\ left = [w \in Workers |-> 0]
  /\ batch = [w \in Workers |-> {}]
  /\ count = [w \in Workers |-> 0]
  /\ emptied = {} /\ flushes = 0
  /\ hydrate = {} /\ replay = {} /\ crashes = 0
  /\ handed = {} /\ discarded = {} /\ received = {} /\ replayed = {} /\ stranded = {}

-----------------------------------------------------------------------------
(* Sending: handleSendMessage, and the same steps once per recipient in    *)
(* handleRoleSend and in index.ts routeMessage.                            *)

(* RPUSH; the LPOP is issued later, on the depth this reply carries.       *)
PushMessage(m, i) ==
  /\ push[m] = "new"
  /\ queue' = [queue EXCEPT ![i] = RPush(@, m)]
  /\ to' = [to EXCEPT ![m] = i]
  /\ reply' = [reply EXCEPT ![m] = Len(queue[i]) + 1]
  /\ push' = [push EXCEPT ![m] = IF OverCap(Len(queue[i]) + 1) THEN "trim" ELSE "deliver"]
  /\ UNCHANGED <<processing, presence, registry, sockets, workers, admin, startup, history>>

TrimQueue(m) ==
  /\ push[m] = "trim"
  /\ LET q == queue[to[m]] IN
       /\ queue' = [queue EXCEPT ![to[m]] = Trimmed(q)]
       /\ discarded' = IF q = << >> THEN discarded ELSE discarded \cup {Head(q)}
  /\ push' = [push EXCEPT ![m] = "deliver"]
  /\ UNCHANGED <<processing, presence, registry, sockets, to, reply, workers, admin, startup,
                 handed, received, replayed, stranded>>

(* Back in the handler: cache the depth and, if the recipient's socket is  *)
(* open, also send the message live; the queued copy stays.                *)
DeliverLive(m) ==
  LET i == to[m]
      s == wsRef[i]
  IN /\ push[m] = "deliver"
     /\ SetQueueDepth(i, IF OverCap(reply[m]) THEN MaxQueueDepth ELSE reply[m])
     /\ received' = IF s # None /\ sock[s] = "open" THEN received \cup {m} ELSE received
     /\ push' = [push EXCEPT ![m] = "done"]
     /\ reply' = [reply EXCEPT ![m] = 0]
     /\ UNCHANGED <<redis, presence, status, wsRef, sockets, to, workers, admin, startup,
                    handed, discarded, replayed, stranded>>

-----------------------------------------------------------------------------
(* Connections.                                                            *)

(* onPluginOpen up to its first await: the entry is replaced, role, depth  *)
(* and socket reference included.                                          *)
OpenRegister(s, i) ==
  /\ sock[s] = "free"
  /\ sock' = [sock EXCEPT ![s] = "open"]
  /\ owner' = [owner EXCEPT ![s] = i]
  /\ status' = [status EXCEPT ![i] = "online"]
  /\ wsRef' = [wsRef EXCEPT ![i] = None]
  /\ depth' = [depth EXCEPT ![i] = 0]
  /\ pc' = [pc EXCEPT ![s] = "registering"]
  /\ UNCHANGED <<redis, presence, pushes, via, held, left, batch, count, admin, startup, history>>

(* The presence key is set; the socket reference is attached and, at the   *)
(* end of the handler, the 5 s timer armed.                                *)
OpenAttach(s) ==
  /\ pc[s] = "registering"
  /\ presence' = presence \cup {owner[s]}
  /\ wsRef' = [wsRef EXCEPT ![owner[s]] = s]
  /\ pc' = [pc EXCEPT ![s] = "armed"]
  /\ UNCHANGED <<redis, status, depth, sockets, pushes, via, held, left, batch, count, admin,
                 startup, history>>

(* The peer disappears and the hub has not noticed.                        *)
PeerDies(s) ==
  /\ sock[s] = "open"
  /\ sock' = [sock EXCEPT ![s] = "dead"]
  /\ UNCHANGED <<redis, presence, registry, owner, pushes, workers, admin, startup, history>>

(* onPluginClose: registry.markOffline up to its await ...                 *)
CloseMarkOffline(s) ==
  /\ ReadyOpen(s)
  /\ sock' = [sock EXCEPT ![s] = "closing"]
  /\ status' = [status EXCEPT ![owner[s]] = IF @ = "absent" THEN @ ELSE "offline"]
  /\ UNCHANGED <<redis, presence, wsRef, depth, owner, pushes, workers, admin, startup, history>>

(* ... and the rest, which clears whatever reference the entry now has.    *)
CloseDetach(s) ==
  /\ sock[s] = "closing"
  /\ sock' = [sock EXCEPT ![s] = "closed"]
  /\ wsRef' = [wsRef EXCEPT ![owner[s]] = None]
  /\ UNCHANGED <<redis, presence, status, depth, owner, pushes, workers, admin, startup, history>>

-----------------------------------------------------------------------------
(* Draining a queue: flushPendingQueue and handleGetMessages share         *)
(* atomicFlushOne and ackProcessed.                                        *)

(* The timer armed by onPluginOpen.                                        *)
MayFlush_Alone(s) == status[owner[s]] = "online" /\ \A p \in Pulls : pc[p] \in {"new", "done"}
MayFlush(s)       == status[owner[s]] = "online"

FlushTimer(s) ==
  /\ pc[s] = "armed"
  /\ pc' = [pc EXCEPT ![s] = IF MayFlush(s) THEN "pop" ELSE "done"]
  /\ UNCHANGED <<redis, presence, registry, sockets, pushes, via, held, left, batch, count, admin,
                 startup, history>>

GetMessages(p, s, n) ==
  /\ pc[p] = "new"
  /\ sock[s] = "open"
  /\ pc' = [pc EXCEPT ![p] = "pop"]
  /\ via' = [via EXCEPT ![p] = s]
  /\ left' = [left EXCEPT ![p] = n]
  /\ UNCHANGED <<redis, presence, registry, sockets, pushes, held, batch, count, admin, startup,
                 history>>

(* RPOPLPUSH queue processing.  get_messages puts the message in its reply *)
(* and acknowledges it before the reply is sent.                           *)
AtomicFlushOne(w) ==
  LET i == InstanceOf(w)
      q == queue[i]
      m == RTail(q)
  IN /\ pc[w] = "pop"
     /\ \/ /\ q = << >>
           /\ pc' = [pc EXCEPT ![w] = "llen"]
           /\ UNCHANGED <<redis, held, batch, handed>>
        \/ /\ q # << >>
           /\ queue' = [queue EXCEPT ![i] = Flushed(q)]
           /\ processing' = [processing EXCEPT ![i] = IntoProcessing(@, m)]
           /\ held' = [held EXCEPT ![w] = m]
           /\ IF w \in Pulls
              THEN /\ pc' = [pc EXCEPT ![w] = "ack"]
                   /\ batch' = [batch EXCEPT ![w] = @ \cup {m}]
                   /\ handed' = handed \cup {m}
              ELSE /\ pc' = [pc EXCEPT ![w] = "send"]
                   /\ UNCHANGED <<batch, handed>>
     /\ UNCHANGED <<presence, registry, sockets, pushes, via, left, count, admin, startup,
                    discarded, received, replayed, stranded>>

(* ws.send of one queued message on the socket the timer captured.  On a   *)
(* closed socket Bun returns 0, which the code does not look at, ...       *)
FlushSend(s) ==
  /\ pc[s] = "send"
  /\ handed' = handed \cup {held[s]}
  /\ received' = IF sock[s] = "open" THEN received \cup {held[s]} ELSE received
  /\ pc' = [pc EXCEPT ![s] = "ack"]
  /\ UNCHANGED <<redis, presence, registry, sockets, pushes, via, held, left, batch, count, admin,
                 startup, discarded, replayed, stranded>>

(* ... or throws, as the handler's catch expects: the loop ends without an *)
(* LREM and the handler forgets the message, which stays in the processing *)
(* list with nobody to look at it before the next start of the hub.        *)
FlushSendThrows_Acks(s) ==
  /\ pc[s] = "send"
  /\ sock[s] \in {"closing", "closed"}
  /\ pc' = [pc EXCEPT ![s] = "ack"]
  /\ UNCHANGED <<redis, presence, registry, sockets, pushes, via, held, left, batch, count, admin,
                 startup, history>>

FlushSendThrows(s) ==
  /\ pc[s] = "send"
  /\ sock[s] \in {"closing", "closed"}
  /\ pc' = [pc EXCEPT ![s] = "llen"]
  /\ held' = [held EXCEPT ![s] = None]
  /\ stranded' = stranded \cup {held[s]}
  /\ UNCHANGED <<redis, presence, registry, sockets, pushes, via, left, batch, count, admin,
                 startup, handed, discarded, received, replayed>>

(* LREM processing 1 raw.                                                  *)
AckProcessed(w) ==
  /\ pc[w] = "ack"
  /\ processing' = [processing EXCEPT ![InstanceOf(w)] = LRem(@, held[w])]
  /\ held' = [held EXCEPT ![w] = None]
  /\ left' = IF w \in Pulls THEN [left EXCEPT ![w] = @ - 1] ELSE left
  /\ pc' = [pc EXCEPT ![w] = AfterAck(w)]
  /\ UNCHANGED <<queue, presence, registry, sockets, pushes, via, batch, count, admin, startup,
                 history>>

GetQueueDepth(w) ==
  /\ pc[w] = "llen"
  /\ count' = [count EXCEPT ![w] = Len(queue[InstanceOf(w)])]
  /\ pc' = [pc EXCEPT ![w] = "report"]
  /\ UNCHANGED <<redis, presence, registry, sockets, pushes, via, held, left, batch, admin, startup,
                 history>>

(* Cache the depth; get_messages now sends its reply.  The handler ends and *)
(* its locals with it.                                                      *)
ReportDepth(w) ==
  /\ pc[w] = "report"
  /\ SetQueueDepth(InstanceOf(w), count[w])
  /\ received' = IF sock[via[w]] = "open" THEN received \cup batch[w] ELSE received
  /\ pc' = [pc EXCEPT ![w] = "done"]
  /\ left' = [left EXCEPT ![w] = 0]
  /\ batch' = [batch EXCEPT ![w] = {}]
  /\ count' = [count EXCEPT ![w] = 0]
  /\ UNCHANGED <<redis, presence, status, wsRef, sockets, pushes, via, held, admin, startup, handed,
                 discarded, replayed, stranded>>

-----------------------------------------------------------------------------
(* DELETE /api/queue/:id: DEL, then the cached depth.                      *)
FlushQueue(i) ==
  /\ flushes < MaxFlushes /\ i \notin emptied
  /\ queue' = [queue EXCEPT ![i] = << >>]
  /\ discarded' = discarded \cup Elements(queue[i])
  /\ emptied' = emptied \cup {i}
  /\ flushes' = flushes + 1
  /\ UNCHANGED <<processing, presence, registry, sockets, pushes, workers, startup,
                 handed, received, replayed, stranded>>

FlushQueueDone(i) ==
  /\ i \in emptied
  /\ emptied' = emptied \ {i}
  /\ SetQueueDepth(i, 0)
  /\ UNCHANGED <<redis, presence, status, wsRef, sockets, pushes, workers, flushes, startup,
                 history>>

-----------------------------------------------------------------------------
(* The hub process dies and is started again: everything but Redis is      *)
(* gone, every socket is closed, and the startup scans begin while new     *)
(* connections are already accepted.                                       *)
Crash ==
  /\ crashes < MaxCrashes
  /\ crashes' = crashes + 1
  /\ hydrate' = Instances /\ replay' = ToReplay
  /\ status' = [i \in Instances |-> "absent"]
  /\ wsRef' = [i \in Instances |-> None]
  /\ depth' = [i \in Instances |-> 0]
  /\ sock' = [s \in Sockets |-> IF sock[s] = "free" THEN "free" ELSE "closed"]
  /\ push' = [m \in Messages |-> CASE push[m] = "new" -> "new"
                                     [] push[m] \in {"trim", "cut"} -> "cut"
                                     [] OTHER -> "done"]
  /\ pc' = [w \in Workers |-> IF pc[w] = "new" THEN "new" ELSE "done"]
  /\ reply' = [m \in Messages |-> 0]
  /\ held' = [w \in Workers |-> None]
  /\ left' = [w \in Workers |-> 0]
  /\ batch' = [w \in Workers |-> {}]
  /\ count' = [w \in Workers |-> 0]
  /\ emptied' = {}
  /\ stranded' = {}
  /\ UNCHANGED <<redis, presence, owner, to, via, flushes, handed, discarded, received, replayed>>

(* registry.hydrateOffline for a key the instance:* scan found.            *)
HydrateOffline(i) ==
  /\ i \in hydrate
  /\ hydrate' = hydrate \ {i}
  /\ status' = [status EXCEPT ![i] = IF @ = "absent" /\ i \in presence THEN "offline" ELSE @]
  /\ UNCHANGED <<redis, presence, wsRef, depth, sockets, pushes, workers, admin, replay, crashes,
                 history>>

(* replayProcessing: one RPOPLPUSH processing queue, until a reply is nil. *)
ReplayProcessing(i) ==
  /\ hydrate = {} /\ i \in replay
  /\ \/ /\ processing[i] = << >>
        /\ replay' = replay \ {i}
        /\ UNCHANGED <<redis, replayed, stranded>>
     \/ /\ processing[i] # << >>
        /\ processing' = [processing EXCEPT ![i] = Replayed(@)]
        /\ queue' = [queue EXCEPT ![i] = LPush(@, RTail(processing[i]))]
        /\ replayed' = replayed \cup {RTail(processing[i])}
        /\ stranded' = stranded \ {RTail(processing[i])}
        /\ UNCHANGED replay
  /\ UNCHANGED <<presence, registry, sockets, pushes, workers, admin, hydrate, crashes,
                 handed, discarded, received>>

-----------------------------------------------------------------------------
Drain(w) == AtomicFlushOne(w) \/ AckProcessed(w) \/ GetQueueDepth(w) \/ ReportDepth(w)

Next ==
  \/ \E m \in Messages :
       \/ \E i \in Instances : PushMessage(m, i)
       \/ TrimQueue(m)
       \/ DeliverLive(m)
  \/ \E s \in Sockets :
       \/ \E i \in Instances : OpenRegister(s, i)
       \/ OpenAttach(s)
       \/ PeerDies(s)
       \/ CloseMarkOffline(s)
       \/ CloseDetach(s)
       \/ FlushTimer(s)
       \/ FlushSend(s)
       \/ FlushSendThrows(s)
       \/ \E p \in Pulls, n \in PullLimits : GetMessages(p, s, n)
  \/ \E w \in Workers :
       \/ AtomicFlushOne(w)
       \/ AckProcessed(w)
       \/ GetQueueDepth(w)
       \/ ReportDepth(w)
  \/ \E i \in Instances :
       \/ FlushQueue(i)
       \/ FlushQueueDone(i)
       \/ HydrateOffline(i)
       \/ ReplayProcessing(i)
  \/ Crash

(* Redis answers and the event loop runs: a handler that has started is    *)
(* continued.  Nothing obliges plugins, peers or administrators to act.    *)
Fairness ==
  /\ \A m \in Messages : WF_vars(TrimQueue(m)) /\ WF_vars(DeliverLive(m))
  /\ \A s \in Sockets : /\ WF_vars(OpenAttach(s)) /\ WF_vars(CloseDetach(s))
                        /\ WF_vars(FlushTimer(s)) /\ WF_vars(FlushSend(s))
  /\ \A w \in Workers : WF_vars(Drain(w))
  /\ \A i \in Instances : /\ WF_vars(FlushQueueDone(i))
                          /\ WF_vars(HydrateOffline(i)) /\ WF_vars(ReplayProcessing(i))

Spec == Init /\ [][Next]_vars /\ Fairness

-----------------------------------------------------------------------------
TypeOK ==
  /\ queue \in [Instances -> Seq(Messages)] /\ processing \in [Instances -> Seq(Messages)]
  /\ presence \subseteq Instances
  /\ status \in [Instances -> {"absent", "offline", "online"}]
  /\ wsRef \in [Instances -> Sockets \cup {None}]
  /\ depth \in [Instances -> Nat]
  /\ sock \in [Sockets -> SocketStates] /\ owner \in [Sockets -> Instances \cup {None}]
  /\ to \in [Messages -> Instances \cup {None}]
  /\ push \in [Messages -> PushPCs] /\ reply \in [Messages -> Nat]
  /\ pc \in [Workers -> WorkerPCs] /\ via \in [Workers -> Sockets \cup {None}]
  /\ held \in [Workers -> Messages \cup {None}]
  /\ left \in [Workers -> Nat] /\ batch \in [Workers -> SUBSET Messages]
  /\ count \in [Workers -> Nat]
  /\ emptied \subseteq Instances /\ flushes \in 0..MaxFlushes
  /\ hydrate \subseteq Instances /\ replay \subseteq Instances /\ crashes \in 0..MaxCrashes
  /\ handed \subseteq Messages /\ discarded \subseteq Messages
  /\ received \subseteq Messages /\ replayed \subseteq Messages /\ stranded \subseteq Messages

(* Whatever the interleaving of pushes, flushes, replays and crashes, the  *)
(* two lists of all instances together hold a message at most once, and    *)
(* only in the lists of the instance it was sent to (RPOPLPUSH moves it).  *)
SingleCopy ==
  \A i \in Instances :
    /\ Distinct(queue[i]) /\ Distinct(processing[i])
    /\ Elements(queue[i]) \cap Elements(processing[i]) = {}
    /\ \A m \in Elements(queue[i]) \cup Elements(processing[i]) : to[m] = i

(* A message pushMessage pushed is in a Redis list until it is handed to a *)
(* connection or discarded by the cap or an administrator; no crash        *)
(* between two commands loses it (queue.ts: "atomic - hub can restart      *)
(* safely").                                                               *)
NothingLost ==
  \A m \in Messages : to[m] # None => m \in Stored \cup handed \cup discarded

(* An entry of processing:{id} is in the hands of a handler between its    *)
(* pop and its LREM, or the startup replay has yet to finish that instance, *)
(* or its ws.send threw and its handler has gone.  That last entry nobody  *)
(* holds: no drain, pull or administrator's flush that runs meanwhile may  *)
(* take it away, so that the next start finds it (ws-handler.ts: "Message  *)
(* stays in processing:{id} and will be re-queued on hub restart").        *)
ProcessingOwned ==
  /\ \A i \in Instances : \A m \in Elements(processing[i]) :
       \/ i \in replay
       \/ \E w \in Workers : Holding(w) /\ held[w] = m /\ InstanceOf(w) = i
       \/ m \in stranded
  /\ \A m \in stranded \ replayed : m \in Elements(processing[to[m]])

(* Two handlers draining one queue never hand the same message twice: a    *)
(* second delivery from the queue needs the replay after a crash.          *)
OnceUntilReplay ==
  \A m \in handed \ replayed :
    /\ \A i \in Instances : m \notin Elements(queue[i])
    /\ \A s \in Sockets : pc[s] = "send" => held[s] # m

(* The cap is enforced one LPOP late: a queue exceeds MAX_QUEUE_DEPTH by no *)
(* more than the pushes that have not trimmed it and the messages replayed. *)
OverflowBounded ==
  \A i \in Instances :
    Len(queue[i]) <= MaxQueueDepth + Cardinality(Untrimmed(i))
                       + Cardinality({ m \in replayed : to[m] = i })

(* The queues implement the mailbox: a crash, a replay and the order of    *)
(* two handlers' commands are invisible there.                             *)
Mail == INSTANCE Mailbox WITH
          accepted  <- { m \in Messages : to[m] # None },
          stored    <- Stored,
          handed    <- handed,
          discarded <- discarded
ImplementsMailbox == Mail!Spec

(* flushPendingQueue: when the timer of a socket that stays open fires     *)
(* while the instance is online, the queue is emptied, whatever pushes and *)
(* get_messages requests run meanwhile.                                    *)
FlushDrains ==
  \A s \in Sockets, i \in Instances :
    (pc[s] = "armed" /\ owner[s] = i /\ sock[s] = "open")
      ~> (queue[i] = << >> \/ sock[s] # "open" \/ status[i] # "online")

(* Without crashes an over-full queue is always brought back to the cap.   *)
CapRestored == \A i \in Instances : []<>(Len(queue[i]) <= MaxQueueDepth)

-----------------------------------------------------------------------------
(* What documents and comments say of the queues, and the code does not do. *)

(* README.md: the queue "ensures no messages are lost, even on crash";      *)
(* docs/ARCHITECTURE.md: never between "popped from queue" and "acked by   *)
(* recipient".  A message that is neither in Redis nor dropped on purpose  *)
(* has reached the plugin, or a running handler has it in hand.            *)
AtLeastOnce ==
  \A m \in Messages : to[m] # None =>
    m \in Stored \cup discarded \cup received \/ \E w \in Workers : m \in batch[w] \/ held[w] = m
=============================================================================
