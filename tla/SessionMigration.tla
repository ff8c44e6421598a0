--------------------------- MODULE SessionMigration ---------------------------
(***************************************************************************)
(* The queues of a plugin whose session changes: migrateQueue, run by the  *)
(* session_update handler (hub/src/queue.ts, ws-handler.ts), while senders *)
(* push to either identity and a get_messages or a flush of the same       *)
(* socket drains the identity it started under.  The depth cap, the TTLs   *)
(* and crashes are MessageQueue's subject.                                 *)
(***************************************************************************)
EXTENDS RedisLists, FiniteSets

CONSTANTS
  Messages,     \* message envelopes; each is sent at most once
  Instances,    \* instance ids
  Initial,      \* the id under which the plugin's socket opened
  Updates,      \* session_update frames
  Drains,       \* handlers that drain a queue: a flush or a get_messages
  MayGiveUp,    \* may a request settle, by its timeout or a close, before its answer?
  None

ASSUME MigrationAssumptions ==
  /\ Initial \in Instances /\ None \notin Instances \cup Messages
  /\ MayGiveUp \in BOOLEAN

VARIABLES
  queue, processing,      \* Redis: queue:{id}, processing:{id}
  to,                     \* recipient of a message, once pushed
  instanceId,             \* ws.data.instanceId of the socket
  pc, oldId, newId,       \* handleSessionUpdate: program counter, identities
  pending, raced,         \* history: the old id's messages when it began, pushes it overlooked
  draining, drained, held,    \* draining handlers: program counter, id, message popped
  handed                  \* history: messages popped by a draining handler

lists   == <<queue, processing>>
updates == <<pc, oldId, newId, pending, raced>>
drains  == <<draining, drained, held, handed>>
vars    == <<lists, to, instanceId, updates, drains>>

Waiting(i) == Elements(queue[i]) \cup Elements(processing[i])
Stored     == UNION { Waiting(i) : i \in Instances }

(* RPOPLPUSH queue:i queue:j, of a queue that is not empty.  With i = j it *)
(* rotates the list.                                                       *)
Moved_Copy(i, j) == [queue EXCEPT ![j] = LPush(@, RTail(queue[i]))]
Moved(i, j)      == LET popped == [queue EXCEPT ![i] = RPop(@)]
                    IN  [popped EXCEPT ![j] = LPush(@, RTail(queue[i]))]

(* The identity a socket has after the update u.                           *)
TakenId_Cleared(u) == None
TakenId(u)         == newId[u]

(* The order of migrateQueue's parts, and its two decisions.               *)
Begin_AtQueue     == "llen"
Begin             == "processing"
Renames_Always(n) == TRUE
Renames(n)        == n = 0
AfterLast_Again   == "move"
AfterLast         == "register"

(* A send that failed may have left a message in the processing list.      *)
Init ==
  /\ queue = [i \in Instances |-> << >>]
  /\ \/ /\ processing = [i \in Instances |-> << >>]
        /\ to = [m \in Messages |-> None]
     \/ \E m \in Messages :
          /\ processing = [i \in Instances |-> IF i = Initial THEN <<m>> ELSE << >>]
          /\ to = [n \in Messages |-> IF n = m THEN Initial ELSE None]
  /\ instanceId = Initial
  /\ pc = [u \in Updates |-> "new"]
  /\ oldId = [u \in Updates |-> None] /\ newId = [u \in Updates |-> None]
  /\ pending = [u \in Updates |-> {}] /\ raced = {}
  /\ draining = [d \in Drains |-> "new"] /\ drained = [d \in Drains |-> None]
  /\ held = [d \in Drains |-> None] /\ handed = {}

-----------------------------------------------------------------------------
(* pushMessage to either identity.                                         *)
PushMessage(m, i) ==
  /\ to[m] = None
  /\ to' = [to EXCEPT ![m] = i]
  /\ queue' = [queue EXCEPT ![i] = RPush(@, m)]
  /\ raced' = IF \E u \in Updates : pc[u] = "rename" /\ newId[u] = i THEN raced \cup {m} ELSE raced
  /\ UNCHANGED <<processing, instanceId, pc, oldId, newId, pending, drains>>

-----------------------------------------------------------------------------
(* handleSessionUpdate.                                                    *)

InProgress(u) == pc[u] \notin {"new", "done"}

(* The watcher asks for a session when its last request has settled        *)
(* (active): any number of updates, one after another, unless a request    *)
(* settles before the hub has answered it.                                 *)
SessionUpdate(u, j) ==
  /\ pc[u] = "new"
  /\ MayGiveUp \/ \A v \in Updates : ~InProgress(v)
  /\ oldId' = [oldId EXCEPT ![u] = instanceId]
  /\ newId' = [newId EXCEPT ![u] = j]
  /\ pending' = [pending EXCEPT ![u] = Waiting(instanceId)]
  /\ pc' = [pc EXCEPT ![u] = Begin]
  /\ UNCHANGED <<lists, to, instanceId, raced, drains>>

(* RPOPLPUSH processing:old queue:new, until it is nil.                    *)
MoveProcessing(u) ==
  LET p == processing[oldId[u]] IN
  /\ pc[u] = "processing"
  /\ \/ /\ p = << >>
        /\ pc' = [pc EXCEPT ![u] = "llen"]
        /\ UNCHANGED lists
     \/ /\ p # << >>
        /\ processing' = [processing EXCEPT ![oldId[u]] = RPop(p)]
        /\ queue' = [queue EXCEPT ![newId[u]] = LPush(@, RTail(p))]
        /\ UNCHANGED pc
  /\ UNCHANGED <<to, instanceId, oldId, newId, pending, raced, drains>>

(* LLEN queue:old; nothing to move when it is empty.                       *)
MeasureOld(u) ==
  /\ pc[u] = "llen"
  /\ pc' = [pc EXCEPT ![u] = IF queue[oldId[u]] = << >> THEN "register" ELSE "llenNew"]
  /\ UNCHANGED <<lists, to, instanceId, oldId, newId, pending, raced, drains>>

(* LLEN queue:new decides how.                                             *)
MeasureNew(u) ==
  /\ pc[u] = "llenNew"
  /\ pc' = [pc EXCEPT ![u] = IF Renames(Len(queue[newId[u]])) THEN "rename" ELSE "move"]
  /\ UNCHANGED <<lists, to, instanceId, oldId, newId, pending, raced, drains>>

(* RENAME replaces whatever queue:new holds by now; it fails when queue:old *)
(* is gone, which is ignored.                                              *)
Rename(u) ==
  LET q == queue[oldId[u]] IN
  /\ pc[u] = "rename"
  /\ queue' = IF q = << >> THEN queue
                           ELSE [[queue EXCEPT ![oldId[u]] = << >>] EXCEPT ![newId[u]] = q]
  /\ pc' = [pc EXCEPT ![u] = "register"]
  /\ UNCHANGED <<processing, to, instanceId, oldId, newId, pending, raced, drains>>

(* RPOPLPUSH queue:old queue:new, until it is nil.                         *)
MoveQueue(u) ==
  /\ pc[u] = "move"
  /\ \/ /\ queue[oldId[u]] = << >>
        /\ pc' = [pc EXCEPT ![u] = AfterLast]
        /\ UNCHANGED queue
     \/ /\ queue[oldId[u]] # << >>
        /\ queue' = Moved(oldId[u], newId[u])
        /\ UNCHANGED pc
  /\ UNCHANGED <<processing, to, instanceId, oldId, newId, pending, raced, drains>>

(* migrateRegistration: the socket takes the new identity.                 *)
MigrateRegistration(u) ==
  /\ pc[u] = "register"
  /\ instanceId' = TakenId(u)
  /\ pc' = [pc EXCEPT ![u] = "done"]
  /\ UNCHANGED <<lists, to, oldId, newId, pending, raced, drains>>

-----------------------------------------------------------------------------
(* A flush or a get_messages goes on under the id it started with.         *)

StartDrain(d) ==
  /\ draining[d] = "new"
  /\ drained' = [drained EXCEPT ![d] = instanceId]
  /\ draining' = [draining EXCEPT ![d] = "pop"]
  /\ UNCHANGED <<lists, to, instanceId, updates, held, handed>>

AtomicFlushOne(d) ==
  LET i == drained[d]
      q == queue[i]
  IN /\ draining[d] = "pop"
     /\ \/ /\ q = << >>
           /\ draining' = [draining EXCEPT ![d] = "done"]
           /\ UNCHANGED <<lists, held, handed>>
        \/ /\ q # << >>
           /\ queue' = [queue EXCEPT ![i] = RPop(q)]
           /\ processing' = [processing EXCEPT ![i] = LPush(@, RTail(q))]
           /\ held' = [held EXCEPT ![d] = RTail(q)]
           /\ handed' = handed \cup {RTail(q)}
           /\ draining' = [draining EXCEPT ![d] = "ack"]
     /\ UNCHANGED <<to, instanceId, updates, drained>>

AckProcessed(d) ==
  /\ draining[d] = "ack"
  /\ processing' = [processing EXCEPT ![drained[d]] = LRem(@, held[d])]
  /\ held' = [held EXCEPT ![d] = None]
  /\ draining' = [draining EXCEPT ![d] = "pop"]
  /\ UNCHANGED <<queue, to, instanceId, updates, drained, handed>>

-----------------------------------------------------------------------------
MigrateStep(u) == MoveProcessing(u) \/ MeasureOld(u) \/ MeasureNew(u) \/ Rename(u) \/ MoveQueue(u)
                    \/ MigrateRegistration(u)

Next ==
  \/ \E m \in Messages, i \in Instances : PushMessage(m, i)
  \/ \E u \in Updates :
       \/ \E j \in Instances : SessionUpdate(u, j)
       \/ MoveProcessing(u)
       \/ MeasureOld(u)
       \/ MeasureNew(u)
       \/ Rename(u)
       \/ MoveQueue(u)
       \/ MigrateRegistration(u)
  \/ \E d \in Drains : StartDrain(d) \/ AtomicFlushOne(d) \/ AckProcessed(d)

(* Redis answers every handler that has begun.                             *)
Fairness ==
  /\ \A u \in Updates : WF_vars(MigrateStep(u))
  /\ \A d \in Drains : WF_vars(AtomicFlushOne(d) \/ AckProcessed(d))

Spec == Init /\ [][Next]_vars /\ Fairness

-----------------------------------------------------------------------------
TypeOK ==
  /\ queue \in [Instances -> Seq(Messages)] /\ processing \in [Instances -> Seq(Messages)]
  /\ to \in [Messages -> Instances \cup {None}]
  /\ instanceId \in Instances
  /\ pc \in [Updates -> {"new", "processing", "llen", "llenNew", "rename", "move", "register", "done"}]
  /\ oldId \in [Updates -> Instances \cup {None}] /\ newId \in [Updates -> Instances \cup {None}]
  /\ pending \in [Updates -> SUBSET Messages] /\ raced \subseteq Messages
  /\ draining \in [Drains -> {"new", "pop", "ack", "done"}]
  /\ drained \in [Drains -> Instances \cup {None}]
  /\ held \in [Drains -> Messages \cup {None}] /\ handed \subseteq Messages

OneCopy ==
  /\ \A i \in Instances : Distinct(queue[i]) /\ Distinct(processing[i])
  /\ \A i, j \in Instances : Elements(queue[i]) \cap Elements(processing[j]) = {}
  /\ \A i, j \in Instances : i # j => /\ Elements(queue[i]) \cap Elements(queue[j]) = {}
                                      /\ Elements(processing[i]) \cap Elements(processing[j]) = {}

OnlyRenameLoses ==
  \A m \in Messages : to[m] # None => m \in Stored \cup handed \cup raced

(* However a migration, a drain and pushes interleave, no message gets a   *)
(* second copy in any list, and none is lost but what is pushed straight to *)
(* the new identity between the LLEN of its queue and the RENAME.          *)
NoneLostOrCopied == OneCopy /\ OnlyRenameLoses

(* migrateQueue: "Migrate all queued/processing messages": when the socket  *)
(* takes its new identity, what was waiting for the old one is in the new   *)
(* queue or has been handed over.                                          *)
MigratesAll ==
  [][\A u \in Updates : pc[u] = "register" /\ pc'[u] = "done"
       => pending[u] \subseteq Waiting(newId[u]) \cup handed]_vars

(* A migration to another identity comes to an end.                        *)
MigrationEnds ==
  \A u \in Updates :
    (pc[u] = Begin /\ oldId[u] # newId[u]) ~> pc[u] = "done"

-----------------------------------------------------------------------------
(* plugin/src/connection.ts, request: the hub answers each action frame     *)
(* with "the matching response frame", the retry of a session_update too.  *)
UpdateAnswered == \A u \in Updates : (pc[u] # "new") ~> (pc[u] = "done")
=============================================================================
