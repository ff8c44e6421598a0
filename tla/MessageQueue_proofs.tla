------------------------- MODULE MessageQueue_proofs -------------------------
(***************************************************************************)
(* Safety of the message queues for every number of messages, instances,   *)
(* connections, requests, crashes and every depth cap.                     *)
(***************************************************************************)
EXTENDS MessageQueue, RedisLists_proofs, FiniteSetTheorems

(* Where the handlers are, and what they then hold.                         *)
WorkerInv ==
  /\ \A s \in Sockets : via[s] = s /\ (sock[s] # "free" => owner[s] \in Instances)
  /\ \A w \in Workers : pc[w] # "new" => via[w] \in Sockets /\ owner[via[w]] \in Instances
  /\ \A w \in Workers : pc[w] = "send" => held[w] \in Messages
  /\ \A w \in Workers : pc[w] = "ack" => held[w] \in handed
  /\ \A p \in Pulls : pc[p] \in {"pop", "ack"} => left[p] > 0

(* Only a message pushMessage has pushed has a recipient.                   *)
PushInv ==
  \A m \in Messages : /\ push[m] = "new" => to[m] = None
                      /\ push[m] \in {"trim", "deliver"} => to[m] \in Instances

TInv == TypeOK /\ WorkerInv /\ PushInv

-----------------------------------------------------------------------------
(* The state of a hub started on an empty Redis satisfies the invariant.    *)
LEMMA InitType == Init => TInv
BY QueueAssumptions DEF Init, TInv, TypeOK, WorkerInv, PushInv, Workers, SocketStates, WorkerPCs,
   PushPCs

(* Every step keeps the variables in their types and the handlers in step   *)
(* with what they hold.                                                     *)
LEMMA NextType == TInv /\ [Next]_vars => TInv'
<1> SUFFICES ASSUME TInv, [Next]_vars PROVE TInv'
  OBVIOUS
<1> USE QueueAssumptions DEF Workers, SocketStates, WorkerPCs, PushPCs
<1> USE DEF redis, registry, sockets, pushes, workers, admin, startup, history
<1>1. ASSUME NEW m \in Messages, NEW i \in Instances, PushMessage(m, i)
     PROVE  TInv'
  <2>1. RPush(queue[i], m) \in Seq(Messages)
    BY RPushLemma DEF TInv, TypeOK
  <2>2. TypeOK'
    BY <1>1, <2>1 DEF TInv, TypeOK, WorkerInv, PushInv, PushMessage, OverCap
  <2>3. WorkerInv'
    BY <1>1, <2>1 DEF TInv, TypeOK, WorkerInv, PushMessage, OverCap
  <2>4. PushInv'
    BY <1>1, <2>1 DEF TInv, TypeOK, PushInv, PushMessage, OverCap
  <2> QED BY <2>2, <2>3, <2>4 DEF TInv
<1>2. ASSUME NEW m \in Messages, TrimQueue(m)
     PROVE  TInv'
  <2>1. to[m] \in Instances /\ push[m] = "trim"
    BY <1>2 DEF TInv, PushInv, TrimQueue
  <2>2. LPop(queue[to[m]]) \in Seq(Messages)
    BY <2>1, LPopLemma DEF TInv, TypeOK
  <2>3. queue[to[m]] # << >> => Head(queue[to[m]]) \in Messages
    BY <2>1, LPopLemma DEF TInv, TypeOK
  <2>4. TypeOK'
    BY <1>2, <2>1, <2>2, <2>3 DEF TInv, TypeOK, WorkerInv, PushInv, TrimQueue, Trimmed
  <2>5. WorkerInv'
    BY <1>2, <2>1, <2>2, <2>3 DEF TInv, TypeOK, WorkerInv, TrimQueue, Trimmed
  <2>6. PushInv'
    BY <1>2, <2>1, <2>2, <2>3 DEF TInv, TypeOK, PushInv, TrimQueue, Trimmed
  <2> QED BY <2>4, <2>5, <2>6 DEF TInv
<1>3. ASSUME NEW m \in Messages, DeliverLive(m)
     PROVE  TInv'
  <2>1. TypeOK'
    BY <1>3 DEF TInv, TypeOK, WorkerInv, PushInv, DeliverLive, SetQueueDepth, OverCap
  <2>2. WorkerInv'
    BY <1>3 DEF TInv, TypeOK, WorkerInv, DeliverLive, SetQueueDepth, OverCap
  <2>3. PushInv'
    BY <1>3 DEF TInv, TypeOK, PushInv, DeliverLive, SetQueueDepth, OverCap
  <2> QED BY <2>1, <2>2, <2>3 DEF TInv
<1>4. ASSUME NEW s \in Sockets, NEW i \in Instances, OpenRegister(s, i)
     PROVE  TInv'
  <2>1. TypeOK'
    BY <1>4 DEF TInv, TypeOK, WorkerInv, PushInv, OpenRegister
  <2>2. WorkerInv'
    BY <1>4 DEF TInv, TypeOK, WorkerInv, OpenRegister
  <2>3. PushInv'
    BY <1>4 DEF TInv, TypeOK, PushInv, OpenRegister
  <2> QED BY <2>1, <2>2, <2>3 DEF TInv
<1>5. ASSUME NEW s \in Sockets, OpenAttach(s)
     PROVE  TInv'
  <2>1. TypeOK'
    BY <1>5 DEF TInv, TypeOK, WorkerInv, PushInv, OpenAttach
  <2>2. WorkerInv'
    BY <1>5 DEF TInv, TypeOK, WorkerInv, OpenAttach
  <2>3. PushInv'
    BY <1>5 DEF TInv, TypeOK, PushInv, OpenAttach
  <2> QED BY <2>1, <2>2, <2>3 DEF TInv
<1>6. ASSUME NEW s \in Sockets, PeerDies(s)
     PROVE  TInv'
  <2>1. TypeOK'
    BY <1>6 DEF TInv, TypeOK, WorkerInv, PushInv, PeerDies
  <2>2. WorkerInv'
    BY <1>6 DEF TInv, TypeOK, WorkerInv, PeerDies
  <2>3. PushInv'
    BY <1>6 DEF TInv, TypeOK, PushInv, PeerDies
  <2> QED BY <2>1, <2>2, <2>3 DEF TInv
<1>7. ASSUME NEW s \in Sockets, CloseMarkOffline(s)
     PROVE  TInv'
  <2>1. TypeOK'
    BY <1>7 DEF TInv, TypeOK, WorkerInv, PushInv, CloseMarkOffline, ReadyOpen
  <2>2. WorkerInv'
    BY <1>7 DEF TInv, TypeOK, WorkerInv, CloseMarkOffline, ReadyOpen
  <2>3. PushInv'
    BY <1>7 DEF TInv, TypeOK, PushInv, CloseMarkOffline, ReadyOpen
  <2> QED BY <2>1, <2>2, <2>3 DEF TInv
<1>8. ASSUME NEW s \in Sockets, CloseDetach(s)
     PROVE  TInv'
  <2>1. TypeOK'
    BY <1>8 DEF TInv, TypeOK, WorkerInv, PushInv, CloseDetach
  <2>2. WorkerInv'
    BY <1>8 DEF TInv, TypeOK, WorkerInv, CloseDetach
  <2>3. PushInv'
    BY <1>8 DEF TInv, TypeOK, PushInv, CloseDetach
  <2> QED BY <2>1, <2>2, <2>3 DEF TInv
<1>9. ASSUME NEW s \in Sockets, FlushTimer(s)
     PROVE  TInv'
  <2>1. TypeOK'
    BY <1>9 DEF TInv, TypeOK, WorkerInv, PushInv, FlushTimer
  <2>2. WorkerInv'
    BY <1>9 DEF TInv, TypeOK, WorkerInv, FlushTimer
  <2>3. PushInv'
    BY <1>9 DEF TInv, TypeOK, PushInv, FlushTimer
  <2> QED BY <2>1, <2>2, <2>3 DEF TInv
<1>10. ASSUME NEW s \in Sockets, FlushSend(s)
      PROVE  TInv'
  <2>1. TypeOK'
    BY <1>10 DEF TInv, TypeOK, WorkerInv, PushInv, FlushSend
  <2>2. WorkerInv'
    BY <1>10 DEF TInv, TypeOK, WorkerInv, FlushSend
  <2>3. PushInv'
    BY <1>10 DEF TInv, TypeOK, PushInv, FlushSend
  <2> QED BY <2>1, <2>2, <2>3 DEF TInv
<1>11. ASSUME NEW s \in Sockets, FlushSendThrows(s)
      PROVE  TInv'
  <2>1. TypeOK'
    BY <1>11 DEF TInv, TypeOK, WorkerInv, PushInv, FlushSendThrows
  <2>2. WorkerInv'
    BY <1>11 DEF TInv, TypeOK, WorkerInv, FlushSendThrows
  <2>3. PushInv'
    BY <1>11 DEF TInv, TypeOK, PushInv, FlushSendThrows
  <2> QED BY <2>1, <2>2, <2>3 DEF TInv
<1>12. ASSUME NEW p \in Pulls, NEW s \in Sockets, NEW n \in PullLimits, GetMessages(p, s, n)
      PROVE  TInv'
  <2>1. TypeOK'
    BY <1>12 DEF TInv, TypeOK, WorkerInv, PushInv, GetMessages
  <2>2. WorkerInv'
    BY <1>12 DEF TInv, TypeOK, WorkerInv, GetMessages
  <2>3. PushInv'
    BY <1>12 DEF TInv, TypeOK, PushInv, GetMessages
  <2> QED BY <2>1, <2>2, <2>3 DEF TInv
<1>13. ASSUME NEW w \in Workers, AtomicFlushOne(w)
      PROVE  TInv'
  <2>1. InstanceOf(w) \in Instances
    BY <1>13 DEF TInv, WorkerInv, AtomicFlushOne, InstanceOf
  <2>2. queue[InstanceOf(w)] # << >> => /\ RTail(queue[InstanceOf(w)]) \in Messages
                                        /\ RPop(queue[InstanceOf(w)]) \in Seq(Messages)
    BY <2>1, RPopLemma DEF TInv, TypeOK
  <2>3. queue[InstanceOf(w)] # << >> =>
          LPush(processing[InstanceOf(w)], RTail(queue[InstanceOf(w)])) \in Seq(Messages)
    BY <2>1, <2>2, LPushLemma DEF TInv, TypeOK
  <2>4. UNCHANGED <<presence, registry, sockets, pushes, via, left, count, admin, startup,
                    discarded, received, replayed, stranded>>
    BY <1>13 DEF AtomicFlushOne
  <2>5. PushInv'
    BY <2>4 DEF TInv, PushInv
  <2>6. CASE queue[InstanceOf(w)] = << >>
    <3>1. /\ pc[w] = "pop" /\ pc' = [pc EXCEPT ![w] = "llen"]
          /\ UNCHANGED <<queue, processing, held, batch, handed>>
      BY <1>13, <2>6 DEF AtomicFlushOne
    <3>2. TypeOK'
      BY <2>4, <3>1 DEF TInv, TypeOK
    <3>3. WorkerInv'
      BY <2>4, <3>1 DEF TInv, TypeOK, WorkerInv
    <3> QED BY <2>5, <3>2, <3>3 DEF TInv
  <2>7. CASE queue[InstanceOf(w)] # << >>
    <3> DEFINE i == InstanceOf(w)
               m == RTail(queue[i])
    <3>1. /\ pc[w] = "pop" /\ held' = [held EXCEPT ![w] = m] /\ m \in Messages
          /\ queue' = [queue EXCEPT ![i] = RPop(queue[i])]
          /\ processing' = [processing EXCEPT ![i] = LPush(processing[i], m)]
      BY <1>13, <2>7, <2>2 DEF AtomicFlushOne, Flushed, IntoProcessing
    <3>2. \/ /\ w \in Pulls /\ pc' = [pc EXCEPT ![w] = "ack"] /\ handed' = handed \cup {m}
             /\ batch' = [batch EXCEPT ![w] = batch[w] \cup {m}]
          \/ /\ w \notin Pulls /\ pc' = [pc EXCEPT ![w] = "send"] /\ UNCHANGED <<batch, handed>>
      BY <1>13, <2>7 DEF AtomicFlushOne
    <3>3. /\ i \in Instances /\ RPop(queue[i]) \in Seq(Messages)
          /\ LPush(processing[i], m) \in Seq(Messages)
      BY <2>1, <2>2, <2>3, <2>7
    <3> HIDE DEF m, i
    <3>4. queue' \in [Instances -> Seq(Messages)] /\ processing' \in [Instances -> Seq(Messages)]
      BY <3>1, <3>3 DEF TInv, TypeOK
    <3>5. TypeOK'
      <4>1. pc' \in [Workers -> WorkerPCs] /\ held' \in [Workers -> Messages \cup {None}]
        BY <3>1, <3>2 DEF TInv, TypeOK
      <4>2. batch' \in [Workers -> SUBSET Messages] /\ handed' \subseteq Messages
        <5>1. batch[w] \cup {m} \in SUBSET Messages /\ handed \cup {m} \subseteq Messages
          BY <3>1 DEF TInv, TypeOK
        <5>2. batch \in [Workers -> SUBSET Messages] /\ handed \subseteq Messages
          BY DEF TInv, TypeOK
        <5> QED BY <3>2, <5>1, <5>2
      <4> QED BY <2>4, <3>4, <4>1, <4>2 DEF TInv, TypeOK
    <3>6. WorkerInv'
      BY <2>4, <3>1, <3>2 DEF TInv, TypeOK, WorkerInv
    <3> QED BY <2>5, <3>5, <3>6 DEF TInv
  <2> QED BY <2>6, <2>7
<1>14. ASSUME NEW w \in Workers, AckProcessed(w)
      PROVE  TInv'
  <2>1. InstanceOf(w) \in Instances
    BY <1>14 DEF TInv, WorkerInv, AckProcessed, InstanceOf
  <2>2. LRem(processing[InstanceOf(w)], held[w]) \in Seq(Messages)
    BY <2>1, LRemLemma DEF TInv, TypeOK
  <2>3. TypeOK'
    BY <1>14, <2>1, <2>2 DEF TInv, TypeOK, WorkerInv, PushInv, AckProcessed, AfterAck
  <2>4. WorkerInv'
    BY <1>14, <2>1, <2>2 DEF TInv, TypeOK, WorkerInv, AckProcessed, AfterAck
  <2>5. PushInv'
    BY <1>14, <2>1, <2>2 DEF TInv, TypeOK, PushInv, AckProcessed, AfterAck
  <2> QED BY <2>3, <2>4, <2>5 DEF TInv
<1>15. ASSUME NEW w \in Workers, GetQueueDepth(w)
      PROVE  TInv'
  <2>1. InstanceOf(w) \in Instances
    BY <1>15 DEF TInv, WorkerInv, GetQueueDepth, InstanceOf
  <2>2. Len(queue[InstanceOf(w)]) \in Nat
    BY <2>1 DEF TInv, TypeOK
  <2>3. TypeOK'
    BY <1>15, <2>1, <2>2 DEF TInv, TypeOK, WorkerInv, PushInv, GetQueueDepth
  <2>4. WorkerInv'
    BY <1>15, <2>1, <2>2 DEF TInv, TypeOK, WorkerInv, GetQueueDepth
  <2>5. PushInv'
    BY <1>15, <2>1, <2>2 DEF TInv, TypeOK, PushInv, GetQueueDepth
  <2> QED BY <2>3, <2>4, <2>5 DEF TInv
<1>16. ASSUME NEW w \in Workers, ReportDepth(w)
      PROVE  TInv'
  <2>1. TypeOK'
    BY <1>16 DEF TInv, TypeOK, WorkerInv, PushInv, ReportDepth, SetQueueDepth
  <2>2. WorkerInv'
    BY <1>16 DEF TInv, TypeOK, WorkerInv, ReportDepth, SetQueueDepth
  <2>3. PushInv'
    BY <1>16 DEF TInv, TypeOK, PushInv, ReportDepth, SetQueueDepth
  <2> QED BY <2>1, <2>2, <2>3 DEF TInv
<1>17. ASSUME NEW i \in Instances, FlushQueue(i)
      PROVE  TInv'
  <2>1. << >> \in Seq(Messages) /\ Elements(queue[i]) \subseteq Messages
    BY DEF TInv, TypeOK, Elements
  <2>2. TypeOK'
    BY <1>17, <2>1 DEF TInv, TypeOK, WorkerInv, PushInv, FlushQueue
  <2>3. WorkerInv'
    BY <1>17, <2>1 DEF TInv, TypeOK, WorkerInv, FlushQueue
  <2>4. PushInv'
    BY <1>17, <2>1 DEF TInv, TypeOK, PushInv, FlushQueue
  <2> QED BY <2>2, <2>3, <2>4 DEF TInv
<1>18. ASSUME NEW i \in Instances, FlushQueueDone(i)
      PROVE  TInv'
  <2>1. TypeOK'
    BY <1>18 DEF TInv, TypeOK, WorkerInv, PushInv, FlushQueueDone, SetQueueDepth
  <2>2. WorkerInv'
    BY <1>18 DEF TInv, TypeOK, WorkerInv, FlushQueueDone, SetQueueDepth
  <2>3. PushInv'
    BY <1>18 DEF TInv, TypeOK, PushInv, FlushQueueDone, SetQueueDepth
  <2> QED BY <2>1, <2>2, <2>3 DEF TInv
<1>19. ASSUME NEW i \in Instances, HydrateOffline(i)
      PROVE  TInv'
  <2>1. TypeOK'
    BY <1>19 DEF TInv, TypeOK, WorkerInv, PushInv, HydrateOffline
  <2>2. WorkerInv'
    BY <1>19 DEF TInv, TypeOK, WorkerInv, HydrateOffline
  <2>3. PushInv'
    BY <1>19 DEF TInv, TypeOK, PushInv, HydrateOffline
  <2> QED BY <2>1, <2>2, <2>3 DEF TInv
<1>20. ASSUME NEW i \in Instances, ReplayProcessing(i)
      PROVE  TInv'
  <2>1. processing[i] # << >> => /\ RTail(processing[i]) \in Messages
                                 /\ RPop(processing[i]) \in Seq(Messages)
    BY RPopLemma DEF TInv, TypeOK
  <2>2. processing[i] # << >> => LPush(queue[i], RTail(processing[i])) \in Seq(Messages)
    BY <2>1, LPushLemma DEF TInv, TypeOK
  <2>3. TypeOK'
    <3>1. CASE processing[i] = << >>
      BY <1>20, <3>1 DEF TInv, TypeOK, ReplayProcessing
    <3>2. CASE processing[i] # << >>
      <4>1. /\ queue' = [queue EXCEPT ![i] = LPush(queue[i], RTail(processing[i]))]
            /\ processing' = [processing EXCEPT ![i] = RPop(processing[i])]
        BY <1>20, <3>2 DEF ReplayProcessing, Replayed
      <4>3. queue' \in [Instances -> Seq(Messages)] /\ processing' \in [Instances -> Seq(Messages)]
        BY <2>1, <2>2, <3>2, <4>1 DEF TInv, TypeOK
      <4>2. replayed' \subseteq Messages /\ replay' \subseteq Instances
        BY <1>20, <2>1, <3>2 DEF TInv, TypeOK, ReplayProcessing
      <4> QED BY <1>20, <4>2, <4>3 DEF TInv, TypeOK, ReplayProcessing
    <3> QED BY <3>1, <3>2
  <2>4. WorkerInv'
    BY <1>20, <2>1, <2>2 DEF TInv, TypeOK, WorkerInv, ReplayProcessing, Replayed
  <2>5. PushInv'
    BY <1>20, <2>1, <2>2 DEF TInv, TypeOK, PushInv, ReplayProcessing, Replayed
  <2> QED BY <2>3, <2>4, <2>5 DEF TInv
<1>21. ASSUME Crash
      PROVE  TInv'
  <2>1. TypeOK'
    BY <1>21 DEF TInv, TypeOK, WorkerInv, PushInv, Crash, ToReplay
  <2>2. WorkerInv'
    BY <1>21 DEF TInv, TypeOK, WorkerInv, Crash, ToReplay
  <2>3. PushInv'
    BY <1>21 DEF TInv, TypeOK, PushInv, Crash, ToReplay
  <2> QED BY <2>1, <2>2, <2>3 DEF TInv
<1>22. CASE UNCHANGED vars
  BY <1>22 DEF TInv, TypeOK, WorkerInv, PushInv, vars
<1> QED BY <1>1, <1>2, <1>3, <1>4, <1>5, <1>6, <1>7, <1>8, <1>9, <1>10, <1>11, <1>12, <1>13,
           <1>14, <1>15, <1>16, <1>17, <1>18, <1>19, <1>20, <1>21, <1>22 DEF Next

(* Types and the agreement of the program counters are inductive.           *)
THEOREM TypeCorrect == Spec => []TInv
<1>1. Init => TInv
  BY InitType
<1>2. TInv /\ [Next]_vars => TInv'
  BY NextType
<1> QED BY <1>1, <1>2, PTL DEF Spec

(* Every reachable state is well typed.                                     *)
THEOREM TypeSafety == Spec => []TypeOK
<1>1. TInv => TypeOK
  BY DEF TInv
<1> QED BY <1>1, TypeCorrect, PTL

-----------------------------------------------------------------------------
(* The values a Redis list of instance i can hold.                          *)
LEMMA ListsTyped ==
  ASSUME TInv, NEW i \in Instances
  PROVE  /\ queue[i] \in Seq(Messages) /\ processing[i] \in Seq(Messages)
         /\ Elements(queue[i]) \subseteq Messages /\ Elements(processing[i]) \subseteq Messages
BY DEF TInv, TypeOK, Elements

(* Most steps touch neither the lists nor the recipients.                   *)
LEMMA SameListsSingleCopy ==
  ASSUME SingleCopy, UNCHANGED <<queue, processing, to>>
  PROVE  SingleCopy'
BY DEF SingleCopy

(* No step puts a second copy of a message into the lists.                  *)
LEMMA NextSingleCopy == TInv /\ SingleCopy /\ [Next]_vars => SingleCopy'
<1> SUFFICES ASSUME TInv, SingleCopy, [Next]_vars PROVE SingleCopy'
  OBVIOUS
<1> USE QueueAssumptions DEF redis, pushes
<1>1. ASSUME NEW m \in Messages, NEW i \in Instances, PushMessage(m, i)
      PROVE  SingleCopy'
  <2>1. /\ queue' = [queue EXCEPT ![i] = RPush(queue[i], m)]
        /\ processing' = processing /\ to' = [to EXCEPT ![m] = i] /\ to[m] = None
    BY <1>1 DEF PushMessage, TInv, PushInv
  <2>2. \A j \in Instances : m \notin Elements(queue[j]) \cup Elements(processing[j])
    BY <2>1 DEF SingleCopy
  <2>3. /\ Elements(RPush(queue[i], m)) = Elements(queue[i]) \cup {m}
        /\ Distinct(RPush(queue[i], m))
    BY <2>2, ListsTyped, RPushLemma DEF SingleCopy
  <2>4. queue'[i] = RPush(queue[i], m) /\ \A j \in Instances \ {i} : queue'[j] = queue[j]
    BY <2>1 DEF TInv, TypeOK
  <2>5. to'[m] = i /\ \A n \in Messages \ {m} : to'[n] = to[n]
    BY <2>1 DEF TInv, TypeOK
  <2>6. ASSUME NEW j \in Instances
        PROVE  /\ Distinct(queue[j])' /\ Distinct(processing[j])'
               /\ (Elements(queue[j]) \cap Elements(processing[j]) = {})'
               /\ \A n \in Elements(queue'[j]) \cup Elements(processing'[j]) : to'[n] = j
    <3>1. CASE j = i
      <4>1. /\ Elements(queue'[j]) = Elements(queue[j]) \cup {m} /\ Distinct(queue'[j])
            /\ processing'[j] = processing[j]
        BY <2>1, <2>3, <2>4, <3>1
      <4> QED BY <2>2, <2>5, <3>1, <4>1, ListsTyped DEF SingleCopy
    <3>2. CASE j # i
      <4>1. queue'[j] = queue[j] /\ processing'[j] = processing[j]
        BY <2>1, <2>4, <3>2
      <4> QED BY <2>2, <2>5, <4>1, ListsTyped DEF SingleCopy
    <3> QED BY <3>1, <3>2
  <2> QED BY <2>6 DEF SingleCopy
<1>2. ASSUME NEW m \in Messages, TrimQueue(m)
      PROVE  SingleCopy'
  <2> DEFINE i == to[m]
  <2>1. /\ i \in Instances /\ UNCHANGED <<processing, to>>
        /\ queue' = [queue EXCEPT ![i] = LPop(queue[i])]
    BY <1>2 DEF TrimQueue, Trimmed, TInv, PushInv
  <2> HIDE DEF i
  <2>2. Elements(LPop(queue[i])) \subseteq Elements(queue[i]) /\ Distinct(LPop(queue[i]))
    BY <2>1, ListsTyped, LPopLemma DEF SingleCopy
  <2>3. queue'[i] = LPop(queue[i]) /\ \A j \in Instances \ {i} : queue'[j] = queue[j]
    BY <2>1 DEF TInv, TypeOK
  <2> QED BY <2>1, <2>2, <2>3 DEF SingleCopy
<1>3. ASSUME NEW w \in Workers, AtomicFlushOne(w)
      PROVE  SingleCopy'
  <2> DEFINE i == InstanceOf(w)
             m == RTail(queue[i])
  <2>1. i \in Instances /\ to' = to
    BY <1>3 DEF AtomicFlushOne, InstanceOf, TInv, WorkerInv
  <2>2. CASE queue[i] = << >>
    BY <1>3, <2>1, <2>2, SameListsSingleCopy DEF AtomicFlushOne
  <2>3. CASE queue[i] # << >>
    <3>1. /\ queue' = [queue EXCEPT ![i] = RPop(queue[i])]
          /\ processing' = [processing EXCEPT ![i] = LPush(processing[i], m)]
      BY <1>3, <2>3 DEF AtomicFlushOne, Flushed, IntoProcessing
    <3>2. /\ m \in Messages /\ Distinct(RPop(queue[i]))
          /\ Elements(queue[i]) = Elements(RPop(queue[i])) \cup {m}
          /\ m \notin Elements(RPop(queue[i]))
      BY <2>1, <2>3, ListsTyped, RPopLemma DEF SingleCopy
    <3>3. /\ Elements(LPush(processing[i], m)) = Elements(processing[i]) \cup {m}
          /\ Distinct(LPush(processing[i], m))
      <4>1. m \notin Elements(processing[i]) /\ Distinct(processing[i])
        BY <2>1, <3>2 DEF SingleCopy
      <4>2. processing[i] \in Seq(Messages)
        BY <2>1, ListsTyped
      <4> HIDE DEF m, i
      <4> QED BY <3>2, <4>1, <4>2, LPushLemma
    <3> HIDE DEF i, m
    <3>4. /\ queue'[i] = RPop(queue[i]) /\ processing'[i] = LPush(processing[i], m)
          /\ \A j \in Instances \ {i} : queue'[j] = queue[j] /\ processing'[j] = processing[j]
      BY <2>1, <3>1 DEF TInv, TypeOK
    <3> QED BY <2>1, <3>2, <3>3, <3>4 DEF SingleCopy
  <2> QED BY <2>2, <2>3
<1>4. ASSUME NEW w \in Workers, AckProcessed(w)
      PROVE  SingleCopy'
  <2> DEFINE i == InstanceOf(w)
  <2>1. /\ i \in Instances /\ UNCHANGED <<queue, to>>
        /\ processing' = [processing EXCEPT ![i] = LRem(processing[i], held[w])]
    BY <1>4 DEF AckProcessed, InstanceOf, TInv, WorkerInv
  <2> HIDE DEF i
  <2>2. /\ Elements(LRem(processing[i], held[w])) \subseteq Elements(processing[i])
        /\ Distinct(LRem(processing[i], held[w]))
    BY <2>1, ListsTyped, LRemLemma DEF SingleCopy
  <2>3. /\ processing'[i] = LRem(processing[i], held[w])
        /\ \A j \in Instances \ {i} : processing'[j] = processing[j]
    BY <2>1 DEF TInv, TypeOK
  <2> QED BY <2>1, <2>2, <2>3 DEF SingleCopy
<1>5. ASSUME NEW i \in Instances, FlushQueue(i)
      PROVE  SingleCopy'
  <2>1. queue' = [queue EXCEPT ![i] = << >>] /\ UNCHANGED <<processing, to>>
    BY <1>5 DEF FlushQueue
  <2>2. Elements(<< >>) = {} /\ Distinct(<< >>)
    BY DEF Elements, Distinct
  <2>3. queue'[i] = << >> /\ \A j \in Instances \ {i} : queue'[j] = queue[j]
    BY <2>1 DEF TInv, TypeOK
  <2> QED BY <2>1, <2>2, <2>3 DEF SingleCopy
<1>6. ASSUME NEW i \in Instances, ReplayProcessing(i)
      PROVE  SingleCopy'
  <2> DEFINE m == RTail(processing[i])
  <2>1. to' = to
    BY <1>6 DEF ReplayProcessing
  <2>2. CASE processing[i] = << >>
    BY <1>6, <2>1, <2>2, SameListsSingleCopy DEF ReplayProcessing
  <2>3. CASE processing[i] # << >>
    <3>1. /\ processing' = [processing EXCEPT ![i] = RPop(processing[i])]
          /\ queue' = [queue EXCEPT ![i] = LPush(queue[i], m)]
      BY <1>6, <2>3 DEF ReplayProcessing, Replayed
    <3>2. /\ m \in Messages /\ Distinct(RPop(processing[i]))
          /\ Elements(processing[i]) = Elements(RPop(processing[i])) \cup {m}
          /\ m \notin Elements(RPop(processing[i]))
      BY <2>3, ListsTyped, RPopLemma DEF SingleCopy
    <3>3. /\ Elements(LPush(queue[i], m)) = Elements(queue[i]) \cup {m}
          /\ Distinct(LPush(queue[i], m))
      <4>1. m \notin Elements(queue[i]) /\ Distinct(queue[i])
        BY <3>2 DEF SingleCopy
      <4>2. queue[i] \in Seq(Messages)
        BY ListsTyped
      <4> HIDE DEF m
      <4> QED BY <3>2, <4>1, <4>2, LPushLemma
    <3> HIDE DEF m
    <3>4. /\ processing'[i] = RPop(processing[i]) /\ queue'[i] = LPush(queue[i], m)
          /\ \A j \in Instances \ {i} : queue'[j] = queue[j] /\ processing'[j] = processing[j]
      BY <3>1 DEF TInv, TypeOK
    <3> QED BY <2>1, <3>2, <3>3, <3>4 DEF SingleCopy
  <2> QED BY <2>2, <2>3
<1>7. ASSUME UNCHANGED <<queue, processing, to>>
      PROVE  SingleCopy'
  BY <1>7, SameListsSingleCopy
<1> QED
  BY <1>1, <1>2, <1>3, <1>4, <1>5, <1>6, <1>7
  DEF Next, vars, DeliverLive, OpenRegister, OpenAttach, PeerDies, CloseMarkOffline, CloseDetach,
      FlushTimer, FlushSend, FlushSendThrows, GetMessages, GetQueueDepth, ReportDepth,
      FlushQueueDone, HydrateOffline, Crash

(* The lists of all instances together never hold two copies of a message,  *)
(* whatever the handlers in flight, the replay and the crashes.             *)
THEOREM SingleCopySafety == Spec => []SingleCopy
<1>1. Init => SingleCopy
  BY DEF Init, SingleCopy, Elements, Distinct
<1>2. TInv /\ SingleCopy /\ [Next]_vars => SingleCopy'
  BY NextSingleCopy
<1> QED BY <1>1, <1>2, TypeCorrect, PTL DEF Spec

-----------------------------------------------------------------------------
(* A flush only ever holds messages that were pushed.                       *)
HeldInv == \A w \in Workers : pc[w] = "send" => to[held[w]] # None

(* Only FlushSend's predecessor sets what a flush holds, and pops it from a *)
(* queue, where SingleCopy says whose it is.                                *)
LEMMA NextHeld == TInv /\ SingleCopy /\ HeldInv /\ [Next]_vars => HeldInv'
<1> SUFFICES ASSUME TInv, SingleCopy, HeldInv, [Next]_vars PROVE HeldInv'
  OBVIOUS
<1> USE QueueAssumptions DEF workers, pushes, Workers
<1>1. ASSUME NEW m \in Messages, NEW i \in Instances, PushMessage(m, i)
      PROVE  HeldInv'
  <2>1. to' = [to EXCEPT ![m] = i] /\ UNCHANGED <<pc, held>>
    BY <1>1 DEF PushMessage
  <2>2. \A n \in Messages : to[n] # None => to'[n] # None
    BY <2>1 DEF TInv, TypeOK
  <2> QED BY <2>1, <2>2 DEF TInv, WorkerInv, HeldInv
<1>2. ASSUME NEW w \in Workers, AtomicFlushOne(w)
      PROVE  HeldInv'
  <2>1. InstanceOf(w) \in Instances /\ to' = to
    BY <1>2 DEF AtomicFlushOne, InstanceOf, TInv, WorkerInv
  <2>2. CASE queue[InstanceOf(w)] = << >>
    BY <1>2, <2>1, <2>2 DEF AtomicFlushOne, HeldInv, TInv, TypeOK
  <2>3. CASE queue[InstanceOf(w)] # << >>
    <3> DEFINE i == InstanceOf(w)
               m == RTail(queue[i])
    <3>1. to[m] = i
      BY <2>1, <2>3, ListsTyped, RPopLemma DEF SingleCopy
    <3>2. held' = [held EXCEPT ![w] = m] /\ \A v \in Workers \ {w} : pc'[v] = pc[v]
      BY <1>2, <2>3 DEF AtomicFlushOne, TInv, TypeOK
    <3> HIDE DEF i, m
    <3> QED BY <2>1, <3>1, <3>2 DEF HeldInv, TInv, TypeOK, i
  <2> QED BY <2>2, <2>3
<1>3. ASSUME UNCHANGED <<to, held>>, \A w \in Workers : pc'[w] = "send" => pc[w] = "send"
      PROVE  HeldInv'
  BY <1>3 DEF HeldInv
<1>4. ASSUME NEW w \in Workers, AckProcessed(w)
      PROVE  HeldInv'
  BY <1>4 DEF AckProcessed, AfterAck, HeldInv, TInv, TypeOK
<1>5. CASE Crash
  BY <1>5 DEF Crash, HeldInv, TInv, TypeOK
<1>9. ASSUME NEW s \in Sockets, FlushSendThrows(s)
      PROVE  HeldInv'
  BY <1>9 DEF FlushSendThrows, HeldInv, TInv, TypeOK
<1>6. ASSUME NEW s \in Sockets, \/ \E i \in Instances : OpenRegister(s, i)
                               \/ OpenAttach(s)
                               \/ FlushTimer(s)
                               \/ FlushSend(s)
                               \/ \E p \in Pulls, n \in PullLimits : GetMessages(p, s, n)
      PROVE  HeldInv'
  <2>1. UNCHANGED <<to, held>> /\ \A w \in Workers : pc'[w] = "send" => pc[w] = "send"
    BY <1>6 DEF OpenRegister, OpenAttach, FlushTimer, FlushSend, GetMessages, TInv, TypeOK
  <2> QED BY <1>3, <2>1
<1>7. ASSUME NEW w \in Workers, GetQueueDepth(w) \/ ReportDepth(w)
      PROVE  HeldInv'
  <2>1. UNCHANGED <<to, held>> /\ \A v \in Workers : pc'[v] = "send" => pc[v] = "send"
    BY <1>7 DEF GetQueueDepth, ReportDepth, TInv, TypeOK
  <2> QED BY <1>3, <2>1
<1>8. ASSUME UNCHANGED <<to, held, pc>>
      PROVE  HeldInv'
  BY <1>3, <1>8
<1> QED
  BY <1>1, <1>2, <1>4, <1>5, <1>6, <1>7, <1>8, <1>9
  DEF Next, vars, TrimQueue, DeliverLive, PeerDies, CloseMarkOffline, CloseDetach, FlushQueue,
      FlushQueueDone, HydrateOffline, ReplayProcessing

(* What a step does to Stored follows from what it does to the lists.       *)
LEMMA SameListsStored ==
  ASSUME UNCHANGED <<queue, processing>>
  PROVE  Stored' = Stored
BY DEF Stored

(* Every step of the queues is a step of the mailbox, or leaves it alone.   *)
LEMMA MailboxStep == TInv /\ SingleCopy /\ HeldInv /\ [Next]_vars => [Mail!Next]_(Mail!vars)
<1> SUFFICES ASSUME TInv, SingleCopy, HeldInv, [Next]_vars PROVE [Mail!Next]_(Mail!vars)
  OBVIOUS
<1> USE QueueAssumptions DEF redis, pushes, history
<1> DEFINE Accepted == { m \in Messages : to[m] # None }
<1>1. ASSUME NEW m \in Messages, NEW i \in Instances, PushMessage(m, i)
      PROVE  Mail!Accept(m)
  <2>1. /\ queue' = [queue EXCEPT ![i] = RPush(queue[i], m)]
        /\ processing' = processing /\ to' = [to EXCEPT ![m] = i] /\ to[m] = None
        /\ UNCHANGED <<handed, discarded>>
    BY <1>1 DEF PushMessage, TInv, PushInv
  <2>2. Elements(RPush(queue[i], m)) = Elements(queue[i]) \cup {m}
    BY ListsTyped, RPushLemma
  <2>3. queue'[i] = RPush(queue[i], m) /\ \A j \in Instances \ {i} : queue'[j] = queue[j]
    BY <2>1 DEF TInv, TypeOK
  <2>4. Stored' = Stored \cup {m}
    BY <2>1, <2>2, <2>3 DEF Stored
  <2>5. Accepted' = Accepted \cup {m} /\ m \notin Accepted
    BY <2>1 DEF TInv, TypeOK
  <2> QED BY <2>1, <2>4, <2>5 DEF Mail!Accept
<1>2. ASSUME NEW m \in Messages, TrimQueue(m)
      PROVE  [Mail!Next]_(Mail!vars)
  <2> DEFINE i == to[m]
  <2>1. /\ i \in Instances /\ UNCHANGED <<processing, to, handed>>
        /\ queue' = [queue EXCEPT ![i] = LPop(queue[i])]
        /\ discarded' = IF queue[i] = << >> THEN discarded ELSE discarded \cup {Head(queue[i])}
    BY <1>2 DEF TrimQueue, Trimmed, TInv, PushInv
  <2> HIDE DEF i
  <2>2. queue'[i] = LPop(queue[i]) /\ \A j \in Instances \ {i} : queue'[j] = queue[j]
    BY <2>1 DEF TInv, TypeOK
  <2>3. CASE queue[i] = << >>
    <3>1. Stored' = Stored /\ discarded' = discarded
      BY <2>1, <2>2, <2>3 DEF Stored, LPop
    <3> QED BY <2>1, <3>1 DEF Mail!vars
  <2>4. CASE queue[i] # << >>
    <3> DEFINE h == Head(queue[i])
    <3>1. /\ h \in Messages /\ Elements(queue[i]) = Elements(LPop(queue[i])) \cup {h}
          /\ h \notin Elements(LPop(queue[i]))
      BY <2>1, <2>4, ListsTyped, LPopLemma DEF SingleCopy
    <3> HIDE DEF h
    <3>2. h \in Stored /\ Stored' = Stored \ {h}
      BY <2>1, <2>2, <3>1 DEF Stored, SingleCopy
    <3>3. discarded' = discarded \cup {h}
      BY <2>1, <2>4 DEF h
    <3>4. Mail!Discard({h})
      BY <2>1, <3>2, <3>3 DEF Mail!Discard
    <3> QED BY <3>2, <3>4 DEF Mail!Next
  <2> QED BY <2>3, <2>4
<1>3. ASSUME NEW w \in Workers, AtomicFlushOne(w)
      PROVE  [Mail!Next]_(Mail!vars)
  <2> DEFINE i == InstanceOf(w)
             m == RTail(queue[i])
  <2>1. i \in Instances /\ UNCHANGED <<to, discarded>>
    BY <1>3 DEF AtomicFlushOne, InstanceOf, TInv, WorkerInv
  <2>2. CASE queue[i] = << >>
    <3>1. UNCHANGED <<queue, processing, handed>>
      BY <1>3, <2>2 DEF AtomicFlushOne
    <3> QED BY <2>1, <3>1, SameListsStored DEF Mail!vars
  <2>3. CASE queue[i] # << >>
    <3>1. /\ queue' = [queue EXCEPT ![i] = RPop(queue[i])]
          /\ processing' = [processing EXCEPT ![i] = LPush(processing[i], m)]
          /\ handed' = handed \/ handed' = handed \cup {m}
      BY <1>3, <2>3 DEF AtomicFlushOne, Flushed, IntoProcessing
    <3>2. m \in Messages /\ Elements(queue[i]) = Elements(RPop(queue[i])) \cup {m}
      BY <2>1, <2>3, ListsTyped, RPopLemma
    <3> HIDE DEF m, i
    <3>3. Elements(LPush(processing[i], m)) = Elements(processing[i]) \cup {m}
      BY <2>1, <3>2, ListsTyped, LPushLemma
    <3>4. /\ queue'[i] = RPop(queue[i]) /\ processing'[i] = LPush(processing[i], m)
          /\ \A j \in Instances \ {i} : queue'[j] = queue[j] /\ processing'[j] = processing[j]
      BY <2>1, <3>1 DEF TInv, TypeOK
    <3>5. Stored' = Stored
      BY <2>1, <3>2, <3>3, <3>4 DEF Stored
    <3>6. to[m] # None
      BY <2>1, <3>2 DEF SingleCopy
    <3>7. CASE handed' = handed
      BY <2>1, <3>5, <3>7 DEF Mail!vars
    <3>8. CASE handed' = handed \cup {m}
      BY <2>1, <3>2, <3>5, <3>6, <3>8 DEF Mail!Next, Mail!Hand
    <3> QED BY <3>1, <3>7, <3>8
  <2> QED BY <2>2, <2>3
<1>4. ASSUME NEW s \in Sockets, FlushSend(s)
      PROVE  Mail!Hand(held[s]) /\ held[s] \in Messages
  <2>1. /\ held[s] \in Messages /\ to[held[s]] # None
        /\ handed' = handed \cup {held[s]} /\ UNCHANGED <<queue, processing, to, discarded>>
    BY <1>4 DEF FlushSend, HeldInv, TInv, WorkerInv, Workers
  <2> QED BY <2>1, SameListsStored DEF Mail!Hand
<1>5. ASSUME NEW w \in Workers, AckProcessed(w)
      PROVE  [Mail!Next]_(Mail!vars)
  <2> DEFINE i == InstanceOf(w)
             m == held[w]
  <2>1. /\ i \in Instances /\ m \in handed /\ m \in Messages
        /\ UNCHANGED <<queue, to, handed, discarded>>
        /\ processing' = [processing EXCEPT ![i] = LRem(processing[i], m)]
    BY <1>5 DEF AckProcessed, InstanceOf, TInv, WorkerInv, TypeOK
  <2> HIDE DEF i, m
  <2>2. /\ processing'[i] = LRem(processing[i], m)
        /\ \A j \in Instances \ {i} : processing'[j] = processing[j]
    BY <2>1 DEF TInv, TypeOK
  <2>3. CASE m \notin Elements(processing[i])
    <3>1. Stored' = Stored
      BY <2>1, <2>2, <2>3 DEF Stored, LRem
    <3> QED BY <2>1, <3>1 DEF Mail!vars
  <2>4. CASE m \in Elements(processing[i])
    <3>1. /\ Elements(LRem(processing[i], m)) \subseteq Elements(processing[i])
          /\ Elements(processing[i]) \subseteq Elements(LRem(processing[i], m)) \cup {m}
          /\ m \notin Elements(LRem(processing[i], m))
      BY <2>1, ListsTyped, LRemLemma DEF SingleCopy
    <3>2. Stored' = Stored \ {m}
      BY <2>1, <2>2, <2>4, <3>1 DEF Stored, SingleCopy
    <3> QED BY <2>1, <3>2 DEF Mail!Next, Mail!Settle
  <2> QED BY <2>3, <2>4
<1>6. ASSUME NEW i \in Instances, FlushQueue(i)
      PROVE  [Mail!Next]_(Mail!vars)
  <2>1. /\ queue' = [queue EXCEPT ![i] = << >>] /\ UNCHANGED <<processing, to, handed>>
        /\ discarded' = discarded \cup Elements(queue[i])
    BY <1>6 DEF FlushQueue
  <2>2. /\ queue'[i] = << >> /\ Elements(<< >>) = {}
        /\ \A j \in Instances \ {i} : queue'[j] = queue[j]
    BY <2>1 DEF TInv, TypeOK, Elements
  <2>3. Stored' = Stored \ Elements(queue[i])
    <3>1. ASSUME NEW m \in Messages
          PROVE  m \in Stored' <=> m \in Stored /\ m \notin Elements(queue[i])
      <4>1. CASE m \in Elements(queue[i])
        <5>1. \A j \in Instances \ {i} : m \notin Elements(queue[j]) \cup Elements(processing[j])
          BY <4>1 DEF SingleCopy
        <5>2. m \notin Elements(processing[i])
          BY <4>1 DEF SingleCopy
        <5> QED BY <2>1, <2>2, <4>1, <5>1, <5>2 DEF Stored
      <4>2. CASE m \notin Elements(queue[i])
        BY <2>1, <2>2, <4>2 DEF Stored
      <4> QED BY <4>1, <4>2
    <3> QED BY <3>1 DEF Stored
  <2>4. Elements(queue[i]) \in SUBSET Stored
    BY ListsTyped DEF Stored
  <2> QED BY <2>1, <2>3, <2>4 DEF Mail!Next, Mail!Discard
<1>7. ASSUME NEW i \in Instances, ReplayProcessing(i)
      PROVE  UNCHANGED Mail!vars
  <2> DEFINE m == RTail(processing[i])
  <2>1. UNCHANGED <<to, handed, discarded>>
    BY <1>7 DEF ReplayProcessing
  <2>2. CASE processing[i] = << >>
    BY <1>7, <2>1, <2>2, SameListsStored DEF ReplayProcessing, Mail!vars
  <2>3. CASE processing[i] # << >>
    <3>1. /\ processing' = [processing EXCEPT ![i] = RPop(processing[i])]
          /\ queue' = [queue EXCEPT ![i] = LPush(queue[i], m)]
      BY <1>7, <2>3 DEF ReplayProcessing, Replayed
    <3>2. m \in Messages /\ Elements(processing[i]) = Elements(RPop(processing[i])) \cup {m}
      BY <2>3, ListsTyped, RPopLemma
    <3> HIDE DEF m
    <3>3. Elements(LPush(queue[i], m)) = Elements(queue[i]) \cup {m}
      BY <3>2, ListsTyped, LPushLemma
    <3>4. /\ processing'[i] = RPop(processing[i]) /\ queue'[i] = LPush(queue[i], m)
          /\ \A j \in Instances \ {i} : queue'[j] = queue[j] /\ processing'[j] = processing[j]
      BY <3>1 DEF TInv, TypeOK
    <3>5. Stored' = Stored
      BY <3>2, <3>3, <3>4 DEF Stored
    <3> QED BY <2>1, <3>5 DEF Mail!vars
  <2> QED BY <2>2, <2>3
<1>8. ASSUME UNCHANGED <<queue, processing, to, handed, discarded>>
      PROVE  UNCHANGED Mail!vars
  BY <1>8, SameListsStored DEF Mail!vars
<1> QED
  BY <1>1, <1>2, <1>3, <1>4, <1>5, <1>6, <1>7, <1>8
  DEF Mail!Next, Next, vars, DeliverLive, OpenRegister, OpenAttach, PeerDies, CloseMarkOffline,
      CloseDetach, FlushTimer, FlushSendThrows, GetMessages, GetQueueDepth, ReportDepth,
      FlushQueueDone, HydrateOffline, Crash

(* The queues implement the mailbox: crashes, replays and interleavings of  *)
(* handlers are not visible there.                                          *)
THEOREM Refinement == Spec => ImplementsMailbox
<1>1. Init => Mail!Init
  BY DEF Init, Mail!Init, Stored, Elements
<1>2. Init => HeldInv
  BY DEF Init, HeldInv
<1>3. TInv /\ SingleCopy /\ HeldInv /\ [Next]_vars => HeldInv'
  BY NextHeld
<1>4. TInv /\ SingleCopy /\ HeldInv /\ [Next]_vars => [Mail!Next]_(Mail!vars)
  BY MailboxStep
<1> QED
  BY <1>1, <1>2, <1>3, <1>4, TypeCorrect, SingleCopySafety, PTL
  DEF Spec, ImplementsMailbox, Mail!Spec

(* An accepted message is never lost between two Redis commands.            *)
THEOREM NothingLostSafety == Spec => []NothingLost
<1>1. Mail!Init => Mail!NothingLost
  BY DEF Mail!Init, Mail!NothingLost
<1>2. Mail!NothingLost /\ [Mail!Next]_(Mail!vars) => Mail!NothingLost'
  BY DEF Mail!NothingLost, Mail!Next, Mail!vars, Mail!Accept, Mail!Hand, Mail!Settle, Mail!Discard
<1>3. Mail!Spec => []Mail!NothingLost
  BY <1>1, <1>2, PTL DEF Mail!Spec
<1>4. Mail!NothingLost => NothingLost
  BY DEF Mail!NothingLost, NothingLost
<1> QED BY <1>3, <1>4, Refinement, PTL DEF ImplementsMailbox

-----------------------------------------------------------------------------
(* A handler that runs works for an open socket's instance, and holds      *)
(* nothing before its first pop.                                           *)
IdleInv ==
  /\ \A w \in Workers : pc[w] # "new" => sock[via[w]] # "free"
  /\ \A w \in Workers : pc[w] \in {"new", "registering", "armed", "pop"} => held[w] = None

(* Only OpenRegister opens a socket, GetMessages starts a pull and          *)
(* AtomicFlushOne takes a message.                                         *)
LEMMA NextIdle == TInv /\ IdleInv /\ [Next]_vars => IdleInv'
<1> SUFFICES ASSUME TInv, IdleInv, [Next]_vars PROVE IdleInv'
  OBVIOUS
<1> USE QueueAssumptions DEF Workers, SocketStates, WorkerPCs
<1> USE DEF redis, registry, sockets, pushes, workers, admin, startup, history
<1>1. ASSUME NEW s \in Sockets, NEW i \in Instances, OpenRegister(s, i) PROVE IdleInv'
  BY <1>1 DEF IdleInv, TInv, TypeOK, WorkerInv, OpenRegister
<1>2. ASSUME NEW s \in Sockets,
             OpenAttach(s) \/ FlushTimer(s) \/ FlushSend(s) \/ FlushSendThrows(s)
      PROVE  IdleInv'
  BY <1>2 DEF IdleInv, TInv, TypeOK, OpenAttach, FlushTimer, FlushSend, FlushSendThrows
<1>3. ASSUME NEW s \in Sockets, PeerDies(s) \/ CloseMarkOffline(s) \/ CloseDetach(s)
      PROVE  IdleInv'
  BY <1>3 DEF IdleInv, TInv, TypeOK, WorkerInv, PeerDies, CloseMarkOffline, CloseDetach
<1>4. ASSUME NEW p \in Pulls, NEW s \in Sockets, NEW n \in PullLimits, GetMessages(p, s, n)
      PROVE  IdleInv'
  BY <1>4 DEF IdleInv, TInv, TypeOK, GetMessages
<1>5. ASSUME NEW w \in Workers, AtomicFlushOne(w) PROVE IdleInv'
  <2>1. /\ \/ pc' = [pc EXCEPT ![w] = "llen"] /\ UNCHANGED held
           \/ /\ \E m : held' = [held EXCEPT ![w] = m]
              /\ pc' = [pc EXCEPT ![w] = "ack"] \/ pc' = [pc EXCEPT ![w] = "send"]
        /\ pc[w] = "pop" /\ UNCHANGED <<sock, via>>
    BY <1>5 DEF AtomicFlushOne
  <2> QED BY <2>1 DEF IdleInv, TInv, TypeOK
<1>6. ASSUME NEW w \in Workers, AckProcessed(w) \/ GetQueueDepth(w) \/ ReportDepth(w)
      PROVE  IdleInv'
  BY <1>6 DEF IdleInv, TInv, TypeOK, AckProcessed, AfterAck, GetQueueDepth, ReportDepth
<1>7. CASE Crash
  BY <1>7 DEF IdleInv, TInv, TypeOK, WorkerInv, Crash
<1>8. ASSUME UNCHANGED <<sock, via, pc, held>> PROVE IdleInv'
  BY <1>8 DEF IdleInv
<1> QED
  BY <1>1, <1>2, <1>3, <1>4, <1>5, <1>6, <1>7, <1>8
  DEF Next, vars, PushMessage, TrimQueue, DeliverLive, FlushQueue, FlushQueueDone, HydrateOffline,
      ReplayProcessing

(* The instance a running handler works for does not change under it.       *)
LEMMA OwnerStays ==
  ASSUME TInv, IdleInv, [Next]_vars, NEW w \in Workers, pc[w] # "new"
  PROVE  InstanceOf(w)' = InstanceOf(w) /\ InstanceOf(w) \in Instances
<1> USE QueueAssumptions DEF Workers
<1> USE DEF redis, registry, sockets, pushes, workers, admin, startup, history
<1>1. InstanceOf(w) \in Instances /\ via[w] \in Sockets /\ sock[via[w]] # "free"
  BY DEF TInv, WorkerInv, IdleInv, InstanceOf
<1>2. ASSUME NEW s \in Sockets, NEW i \in Instances, OpenRegister(s, i)
      PROVE  InstanceOf(w)' = InstanceOf(w)
  BY <1>1, <1>2 DEF TInv, TypeOK, OpenRegister, InstanceOf
<1>3. ASSUME NEW p \in Pulls, NEW s \in Sockets, NEW n \in PullLimits, GetMessages(p, s, n)
      PROVE  InstanceOf(w)' = InstanceOf(w)
  BY <1>1, <1>3 DEF TInv, TypeOK, GetMessages, InstanceOf
<1>4. UNCHANGED <<via, owner>> => InstanceOf(w)' = InstanceOf(w)
  BY DEF InstanceOf
<1> QED
  BY <1>1, <1>2, <1>3, <1>4
  DEF Next, vars, PushMessage, TrimQueue, DeliverLive, OpenAttach, PeerDies, CloseMarkOffline,
      CloseDetach, FlushTimer, FlushSend, FlushSendThrows, AtomicFlushOne, AckProcessed,
      GetQueueDepth, ReportDepth, FlushQueue, FlushQueueDone, HydrateOffline, ReplayProcessing,
      Crash

-----------------------------------------------------------------------------
(* A message a handler is delivering lies in its processing list and no    *)
(* other handler has it, unless a replay moved it.                         *)
HoldInv ==
  \A w \in Workers : Holding(w) /\ held[w] \notin replayed =>
    /\ held[w] \in Elements(processing[InstanceOf(w)])
    /\ \A v \in Workers \ {w} : Holding(v) => held[v] # held[w]

(* Only what was pushed is handed over.                                     *)
HandedInv == \A m \in handed : to[m] # None

OnceInv == HoldInv /\ HandedInv /\ OnceUntilReplay

(* A popped message leaves the queue for good, and its holder is alone,    *)
(* until a replay puts it back.                                            *)
LEMMA NextOnce == TInv /\ SingleCopy /\ HeldInv /\ IdleInv /\ OnceInv /\ [Next]_vars => OnceInv'
<1> SUFFICES ASSUME TInv, SingleCopy, HeldInv, IdleInv, OnceInv, [Next]_vars
             PROVE  OnceInv'
  OBVIOUS
<1> USE QueueAssumptions
<1> USE DEF redis, registry, sockets, pushes, workers, admin, startup, history
<1>h. ASSUME NEW w \in Workers, Holding(w)
      PROVE  /\ InstanceOf(w)' = InstanceOf(w) /\ InstanceOf(w) \in Instances
             /\ held[w] # None /\ held[w] \in Messages
  BY <1>h, OwnerStays DEF Holding, TInv, TypeOK, WorkerInv
<1>q. ASSUME NEW w \in Workers, Holding(w), held[w] \notin replayed, NEW i \in Instances
      PROVE  held[w] \notin Elements(queue[i])
  BY <1>h, <1>q DEF OnceInv, HoldInv, SingleCopy
<1>s. ASSUME UNCHANGED <<processing, handed, replayed, held>>,
             \A w \in Workers : pc'[w] = "send" => pc[w] = "send",
             \A w \in Workers : Holding(w)' => Holding(w),
             \A m \in Messages : to[m] # None => to'[m] # None,
             \A i \in Instances, m \in handed \ replayed :
               m \in Elements(queue'[i]) => m \in Elements(queue[i])
      PROVE  OnceInv'
  <2>1. HoldInv'
    BY <1>s, <1>h DEF OnceInv, HoldInv
  <2>2. HandedInv'
    BY <1>s DEF OnceInv, HandedInv, TInv, TypeOK
  <2>3. OnceUntilReplay'
    BY <1>s DEF OnceInv, OnceUntilReplay, Workers
  <2> QED BY <2>1, <2>2, <2>3 DEF OnceInv
<1>1. ASSUME NEW m \in Messages, NEW i \in Instances, PushMessage(m, i) PROVE OnceInv'
  <2>1. /\ queue' = [queue EXCEPT ![i] = RPush(queue[i], m)] /\ to[m] = None
        /\ to' = [to EXCEPT ![m] = i] /\ UNCHANGED <<processing, handed, replayed, held, pc>>
    BY <1>1 DEF PushMessage, TInv, PushInv
  <2>2. Elements(RPush(queue[i], m)) = Elements(queue[i]) \cup {m}
    BY ListsTyped, RPushLemma
  <2>3. m \notin handed
    BY <2>1 DEF OnceInv, HandedInv
  <2> QED BY <1>s, <2>1, <2>2, <2>3 DEF TInv, TypeOK, Holding
<1>2. ASSUME NEW m \in Messages, TrimQueue(m) PROVE OnceInv'
  <2>1. /\ queue' = [queue EXCEPT ![to[m]] = LPop(queue[to[m]])] /\ to[m] \in Instances
        /\ UNCHANGED <<processing, handed, replayed, held, pc, to>>
    BY <1>2 DEF TrimQueue, Trimmed, TInv, PushInv
  <2>2. Elements(LPop(queue[to[m]])) \subseteq Elements(queue[to[m]])
    BY <2>1, ListsTyped, LPopLemma
  <2> QED BY <1>s, <2>1, <2>2 DEF TInv, TypeOK, Holding
<1>3. ASSUME NEW i \in Instances, FlushQueue(i) PROVE OnceInv'
  <2>1. /\ queue' = [queue EXCEPT ![i] = << >>]
        /\ UNCHANGED <<processing, handed, replayed, held, pc, to>>
    BY <1>3 DEF FlushQueue
  <2>2. Elements(<< >>) = {}
    BY DEF Elements
  <2> QED BY <1>s, <2>1, <2>2 DEF TInv, TypeOK, Holding
<1>4. ASSUME NEW w \in Workers, AtomicFlushOne(w) PROVE OnceInv'
  <2> DEFINE i == InstanceOf(w)
             m == RTail(queue[i])
  <2>1. /\ i \in Instances /\ i' = i /\ pc[w] = "pop" /\ ~Holding(w)
        /\ UNCHANGED <<to, replayed>>
    BY <1>4, OwnerStays DEF AtomicFlushOne, Holding
  <2>2. CASE queue[i] = << >>
    <3>1. pc' = [pc EXCEPT ![w] = "llen"] /\ UNCHANGED <<queue, processing, held, handed>>
      BY <1>4, <2>2 DEF AtomicFlushOne
    <3> QED BY <1>s, <2>1, <3>1 DEF TInv, TypeOK, Holding
  <2>3. CASE queue[i] # << >>
    <3>1. /\ queue' = [queue EXCEPT ![i] = RPop(queue[i])]
          /\ processing' = [processing EXCEPT ![i] = LPush(processing[i], m)]
          /\ held' = [held EXCEPT ![w] = m]
          /\ \/ pc' = [pc EXCEPT ![w] = "ack"] /\ handed' = handed \cup {m}
             \/ pc' = [pc EXCEPT ![w] = "send"] /\ UNCHANGED handed
      BY <1>4, <2>3 DEF AtomicFlushOne, Flushed, IntoProcessing
    <3>2. /\ m \in Messages /\ Elements(queue[i]) = Elements(RPop(queue[i])) \cup {m}
          /\ m \notin Elements(RPop(queue[i])) /\ to[m] = i
      BY <2>1, <2>3, ListsTyped, RPopLemma DEF SingleCopy
    <3> HIDE DEF m
    <3>3. Elements(LPush(processing[i], m)) = Elements(processing[i]) \cup {m}
      BY <2>1, <3>2, ListsTyped, LPushLemma
    <3>4. /\ held'[w] = m /\ \A v \in Workers \ {w} : held'[v] = held[v] /\ pc'[v] = pc[v]
          /\ processing'[i] = LPush(processing[i], m) /\ queue'[i] = RPop(queue[i])
          /\ \A j \in Instances \ {i} : processing'[j] = processing[j] /\ queue'[j] = queue[j]
          /\ \/ pc'[w] = "ack" /\ handed' = handed \cup {m}
             \/ pc'[w] = "send" /\ handed' = handed
      BY <2>1, <3>1 DEF TInv, TypeOK
    <3> HIDE DEF i
    <3>5. \A j \in Instances : m \notin Elements(queue'[j]) /\ (m \in Elements(queue[j]) => j = i)
      BY <2>1, <3>2, <3>4 DEF SingleCopy
    <3>6. \A v \in Workers : Holding(v) /\ m \notin replayed => held[v] # m
      BY <1>q, <2>1, <3>2
    <3>7. \A v \in Workers \ {w} : Holding(v)' <=> Holding(v)
      BY <3>4 DEF Holding
    <3>8. HoldInv'
      <4> SUFFICES ASSUME NEW v \in Workers, Holding(v)', held'[v] \notin replayed
                   PROVE  /\ held'[v] \in Elements(processing'[InstanceOf(v)'])
                          /\ \A u \in Workers \ {v} : Holding(u)' => held'[u] # held'[v]
        BY <2>1 DEF HoldInv
      <4>1. CASE v = w
        BY <2>1, <3>2, <3>3, <3>4, <3>6, <3>7, <4>1 DEF i
      <4>2. CASE v # w
        <5>1. /\ Holding(v) /\ held'[v] = held[v] /\ InstanceOf(v)' = InstanceOf(v)
              /\ InstanceOf(v) \in Instances
          BY <1>h, <3>4, <3>7, <4>2
        <5>2. /\ held[v] \in Elements(processing[InstanceOf(v)])
              /\ \A u \in Workers \ {v} : Holding(u) => held[u] # held[v]
          BY <2>1, <5>1 DEF OnceInv, HoldInv
        <5>3. held[v] # m
          BY <2>1, <3>6, <5>1
        <5> QED BY <2>1, <3>3, <3>4, <3>7, <5>1, <5>2, <5>3
      <4> QED BY <4>1, <4>2
    <3>9. HandedInv'
      BY <1>4, <2>1, <3>2, <3>4 DEF OnceInv, HandedInv, TInv, TypeOK
    <3>10. OnceUntilReplay'
      <4>1. ASSUME NEW n \in handed' \ replayed, NEW j \in Instances
            PROVE  n \notin Elements(queue'[j])
        <5>1. CASE n = m
          BY <3>5, <5>1
        <5>2. CASE n # m
          <6>1. n \in handed \ replayed /\ n \notin Elements(queue[j])
            BY <3>4, <4>1, <5>2 DEF OnceInv, OnceUntilReplay
          <6> QED BY <2>1, <3>2, <3>4, <6>1
        <5> QED BY <5>1, <5>2
      <4>2. ASSUME NEW n \in handed' \ replayed, NEW s \in Sockets, pc'[s] = "send"
            PROVE  held'[s] # n
        <5>1. s \in Workers
          BY DEF Workers
        <5>2. CASE s = w
          <6>1. n \in handed /\ held'[s] = m
            BY <3>4, <4>2, <5>2
          <6>2. m \notin handed \ replayed
            BY <2>1, <3>2 DEF OnceInv, OnceUntilReplay
          <6> QED BY <4>2, <6>1, <6>2
        <5>3. CASE s # w
          <6>1. pc[s] = "send" /\ held'[s] = held[s] /\ Holding(s)
            BY <3>4, <4>2, <5>1, <5>3 DEF Holding
          <6>2. CASE n = m
            BY <3>6, <4>2, <5>1, <6>1, <6>2
          <6>3. CASE n # m
            <7>1. n \in handed \ replayed
              BY <3>4, <4>2, <6>3
            <7> QED BY <6>1, <7>1 DEF OnceInv, OnceUntilReplay
          <6> QED BY <6>2, <6>3
        <5> QED BY <5>2, <5>3
      <4> QED BY <2>1, <4>1, <4>2 DEF OnceUntilReplay
    <3> QED BY <3>8, <3>9, <3>10 DEF OnceInv
  <2> QED BY <2>2, <2>3
<1>5. ASSUME NEW s \in Sockets, FlushSend(s) PROVE OnceInv'
  <2>1. /\ s \in Workers /\ pc[s] = "send" /\ pc' = [pc EXCEPT ![s] = "ack"] /\ Holding(s)
        /\ handed' = handed \cup {held[s]}
        /\ UNCHANGED <<queue, processing, held, replayed, to, owner, via>>
    BY <1>5 DEF FlushSend, Workers, Holding
  <2>2. pc'[s] = "ack" /\ \A v \in Workers \ {s} : pc'[v] = pc[v]
    BY <2>1 DEF TInv, TypeOK
  <2>3. \A w \in Workers : Holding(w)' <=> Holding(w)
    BY <2>1, <2>2 DEF Holding
  <2>4. HoldInv'
    BY <1>h, <2>1, <2>3 DEF OnceInv, HoldInv
  <2>5. HandedInv'
    BY <2>1 DEF OnceInv, HandedInv, HeldInv
  <2>6. OnceUntilReplay'
    <3>1. ASSUME NEW n \in handed' \ replayed
          PROVE  /\ \A i \in Instances : n \notin Elements(queue[i])
                 /\ \A t \in Sockets : pc'[t] = "send" => held[t] # n
      <4>1. CASE n \in handed
        BY <2>1, <2>2, <3>1, <4>1 DEF OnceInv, OnceUntilReplay, Workers
      <4>2. CASE n = held[s]
        <5>1. \A i \in Instances : n \notin Elements(queue[i])
          BY <1>q, <2>1, <3>1, <4>2
        <5>2. \A t \in Sockets : pc'[t] = "send" => t \in Workers \ {s} /\ Holding(t)
          BY <2>2, <2>3 DEF Holding, Workers
        <5>3. \A t \in Workers \ {s} : Holding(t) => held[t] # n
          BY <2>1, <3>1, <4>2 DEF OnceInv, HoldInv
        <5> QED BY <5>1, <5>2, <5>3
      <4> QED BY <2>1, <3>1, <4>1, <4>2
    <3> QED BY <2>1, <3>1 DEF OnceUntilReplay
  <2> QED BY <2>4, <2>5, <2>6 DEF OnceInv
<1>6. ASSUME NEW w \in Workers, AckProcessed(w) PROVE OnceInv'
  <2> DEFINE i == InstanceOf(w)
             m == held[w]
  <2>1. /\ i \in Instances /\ i' = i /\ Holding(w) /\ m # None
        /\ UNCHANGED <<queue, handed, replayed, to>>
    BY <1>6, <1>h DEF AckProcessed, Holding
  <2>2. /\ processing' = [processing EXCEPT ![i] = LRem(processing[i], m)]
        /\ held' = [held EXCEPT ![w] = None] /\ ~Holding(w)'
        /\ \A v \in Workers \ {w} : pc'[v] = pc[v]
    BY <1>6 DEF AckProcessed, AfterAck, Holding, TInv, TypeOK
  <2> HIDE DEF i, m
  <2>3. /\ Elements(processing[i]) \subseteq Elements(processing'[i]) \cup {m}
        /\ \A j \in Instances \ {i} : processing'[j] = processing[j]
        /\ \A v \in Workers \ {w} : held'[v] = held[v]
        /\ \A v \in Workers \ {w} : Holding(v)' <=> Holding(v)
    <3>1. Elements(processing[i]) \subseteq Elements(LRem(processing[i], m)) \cup {m}
      BY <2>1, ListsTyped, LRemLemma
    <3> QED BY <2>1, <2>2, <3>1 DEF TInv, TypeOK, Holding
  <2>4. HoldInv'
    <3> SUFFICES ASSUME NEW v \in Workers, Holding(v)', held'[v] \notin replayed
                 PROVE  /\ held'[v] \in Elements(processing'[InstanceOf(v)'])
                        /\ \A u \in Workers \ {v} : Holding(u)' => held'[u] # held'[v]
      BY <2>1 DEF HoldInv
    <3>1. /\ v # w /\ Holding(v) /\ held'[v] = held[v] /\ InstanceOf(v)' = InstanceOf(v)
          /\ InstanceOf(v) \in Instances
      BY <1>h, <2>2, <2>3
    <3>2. /\ held[v] \in Elements(processing[InstanceOf(v)]) /\ held[v] # m
          /\ \A u \in Workers \ {v} : Holding(u) => held[u] # held[v]
      BY <2>1, <3>1 DEF OnceInv, HoldInv, m
    <3> QED BY <2>2, <2>3, <3>1, <3>2
  <2>5. HandedInv'
    BY <2>1 DEF OnceInv, HandedInv
  <2>6. OnceUntilReplay'
    <3>1. \A s \in Sockets : pc'[s] = "send" => pc[s] = "send" /\ held'[s] = held[s]
      BY <2>2, <2>3 DEF Workers, Holding
    <3> QED BY <2>1, <3>1 DEF OnceInv, OnceUntilReplay
  <2> QED BY <2>4, <2>5, <2>6 DEF OnceInv
<1>7. ASSUME NEW i \in Instances, ReplayProcessing(i) PROVE OnceInv'
  <2> DEFINE m == RTail(processing[i])
  <2>1. UNCHANGED <<handed, held, pc, to>>
    BY <1>7 DEF ReplayProcessing
  <2>2. CASE processing[i] = << >>
    <3>1. UNCHANGED <<queue, processing, replayed>>
      BY <1>7, <2>2 DEF ReplayProcessing
    <3> QED BY <1>s, <2>1, <3>1 DEF Holding
  <2>3. CASE processing[i] # << >>
    <3>1. /\ processing' = [processing EXCEPT ![i] = RPop(processing[i])]
          /\ queue' = [queue EXCEPT ![i] = LPush(queue[i], m)]
          /\ replayed' = replayed \cup {m}
      BY <1>7, <2>3 DEF ReplayProcessing, Replayed
    <3>2. m \in Messages /\ Elements(processing[i]) = Elements(RPop(processing[i])) \cup {m}
      BY <2>3, ListsTyped, RPopLemma
    <3> HIDE DEF m
    <3>3. Elements(LPush(queue[i], m)) = Elements(queue[i]) \cup {m}
      BY <3>2, ListsTyped, LPushLemma
    <3>4. /\ processing'[i] = RPop(processing[i]) /\ queue'[i] = LPush(queue[i], m)
          /\ \A j \in Instances \ {i} : processing'[j] = processing[j] /\ queue'[j] = queue[j]
      BY <3>1 DEF TInv, TypeOK
    <3>5. HoldInv'
      <4> SUFFICES ASSUME NEW v \in Workers, Holding(v)', held'[v] \notin replayed'
                   PROVE  /\ held'[v] \in Elements(processing'[InstanceOf(v)'])
                          /\ \A u \in Workers \ {v} : Holding(u)' => held'[u] # held'[v]
        BY DEF HoldInv
      <4>1. \A u \in Workers : Holding(u)' <=> Holding(u)
        BY <2>1 DEF Holding
      <4>2. /\ Holding(v) /\ InstanceOf(v)' = InstanceOf(v) /\ InstanceOf(v) \in Instances
            /\ held[v] # m /\ held[v] \notin replayed
        BY <1>h, <2>1, <3>1, <4>1
      <4>3. /\ held[v] \in Elements(processing[InstanceOf(v)])
            /\ \A u \in Workers \ {v} : Holding(u) => held[u] # held[v]
        BY <4>2 DEF OnceInv, HoldInv
      <4> QED BY <2>1, <3>2, <3>4, <4>1, <4>2, <4>3
    <3>6. HandedInv'
      BY <2>1 DEF OnceInv, HandedInv
    <3>7. OnceUntilReplay'
      BY <2>1, <3>1, <3>3, <3>4 DEF OnceInv, OnceUntilReplay
    <3> QED BY <3>5, <3>6, <3>7 DEF OnceInv
  <2> QED BY <2>2, <2>3
<1>8. CASE Crash
  <2>1. /\ UNCHANGED <<queue, processing, handed, replayed, to>>
        /\ \A w \in Workers : pc'[w] = "new" \/ pc'[w] = "done"
    BY <1>8 DEF Crash
  <2>2. \A s \in Sockets : pc'[s] # "send"
    BY <2>1 DEF Workers
  <2> QED BY <2>1, <2>2 DEF OnceInv, HoldInv, HandedInv, OnceUntilReplay, Holding
<1>9. ASSUME NEW s \in Sockets, \/ \E i \in Instances : OpenRegister(s, i)
                               \/ OpenAttach(s)
                               \/ FlushTimer(s)
                               \/ \E p \in Pulls, n \in PullLimits : GetMessages(p, s, n)
      PROVE  OnceInv'
  <2>1. /\ UNCHANGED <<queue, processing, handed, replayed, held, to>>
        /\ \A w \in Workers : pc'[w] \in {"send", "ack"} => pc'[w] = pc[w]
    BY <1>9 DEF OpenRegister, OpenAttach, FlushTimer, GetMessages, TInv, TypeOK
  <2> QED BY <1>s, <2>1 DEF Holding
<1>12. ASSUME NEW s \in Sockets, FlushSendThrows(s) PROVE OnceInv'
  <2>1. /\ UNCHANGED <<queue, processing, handed, replayed, to>> /\ s \in Workers
        /\ pc' = [pc EXCEPT ![s] = "llen"] /\ held' = [held EXCEPT ![s] = None]
    BY <1>12 DEF FlushSendThrows, Workers
  <2>2. \A w \in Workers : Holding(w)' => Holding(w) /\ w # s /\ held'[w] = held[w]
    BY <2>1 DEF Holding, TInv, TypeOK
  <2>3. HoldInv'
    BY <1>h, <2>1, <2>2 DEF OnceInv, HoldInv
  <2>4. HandedInv' /\ OnceUntilReplay'
    BY <2>1, <2>2 DEF OnceInv, HandedInv, OnceUntilReplay, Holding, Workers, TInv, TypeOK
  <2> QED BY <2>3, <2>4 DEF OnceInv
<1>10. ASSUME NEW w \in Workers, GetQueueDepth(w) \/ ReportDepth(w) PROVE OnceInv'
  <2>1. /\ UNCHANGED <<queue, processing, handed, replayed, held, to>>
        /\ \A v \in Workers : pc'[v] \in {"send", "ack"} => pc'[v] = pc[v]
    BY <1>10 DEF GetQueueDepth, ReportDepth, TInv, TypeOK
  <2> QED BY <1>s, <2>1 DEF Holding
<1>11. ASSUME UNCHANGED <<queue, processing, handed, replayed, held, to, pc>> PROVE OnceInv'
  BY <1>11, <1>s DEF Holding
<1> QED
  BY <1>1, <1>2, <1>3, <1>4, <1>5, <1>6, <1>7, <1>8, <1>9, <1>10, <1>11, <1>12
  DEF Next, vars, DeliverLive, PeerDies, CloseMarkOffline, CloseDetach, FlushQueueDone,
      HydrateOffline

(* However many handlers drain a queue, none hands over a message that was *)
(* handed over before, but for a replay (OnceUntilReplay).                 *)
THEOREM OnceSafety == Spec => []OnceUntilReplay
<1>1. Init => HeldInv /\ IdleInv /\ OnceInv
  BY DEF Init, HeldInv, IdleInv, OnceInv, HoldInv, HandedInv, OnceUntilReplay, Holding
<1>2. OnceInv => OnceUntilReplay
  BY DEF OnceInv
<1> QED
  BY <1>1, <1>2, TypeCorrect, SingleCopySafety, NextHeld, NextIdle, NextOnce, PTL DEF Spec

-----------------------------------------------------------------------------
(* Who an entry of processing:{i} belongs to, before the next start.        *)
Owned(i, m) ==
  \/ i \in replay
  \/ \E w \in Workers : Holding(w) /\ held[w] = m /\ InstanceOf(w) = i
  \/ m \in stranded

(* A message whose send threw stays in its processing list, and no handler  *)
(* can acknowledge it.                                                      *)
StrandedInv ==
  \A m \in stranded \ replayed :
    /\ m \in Elements(processing[to[m]]) /\ to[m] \in Instances
    /\ \A w \in Workers : Holding(w) => held[w] # m

OwnedInv ==
  /\ StrandedInv
  /\ \A i \in Instances : \A m \in Elements(processing[i]) : Owned(i, m)

(* The two lists of OwnedInv and ProcessingOwned are the same.              *)
LEMMA OwnedInvOwned == OwnedInv => ProcessingOwned
BY DEF OwnedInv, StrandedInv, Owned, ProcessingOwned

(* Nothing enters a processing list but by a handler that then holds it;   *)
(* the handler lets go by the LREM or by the send that throws, and only the *)
(* replay after a start takes away what a throw left.                       *)
LEMMA NextOwned ==
  TInv /\ SingleCopy /\ HeldInv /\ IdleInv /\ OnceInv /\ OwnedInv /\ [Next]_vars => OwnedInv'
<1> SUFFICES ASSUME TInv, SingleCopy, HeldInv, IdleInv, OnceInv, OwnedInv, [Next]_vars
             PROVE  OwnedInv'
  OBVIOUS
<1> USE QueueAssumptions
<1> USE DEF redis, registry, sockets, pushes, workers, admin, startup, history
<1>h. ASSUME NEW w \in Workers, Holding(w)
      PROVE  /\ InstanceOf(w)' = InstanceOf(w) /\ InstanceOf(w) \in Instances
             /\ held[w] # None /\ held[w] \in Messages
  BY <1>h, OwnerStays DEF Holding, TInv, TypeOK, WorkerInv
<1>m. ASSUME NEW i \in Instances, NEW m \in Elements(processing[i])
      PROVE  m \in Messages /\ m # None /\ to[m] = i
  BY ListsTyped DEF SingleCopy
<1>s. ASSUME UNCHANGED <<processing, replay, replayed, stranded>>,
             \A m \in Messages : to[m] # None => to'[m] = to[m],
             \A w \in Workers : Holding(w)' <=> Holding(w),
             \A w \in Workers : Holding(w) => held'[w] = held[w]
      PROVE  OwnedInv'
  <2>1. StrandedInv'
    <3>1. \A m \in stranded \ replayed : m \in Messages /\ to'[m] = to[m]
      BY <1>s DEF OwnedInv, StrandedInv, TInv, TypeOK
    <3> QED BY <1>s, <3>1 DEF OwnedInv, StrandedInv
  <2>2. ASSUME NEW i \in Instances, NEW m \in Elements(processing[i])
        PROVE  Owned(i, m)'
    BY <1>h, <1>s, <2>2 DEF OwnedInv, Owned
  <2> QED BY <1>s, <2>1, <2>2 DEF OwnedInv
<1>1. ASSUME NEW w \in Workers, AtomicFlushOne(w) PROVE OwnedInv'
  <2> DEFINE i == InstanceOf(w)
             m == RTail(queue[i])
  <2>1. /\ i \in Instances /\ i' = i /\ pc[w] = "pop" /\ ~Holding(w)
        /\ UNCHANGED <<to, replay, replayed, stranded>>
    BY <1>1, OwnerStays DEF AtomicFlushOne, Holding
  <2>2. CASE queue[i] = << >>
    <3>1. pc' = [pc EXCEPT ![w] = "llen"] /\ UNCHANGED <<processing, held>>
      BY <1>1, <2>2 DEF AtomicFlushOne
    <3> QED BY <1>s, <2>1, <3>1 DEF TInv, TypeOK, Holding
  <2>3. CASE queue[i] # << >>
    <3>1. /\ processing' = [processing EXCEPT ![i] = LPush(processing[i], m)]
          /\ held' = [held EXCEPT ![w] = m]
          /\ pc' = [pc EXCEPT ![w] = "ack"] \/ pc' = [pc EXCEPT ![w] = "send"]
      BY <1>1, <2>3 DEF AtomicFlushOne, IntoProcessing
    <3>2. m \in Messages /\ m \in Elements(queue[i]) /\ to[m] = i
      BY <2>1, <2>3, ListsTyped, RPopLemma DEF SingleCopy
    <3> HIDE DEF m
    <3>3. Elements(LPush(processing[i], m)) = Elements(processing[i]) \cup {m}
      BY <2>1, <3>2, ListsTyped, LPushLemma
    <3>4. /\ held'[w] = m /\ \A v \in Workers \ {w} : held'[v] = held[v] /\ pc'[v] = pc[v]
          /\ pc'[w] \in {"ack", "send"}
          /\ processing'[i] = LPush(processing[i], m)
          /\ \A j \in Instances \ {i} : processing'[j] = processing[j]
      BY <2>1, <3>1 DEF TInv, TypeOK
    <3> HIDE DEF i
    <3>5. Holding(w)' /\ \A v \in Workers \ {w} : Holding(v)' <=> Holding(v)
      BY <3>4 DEF Holding
    <3>6. m \notin stranded \ replayed
      BY <2>1, <3>2 DEF OwnedInv, StrandedInv, SingleCopy
    <3>7. StrandedInv'
      BY <2>1, <3>3, <3>4, <3>5, <3>6 DEF OwnedInv, StrandedInv
    <3>8. ASSUME NEW j \in Instances, NEW n \in Elements(processing'[j])
          PROVE  Owned(j, n)'
      <4>1. CASE n = m /\ j = i
        BY <2>1, <3>4, <3>5, <4>1 DEF Owned, i
      <4>2. CASE ~(n = m /\ j = i)
        <5>1. n \in Elements(processing[j])
          BY <2>1, <3>3, <3>4, <3>8, <4>2
        <5>2. Owned(j, n)
          BY <5>1 DEF OwnedInv
        <5>3. ASSUME NEW v \in Workers, Holding(v), held[v] = n, InstanceOf(v) = j
              PROVE  Holding(v)' /\ held'[v] = n /\ InstanceOf(v)' = j
          BY <1>h, <2>1, <3>4, <3>5, <5>3
        <5> QED BY <2>1, <5>2, <5>3 DEF Owned
      <4> QED BY <4>1, <4>2
    <3> QED BY <3>7, <3>8 DEF OwnedInv
  <2> QED BY <2>2, <2>3
<1>2. ASSUME NEW w \in Workers, AckProcessed(w) PROVE OwnedInv'
  <2> DEFINE i == InstanceOf(w)
             m == held[w]
  <2>1. /\ i \in Instances /\ i' = i /\ Holding(w) /\ m # None
        /\ UNCHANGED <<to, replay, replayed, stranded>>
    BY <1>2, <1>h DEF AckProcessed, Holding
  <2>2. /\ processing' = [processing EXCEPT ![i] = LRem(processing[i], m)]
        /\ held' = [held EXCEPT ![w] = None] /\ ~Holding(w)'
        /\ \A v \in Workers \ {w} : pc'[v] = pc[v]
    BY <1>2 DEF AckProcessed, AfterAck, Holding, TInv, TypeOK
  <2> HIDE DEF i, m
  <2>3. /\ Elements(processing'[i]) \subseteq Elements(processing[i]) \ {m}
        /\ Elements(processing[i]) \subseteq Elements(processing'[i]) \cup {m}
        /\ \A j \in Instances \ {i} : processing'[j] = processing[j]
        /\ \A v \in Workers \ {w} : held'[v] = held[v] /\ (Holding(v)' <=> Holding(v))
    <3>1. /\ Elements(LRem(processing[i], m)) \subseteq Elements(processing[i])
          /\ Elements(processing[i]) \subseteq Elements(LRem(processing[i], m)) \cup {m}
          /\ m \notin Elements(LRem(processing[i], m))
      BY <2>1, ListsTyped, LRemLemma DEF SingleCopy
    <3> QED BY <2>1, <2>2, <3>1 DEF TInv, TypeOK, Holding
  <2>4. StrandedInv'
    <3> SUFFICES ASSUME NEW n \in stranded \ replayed
                 PROVE  /\ n \in Elements(processing'[to[n]]) /\ to[n] \in Instances
                        /\ \A v \in Workers : Holding(v)' => held'[v] # n
      BY <2>1 DEF StrandedInv
    <3>1. /\ n \in Elements(processing[to[n]]) /\ to[n] \in Instances /\ n # m
          /\ \A v \in Workers : Holding(v) => held[v] # n
      BY <2>1 DEF OwnedInv, StrandedInv, m
    <3> QED BY <2>2, <2>3, <3>1
  <2>5. ASSUME NEW j \in Instances, NEW n \in Elements(processing'[j])
        PROVE  Owned(j, n)'
    <3>1. n \in Elements(processing[j]) /\ Owned(j, n)
      BY <2>1, <2>3, <2>5 DEF OwnedInv
    <3>2. ASSUME NEW v \in Workers, Holding(v), held[v] = n, InstanceOf(v) = j
          PROVE  Holding(v)' /\ held'[v] = n /\ InstanceOf(v)' = j
      <4>1. v # w
        BY <2>1, <2>3, <2>5, <3>2 DEF i, m
      <4> QED BY <1>h, <2>3, <3>2, <4>1
    <3> QED BY <2>1, <3>1, <3>2 DEF Owned
  <2> QED BY <2>4, <2>5 DEF OwnedInv
<1>3. ASSUME NEW s \in Sockets, FlushSendThrows(s) PROVE OwnedInv'
  <2> DEFINE m == held[s]
             i == InstanceOf(s)
  <2>1. /\ s \in Workers /\ Holding(s) /\ stranded' = stranded \cup {m}
        /\ pc' = [pc EXCEPT ![s] = "llen"] /\ held' = [held EXCEPT ![s] = None]
        /\ UNCHANGED <<processing, to, replay, replayed>>
    BY <1>3 DEF FlushSendThrows, Workers, Holding
  <2>2. /\ ~Holding(s)'
        /\ \A v \in Workers \ {s} : held'[v] = held[v] /\ (Holding(v)' <=> Holding(v))
    BY <2>1 DEF Holding, TInv, TypeOK
  <2>3. i \in Instances /\ m \in Messages /\ m # None
    BY <1>h, <2>1
  <2>4. m \notin replayed => /\ m \in Elements(processing[i]) /\ to[m] = i
                            /\ \A v \in Workers \ {s} : Holding(v) => held[v] # m
    BY <2>1, <2>3 DEF OnceInv, HoldInv, SingleCopy
  <2> HIDE DEF m, i
  <2>5. StrandedInv'
    BY <2>1, <2>2, <2>3, <2>4 DEF OwnedInv, StrandedInv
  <2>6. ASSUME NEW j \in Instances, NEW n \in Elements(processing[j])
        PROVE  Owned(j, n)'
    <3>1. ASSUME NEW v \in Workers \ {s}, Holding(v), held[v] = n, InstanceOf(v) = j
          PROVE  Holding(v)' /\ held'[v] = n /\ InstanceOf(v)' = j
      BY <1>h, <2>2, <3>1
    <3> QED BY <2>1, <2>6, <3>1 DEF OwnedInv, Owned, m
  <2> QED BY <2>1, <2>5, <2>6 DEF OwnedInv
<1>4. ASSUME NEW i \in Instances, ReplayProcessing(i) PROVE OwnedInv'
  <2> DEFINE m == RTail(processing[i])
  <2>1. /\ i \in replay /\ UNCHANGED <<to, held, pc>>
        /\ \A w \in Workers : Holding(w)' <=> Holding(w)
    BY <1>4 DEF ReplayProcessing, Holding
  <2>2. ASSUME NEW w \in Workers, Holding(w) PROVE InstanceOf(w)' = InstanceOf(w)
    BY <1>h, <2>2
  <2>3. CASE processing[i] = << >>
    <3>1. /\ replay' = replay \ {i} /\ UNCHANGED <<processing, replayed, stranded>>
          /\ Elements(processing[i]) = {}
      BY <1>4, <2>3 DEF ReplayProcessing, Elements
    <3>2. StrandedInv'
      BY <2>1, <3>1 DEF OwnedInv, StrandedInv
    <3>3. ASSUME NEW j \in Instances, NEW n \in Elements(processing[j]) PROVE Owned(j, n)'
      BY <2>1, <2>2, <3>1, <3>3 DEF OwnedInv, Owned
    <3> QED BY <3>1, <3>2, <3>3 DEF OwnedInv
  <2>4. CASE processing[i] # << >>
    <3>1. /\ processing' = [processing EXCEPT ![i] = RPop(processing[i])] /\ UNCHANGED replay
          /\ replayed' = replayed \cup {m} /\ stranded' = stranded \ {m}
      BY <1>4, <2>4 DEF ReplayProcessing, Replayed
    <3>2. /\ Elements(processing[i]) = Elements(RPop(processing[i])) \cup {m}
          /\ m \notin Elements(RPop(processing[i])) /\ m \in Messages /\ to[m] = i
      BY <2>4, ListsTyped, RPopLemma DEF SingleCopy
    <3> HIDE DEF m
    <3>3. /\ processing'[i] = RPop(processing[i])
          /\ \A j \in Instances \ {i} : processing'[j] = processing[j]
      BY <3>1 DEF TInv, TypeOK
    <3>4. StrandedInv'
      BY <2>1, <3>1, <3>2, <3>3 DEF OwnedInv, StrandedInv
    <3>5. ASSUME NEW j \in Instances, NEW n \in Elements(processing'[j]) PROVE Owned(j, n)'
      <4>1. n \in Elements(processing[j]) /\ (j # i => n # m)
        BY <1>m, <3>2, <3>3, <3>5
      <4> QED BY <2>1, <2>2, <3>1, <4>1 DEF OwnedInv, Owned
    <3> QED BY <3>4, <3>5 DEF OwnedInv
  <2> QED BY <2>3, <2>4
<1>5. CASE Crash
  <2>1. stranded' = {} /\ replay' = Instances
    BY <1>5 DEF Crash, ToReplay
  <2> QED BY <2>1 DEF OwnedInv, StrandedInv, Owned
<1>6. ASSUME NEW m \in Messages, NEW i \in Instances, PushMessage(m, i) PROVE OwnedInv'
  <2>1. /\ to[m] = None /\ to' = [to EXCEPT ![m] = i]
        /\ UNCHANGED <<processing, replay, replayed, stranded, pc, held>>
    BY <1>6 DEF PushMessage, TInv, PushInv
  <2>2. \A n \in Messages : to[n] # None => to'[n] = to[n]
    BY <2>1 DEF TInv, TypeOK
  <2> QED BY <1>s, <2>1, <2>2 DEF Holding
<1>7. ASSUME NEW s \in Sockets, \/ \E i \in Instances : OpenRegister(s, i)
                               \/ OpenAttach(s)
                               \/ FlushTimer(s)
                               \/ FlushSend(s)
                               \/ \E p \in Pulls, n \in PullLimits : GetMessages(p, s, n)
      PROVE  OwnedInv'
  <2>1. UNCHANGED <<processing, replay, replayed, stranded, to, held>>
    BY <1>7 DEF OpenRegister, OpenAttach, FlushTimer, FlushSend, GetMessages
  <2>2. \A w \in Workers : Holding(w)' <=> Holding(w)
    <3>1. s \in Workers /\ via[s] = s
      BY DEF TInv, WorkerInv, Workers
    <3>2. \A p \in Pulls : p \in Workers
      BY DEF Workers
    <3>3. CASE \E i \in Instances : OpenRegister(s, i)
      <4>1. sock[s] = "free" /\ pc' = [pc EXCEPT ![s] = "registering"]
        BY <3>3 DEF OpenRegister
      <4>2. pc[s] = "new"
        BY <3>1, <4>1 DEF IdleInv
      <4> QED BY <3>1, <4>1, <4>2 DEF Holding, TInv, TypeOK
    <3>4. CASE OpenAttach(s)
      BY <3>1, <3>4 DEF OpenAttach, Holding, TInv, TypeOK
    <3>5. CASE FlushTimer(s)
      BY <3>1, <3>5 DEF FlushTimer, Holding, TInv, TypeOK
    <3>6. CASE FlushSend(s)
      BY <3>1, <3>6 DEF FlushSend, Holding, TInv, TypeOK
    <3>7. CASE \E p \in Pulls, n \in PullLimits : GetMessages(p, s, n)
      BY <3>2, <3>7 DEF GetMessages, Holding, TInv, TypeOK
    <3> QED BY <1>7, <3>3, <3>4, <3>5, <3>6, <3>7
  <2> QED BY <1>s, <2>1, <2>2
<1>8. ASSUME NEW w \in Workers, GetQueueDepth(w) \/ ReportDepth(w) PROVE OwnedInv'
  <2>1. UNCHANGED <<processing, replay, replayed, stranded, to, held>>
    BY <1>8 DEF GetQueueDepth, ReportDepth
  <2>2. \A v \in Workers : Holding(v)' <=> Holding(v)
    BY <1>8 DEF GetQueueDepth, ReportDepth, Holding, TInv, TypeOK
  <2> QED BY <1>s, <2>1, <2>2
<1>9. ASSUME UNCHANGED <<processing, replay, replayed, stranded, to, held, pc>> PROVE OwnedInv'
  BY <1>9, <1>s DEF Holding
<1> QED
  BY <1>1, <1>2, <1>3, <1>4, <1>5, <1>6, <1>7, <1>8, <1>9
  DEF Next, vars, TrimQueue, DeliverLive, PeerDies, CloseMarkOffline, CloseDetach, FlushQueue,
      FlushQueueDone, HydrateOffline

(* While the hub runs each entry of a processing list is in a running       *)
(* handler's hands, still to be replayed, or left by a send that threw, and *)
(* what a throw left is there until a replay takes it (ProcessingOwned).    *)
THEOREM ProcessingOwnedSafety == Spec => []ProcessingOwned
<1>1. Init => HeldInv /\ IdleInv /\ OnceInv /\ OwnedInv
  BY DEF Init, HeldInv, IdleInv, OnceInv, HoldInv, HandedInv, OnceUntilReplay, Holding, OwnedInv,
         StrandedInv, Elements
<1> QED
  BY <1>1, OwnedInvOwned, TypeCorrect, SingleCopySafety, NextHeld, NextIdle, NextOnce, NextOwned,
     PTL DEF Spec

-----------------------------------------------------------------------------
Pushed  == { m \in Messages : to[m] # None }
Back(i) == { m \in replayed : to[m] = i /\ m \notin Elements(processing[i]) }

(* The replayed messages that count are those out of the processing list:  *)
(* a message replayed twice was popped in between.                         *)
CapInv ==
  /\ IsFiniteSet(Pushed) /\ replayed \subseteq Pushed
  /\ \A i \in Instances :
       Len(queue[i]) <= MaxQueueDepth + Cardinality(Untrimmed(i)) + Cardinality(Back(i))

(* Both counts of the bound are of finite sets.                             *)
LEMMA CountsFinite ==
  ASSUME TInv, IsFiniteSet(Pushed), replayed \subseteq Pushed, NEW i \in Instances
  PROVE  /\ IsFiniteSet(Untrimmed(i)) /\ IsFiniteSet(Back(i))
         /\ Cardinality(Untrimmed(i)) \in Nat /\ Cardinality(Back(i)) \in Nat
         /\ Len(queue[i]) \in Nat
<1>1. Untrimmed(i) \subseteq Pushed /\ Back(i) \subseteq Pushed
  BY QueueAssumptions DEF Untrimmed, Back, Pushed
<1>2. IsFiniteSet(Untrimmed(i)) /\ IsFiniteSet(Back(i))
  BY <1>1, FS_Subset
<1> QED BY <1>2, FS_CardinalityType, ListsTyped

(* A queue that does not grow keeps a bound that does not shrink.           *)
LEMMA BoundKept ==
  ASSUME TInv, TInv', CapInv, IsFiniteSet(Pushed)', (replayed \subseteq Pushed)',
         NEW i \in Instances, Len(queue'[i]) <= Len(queue[i]),
         Untrimmed(i) \subseteq Untrimmed(i)', Back(i) \subseteq Back(i)'
  PROVE  Len(queue'[i]) <= MaxQueueDepth + Cardinality(Untrimmed(i)') + Cardinality(Back(i)')
<1>1. /\ IsFiniteSet(Untrimmed(i))' /\ IsFiniteSet(Back(i))'
      /\ Cardinality(Untrimmed(i)') \in Nat /\ Cardinality(Back(i)') \in Nat
      /\ Len(queue'[i]) \in Nat
  <2>1. ASSUME TInv', IsFiniteSet(Pushed)', (replayed \subseteq Pushed)'
        PROVE  /\ IsFiniteSet(Untrimmed(i))' /\ IsFiniteSet(Back(i))'
               /\ Cardinality(Untrimmed(i)') \in Nat /\ Cardinality(Back(i)') \in Nat
               /\ Len(queue'[i]) \in Nat
    <3>1. (Untrimmed(i) \subseteq Pushed)' /\ (Back(i) \subseteq Pushed)'
      BY <2>1, QueueAssumptions DEF Untrimmed, Back, Pushed
    <3>2. IsFiniteSet(Untrimmed(i))' /\ IsFiniteSet(Back(i))'
      BY <2>1, <3>1, FS_Subset
    <3>3. Len(queue'[i]) \in Nat
      BY <2>1 DEF TInv, TypeOK
    <3> QED BY <3>2, <3>3, FS_CardinalityType
  <2> QED BY <2>1
<1>2. /\ Cardinality(Untrimmed(i)) \in Nat /\ Cardinality(Back(i)) \in Nat
      /\ Len(queue[i]) \in Nat
      /\ Len(queue[i]) <= MaxQueueDepth + Cardinality(Untrimmed(i)) + Cardinality(Back(i))
  BY CountsFinite DEF CapInv
<1>3. /\ Cardinality(Untrimmed(i)) <= Cardinality(Untrimmed(i)')
      /\ Cardinality(Back(i)) <= Cardinality(Back(i)')
  BY <1>1, FS_Subset
<1> QED BY <1>1, <1>2, <1>3, QueueAssumptions

(* Only a push and a replay lengthen a queue; the one is counted until it  *)
(* has trimmed, the other until the message is popped again.               *)
LEMMA NextCap == TInv /\ TInv' /\ SingleCopy /\ CapInv /\ [Next]_vars => CapInv'
<1> SUFFICES ASSUME TInv, TInv', SingleCopy, CapInv, [Next]_vars PROVE CapInv'
  OBVIOUS
<1> USE QueueAssumptions
<1> USE DEF redis, registry, sockets, pushes, workers, admin, startup, history
<1>f. ASSUME NEW i \in Instances
      PROVE  /\ IsFiniteSet(Untrimmed(i)) /\ IsFiniteSet(Back(i))
             /\ Cardinality(Untrimmed(i)) \in Nat /\ Cardinality(Back(i)) \in Nat
             /\ Len(queue[i]) \in Nat
             /\ Len(queue[i]) <= MaxQueueDepth + Cardinality(Untrimmed(i)) + Cardinality(Back(i))
  BY CountsFinite DEF CapInv
<1>p. ASSUME UNCHANGED to PROVE IsFiniteSet(Pushed)'
  BY <1>p DEF CapInv, Pushed
<1>s. ASSUME UNCHANGED <<to, push, replayed>>,
             \A i \in Instances : /\ Len(queue'[i]) <= Len(queue[i])
                                  /\ Elements(processing'[i]) \subseteq Elements(processing[i])
      PROVE  CapInv'
  <2>1. IsFiniteSet(Pushed)' /\ (replayed \subseteq Pushed)'
    BY <1>s DEF CapInv, Pushed
  <2>2. \A i \in Instances :
          Untrimmed(i) \subseteq Untrimmed(i)' /\ Back(i) \subseteq Back(i)'
    BY <1>s DEF Untrimmed, Back
  <2> QED BY <1>s, <2>1, <2>2, BoundKept DEF CapInv
<1>1. ASSUME NEW m \in Messages, NEW i \in Instances, PushMessage(m, i) PROVE CapInv'
  <2>1. /\ queue' = [queue EXCEPT ![i] = RPush(queue[i], m)] /\ to[m] = None /\ push[m] = "new"
        /\ to' = [to EXCEPT ![m] = i] /\ UNCHANGED <<processing, replayed>>
        /\ push' = [push EXCEPT ![m] = IF Len(queue[i]) + 1 > MaxQueueDepth
                                       THEN "trim" ELSE "deliver"]
    BY <1>1 DEF PushMessage, OverCap, TInv, PushInv
  <2>2. /\ to'[m] = i /\ \A n \in Messages \ {m} : to'[n] = to[n] /\ push'[n] = push[n]
        /\ push'[m] = IF Len(queue[i]) + 1 > MaxQueueDepth THEN "trim" ELSE "deliver"
        /\ queue'[i] = RPush(queue[i], m) /\ \A j \in Instances \ {i} : queue'[j] = queue[j]
    BY <2>1 DEF TInv, TypeOK
  <2>3. Pushed' = Pushed \cup {m} /\ m \notin replayed
    BY <2>1, <2>2 DEF Pushed, CapInv
  <2>4. IsFiniteSet(Pushed)' /\ (replayed \subseteq Pushed)'
    BY <2>1, <2>3, FS_AddElement DEF CapInv
  <2>5. \A j \in Instances : Back(j)' = Back(j)
    BY <2>1, <2>2, <2>3 DEF Back, TInv, TypeOK
  <2>6. \A j \in Instances \ {i} : Untrimmed(j)' = Untrimmed(j)
    BY <2>1, <2>2 DEF Untrimmed
  <2>7. /\ m \notin Untrimmed(i)
        /\ push'[m] = "trim" => Untrimmed(i)' = Untrimmed(i) \cup {m}
        /\ push'[m] # "trim" => Untrimmed(i)' = Untrimmed(i)
    BY <2>1, <2>2 DEF Untrimmed
  <2>8. Len(queue'[i]) = Len(queue[i]) + 1
    BY <2>2, ListsTyped, LengthLemma
  <2>9. Len(queue'[i]) <= MaxQueueDepth + Cardinality(Untrimmed(i)') + Cardinality(Back(i)')
    <3>1. CASE push'[m] = "trim"
      <4>1. Cardinality(Untrimmed(i)') = Cardinality(Untrimmed(i)) + 1
        BY <1>f, <2>7, <3>1, FS_AddElement
      <4> QED BY <1>f, <2>5, <2>8, <4>1
    <3>2. CASE push'[m] # "trim"
      <4>1. Len(queue[i]) + 1 <= MaxQueueDepth
        BY <1>f, <2>2, <3>2
      <4>2. Cardinality(Untrimmed(i)') \in Nat /\ Cardinality(Back(i)') \in Nat
        BY <1>f, <2>5, <2>7, <3>2
      <4> QED BY <1>f, <2>8, <4>1, <4>2
    <3> QED BY <3>1, <3>2
  <2>10. ASSUME NEW j \in Instances, j # i
         PROVE  Len(queue'[j]) <= MaxQueueDepth + Cardinality(Untrimmed(j)') + Cardinality(Back(j)')
    BY <1>f, <2>2, <2>5, <2>6, <2>10
  <2> QED BY <2>4, <2>9, <2>10 DEF CapInv
<1>2. ASSUME NEW m \in Messages, TrimQueue(m) PROVE CapInv'
  <2>i. PICK i \in Instances : to[m] = i
    BY <1>2 DEF TrimQueue, TInv, PushInv
  <2>1. /\ push[m] = "trim" /\ push' = [push EXCEPT ![m] = "deliver"]
        /\ queue' = [queue EXCEPT ![i] = LPop(queue[i])] /\ UNCHANGED <<to, processing, replayed>>
    BY <1>2, <2>i DEF TrimQueue, Trimmed
  <2>2. IsFiniteSet(Pushed)' /\ (replayed \subseteq Pushed)'
    BY <1>p, <2>1 DEF CapInv, Pushed
  <2>3. \A j \in Instances : Back(j)' = Back(j)
    BY <2>1 DEF Back
  <2>4. /\ m \in Untrimmed(i) /\ Untrimmed(i)' = Untrimmed(i) \ {m}
        /\ \A j \in Instances \ {i} : Untrimmed(j)' = Untrimmed(j)
    BY <2>1, <2>i DEF Untrimmed, TInv, TypeOK
  <2>5. queue'[i] = LPop(queue[i]) /\ \A j \in Instances \ {i} : queue'[j] = queue[j]
    BY <2>1 DEF TInv, TypeOK
  <2>6. /\ Cardinality(Untrimmed(i)') = Cardinality(Untrimmed(i)) - 1
        /\ Cardinality(Untrimmed(i)') \in Nat
    <3>1. IsFiniteSet(Untrimmed(i)')
      BY <1>f, <2>1, <2>4, FS_RemoveElement
    <3> QED BY <1>f, <2>1, <2>4, <3>1, FS_RemoveElement, FS_CardinalityType
  <2>7. Len(queue'[i]) <= MaxQueueDepth + Cardinality(Untrimmed(i)') + Cardinality(Back(i)')
    <3>1. CASE queue[i] = << >>
      <4>1. Len(queue'[i]) = 0
        BY <2>5, <3>1 DEF LPop
      <4> QED BY <1>f, <2>1, <2>3, <2>6, <4>1
    <3>2. CASE queue[i] # << >>
      <4>1. Len(queue'[i]) = Len(queue[i]) - 1
        BY <2>1, <2>5, <3>2, ListsTyped, LengthLemma
      <4> QED BY <1>f, <2>1, <2>3, <2>6, <4>1
    <3> QED BY <3>1, <3>2
  <2>8. ASSUME NEW j \in Instances, j # i
        PROVE  Len(queue'[j]) <= MaxQueueDepth + Cardinality(Untrimmed(j)') + Cardinality(Back(j)')
    BY <1>f, <2>3, <2>4, <2>5, <2>8
  <2> QED BY <2>2, <2>7, <2>8 DEF CapInv
<1>3. ASSUME NEW w \in Workers, AtomicFlushOne(w) PROVE CapInv'
  <2>i. PICK i \in Instances : InstanceOf(w) = i
    BY <1>3 DEF AtomicFlushOne, InstanceOf, TInv, WorkerInv
  <2> DEFINE m == RTail(queue[i])
  <2>1. UNCHANGED <<to, push, replayed>>
    BY <1>3 DEF AtomicFlushOne
  <2>2. CASE queue[i] = << >>
    <3>1. UNCHANGED <<queue, processing>>
      BY <1>3, <2>2, <2>i DEF AtomicFlushOne
    <3> QED BY <1>f, <1>s, <2>1, <3>1
  <2>3. CASE queue[i] # << >>
    <3>1. /\ queue' = [queue EXCEPT ![i] = RPop(queue[i])]
          /\ processing' = [processing EXCEPT ![i] = LPush(processing[i], m)]
      BY <1>3, <2>3, <2>i DEF AtomicFlushOne, Flushed, IntoProcessing
    <3>2. m \in Messages
      BY <2>1, <2>3, ListsTyped, RPopLemma
    <3> HIDE DEF m
    <3>3. /\ queue'[i] = RPop(queue[i]) /\ \A j \in Instances \ {i} : queue'[j] = queue[j]
          /\ processing'[i] = LPush(processing[i], m)
          /\ \A j \in Instances \ {i} : processing'[j] = processing[j]
      BY <2>1, <3>1 DEF TInv, TypeOK
    <3>4. /\ Elements(LPush(processing[i], m)) = Elements(processing[i]) \cup {m}
          /\ Len(queue'[i]) = Len(queue[i]) - 1
      <4>1. queue[i] \in Seq(Messages) /\ processing[i] \in Seq(Messages)
        BY ListsTyped
      <4>2. Elements(LPush(processing[i], m)) = Elements(processing[i]) \cup {m}
        BY <3>2, <4>1, LPushLemma
      <4>3. Len(RPop(queue[i])) = Len(queue[i]) - 1
        BY <2>3, <3>2, <4>1, LengthLemma
      <4> QED BY <3>3, <4>2, <4>3
    <3>5. /\ Back(i)' = Back(i) \ {m} /\ \A j \in Instances \ {i} : Back(j)' = Back(j)
          /\ \A j \in Instances : Untrimmed(j)' = Untrimmed(j)
      BY <2>1, <3>3, <3>4 DEF Back, Untrimmed
    <3>6. Cardinality(Back(i)') >= Cardinality(Back(i)) - 1 /\ Cardinality(Back(i)') \in Nat
      <4>1. IsFiniteSet(Back(i)) /\ Cardinality(Back(i)) \in Nat
        BY <1>f
      <4>2. /\ IsFiniteSet(Back(i) \ {m})
            /\ Cardinality(Back(i) \ {m}) = IF m \in Back(i) THEN Cardinality(Back(i)) - 1
                                                            ELSE Cardinality(Back(i))
        BY <4>1, FS_RemoveElement
      <4>3. Cardinality(Back(i) \ {m}) \in Nat
        BY <4>2, FS_CardinalityType
      <4> QED BY <3>5, <4>1, <4>2, <4>3
    <3>7. Len(queue'[i]) <= MaxQueueDepth + Cardinality(Untrimmed(i)') + Cardinality(Back(i)')
      BY <1>f, <2>1, <3>4, <3>5, <3>6
    <3>8. ASSUME NEW j \in Instances, j # i
          PROVE  Len(queue'[j])
                   <= MaxQueueDepth + Cardinality(Untrimmed(j)') + Cardinality(Back(j)')
      BY <1>f, <3>3, <3>5, <3>8
    <3>9. IsFiniteSet(Pushed)' /\ (replayed \subseteq Pushed)'
      BY <1>p, <2>1 DEF CapInv, Pushed
    <3> QED BY <3>7, <3>8, <3>9 DEF CapInv
  <2> QED BY <2>2, <2>3
<1>4. ASSUME NEW w \in Workers, AckProcessed(w) PROVE CapInv'
  <2> DEFINE i == InstanceOf(w)
  <2>1. /\ i \in Instances /\ UNCHANGED <<queue, to, push, replayed>>
        /\ processing' = [processing EXCEPT ![i] = LRem(processing[i], held[w])]
    BY <1>4 DEF AckProcessed, InstanceOf, TInv, WorkerInv
  <2>2. Elements(LRem(processing[i], held[w])) \subseteq Elements(processing[i])
    BY <2>1, ListsTyped, LRemLemma
  <2> HIDE DEF i
  <2>3. \A j \in Instances : /\ Elements(processing'[j]) \subseteq Elements(processing[j])
                             /\ Len(queue'[j]) <= Len(queue[j])
    <3> SUFFICES ASSUME NEW j \in Instances
                 PROVE  /\ Elements(processing'[j]) \subseteq Elements(processing[j])
                        /\ Len(queue'[j]) <= Len(queue[j])
      OBVIOUS
    <3>1. Elements(processing'[j]) \subseteq Elements(processing[j])
      BY <2>1, <2>2 DEF TInv, TypeOK
    <3>2. Len(queue[j]) \in Nat /\ queue'[j] = queue[j]
      BY <1>f, <2>1
    <3> QED BY <3>1, <3>2
  <2> QED BY <1>s, <2>1, <2>3
<1>5. ASSUME NEW i \in Instances, FlushQueue(i) PROVE CapInv'
  <2>1. queue' = [queue EXCEPT ![i] = << >>] /\ UNCHANGED <<processing, to, push, replayed>>
    BY <1>5 DEF FlushQueue
  <2>2. \A j \in Instances : Len(queue'[j]) <= Len(queue[j])
    BY <1>f, <2>1 DEF TInv, TypeOK
  <2> QED BY <1>s, <2>1, <2>2
<1>6. ASSUME NEW i \in Instances, ReplayProcessing(i) PROVE CapInv'
  <2> DEFINE m == RTail(processing[i])
  <2>1. UNCHANGED <<to, push>>
    BY <1>6 DEF ReplayProcessing
  <2>2. CASE processing[i] = << >>
    <3>1. UNCHANGED <<queue, processing, replayed>>
      BY <1>6, <2>2 DEF ReplayProcessing
    <3> QED BY <1>f, <1>s, <2>1, <3>1
  <2>3. CASE processing[i] # << >>
    <3>1. /\ processing' = [processing EXCEPT ![i] = RPop(processing[i])]
          /\ queue' = [queue EXCEPT ![i] = LPush(queue[i], m)]
          /\ replayed' = replayed \cup {m}
      BY <1>6, <2>3 DEF ReplayProcessing, Replayed
    <3>2. /\ m \in Messages /\ Elements(processing[i]) = Elements(RPop(processing[i])) \cup {m}
          /\ m \notin Elements(RPop(processing[i])) /\ to[m] = i
      BY <2>3, ListsTyped, RPopLemma DEF SingleCopy
    <3> HIDE DEF m
    <3>3. /\ processing'[i] = RPop(processing[i]) /\ queue'[i] = LPush(queue[i], m)
          /\ \A j \in Instances \ {i} : processing'[j] = processing[j] /\ queue'[j] = queue[j]
      BY <3>1 DEF TInv, TypeOK
    <3>4. Len(queue'[i]) = Len(queue[i]) + 1
      BY <3>2, <3>3, ListsTyped, LengthLemma
    <3>5. /\ Back(i)' = Back(i) \cup {m} /\ m \notin Back(i)
          /\ \A j \in Instances \ {i} : Back(j)' = Back(j)
          /\ \A j \in Instances : Untrimmed(j)' = Untrimmed(j)
      BY <2>1, <3>1, <3>2, <3>3 DEF Back, Untrimmed
    <3>6. Cardinality(Back(i)') = Cardinality(Back(i)) + 1
      BY <1>f, <3>5, FS_AddElement
    <3>7. Len(queue'[i]) <= MaxQueueDepth + Cardinality(Untrimmed(i)') + Cardinality(Back(i)')
      BY <1>f, <3>4, <3>5, <3>6
    <3>8. ASSUME NEW j \in Instances, j # i
          PROVE  Len(queue'[j])
                   <= MaxQueueDepth + Cardinality(Untrimmed(j)') + Cardinality(Back(j)')
      BY <1>f, <3>3, <3>5, <3>8
    <3>9. IsFiniteSet(Pushed)' /\ (replayed \subseteq Pushed)'
      BY <1>p, <2>1, <3>1, <3>2 DEF CapInv, Pushed
    <3> QED BY <3>7, <3>8, <3>9 DEF CapInv
  <2> QED BY <2>2, <2>3
<1>7. ASSUME UNCHANGED <<queue, processing, to, replayed>>,
             \A m \in Messages : push'[m] \in {"trim", "cut"} <=> push[m] \in {"trim", "cut"}
      PROVE  CapInv'
  <2>1. IsFiniteSet(Pushed)' /\ (replayed \subseteq Pushed)'
    BY <1>7 DEF CapInv, Pushed
  <2>2. \A i \in Instances : Untrimmed(i)' = Untrimmed(i) /\ Back(i)' = Back(i)
    BY <1>7 DEF Untrimmed, Back
  <2> QED BY <1>7, <2>1, <2>2 DEF CapInv
<1>8. CASE Crash
  BY <1>7, <1>8 DEF Crash
<1>9. ASSUME NEW m \in Messages, DeliverLive(m) PROVE CapInv'
  <2>1. \A n \in Messages : push'[n] \in {"trim", "cut"} <=> push[n] \in {"trim", "cut"}
    BY <1>9 DEF DeliverLive, TInv, TypeOK
  <2> QED BY <1>7, <1>9, <2>1 DEF DeliverLive
<1>10. ASSUME UNCHANGED <<queue, processing, to, replayed, push>> PROVE CapInv'
  BY <1>7, <1>10
<1> QED
  BY <1>1, <1>2, <1>3, <1>4, <1>5, <1>6, <1>8, <1>9, <1>10
  DEF Next, vars, OpenRegister, OpenAttach, PeerDies, CloseMarkOffline, CloseDetach, FlushTimer,
      FlushSend, FlushSendThrows, GetMessages, GetQueueDepth, ReportDepth, FlushQueueDone,
      HydrateOffline

(* A queue exceeds the cap by no more than the pushes still to trim it, or *)
(* that a crash kept from it, and the replayed messages (OverflowBounded). *)
THEOREM OverflowSafety == Spec => []OverflowBounded
<1>1. Init => CapInv
  <2> SUFFICES ASSUME Init PROVE CapInv
    OBVIOUS
  <2>1. Pushed = {} /\ replayed = {} /\ IsFiniteSet({}) /\ Cardinality({}) = 0
    BY FS_EmptySet DEF Init, Pushed
  <2>2. ASSUME NEW i \in Instances PROVE Untrimmed(i) = {} /\ Back(i) = {} /\ Len(queue[i]) = 0
    BY DEF Init, Untrimmed, Back
  <2>3. ASSUME NEW i \in Instances
        PROVE  Len(queue[i]) <= MaxQueueDepth + Cardinality(Untrimmed(i)) + Cardinality(Back(i))
    <3>1. Cardinality(Untrimmed(i)) = 0 /\ Cardinality(Back(i)) = 0
      BY <2>1, <2>2
    <3> QED BY <2>2, <3>1, QueueAssumptions
  <2> QED BY <2>1, <2>3 DEF CapInv
<1>2. TInv /\ CapInv => OverflowBounded
  <2> SUFFICES ASSUME TInv, CapInv, NEW i \in Instances
               PROVE  Len(queue[i]) <= MaxQueueDepth + Cardinality(Untrimmed(i))
                                         + Cardinality({ m \in replayed : to[m] = i })
    BY DEF OverflowBounded
  <2> DEFINE R == { m \in replayed : to[m] = i }
  <2>1. R \subseteq Pushed /\ Back(i) \subseteq R
    BY DEF Back, CapInv
  <2>2. IsFiniteSet(R) /\ Cardinality(R) \in Nat /\ Cardinality(Back(i)) <= Cardinality(R)
    BY <2>1, FS_Subset, FS_CardinalityType DEF CapInv
  <2> HIDE DEF R
  <2>3. /\ Cardinality(Untrimmed(i)) \in Nat /\ Cardinality(Back(i)) \in Nat
        /\ Len(queue[i]) \in Nat
        /\ Len(queue[i]) <= MaxQueueDepth + Cardinality(Untrimmed(i)) + Cardinality(Back(i))
    BY CountsFinite DEF CapInv
  <2> QED BY <2>2, <2>3, QueueAssumptions DEF R
<1> QED BY <1>1, <1>2, TypeCorrect, SingleCopySafety, NextCap, PTL DEF Spec
=============================================================================
