----------------------- MODULE SessionMigration_proofs -----------------------
(***************************************************************************)
(* What a migration never does to the messages it moves, for every number  *)
(* of messages, identities, senders and drains.                            *)
(***************************************************************************)
EXTENDS SessionMigration, RedisLists_proofs

(* A handler that has begun knows its identities, and one that has popped  *)
(* a message holds one that was handed over.                               *)
HandlerInv ==
  /\ \A u \in Updates : pc[u] # "new" => oldId[u] \in Instances /\ newId[u] \in Instances
  /\ \A d \in Drains : draining[d] # "new" => drained[d] \in Instances
  /\ \A d \in Drains : draining[d] = "ack" => held[d] \in handed

TInv == TypeOK /\ HandlerInv

(* Nothing is stored or handed over before it is pushed.                   *)
PushedInv == \A m \in Messages : to[m] = None => m \notin Stored \cup handed

CopyInv == OneCopy /\ PushedInv

(* What a RENAME is about to replace was pushed after the LLEN.            *)
RenameInv == \A u \in Updates : pc[u] = "rename" => Elements(queue[newId[u]]) \subseteq raced

-----------------------------------------------------------------------------
(* RPOPLPUSH between two queues, or within one, takes one message from the *)
(* one to the other and duplicates none.                                   *)
LEMMA MovedLemma ==
  ASSUME queue \in [Instances -> Seq(Messages)], NEW i \in Instances, NEW j \in Instances,
         queue[i] # << >>
  PROVE  LET t == RTail(queue[i])
             q == Moved(i, j)
         IN  /\ t \in Messages
             /\ t \in Elements(queue[i])
             /\ q \in [Instances -> Seq(Messages)]
             /\ \A k \in Instances \ {i, j} : q[k] = queue[k]
             /\ Elements(q[j]) = Elements(queue[j]) \cup {t}
             /\ i # j => Elements(queue[i]) = Elements(q[i]) \cup {t}
             /\ i # j /\ Distinct(queue[i]) => Distinct(q[i]) /\ t \notin Elements(q[i])
             /\ i # j /\ Distinct(queue[j]) /\ t \notin Elements(queue[j]) => Distinct(q[j])
             /\ i = j /\ Distinct(queue[i]) => Distinct(q[i])
<1> DEFINE t == RTail(queue[i])
           q == Moved(i, j)
           rest == RPop(queue[i])
<1>1. /\ t \in Messages /\ rest \in Seq(Messages)
      /\ Elements(queue[i]) = Elements(rest) \cup {t}
      /\ Distinct(queue[i]) => Distinct(rest) /\ t \notin Elements(rest)
  BY RPopLemma
<1>2. \A s \in Seq(Messages) :
        /\ LPush(s, t) \in Seq(Messages)
        /\ Elements(LPush(s, t)) = Elements(s) \cup {t}
        /\ Distinct(s) /\ t \notin Elements(s) => Distinct(LPush(s, t))
  <2> HIDE DEF t
  <2> QED BY <1>1, LPushLemma
<1>3. /\ q[j] = LPush(IF i = j THEN rest ELSE queue[j], t)
      /\ i # j => q[i] = rest
      /\ \A k \in Instances \ {i, j} : q[k] = queue[k]
      /\ q = [[queue EXCEPT ![i] = rest] EXCEPT ![j] = q[j]]
  BY DEF Moved
<1> HIDE DEF t, q, rest
<1>4. CASE i # j
  <2>1. q[j] \in Seq(Messages) /\ q \in [Instances -> Seq(Messages)]
    <3>1. q[j] \in Seq(Messages)
      BY <1>2, <1>3, <1>4
    <3>2. [queue EXCEPT ![i] = rest] \in [Instances -> Seq(Messages)]
      BY <1>1
    <3> QED BY <1>3, <3>1, <3>2
  <2>2. /\ Elements(q[j]) = Elements(queue[j]) \cup {t}
        /\ Distinct(queue[j]) /\ t \notin Elements(queue[j]) => Distinct(q[j])
    BY <1>2, <1>3, <1>4
  <2> QED BY <1>1, <1>3, <1>4, <2>1, <2>2 DEF t, q
<1>5. CASE i = j
  <2>1. q[j] \in Seq(Messages) /\ q \in [Instances -> Seq(Messages)]
    <3>1. q[j] \in Seq(Messages)
      BY <1>1, <1>2, <1>3, <1>5
    <3>2. [queue EXCEPT ![i] = rest] \in [Instances -> Seq(Messages)]
      BY <1>1
    <3> QED BY <1>3, <3>1, <3>2
  <2>2. /\ Elements(q[j]) = Elements(queue[j]) \cup {t}
        /\ Distinct(queue[j]) => Distinct(q[j])
    BY <1>1, <1>2, <1>3, <1>5
  <2> QED BY <1>1, <1>3, <1>5, <2>1, <2>2 DEF t, q
<1> QED BY <1>4, <1>5

(* The empty list has no elements.                                          *)
LEMMA EmptyLemma == Elements(<< >>) = {} /\ Distinct(<< >>)
BY DEF Elements, Distinct

-----------------------------------------------------------------------------
(* A message left in the processing list has a recipient.                   *)
LEMMA InitMigration == Init => TInv /\ CopyInv /\ RenameInv /\ OnlyRenameLoses
<1> SUFFICES ASSUME Init PROVE TInv /\ CopyInv /\ RenameInv /\ OnlyRenameLoses
  OBVIOUS
<1> USE MigrationAssumptions
<1>1. \A m \in Messages : Elements(<<m>>) = {m} /\ Distinct(<<m>>)
  BY DEF Elements, Distinct
<1>2. TInv
  <2>1. \A m \in Messages : <<m>> \in Seq(Messages)
    OBVIOUS
  <2>2. << >> \in Seq(Messages)
    OBVIOUS
  <2>3. processing \in [Instances -> Seq(Messages)]
    BY <2>1, <2>2 DEF Init
  <2>4. queue \in [Instances -> Seq(Messages)]
    BY <2>2 DEF Init
  <2>5. to \in [Messages -> Instances \cup {None}]
    BY DEF Init
  <2> QED BY <2>3, <2>4, <2>5 DEF Init, TInv, TypeOK, HandlerInv
<1>3. OneCopy
  BY <1>1, EmptyLemma DEF Init, OneCopy
<1>4. PushedInv /\ OnlyRenameLoses
  BY <1>1, EmptyLemma DEF Init, PushedInv, Stored, Waiting, OnlyRenameLoses
<1> QED BY <1>2, <1>3, <1>4 DEF CopyInv, RenameInv, Init

(* Every step keeps the variables in their types and the handlers in step  *)
(* with what they hold.                                                    *)
LEMMA NextType == TInv /\ [Next]_vars => TInv'
<1> SUFFICES ASSUME TInv, [Next]_vars PROVE TInv'
  OBVIOUS
<1> USE MigrationAssumptions DEF lists, updates, drains
<1>1. ASSUME NEW m \in Messages, NEW i \in Instances, PushMessage(m, i) PROVE TInv'
  <2>1. RPush(queue[i], m) \in Seq(Messages)
    BY RPushLemma DEF TInv, TypeOK
  <2> QED BY <1>1, <2>1 DEF TInv, TypeOK, HandlerInv, PushMessage
<1>2. ASSUME NEW u \in Updates, NEW j \in Instances, SessionUpdate(u, j) PROVE TInv'
  <2>1. Waiting(instanceId) \in SUBSET Messages
    BY DEF TInv, TypeOK, Waiting, Elements
  <2> QED BY <1>2, <2>1 DEF TInv, TypeOK, HandlerInv, SessionUpdate, Begin
<1>3. ASSUME NEW u \in Updates, MoveProcessing(u) PROVE TInv'
  <2>1. oldId[u] \in Instances /\ newId[u] \in Instances
    BY <1>3 DEF TInv, HandlerInv, MoveProcessing
  <2>2. CASE processing[oldId[u]] = << >>
    <3>1. UNCHANGED lists
      BY <1>3, <2>2 DEF MoveProcessing
    <3> QED BY <1>3, <3>1 DEF TInv, TypeOK, HandlerInv, MoveProcessing
  <2>3. CASE processing[oldId[u]] # << >>
    <3>1. /\ RPop(processing[oldId[u]]) \in Seq(Messages)
          /\ LPush(queue[newId[u]], RTail(processing[oldId[u]])) \in Seq(Messages)
      BY <2>1, <2>3, RPopLemma, LPushLemma DEF TInv, TypeOK
    <3>2. queue' \in [Instances -> Seq(Messages)] /\ processing' \in [Instances -> Seq(Messages)]
      <4>1. /\ queue' = [queue EXCEPT ![newId[u]] = LPush(@, RTail(processing[oldId[u]]))]
            /\ processing' = [processing EXCEPT ![oldId[u]] = RPop(processing[oldId[u]])]
        BY <1>3, <2>3 DEF MoveProcessing
      <4> QED BY <2>1, <3>1, <4>1 DEF TInv, TypeOK
    <3>3. UNCHANGED <<to, instanceId, pc, oldId, newId, pending, raced, drains>>
      BY <1>3, <2>3 DEF MoveProcessing
    <3> QED BY <3>2, <3>3 DEF TInv, TypeOK, HandlerInv
  <2> QED BY <2>2, <2>3
<1>4. ASSUME NEW u \in Updates, MeasureOld(u) \/ MeasureNew(u) PROVE TInv'
  BY <1>4 DEF TInv, TypeOK, HandlerInv, MeasureOld, MeasureNew
<1>5. ASSUME NEW u \in Updates, Rename(u) PROVE TInv'
  <2>1. oldId[u] \in Instances /\ newId[u] \in Instances
    BY <1>5 DEF TInv, HandlerInv, Rename
  <2>2. queue' \in [Instances -> Seq(Messages)]
    <3>1. << >> \in Seq(Messages)
      OBVIOUS
    <3>2. [queue EXCEPT ![oldId[u]] = << >>] \in [Instances -> Seq(Messages)]
      BY <3>1 DEF TInv, TypeOK
    <3> QED BY <1>5, <2>1, <3>2 DEF TInv, TypeOK, Rename
  <2>3. pc' = [pc EXCEPT ![u] = "register"]
    BY <1>5 DEF Rename
  <2>4. UNCHANGED <<processing, to, instanceId, oldId, newId, pending, raced, drains>>
    BY <1>5 DEF Rename
  <2>5. pc[u] # "new"
    BY <1>5 DEF Rename
  <2> QED BY <2>2, <2>3, <2>4, <2>5 DEF TInv, TypeOK, HandlerInv
<1>6. ASSUME NEW u \in Updates, MoveQueue(u) PROVE TInv'
  <2>1. oldId[u] \in Instances /\ newId[u] \in Instances
    BY <1>6 DEF TInv, HandlerInv, MoveQueue
  <2>2. queue' \in [Instances -> Seq(Messages)]
    BY <1>6, <2>1, MovedLemma DEF TInv, TypeOK, MoveQueue
  <2> QED BY <1>6, <2>2 DEF TInv, TypeOK, HandlerInv, MoveQueue, AfterLast
<1>7. ASSUME NEW u \in Updates, MigrateRegistration(u) PROVE TInv'
  BY <1>7 DEF TInv, TypeOK, HandlerInv, MigrateRegistration, TakenId
<1>8. ASSUME NEW d \in Drains, StartDrain(d) PROVE TInv'
  BY <1>8 DEF TInv, TypeOK, HandlerInv, StartDrain
<1>9. ASSUME NEW d \in Drains, AtomicFlushOne(d) PROVE TInv'
  <2>1. drained[d] \in Instances
    BY <1>9 DEF TInv, HandlerInv, AtomicFlushOne
  <2>2. CASE queue[drained[d]] = << >>
    BY <1>9, <2>2 DEF TInv, TypeOK, HandlerInv, AtomicFlushOne
  <2>3. CASE queue[drained[d]] # << >>
    <3>1. /\ RPop(queue[drained[d]]) \in Seq(Messages) /\ RTail(queue[drained[d]]) \in Messages
          /\ LPush(processing[drained[d]], RTail(queue[drained[d]])) \in Seq(Messages)
      BY <2>1, <2>3, RPopLemma, LPushLemma DEF TInv, TypeOK
    <3>2. queue' \in [Instances -> Seq(Messages)] /\ processing' \in [Instances -> Seq(Messages)]
      <4>1. /\ queue' = [queue EXCEPT ![drained[d]] = RPop(queue[drained[d]])]
            /\ processing' = [processing EXCEPT ![drained[d]]
                                = LPush(@, RTail(queue[drained[d]]))]
        BY <1>9, <2>3 DEF AtomicFlushOne
      <4> QED BY <2>1, <3>1, <4>1 DEF TInv, TypeOK
    <3>3. /\ held' = [held EXCEPT ![d] = RTail(queue[drained[d]])]
          /\ handed' = handed \cup {RTail(queue[drained[d]])}
          /\ draining' = [draining EXCEPT ![d] = "ack"]
      BY <1>9, <2>3 DEF AtomicFlushOne
    <3>4. UNCHANGED <<to, instanceId, updates, drained>>
      BY <1>9 DEF AtomicFlushOne
    <3>5. draining[d] # "new"
      BY <1>9 DEF AtomicFlushOne
    <3> QED BY <3>1, <3>2, <3>3, <3>4, <3>5 DEF TInv, TypeOK, HandlerInv
  <2> QED BY <2>2, <2>3
<1>10. ASSUME NEW d \in Drains, AckProcessed(d) PROVE TInv'
  <2>1. drained[d] \in Instances
    BY <1>10 DEF TInv, HandlerInv, AckProcessed
  <2>2. LRem(processing[drained[d]], held[d]) \in Seq(Messages)
    BY <2>1, LRemLemma DEF TInv, TypeOK
  <2> QED BY <1>10, <2>1, <2>2 DEF TInv, TypeOK, HandlerInv, AckProcessed
<1>11. CASE UNCHANGED vars
  BY <1>11 DEF TInv, TypeOK, HandlerInv, vars
<1> QED BY <1>1, <1>2, <1>3, <1>4, <1>5, <1>6, <1>7, <1>8, <1>9, <1>10, <1>11 DEF Next

-----------------------------------------------------------------------------
(* No step copies a message: a list command takes it from one list to one  *)
(* other, and only an unpushed message is added.                           *)
LEMMA NextCopies == TInv /\ CopyInv /\ [Next]_vars => CopyInv'
<1> SUFFICES ASSUME TInv, CopyInv, [Next]_vars PROVE CopyInv'
  OBVIOUS
<1> USE MigrationAssumptions DEF lists, updates, drains
<1>t. /\ queue \in [Instances -> Seq(Messages)] /\ processing \in [Instances -> Seq(Messages)]
      /\ to \in [Messages -> Instances \cup {None}]
  BY DEF TInv, TypeOK
<1>p. ASSUME NEW m \in Messages, NEW i \in Instances,
             m \in Elements(queue[i]) \cup Elements(processing[i])
      PROVE  to[m] # None
  BY <1>p DEF CopyInv, PushedInv, Stored, Waiting
<1>h. \A m \in Messages : m \in handed => to[m] # None
  BY DEF CopyInv, PushedInv
<1>s. ASSUME UNCHANGED <<lists, to, handed>> PROVE CopyInv'
  BY <1>s DEF CopyInv, OneCopy, PushedInv, Stored, Waiting
<1>1. ASSUME NEW m \in Messages, NEW i \in Instances, PushMessage(m, i) PROVE CopyInv'
  <2>1. /\ to[m] = None /\ to' = [to EXCEPT ![m] = i] /\ UNCHANGED <<processing, handed>>
        /\ queue' = [queue EXCEPT ![i] = RPush(queue[i], m)]
    BY <1>1 DEF PushMessage
  <2>2. \A k \in Instances : m \notin Elements(queue[k]) /\ m \notin Elements(processing[k])
    BY <1>p, <2>1
  <2>3. /\ Elements(queue'[i]) = Elements(queue[i]) \cup {m}
        /\ Distinct(queue[i]) => Distinct(queue'[i])
        /\ \A k \in Instances \ {i} : queue'[k] = queue[k]
    BY <1>t, <2>1, <2>2, RPushLemma
  <2>4. OneCopy'
    BY <2>1, <2>2, <2>3 DEF CopyInv, OneCopy
  <2>5. PushedInv'
    BY <1>t, <1>p, <1>h, <2>1, <2>3 DEF PushedInv, Stored, Waiting
  <2> QED BY <2>4, <2>5 DEF CopyInv
<1>2. ASSUME NEW u \in Updates, MoveProcessing(u) PROVE CopyInv'
  <2> DEFINE i == oldId[u]
             j == newId[u]
             t == RTail(processing[i])
  <2>1. i \in Instances /\ j \in Instances
    BY <1>2 DEF TInv, HandlerInv, MoveProcessing
  <2>2. CASE processing[i] = << >>
    BY <1>2, <1>s, <2>2 DEF MoveProcessing
  <2>3. CASE processing[i] # << >>
    <3>1. /\ queue' = [queue EXCEPT ![j] = LPush(queue[j], t)]
          /\ processing' = [processing EXCEPT ![i] = RPop(processing[i])]
          /\ UNCHANGED <<to, handed>>
      BY <1>2, <2>3 DEF MoveProcessing
    <3>2. /\ t \in Messages /\ Elements(processing[i]) = Elements(RPop(processing[i])) \cup {t}
          /\ Distinct(processing[i]) => /\ Distinct(RPop(processing[i]))
                                       /\ t \notin Elements(RPop(processing[i]))
      BY <1>t, <2>1, <2>3, RPopLemma
    <3> HIDE DEF i, j, t
    <3>3. /\ Elements(LPush(queue[j], t)) = Elements(queue[j]) \cup {t}
          /\ Distinct(queue[j]) /\ t \notin Elements(queue[j]) => Distinct(LPush(queue[j], t))
      BY <1>t, <2>1, <3>2, LPushLemma
    <3>4. /\ queue'[j] = LPush(queue[j], t) /\ \A k \in Instances \ {j} : queue'[k] = queue[k]
          /\ processing'[i] = RPop(processing[i])
          /\ \A k \in Instances \ {i} : processing'[k] = processing[k]
      BY <1>t, <2>1, <3>1
    <3>5. \A k \in Instances :
            t \notin Elements(queue[k]) /\ (k # i => t \notin Elements(processing[k]))
      BY <2>1, <3>2 DEF CopyInv, OneCopy
    <3>6. OneCopy'
      <4>1. \A k \in Instances : Distinct(queue'[k]) /\ Distinct(processing'[k])
        BY <2>1, <3>2, <3>3, <3>4, <3>5 DEF CopyInv, OneCopy
      <4>2. \A k, l \in Instances : Elements(queue'[k]) \cap Elements(processing'[l]) = {}
        BY <2>1, <3>2, <3>3, <3>4, <3>5 DEF CopyInv, OneCopy
      <4>3. \A k, l \in Instances : k # l =>
              /\ Elements(queue'[k]) \cap Elements(queue'[l]) = {}
              /\ Elements(processing'[k]) \cap Elements(processing'[l]) = {}
        BY <2>1, <3>2, <3>3, <3>4, <3>5 DEF CopyInv, OneCopy
      <4> QED BY <4>1, <4>2, <4>3 DEF OneCopy
    <3>7. PushedInv'
      BY <1>p, <1>h, <2>1, <3>1, <3>2, <3>3, <3>4 DEF PushedInv, Stored, Waiting
    <3> QED BY <3>6, <3>7 DEF CopyInv
  <2> QED BY <2>2, <2>3
<1>3. ASSUME NEW u \in Updates, Rename(u) PROVE CopyInv'
  <2> DEFINE i == oldId[u]
             j == newId[u]
  <2>1. i \in Instances /\ j \in Instances
    BY <1>3 DEF TInv, HandlerInv, Rename
  <2>2. UNCHANGED <<processing, to, handed>>
    BY <1>3 DEF Rename
  <2>3. CASE queue[i] = << >>
    BY <1>3, <1>s, <2>2, <2>3 DEF Rename
  <2>4. CASE queue[i] # << >>
    <3>1. queue' = [[queue EXCEPT ![i] = << >>] EXCEPT ![j] = queue[i]]
      BY <1>3, <2>4 DEF Rename
    <3> HIDE DEF i, j
    <3>2. /\ queue'[j] = queue[i] /\ (i # j => queue'[i] = << >>)
          /\ \A k \in Instances \ {i, j} : queue'[k] = queue[k]
      BY <1>t, <2>1, <3>1
    <3>3. OneCopy'
      <4>1. CASE i = j
        BY <2>1, <2>2, <3>2, <4>1 DEF CopyInv, OneCopy
      <4>2. CASE i # j
        <5>1. /\ Elements(queue'[i]) = {} /\ Distinct(queue'[i])
              /\ Elements(queue'[j]) = Elements(queue[i]) /\ Distinct(queue'[j])
          BY <2>1, <3>2, <4>2, EmptyLemma DEF CopyInv, OneCopy
        <5>2. \A k \in Instances : Distinct(queue'[k]) /\ Distinct(processing'[k])
          BY <2>1, <2>2, <3>2, <5>1 DEF CopyInv, OneCopy
        <5>3. \A k, l \in Instances : Elements(queue'[k]) \cap Elements(processing'[l]) = {}
          BY <2>1, <2>2, <3>2, <5>1 DEF CopyInv, OneCopy
        <5>4. \A k, l \in Instances : k # l =>
                /\ Elements(queue'[k]) \cap Elements(queue'[l]) = {}
                /\ Elements(processing'[k]) \cap Elements(processing'[l]) = {}
          <6> SUFFICES ASSUME NEW k \in Instances, NEW l \in Instances, k # l
                       PROVE  /\ Elements(queue'[k]) \cap Elements(queue'[l]) = {}
                              /\ Elements(processing'[k]) \cap Elements(processing'[l]) = {}
            OBVIOUS
          <6>1. Elements(processing'[k]) \cap Elements(processing'[l]) = {}
            BY <2>2 DEF CopyInv, OneCopy
          <6>2. CASE k = i \/ l = i
            BY <5>1, <6>1, <6>2
          <6>3. CASE k # i /\ l # i
            <7>1. \A n \in Instances : n # i =>
                    Elements(queue'[n]) = IF n = j THEN Elements(queue[i]) ELSE Elements(queue[n])
              BY <3>2, <5>1
            <7> QED BY <2>1, <6>1, <6>3, <7>1 DEF CopyInv, OneCopy
          <6> QED BY <6>2, <6>3
        <5> QED BY <5>2, <5>3, <5>4 DEF OneCopy
      <4> QED BY <4>1, <4>2
    <3>4. PushedInv'
      BY <1>p, <1>h, <2>1, <2>2, <3>2, EmptyLemma DEF PushedInv, Stored, Waiting
    <3> QED BY <3>3, <3>4 DEF CopyInv
  <2> QED BY <2>3, <2>4
<1>4. ASSUME NEW u \in Updates, MoveQueue(u) PROVE CopyInv'
  <2> DEFINE i == oldId[u]
             j == newId[u]
             t == RTail(queue[i])
  <2>1. i \in Instances /\ j \in Instances
    BY <1>4 DEF TInv, HandlerInv, MoveQueue
  <2>2. UNCHANGED <<processing, to, handed>>
    BY <1>4 DEF MoveQueue
  <2>3. CASE queue[i] = << >>
    BY <1>4, <1>s, <2>2, <2>3 DEF MoveQueue
  <2>4. CASE queue[i] # << >>
    <3>1. queue' = Moved(i, j)
      BY <1>4, <2>4 DEF MoveQueue
    <3> HIDE DEF i, j
    <3>2. /\ t \in Messages /\ t \in Elements(queue[i])
          /\ \A k \in Instances \ {i, j} : queue'[k] = queue[k]
          /\ Elements(queue'[j]) = Elements(queue[j]) \cup {t}
          /\ i # j => Elements(queue[i]) = Elements(queue'[i]) \cup {t}
          /\ i # j /\ Distinct(queue[i]) => Distinct(queue'[i]) /\ t \notin Elements(queue'[i])
          /\ i # j /\ Distinct(queue[j]) /\ t \notin Elements(queue[j]) => Distinct(queue'[j])
          /\ i = j /\ Distinct(queue[i]) => Distinct(queue'[i])
      <4> DEFINE q == Moved(i, j)
      <4>1. /\ t \in Messages /\ t \in Elements(queue[i])
            /\ \A k \in Instances \ {i, j} : q[k] = queue[k]
            /\ Elements(q[j]) = Elements(queue[j]) \cup {t}
            /\ i # j => Elements(queue[i]) = Elements(q[i]) \cup {t}
            /\ i # j /\ Distinct(queue[i]) => Distinct(q[i]) /\ t \notin Elements(q[i])
            /\ i # j /\ Distinct(queue[j]) /\ t \notin Elements(queue[j]) => Distinct(q[j])
            /\ i = j /\ Distinct(queue[i]) => Distinct(q[i])
        BY <1>t, <2>1, <2>4, MovedLemma
      <4> HIDE DEF q, t
      <4> QED BY <4>1, <3>1 DEF q
    <3> HIDE DEF t
    <3>3. \A k \in Instances :
            t \notin Elements(processing[k]) /\ (k # i => t \notin Elements(queue[k]))
      BY <2>1, <3>2 DEF CopyInv, OneCopy
    <3>4. OneCopy'
      BY <2>1, <2>2, <3>2, <3>3 DEF CopyInv, OneCopy
    <3>5. PushedInv'
      BY <1>p, <1>h, <2>1, <2>2, <3>2 DEF PushedInv, Stored, Waiting
    <3> QED BY <3>4, <3>5 DEF CopyInv
  <2> QED BY <2>3, <2>4
<1>5. ASSUME NEW d \in Drains, AtomicFlushOne(d) PROVE CopyInv'
  <2> DEFINE i == drained[d]
             t == RTail(queue[i])
  <2>1. i \in Instances
    BY <1>5 DEF TInv, HandlerInv, AtomicFlushOne
  <2>2. CASE queue[i] = << >>
    BY <1>5, <1>s, <2>2 DEF AtomicFlushOne
  <2>3. CASE queue[i] # << >>
    <3>1. /\ processing' = [processing EXCEPT ![i] = LPush(processing[i], t)]
          /\ queue' = [queue EXCEPT ![i] = RPop(queue[i])]
          /\ handed' = handed \cup {t} /\ UNCHANGED to
      BY <1>5, <2>3 DEF AtomicFlushOne
    <3>2. /\ t \in Messages /\ Elements(queue[i]) = Elements(RPop(queue[i])) \cup {t}
          /\ Distinct(queue[i]) => Distinct(RPop(queue[i])) /\ t \notin Elements(RPop(queue[i]))
      BY <1>t, <2>1, <2>3, RPopLemma
    <3> HIDE DEF i, t
    <3>3. /\ Elements(LPush(processing[i], t)) = Elements(processing[i]) \cup {t}
          /\ Distinct(processing[i]) /\ t \notin Elements(processing[i])
               => Distinct(LPush(processing[i], t))
      BY <1>t, <2>1, <3>2, LPushLemma
    <3>4. /\ processing'[i] = LPush(processing[i], t) /\ queue'[i] = RPop(queue[i])
          /\ \A k \in Instances \ {i} : queue'[k] = queue[k] /\ processing'[k] = processing[k]
      BY <1>t, <2>1, <3>1
    <3>5. \A k \in Instances :
            t \notin Elements(processing[k]) /\ (k # i => t \notin Elements(queue[k]))
      BY <2>1, <3>2 DEF CopyInv, OneCopy
    <3>6. OneCopy'
      BY <2>1, <3>2, <3>3, <3>4, <3>5 DEF CopyInv, OneCopy
    <3>7. PushedInv'
      BY <1>p, <1>h, <2>1, <3>1, <3>2, <3>3, <3>4 DEF PushedInv, Stored, Waiting
    <3> QED BY <3>6, <3>7 DEF CopyInv
  <2> QED BY <2>2, <2>3
<1>6. ASSUME NEW d \in Drains, AckProcessed(d) PROVE CopyInv'
  <2> DEFINE i == drained[d]
  <2>1. i \in Instances
    BY <1>6 DEF TInv, HandlerInv, AckProcessed
  <2>2. /\ processing' = [processing EXCEPT ![i] = LRem(processing[i], held[d])]
        /\ UNCHANGED <<queue, to, handed>>
    BY <1>6 DEF AckProcessed
  <2> HIDE DEF i
  <2>3. /\ Elements(processing'[i]) \subseteq Elements(processing[i])
        /\ Distinct(processing[i]) => Distinct(processing'[i])
        /\ \A k \in Instances \ {i} : processing'[k] = processing[k]
    BY <1>t, <2>1, <2>2, LRemLemma
  <2>4. OneCopy'
    BY <2>1, <2>2, <2>3 DEF CopyInv, OneCopy
  <2>5. PushedInv'
    BY <1>p, <1>h, <2>1, <2>2, <2>3 DEF PushedInv, Stored, Waiting
  <2> QED BY <2>4, <2>5 DEF CopyInv
<1>7. ASSUME NEW u \in Updates, NEW j \in Instances, SessionUpdate(u, j) PROVE CopyInv'
  BY <1>7, <1>s DEF SessionUpdate
<1>8. ASSUME NEW u \in Updates, MeasureOld(u) \/ MeasureNew(u) \/ MigrateRegistration(u)
      PROVE  CopyInv'
  BY <1>8, <1>s DEF MeasureOld, MeasureNew, MigrateRegistration
<1>9. ASSUME NEW d \in Drains, StartDrain(d) PROVE CopyInv'
  BY <1>9, <1>s DEF StartDrain
<1>10. CASE UNCHANGED vars
  BY <1>10, <1>s DEF vars
<1> QED BY <1>1, <1>2, <1>3, <1>4, <1>5, <1>6, <1>7, <1>8, <1>9, <1>10 DEF Next

(* All reachable states are well typed, however many updates overlap.       *)
THEOREM TypeSafety == Spec => []TypeOK
<1>1. TInv => TypeOK
  BY DEF TInv
<1> QED BY <1>1, InitMigration, NextType, PTL DEF Spec

(* Overlapping migrations, drains and pushes never leave two copies of a   *)
(* message (OneCopy): in one list, in two, or in two identities' lists.    *)
THEOREM CopySafety == Spec => []OneCopy
<1>1. CopyInv => OneCopy
  BY DEF CopyInv
<1> QED BY <1>1, InitMigration, NextType, NextCopies, PTL DEF Spec

-----------------------------------------------------------------------------
(* As long as each request settles by its answer, the migrations come one  *)
(* after another (plugin/src/session-watcher.ts, active).                  *)
OneAtATime == \A u, v \in Updates : InProgress(u) /\ InProgress(v) => u = v

LEMMA NextOneAtATime == ~MayGiveUp /\ TInv /\ OneAtATime /\ [Next]_vars => OneAtATime'
<1> SUFFICES ASSUME ~MayGiveUp, TInv, OneAtATime, [Next]_vars PROVE OneAtATime'
  OBVIOUS
<1> USE DEF lists, updates, drains
<1>t. \E S : pc \in [Updates -> S]
  BY DEF TInv, TypeOK
<1>1. ASSUME NEW u \in Updates, NEW j \in Instances, SessionUpdate(u, j) PROVE OneAtATime'
  <2>1. \A v \in Updates : ~InProgress(v)
    BY <1>1 DEF SessionUpdate
  <2>2. \A v \in Updates : v # u => pc'[v] = pc[v]
    BY <1>1, <1>t DEF SessionUpdate
  <2> QED BY <2>1, <2>2 DEF OneAtATime, InProgress
<1>2. ASSUME NEW u \in Updates, MigrateStep(u) PROVE OneAtATime'
  <2>1. InProgress(u)
    BY <1>2 DEF MigrateStep, InProgress, MoveProcessing, MeasureOld, MeasureNew, Rename,
                MoveQueue, MigrateRegistration
  <2>2. \A v \in Updates : v # u => pc'[v] = pc[v]
    BY <1>2, <1>t DEF MigrateStep, MoveProcessing, MeasureOld, MeasureNew, Rename, MoveQueue,
                      MigrateRegistration
  <2> QED BY <2>1, <2>2 DEF OneAtATime, InProgress
<1>3. ASSUME UNCHANGED pc PROVE OneAtATime'
  BY <1>3 DEF OneAtATime, InProgress
<1>4. ASSUME NEW m \in Messages, NEW i \in Instances, PushMessage(m, i) PROVE OneAtATime'
  BY <1>3, <1>4 DEF PushMessage
<1>5. ASSUME NEW d \in Drains, StartDrain(d) \/ AtomicFlushOne(d) \/ AckProcessed(d)
      PROVE  OneAtATime'
  BY <1>3, <1>5 DEF StartDrain, AtomicFlushOne, AckProcessed
<1>6. CASE UNCHANGED vars
  BY <1>3, <1>6 DEF vars
<1> QED BY <1>1, <1>2, <1>4, <1>5, <1>6 DEF Next, MigrateStep

KeepInv == RenameInv /\ OnlyRenameLoses

(* Then what a step takes from a list goes to another, has been handed over *)
(* or came between the LLEN and the RENAME.                                *)
LEMMA NextKeeps == OneAtATime /\ OneAtATime' /\ TInv /\ KeepInv /\ [Next]_vars => KeepInv'
<1> SUFFICES ASSUME OneAtATime, OneAtATime', TInv, KeepInv, [Next]_vars PROVE KeepInv'
  OBVIOUS
<1> USE MigrationAssumptions DEF lists, updates, drains
<1>t. /\ queue \in [Instances -> Seq(Messages)] /\ processing \in [Instances -> Seq(Messages)]
      /\ to \in [Messages -> Instances \cup {None}] /\ \E S : pc \in [Updates -> S]
  BY DEF TInv, TypeOK
<1>k. ASSUME NEW m \in Messages, to[m] # None
      PROVE  \/ \E k \in Instances : m \in Elements(queue[k]) \/ m \in Elements(processing[k])
             \/ m \in handed \cup raced
  BY <1>k DEF KeepInv, OnlyRenameLoses, Stored, Waiting
<1>f. ASSUME UNCHANGED to, handed \subseteq handed', raced \subseteq raced',
             \A k \in Instances :
               /\ Elements(queue[k]) \subseteq Stored' \cup handed' \cup raced'
               /\ Elements(processing[k]) \subseteq Stored' \cup handed' \cup raced'
      PROVE  OnlyRenameLoses'
  BY <1>f, <1>k DEF OnlyRenameLoses
<1>w. \A k \in Instances : /\ Elements(queue'[k]) \subseteq Stored'
                            /\ Elements(processing'[k]) \subseteq Stored'
  BY DEF Stored, Waiting
<1>s. ASSUME UNCHANGED <<lists, to, raced, handed>> PROVE OnlyRenameLoses'
  BY <1>s DEF KeepInv, OnlyRenameLoses, Stored, Waiting
<1>1. ASSUME NEW m \in Messages, NEW i \in Instances, PushMessage(m, i) PROVE KeepInv'
  <2>1. /\ to[m] = None /\ to' = [to EXCEPT ![m] = i] /\ UNCHANGED <<processing, handed>>
        /\ queue' = [queue EXCEPT ![i] = RPush(queue[i], m)] /\ UNCHANGED <<pc, newId>>
        /\ raced' = IF \E u \in Updates : pc[u] = "rename" /\ newId[u] = i
                    THEN raced \cup {m} ELSE raced
    BY <1>1 DEF PushMessage
  <2>2. /\ Elements(queue'[i]) = Elements(queue[i]) \cup {m}
        /\ \A k \in Instances \ {i} : queue'[k] = queue[k]
    BY <1>t, <2>1, RPushLemma
  <2>3. RenameInv'
    <3> SUFFICES ASSUME NEW u \in Updates, pc[u] = "rename"
                 PROVE  Elements(queue'[newId[u]]) \subseteq raced'
      BY <2>1 DEF RenameInv
    <3>1. newId[u] \in Instances /\ Elements(queue[newId[u]]) \subseteq raced
      BY DEF TInv, HandlerInv, KeepInv, RenameInv
    <3> QED BY <2>1, <2>2, <3>1
  <2>4. OnlyRenameLoses'
    <3> SUFFICES ASSUME NEW n \in Messages, to'[n] # None
                 PROVE  n \in Stored' \cup handed' \cup raced'
      BY DEF OnlyRenameLoses
    <3>1. CASE n = m
      BY <1>w, <2>2, <3>1
    <3>2. CASE n # m
      <4>1. to[n] # None
        BY <1>t, <2>1, <3>2
      <4> QED BY <1>k, <1>w, <2>1, <2>2, <4>1
    <3> QED BY <3>1, <3>2
  <2> QED BY <2>3, <2>4 DEF KeepInv
<1>2. ASSUME NEW u \in Updates, NEW j \in Instances, SessionUpdate(u, j) PROVE KeepInv'
  <2>1. RenameInv'
    BY <1>2, <1>t DEF OneAtATime, InProgress, RenameInv, SessionUpdate, Begin
  <2> QED BY <1>2, <1>s, <2>1 DEF KeepInv, SessionUpdate
<1>3. ASSUME NEW u \in Updates, MoveProcessing(u) PROVE KeepInv'
  <2> DEFINE i == oldId[u]
             j == newId[u]
             t == RTail(processing[i])
  <2>1. i \in Instances /\ j \in Instances
    BY <1>3 DEF TInv, HandlerInv, MoveProcessing
  <2>2. RenameInv'
    BY <1>3, <1>t DEF OneAtATime, InProgress, RenameInv, MoveProcessing
  <2>3. CASE processing[i] = << >>
    BY <1>3, <1>s, <2>2, <2>3 DEF KeepInv, MoveProcessing
  <2>4. CASE processing[i] # << >>
    <3>1. /\ queue' = [queue EXCEPT ![j] = LPush(queue[j], t)]
          /\ processing' = [processing EXCEPT ![i] = RPop(processing[i])]
          /\ UNCHANGED <<to, raced, handed>>
      BY <1>3, <2>4 DEF MoveProcessing
    <3>2. t \in Messages /\ Elements(processing[i]) = Elements(RPop(processing[i])) \cup {t}
      BY <1>t, <2>1, <2>4, RPopLemma
    <3> HIDE DEF i, j, t
    <3>3. Elements(LPush(queue[j], t)) = Elements(queue[j]) \cup {t}
      BY <1>t, <2>1, <3>2, LPushLemma
    <3>4. /\ queue'[j] = LPush(queue[j], t) /\ \A k \in Instances \ {j} : queue'[k] = queue[k]
          /\ processing'[i] = RPop(processing[i])
          /\ \A k \in Instances \ {i} : processing'[k] = processing[k]
      BY <1>t, <2>1, <3>1
    <3>5. OnlyRenameLoses'
      BY <1>f, <1>w, <2>1, <3>1, <3>2, <3>3, <3>4
    <3> QED BY <2>2, <3>5 DEF KeepInv
  <2> QED BY <2>3, <2>4
<1>4. ASSUME NEW u \in Updates, MeasureOld(u) \/ MigrateRegistration(u) PROVE KeepInv'
  <2>1. RenameInv'
    BY <1>4, <1>t DEF OneAtATime, InProgress, RenameInv, MeasureOld, MigrateRegistration
  <2> QED BY <1>4, <1>s, <2>1 DEF KeepInv, MeasureOld, MigrateRegistration
<1>5. ASSUME NEW u \in Updates, MeasureNew(u) PROVE KeepInv'
  <2>1. newId[u] \in Instances /\ UNCHANGED <<queue, newId, raced>>
    BY <1>5 DEF TInv, HandlerInv, MeasureNew
  <2>2. pc'[u] = "rename" => Elements(queue[newId[u]]) = {}
    <3>1. pc'[u] = "rename" => Len(queue[newId[u]]) = 0
      BY <1>5, <1>t DEF MeasureNew, Renames
    <3>2. Len(queue[newId[u]]) = 0 => queue[newId[u]] = << >>
      BY <1>t, <2>1
    <3> QED BY <3>1, <3>2, EmptyLemma
  <2>3. RenameInv'
    BY <1>5, <1>t, <2>1, <2>2 DEF OneAtATime, InProgress, RenameInv, MeasureNew
  <2> QED BY <1>5, <1>s, <2>3 DEF KeepInv, MeasureNew
<1>6. ASSUME NEW u \in Updates, Rename(u) PROVE KeepInv'
  <2> DEFINE i == oldId[u]
             j == newId[u]
  <2>1. i \in Instances /\ j \in Instances
    BY <1>6 DEF TInv, HandlerInv, Rename
  <2>2. UNCHANGED <<processing, to, raced, handed>>
    BY <1>6 DEF Rename
  <2>3. RenameInv'
    BY <1>6, <1>t DEF OneAtATime, InProgress, RenameInv, Rename
  <2>4. Elements(queue[j]) \subseteq raced
    BY <1>6 DEF KeepInv, RenameInv, Rename
  <2>5. CASE queue[i] = << >>
    BY <1>6, <1>s, <2>2, <2>3, <2>5 DEF KeepInv, Rename
  <2>6. CASE queue[i] # << >>
    <3>1. queue' = [[queue EXCEPT ![i] = << >>] EXCEPT ![j] = queue[i]]
      BY <1>6, <2>6 DEF Rename
    <3> HIDE DEF i, j
    <3>2. queue'[j] = queue[i] /\ \A k \in Instances \ {i, j} : queue'[k] = queue[k]
      BY <1>t, <2>1, <3>1
    <3>3. OnlyRenameLoses'
      BY <1>f, <1>w, <2>1, <2>2, <2>4, <3>2
    <3> QED BY <2>3, <3>3 DEF KeepInv
  <2> QED BY <2>5, <2>6
<1>7. ASSUME NEW u \in Updates, MoveQueue(u) PROVE KeepInv'
  <2> DEFINE i == oldId[u]
             j == newId[u]
             t == RTail(queue[i])
  <2>1. i \in Instances /\ j \in Instances
    BY <1>7 DEF TInv, HandlerInv, MoveQueue
  <2>2. UNCHANGED <<processing, to, raced, handed>>
    BY <1>7 DEF MoveQueue
  <2>3. RenameInv'
    BY <1>7, <1>t DEF OneAtATime, InProgress, RenameInv, MoveQueue, AfterLast
  <2>4. CASE queue[i] = << >>
    BY <1>7, <1>s, <2>2, <2>3, <2>4 DEF KeepInv, MoveQueue
  <2>5. CASE queue[i] # << >>
    <3>1. queue' = Moved(i, j)
      BY <1>7, <2>5 DEF MoveQueue
    <3> HIDE DEF i, j
    <3>2. /\ t \in Messages
          /\ \A k \in Instances \ {i, j} : queue'[k] = queue[k]
          /\ Elements(queue'[j]) = Elements(queue[j]) \cup {t}
          /\ i # j => Elements(queue[i]) = Elements(queue'[i]) \cup {t}
      <4> DEFINE q == Moved(i, j)
      <4>1. /\ t \in Messages
            /\ \A k \in Instances \ {i, j} : q[k] = queue[k]
            /\ Elements(q[j]) = Elements(queue[j]) \cup {t}
            /\ i # j => Elements(queue[i]) = Elements(q[i]) \cup {t}
        BY <1>t, <2>1, <2>5, MovedLemma
      <4> HIDE DEF q
      <4> QED BY <4>1, <3>1 DEF q
    <3> HIDE DEF t
    <3>3. OnlyRenameLoses'
      BY <1>f, <1>w, <2>1, <2>2, <3>2
    <3> QED BY <2>3, <3>3 DEF KeepInv
  <2> QED BY <2>4, <2>5
<1>8. ASSUME NEW d \in Drains, StartDrain(d) PROVE KeepInv'
  BY <1>8, <1>s DEF KeepInv, RenameInv, StartDrain
<1>9. ASSUME NEW d \in Drains, AtomicFlushOne(d) PROVE KeepInv'
  <2> DEFINE i == drained[d]
             t == RTail(queue[i])
  <2>1. i \in Instances
    BY <1>9 DEF TInv, HandlerInv, AtomicFlushOne
  <2>2. UNCHANGED <<to, updates>>
    BY <1>9 DEF AtomicFlushOne
  <2>3. CASE queue[i] = << >>
    BY <1>9, <1>s, <2>2, <2>3 DEF KeepInv, RenameInv, AtomicFlushOne
  <2>4. CASE queue[i] # << >>
    <3>1. /\ processing' = [processing EXCEPT ![i] = LPush(processing[i], t)]
          /\ queue' = [queue EXCEPT ![i] = RPop(queue[i])]
          /\ handed' = handed \cup {t}
      BY <1>9, <2>4 DEF AtomicFlushOne
    <3>2. t \in Messages /\ Elements(queue[i]) = Elements(RPop(queue[i])) \cup {t}
      BY <1>t, <2>1, <2>4, RPopLemma
    <3> HIDE DEF i, t
    <3>3. Elements(LPush(processing[i], t)) = Elements(processing[i]) \cup {t}
      BY <1>t, <2>1, <3>2, LPushLemma
    <3>4. /\ processing'[i] = LPush(processing[i], t) /\ queue'[i] = RPop(queue[i])
          /\ \A k \in Instances \ {i} : queue'[k] = queue[k] /\ processing'[k] = processing[k]
      BY <1>t, <2>1, <3>1
    <3>5. \A k \in Instances : Elements(queue'[k]) \subseteq Elements(queue[k])
      BY <3>2, <3>4
    <3>6. RenameInv'
      BY <2>2, <3>5 DEF KeepInv, RenameInv, TInv, HandlerInv
    <3>7. OnlyRenameLoses'
      BY <1>f, <1>w, <2>1, <2>2, <3>1, <3>2, <3>3, <3>4
    <3> QED BY <3>6, <3>7 DEF KeepInv
  <2> QED BY <2>3, <2>4
<1>10. ASSUME NEW d \in Drains, AckProcessed(d) PROVE KeepInv'
  <2> DEFINE i == drained[d]
  <2>1. i \in Instances /\ held[d] \in handed
    BY <1>10 DEF TInv, HandlerInv, AckProcessed
  <2>2. /\ processing' = [processing EXCEPT ![i] = LRem(processing[i], held[d])]
        /\ UNCHANGED <<queue, to, updates, handed>>
    BY <1>10 DEF AckProcessed
  <2> HIDE DEF i
  <2>3. /\ Elements(processing[i]) \subseteq Elements(processing'[i]) \cup {held[d]}
        /\ \A k \in Instances \ {i} : processing'[k] = processing[k]
    BY <1>t, <2>1, <2>2, LRemLemma
  <2>4. OnlyRenameLoses'
    BY <1>f, <1>w, <2>1, <2>2, <2>3
  <2> QED BY <2>2, <2>4 DEF KeepInv, RenameInv
<1>11. CASE UNCHANGED vars
  BY <1>11, <1>s DEF vars, KeepInv, RenameInv
<1> QED BY <1>1, <1>2, <1>3, <1>4, <1>5, <1>6, <1>7, <1>8, <1>9, <1>10, <1>11 DEF Next

(* Any number of migrations, as long as no request is given up before its  *)
(* answer, loses and copies nothing but what is pushed between an LLEN and *)
(* its RENAME (NoneLostOrCopied), however many drains and senders interfere. *)
THEOREM MigrationSafety == ~MayGiveUp /\ Spec => []NoneLostOrCopied
<1>1. CopyInv /\ KeepInv => NoneLostOrCopied
  BY DEF CopyInv, KeepInv, NoneLostOrCopied
<1>2. Init => TInv /\ CopyInv /\ KeepInv
  BY InitMigration DEF KeepInv
<1>3. SUFFICES ASSUME ~MayGiveUp PROVE Spec => []NoneLostOrCopied
  OBVIOUS
<1>4. Init => OneAtATime
  BY DEF Init, OneAtATime, InProgress
<1>5. TInv /\ OneAtATime /\ [Next]_vars => OneAtATime'
  BY <1>3, NextOneAtATime
<1> QED BY <1>1, <1>2, <1>4, <1>5, NextKeeps, NextType, NextCopies, PTL DEF Spec

-----------------------------------------------------------------------------
(* What waited for the old identity when the update came, while it is under *)
(* way: it waits for one of the two identities or has been handed over;     *)
(* once the processing list has been emptied only drains put something      *)
(* there, and once the queue has, only senders do.                         *)
Kept(u) ==
  /\ pending[u] \subseteq Waiting(oldId[u]) \cup Waiting(newId[u]) \cup handed
  /\ pc[u] # "processing" => Elements(processing[oldId[u]]) \subseteq handed
  /\ pc[u] = "register" =>
       oldId[u] = newId[u] \/ pending[u] \cap Elements(queue[oldId[u]]) = {}

(* And none of it is what a RENAME is about to replace.                     *)
Fresh(u) ==
  /\ \A m \in pending[u] : to[m] # None
  /\ pc[u] = "rename" => pending[u] \cap Elements(queue[newId[u]]) = {}

PendingInv == \A u \in Updates : Fresh(u) /\ (InProgress(u) => Kept(u))

(* Each step takes what waited from the old identity's lists to the new      *)
(* one's, or hands it over; RENAME replaces only what raced it.             *)
LEMMA NextPending ==
  ASSUME OneAtATime, OneAtATime', TInv, CopyInv, PendingInv, [Next]_vars
  PROVE  PendingInv'
<1> SUFFICES ASSUME NEW u \in Updates
             PROVE  Fresh(u)' /\ (pc'[u] \notin {"new", "done"} => Kept(u)')
  BY DEF PendingInv, InProgress
<1> USE MigrationAssumptions
<1>1. /\ queue \in [Instances -> Seq(Messages)] /\ processing \in [Instances -> Seq(Messages)]
      /\ to \in [Messages -> Instances \cup {None}] /\ \E S : pc \in [Updates -> S]
      /\ oldId \in [Updates -> Instances \cup {None}] /\ newId \in [Updates -> Instances \cup {None}]
      /\ pending \in [Updates -> SUBSET Messages] /\ instanceId \in Instances
      /\ pc[u] # "new" => oldId[u] \in Instances /\ newId[u] \in Instances
  BY DEF TInv, TypeOK, HandlerInv
<1>2. queue \in [Instances -> Seq(Messages)] /\ processing \in [Instances -> Seq(Messages)]
  BY DEF TInv, TypeOK
<1>4. Fresh(u) /\ (pc[u] \notin {"new", "done"} => Kept(u))
  BY DEF PendingInv, InProgress
<1>3. ASSUME NEW v \in Updates, v # u, MigrateStep(v) \/ \E j \in Instances : SessionUpdate(v, j)
      PROVE  Fresh(u)' /\ (pc'[u] \notin {"new", "done"} => Kept(u)')
  <2> USE DEF MigrateStep, SessionUpdate, MoveProcessing, MeasureOld, MeasureNew, Rename,
              MoveQueue, MigrateRegistration, drains
  <2>1. pc'[u] = pc[u] /\ pending'[u] = pending[u] /\ UNCHANGED to
    BY <1>1, <1>3
  <2>2. InProgress(v) \/ InProgress(v)'
    BY <1>1, <1>3 DEF InProgress, Begin
  <2>3. pc[u] \in {"new", "done"}
    BY <1>3, <2>1, <2>2 DEF OneAtATime, InProgress
  <2> QED BY <1>4, <2>1, <2>3 DEF Fresh
<1>5. \A i \in Instances, m \in Messages : m \in Waiting(i) \/ m \in handed => to[m] # None
  BY DEF CopyInv, PushedInv, Stored
<1>6. ASSUME UNCHANGED <<lists, to, handed, raced, pc, oldId, newId, pending>>
      PROVE  Fresh(u)' /\ (pc'[u] \notin {"new", "done"} => Kept(u)')
  BY <1>4, <1>6 DEF lists, Fresh, Kept, Waiting
<1>7. ASSUME NEW m \in Messages, NEW k \in Instances, PushMessage(m, k)
      PROVE  Fresh(u)' /\ (pc'[u] \notin {"new", "done"} => Kept(u)')
  <2>1. /\ to[m] = None /\ to' = [to EXCEPT ![m] = k]
        /\ UNCHANGED <<processing, handed, pc, oldId, newId, pending>>
        /\ queue' = [queue EXCEPT ![k] = RPush(queue[k], m)]
    BY <1>7 DEF PushMessage, drains
  <2>2. m \notin pending[u]
    BY <1>4, <2>1 DEF Fresh
  <2>3. /\ Elements(queue'[k]) = Elements(queue[k]) \cup {m}
        /\ \A l \in Instances \ {k} : queue'[l] = queue[l]
    BY <1>1, <2>1, RPushLemma
  <2>4. Fresh(u)'
    BY <1>1, <1>4, <2>1, <2>2, <2>3 DEF Fresh
  <2>5. ASSUME pc[u] \notin {"new", "done"} PROVE Kept(u)'
    <3>1. oldId[u] \in Instances /\ newId[u] \in Instances /\ Kept(u)
      BY <1>1, <1>4, <2>5
    <3>2. \A l \in Instances : Elements(queue[l]) \subseteq Elements(queue'[l])
      BY <2>3
    <3>3. pending[u] \cap Elements(queue'[oldId[u]]) \subseteq Elements(queue[oldId[u]])
      BY <2>2, <2>3, <3>1
    <3> QED BY <2>1, <3>1, <3>2, <3>3 DEF Kept, Waiting
  <2> QED BY <2>1, <2>4, <2>5
<1>8. ASSUME NEW j \in Instances, SessionUpdate(u, j)
      PROVE  Fresh(u)' /\ (pc'[u] \notin {"new", "done"} => Kept(u)')
  <2>2. /\ pc[u] = "new" /\ pc'[u] = "processing" /\ oldId'[u] = instanceId
        /\ newId'[u] = j /\ pending'[u] = Waiting(instanceId)
        /\ UNCHANGED <<queue, processing, to, raced, handed>>
    BY <1>1, <1>8 DEF SessionUpdate, Begin, lists, drains
  <2>3. Fresh(u)'
    <3>1. Waiting(instanceId) \subseteq Messages
      BY <1>1 DEF Waiting, Elements
    <3> QED BY <1>1, <1>5, <2>2, <3>1 DEF Fresh
  <2>4. Kept(u)'
    BY <2>2 DEF Kept, Waiting
  <2> QED BY <2>3, <2>4
<1>9. ASSUME MoveProcessing(u)
      PROVE  Fresh(u)' /\ (pc'[u] \notin {"new", "done"} => Kept(u)')
  <2>2. PICK i \in Instances, j \in Instances : i = oldId[u] /\ j = newId[u]
    BY <1>1, <1>9 DEF MoveProcessing
  <2>3. pc[u] = "processing" /\ Kept(u)
    BY <1>4, <1>9 DEF MoveProcessing
  <2> DEFINE t == RTail(processing[i])
  <2>4. UNCHANGED <<to, raced, handed, oldId, newId, pending>>
    BY <1>9, <2>2 DEF MoveProcessing, drains
  <2>5. Fresh(u)'
    <3>1. pc'[u] # "rename"
      BY <1>1, <1>9, <2>2 DEF MoveProcessing
    <3> QED BY <1>4, <2>2, <2>4, <3>1 DEF Fresh
  <2>6. CASE processing[i] = << >>
    <3>1. pc'[u] = "llen" /\ UNCHANGED <<queue, processing>>
      BY <1>1, <1>9, <2>2, <2>6 DEF MoveProcessing, lists
    <3>2. Elements(processing[i]) = {}
      BY <2>2, <2>6, EmptyLemma
    <3> QED BY <2>2, <2>3, <2>4, <2>5, <3>1, <3>2 DEF Kept, Waiting
  <2>7. CASE processing[i] # << >>
    <3>1. /\ queue' = [queue EXCEPT ![j] = LPush(queue[j], t)]
          /\ processing' = [processing EXCEPT ![i] = RPop(processing[i])]
          /\ pc' = pc
      BY <1>9, <2>2, <2>7 DEF MoveProcessing
    <3>2. t \in Messages /\ Elements(processing[i]) = Elements(RPop(processing[i])) \cup {t}
      <4>1. processing[i] \in Seq(Messages)
        BY <1>2
      <4> QED BY <2>7, <4>1, RPopLemma
    <3>3. pending[u] \subseteq Waiting(i) \cup Waiting(j) \cup handed
      BY <2>2, <2>3 DEF Kept
    <3>4. oldId'[u] = i /\ newId'[u] = j /\ pending'[u] = pending[u]
      BY <2>2, <2>4
    <3> HIDE DEF t
    <3>5. Elements(LPush(queue[j], t)) = Elements(queue[j]) \cup {t}
      BY <1>1, <2>2, <2>3, <3>2, LPushLemma
    <3>6. /\ queue'[j] = LPush(queue[j], t) /\ \A k \in Instances \ {j} : queue'[k] = queue[k]
          /\ processing'[i] = RPop(processing[i])
          /\ \A k \in Instances \ {i} : processing'[k] = processing[k]
      BY <1>1, <2>2, <2>3, <3>1
    <3>7. Waiting(i) \cup Waiting(j) \subseteq Waiting(i)' \cup Waiting(j)'
      BY <2>2, <2>3, <3>2, <3>5, <3>6 DEF Waiting
    <3>8. pending'[u] \subseteq Waiting(oldId[u])' \cup Waiting(newId[u])' \cup handed'
      BY <2>2, <2>4, <3>3, <3>4, <3>7
    <3> QED BY <2>2, <2>3, <2>5, <3>1, <3>8 DEF Kept
  <2> QED BY <2>2, <2>6, <2>7
<1>10. ASSUME MeasureOld(u)
      PROVE  Fresh(u)' /\ (pc'[u] \notin {"new", "done"} => Kept(u)')
  <2>2. /\ pc[u] = "llen" /\ pc'[u] = IF queue[oldId[u]] = << >> THEN "register" ELSE "llenNew"
        /\ UNCHANGED <<queue, processing, to, raced, handed, oldId, newId, pending>>
    BY <1>1, <1>10 DEF MeasureOld, lists, drains
  <2>3. pc'[u] = "register" => Elements(queue[oldId[u]]) = {}
    BY <2>2, EmptyLemma
  <2> QED BY <1>4, <2>2, <2>3 DEF Fresh, Kept, Waiting
<1>11. ASSUME MeasureNew(u)
       PROVE  Fresh(u)' /\ (pc'[u] \notin {"new", "done"} => Kept(u)')
  <2>1. /\ pc[u] = "llenNew" /\ pc'[u] \in {"rename", "move"}
        /\ UNCHANGED <<queue, processing, to, raced, handed, oldId, newId, pending>>
    BY <1>1, <1>11 DEF MeasureNew, lists, drains
  <2>2. pc'[u] = "rename" => Elements(queue[newId[u]]) = {}
    <3>1. pc'[u] = "rename" => Len(queue[newId[u]]) = 0
      BY <1>1, <1>11 DEF MeasureNew, Renames
    <3>2. newId[u] \in Instances
      BY <1>1, <2>1
    <3>3. Len(queue[newId[u]]) = 0 => queue[newId[u]] = << >>
      BY <1>2, <3>2
    <3> QED BY <3>1, <3>3, EmptyLemma
  <2> QED BY <1>4, <2>1, <2>2 DEF Fresh, Kept, Waiting
<1>12. ASSUME Rename(u)
       PROVE  Fresh(u)' /\ (pc'[u] \notin {"new", "done"} => Kept(u)')
  <2>2. PICK i \in Instances, j \in Instances : i = oldId[u] /\ j = newId[u]
    BY <1>1, <1>12 DEF Rename
  <2>3. pc[u] = "rename" /\ Kept(u)
    BY <1>4, <1>12 DEF Rename
  <2>4. /\ pc'[u] = "register"
        /\ UNCHANGED <<processing, to, raced, handed, oldId, newId, pending>>
    BY <1>1, <1>12, <2>2 DEF Rename, drains
  <2>5. Fresh(u)'
    BY <1>4, <2>2, <2>4 DEF Fresh
  <2>6. Elements(queue[j]) \cap pending[u] = {}
    BY <1>4, <2>2, <2>3 DEF Fresh
  <2>7. pending[u] \subseteq Waiting(i) \cup Waiting(j) \cup handed
    BY <2>2, <2>3 DEF Kept
  <2>8. oldId'[u] = i /\ newId'[u] = j /\ pending'[u] = pending[u]
    BY <2>2, <2>4
  <2>9. /\ queue[i] = << >> => queue' = queue
        /\ queue[i] # << >> => queue' = [[queue EXCEPT ![i] = << >>] EXCEPT ![j] = queue[i]]
    BY <1>12, <2>2 DEF Rename
  <2>10. Elements(processing[i]) \subseteq handed
    BY <2>2, <2>3 DEF Kept
  <2>11. Elements(<< >>) = {}
    BY EmptyLemma
  <2>12. /\ i # j => Elements(queue'[i]) = {}
         /\ Elements(queue[i]) \subseteq Elements(queue'[j])
         /\ i = j => queue' = queue
         /\ queue' # queue \/ Elements(queue[j]) \subseteq Elements(queue'[j])
    BY <1>1, <2>2, <2>3, <2>9, <2>11
  <2>13. pending[u] \subseteq Waiting(i)' \cup Waiting(j)' \cup handed'
    BY <2>2, <2>4, <2>6, <2>7, <2>12 DEF Waiting
  <2>14. pc'[u] = "register" => i = j \/ pending[u] \cap Elements(queue'[i]) = {}
    BY <2>2, <2>12
  <2>15. Kept(u)'
    BY <2>2, <2>4, <2>8, <2>10, <2>13, <2>14 DEF Kept
  <2> QED BY <2>2, <2>5, <2>15
<1>13. ASSUME MoveQueue(u)
       PROVE  Fresh(u)' /\ (pc'[u] \notin {"new", "done"} => Kept(u)')
  <2>2. PICK i \in Instances, j \in Instances : i = oldId[u] /\ j = newId[u]
    BY <1>1, <1>13 DEF MoveQueue
  <2>3. pc[u] = "move" /\ Kept(u)
    BY <1>4, <1>13 DEF MoveQueue
  <2> DEFINE t == RTail(queue[i])
  <2>4. UNCHANGED <<processing, to, raced, handed, oldId, newId, pending>>
    BY <1>13, <2>2 DEF MoveQueue, drains
  <2>5. Fresh(u)'
    <3>1. pc'[u] # "rename"
      BY <1>1, <1>13, <2>2 DEF MoveQueue, AfterLast
    <3> QED BY <1>4, <2>2, <2>4, <3>1 DEF Fresh
  <2>6. CASE queue[i] = << >>
    <3>1. pc'[u] = "register" /\ queue' = queue
      BY <1>1, <1>13, <2>2, <2>6 DEF MoveQueue, AfterLast
    <3>2. Elements(queue[i]) = {}
      BY <2>2, <2>6, EmptyLemma
    <3> QED BY <2>2, <2>3, <2>4, <2>5, <3>1, <3>2 DEF Kept, Waiting
  <2>7. CASE queue[i] # << >>
    <3>1. queue' = Moved(i, j) /\ pc' = pc
      BY <1>13, <2>2, <2>7 DEF MoveQueue
    <3>2. /\ pending[u] \subseteq Waiting(i) \cup Waiting(j) \cup handed
          /\ Elements(processing[i]) \subseteq handed
      BY <2>2, <2>3 DEF Kept
    <3>3. oldId'[u] = i /\ newId'[u] = j /\ pending'[u] = pending[u]
      BY <2>2, <2>4
    <3>4. /\ \A k \in Instances \ {i, j} : queue'[k] = queue[k]
          /\ Elements(queue'[j]) = Elements(queue[j]) \cup {t}
          /\ i # j => Elements(queue[i]) = Elements(queue'[i]) \cup {t}
      <4> DEFINE q == Moved(i, j)
      <4>1. /\ \A k \in Instances \ {i, j} : q[k] = queue[k]
            /\ Elements(q[j]) = Elements(queue[j]) \cup {t}
            /\ i # j => Elements(queue[i]) = Elements(q[i]) \cup {t}
        BY <1>2, <2>7, MovedLemma
      <4> HIDE DEF q
      <4> QED BY <2>2, <3>1, <4>1 DEF q
    <3> HIDE DEF t
    <3>5. Waiting(i) \cup Waiting(j) \subseteq Waiting(i)' \cup Waiting(j)'
      BY <2>2, <2>4, <3>4 DEF Waiting
    <3>6. pending'[u] \subseteq Waiting(oldId[u])' \cup Waiting(newId[u])' \cup handed'
      BY <2>2, <2>4, <3>2, <3>3, <3>5
    <3>7. Kept(u)'
      BY <2>2, <2>3, <2>4, <3>1, <3>2, <3>3, <3>6 DEF Kept
    <3> QED BY <2>2, <2>5, <3>7
  <2> QED BY <2>2, <2>6, <2>7
<1>14. ASSUME MigrateRegistration(u)
       PROVE  Fresh(u)' /\ (pc'[u] \notin {"new", "done"} => Kept(u)')
  <2>1. /\ pc'[u] = "done" /\ UNCHANGED <<to, raced, pending>>
    BY <1>1, <1>14 DEF MigrateRegistration
  <2> QED BY <1>4, <2>1 DEF Fresh
<1>15. ASSUME NEW d \in Drains, StartDrain(d)
       PROVE  Fresh(u)' /\ (pc'[u] \notin {"new", "done"} => Kept(u)')
  BY <1>6, <1>15 DEF StartDrain, updates
<1>16. ASSUME NEW d \in Drains, AtomicFlushOne(d)
       PROVE  Fresh(u)' /\ (pc'[u] \notin {"new", "done"} => Kept(u)')
  <2>1. PICK k \in Instances : k = drained[d]
    BY <1>16 DEF TInv, HandlerInv, AtomicFlushOne
  <2> DEFINE t == RTail(queue[k])
  <2>2. UNCHANGED <<to, raced, pc, oldId, newId, pending>>
    BY <1>16 DEF AtomicFlushOne, updates
  <2>3. CASE queue[k] = << >>
    BY <1>6, <1>16, <2>1, <2>2, <2>3 DEF AtomicFlushOne
  <2>4. CASE queue[k] # << >>
    <3>1. /\ processing' = [processing EXCEPT ![k] = LPush(processing[k], t)]
          /\ queue' = [queue EXCEPT ![k] = RPop(queue[k])]
          /\ handed' = handed \cup {t}
      BY <1>16, <2>1, <2>4 DEF AtomicFlushOne
    <3>2. t \in Messages /\ Elements(queue[k]) = Elements(RPop(queue[k])) \cup {t}
      <4>1. queue[k] \in Seq(Messages)
        BY <1>2
      <4> QED BY <2>4, <4>1, RPopLemma
    <3> HIDE DEF t
    <3>3. Elements(LPush(processing[k], t)) = Elements(processing[k]) \cup {t}
      BY <1>1, <2>1, <3>2, LPushLemma
    <3>4. /\ processing'[k] = LPush(processing[k], t) /\ queue'[k] = RPop(queue[k])
          /\ \A l \in Instances \ {k} : queue'[l] = queue[l] /\ processing'[l] = processing[l]
      BY <1>1, <2>1, <3>1
    <3>5. \A l \in Instances :
            /\ Waiting(l) \subseteq Waiting(l)'
            /\ Elements(queue'[l]) \subseteq Elements(queue[l])
            /\ Elements(processing'[l]) \subseteq Elements(processing[l]) \cup {t}
      BY <3>2, <3>3, <3>4 DEF Waiting
    <3>6. Fresh(u)'
      BY <1>1, <1>4, <2>2, <3>5 DEF Fresh
    <3>7. ASSUME pc[u] \notin {"new", "done"} PROVE Kept(u)'
      <4>1. oldId[u] \in Instances /\ newId[u] \in Instances /\ Kept(u)
        BY <1>1, <1>4, <3>7
      <4>2. pending[u] \subseteq Waiting(oldId[u])' \cup Waiting(newId[u])' \cup handed'
        BY <2>2, <3>1, <3>5, <4>1 DEF Kept
      <4> QED BY <2>2, <3>1, <3>5, <4>1, <4>2 DEF Kept
    <3> QED BY <2>2, <3>6, <3>7
  <2> QED BY <2>3, <2>4
<1>17. ASSUME NEW d \in Drains, AckProcessed(d)
       PROVE  Fresh(u)' /\ (pc'[u] \notin {"new", "done"} => Kept(u)')
  <2>1. PICK k \in Instances : k = drained[d] /\ held[d] \in handed
    BY <1>17 DEF TInv, HandlerInv, AckProcessed
  <2>2. /\ processing' = [processing EXCEPT ![k] = LRem(processing[k], held[d])]
        /\ UNCHANGED <<queue, to, raced, pc, oldId, newId, pending, handed>>
    BY <1>17, <2>1 DEF AckProcessed, updates
  <2>3. /\ Elements(processing[k]) \subseteq Elements(processing'[k]) \cup {held[d]}
        /\ Elements(processing'[k]) \subseteq Elements(processing[k])
        /\ \A l \in Instances \ {k} : processing'[l] = processing[l]
    BY <1>1, <2>1, <2>2, LRemLemma
  <2>4. \A l \in Instances :
          /\ Waiting(l) \subseteq Waiting(l)' \cup handed
          /\ Elements(processing'[l]) \subseteq Elements(processing[l])
    BY <2>1, <2>2, <2>3 DEF Waiting
  <2>5. Fresh(u)'
    BY <1>4, <2>2 DEF Fresh
  <2>6. ASSUME pc[u] \notin {"new", "done"} PROVE Kept(u)'
    <3>1. oldId[u] \in Instances /\ newId[u] \in Instances /\ Kept(u)
      BY <1>1, <1>4, <2>6
    <3>2. pending[u] \subseteq Waiting(oldId[u])' \cup Waiting(newId[u])' \cup handed'
      BY <2>2, <2>4, <3>1 DEF Kept
    <3> QED BY <2>2, <2>4, <3>1, <3>2 DEF Kept
  <2> QED BY <2>2, <2>5, <2>6
<1>18. CASE UNCHANGED vars
  BY <1>6, <1>18 DEF vars, updates, drains
<1>19. ASSUME NEW v \in Updates, MigrateStep(v) \/ \E j \in Instances : SessionUpdate(v, j)
       PROVE  Fresh(u)' /\ (pc'[u] \notin {"new", "done"} => Kept(u)')
  <2>1. CASE v = u
    BY <1>8, <1>9, <1>10, <1>11, <1>12, <1>13, <1>14, <1>19, <2>1 DEF MigrateStep
  <2>2. CASE v # u
    BY <1>3, <1>19, <2>2
  <2> QED BY <2>1, <2>2
<1> QED BY <1>7, <1>15, <1>16, <1>17, <1>18, <1>19 DEF Next, MigrateStep

(* When the socket takes its new identity, whatever waited for the old one  *)
(* when the update came waits for the new one or has been handed over,      *)
(* however many senders and drains came in between (MigratesAll), as long   *)
(* as no request is given up before its answer.                            *)
THEOREM MigratesSafety == ~MayGiveUp /\ Spec => MigratesAll
<1>1. Init => PendingInv
  BY DEF Init, PendingInv, Fresh, InProgress
<1>2. SUFFICES ASSUME ~MayGiveUp PROVE Spec => MigratesAll
  OBVIOUS
<1>3. TInv /\ CopyInv /\ OneAtATime /\ OneAtATime' /\ PendingInv /\ [Next]_vars => PendingInv'
  BY NextPending
<1>4. TInv /\ OneAtATime /\ [Next]_vars => OneAtATime'
  BY <1>2, NextOneAtATime
<1>5. Init => TInv /\ CopyInv /\ OneAtATime
  BY InitMigration DEF Init, OneAtATime, InProgress
<1>6. ASSUME TInv, PendingInv, [Next]_vars
      PROVE  [\A u \in Updates : pc[u] = "register" /\ pc'[u] = "done"
               => pending[u] \subseteq Waiting(newId[u]) \cup handed]_vars
  <2> SUFFICES ASSUME NEW u \in Updates, pc[u] = "register"
               PROVE  pending[u] \subseteq Waiting(newId[u]) \cup handed
    OBVIOUS
  <2>1. Kept(u)
    BY <1>6 DEF PendingInv, InProgress
  <2> QED BY <2>1 DEF Kept, Waiting
<1> QED BY <1>1, <1>3, <1>4, <1>5, <1>6, NextType, NextCopies, PTL DEF Spec, MigratesAll
=============================================================================
