---------------------------- MODULE Topics_proofs ----------------------------
(***************************************************************************)
(* The two indexes of subscriptions, the deletion timers and the           *)
(* subscribers agree for any numbers of topics, instances and requests:    *)
(* which of two handlers is behind the other in the line of the Redis      *)
(* connection decides what either leaves behind.                           *)
(***************************************************************************)
EXTENDS Topics, RedisLists_proofs

(* A handler has a command in the line exactly while it is not at rest.    *)
Busy(h) == pc[h] \notin {"no", "done", "rejected"}
LineInv == Distinct(waiting) /\ \A h \in Handlers : Busy(h) <=> h \in Elements(waiting)

(* Which operations a command is part of.                                  *)
Places ==
  {"no", "exists", "read", "heal", "count", "write", "add", "addIndex", "leave", "leaveIndex", "left",
   "expires", "timer", "timerHash", "members", "delete", "unindex", "drop", "topics", "flush",
   "deregister", "migrate", "swap", "names", "done", "rejected"}
PartOf(l, k) ==
  CASE l = "exists" -> k \in {"create", "createKept", "join", "subscribe", "unsubscribe", "delete"}
    [] l \in {"read", "heal", "count", "write"}      -> k \in {"create", "createKept", "join"}
    [] l \in {"add", "addIndex"}                     -> k \in {"join", "subscribe"}
    [] l \in {"leave", "leaveIndex"}                 -> k \in {"unsubscribe", "remove"}
    [] l \in {"left", "expires"}                     -> k \in {"unsubscribe", "remove", "recover"}
    [] l \in {"timer", "timerHash"}                  -> k = "expire"
    [] l = "members"                                 -> k = "delete"
    [] l \in {"delete", "unindex", "drop"}           -> k \in {"delete", "expire"}
    [] l \in {"topics", "flush", "deregister"}       -> k = "remove"
    [] l \in {"migrate", "swap"}                     -> k = "session"
    [] l = "names"                                   -> k = "recover"
    [] l = "rejected"                                -> k \in {"subscribe", "unsubscribe", "delete"}
    [] OTHER                                         -> TRUE

(* A request, a timer and the startup scan have operations of their own;   *)
(* an operation has the arguments it needs.                                *)
OpOK(h) ==
  /\ h \in TopicNames <=> op[h].kind = "expire"
  /\ h = Startup <=> op[h].kind = "recover"
  /\ h \in TopicNames => op[h].topic = h
  /\ h \in Requests /\ pc[h] = "no" => op[h].kind = "create" /\ seen[h] = {}
  /\ PartOf(pc[h], op[h].kind)
  /\ Busy(h) /\ pc[h] \notin {"topics", "flush", "deregister", "migrate", "swap", "names"}
       => op[h].topic \in TopicNames
  /\ Busy(h) /\ op[h].kind \in {"join", "subscribe", "unsubscribe", "remove", "session"}
       => op[h].who \in Instances
  /\ Busy(h) /\ op[h].kind = "session" => op[h].to \in Instances
  /\ op[h].kind \in {"remove", "recover", "session"} => seen[h] \subseteq TopicNames
  /\ pc[h] = "unindex" => seen[h] \subseteq Instances
OpInv == \A h \in Handlers : OpOK(h)

TInv == TypeOK /\ LineInv /\ OpInv

In(t, i) == i \in subscribers[t]
Of(t, i) == t \in topicsOf[i]

(* h has changed the pair in one index only, or is about to change it       *)
(* because of what it read.                                                *)
About(h, t, i) ==
  \/ pc[h] \in {"addIndex", "leaveIndex"} /\ op[h].kind # "remove" /\ op[h].topic = t /\ op[h].who = i
  \/ pc[h] \in {"unindex", "drop"} /\ op[h].topic = t
  \/ pc[h] = "swap" /\ i \in {op[h].who, op[h].to}
  \/ op[h].kind = "remove" /\ pc[h] \notin {"topics", "done"} /\ op[h].who = i

(* Of the handlers that have changed one index, only the last in the line   *)
(* can tell what it holds: those before it are overtaken.                  *)
LastAbout(h, t, i) ==
  \A g \in Handlers \ {h} : About(g, t, i) => Precedes(waiting, g, h)

(* What a half-done operation knows about a pair that is not in doubt.     *)
HalfDone(h, t, i) ==
  /\ pc[h] = "addIndex" /\ LastAbout(h, t, i) => In(t, i)
  /\ pc[h] = "leaveIndex" /\ op[h].kind # "remove" /\ LastAbout(h, t, i) => ~In(t, i)
  /\ pc[h] = "unindex" => (In(t, i) <=> Of(t, i)) /\ (In(t, i) <=> i \in seen[h])
  /\ pc[h] = "drop" => ~Of(t, i)
  /\ pc[h] = "swap" => (In(t, i) <=> Of(t, i)) /\ (i = op[h].who => (In(t, i) <=> t \in seen[h]))
  /\ op[h].kind = "remove" =>
       IF pc[h] = "leaveIndex" /\ t = op[h].topic THEN ~In(t, i)
       ELSE IF \/ pc[h] = "leave" /\ t = op[h].topic
               \/ pc[h] \notin {"flush", "deregister"} /\ t \in seen[h] THEN In(t, i) <=> Of(t, i)
       ELSE ~In(t, i) /\ ~Of(t, i)

PairOK(t, i) ==
  <<t, i>> \notin Doubtful =>
    /\ (\A h \in Handlers : ~About(h, t, i)) => (In(t, i) <=> Of(t, i))
    /\ \A h \in Handlers : About(h, t, i) => HalfDone(h, t, i)
PairInv == \A t \in TopicNames, i \in Instances : PairOK(t, i)

(* A subscriber whose topic has a timer, or is about to have one, has not  *)
(* finished to subscribe, and will do so after that.                       *)
Joining(g, t) == pc[g] = "addIndex" /\ op[g].topic = t
Covered(t) ==
  /\ t \in pending => \E g \in Handlers : Joining(g, t)
  /\ \A h \in Handlers : pc[h] = "expires" /\ op[h].topic = t =>
       \E g \in Handlers : Joining(g, t) /\ Precedes(waiting, h, g)
TimerOK(t, i) == <<t, i>> \notin Doubtful /\ In(t, i) => Covered(t)
TimerInv == \A t \in TopicNames, i \in Instances : TimerOK(t, i)

(* Once its handler has counted none, whoever subscribes is counted anew.   *)
SpareInv ==
  \A t \in TopicNames :
    pc[t] \in {"timerHash", "delete", "unindex", "drop"} => subscribers[t] \subseteq counted[t]

-----------------------------------------------------------------------------
(* What goes on to its next command goes to the end of the line; what has   *)
(* ended leaves it.                                                        *)
LEMMA GotoLemma ==
  ASSUME TypeOK, LineInv, NEW h \in Handlers, NEW l \in Places, l # "no", Answered(h), Goto(h, l)
  PROVE  /\ Busy(h) /\ waiting' \in Seq(Handlers) /\ LineInv'
         /\ pc' = [pc EXCEPT ![h] = l] /\ pc' \in [Handlers -> Places]
         /\ skewed' = Doubtful
         /\ \A f, g \in Handlers \ {h} : Precedes(waiting, f, g)' <=> Precedes(waiting, f, g)
         /\ \A g \in Handlers : ~Precedes(waiting, h, g)' /\ ~Precedes(waiting, g, h)
         /\ \A g \in Handlers \ {h} : /\ Busy(g) => Precedes(waiting, h, g)
                                      /\ Busy(g) /\ Busy(h)' => Precedes(waiting, g, h)'
<1>1. /\ waiting \in Seq(Handlers) /\ Distinct(waiting) /\ waiting # << >> /\ h = Head(waiting)
      /\ \A g \in Handlers : Busy(g) <=> g \in Elements(waiting)
  BY DEF TypeOK, LineInv, Answered
<1>2. h \in Elements(waiting) /\ Busy(h)
  BY <1>1, PrecedesLemma
<1>3. \A g : /\ ~Precedes(waiting, g, h)
             /\ g \in Elements(waiting) \ {h} => Precedes(waiting, h, g)
  BY <1>1, PrecedesLemma
<1>4. pc' = [pc EXCEPT ![h] = l] /\ pc' \in [Handlers -> Places] /\ skewed' = Doubtful
  BY DEF TypeOK, Goto, Places
<1>5. /\ Busy(h)' <=> l \notin {"done", "rejected"}
      /\ \A g \in Handlers \ {h} : Busy(g)' <=> Busy(g)
  BY <1>4 DEF TypeOK, Busy
<1>6. CASE l \in {"done", "rejected"}
  <2>1. waiting' = LPop(waiting)
    BY <1>1, <1>6 DEF Goto, Resolved, LPop
  <2>2. /\ waiting' \in Seq(Handlers) /\ Distinct(waiting')
        /\ Elements(waiting) = Elements(waiting') \cup {h} /\ h \notin Elements(waiting')
    BY <1>1, <2>1, LPopLemma
  <2>3. \A f, g : f # h => (Precedes(waiting', f, g) <=> Precedes(waiting, f, g))
    BY <1>1, <2>1, PrecedesLPop
  <2>4. \A g : ~Precedes(waiting', h, g)
    BY <2>2, PrecedesLemma
  <2>5. LineInv'
    BY <1>1, <1>5, <1>6, <2>2 DEF LineInv
  <2> QED BY <1>1, <1>2, <1>3, <1>4, <1>5, <1>6, <2>2, <2>3, <2>4, <2>5
<1>7. CASE l \notin {"done", "rejected"}
  <2>1. waiting' = Append(Tail(waiting), Head(waiting))
    BY <1>1, <1>7 DEF Goto, AwaitAgain
  <2>2. /\ waiting' \in Seq(Handlers) /\ Distinct(waiting') /\ Elements(waiting') = Elements(waiting)
        /\ \A f, g : f # h /\ g # h => (Precedes(waiting', f, g) <=> Precedes(waiting, f, g))
        /\ \A g : Precedes(waiting', g, h) <=> g \in Elements(waiting) \ {h}
        /\ \A g : ~Precedes(waiting', h, g)
    BY <1>1, <2>1, HeadToEnd
  <2>3. LineInv'
    BY <1>1, <1>2, <1>5, <1>7, <2>2 DEF LineInv
  <2> QED BY <1>1, <1>2, <1>3, <1>4, <1>5, <1>7, <2>2, <2>3
<1> QED BY <1>6, <1>7

(* What begins goes to the end of the line.                                 *)
LEMMA ArrivesLemma ==
  ASSUME TypeOK, LineInv, NEW h \in Handlers, ~Busy(h),
         NEW l \in Places \ {"no", "done", "rejected"}, Arrives(h, l)
  PROVE  /\ waiting' \in Seq(Handlers) /\ LineInv'
         /\ pc' = [pc EXCEPT ![h] = l] /\ pc' \in [Handlers -> Places]
         /\ skewed' = Doubtful
         /\ \A f \in Handlers, g \in Handlers \ {h} : Precedes(waiting, f, g)' <=> Precedes(waiting, f, g)
<1>1. /\ waiting \in Seq(Handlers) /\ Distinct(waiting) /\ h \notin Elements(waiting)
      /\ \A g \in Handlers : Busy(g) <=> g \in Elements(waiting)
  BY DEF TypeOK, LineInv
<1>2. pc' = [pc EXCEPT ![h] = l] /\ pc' \in [Handlers -> Places] /\ skewed' = Doubtful
  BY DEF TypeOK, Arrives, Places
<1>3. waiting' = RPush(waiting, h)
  BY DEF Arrives, Await, RPush
<1>4. waiting' \in Seq(Handlers) /\ Distinct(waiting') /\ Elements(waiting') = Elements(waiting) \cup {h}
  BY <1>1, <1>3, RPushLemma
<1>5. \A f, g : g # h => (Precedes(waiting', f, g) <=> Precedes(waiting, f, g))
  BY <1>1, <1>3, PrecedesRPush
<1>6. \A g \in Handlers : Busy(g)' <=> (Busy(g) \/ g = h)
  BY <1>2 DEF TypeOK, Busy
<1> QED BY <1>1, <1>2, <1>4, <1>5, <1>6 DEF LineInv

LEMMA DoubtfulType == TypeOK => Doubtful \subseteq TopicNames \X Instances
BY DEF TypeOK, Doubtful, Overlapping

LEMMA InitType == Init => TInv
<1> SUFFICES ASSUME Init PROVE TInv
  OBVIOUS
<1> USE TopicAssumptions
<1>1. TypeOK
  BY DEF Init, TypeOK, Kinds, Operation, Handlers
<1>2. LineInv
  BY DEF Init, LineInv, Distinct, Elements, Busy
<1>3. OpInv
  BY DEF Init, OpInv, OpOK, Busy, PartOf, Operation, Handlers
<1> QED BY <1>1, <1>2, <1>3 DEF TInv

(* A step of h leaves the operations of the others alone.                   *)
LEMMA OthersOps ==
  ASSUME TInv, NEW h \in Handlers, NEW l \in Places, pc' = [pc EXCEPT ![h] = l],
         op' \in [Handlers -> [kind : Kinds, topic : TopicNames \cup {None},
                               who : Instances \cup {None}, to : Instances \cup {None}]],
         \A g \in Handlers \ {h} : op'[g] = op[g] /\ seen'[g] = seen[g],
         OpOK(h)'
  PROVE  OpInv'
<1> SUFFICES ASSUME NEW g \in Handlers, g # h PROVE OpOK(g)'
  BY DEF OpInv
<1>1. pc'[g] = pc[g] /\ op'[g] = op[g] /\ seen'[g] = seen[g]
  BY DEF TInv, TypeOK
<1>2. OpOK(g)
  BY DEF TInv, OpInv
<1> QED BY <1>1, <1>2 DEF OpOK, Busy

(* Commands that begin, answer a question or write, and go on with the      *)
(* same operation.                                                         *)
LEMMA RequestType ==
  ASSUME TInv, NEW q \in Requests, NEW o \in Requested, Request(q, o)
  PROVE  TInv'
<1> USE TopicAssumptions
<1>1. q \in Handlers /\ q \notin TopicNames /\ q # Startup /\ ~Busy(q) /\ TypeOK /\ LineInv /\ OpOK(q)
  BY DEF TInv, OpInv, Handlers, Request, Busy
<1>2. PICK l \in FirstOf(o) : Arrives(q, l)
  BY DEF Request
<1>3. l \in {"exists", "add", "leave", "topics", "migrate"} /\ PartOf(l, o.kind)
  BY DEF Requested, Operation, FirstOf, PartOf
<1>4. /\ waiting' \in Seq(Handlers) /\ LineInv' /\ skewed' = Doubtful
      /\ pc' = [pc EXCEPT ![q] = l] /\ pc' \in [Handlers -> Places]
  BY <1>1, <1>2, <1>3, ArrivesLemma DEF Places
<1>5. o \in [kind : Kinds, topic : TopicNames \cup {None},
             who : Instances \cup {None}, to : Instances \cup {None}]
  BY DEF Requested, Operation, Kinds
<1>6. op' = [op EXCEPT ![q] = o] /\ UNCHANGED <<redis, pending, seen, counted>>
  BY DEF Request
<1>7. TypeOK'
  BY <1>1, <1>4, <1>5, <1>6, DoubtfulType DEF TypeOK, Places, redis
<1>8. OpOK(q)'
  <2>1. op'[q] = o /\ pc'[q] = l /\ seen'[q] = seen[q]
    BY <1>1, <1>4, <1>6 DEF TypeOK
  <2>2. seen[q] = {}
    BY <1>1 DEF OpOK, Request
  <2>3. /\ o.kind \notin {"expire", "recover"}
        /\ l \in {"exists", "add", "leave"} => o.topic \in TopicNames
        /\ o.kind \in {"join", "subscribe", "unsubscribe", "remove", "session"} => o.who \in Instances
        /\ o.kind = "session" => o.to \in Instances
    BY <1>2 DEF Requested, Operation, FirstOf
  <2> QED BY <1>1, <1>3, <2>1, <2>2, <2>3 DEF OpOK, Busy
<1>9. OpInv'
  BY <1>1, <1>3, <1>4, <1>5, <1>6, <1>8, OthersOps DEF Places, TypeOK
<1> QED BY <1>4, <1>7, <1>9 DEF TInv

(* What an answered command must show: that its own operation stays whole,  *)
(* and the types of what it writes.                                        *)
OpsType == [Handlers -> [kind : Kinds, topic : TopicNames \cup {None},
                         who : Instances \cup {None}, to : Instances \cup {None}]]
DataType ==
  /\ hash \in [TopicNames -> {"none", "expires", "kept"}]
  /\ indexed \subseteq TopicNames /\ pending \subseteq TopicNames
  /\ subscribers \in [TopicNames -> SUBSET Instances]
  /\ topicsOf \in [Instances -> SUBSET TopicNames]
  /\ counted \in [TopicNames -> SUBSET Instances]

LEMMA StepType ==
  ASSUME TInv, NEW h \in Handlers, NEW l \in Places, l # "no", Answered(h), Goto(h, l),
         DataType', op' \in OpsType,
         seen' \in [Handlers -> SUBSET (TopicNames \cup Instances)],
         \A g \in Handlers \ {h} : op'[g] = op[g] /\ seen'[g] = seen[g],
         pc'[h] = l => OpOK(h)'
  PROVE  TInv'
<1>1. /\ waiting' \in Seq(Handlers) /\ LineInv' /\ skewed' = Doubtful
      /\ pc' = [pc EXCEPT ![h] = l] /\ pc' \in [Handlers -> Places]
  BY GotoLemma DEF TInv
<1>2. OpOK(h)'
  BY <1>1 DEF TInv, TypeOK
<1>3. OpInv'
  BY <1>1, <1>2, OthersOps DEF OpsType
<1>4. TypeOK'
  BY <1>1, DoubtfulType DEF TInv, TypeOK, DataType, OpsType, Places
<1> QED BY <1>1, <1>3, <1>4 DEF TInv

(* The same where neither the operation nor what it has seen changes.       *)
LEMMA PlainType ==
  ASSUME TInv, NEW h \in Handlers, NEW l \in Places \ {"no", "unindex"}, Answered(h), Goto(h, l),
         DataType', UNCHANGED <<op, seen>>,
         PartOf(l, op[h].kind),
         l \in {"done", "rejected", "flush", "deregister"} \/ op[h].topic \in TopicNames
  PROVE  TInv'
<1>1. Busy(h) /\ OpOK(h) /\ TypeOK
  BY GotoLemma DEF TInv, OpInv
<1>2. ASSUME pc'[h] = l PROVE OpOK(h)'
  BY <1>1, <1>2 DEF OpOK, Busy
<1>3. op' \in OpsType /\ seen' \in [Handlers -> SUBSET (TopicNames \cup Instances)]
  BY <1>1 DEF TypeOK, OpsType
<1> QED BY <1>2, <1>3, StepType

LEMMA PlainSteps ==
  ASSUME TInv, NEW q \in Requests
  PROVE  /\ TopicExists(q) \/ ReadTopic(q) \/ HealIndex(q) \/ CountSubscribers(q) \/ WriteTopic(q) => TInv'
         /\ Subscribe(q) \/ SubscribeIndex(q) \/ Unsubscribe(q) \/ UnsubscribeIndex(q) => TInv'
         /\ GetSubscribers(q) \/ FlushQueue(q) \/ Deregister(q) => TInv'
<1> DEFINE o == op[q]
<1>1. q \in Handlers /\ OpOK(q) /\ TypeOK
  BY DEF Handlers, TInv, OpInv
<1>2. o \in [kind : Kinds, topic : TopicNames \cup {None}, who : Instances \cup {None}, to : Instances \cup {None}]
  BY <1>1 DEF TypeOK
<1>3. DataType
  BY <1>1 DEF TypeOK, DataType
<1>4. ASSUME TopicExists(q) PROVE TInv'
  <2>1. At(q, "exists") /\ UNCHANGED <<redis, pending, op, seen, counted>>
    BY <1>4 DEF TopicExists
  <2>2. PartOf("exists", o.kind) /\ o.topic \in TopicNames
    BY <1>1, <2>1 DEF OpOK, At, Busy
  <2>3. DataType'
    BY <1>3, <2>1 DEF DataType, redis
  <2>4. \E l \in {"read", "rejected", "add", "leave", "members"} : Goto(q, l) /\ PartOf(l, o.kind)
    BY <1>4, <2>2 DEF TopicExists, PartOf
  <2> QED BY <1>1, <2>1, <2>2, <2>3, <2>4, PlainType DEF At, Places
<1>5. ASSUME ReadTopic(q) PROVE TInv'
  <2>1. At(q, "read") /\ UNCHANGED <<redis, pending, op, seen, counted>>
    BY <1>5 DEF ReadTopic
  <2>2. PartOf("read", o.kind) /\ o.topic \in TopicNames
    BY <1>1, <2>1 DEF OpOK, At, Busy
  <2>3. DataType'
    BY <1>3, <2>1 DEF DataType, redis
  <2>4. \E l \in {"write", "heal"} : Goto(q, l) /\ PartOf(l, o.kind)
    BY <1>5, <2>2 DEF ReadTopic, PartOf
  <2> QED BY <1>1, <2>1, <2>2, <2>3, <2>4, PlainType DEF At, Places
<1>6. ASSUME HealIndex(q) \/ CountSubscribers(q) \/ WriteTopic(q) PROVE TInv'
  <2>1. (At(q, "heal") \/ At(q, "count") \/ At(q, "write")) /\ UNCHANGED <<op, seen>>
    BY <1>6 DEF HealIndex, CountSubscribers, WriteTopic
  <2>2. o.kind \in {"create", "createKept", "join"} /\ o.topic \in TopicNames
    BY <1>1, <2>1 DEF OpOK, At, Busy, PartOf
  <2>3. DataType'
    BY <1>3, <1>6, <2>2 DEF HealIndex, CountSubscribers, WriteTopic, DataType, redis, AutoExpire
  <2>4. \E l \in {"count", "add", "done"} : Goto(q, l) /\ PartOf(l, o.kind)
    BY <1>6, <2>2 DEF HealIndex, CountSubscribers, WriteTopic, Created, PartOf
  <2> QED BY <1>1, <2>1, <2>2, <2>3, <2>4, PlainType DEF At, Places
<1>7. ASSUME Subscribe(q) \/ SubscribeIndex(q) PROVE TInv'
  <2>1. (At(q, "add") \/ At(q, "addIndex")) /\ UNCHANGED <<op, seen>>
    BY <1>7 DEF Subscribe, SubscribeIndex
  <2>2. o.kind \in {"join", "subscribe"} /\ o.topic \in TopicNames /\ o.who \in Instances
    BY <1>1, <2>1 DEF OpOK, At, Busy, PartOf
  <2>3. DataType'
    BY <1>3, <1>7, <2>2 DEF Subscribe, SubscribeIndex, DataType, Joined, Indexed, Cancelled
  <2>4. \E l \in {"addIndex", "done"} : Goto(q, l) /\ PartOf(l, o.kind)
    BY <1>7, <2>2 DEF Subscribe, SubscribeIndex, PartOf
  <2> QED BY <1>1, <2>1, <2>2, <2>3, <2>4, PlainType DEF At, Places
<1>8. ASSUME Unsubscribe(q) \/ UnsubscribeIndex(q) PROVE TInv'
  <2>1. (At(q, "leave") \/ At(q, "leaveIndex")) /\ UNCHANGED <<op, seen>>
    BY <1>8 DEF Unsubscribe, UnsubscribeIndex
  <2>2. o.kind \in {"unsubscribe", "remove"} /\ o.topic \in TopicNames /\ o.who \in Instances
    BY <1>1, <2>1 DEF OpOK, At, Busy, PartOf
  <2>3. DataType'
    BY <1>3, <1>8, <2>2 DEF Unsubscribe, UnsubscribeIndex, DataType, Left, Unindexed
  <2>4. \E l \in {"leaveIndex", "left"} : Goto(q, l) /\ PartOf(l, o.kind)
    BY <1>8, <2>2 DEF Unsubscribe, UnsubscribeIndex, PartOf
  <2> QED BY <1>1, <2>1, <2>2, <2>3, <2>4, PlainType DEF At, Places
<1>9. ASSUME GetSubscribers(q) PROVE TInv'
  <2>1. At(q, "members") /\ UNCHANGED <<redis, pending, op, seen, counted>>
    BY <1>9 DEF GetSubscribers
  <2>2. o.kind = "delete" /\ o.topic \in TopicNames
    BY <1>1, <2>1 DEF OpOK, At, Busy, PartOf
  <2>3. DataType'
    BY <1>3, <2>1 DEF DataType, redis
  <2>4. \E l \in {"rejected", "delete"} : Goto(q, l) /\ PartOf(l, o.kind)
    BY <1>9, <2>2 DEF GetSubscribers, PartOf
  <2> QED BY <1>1, <2>1, <2>2, <2>3, <2>4, PlainType DEF At, Places
<1>10. ASSUME FlushQueue(q) \/ Deregister(q) PROVE TInv'
  <2>1. (At(q, "flush") \/ At(q, "deregister")) /\ UNCHANGED <<op, seen>>
    BY <1>10 DEF FlushQueue, Deregister
  <2>2. o.kind = "remove" /\ o.who \in Instances
    BY <1>1, <2>1 DEF OpOK, At, Busy, PartOf
  <2>3. DataType'
    BY <1>3, <1>10, <2>2 DEF FlushQueue, Deregister, DataType, redis
  <2>4. \E l \in {"deregister", "done"} : Goto(q, l) /\ PartOf(l, o.kind)
    BY <1>10, <2>2 DEF FlushQueue, Deregister, PartOf
  <2> QED BY <1>1, <2>1, <2>2, <2>3, <2>4, PlainType DEF At, Places
<1> QED BY <1>4, <1>5, <1>6, <1>7, <1>8, <1>9, <1>10

(* A loop over names that were read goes on with one of them or ends.       *)
LEMMA ContinueType ==
  ASSUME TInv, NEW h \in Handlers, Answered(h), pc[h] \in {"left", "expires"}, Continue(h), DataType'
  PROVE  TInv'
<1> DEFINE o == op[h]
<1>1. /\ OpOK(h) /\ TypeOK /\ Busy(h)
      /\ o.kind \in {"unsubscribe", "remove", "recover"} /\ o.topic \in TopicNames
      /\ o.kind \in {"unsubscribe", "remove"} => o.who \in Instances
      /\ o.kind \in {"remove", "recover"} => seen[h] \subseteq TopicNames
  BY DEF TInv, OpInv, OpOK, Busy, PartOf
<1>2. CASE UNCHANGED <<op, seen>>
  <2>1. \E l \in {"done", "flush"} : Goto(h, l) /\ PartOf(l, o.kind)
    <3>1. CASE o.kind = "unsubscribe" BY <1>2, <3>1 DEF Continue, PartOf
    <3>2. CASE o.kind \in {"remove", "recover"}
      <4>1. \A t \in seen[h] : op' # [op EXCEPT ![h].topic = t] \/ seen' # [seen EXCEPT ![h] = @ \ {t}]
        BY <1>1, <1>2 DEF TypeOK
      <4> QED BY <1>2, <3>2, <4>1 DEF Continue, NextName, PartOf
    <3> QED BY <1>1, <3>1, <3>2
  <2> QED BY <1>1, <1>2, <2>1, PlainType DEF Places
<1>3. CASE ~UNCHANGED <<op, seen>>
  <2>1. PICK t \in seen[h], l \in {"leave", "left"} :
           /\ op' = [op EXCEPT ![h].topic = t] /\ seen' = [seen EXCEPT ![h] = @ \ {t}] /\ Goto(h, l)
           /\ o.kind = IF l = "leave" THEN "remove" ELSE "recover"
    BY <1>1, <1>3 DEF Continue, NextName
  <2>2. t \in TopicNames
    BY <1>1, <2>1
  <2>3. /\ op' \in OpsType /\ seen' \in [Handlers -> SUBSET (TopicNames \cup Instances)]
        /\ \A g \in Handlers \ {h} : op'[g] = op[g] /\ seen'[g] = seen[g]
        /\ op'[h] = [o EXCEPT !.topic = t] /\ seen'[h] = seen[h] \ {t}
    BY <1>1, <2>1, <2>2 DEF TypeOK, OpsType
  <2>4. /\ op'[h].kind = o.kind /\ op'[h].who = o.who /\ op'[h].topic = t /\ op'[h].to = o.to
    BY <1>1, <2>3 DEF TypeOK
  <2>5. ASSUME pc'[h] = l PROVE OpOK(h)'
    BY <1>1, <2>1, <2>2, <2>3, <2>4, <2>5 DEF OpOK, Busy, PartOf
  <2> QED BY <2>1, <2>3, <2>5, StepType DEF Places
<1> QED BY <1>2, <1>3

LEMMA HandlerSteps ==
  ASSUME TInv, NEW h \in Handlers
  PROVE  CountLeft(h) \/ ScheduleDeletion(h) \/ ReadMembers(h) \/ UnindexMembers(h) \/ DropTopic(h) => TInv'
<1> DEFINE o == op[h]
<1>1. OpOK(h) /\ TypeOK /\ DataType
  BY DEF TInv, OpInv, TypeOK, DataType
<1>2. ASSUME CountLeft(h) PROVE TInv'
  <2>1. At(h, "left") /\ UNCHANGED <<redis, pending, counted>>
    BY <1>2 DEF CountLeft
  <2>2. o.topic \in TopicNames /\ o.kind \in {"unsubscribe", "remove", "recover"}
    BY <1>1, <2>1 DEF OpOK, At, Busy, PartOf
  <2>3. DataType'
    BY <1>1, <2>1 DEF DataType, redis
  <2>4. CASE Goto(h, "expires") /\ UNCHANGED <<op, seen>>
    BY <2>1, <2>2, <2>3, <2>4, PlainType DEF At, Places, PartOf
  <2>5. CASE Continue(h)
    BY <2>1, <2>3, <2>5, ContinueType DEF At
  <2> QED BY <1>2, <2>4, <2>5 DEF CountLeft
<1>3. ASSUME ScheduleDeletion(h) PROVE TInv'
  <2>1. At(h, "expires") /\ UNCHANGED <<redis, counted>> /\ Continue(h)
    BY <1>3 DEF ScheduleDeletion
  <2>2. o.topic \in TopicNames
    BY <1>1, <2>1 DEF OpOK, At, Busy
  <2>3. DataType'
    BY <1>1, <1>3, <2>1, <2>2 DEF DataType, redis, ScheduleDeletion, Scheduled
  <2> QED BY <2>1, <2>3, ContinueType DEF At
<1>4. ASSUME ReadMembers(h) PROVE TInv'
  <2>1. /\ At(h, "delete") /\ UNCHANGED <<redis, pending, op, counted>>
        /\ seen' = [seen EXCEPT ![h] = subscribers[o.topic]]
    BY <1>4 DEF ReadMembers
  <2>2. o.topic \in TopicNames /\ o.kind \in {"delete", "expire"}
    BY <1>1, <2>1 DEF OpOK, At, Busy, PartOf
  <2>3. DataType' /\ subscribers[o.topic] \subseteq Instances
    BY <1>1, <2>1, <2>2 DEF DataType, redis
  <2>4. PICK l \in {"drop", "unindex"} : Goto(h, l)
    BY <1>4 DEF ReadMembers
  <2>5. ASSUME pc'[h] = l PROVE OpOK(h)'
    BY <1>1, <2>1, <2>2, <2>3, <2>4, <2>5 DEF OpOK, Busy, PartOf, At, TypeOK
  <2> QED BY <1>1, <2>1, <2>3, <2>4, <2>5, StepType DEF At, Places, TypeOK, OpsType
<1>5. ASSUME UnindexMembers(h) PROVE TInv'
  <2>1. /\ At(h, "unindex") /\ UNCHANGED <<hash, indexed, subscribers, pending, op, counted>>
        /\ seen' = [seen EXCEPT ![h] = {}] /\ Goto(h, "drop")
    BY <1>5 DEF UnindexMembers
  <2>2. o.topic \in TopicNames /\ o.kind \in {"delete", "expire"}
    BY <1>1, <2>1 DEF OpOK, At, Busy, PartOf
  <2>3. DataType'
    BY <1>1, <1>5, <2>1 DEF DataType, UnindexMembers
  <2>5. ASSUME pc'[h] = "drop" PROVE OpOK(h)'
    BY <1>1, <2>1, <2>2, <2>5 DEF OpOK, Busy, PartOf, At, TypeOK
  <2> QED BY <1>1, <2>1, <2>3, <2>5, StepType DEF At, Places, TypeOK, OpsType
<1>6. ASSUME DropTopic(h) PROVE TInv'
  <2>1. At(h, "drop") /\ Goto(h, "done") /\ UNCHANGED <<topicsOf, pending, op, seen, counted>>
    BY <1>6 DEF DropTopic
  <2>2. o.topic \in TopicNames
    BY <1>1, <2>1 DEF OpOK, At, Busy
  <2>3. DataType'
    BY <1>1, <1>6, <2>1, <2>2 DEF DataType, DropTopic
  <2> QED BY <2>1, <2>2, <2>3, PlainType DEF At, Places, PartOf
<1> QED BY <1>2, <1>3, <1>4, <1>5, <1>6

LEMMA TimerSteps ==
  ASSUME TInv, NEW t \in TopicNames, TimerFires(t) \/ TimerCount(t) \/ TimerReadsHash(t)
  PROVE  TInv'
<1>1. t \in Handlers /\ OpOK(t) /\ TypeOK /\ DataType /\ op[t].kind = "expire" /\ op[t].topic = t
  BY DEF Handlers, TInv, OpInv, OpOK, TypeOK, DataType
<1>2. CASE TimerFires(t)
  <2>1. /\ ~Busy(t) /\ Arrives(t, "timer") /\ UNCHANGED <<redis, op, seen, counted>>
        /\ pending' = pending \ {t}
    BY <1>2 DEF TimerFires, Busy
  <2>2. /\ waiting' \in Seq(Handlers) /\ LineInv' /\ skewed' = Doubtful
        /\ pc' = [pc EXCEPT ![t] = "timer"] /\ pc' \in [Handlers -> Places]
    BY <1>1, <2>1, ArrivesLemma DEF Places, TInv
  <2>3. TypeOK'
    BY <1>1, <2>1, <2>2, DoubtfulType DEF TypeOK, redis, Places
  <2>4. OpOK(t)'
    BY <1>1, <2>1, <2>2 DEF OpOK, TypeOK, Busy, PartOf
  <2>5. OpInv'
    BY <1>1, <2>1, <2>2, <2>4, OthersOps DEF TypeOK, Places
  <2> QED BY <2>2, <2>3, <2>5 DEF TInv
<1>3. CASE TimerCount(t) \/ TimerReadsHash(t)
  <2>1. /\ At(t, "timer") \/ At(t, "timerHash")
        /\ UNCHANGED <<redis, pending, op, seen>>
    BY <1>3 DEF TimerCount, TimerReadsHash
  <2>2. DataType'
    BY <1>1, <1>3, <2>1 DEF DataType, redis, TimerCount, TimerReadsHash
  <2>3. \E l \in {"done", "timerHash", "delete"} : Goto(t, l)
    BY <1>3 DEF TimerCount, TimerReadsHash
  <2> QED BY <1>1, <2>1, <2>2, <2>3, PlainType DEF At, Places, PartOf
<1> QED BY <1>2, <1>3

LEMMA RecoverySteps ==
  ASSUME TInv, RecoverEmptyTopics \/ RecoverNames
  PROVE  TInv'
<1> DEFINE h == Startup
<1>1. h \in Handlers /\ OpOK(h) /\ TypeOK /\ DataType /\ op[h].kind = "recover"
  BY DEF Handlers, TInv, OpInv, OpOK, TypeOK, DataType
<1>2. CASE RecoverEmptyTopics
  <2>1. ~Busy(h) /\ Arrives(h, "names") /\ UNCHANGED <<redis, pending, op, seen, counted>>
    BY <1>2 DEF RecoverEmptyTopics, Busy
  <2>2. /\ waiting' \in Seq(Handlers) /\ LineInv' /\ skewed' = Doubtful
        /\ pc' = [pc EXCEPT ![h] = "names"] /\ pc' \in [Handlers -> Places]
    BY <1>1, <2>1, ArrivesLemma DEF Places, TInv
  <2>3. TypeOK'
    BY <1>1, <2>1, <2>2, DoubtfulType DEF TypeOK, redis, Places
  <2>4. OpOK(h)'
    BY <1>1, <2>1, <2>2 DEF OpOK, TypeOK, Busy, PartOf
  <2>5. OpInv'
    BY <1>1, <2>1, <2>2, <2>4, OthersOps DEF TypeOK, Places
  <2> QED BY <2>2, <2>3, <2>5 DEF TInv
<1>3. CASE RecoverNames
  <2>1. At(h, "names") /\ UNCHANGED <<redis, pending, counted>>
    BY <1>3 DEF RecoverNames
  <2>2. DataType'
    BY <1>1, <2>1 DEF DataType, redis
  <2>3. CASE Goto(h, "done") /\ UNCHANGED <<op, seen>>
    BY <1>1, <2>1, <2>2, <2>3, PlainType DEF At, Places, PartOf
  <2>4. CASE \E t \in indexed : /\ op' = [op EXCEPT ![h].topic = t]
                               /\ seen' = [seen EXCEPT ![h] = indexed \ {t}]
                               /\ Goto(h, "left")
    <3>1. PICK t \in indexed : /\ op' = [op EXCEPT ![h].topic = t]
                               /\ seen' = [seen EXCEPT ![h] = indexed \ {t}]
                               /\ Goto(h, "left")
      BY <2>4
    <3>2. t \in TopicNames /\ indexed \subseteq TopicNames
      BY <1>1, <3>1 DEF TypeOK
    <3>3. /\ op' \in OpsType /\ seen' \in [Handlers -> SUBSET (TopicNames \cup Instances)]
          /\ \A g \in Handlers \ {h} : op'[g] = op[g] /\ seen'[g] = seen[g]
          /\ op'[h].kind = "recover" /\ op'[h].topic = t /\ seen'[h] \subseteq TopicNames
      BY <1>1, <3>1, <3>2 DEF TypeOK, OpsType
    <3>4. ASSUME pc'[h] = "left" PROVE OpOK(h)'
      BY <1>1, <3>2, <3>3, <3>4 DEF OpOK, Busy, PartOf
    <3> QED BY <1>1, <2>1, <2>2, <3>1, <3>3, <3>4, StepType DEF At, Places
  <2> QED BY <1>3, <2>3, <2>4 DEF RecoverNames
<1> QED BY <1>2, <1>3

LEMMA RemovalSteps ==
  ASSUME TInv, NEW q \in Requests, RemovedTopics(q)
  PROVE  TInv'
<1> DEFINE o == op[q]
<1>1. /\ q \in Handlers /\ OpOK(q) /\ TypeOK /\ DataType
      /\ At(q, "topics") /\ UNCHANGED <<redis, pending, counted>>
  BY DEF Handlers, TInv, OpInv, TypeOK, DataType, RemovedTopics
<1>2. o.kind = "remove" /\ o.who \in Instances /\ topicsOf[o.who] \subseteq TopicNames
  BY <1>1 DEF OpOK, At, Busy, PartOf, TypeOK
<1>3. DataType'
  BY <1>1 DEF DataType, redis
<1>4. CASE Goto(q, "flush") /\ UNCHANGED <<op, seen>>
  BY <1>1, <1>2, <1>3, <1>4, PlainType DEF At, Places, PartOf
<1>5. CASE \E t \in topicsOf[o.who] : /\ op' = [op EXCEPT ![q].topic = t]
                                      /\ seen' = [seen EXCEPT ![q] = topicsOf[o.who] \ {t}]
                                      /\ Goto(q, "leave")
  <2>1. PICK t \in topicsOf[o.who] : /\ op' = [op EXCEPT ![q].topic = t]
                                     /\ seen' = [seen EXCEPT ![q] = topicsOf[o.who] \ {t}]
                                     /\ Goto(q, "leave")
    BY <1>5
  <2>2. t \in TopicNames
    BY <1>2, <2>1
  <2>3. /\ op' \in OpsType /\ seen' \in [Handlers -> SUBSET (TopicNames \cup Instances)]
        /\ \A g \in Handlers \ {q} : op'[g] = op[g] /\ seen'[g] = seen[g]
        /\ op'[q].kind = o.kind /\ op'[q].topic = t /\ op'[q].who = o.who
        /\ seen'[q] \subseteq TopicNames
    BY <1>1, <1>2, <2>1, <2>2 DEF TypeOK, OpsType
  <2>4. ASSUME pc'[q] = "leave" PROVE OpOK(q)'
    BY <1>1, <1>2, <2>2, <2>3, <2>4 DEF OpOK, Busy, PartOf
  <2> QED BY <1>1, <1>3, <2>1, <2>3, <2>4, StepType DEF At, Places
<1> QED BY <1>4, <1>5 DEF RemovedTopics

LEMMA MigrationSteps ==
  ASSUME TInv, NEW q \in Requests, MigrateRead(q) \/ MigrateSwap(q)
  PROVE  TInv'
<1> USE TopicAssumptions
<1> DEFINE o == op[q]
<1>1. /\ q \in Handlers /\ q # Startup /\ q \notin TopicNames /\ OpOK(q) /\ TypeOK /\ DataType
      /\ At(q, "migrate") \/ At(q, "swap")
  BY DEF Handlers, TInv, OpInv, TypeOK, DataType, MigrateRead, MigrateSwap
<1>2. /\ o.kind = "session" /\ o.who \in Instances /\ o.to \in Instances
      /\ seen[q] \subseteq TopicNames /\ topicsOf[o.who] \subseteq TopicNames
  BY <1>1 DEF OpOK, At, Busy, PartOf, TypeOK
<1>3. DataType'
  <2>1. CASE MigrateRead(q)
    BY <1>1, <2>1 DEF DataType, MigrateRead, redis
  <2>2. CASE MigrateSwap(q)
    BY <1>1, <1>2, <2>2 DEF DataType, MigrateSwap, Swapped
  <2> QED BY <2>1, <2>2
<1>4. ASSUME Rejoin(q), Goto(q, "exists"), seen' = seen \/ seen' = [seen EXCEPT ![q] = {}]
      PROVE  TInv'
  <2>1. /\ op' \in OpsType /\ seen' \in [Handlers -> SUBSET (TopicNames \cup Instances)]
        /\ \A g \in Handlers \ {q} : op'[g] = op[g] /\ seen'[g] = seen[g]
        /\ op'[q] = Operation("join", ProjectTopic, o.to, None)
    BY <1>1, <1>2, <1>4 DEF TypeOK, OpsType, Rejoin, Operation, Kinds
  <2>2. ASSUME pc'[q] = "exists" PROVE OpOK(q)'
    BY <1>1, <1>2, <2>1, <2>2 DEF OpOK, Busy, PartOf, Operation
  <2> QED BY <1>1, <1>3, <1>4, <2>1, <2>2, StepType DEF At, Places
<1>5. ASSUME MigrateRead(q), Goto(q, "swap"), seen' = [seen EXCEPT ![q] = topicsOf[o.who]], op' = op
      PROVE  TInv'
  <2>1. seen' \in [Handlers -> SUBSET (TopicNames \cup Instances)] /\ op' \in OpsType
    BY <1>1, <1>2, <1>5 DEF TypeOK, OpsType
  <2>2. ASSUME pc'[q] = "swap" PROVE OpOK(q)'
    BY <1>1, <1>2, <1>5, <2>2 DEF OpOK, Busy, PartOf, TypeOK
  <2> QED BY <1>1, <1>3, <1>5, <2>1, <2>2, StepType DEF At, Places, TypeOK
<1> QED BY <1>4, <1>5 DEF MigrateRead, MigrateSwap

(* Types, the line and the operations are kept by every step.               *)
LEMMA NextType == TInv /\ [Next]_vars => TInv'
<1>1. ASSUME TInv, Next PROVE TInv'
  BY <1>1, RequestType, TimerSteps, RecoverySteps, PlainSteps, HandlerSteps, RemovalSteps, MigrationSteps
     DEF Next, Answer
<1>2. ASSUME TInv, UNCHANGED vars PROVE TInv'
  BY <1>2 DEF vars, redis, history, TInv, TypeOK, LineInv, Busy, OpInv, OpOK
<1> QED BY <1>1, <1>2

LEMMA TypeInvariant == Spec => []TInv
BY InitType, NextType, PTL DEF Spec

(* Every variable keeps to its values.                                      *)
THEOREM TypeSafety == Spec => []TypeOK
BY TypeInvariant, PTL DEF TInv

(* What an operation is when its handler awaits a command.                  *)
LEMMA OpFacts ==
  ASSUME TInv, NEW h \in Handlers
  PROVE  LET k == op[h].kind
             l == pc[h]
         IN  /\ l = "exists" => k \in {"create", "createKept", "join", "subscribe", "unsubscribe", "delete"}
             /\ l \in {"read", "heal", "count", "write"} => k \in {"create", "createKept", "join"}
             /\ l \in {"add", "addIndex"} => k \in {"join", "subscribe"} /\ op[h].who \in Instances
             /\ l \in {"leave", "leaveIndex"} => k \in {"unsubscribe", "remove"} /\ op[h].who \in Instances
             /\ l \in {"left", "expires"} => k \in {"unsubscribe", "remove", "recover"}
             /\ l \in {"members", "delete", "unindex", "drop"} => k \in {"delete", "expire"}
             /\ l \in {"topics", "flush", "deregister"} => k = "remove" /\ op[h].who \in Instances
             /\ l \in {"migrate", "swap"} =>
                  k = "session" /\ op[h].who \in Instances /\ op[h].to \in Instances
             /\ l \in {"exists", "read", "heal", "count", "write", "add", "addIndex", "leave", "leaveIndex", "left",
                        "expires", "timer", "timerHash", "members", "delete", "unindex", "drop"} =>
                  op[h].topic \in TopicNames
             /\ k \in {"remove", "session"} /\ l \notin {"no", "done", "rejected"} => op[h].who \in Instances
             /\ k = "remove" => seen[h] \subseteq TopicNames
<1>1. OpOK(h)
  BY DEF TInv, OpInv
<1> QED BY <1>1 DEF OpOK, PartOf, Busy

-----------------------------------------------------------------------------
(* What the timers delete.                                                 *)
LEMMA InitSpare == Init => SpareInv
BY TopicAssumptions DEF Init, SpareInv, Handlers

LEMMA NextSpare == TInv /\ SpareInv /\ [Next]_vars => SpareInv'
<1> SUFFICES ASSUME TInv, SpareInv, [Next]_vars, NEW t \in TopicNames,
                    pc'[t] \in {"timerHash", "delete", "unindex", "drop"}
             PROVE  subscribers'[t] \subseteq counted'[t]
  BY DEF SpareInv
<1> USE TopicAssumptions
<1>1. t \in Handlers /\ t \notin Requests /\ t # Startup /\ TypeOK /\ OpOK(t) /\ op[t].kind = "expire"
  BY DEF TInv, OpInv, OpOK, Handlers
<1>2. pc[t] \in {"timerHash", "delete", "unindex", "drop"} => subscribers[t] \subseteq counted[t]
  BY DEF SpareInv
<1>3. pc \in [Handlers -> Places] /\ DataType
  BY <1>1 DEF TypeOK, Places, DataType
<1>4. ASSUME UNCHANGED vars PROVE subscribers'[t] \subseteq counted'[t]
  BY <1>2, <1>4 DEF vars, redis, history
<1>6. ASSUME NEW h \in Handlers, h # t, NEW l, Goto(h, l) \/ Arrives(h, l) PROVE pc'[t] = pc[t]
  BY <1>1, <1>3, <1>6 DEF Goto, Arrives
<1>7. ASSUME NEW q \in Requests, NEW o \in Requested, Request(q, o) PROVE subscribers'[t] \subseteq counted'[t]
  BY <1>1, <1>2, <1>6, <1>7 DEF Request, redis, Handlers
<1>8. ASSUME NEW u \in TopicNames, TimerFires(u) \/ TimerReadsHash(u)
      PROVE  subscribers'[t] \subseteq counted'[t]
  <2>1. UNCHANGED <<subscribers, counted>>
    BY <1>8 DEF TimerFires, TimerReadsHash, redis
  <2>2. pc[t] \in {"timerHash", "delete", "unindex", "drop"}
    BY <1>1, <1>3, <1>8 DEF TimerFires, TimerReadsHash, At, Goto, Arrives, Handlers
  <2> QED BY <1>2, <2>1, <2>2
<1>9. ASSUME NEW u \in TopicNames, TimerCount(u) PROVE subscribers'[t] \subseteq counted'[t]
  <2>1. CASE u = t
    BY <1>1, <1>3, <1>9, <2>1 DEF TimerCount, At, Goto, Handlers, TimerStops, redis, DataType
  <2>2. CASE u # t
    BY <1>1, <1>2, <1>3, <1>9, <2>2 DEF TimerCount, Goto, Handlers, redis, DataType
  <2> QED BY <2>1, <2>2
<1>10. ASSUME NEW q \in Requests,
              \/ TopicExists(q) \/ ReadTopic(q) \/ HealIndex(q) \/ CountSubscribers(q) \/ WriteTopic(q)
              \/ SubscribeIndex(q) \/ UnsubscribeIndex(q)
              \/ GetSubscribers(q) \/ RemovedTopics(q) \/ FlushQueue(q) \/ Deregister(q) \/ MigrateRead(q)
       PROVE subscribers'[t] \subseteq counted'[t]
  <2>1. pc[q] = "exists" =>
          op[q].kind \in {"create", "createKept", "join", "subscribe", "unsubscribe", "delete"}
    BY OpFacts DEF Handlers
  <2>2. UNCHANGED <<subscribers, counted>> /\ \E l : Goto(q, l)
    BY <1>10, <2>1 DEF At, TopicExists, ReadTopic, HealIndex, CountSubscribers, WriteTopic, SubscribeIndex,
                 UnsubscribeIndex, GetSubscribers, RemovedTopics, FlushQueue, Deregister, MigrateRead, redis, Created
  <2> QED BY <1>1, <1>2, <1>6, <2>2 DEF Handlers
<1>11. ASSUME NEW q \in Requests, Subscribe(q) \/ Unsubscribe(q) PROVE subscribers'[t] \subseteq counted'[t]
  <2>1. q \in Handlers /\ q # t /\ OpOK(q)
    BY <1>1 DEF Handlers, TInv, OpInv
  <2>2. op[q].topic \in TopicNames /\ pc'[t] = pc[t]
    BY <1>6, <1>11, <2>1 DEF Subscribe, Unsubscribe, At, OpOK, Busy
  <2> QED BY <1>2, <1>3, <1>11, <2>2 DEF Subscribe, Unsubscribe, Joined, Left, DataType
<1>12. ASSUME NEW q \in Requests, MigrateSwap(q) PROVE subscribers'[t] \subseteq counted'[t]
  <2>1. q \in Handlers /\ q # t /\ pc'[t] = pc[t]
    BY <1>1, <1>6, <1>12 DEF Handlers, MigrateSwap
  <2> QED BY <1>2, <1>12, <2>1 DEF MigrateSwap, Swapped
<1>13. ASSUME NEW h \in Handlers, CountLeft(h) \/ ScheduleDeletion(h) PROVE subscribers'[t] \subseteq counted'[t]
  <2>1. h # t /\ op[h].kind \in {"unsubscribe", "remove", "recover"}
    BY <1>1, <1>13, OpFacts DEF At, CountLeft, ScheduleDeletion
  <2>2. UNCHANGED <<subscribers, counted>> /\ \E l : Goto(h, l)
    BY <1>13, <2>1 DEF CountLeft, ScheduleDeletion, Continue, NextName, redis
  <2> QED BY <1>2, <1>6, <2>1, <2>2
<1>14. ASSUME NEW h \in Handlers, ReadMembers(h) \/ UnindexMembers(h) PROVE subscribers'[t] \subseteq counted'[t]
  <2>1. UNCHANGED <<subscribers, counted>>
    BY <1>14 DEF ReadMembers, UnindexMembers, redis
  <2>2. pc[t] \in {"timerHash", "delete", "unindex", "drop"}
    BY <1>1, <1>3, <1>6, <1>14 DEF ReadMembers, UnindexMembers, At, Goto
  <2> QED BY <1>2, <2>1, <2>2
<1>15. ASSUME NEW h \in Handlers, DropTopic(h) PROVE subscribers'[t] \subseteq counted'[t]
  <2>1. h # t /\ pc'[t] = pc[t]
    BY <1>1, <1>3, <1>6, <1>15 DEF DropTopic, At, Goto
  <2>2. op[h].topic \in TopicNames
    BY <1>15 DEF TInv, OpInv, OpOK, Busy, DropTopic, At
  <2>3. subscribers'[t] \subseteq subscribers[t] /\ counted' = counted
    BY <1>3, <1>15, <2>2 DEF DropTopic, DataType
  <2> QED BY <1>2, <2>1, <2>3
<1>16. ASSUME RecoverEmptyTopics \/ RecoverNames PROVE subscribers'[t] \subseteq counted'[t]
  <2>1. UNCHANGED <<subscribers, counted>> /\ \E l : Goto(Startup, l) \/ Arrives(Startup, l)
    BY <1>16 DEF RecoverEmptyTopics, RecoverNames, redis
  <2> QED BY <1>1, <1>2, <1>6, <2>1 DEF Handlers
<1> QED BY <1>4, <1>7, <1>8, <1>9, <1>10, <1>11, <1>12, <1>13, <1>14, <1>15, <1>16 DEF Next, Answer

(* A timer's handler that deletes its topic deletes only subscriptions made *)
(* since it counted none.                                                  *)
THEOREM SparesSafety == Spec => TimerSparesSubscribers
<1>1. SpareInv /\ [Next]_vars
      => [\A t \in TopicNames : pc[t] = "drop" /\ pc'[t] = "done" => subscribers[t] \subseteq counted[t]]_vars
  BY DEF SpareInv
<1> QED BY <1>1, InitSpare, NextSpare, TypeInvariant, PTL DEF Spec, TimerSparesSubscribers

-----------------------------------------------------------------------------
(* What two operations did to a pair at once stays in doubt; about a pair   *)
(* that is not, operations that change it at once take one step at a time. *)
LEMMA AboutLemma ==
  ASSUME TInv, NEW h \in Handlers, NEW t \in TopicNames, NEW i \in Instances
  PROVE  <<t, i>> \in Changing(h) <=> About(h, t, i)
<1>1. OpOK(h) /\ TypeOK
  BY DEF TInv, OpInv
<1>2. op[h].kind = "remove" => pc[h] \notin {"addIndex", "unindex", "drop", "swap"}
  BY OpFacts
<1>3. CASE pc[h] \in {"addIndex", "leaveIndex"} /\ op[h].kind # "remove"
  BY <1>3 DEF Changing, About
<1>4. CASE pc[h] \in {"unindex", "drop"}
  BY <1>2, <1>4 DEF Changing, About
<1>5. CASE pc[h] = "swap"
  BY <1>2, <1>5 DEF Changing, About
<1>6. CASE op[h].kind = "remove" /\ pc[h] \notin {"topics", "done"}
  BY <1>2, <1>6 DEF Changing, About
<1>7. CASE /\ ~(pc[h] \in {"addIndex", "leaveIndex"} /\ op[h].kind # "remove")
           /\ pc[h] \notin {"unindex", "drop", "swap"}
           /\ ~(op[h].kind = "remove" /\ pc[h] \notin {"topics", "done"})
  BY <1>7 DEF Changing, About
<1> QED BY <1>3, <1>4, <1>5, <1>6, <1>7

DoubtFacts ==
  \A t \in TopicNames, i \in Instances : <<t, i>> \notin Doubtful =>
    /\ <<t, i>> \notin skewed
    /\ \A g, h \in Handlers : g # h /\ About(g, t, i) /\ About(h, t, i) =>
         OneStepAtATime(g) /\ OneStepAtATime(h)
    /\ \A h \in Handlers : pc[h] = "swap" /\ i \in {op[h].who, op[h].to} => op[h].who # op[h].to
    /\ \A h \in Handlers : pc[h] = "swap" /\ op[h].to = i => <<t, op[h].who>> \notin Doubtful

LEMMA DoubtLemma == TInv => DoubtFacts
<1> SUFFICES ASSUME TInv, NEW t \in TopicNames, NEW i \in Instances, <<t, i>> \notin Doubtful
             PROVE  /\ <<t, i>> \notin skewed
                    /\ \A g, h \in Handlers : g # h /\ About(g, t, i) /\ About(h, t, i) =>
                         OneStepAtATime(g) /\ OneStepAtATime(h)
                    /\ \A h \in Handlers : pc[h] = "swap" /\ i \in {op[h].who, op[h].to} =>
                         op[h].who # op[h].to
                    /\ \A h \in Handlers : pc[h] = "swap" /\ op[h].to = i =>
                         <<t, op[h].who>> \notin Doubtful
  BY DEF DoubtFacts
<1>1. <<t, i>> \notin skewed /\ <<t, i>> \notin Overlapping
  BY DEF Doubtful
<1>2. ASSUME NEW j \in Instances, <<t, j>> \notin Overlapping, NEW g \in Handlers, NEW h \in Handlers,
             About(g, t, j), About(h, t, j)
      PROVE  /\ g # h => OneStepAtATime(g) /\ OneStepAtATime(h)
             /\ g = h /\ pc[h] = "swap" => op[h].who # op[h].to
  <2>1. <<t, j>> \in Changing(g) \cap Changing(h)
    BY <1>2, AboutLemma
  <2> QED BY <1>2, <2>1 DEF Overlapping
<1>3. \A h \in Handlers : pc[h] = "swap" /\ i \in {op[h].who, op[h].to} => op[h].who # op[h].to
  BY <1>1, <1>2 DEF About
<1>4. ASSUME NEW h \in Handlers, pc[h] = "swap", op[h].to = i PROVE <<t, op[h].who>> \notin Doubtful
  <2> DEFINE j == op[h].who
  <2>1. j \in Instances /\ op[h].kind = "session"
    BY <1>4, OpFacts
  <2>2. <<t, j>> \notin skewed /\ <<t, j>> \notin Overlapping
    BY <1>4, <2>1 DEF Doubtful
  <2>3. ASSUME NEW g \in Handlers, pc[g] = "swap", op[g].to = j PROVE FALSE
    <3>1. About(g, t, j) /\ About(h, t, j)
      BY <1>4, <2>3 DEF About
    <3>2. g = h
      BY <1>2, <2>1, <2>2, <3>1 DEF OneStepAtATime
    <3> QED BY <1>2, <1>4, <2>1, <2>2, <2>3, <3>1, <3>2
  <2> QED BY <2>1, <2>2, <2>3 DEF Doubtful
<1> QED BY <1>1, <1>2, <1>3, <1>4

(* A step is that of one handler: what the others do and their order in     *)
(* the line stay, and doubt stays.                                         *)
StepOf(h) ==
  /\ \A g \in Handlers \ {h} : pc'[g] = pc[g] /\ op'[g] = op[g] /\ seen'[g] = seen[g]
  /\ \A f, g \in Handlers \ {h} : Precedes(waiting, f, g)' <=> Precedes(waiting, f, g)
  /\ Doubtful \subseteq Doubtful'
HeadStepOf(h) ==
  /\ StepOf(h)
  /\ \A g \in Handlers \ {h} : /\ ~Precedes(waiting, h, g)'
                               /\ Busy(g) => Precedes(waiting, h, g)

LEMMA DoubtStays == skewed' = Doubtful => Doubtful \subseteq Doubtful'
BY DEF Doubtful

LEMMA BusyAbout ==
  ASSUME TInv, NEW h \in Handlers, NEW t, NEW i, About(h, t, i)
  PROVE  Busy(h)
<1>1. OpOK(h)
  BY DEF TInv, OpInv
<1>2. op[h].kind = "remove" => pc[h] \notin {"no", "rejected"}
  BY <1>1 DEF OpOK, PartOf, Handlers
<1> QED BY <1>2 DEF About, Busy

(* Whoever else is half done with a pair is as before.                     *)
LEMMA OthersAbout ==
  ASSUME NEW h \in Handlers, StepOf(h), NEW g \in Handlers \ {h}, NEW t, NEW i
  PROVE  /\ About(g, t, i)' <=> About(g, t, i)
         /\ (/\ In(t, i)' <=> In(t, i)
             /\ Of(t, i)' <=> Of(t, i)
             /\ LastAbout(g, t, i)' => LastAbout(g, t, i)
             /\ HalfDone(g, t, i))
            => HalfDone(g, t, i)'
<1>1. pc'[g] = pc[g] /\ op'[g] = op[g] /\ seen'[g] = seen[g]
  BY DEF StepOf
<1>2. About(g, t, i)' <=> About(g, t, i)
  BY <1>1 DEF About
<1>3. ASSUME In(t, i)' <=> In(t, i), Of(t, i)' <=> Of(t, i), LastAbout(g, t, i)' => LastAbout(g, t, i),
             HalfDone(g, t, i)
      PROVE  HalfDone(g, t, i)'
  <2> DEFINE a == In(t, i)
             b == Of(t, i)
             c == LastAbout(g, t, i)
  <2>1. (a' <=> a) /\ (b' <=> b) /\ (c' => c)
    BY <1>3
  <2> HIDE DEF a, b, c
  <2>2. /\ pc[g] = "addIndex" /\ c => a
        /\ pc[g] = "leaveIndex" /\ op[g].kind # "remove" /\ c => ~a
        /\ pc[g] = "unindex" => (a <=> b) /\ (a <=> i \in seen[g])
        /\ pc[g] = "drop" => ~b
        /\ pc[g] = "swap" => (a <=> b) /\ (i = op[g].who => (a <=> t \in seen[g]))
        /\ op[g].kind = "remove" =>
             IF pc[g] = "leaveIndex" /\ t = op[g].topic THEN ~a
             ELSE IF \/ pc[g] = "leave" /\ t = op[g].topic
                     \/ pc[g] \notin {"flush", "deregister"} /\ t \in seen[g] THEN a <=> b
             ELSE ~a /\ ~b
    BY <1>3 DEF HalfDone, a, b, c
  <2> USE DEF HalfDone
  <2>3. /\ pc'[g] = "addIndex" /\ c' => a'
        /\ pc'[g] = "leaveIndex" /\ op'[g].kind # "remove" /\ c' => ~a'
        /\ pc'[g] = "unindex" => (a' <=> b') /\ (a' <=> i \in seen'[g])
        /\ pc'[g] = "drop" => ~b'
        /\ pc'[g] = "swap" => (a' <=> b') /\ (i = op'[g].who => (a' <=> t \in seen'[g]))
        /\ op'[g].kind = "remove" =>
             IF pc'[g] = "leaveIndex" /\ t = op'[g].topic THEN ~a'
             ELSE IF \/ pc'[g] = "leave" /\ t = op'[g].topic
                     \/ pc'[g] \notin {"flush", "deregister"} /\ t \in seen'[g] THEN a' <=> b'
             ELSE ~a' /\ ~b'
    BY <1>1, <2>1, <2>2
  <2> QED BY <2>3 DEF HalfDone, a, b, c
<1> QED BY <1>2, <1>3

(* A step that has nothing to do with a pair keeps it.                      *)
LEMMA Untouched ==
  ASSUME NEW h \in Handlers, StepOf(h), NEW t, NEW i,
         PairOK(t, i), ~About(h, t, i), ~About(h, t, i)',
         In(t, i)' <=> In(t, i), Of(t, i)' <=> Of(t, i)
  PROVE  PairOK(t, i)'
<1> SUFFICES ASSUME <<t, i>> \notin Doubtful'
             PROVE  /\ (\A g \in Handlers : ~About(g, t, i)') => (In(t, i)' <=> Of(t, i)')
                    /\ \A g \in Handlers : About(g, t, i)' => HalfDone(g, t, i)'
  BY DEF PairOK
<1>1. /\ (\A g \in Handlers : ~About(g, t, i)) => (In(t, i) <=> Of(t, i))
      /\ \A g \in Handlers : About(g, t, i) => HalfDone(g, t, i)
  BY DEF PairOK, StepOf
<1>2. \A g \in Handlers : About(g, t, i)' <=> About(g, t, i)
  BY OthersAbout
<1>3. ASSUME NEW g \in Handlers, About(g, t, i)' PROVE HalfDone(g, t, i)'
  <2>1. g # h /\ HalfDone(g, t, i)
    BY <1>1, <1>2, <1>3
  <2>2. LastAbout(g, t, i)' => LastAbout(g, t, i)
    BY <1>2, <2>1 DEF LastAbout, StepOf
  <2> QED BY <2>1, <2>2, OthersAbout
<1> QED BY <1>1, <1>2, <1>3

(* A step of the only operation that changes a pair.                        *)
LEMMA Alone ==
  ASSUME TInv, TInv', NEW h \in Handlers, StepOf(h), NEW t \in TopicNames, NEW i \in Instances,
         PairOK(t, i), <<t, i>> \notin Doubtful',
         \/ About(h, t, i) /\ ~OneStepAtATime(h)
         \/ About(h, t, i)' /\ ~OneStepAtATime(h)'
  PROVE  /\ ~About(h, t, i) => (In(t, i) <=> Of(t, i))
         /\ About(h, t, i) => HalfDone(h, t, i)
         /\ (IF About(h, t, i)' THEN HalfDone(h, t, i)' ELSE (In(t, i)' <=> Of(t, i)'))
            => PairOK(t, i)'
<1>1. <<t, i>> \notin Doubtful
  BY DEF StepOf
<1>2. \A g \in Handlers \ {h} : ~About(g, t, i) /\ ~About(g, t, i)'
  <2> SUFFICES ASSUME NEW g \in Handlers \ {h}, About(g, t, i) \/ About(g, t, i)' PROVE FALSE
    OBVIOUS
  <2>1. About(g, t, i) /\ About(g, t, i)'
    BY OthersAbout
  <2>2. CASE About(h, t, i) /\ ~OneStepAtATime(h)
    BY <1>1, <2>1, <2>2, DoubtLemma DEF DoubtFacts
  <2>3. CASE About(h, t, i)' /\ ~OneStepAtATime(h)'
    <3>1. DoubtFacts'
      BY DoubtLemma, PTL
    <3> QED BY <2>1, <2>3, <3>1 DEF DoubtFacts
  <2> QED BY <2>2, <2>3
<1>3. /\ (\A g \in Handlers : ~About(g, t, i)) => (In(t, i) <=> Of(t, i))
      /\ \A g \in Handlers : About(g, t, i) => HalfDone(g, t, i)
  BY <1>1 DEF PairOK
<1>4. (\A g \in Handlers : About(g, t, i)' => HalfDone(g, t, i)')
      /\ ((\A g \in Handlers : ~About(g, t, i)') => (In(t, i)' <=> Of(t, i)'))
      => PairOK(t, i)'
  BY DEF PairOK
<1> QED BY <1>2, <1>3, <1>4

(* An operation that takes one step at a time has changed one index: those  *)
(* half done before it are overtaken.                                      *)
LEMMA OneIndex ==
  ASSUME TInv, TInv', NEW h \in Handlers, HeadStepOf(h), NEW t \in TopicNames, NEW i \in Instances,
         PairOK(t, i), ~About(h, t, i), About(h, t, i)', OneStepAtATime(h)',
         HalfDone(h, t, i)'
  PROVE  PairOK(t, i)'
<1> SUFFICES ASSUME <<t, i>> \notin Doubtful', NEW g \in Handlers \ {h}, About(g, t, i)'
             PROVE  HalfDone(g, t, i)'
  BY DEF PairOK
<1>1. DoubtFacts'
  BY DoubtLemma, PTL
<1>2. OneStepAtATime(g)'
  BY <1>1 DEF DoubtFacts
<1>3. ~LastAbout(g, t, i)'
  BY DEF LastAbout, HeadStepOf
<1>4. pc'[g] \in {"addIndex", "leaveIndex"} /\ op'[g].kind # "remove"
  <2>1. pc'[g] = pc[g] /\ op'[g] = op[g]
    BY DEF HeadStepOf, StepOf
  <2>2. op[g].kind = "remove" \/ pc[g] \in {"addIndex", "leaveIndex", "unindex", "drop", "swap"}
    BY <2>1 DEF About
  <2>3. op[g].kind \in {"join", "subscribe", "unsubscribe"}
    BY <1>2, <2>1 DEF OneStepAtATime
  <2> QED BY <2>1, <2>2, <2>3, OpFacts
<1> QED BY <1>3, <1>4 DEF HalfDone

(* With its second index changed it is done, and the last of those half     *)
(* done with the pair decides.                                             *)
LEMMA OtherIndex ==
  ASSUME TInv, TInv', NEW h \in Handlers, HeadStepOf(h), NEW t \in TopicNames, NEW i \in Instances,
         PairOK(t, i), About(h, t, i), ~About(h, t, i)', OneStepAtATime(h),
         pc[h] \in {"addIndex", "leaveIndex"},
         In(t, i)' <=> In(t, i), Of(t, i)' <=> pc[h] = "addIndex"
  PROVE  PairOK(t, i)'
<1> SUFFICES ASSUME <<t, i>> \notin Doubtful'
             PROVE  /\ (\A g \in Handlers : ~About(g, t, i)') => (In(t, i)' <=> Of(t, i)')
                    /\ \A g \in Handlers \ {h} : About(g, t, i)' => HalfDone(g, t, i)'
  BY DEF PairOK
<1>1. StepOf(h) /\ <<t, i>> \notin Doubtful
  BY DEF HeadStepOf, StepOf
<1>2. \A g \in Handlers : About(g, t, i) => HalfDone(g, t, i)
  BY <1>1 DEF PairOK
<1>3. \A g \in Handlers \ {h} : About(g, t, i)' <=> About(g, t, i)
  BY <1>1, OthersAbout
<1>4. ASSUME \A g \in Handlers : ~About(g, t, i)' PROVE In(t, i)' <=> Of(t, i)'
  <2>1. LastAbout(h, t, i)
    BY <1>3, <1>4 DEF LastAbout
  <2>2. op[h].kind # "remove"
    BY DEF OneStepAtATime
  <2> QED BY <1>2, <2>1, <2>2 DEF HalfDone
<1>5. ASSUME NEW g \in Handlers \ {h}, About(g, t, i)' PROVE HalfDone(g, t, i)'
  <2>1. About(g, t, i) /\ HalfDone(g, t, i) /\ Busy(g)
    BY <1>2, <1>3, <1>5, BusyAbout
  <2>2. OneStepAtATime(g)
    BY <1>1, <2>1, DoubtLemma DEF DoubtFacts
  <2>3. pc[g] \in {"addIndex", "leaveIndex"} /\ op[g].kind # "remove"
    BY <2>1, <2>2, OpFacts DEF About, OneStepAtATime
  <2>4. LastAbout(g, t, i)' => LastAbout(g, t, i)
    BY <1>3, <2>1 DEF LastAbout, HeadStepOf, StepOf
  <2>5. pc'[g] = pc[g] /\ op'[g] = op[g]
    BY <1>1 DEF StepOf
  <2> QED BY <2>1, <2>3, <2>4, <2>5 DEF HalfDone
<1> QED BY <1>4, <1>5

LEMMA GotoStep ==
  ASSUME TInv, NEW h \in Handlers, NEW l \in Places, l # "no", Answered(h), Goto(h, l),
         \A g \in Handlers \ {h} : op'[g] = op[g] /\ seen'[g] = seen[g]
  PROVE  HeadStepOf(h) /\ StepOf(h) /\ pc'[h] = l
BY GotoLemma, DoubtStays DEF TInv, TypeOK, HeadStepOf, StepOf

LEMMA ArrivesStep ==
  ASSUME TInv, NEW h \in Handlers, ~Busy(h), NEW l \in Places \ {"no", "done", "rejected"}, Arrives(h, l),
         \A g \in Handlers \ {h} : op'[g] = op[g] /\ seen'[g] = seen[g]
  PROVE  StepOf(h) /\ pc'[h] = l
BY ArrivesLemma, DoubtStays DEF TInv, TypeOK, StepOf

(* Whatever a handler does about pairs of which it is neither before nor    *)
(* after half done.                                                        *)
LEMMA PairArrivals ==
  ASSUME TInv, PairInv, NEW t \in TopicNames, NEW i \in Instances,
         \/ \E q \in Requests, o \in Requested : Request(q, o)
         \/ \E u \in TopicNames : TimerFires(u)
         \/ RecoverEmptyTopics
  PROVE  PairOK(t, i)'
<1> USE TopicAssumptions
<1>1. PairOK(t, i) /\ TypeOK
  BY DEF PairInv, TInv
<1>2. CASE \E q \in Requests, o \in Requested : Request(q, o)
  <2>1. PICK q \in Requests, o \in Requested : Request(q, o)
    BY <1>2
  <2>2. PICK l \in FirstOf(o) : Arrives(q, l)
    BY <2>1 DEF Request
  <2>3. /\ q \in Handlers /\ ~Busy(q) /\ pc[q] = "no" /\ OpOK(q)
        /\ op' = [op EXCEPT ![q] = o] /\ UNCHANGED <<redis, seen>>
    BY <2>1 DEF Handlers, Busy, Request, TInv, OpInv
  <2>4. l \in {"exists", "add", "leave", "topics", "migrate"} /\ (o.kind = "remove" => l = "topics")
    BY DEF Requested, Operation, FirstOf
  <2>5. StepOf(q) /\ pc'[q] = l /\ op'[q] = o
    BY <1>1, <2>2, <2>3, <2>4, ArrivesStep DEF Places, TypeOK
  <2>6. ~About(q, t, i)
    BY <2>3 DEF OpOK, About
  <2>7. ~About(q, t, i)'
    BY <2>4, <2>5 DEF About
  <2> QED BY <1>1, <2>3, <2>5, <2>6, <2>7, Untouched DEF redis, In, Of
<1>3. CASE \E u \in TopicNames : TimerFires(u)
  <2>1. PICK u \in TopicNames : TimerFires(u)
    BY <1>3
  <2>2. /\ u \in Handlers /\ ~Busy(u) /\ op[u].kind = "expire" /\ pc[u] \in {"no", "done"}
        /\ Arrives(u, "timer") /\ UNCHANGED <<redis, op, seen>>
    BY <2>1 DEF Handlers, Busy, TimerFires, TInv, OpInv, OpOK
  <2>3. StepOf(u) /\ pc'[u] = "timer"
    BY <2>2, ArrivesStep DEF Places
  <2>4. ~About(u, t, i) /\ ~About(u, t, i)'
    BY <2>2, <2>3 DEF About
  <2> QED BY <1>1, <2>2, <2>3, <2>4, Untouched DEF redis, In, Of
<1>4. CASE RecoverEmptyTopics
  <2> DEFINE u == Startup
  <2>2. /\ u \in Handlers /\ ~Busy(u) /\ op[u].kind = "recover" /\ pc[u] = "no"
        /\ Arrives(u, "names") /\ UNCHANGED <<redis, op, seen>>
    BY <1>4 DEF Handlers, Busy, RecoverEmptyTopics, TInv, OpInv, OpOK
  <2>3. StepOf(u) /\ pc'[u] = "names"
    BY <2>2, ArrivesStep DEF Places
  <2>4. ~About(u, t, i) /\ ~About(u, t, i)'
    BY <2>2, <2>3 DEF About
  <2> QED BY <1>1, <2>2, <2>3, <2>4, Untouched DEF redis, In, Of
<1> QED BY <1>2, <1>3, <1>4

(* Commands that change neither index nor what an operation is about.       *)
LEMMA PairQuestions ==
  ASSUME TInv, PairInv, NEW t \in TopicNames, NEW i \in Instances,
         \/ \E q \in Requests :
              \/ TopicExists(q) \/ ReadTopic(q) \/ HealIndex(q) \/ CountSubscribers(q) \/ WriteTopic(q)
              \/ GetSubscribers(q)
         \/ \E u \in TopicNames : TimerCount(u) \/ TimerReadsHash(u)
  PROVE  PairOK(t, i)'
<1>1. PairOK(t, i) /\ TypeOK
  BY DEF PairInv, TInv
<1>2. PICK h \in Handlers, l \in Places :
         /\ Answered(h) /\ Goto(h, l) /\ UNCHANGED <<subscribers, topicsOf, op, seen>>
         /\ pc[h] \in {"exists", "read", "heal", "count", "write", "members", "timer", "timerHash"}
         /\ l \in {"read", "rejected", "add", "leave", "members", "write", "heal", "count", "done",
                   "delete", "timerHash"}
  <2>1. CASE \E q \in Requests : TopicExists(q)
    <3>1. PICK q \in Requests : TopicExists(q)
      BY <2>1
    <3>2. q \in Handlers /\ op[q].kind \in {"create", "createKept", "join", "subscribe", "unsubscribe", "delete"}
      BY <3>1, OpFacts DEF Handlers, TopicExists, At
    <3> QED BY <3>1, <3>2 DEF TopicExists, At, Places, redis
  <2>2. CASE \E q \in Requests : ReadTopic(q) \/ GetSubscribers(q)
    BY <2>2 DEF ReadTopic, GetSubscribers, At, Places, Handlers, redis
  <2>3. CASE \E q \in Requests : HealIndex(q) \/ CountSubscribers(q) \/ WriteTopic(q)
    BY <2>3 DEF HealIndex, CountSubscribers, WriteTopic, At, Places, Handlers, redis, Created
  <2>4. CASE \E u \in TopicNames : TimerCount(u) \/ TimerReadsHash(u)
    BY <2>4 DEF TimerCount, TimerReadsHash, At, Places, Handlers, redis
  <2> QED BY <2>1, <2>2, <2>3, <2>4
<1>3. StepOf(h) /\ pc'[h] = l
  BY <1>2, GotoStep
<1>4. op[h].kind # "remove"
  BY <1>2, OpFacts DEF TInv, OpInv, OpOK, PartOf
<1>5. ~About(h, t, i) /\ ~About(h, t, i)'
  BY <1>2, <1>3, <1>4 DEF About
<1> QED BY <1>1, <1>2, <1>3, <1>5, Untouched DEF In, Of

(* subscribe changes one index, then the other.                             *)
LEMMA PairSubscribe ==
  ASSUME TInv, TInv', PairInv, NEW t \in TopicNames, NEW i \in Instances,
         NEW q \in Requests, Subscribe(q) \/ SubscribeIndex(q)
  PROVE  PairOK(t, i)'
<1> DEFINE u == op[q].topic
           j == op[q].who
<1>1. /\ PairOK(t, i) /\ q \in Handlers /\ Answered(q) /\ UNCHANGED <<op, seen>>
      /\ subscribers \in [TopicNames -> SUBSET Instances] /\ topicsOf \in [Instances -> SUBSET TopicNames]
      /\ op[q].kind \in {"join", "subscribe"} /\ u \in TopicNames /\ j \in Instances
  BY OpFacts DEF PairInv, TInv, TypeOK, Handlers, Subscribe, SubscribeIndex, At
<1>2. CASE Subscribe(q)
  <2>1. pc[q] = "add" /\ pc'[q] = "addIndex" /\ HeadStepOf(q) /\ StepOf(q)
    BY <1>1, <1>2, GotoStep DEF Subscribe, At, Places
  <2>2. topicsOf' = topicsOf /\ subscribers' = [subscribers EXCEPT ![u] = @ \cup {j}]
    BY <1>2 DEF Subscribe, Joined
  <2>3. ~About(q, t, i) /\ (About(q, t, i)' <=> t = u /\ i = j)
    BY <1>1, <2>1 DEF About
  <2>4. CASE t = u /\ i = j
    <3>1. In(t, i)'
      BY <1>1, <2>2, <2>4 DEF In
    <3>2. HalfDone(q, t, i)' /\ OneStepAtATime(q)'
      BY <1>1, <2>1, <3>1 DEF HalfDone, OneStepAtATime
    <3> QED BY <1>1, <2>1, <2>3, <2>4, <3>2, OneIndex
  <2>5. CASE ~(t = u /\ i = j)
    <3>1. (In(t, i)' <=> In(t, i)) /\ (Of(t, i)' <=> Of(t, i))
      BY <1>1, <2>2, <2>5 DEF In, Of
    <3> QED BY <1>1, <2>1, <2>3, <2>5, <3>1, Untouched
  <2> QED BY <2>4, <2>5
<1>3. CASE SubscribeIndex(q)
  <2>1. pc[q] = "addIndex" /\ pc'[q] = "done" /\ HeadStepOf(q) /\ StepOf(q)
    BY <1>1, <1>3, GotoStep DEF SubscribeIndex, At, Places
  <2>2. subscribers' = subscribers /\ topicsOf' = [topicsOf EXCEPT ![j] = @ \cup {u}]
    BY <1>3 DEF SubscribeIndex, Indexed
  <2>3. ~About(q, t, i)' /\ (About(q, t, i) <=> t = u /\ i = j)
    BY <1>1, <2>1 DEF About
  <2>4. CASE t = u /\ i = j
    <3>1. (In(t, i)' <=> In(t, i)) /\ Of(t, i)'
      BY <1>1, <2>2, <2>4 DEF In, Of
    <3> QED BY <1>1, <2>1, <2>3, <2>4, <3>1, OtherIndex DEF OneStepAtATime
  <2>5. CASE ~(t = u /\ i = j)
    <3>1. (In(t, i)' <=> In(t, i)) /\ (Of(t, i)' <=> Of(t, i))
      BY <1>1, <2>2, <2>5 DEF In, Of
    <3> QED BY <1>1, <2>1, <2>3, <2>5, <3>1, Untouched
  <2> QED BY <2>4, <2>5
<1> QED BY <1>2, <1>3

(* unsubscribe does so too; a removal, which goes through many topics, is   *)
(* the only operation about its pairs.                                     *)
LEMMA PairUnsubscribe ==
  ASSUME TInv, TInv', PairInv, NEW t \in TopicNames, NEW i \in Instances,
         NEW q \in Requests, Unsubscribe(q) \/ UnsubscribeIndex(q)
  PROVE  PairOK(t, i)'
<1> DEFINE u == op[q].topic
           j == op[q].who
<1>1. /\ PairOK(t, i) /\ q \in Handlers /\ Answered(q) /\ UNCHANGED <<op, seen>>
      /\ subscribers \in [TopicNames -> SUBSET Instances] /\ topicsOf \in [Instances -> SUBSET TopicNames]
      /\ op[q].kind \in {"unsubscribe", "remove"} /\ u \in TopicNames /\ j \in Instances
  BY OpFacts DEF PairInv, TInv, TypeOK, Handlers, Unsubscribe, UnsubscribeIndex, At
<1>2. CASE Unsubscribe(q)
  <2>1. pc[q] = "leave" /\ pc'[q] = "leaveIndex" /\ HeadStepOf(q) /\ StepOf(q)
    BY <1>1, <1>2, GotoStep DEF Unsubscribe, At, Places
  <2>2. topicsOf' = topicsOf /\ subscribers' = [subscribers EXCEPT ![u] = @ \ {j}]
    BY <1>2 DEF Unsubscribe, Left
  <2>3. ASSUME t = u, i = j, op[q].kind = "unsubscribe" PROVE PairOK(t, i)'
    <3>1. ~About(q, t, i) /\ About(q, t, i)'
      BY <1>1, <2>1, <2>3 DEF About
    <3>2. ~In(t, i)'
      BY <1>1, <2>2, <2>3 DEF In
    <3>3. HalfDone(q, t, i)' /\ OneStepAtATime(q)'
      BY <1>1, <2>1, <2>3, <3>2 DEF HalfDone, OneStepAtATime
    <3> QED BY <1>1, <2>1, <3>1, <3>3, OneIndex
  <2>4. ASSUME i = j, op[q].kind = "remove", <<t, i>> \notin Doubtful' PROVE PairOK(t, i)'
    <3>1. About(q, t, i) /\ About(q, t, i)' /\ ~OneStepAtATime(q)
      BY <1>1, <2>1, <2>4 DEF About, OneStepAtATime
    <3>2. HalfDone(q, t, i)
      BY <1>1, <2>1, <2>4, <3>1, Alone
    <3>3. /\ t = u => ~In(t, i)'
          /\ t # u => (In(t, i)' <=> In(t, i)) /\ (Of(t, i)' <=> Of(t, i))
      BY <1>1, <2>2, <2>4 DEF In, Of
    <3>4. t # u => (IF t \in seen[q] THEN In(t, i) <=> Of(t, i) ELSE ~In(t, i) /\ ~Of(t, i))
      BY <2>1, <2>4, <3>2 DEF HalfDone
    <3>5. t # u => (IF t \in seen[q] THEN In(t, i)' <=> Of(t, i)' ELSE ~In(t, i)' /\ ~Of(t, i)')
      BY <3>3, <3>4
    <3>6. HalfDone(q, t, i)'
      BY <1>1, <2>1, <2>4, <3>3, <3>5 DEF HalfDone
    <3> QED BY <1>1, <2>1, <2>4, <3>1, <3>6, Alone
  <2>5. ASSUME i # j \/ (t # u /\ op[q].kind = "unsubscribe") PROVE PairOK(t, i)'
    <3>1. ~About(q, t, i) /\ ~About(q, t, i)'
      BY <1>1, <2>1, <2>5 DEF About
    <3>2. (In(t, i)' <=> In(t, i)) /\ (Of(t, i)' <=> Of(t, i))
      BY <1>1, <2>2, <2>5 DEF In, Of
    <3> QED BY <1>1, <2>1, <3>1, <3>2, Untouched
  <2> QED BY <1>1, <2>3, <2>4, <2>5 DEF PairOK
<1>3. CASE UnsubscribeIndex(q)
  <2>1. pc[q] = "leaveIndex" /\ pc'[q] = "left" /\ HeadStepOf(q) /\ StepOf(q)
    BY <1>1, <1>3, GotoStep DEF UnsubscribeIndex, At, Places
  <2>2. subscribers' = subscribers /\ topicsOf' = [topicsOf EXCEPT ![j] = @ \ {u}]
    BY <1>3 DEF UnsubscribeIndex, Unindexed
  <2>3. ASSUME t = u, i = j, op[q].kind = "unsubscribe" PROVE PairOK(t, i)'
    <3>1. About(q, t, i) /\ ~About(q, t, i)'
      BY <1>1, <2>1, <2>3 DEF About
    <3>2. (In(t, i)' <=> In(t, i)) /\ ~Of(t, i)'
      BY <1>1, <2>2, <2>3 DEF In, Of
    <3> QED BY <1>1, <2>1, <2>3, <3>1, <3>2, OtherIndex DEF OneStepAtATime
  <2>4. ASSUME i = j, op[q].kind = "remove", <<t, i>> \notin Doubtful' PROVE PairOK(t, i)'
    <3>1. About(q, t, i) /\ About(q, t, i)' /\ ~OneStepAtATime(q)
      BY <1>1, <2>1, <2>4 DEF About, OneStepAtATime
    <3>2. HalfDone(q, t, i)
      BY <1>1, <2>1, <2>4, <3>1, Alone
    <3>3. /\ In(t, i)' <=> In(t, i)
          /\ IF t = u THEN ~Of(t, i)' ELSE (Of(t, i)' <=> Of(t, i))
      BY <1>1, <2>2, <2>4 DEF In, Of
    <3>4. IF t = u THEN ~In(t, i)
          ELSE IF t \in seen[q] THEN In(t, i) <=> Of(t, i) ELSE ~In(t, i) /\ ~Of(t, i)
      BY <2>1, <2>4, <3>2 DEF HalfDone
    <3>5. IF t \in seen[q] THEN In(t, i)' <=> Of(t, i)' ELSE ~In(t, i)' /\ ~Of(t, i)'
      BY <3>3, <3>4
    <3>6. HalfDone(q, t, i)'
      BY <1>1, <2>1, <2>4, <3>5 DEF HalfDone
    <3> QED BY <1>1, <2>1, <2>4, <3>1, <3>6, Alone
  <2>5. ASSUME i # j \/ (t # u /\ op[q].kind = "unsubscribe") PROVE PairOK(t, i)'
    <3>1. ~About(q, t, i) /\ ~About(q, t, i)'
      BY <1>1, <2>1, <2>5 DEF About
    <3>2. (In(t, i)' <=> In(t, i)) /\ (Of(t, i)' <=> Of(t, i))
      BY <1>1, <2>2, <2>5 DEF In, Of
    <3> QED BY <1>1, <2>1, <3>1, <3>2, Untouched
  <2> QED BY <1>1, <2>3, <2>4, <2>5 DEF PairOK
<1> QED BY <1>2, <1>3

(* What a loop over topics does: the operation stays, its topic and what it *)
(* has still to see are as at the end of the step.                          *)
LEMMA ContinueStep ==
  ASSUME TInv, NEW h \in Handlers, Answered(h), pc[h] \in {"left", "expires"},
         \/ Continue(h)
         \/ Goto(h, "expires") /\ UNCHANGED <<op, seen>>
  PROVE  /\ HeadStepOf(h) /\ StepOf(h) /\ op'[h].kind = op[h].kind /\ op'[h].who = op[h].who
         /\ \/ /\ pc'[h] = "expires" \/ (pc'[h] = "done" /\ op[h].kind # "remove")
               /\ op'[h].topic = op[h].topic /\ seen'[h] = seen[h]
            \/ pc'[h] = "flush" /\ op[h].kind = "remove" /\ seen'[h] = {} /\ seen[h] = {}
            \/ /\ pc'[h] \in {"leave", "left"} /\ (pc'[h] = "leave" <=> op[h].kind = "remove")
               /\ op'[h].topic \in seen[h] /\ seen'[h] = seen[h] \ {op'[h].topic}
<1>1. TypeOK /\ op[h].kind \in {"unsubscribe", "remove", "recover"}
  BY OpFacts DEF TInv
<1>2. CASE UNCHANGED <<op, seen>> /\ \E l \in {"expires", "done"} : Goto(h, l) /\ (l = "done" => op[h].kind # "remove")
  BY <1>1, <1>2, GotoStep DEF Places
<1>3. CASE op[h].kind = "remove" /\ NextName(h, "leave", "flush") /\ seen[h] = {}
  <2>1. Goto(h, "flush") /\ UNCHANGED <<op, seen>>
    BY <1>3 DEF NextName
  <2> QED BY <1>3, <2>1, GotoStep DEF Places
<1>4. ASSUME NEW l \in {"leave", "left"}, NEW t \in seen[h],
             op' = [op EXCEPT ![h].topic = t], seen' = [seen EXCEPT ![h] = @ \ {t}], Goto(h, l),
             l = "leave" <=> op[h].kind = "remove"
      PROVE  /\ HeadStepOf(h) /\ StepOf(h) /\ op'[h].kind = op[h].kind /\ op'[h].who = op[h].who
             /\ pc'[h] \in {"leave", "left"} /\ (pc'[h] = "leave" <=> op[h].kind = "remove")
             /\ op'[h].topic \in seen[h] /\ seen'[h] = seen[h] \ {op'[h].topic}
  <2>1. /\ \A g \in Handlers \ {h} : op'[g] = op[g] /\ seen'[g] = seen[g]
        /\ op'[h].kind = op[h].kind /\ op'[h].who = op[h].who /\ op'[h].topic = t
        /\ seen'[h] = seen[h] \ {t}
    BY <1>1, <1>4 DEF TypeOK
  <2> QED BY <1>4, <2>1, GotoStep DEF Places
<1>5. CASE Continue(h)
  <2>1. CASE op[h].kind = "unsubscribe"
    BY <1>2, <1>5, <2>1 DEF Continue
  <2>2. CASE op[h].kind = "remove"
    BY <1>3, <1>4, <1>5, <2>2 DEF Continue, NextName
  <2>3. CASE op[h].kind = "recover"
    BY <1>2, <1>4, <1>5, <2>3 DEF Continue, NextName
  <2> QED BY <1>1, <2>1, <2>2, <2>3
<1> QED BY <1>2, <1>5

LEMMA PairLoops ==
  ASSUME TInv, TInv', PairInv, NEW t \in TopicNames, NEW i \in Instances,
         NEW h \in Handlers, CountLeft(h) \/ ScheduleDeletion(h)
  PROVE  PairOK(t, i)'
<1>1. /\ PairOK(t, i) /\ Answered(h) /\ pc[h] \in {"left", "expires"}
      /\ op[h].kind \in {"unsubscribe", "remove", "recover"}
      /\ UNCHANGED <<subscribers, topicsOf>>
      /\ Continue(h) \/ (Goto(h, "expires") /\ UNCHANGED <<op, seen>>)
  BY OpFacts DEF PairInv, CountLeft, ScheduleDeletion, At, redis
<1>2. HeadStepOf(h) /\ StepOf(h) /\ op'[h].kind = op[h].kind /\ op'[h].who = op[h].who
  BY <1>1, ContinueStep
<1>3. (In(t, i)' <=> In(t, i)) /\ (Of(t, i)' <=> Of(t, i))
  BY <1>1 DEF In, Of
<1>4. pc'[h] \in {"expires", "done", "flush", "leave", "left"}
  BY <1>1, ContinueStep
<1>5. CASE op[h].kind # "remove" \/ op[h].who # i
  <2>1. ~About(h, t, i) /\ ~About(h, t, i)'
    BY <1>1, <1>2, <1>4, <1>5 DEF About
  <2> QED BY <1>1, <1>2, <1>3, <2>1, Untouched
<1>6. ASSUME op[h].kind = "remove", op[h].who = i, <<t, i>> \notin Doubtful' PROVE PairOK(t, i)'
  <2>1. /\ pc'[h] # "done"
        /\ \/ pc'[h] = "expires" /\ op'[h].topic = op[h].topic /\ seen'[h] = seen[h]
           \/ pc'[h] = "flush" /\ seen'[h] = {} /\ seen[h] = {}
           \/ pc'[h] = "leave" /\ op'[h].topic \in seen[h] /\ seen'[h] = seen[h] \ {op'[h].topic}
    BY <1>1, <1>6, ContinueStep
  <2>2. About(h, t, i) /\ About(h, t, i)' /\ ~OneStepAtATime(h)
    BY <1>1, <1>2, <1>4, <1>6, <2>1 DEF About, OneStepAtATime
  <2>3. HalfDone(h, t, i)
    BY <1>1, <1>2, <1>6, <2>2, Alone
  <2>4. IF t \in seen[h] THEN In(t, i) <=> Of(t, i) ELSE ~In(t, i) /\ ~Of(t, i)
    BY <1>1, <1>6, <2>3 DEF HalfDone
  <2>5. IF t \in seen[h] THEN In(t, i)' <=> Of(t, i)' ELSE ~In(t, i)' /\ ~Of(t, i)'
    BY <1>3, <2>4
  <2>6. HalfDone(h, t, i)'
    BY <1>2, <1>6, <2>1, <2>5 DEF HalfDone
  <2> QED BY <1>1, <1>2, <1>6, <2>2, <2>6, Alone
<1> QED BY <1>1, <1>5, <1>6 DEF PairOK

LEMMA PairRecovery ==
  ASSUME TInv, PairInv, NEW t \in TopicNames, NEW i \in Instances, RecoverNames
  PROVE  PairOK(t, i)'
<1> DEFINE h == Startup
<1>1. /\ PairOK(t, i) /\ h \in Handlers /\ At(h, "names") /\ op[h].kind = "recover" /\ TypeOK
      /\ UNCHANGED <<subscribers, topicsOf>>
  BY DEF PairInv, Handlers, RecoverNames, TInv, OpInv, OpOK, redis
<1>2. PICK l \in {"done", "left"} : Goto(h, l)
  BY DEF RecoverNames
<1>3. /\ \A g \in Handlers \ {h} : op'[g] = op[g] /\ seen'[g] = seen[g]
      /\ op'[h].kind = "recover"
  BY <1>1 DEF RecoverNames, TypeOK
<1>4. StepOf(h) /\ pc'[h] = l
  BY <1>1, <1>2, <1>3, GotoStep DEF At, Places
<1>5. ~About(h, t, i) /\ ~About(h, t, i)'
  BY <1>1, <1>3, <1>4 DEF About, At
<1> QED BY <1>1, <1>4, <1>5, Untouched DEF In, Of

(* The removal of an instance reads its topics, leaves them one by one and  *)
(* drops the rest of its index.                                            *)
LEMMA PairRemoval ==
  ASSUME TInv, TInv', PairInv, NEW t \in TopicNames, NEW i \in Instances,
         NEW q \in Requests, RemovedTopics(q) \/ FlushQueue(q) \/ Deregister(q)
  PROVE  PairOK(t, i)'
<1> DEFINE j == op[q].who
<1>1. /\ PairOK(t, i) /\ q \in Handlers /\ Answered(q) /\ pc[q] \in {"topics", "flush", "deregister"}
      /\ op[q].kind = "remove" /\ j \in Instances /\ TypeOK
      /\ subscribers' = subscribers /\ topicsOf \in [Instances -> SUBSET TopicNames]
  BY OpFacts DEF PairInv, TInv, TypeOK, Handlers, RemovedTopics, FlushQueue, Deregister, At, redis
<1>2. PICK l \in {"flush", "leave", "deregister", "done"} :
        /\ Goto(q, l)
        /\ \/ pc[q] = "topics" /\ l \in {"flush", "leave"}
           \/ pc[q] = "flush" /\ l = "deregister"
           \/ pc[q] = "deregister" /\ l = "done"
  BY DEF RemovedTopics, FlushQueue, Deregister, At
<1>3. /\ \A g \in Handlers \ {q} : op'[g] = op[g] /\ seen'[g] = seen[g]
      /\ op'[q].kind = "remove" /\ op'[q].who = j
  BY <1>1 DEF RemovedTopics, FlushQueue, Deregister, TypeOK
<1>4. HeadStepOf(q) /\ StepOf(q) /\ pc'[q] = l
  BY <1>1, <1>2, <1>3, GotoStep DEF Places
<1>5. /\ In(t, i)' <=> In(t, i)
      /\ Of(t, i)' <=> IF pc[q] = "deregister" /\ i = j THEN FALSE ELSE Of(t, i)
  BY <1>1 DEF In, Of, RemovedTopics, FlushQueue, Deregister, At, redis
<1>6. CASE i # j
  <2>1. ~About(q, t, i) /\ ~About(q, t, i)'
    BY <1>1, <1>2, <1>3, <1>4, <1>6 DEF About
  <2> QED BY <1>1, <1>4, <1>5, <1>6, <2>1, Untouched
<1>7. ASSUME i = j, <<t, i>> \notin Doubtful', pc[q] = "topics" PROVE PairOK(t, i)'
  <2>1. ~About(q, t, i) /\ About(q, t, i)' /\ ~OneStepAtATime(q)'
    BY <1>1, <1>2, <1>3, <1>4, <1>7 DEF About, OneStepAtATime
  <2>2. In(t, i) <=> Of(t, i)
    BY <1>1, <1>4, <1>7, <2>1, Alone
  <2>3. \/ l = "flush" /\ ~Of(t, i)
        \/ l = "leave" /\ (t = op'[q].topic \/ t \in seen'[q] \/ ~Of(t, i))
    <3>1. RemovedTopics(q)
      BY <1>7 DEF FlushQueue, Deregister, At
    <3>2. CASE topicsOf[j] = {} /\ Goto(q, "flush")
      BY <1>1, <1>4, <1>7, <3>2, GotoLemma DEF Of, TInv, TypeOK, Places
    <3>3. CASE \E u \in topicsOf[j] : /\ op' = [op EXCEPT ![q].topic = u]
                                      /\ seen' = [seen EXCEPT ![q] = topicsOf[j] \ {u}]
                                      /\ Goto(q, "leave")
      <4>1. PICK u \in topicsOf[j] : /\ op' = [op EXCEPT ![q].topic = u]
                                     /\ seen' = [seen EXCEPT ![q] = topicsOf[j] \ {u}]
                                     /\ Goto(q, "leave")
        BY <3>3
      <4>2. op'[q].topic = u /\ seen'[q] = topicsOf[j] \ {u}
        BY <1>1, <4>1 DEF TypeOK
      <4>3. l = "leave"
        BY <1>1, <1>4, <4>1, GotoLemma DEF TInv, TypeOK, Places
      <4> QED BY <1>7, <4>2, <4>3 DEF Of
    <3> QED BY <3>1, <3>2, <3>3 DEF RemovedTopics
  <2>4. HalfDone(q, t, i)'
    BY <1>3, <1>4, <1>5, <1>7, <2>2, <2>3 DEF HalfDone
  <2> QED BY <1>1, <1>4, <1>7, <2>1, <2>4, Alone
<1>8. ASSUME i = j, <<t, i>> \notin Doubtful', pc[q] # "topics" PROVE PairOK(t, i)'
  <2>1. About(q, t, i) /\ (About(q, t, i)' <=> l = "deregister") /\ ~OneStepAtATime(q)
    BY <1>1, <1>2, <1>3, <1>4, <1>8 DEF About, OneStepAtATime
  <2>2. HalfDone(q, t, i)
    BY <1>1, <1>4, <1>8, <2>1, Alone
  <2>3. ~In(t, i)' /\ ~Of(t, i)'
    BY <1>1, <1>5, <1>8, <2>2 DEF HalfDone
  <2>4. l = "deregister" => HalfDone(q, t, i)'
    BY <1>3, <1>4, <2>3 DEF HalfDone
  <2> QED BY <1>1, <1>4, <1>8, <2>1, <2>3, <2>4, Alone
<1> QED BY <1>6, <1>7, <1>8 DEF PairOK

(* deleteTopic reads the members, takes the topic off their indexes and      *)
(* drops it.                                                               *)
LEMMA PairDeletion ==
  ASSUME TInv, TInv', PairInv, NEW t \in TopicNames, NEW i \in Instances,
         NEW h \in Handlers, ReadMembers(h) \/ UnindexMembers(h) \/ DropTopic(h)
  PROVE  PairOK(t, i)'
<1> DEFINE u == op[h].topic
<1>1. /\ PairOK(t, i) /\ Answered(h) /\ pc[h] \in {"delete", "unindex", "drop"}
      /\ op[h].kind \in {"delete", "expire"} /\ u \in TopicNames /\ TypeOK /\ op' = op
      /\ subscribers \in [TopicNames -> SUBSET Instances] /\ topicsOf \in [Instances -> SUBSET TopicNames]
  BY OpFacts DEF PairInv, TInv, TypeOK, ReadMembers, UnindexMembers, DropTopic, At
<1>2. PICK l \in {"unindex", "drop", "done"} :
        /\ Goto(h, l)
        /\ \/ pc[h] = "delete" /\ l \in {"unindex", "drop"}
           \/ pc[h] = "unindex" /\ l = "drop"
           \/ pc[h] = "drop" /\ l = "done"
  BY DEF ReadMembers, UnindexMembers, DropTopic, At
<1>3. \A g \in Handlers \ {h} : op'[g] = op[g] /\ seen'[g] = seen[g]
  BY <1>1 DEF ReadMembers, UnindexMembers, DropTopic, TypeOK
<1>4. HeadStepOf(h) /\ StepOf(h) /\ pc'[h] = l
  BY <1>1, <1>2, <1>3, GotoStep DEF Places
<1>5. CASE t # u
  <2>1. ~About(h, t, i) /\ ~About(h, t, i)'
    BY <1>1, <1>2, <1>4, <1>5 DEF About
  <2>2. (In(t, i)' <=> In(t, i)) /\ (Of(t, i)' <=> Of(t, i))
    BY <1>1, <1>5 DEF In, Of, ReadMembers, UnindexMembers, DropTopic, redis
  <2> QED BY <1>1, <1>4, <2>1, <2>2, Untouched
<1>6. ASSUME t = u, <<t, i>> \notin Doubtful', ReadMembers(h) PROVE PairOK(t, i)'
  <2>1. pc[h] = "delete" /\ UNCHANGED <<subscribers, topicsOf>> /\ seen'[h] = subscribers[t]
    BY <1>1, <1>6 DEF ReadMembers, At, redis, TypeOK
  <2>2. ~About(h, t, i) /\ About(h, t, i)' /\ ~OneStepAtATime(h)'
    BY <1>1, <1>2, <1>4, <1>6, <2>1 DEF About, OneStepAtATime
  <2>3. In(t, i) <=> Of(t, i)
    BY <1>1, <1>4, <1>6, <2>2, Alone
  <2>4. l = "drop" => subscribers[t] = {}
    BY <1>1, <1>4, <1>6, GotoLemma DEF ReadMembers, TInv, TypeOK, Places
  <2>5. HalfDone(h, t, i)'
    BY <1>1, <1>2, <1>4, <2>1, <2>3, <2>4 DEF HalfDone, In, Of
  <2> QED BY <1>1, <1>4, <1>6, <2>2, <2>5, Alone
<1>7. ASSUME t = u, <<t, i>> \notin Doubtful', UnindexMembers(h) PROVE PairOK(t, i)'
  <2>1. pc[h] = "unindex" /\ subscribers' = subscribers
    BY <1>7 DEF UnindexMembers, At
  <2>2. About(h, t, i) /\ About(h, t, i)' /\ ~OneStepAtATime(h)
    BY <1>1, <1>2, <1>4, <1>7, <2>1 DEF About, OneStepAtATime
  <2>3. (In(t, i) <=> Of(t, i)) /\ (In(t, i) <=> i \in seen[h])
    BY <1>1, <1>4, <1>7, <2>1, <2>2, Alone DEF HalfDone
  <2>4. ~Of(t, i)'
    BY <1>1, <1>7, <2>3 DEF Of, UnindexMembers
  <2>5. HalfDone(h, t, i)'
    BY <1>1, <1>2, <1>4, <2>1, <2>4 DEF HalfDone
  <2> QED BY <1>1, <1>4, <1>7, <2>2, <2>5, Alone
<1>8. ASSUME t = u, <<t, i>> \notin Doubtful', DropTopic(h) PROVE PairOK(t, i)'
  <2>1. pc[h] = "drop" /\ topicsOf' = topicsOf /\ subscribers' = [subscribers EXCEPT ![t] = {}]
    BY <1>8 DEF DropTopic, At
  <2>2. About(h, t, i) /\ ~About(h, t, i)' /\ ~OneStepAtATime(h)
    BY <1>1, <1>2, <1>4, <1>8, <2>1 DEF About, OneStepAtATime
  <2>3. ~Of(t, i)
    BY <1>1, <1>4, <1>8, <2>1, <2>2, Alone DEF HalfDone
  <2>4. ~Of(t, i)' /\ ~In(t, i)'
    BY <1>1, <2>1, <2>3 DEF Of, In
  <2> QED BY <1>1, <1>4, <1>8, <2>2, <2>4, Alone
<1> QED BY <1>5, <1>6, <1>7, <1>8 DEF PairOK

(* migrateSubscriptions puts the new identity in the place of the old one:  *)
(* doubt about the old one is doubt about the new one.                     *)
LEMMA PairMigration ==
  ASSUME TInv, TInv', PairInv, NEW t \in TopicNames, NEW i \in Instances,
         NEW q \in Requests, MigrateRead(q) \/ MigrateSwap(q)
  PROVE  PairOK(t, i)'
<1> DEFINE j == op[q].who
           k == op[q].to
<1>1. /\ PairOK(t, i) /\ q \in Handlers /\ Answered(q) /\ pc[q] \in {"migrate", "swap"}
      /\ op[q].kind = "session" /\ j \in Instances /\ k \in Instances /\ TypeOK
      /\ subscribers \in [TopicNames -> SUBSET Instances] /\ topicsOf \in [Instances -> SUBSET TopicNames]
  BY OpFacts DEF PairInv, TInv, TypeOK, Handlers, MigrateRead, MigrateSwap, At
<1>2. PICK l \in {"exists", "swap"} : Goto(q, l)
  BY DEF MigrateRead, MigrateSwap
<1>3. \A g \in Handlers \ {q} : op'[g] = op[g] /\ seen'[g] = seen[g]
  BY <1>1 DEF MigrateRead, MigrateSwap, Rejoin, TypeOK
<1>4. StepOf(q) /\ pc'[q] = l
  BY <1>1, <1>2, <1>3, GotoStep DEF Places
<1>5. l = "exists" => op'[q].kind = "join"
  <2>1. CASE Rejoin(q)
    BY <1>1, <2>1 DEF Rejoin, Operation, TypeOK
  <2>2. CASE Goto(q, "swap")
    BY <1>1, <1>4, <2>2, GotoLemma DEF TInv, TypeOK, Places
  <2> QED BY <2>1, <2>2 DEF MigrateRead, MigrateSwap
<1>6. CASE i \notin {j, k} \/ (l = "exists" /\ MigrateRead(q))
  <2>1. ~About(q, t, i)
    BY <1>1, <1>6 DEF About, MigrateRead, At
  <2>2. ~About(q, t, i)'
    <3>1. CASE l = "exists"
      BY <1>4, <1>5, <3>1 DEF About
    <3>2. CASE l = "swap"
      <4>1. op' = op
        BY <1>1, <1>4, <3>2, GotoLemma DEF MigrateRead, MigrateSwap, TInv, TypeOK, Places
      <4> QED BY <1>1, <1>4, <1>6, <3>2, <4>1 DEF About
    <3> QED BY <3>1, <3>2
  <2>3. (In(t, i)' <=> In(t, i)) /\ (Of(t, i)' <=> Of(t, i))
    <3>1. CASE MigrateRead(q)
      BY <3>1 DEF In, Of, MigrateRead, redis
    <3>2. CASE MigrateSwap(q)
      BY <1>1, <1>6, <3>2 DEF In, Of, MigrateSwap, MigrateRead, Swapped, At
    <3> QED BY <3>1, <3>2
  <2> QED BY <1>1, <1>4, <2>1, <2>2, <2>3, Untouched
<1>7. ASSUME i \in {j, k}, l = "swap", <<t, i>> \notin Doubtful' PROVE PairOK(t, i)'
  <2>1. /\ pc[q] = "migrate" /\ op' = op /\ UNCHANGED <<subscribers, topicsOf>>
        /\ seen'[q] = topicsOf[j]
    BY <1>1, <1>4, <1>7, GotoLemma DEF MigrateRead, MigrateSwap, At, redis, TInv, TypeOK, Places
  <2>2. ~About(q, t, i) /\ About(q, t, i)' /\ ~OneStepAtATime(q)'
    BY <1>1, <1>4, <1>7, <2>1 DEF About, OneStepAtATime
  <2>3. In(t, i) <=> Of(t, i)
    BY <1>1, <1>4, <1>7, <2>2, Alone
  <2>4. HalfDone(q, t, i)'
    BY <1>1, <1>4, <1>7, <2>1, <2>3 DEF HalfDone, In, Of
  <2> QED BY <1>1, <1>4, <1>7, <2>2, <2>4, Alone
<1>8. ASSUME i \in {j, k}, MigrateSwap(q), <<t, i>> \notin Doubtful' PROVE PairOK(t, i)'
  <2>1. /\ pc[q] = "swap" /\ subscribers' = Swapped(seen[q], j, k)
        /\ topicsOf' = [[topicsOf EXCEPT ![k] = @ \cup topicsOf[j]] EXCEPT ![j] = {}]
    BY <1>8 DEF MigrateSwap, At
  <2>2. l = "exists"
    BY <1>1, <1>4, <1>8, GotoLemma DEF MigrateSwap, TInv, TypeOK, Places
  <2>3. About(q, t, i) /\ ~About(q, t, i)' /\ ~OneStepAtATime(q)
    BY <1>1, <1>4, <1>5, <1>8, <2>1, <2>2 DEF About, OneStepAtATime
  <2>4. (In(t, i) <=> Of(t, i)) /\ (i = j => (In(t, i) <=> t \in seen[q]))
    BY <1>1, <1>4, <1>8, <2>1, <2>3, Alone DEF HalfDone
  <2>5. <<t, i>> \notin Doubtful
    BY <1>4, <1>8 DEF StepOf
  <2>6. j # k
    BY <1>1, <1>8, <2>1, <2>5, DoubtLemma DEF DoubtFacts
  <2>7. i = k => (t \in seen[q] <=> Of(t, j))
    <3> SUFFICES ASSUME i = k PROVE t \in seen[q] <=> Of(t, j)
      OBVIOUS
    <3>1. <<t, j>> \notin Doubtful
      BY <1>1, <2>1, <2>5, DoubtLemma DEF DoubtFacts
    <3>2. About(q, t, j) /\ PairOK(t, j)
      BY <1>1, <2>1 DEF About, PairInv
    <3> QED BY <1>1, <2>1, <3>1, <3>2 DEF PairOK, HalfDone
  <2>8. In(t, i)' <=> Of(t, i)'
    <3>1. CASE i = j
      BY <1>1, <2>1, <2>4, <2>6, <3>1 DEF In, Of, Swapped
    <3>2. CASE i = k
      BY <1>1, <2>1, <2>4, <2>6, <2>7, <3>2 DEF In, Of, Swapped
    <3> QED BY <1>8, <3>1, <3>2
  <2> QED BY <1>1, <1>4, <1>8, <2>3, <2>8, Alone
<1> QED BY <1>2, <1>6, <1>7, <1>8 DEF PairOK

LEMMA InitPair == Init => PairInv
<1> SUFFICES ASSUME Init, NEW t \in TopicNames, NEW i \in Instances
             PROVE  (\A h \in Handlers : ~About(h, t, i)) /\ (In(t, i) <=> Of(t, i))
  BY DEF PairInv, PairOK
<1>1. \A h \in Handlers : pc[h] = "no" /\ op[h].kind # "remove"
  BY DEF Init, Operation
<1>2. In(t, i) <=> Of(t, i)
  BY DEF Init, In, Of
<1> QED BY <1>1, <1>2 DEF About

LEMMA NextPair == TInv /\ PairInv /\ [Next]_vars => PairInv'
<1>1. ASSUME TInv, PairInv, Next PROVE PairInv'
  <2>1. TInv'
    BY <1>1, NextType
  <2> SUFFICES ASSUME NEW t \in TopicNames, NEW i \in Instances PROVE PairOK(t, i)'
    BY DEF PairInv
  <2> QED BY <1>1, <2>1, PairArrivals, PairQuestions, PairSubscribe, PairUnsubscribe, PairLoops, PairRecovery,
             PairRemoval, PairDeletion, PairMigration DEF Next, Answer
<1>2. ASSUME PairInv, UNCHANGED vars PROVE PairInv'
  <2>1. Doubtful' = Doubtful
    BY <1>2 DEF vars, history, Doubtful, Overlapping, Changing, OneStepAtATime
  <2>2. /\ \A h, t, i : About(h, t, i)' <=> About(h, t, i)
        /\ \A t, i : (In(t, i)' <=> In(t, i)) /\ (Of(t, i)' <=> Of(t, i))
        /\ waiting' = waiting /\ pc' = pc /\ op' = op /\ seen' = seen
    BY <1>2 DEF vars, redis, About, In, Of
  <2>3. \A h, t, i : HalfDone(h, t, i) => HalfDone(h, t, i)'
    BY <2>2 DEF HalfDone, LastAbout
  <2> QED BY <1>2, <2>1, <2>2, <2>3 DEF PairInv, PairOK
<1> QED BY <1>1, <1>2

LEMMA PairInvariant == Spec => []PairInv
BY InitPair, NextPair, TypeInvariant, PTL DEF Spec

(* The two indexes agree whenever no command is unanswered, but for the     *)
(* pairs in doubt.                                                         *)
THEOREM AgreeSafety == Spec => []IndexesAgree
<1>1. TInv /\ PairInv => IndexesAgree
  <2> SUFFICES ASSUME TInv, PairInv, Rest, NEW t \in TopicNames, NEW i \in Instances, <<t, i>> \notin skewed
               PROVE  In(t, i) <=> Of(t, i)
    BY DEF IndexesAgree, In, Of
  <2>1. \A h \in Handlers : ~Busy(h)
    BY DEF TInv, LineInv, Rest, Elements
  <2>2. \A h \in Handlers : ~About(h, t, i) /\ pc[h] # "swap"
    BY <2>1, BusyAbout DEF Busy
  <2>3. <<t, i>> \notin Doubtful
    BY <2>2, AboutLemma DEF Doubtful, Overlapping
  <2> QED BY <2>2, <2>3 DEF PairInv, PairOK
<1> QED BY <1>1, TypeInvariant, PairInvariant, PTL

-----------------------------------------------------------------------------
(* A step that ends no subscription to a topic, starts no timer of it and   *)
(* is not about to start one leaves the topic covered.                     *)
LEMMA CoverStays ==
  ASSUME NEW h \in Handlers, StepOf(h), NEW t, Covered(t),
         pc[h] # "addIndex" \/ op[h].topic # t,
         t \in pending' => t \in pending,
         pc'[h] # "expires" \/ op'[h].topic # t
  PROVE  Covered(t)'
<1>1. ASSUME NEW g \in Handlers, Joining(g, t) PROVE g # h /\ Joining(g, t)'
  BY <1>1 DEF Joining, StepOf
<1>2. ASSUME NEW f \in Handlers, pc'[f] = "expires", op'[f].topic = t
      PROVE  \E g \in Handlers : Joining(g, t)' /\ Precedes(waiting, f, g)'
  <2>1. f # h /\ pc[f] = "expires" /\ op[f].topic = t
    BY <1>2 DEF StepOf
  <2>2. PICK g \in Handlers : Joining(g, t) /\ Precedes(waiting, f, g)
    BY <2>1 DEF Covered
  <2> QED BY <1>1, <2>1, <2>2 DEF StepOf
<1>3. t \in pending' => \E g \in Handlers : Joining(g, t)'
  BY <1>1 DEF Covered
<1> QED BY <1>2, <1>3 DEF Covered

LEMMA TimerStays ==
  ASSUME NEW h \in Handlers, StepOf(h), NEW t, NEW i, TimerOK(t, i),
         pc[h] # "addIndex", pc'[h] # "expires", pending' \subseteq pending, In(t, i)' => In(t, i)
  PROVE  TimerOK(t, i)'
BY CoverStays DEF TimerOK, StepOf

LEMMA TimerSubscribe ==
  ASSUME TInv, TimerInv, NEW t \in TopicNames, NEW i \in Instances,
         NEW q \in Requests, Subscribe(q) \/ SubscribeIndex(q)
  PROVE  TimerOK(t, i)'
<1> DEFINE u == op[q].topic
           j == op[q].who
<1>1. /\ TimerOK(t, i) /\ q \in Handlers /\ Answered(q) /\ UNCHANGED <<op, seen>>
      /\ subscribers \in [TopicNames -> SUBSET Instances]
      /\ u \in TopicNames /\ j \in Instances
      /\ TypeOK /\ LineInv
  BY OpFacts DEF TimerInv, TInv, TypeOK, Handlers, Subscribe, SubscribeIndex, At
<1>2. CASE Subscribe(q)
  <2>1. pc[q] = "add" /\ pc'[q] = "addIndex" /\ HeadStepOf(q) /\ StepOf(q)
    BY <1>1, <1>2, GotoStep DEF Subscribe, At, Places
  <2>2. pending' = pending /\ subscribers' = [subscribers EXCEPT ![u] = @ \cup {j}]
    BY <1>2 DEF Subscribe, Joined
  <2>3. CASE t = u
    <3>1. Joining(q, t)'
      BY <1>1, <2>1, <2>3 DEF Joining
    <3>2. ASSUME NEW f \in Handlers, pc'[f] = "expires" PROVE Precedes(waiting, f, q)'
      <4>1. f # q /\ pc[f] = "expires"
        BY <2>1, <3>2 DEF StepOf
      <4>2. Busy(f) /\ Busy(q)'
        BY <2>1, <4>1 DEF Busy
      <4> QED BY <1>1, <1>2, <4>1, <4>2, GotoLemma DEF Subscribe, Places
    <3> QED BY <1>1, <3>1, <3>2 DEF TimerOK, Covered
  <2>4. CASE t # u
    <3>1. In(t, i)' <=> In(t, i)
      BY <1>1, <2>2, <2>4 DEF In
    <3> QED BY <1>1, <2>1, <2>2, <3>1, TimerStays
  <2> QED BY <2>3, <2>4
<1>3. CASE SubscribeIndex(q)
  <2>1. pc[q] = "addIndex" /\ pc'[q] = "done" /\ HeadStepOf(q) /\ StepOf(q)
    BY <1>1, <1>3, GotoStep DEF SubscribeIndex, At, Places
  <2>2. subscribers' = subscribers /\ pending' = pending \ {u}
    BY <1>3 DEF SubscribeIndex, Cancelled
  <2>3. In(t, i)' <=> In(t, i)
    BY <2>2 DEF In
  <2>4. CASE t # u
    BY <1>1, <2>1, <2>2, <2>3, <2>4, CoverStays DEF TimerOK, StepOf
  <2>5. ASSUME t = u, Covered(t) PROVE Covered(t)'
    <3>1. t \notin pending'
      BY <2>2, <2>5
    <3>2. ASSUME NEW f \in Handlers, pc'[f] = "expires", op'[f].topic = t
          PROVE  \E g \in Handlers : Joining(g, t)' /\ Precedes(waiting, f, g)'
      <4>1. f # q /\ pc[f] = "expires" /\ op[f].topic = t
        BY <2>1, <3>2 DEF StepOf
      <4>2. PICK g \in Handlers : Joining(g, t) /\ Precedes(waiting, f, g)
        BY <2>5, <4>1 DEF Covered
      <4>3. g # q
        BY <1>1, <1>3, <4>2, GotoLemma DEF SubscribeIndex, At, Places
      <4> QED BY <2>1, <4>1, <4>2, <4>3 DEF Joining, StepOf
    <3> QED BY <3>1, <3>2 DEF Covered
  <2> QED BY <1>1, <2>1, <2>3, <2>4, <2>5 DEF TimerOK, StepOf
<1> QED BY <1>2, <1>3

(* A topic that has subscribers is not counted empty.                       *)
LEMMA TimerLoops ==
  ASSUME TInv, TimerInv, NEW t \in TopicNames, NEW i \in Instances,
         NEW h \in Handlers, CountLeft(h) \/ ScheduleDeletion(h)
  PROVE  TimerOK(t, i)'
<1> DEFINE u == op[h].topic
<1>1. /\ TimerOK(t, i) /\ Answered(h) /\ pc[h] \in {"left", "expires"} /\ u \in TopicNames
      /\ subscribers' = subscribers /\ TypeOK
      /\ Continue(h) \/ (Goto(h, "expires") /\ UNCHANGED <<op, seen>>)
  BY OpFacts DEF TimerInv, CountLeft, ScheduleDeletion, At, redis, TInv
<1>2. StepOf(h) /\ pc'[h] \in {"expires", "done", "flush", "leave", "left"}
  BY <1>1, ContinueStep
<1>3. In(t, i)' <=> In(t, i)
  BY <1>1 DEF In
<1>4. CASE CountLeft(h)
  <2>1. pc[h] = "left" /\ pending' = pending
    BY <1>4 DEF CountLeft, At
  <2>2. ASSUME pc'[h] = "expires" PROVE op' = op /\ subscribers[u] = {}
    <3>1. CASE Continue(h)
      <4>1. op[h].kind \in {"unsubscribe", "remove", "recover"}
        BY <1>1, OpFacts
      <4>2. \E l \in Places \ {"expires", "no"} : Goto(h, l)
        BY <3>1, <4>1 DEF Continue, NextName, Places
      <4>3. pc'[h] # "expires"
        BY <1>1, <4>2 DEF Goto, TypeOK
      <4> QED BY <2>2, <4>3
    <3> QED BY <1>4, <3>1 DEF CountLeft
  <2>3. In(t, i) => pc'[h] # "expires" \/ op'[h].topic # t
    BY <2>2 DEF In
  <2> QED BY <1>1, <1>2, <1>3, <2>1, <2>3, CoverStays DEF TimerOK, StepOf
<1>5. CASE ScheduleDeletion(h)
  <2>1. pc[h] = "expires" /\ pending' \subseteq pending \cup {u} /\ Continue(h)
    BY <1>5 DEF ScheduleDeletion, At, Scheduled
  <2>2. pc'[h] # "expires"
    <3>1. op[h].kind \in {"unsubscribe", "remove", "recover"}
      BY <1>1, OpFacts
    <3>2. \E l \in Places \ {"expires", "no"} : Goto(h, l)
      BY <2>1, <3>1 DEF Continue, NextName, Places
    <3> QED BY <1>1, <3>2 DEF Goto, TypeOK
  <2>3. CASE t # u
    BY <1>1, <1>2, <1>3, <2>1, <2>2, <2>3, CoverStays DEF TimerOK, StepOf
  <2>4. ASSUME t = u, Covered(t) PROVE Covered(t)'
    <3>1. PICK g \in Handlers : Joining(g, t) /\ Precedes(waiting, h, g)
      BY <2>1, <2>4 DEF Covered
    <3>2. Joining(g, t)'
      BY <1>2, <2>1, <3>1 DEF Joining, StepOf
    <3>3. ASSUME NEW f \in Handlers, pc'[f] = "expires", op'[f].topic = t
          PROVE  \E e \in Handlers : Joining(e, t)' /\ Precedes(waiting, f, e)'
      <4>1. f # h /\ pc[f] = "expires" /\ op[f].topic = t
        BY <1>2, <2>2, <3>3 DEF StepOf
      <4>2. PICK e \in Handlers : Joining(e, t) /\ Precedes(waiting, f, e)
        BY <2>4, <4>1 DEF Covered
      <4>3. e # h
        BY <2>1, <4>2 DEF Joining
      <4> QED BY <1>2, <4>1, <4>2, <4>3 DEF Joining, StepOf
    <3> QED BY <3>2, <3>3 DEF Covered
  <2> QED BY <1>1, <1>2, <1>3, <2>3, <2>4 DEF TimerOK, StepOf
<1> QED BY <1>4, <1>5

(* The identity that replaces a subscriber is covered as that one was.      *)
LEMMA TimerMigration ==
  ASSUME TInv, PairInv, TimerInv, NEW t \in TopicNames, NEW i \in Instances,
         NEW q \in Requests, MigrateSwap(q)
  PROVE  TimerOK(t, i)'
<1> DEFINE j == op[q].who
           k == op[q].to
<1>1. /\ q \in Handlers /\ At(q, "swap") /\ TypeOK /\ j \in Instances /\ k \in Instances
      /\ subscribers \in [TopicNames -> SUBSET Instances]
      /\ subscribers' = Swapped(seen[q], j, k) /\ pending' = pending /\ Goto(q, "exists")
  BY OpFacts DEF TInv, TypeOK, Handlers, MigrateSwap, At
<1>2. \A g \in Handlers \ {q} : op'[g] = op[g] /\ seen'[g] = seen[g]
  BY <1>1 DEF MigrateSwap, Rejoin, TypeOK
<1>3. StepOf(q) /\ pc'[q] = "exists"
  BY <1>1, <1>2, GotoStep DEF Places, At
<1> SUFFICES ASSUME <<t, i>> \notin Doubtful', In(t, i)' PROVE Covered(t)'
  BY DEF TimerOK
<1>4. <<t, i>> \notin Doubtful
  BY <1>3 DEF StepOf
<1>5. In(t, i) \/ (i = k /\ t \in seen[q])
  BY <1>1 DEF In, Swapped
<1>6. CASE In(t, i)
  BY <1>1, <1>3, <1>4, <1>6, CoverStays DEF TimerInv, TimerOK, At
<1>7. CASE i = k /\ t \in seen[q]
  <2>1. <<t, j>> \notin Doubtful
    BY <1>1, <1>4, <1>7, DoubtLemma DEF DoubtFacts, At
  <2>2. About(q, t, j)
    BY <1>1 DEF About, At
  <2>3. In(t, j)
    BY <1>1, <1>7, <2>1, <2>2 DEF PairInv, PairOK, HalfDone, At
  <2>4. Covered(t)
    BY <1>1, <2>1, <2>3 DEF TimerInv, TimerOK
  <2> QED BY <1>1, <1>3, <2>4, CoverStays DEF At
<1> QED BY <1>5, <1>6, <1>7

(* The other commands neither add subscribers nor start timers.             *)
Quiet(h) ==
  /\ StepOf(h) /\ pc[h] # "addIndex" /\ pc'[h] # "expires" /\ pending' \subseteq pending
  /\ \A t \in TopicNames : subscribers'[t] \subseteq subscribers[t]

LEMMA QuietArrivals ==
  ASSUME TInv,
         \/ \E q \in Requests, o \in Requested : Request(q, o)
         \/ \E u \in TopicNames : TimerFires(u)
         \/ RecoverEmptyTopics
  PROVE  \E h \in Handlers : Quiet(h)
<1>1. TypeOK
  BY DEF TInv
<1>2. CASE \E q \in Requests, o \in Requested : Request(q, o)
  <2>1. PICK q \in Requests, o \in Requested : Request(q, o)
    BY <1>2
  <2>2. PICK l \in FirstOf(o) : Arrives(q, l)
    BY <2>1 DEF Request
  <2>3. l \in {"exists", "add", "leave", "topics", "migrate"}
    BY DEF Requested, Operation, FirstOf
  <2>4. q \in Handlers /\ ~Busy(q) /\ pc[q] = "no" /\ UNCHANGED <<redis, seen, pending>>
    BY <2>1 DEF Request, Handlers, Busy
  <2>5. StepOf(q) /\ pc'[q] = l
    BY <1>1, <2>1, <2>2, <2>3, <2>4, ArrivesStep DEF Request, TypeOK, Places
  <2> QED BY <2>3, <2>4, <2>5 DEF Quiet, redis
<1>3. CASE \E u \in TopicNames : TimerFires(u)
  <2>1. PICK u \in TopicNames : TimerFires(u)
    BY <1>3
  <2>2. /\ u \in Handlers /\ ~Busy(u) /\ pc[u] # "addIndex" /\ Arrives(u, "timer")
        /\ UNCHANGED <<redis, op, seen>> /\ pending' \subseteq pending
    BY <2>1 DEF TimerFires, Handlers, Busy
  <2>3. StepOf(u) /\ pc'[u] = "timer"
    BY <2>2, ArrivesStep DEF Places
  <2> QED BY <2>2, <2>3 DEF Quiet, redis
<1>4. CASE RecoverEmptyTopics
  <2>1. /\ Startup \in Handlers /\ ~Busy(Startup) /\ pc[Startup] = "no" /\ Arrives(Startup, "names")
        /\ UNCHANGED <<redis, op, seen, pending>>
    BY <1>4 DEF RecoverEmptyTopics, Handlers, Busy
  <2>2. StepOf(Startup) /\ pc'[Startup] = "names"
    BY <2>1, ArrivesStep DEF Places
  <2> QED BY <2>1, <2>2 DEF Quiet, redis
<1> QED BY <1>2, <1>3, <1>4

LEMMA QuietAnswer ==
  ASSUME TInv, NEW h \in Handlers, NEW l \in Places \ {"no", "expires"}, Answered(h), Goto(h, l),
         pc[h] # "addIndex", UNCHANGED pending,
         \A g \in Handlers \ {h} : op'[g] = op[g] /\ seen'[g] = seen[g],
         \A t \in TopicNames : subscribers'[t] \subseteq subscribers[t]
  PROVE  Quiet(h)
BY GotoStep DEF Quiet

LEMMA QuietRequests ==
  ASSUME TInv, NEW q \in Requests,
         \/ TopicExists(q) \/ ReadTopic(q) \/ HealIndex(q) \/ CountSubscribers(q) \/ WriteTopic(q)
         \/ Unsubscribe(q) \/ UnsubscribeIndex(q)
         \/ GetSubscribers(q) \/ RemovedTopics(q) \/ FlushQueue(q) \/ Deregister(q) \/ MigrateRead(q)
  PROVE  Quiet(q)
<1>1. q \in Handlers /\ TypeOK
  BY DEF Handlers, TInv
<1>2. CASE TopicExists(q)
  <2>1. op[q].kind \in {"create", "createKept", "join", "subscribe", "unsubscribe", "delete"}
    BY <1>1, <1>2, OpFacts DEF TopicExists, At
  <2> QED BY <1>1, <1>2, <2>1, QuietAnswer DEF TopicExists, At, Places, redis
<1>3. CASE ReadTopic(q) \/ GetSubscribers(q) \/ FlushQueue(q)
  BY <1>1, <1>3, QuietAnswer DEF ReadTopic, GetSubscribers, FlushQueue, At, Places, redis
<1>4. CASE HealIndex(q) \/ CountSubscribers(q) \/ WriteTopic(q)
  BY <1>1, <1>4, QuietAnswer DEF HealIndex, CountSubscribers, WriteTopic, Created, At, Places, redis
<1>5. CASE Unsubscribe(q)
  <2>1. op[q].topic \in TopicNames
    BY <1>1, <1>5, OpFacts DEF Unsubscribe, At
  <2>2. \A t \in TopicNames : subscribers'[t] \subseteq subscribers[t]
    BY <1>1, <1>5, <2>1 DEF Unsubscribe, Left, TypeOK
  <2> QED BY <1>1, <1>5, <2>2, QuietAnswer DEF Unsubscribe, At, Places
<1>6. CASE UnsubscribeIndex(q) \/ Deregister(q)
  BY <1>1, <1>6, QuietAnswer DEF UnsubscribeIndex, Deregister, At, Places
<1>7. CASE RemovedTopics(q)
  <2>1. \A g \in Handlers \ {q} : op'[g] = op[g] /\ seen'[g] = seen[g]
    BY <1>1, <1>7 DEF RemovedTopics, TypeOK
  <2>2. \E l \in {"flush", "leave"} : Goto(q, l)
    BY <1>7 DEF RemovedTopics
  <2> QED BY <1>1, <1>7, <2>1, <2>2, QuietAnswer DEF RemovedTopics, At, Places, redis
<1>8. CASE MigrateRead(q)
  <2>1. \A g \in Handlers \ {q} : op'[g] = op[g] /\ seen'[g] = seen[g]
    BY <1>1, <1>8 DEF MigrateRead, Rejoin, TypeOK
  <2>2. \E l \in {"exists", "swap"} : Goto(q, l)
    BY <1>8 DEF MigrateRead
  <2> QED BY <1>1, <1>8, <2>1, <2>2, QuietAnswer DEF MigrateRead, At, Places, redis
<1> QED BY <1>2, <1>3, <1>4, <1>5, <1>6, <1>7, <1>8

LEMMA QuietHandlers ==
  ASSUME TInv,
         \/ \E u \in TopicNames : TimerCount(u) \/ TimerReadsHash(u)
         \/ \E h \in Handlers : ReadMembers(h) \/ UnindexMembers(h) \/ DropTopic(h)
         \/ RecoverNames
  PROVE  \E h \in Handlers : Quiet(h)
<1>1. TypeOK
  BY DEF TInv
<1>2. CASE \E u \in TopicNames : TimerCount(u) \/ TimerReadsHash(u)
  BY <1>2, QuietAnswer DEF TimerCount, TimerReadsHash, At, Places, redis, Handlers
<1>3. ASSUME NEW h \in Handlers, ReadMembers(h) \/ UnindexMembers(h) \/ DropTopic(h) PROVE Quiet(h)
  <2>1. \A g \in Handlers \ {h} : op'[g] = op[g] /\ seen'[g] = seen[g]
    BY <1>1, <1>3 DEF ReadMembers, UnindexMembers, DropTopic, TypeOK
  <2>2. op[h].topic \in TopicNames
    BY <1>3, OpFacts DEF ReadMembers, UnindexMembers, DropTopic, At
  <2>3. \A t \in TopicNames : subscribers'[t] \subseteq subscribers[t]
    BY <1>1, <1>3, <2>2 DEF ReadMembers, UnindexMembers, DropTopic, redis, TypeOK
  <2> QED BY <1>3, <2>1, <2>3, QuietAnswer DEF ReadMembers, UnindexMembers, DropTopic, At, Places
<1>4. CASE RecoverNames
  <2>1. \A g \in Handlers \ {Startup} : op'[g] = op[g] /\ seen'[g] = seen[g]
    BY <1>1, <1>4 DEF RecoverNames, TypeOK
  <2>2. \E l \in {"done", "left"} : Goto(Startup, l)
    BY <1>4 DEF RecoverNames
  <2> QED BY <1>4, <2>1, <2>2, QuietAnswer DEF RecoverNames, At, Places, redis, Handlers
<1> QED BY <1>2, <1>3, <1>4

LEMMA InitTimer == Init => TimerInv
BY DEF Init, TimerInv, TimerOK, Covered

LEMMA NextTimer == TInv /\ PairInv /\ TimerInv /\ [Next]_vars => TimerInv'
<1>1. ASSUME TInv, PairInv, TimerInv, Next PROVE TimerInv'
  <2> SUFFICES ASSUME NEW t \in TopicNames, NEW i \in Instances PROVE TimerOK(t, i)'
    BY DEF TimerInv
  <2>1. ASSUME \E h \in Handlers : Quiet(h) PROVE TimerOK(t, i)'
    BY <1>1, <2>1, TimerStays DEF Quiet, TimerInv, In
  <2> QED BY <1>1, <2>1, QuietArrivals, QuietRequests, QuietHandlers, TimerSubscribe, TimerLoops, TimerMigration
          DEF Next, Answer, Handlers
<1>2. ASSUME TimerInv, UNCHANGED vars PROVE TimerInv'
  <2>1. Doubtful' = Doubtful
    BY <1>2 DEF vars, history, Doubtful, Overlapping, Changing, OneStepAtATime
  <2> QED BY <1>2, <2>1 DEF vars, redis, TimerInv, TimerOK, Covered, Joining, In
<1> QED BY <1>1, <1>2

LEMMA TimerInvariant == Spec => []TimerInv
BY InitTimer, NextTimer, TypeInvariant, PairInvariant, PTL DEF Spec

(* Whenever no command is unanswered, a topic with a subscriber that is not *)
(* in doubt has no timer running.                                          *)
THEOREM NoTimerSafety == Spec => []NoTimerWhileSubscribed
<1>1. TInv /\ TimerInv => NoTimerWhileSubscribed
  <2> SUFFICES ASSUME TInv, TimerInv, Rest, NEW t \in pending, NEW i \in subscribers[t], <<t, i>> \notin skewed
               PROVE  FALSE
    BY DEF NoTimerWhileSubscribed
  <2>1. t \in TopicNames /\ i \in Instances
    BY DEF TInv, TypeOK
  <2>2. \A h \in Handlers : ~Busy(h)
    BY DEF TInv, LineInv, Rest, Elements
  <2>3. \A h \in Handlers : ~About(h, t, i) /\ pc[h] \notin {"swap", "addIndex"}
    BY <2>2, BusyAbout DEF Busy
  <2>4. <<t, i>> \notin Doubtful
    BY <2>1, <2>3, AboutLemma DEF Doubtful, Overlapping
  <2> QED BY <2>1, <2>3, <2>4 DEF TimerInv, TimerOK, Covered, Joining, In
<1> QED BY <1>1, TypeInvariant, TimerInvariant, PTL
=============================================================================
