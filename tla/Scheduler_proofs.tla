--------------------------- MODULE Scheduler_proofs ---------------------------
(***************************************************************************)
(* Schedules stay whole, counted and punctual for any numbers of schedules *)
(* and requests, wherever crashes cut the operations: what holds of a      *)
(* schedule between two commands of the handler that works on it.          *)
(***************************************************************************)
EXTENDS Scheduler, RedisLists_proofs

(* A handler that awaits a command is in the line.                          *)
Busy(h) == pc[h] \notin {"no", "done", "rejected"}
LineInv == \A h \in Handlers : Busy(h) => h \in Elements(waiting)

Places == {"no", "due", "get", "route", "advance", "score", "list", "load", "toggle", "store", "check",
           "del", "srem", "zrem", "ids", "done", "rejected"}
Resting == {"no", "due", "ids", "done", "rejected"}

(* Which commands a handler issues, of which operations, and what it has in *)
(* hand.                                                                   *)
PollPlaces    == {"no", "due", "get", "route", "advance", "score", "del", "srem", "zrem"}
StartupPlaces == {"no", "ids", "get", "advance", "score", "srem", "done"}
Asked(l, k) ==
  /\ l \notin {"due", "get", "route", "advance", "ids"}
  /\ l = "load" => k \in Updates
  /\ l = "toggle" => k \in Toggles
  /\ l = "store" => k \in Updates \cup {"create"}
  /\ l = "list" => k = "create"
  /\ l = "score" => k \in Reschedules \cup {"create"}
  /\ l \in {"check", "del", "srem", "zrem"} => k = "delete"
PollOK(p) ==
  /\ pc[p] \in PollPlaces /\ polledAt[p] <= now
  /\ pc[p] # "no" => pc[Startup] = "done"
StartupOK == pc[Startup] \in StartupPlaces
RequestOK(q) == Asked(pc[q], op[q].kind) /\ (pc[q] = "no" => item[q] = None)
HandOK(h) ==
  /\ pc[h] \notin Resting => item[h] \in Schedules
  /\ h \in Loops /\ pc[h] \in Resting => item[h] = None /\ todo[h] = {}
  /\ h \in Requests => todo[h] = {}
  /\ item[h] \notin todo[h]
OpInv ==
  /\ \A p \in Polls : PollOK(p)
  /\ StartupOK
  /\ \A q \in Requests : RequestOK(q)
  /\ \A h \in Handlers : HandOK(h)

TInv == TypeOK /\ LineInv /\ OpInv

(* The recovery has been at s, or was not to go there.                      *)
Visited(s) ==
  /\ pc[Startup] \notin {"no", "ids"}
  /\ s # item[Startup] /\ s \notin todo[Startup]

(* What holds of a schedule of which no operation is under way.             *)
Sound(s)    == Known(s) /\ (hash[s].enabled => score[s] = hash[s].next)
Settled(s)  == Visited(s) /\ s \in index => Sound(s)
Limited(s)  == Known(s) => Within(hash[s])
Tallied(s, n) == Known(s) => fired[s] <= hash[s].fireCount + mishaps + n
Blank(s)    == ~Known(s) => hash[s].max = None
Idle(s)     == Settled(s) /\ Limited(s) /\ Tallied(s, 0) /\ Blank(s)

(* What an update has made of the schedule it read.                         *)
Revised(q, s) ==
  LET k == op[q].kind
      c == copy[q]
      r == hash[s]
  IN  /\ r.known /\ c.known /\ c.fireCount = r.fireCount
      /\ (c.max \in {r.max, None} /\ c.limitedAt = r.limitedAt) \/ c.limitedAt = r.fireCount
      /\ k \notin Reschedules => c.next = r.next
      /\ k \notin Toggles => c.enabled = r.enabled
      /\ k = "pause" => ~c.enabled

(* What holds of it between two commands of the only handler at work on it; *)
(* first what is particular to a request.                                  *)
Amid(q, s) ==
  LET c == copy[q]
      r == hash[s]
      l == pc[q]
      k == op[q].kind
  IN  /\ l = "del" => Settled(s)
      /\ l \in {"toggle", "store"} /\ k # "create" => Revised(q, s)
      /\ l = "store" /\ k \in Plain => Settled(s)
      /\ l = "store" /\ k \in Toggles => score[s] = IF c.enabled THEN c.next ELSE None
      /\ l = "store" /\ k = "create" =>
           /\ ~r.known /\ s \notin index /\ fired[s] = 0
           /\ c.known /\ c.fireCount = 0 /\ (c.max # None => c.max > 0)
      /\ l \in {"store", "list", "score"} /\ k = "create" => score[s] = None
Phase(h, s) ==
  LET c == copy[h]
      r == hash[s]
      l == pc[h]
  IN  /\ Limited(s) /\ Blank(s)
      /\ Tallied(s, IF h \in Polls /\ l \in {"advance", "del"} THEN 1 ELSE 0)
      /\ l \in {"get", "route", "load", "check", "toggle"} => Settled(s)
      /\ l = "route"   => c = r /\ r.known /\ r.enabled
      /\ l = "advance" => r.known /\ (h \in Polls => /\ c.fireCount = r.fireCount + 1
                                                     /\ r.max # None => c.fireCount < r.max)
      /\ l \in {"list", "score"} => r.known /\ c.next = r.next
      /\ l = "srem"    => ~r.known
      /\ l = "zrem"    => ~(r.known /\ r.enabled) /\ (s \in index => r.known)
      /\ h \in Requests => Amid(h, s)

Meddled == overlapped \cup Overlapping
ScheduleOK(s) ==
  s \notin Meddled =>
    /\ (\A h \in Handlers : ~WorksOn(h, s)) => Idle(s)
    /\ \A h \in Handlers : WorksOn(h, s) => Phase(h, s)
ScheduleInv == \A s \in Schedules : ScheduleOK(s)

(* What a poll has listed is due or has been changed since the start.       *)
OnePoll == \A p, r \in Polls : p = r
Changing(q, s) == item[q] = s /\ op[q].kind \in Reschedules \cup {"resume"}
Creating(q, s) == item[q] = s /\ pc[q] \in {"store", "list", "score"} /\ op[q].kind = "create"
Early(s) ==
  Known(s) /\ hash[s].enabled /\ s \in index /\ hash[s].next > now /\ ~\E q \in Requests : Changing(q, s)
Wanted(p, s) == s \in todo[p] \/ (item[p] = s /\ pc[p] \in {"get", "route"})
PunctualOK(s) ==
  s \notin overlapped =>
    /\ \A p \in Polls : Wanted(p, s) => ~Early(s)
    /\ \A p \in Polls : item[p] = s /\ pc[p] = "route" => Known(s) /\ hash[s].enabled
    /\ \A q \in Requests, p \in Polls : Creating(q, s) => s \notin todo[p]
PunctualInv == \A s \in Schedules : PunctualOK(s)

-----------------------------------------------------------------------------
(* What goes on to its next command goes to the end of the line, or leaves  *)
(* it; what begins goes to its end.                                        *)
LEMMA GotoLemma ==
  ASSUME TypeOK, LineInv, NEW h \in Handlers, NEW l \in Places, Answered(h), Goto(h, l)
  PROVE  /\ waiting' \in Seq(Handlers) /\ LineInv'
         /\ pc' = [pc EXCEPT ![h] = l] /\ pc' \in [Handlers -> Places]
         /\ overlapped' = Meddled
<1>1. /\ waiting \in Seq(Handlers) /\ waiting # << >> /\ h = Head(waiting)
      /\ \A g \in Handlers : Busy(g) => g \in Elements(waiting)
  BY DEF TypeOK, LineInv, Answered
<1>2. pc' = [pc EXCEPT ![h] = l] /\ pc' \in [Handlers -> Places] /\ overlapped' = Meddled
  BY DEF TypeOK, Goto, Places, Meddled
<1>3. \A g \in Handlers \ {h} : Busy(g)' <=> Busy(g)
  BY <1>2 DEF TypeOK, Busy
<1>4. Busy(h)' => l \notin {"no", "done", "rejected"}
  BY <1>2 DEF TypeOK, Busy
<1>5. /\ LPop(waiting) \in Seq(Handlers)
      /\ Elements(waiting) = Elements(LPop(waiting)) \cup {h} /\ LPop(waiting) = Tail(waiting)
  BY <1>1, LPopLemma DEF LPop
<1>6. CASE l \in {"no", "done", "rejected"}
  BY <1>1, <1>2, <1>3, <1>4, <1>5, <1>6 DEF Goto, Resolved, LineInv
<1>7. CASE l \notin {"no", "done", "rejected"}
  <2> DEFINE t == LPop(waiting)
  <2>1. waiting' = RPush(t, h) /\ t \in Seq(Handlers) /\ Elements(waiting) = Elements(t) \cup {h}
    BY <1>5, <1>1, <1>7 DEF Goto, AwaitAgain, RPush
  <2> HIDE DEF t
  <2>2. RPush(t, h) \in Seq(Handlers) /\ Elements(RPush(t, h)) = Elements(t) \cup {h}
    BY <2>1, RPushLemma
  <2>3. waiting' \in Seq(Handlers)
    BY <2>1, <2>2
  <2>4. Elements(waiting') = Elements(waiting)
    <3>1. Elements(waiting') = Elements(RPush(t, h))
      BY <2>1
    <3> QED BY <3>1, <2>1, <2>2
  <2>5. h \in Elements(waiting)
    BY <2>1
  <2>6. LineInv'
    BY <1>1, <1>3, <2>4, <2>5 DEF LineInv
  <2> QED BY <1>2, <2>3, <2>6
<1> QED BY <1>6, <1>7

LEMMA ArrivesLemma ==
  ASSUME TypeOK, LineInv, NEW h \in Handlers, NEW l \in Places, Arrives(h, l)
  PROVE  /\ waiting' \in Seq(Handlers) /\ LineInv'
         /\ pc' = [pc EXCEPT ![h] = l] /\ pc' \in [Handlers -> Places]
         /\ overlapped' = Meddled
<1>1. waiting' = RPush(waiting, h)
  BY DEF Arrives, Await, RPush
<1>2. waiting' \in Seq(Handlers) /\ Elements(waiting') = Elements(waiting) \cup {h}
  BY <1>1, RPushLemma DEF TypeOK
<1>3. pc' = [pc EXCEPT ![h] = l] /\ pc' \in [Handlers -> Places] /\ overlapped' = Meddled
  BY DEF TypeOK, Arrives, Places, Meddled
<1>4. \A g \in Handlers \ {h} : Busy(g)' <=> Busy(g)
  BY <1>3 DEF TypeOK, Busy
<1> QED BY <1>2, <1>3, <1>4 DEF LineInv

(* The next fire is a time.                                                 *)
LEMMA NextFireLemma ==
  ASSUME NEW p \in Nat \ {0}, NEW t \in Nat
  PROVE  NextFire(p, t) \in Nat
<1>1. t \div p \in Nat
  OBVIOUS
<1> QED BY <1>1 DEF NextFire

LEMMA MadeLemma ==
  ASSUME TypeOK, NEW tpl \in Templates
  PROVE  Made(tpl) \in Record /\ Made(tpl).max = tpl.max /\ (tpl.max # None => tpl.max \in Nat /\ tpl.max > 0)
<1> USE SchedulerAssumptions
<1>1. /\ tpl.period \in Nat \ {0} /\ tpl.max \in (Nat \ {0}) \cup {None}
      /\ tpl.expires \in Nat \cup {None} /\ now \in Nat
  BY DEF TypeOK
<1>2. NextFire(tpl.period, now) \in Nat
  BY <1>1, NextFireLemma
<1> QED BY <1>1, <1>2 DEF Made, Record

LEMMA InitType == Init => TInv
<1> SUFFICES ASSUME Init PROVE TInv
  OBVIOUS
<1> USE SchedulerAssumptions
<1>1. Nothing \in Record
  BY DEF Nothing, Record
<1>2. now \in Nat /\ \A tpl \in Templates : Made(tpl) \in Record
  <2>1. now \in Nat
    BY DEF Init
  <2>2. ASSUME NEW tpl \in Templates PROVE Made(tpl) \in Record
    <3>1. /\ tpl.period \in Nat \ {0} /\ tpl.max \in (Nat \ {0}) \cup {None}
          /\ tpl.expires \in Nat \cup {None}
      OBVIOUS
    <3>2. NextFire(tpl.period, now) \in Nat
      BY <2>1, <3>1, NextFireLemma
    <3> QED BY <3>1, <3>2 DEF Made, Record
  <2> QED BY <2>1, <2>2
<1>3. hash \in [Schedules -> Record]
  BY <1>1, <1>2 DEF Init
<1>4. score \in [Schedules -> Nat \cup {None}]
  BY <1>3 DEF Init, Record
<1>5. TypeOK
  BY <1>1, <1>3, <1>4 DEF Init, TypeOK, Handlers
<1>6. LineInv
  BY DEF Init, LineInv, Busy
<1>7. OpInv
  BY DEF Init, OpInv, PollOK, StartupOK, RequestOK, Asked, HandOK, Handlers, Loops, Resting,
              PollPlaces, StartupPlaces
<1> QED BY <1>5, <1>6, <1>7 DEF TInv

(* A step of h leaves the others as they are.                               *)
LEMMA OthersOK ==
  ASSUME TInv, NEW h \in Handlers, NEW l \in Places, pc' = [pc EXCEPT ![h] = l], pc[h] # "done",
         \A g \in Handlers \ {h} : /\ item'[g] = item[g] /\ todo'[g] = todo[g]
                                   /\ g \in Requests => op'[g] = op[g]
                                   /\ g \in Polls => polledAt'[g] = polledAt[g],
         now' = now, HandOK(h)',
         h \in Polls => PollOK(h)', h = Startup => StartupOK', h \in Requests => RequestOK(h)'
  PROVE  OpInv'
<1> USE SchedulerAssumptions
<1>1. \A g \in Handlers \ {h} : pc'[g] = pc[g]
  BY DEF TInv, TypeOK
<1>2. \A g \in Handlers : HandOK(g)'
  BY <1>1 DEF TInv, OpInv, HandOK
<1>3. \A p \in Polls : PollOK(p)'
  <2> SUFFICES ASSUME NEW p \in Polls, p # h PROVE PollOK(p)'
    OBVIOUS
  <2>1. p \in Handlers /\ Startup \in Handlers /\ PollOK(p)
    BY DEF Handlers, TInv, OpInv
  <2>2. pc'[p] = pc[p] /\ polledAt'[p] = polledAt[p]
    BY <1>1, <2>1
  <2>3. pc[Startup] = "done" => pc'[Startup] = "done"
    BY <1>1, <2>1
  <2> QED BY <2>1, <2>2, <2>3 DEF PollOK
<1>4. StartupOK'
  BY <1>1 DEF TInv, OpInv, StartupOK, Handlers
<1>5. \A q \in Requests : RequestOK(q)'
  <2> SUFFICES ASSUME NEW q \in Requests, q # h PROVE RequestOK(q)'
    OBVIOUS
  <2>1. q \in Handlers /\ RequestOK(q)
    BY DEF Handlers, TInv, OpInv
  <2> QED BY <1>1, <2>1 DEF RequestOK
<1> QED BY <1>2, <1>3, <1>4, <1>5 DEF OpInv

(* What an answered command must show to keep the types: where it goes on   *)
(* from, that it goes where its handler goes, and the types of its writes.  *)
DataType ==
  /\ hash \in [Schedules -> Record] /\ score \in [Schedules -> Nat \cup {None}]
  /\ leftover \subseteq Schedules /\ index \subseteq Schedules /\ fired \in [Schedules -> Nat]
  /\ copy \in [Handlers -> Record]

LEMMA PlainType ==
  ASSUME TInv, NEW h \in Handlers, NEW l \in Places, Answered(h), pc[h] \notin Resting, Goto(h, l),
         DataType', UNCHANGED <<item, todo, op, polledAt, now, mishaps>>,
         h \in Polls => l \in PollPlaces \ Resting,
         h = Startup => l \in StartupPlaces \ Resting,
         h \in Requests => l # "no" /\ Asked(l, op[h].kind)
  PROVE  TInv'
<1> USE SchedulerAssumptions
<1>1. /\ waiting' \in Seq(Handlers) /\ LineInv' /\ overlapped' = Meddled
      /\ pc' = [pc EXCEPT ![h] = l] /\ pc' \in [Handlers -> Places]
  BY GotoLemma DEF TInv
<1>2. pc'[h] = l /\ pc[h] # "done"
  BY <1>1 DEF TInv, TypeOK, Resting
<1>3. TypeOK'
  <2>1. Meddled \subseteq Schedules
    BY DEF TInv, TypeOK, Meddled, Overlapping
  <2> QED BY <1>1, <2>1 DEF TInv, TypeOK, DataType, Places
<1>4. HandOK(h)'
  <2>1. HandOK(h) /\ (h \in Loops => l \notin Resting)
    BY DEF TInv, OpInv, Loops
  <2> QED BY <1>2, <2>1 DEF HandOK
<1>5. h \in Polls => PollOK(h)'
  <2> SUFFICES ASSUME h \in Polls PROVE PollOK(h)'
    OBVIOUS
  <2>1. PollOK(h) /\ pc[h] # "no" /\ h # Startup /\ Startup \in Handlers
    BY DEF TInv, OpInv, Resting, Handlers
  <2>2. pc'[Startup] = pc[Startup]
    BY <1>1, <2>1 DEF TInv, TypeOK
  <2> QED BY <1>2, <2>1, <2>2 DEF PollOK
<1>6. h = Startup => StartupOK'
  BY <1>2 DEF StartupOK
<1>7. h \in Requests => RequestOK(h)'
  BY <1>2 DEF RequestOK
<1>8. OpInv'
  BY <1>1, <1>2, <1>4, <1>5, <1>6, <1>7, OthersOK
<1> QED BY <1>1, <1>3, <1>8 DEF TInv

LEMMA NextIdType ==
  ASSUME TInv, NEW h \in Loops, NEW ids \in SUBSET Schedules, Answered(h), pc[h] \notin {"no", "done"},
         NextId(h, ids), ids = todo[h] \/ todo[h] = {},
         hash' \in [Schedules -> Record] /\ score' \in [Schedules -> Nat \cup {None}],
         leftover' \subseteq Schedules /\ index' \subseteq Schedules /\ fired' \in [Schedules -> Nat],
         UNCHANGED <<op, polledAt, now>>, mishaps' = mishaps \/ mishaps' \in Nat
  PROVE  TInv'
<1> USE SchedulerAssumptions
<1>1. h \in Handlers /\ h \notin Requests /\ (h \in Polls \/ h = Startup) /\ EndOf(h) \in {"no", "done"}
  BY DEF Handlers, Loops, EndOf
<1>2. PICK l \in {EndOf(h), "get"} :
        /\ Goto(h, l)
        /\ \/ l = EndOf(h) /\ ids = {} /\ item' = [item EXCEPT ![h] = None] /\ UNCHANGED todo
           \/ l = "get" /\ \E s \in ids : /\ item' = [item EXCEPT ![h] = s]
                                          /\ todo' = [todo EXCEPT ![h] = ids \ {s}]
  BY DEF NextId
<1>3. /\ waiting' \in Seq(Handlers) /\ LineInv' /\ overlapped' = Meddled
      /\ pc' = [pc EXCEPT ![h] = l] /\ pc' \in [Handlers -> Places]
  BY <1>1, <1>2, GotoLemma DEF TInv, Places
<1>4. pc'[h] = l /\ l \in Places
  BY <1>1, <1>2, <1>3 DEF TInv, TypeOK, Places
<1>5. copy' \in [Handlers -> Record] /\ Meddled \subseteq Schedules
  <2>1. Nothing \in Record
    BY DEF Nothing, Record
  <2> QED BY <2>1 DEF NextId, TInv, TypeOK, Meddled, Overlapping
<1>6. /\ item' \in [Handlers -> Schedules \cup {None}] /\ todo' \in [Handlers -> SUBSET Schedules]
      /\ \A g \in Handlers \ {h} : item'[g] = item[g] /\ todo'[g] = todo[g]
  <2>1. item \in [Handlers -> Schedules \cup {None}] /\ todo \in [Handlers -> SUBSET Schedules]
    BY DEF TInv, TypeOK
  <2>2. CASE item' = [item EXCEPT ![h] = None] /\ UNCHANGED todo
    BY <1>1, <2>1, <2>2
  <2>3. ASSUME NEW s \in ids, item' = [item EXCEPT ![h] = s], todo' = [todo EXCEPT ![h] = ids \ {s}]
        PROVE  /\ item' \in [Handlers -> Schedules \cup {None}] /\ todo' \in [Handlers -> SUBSET Schedules]
               /\ \A g \in Handlers \ {h} : item'[g] = item[g] /\ todo'[g] = todo[g]
    BY <1>1, <2>1, <2>3
  <2> QED BY <1>2, <2>2, <2>3
<1>7. TypeOK'
  <2>1. /\ op' = op /\ polledAt' = polledAt /\ now' = now /\ mishaps' \in Nat
        /\ overlapped' \subseteq Schedules
    BY <1>3, <1>5 DEF TInv, TypeOK
  <2> QED BY <1>3, <1>5, <1>6, <2>1 DEF TInv, TypeOK, Places
<1>8. HandOK(h)'
  <2>1. CASE l = "get"
    <3>1. PICK s \in ids : item' = [item EXCEPT ![h] = s] /\ todo' = [todo EXCEPT ![h] = ids \ {s}]
      BY <1>1, <1>2, <2>1
    <3>2. item'[h] = s /\ todo'[h] = ids \ {s} /\ s \in Schedules
      BY <1>1, <3>1 DEF TInv, TypeOK
    <3> QED BY <1>1, <1>4, <2>1, <3>2 DEF HandOK, Resting
  <2>2. CASE l = EndOf(h) /\ l # "get"
    <3>1. item'[h] = None /\ todo'[h] = todo[h] /\ todo[h] \subseteq Schedules
      BY <1>1, <1>2, <2>2 DEF TInv, TypeOK
    <3>2. todo[h] = {}
      BY <1>2, <2>2
    <3> QED BY <1>1, <1>4, <2>2, <3>1, <3>2 DEF HandOK, Resting, Loops
  <2> QED BY <1>2, <2>1, <2>2
<1>9. h \in Polls => PollOK(h)'
  <2> SUFFICES ASSUME h \in Polls PROVE PollOK(h)'
    OBVIOUS
  <2>1. PollOK(h) /\ h # Startup /\ Startup \in Handlers /\ l \in {"no", "get"}
    BY <1>2 DEF TInv, OpInv, Handlers, EndOf
  <2>2. pc'[Startup] = pc[Startup]
    BY <1>3, <2>1 DEF TInv, TypeOK
  <2> QED BY <1>4, <2>1, <2>2 DEF PollOK, PollPlaces
<1>10. h = Startup => StartupOK'
  BY <1>2, <1>4 DEF StartupOK, EndOf, StartupPlaces
<1>11. OpInv'
  BY <1>1, <1>3, <1>4, <1>6, <1>8, <1>9, <1>10, OthersOK
<1> QED BY <1>3, <1>7, <1>11 DEF TInv

LEMMA ContinueType ==
  ASSUME TInv, NEW h \in Handlers, Answered(h), pc[h] \notin Resting, Continue(h),
         hash' \in [Schedules -> Record] /\ score' \in [Schedules -> Nat \cup {None}],
         leftover' \subseteq Schedules /\ index' \subseteq Schedules /\ fired' \in [Schedules -> Nat],
         UNCHANGED <<op, polledAt, now, mishaps>>
  PROVE  TInv'
<1>1. CASE h \in Loops
  <2>1. NextId(h, todo[h]) /\ todo[h] \in SUBSET Schedules
    BY <1>1 DEF Continue, TInv, TypeOK
  <2> QED BY <1>1, <2>1, NextIdType DEF Resting
<1>2. CASE h \notin Loops
  <2>1. Goto(h, "done") /\ UNCHANGED <<item, todo, copy>>
    BY <1>2 DEF Continue
  <2>2. h \in Requests /\ h \notin Polls /\ h # Startup
    BY <1>2 DEF Handlers, Loops
  <2>3. Asked("done", op[h].kind) /\ DataType'
    BY <2>1 DEF Asked, DataType, TInv, TypeOK
  <2> QED BY <2>1, <2>2, <2>3, PlainType DEF Places
<1> QED BY <1>1, <1>2

Operation == [kind : Updates \cup {"none", "create", "delete"}, value : Nat \ {0}]

(* The commands that begin: those of a poll, a recovery and a request.      *)
LEMMA ArrivalsType ==
  ASSUME TInv
  PROVE  /\ \A p \in Polls : PollBegins(p) => TInv'
         /\ Recover => TInv'
         /\ \A q \in Requests, s \in Schedules :
              /\ \A tpl \in Templates : Create(q, s, tpl) => TInv'
              /\ \A k \in Updates, n \in Values : Update(q, s, [kind |-> k, value |-> n]) => TInv'
              /\ Delete(q, s) => TInv'
<1> USE SchedulerAssumptions
<1>0. Meddled \subseteq Schedules
  BY DEF TInv, TypeOK, Meddled, Overlapping
<1>1. ASSUME NEW p \in Polls, PollBegins(p) PROVE TInv'
  <2>1. p \in Handlers /\ p \notin Requests /\ p # Startup /\ Startup \in Handlers
    BY DEF Handlers
  <2>2. /\ waiting' \in Seq(Handlers) /\ LineInv' /\ overlapped' = Meddled
        /\ pc' = [pc EXCEPT ![p] = "due"] /\ pc' \in [Handlers -> Places]
    BY <1>1, <2>1, ArrivesLemma DEF PollBegins, TInv, Places
  <2>3. /\ polledAt' \in [Polls -> Nat] /\ polledAt'[p] = now
        /\ \A g \in Polls \ {p} : polledAt'[g] = polledAt[g]
    BY <1>1 DEF PollBegins, TInv, TypeOK
  <2>4. UNCHANGED <<redis, op, item, todo, copy, now, mishaps, fired>>
    BY <1>1 DEF PollBegins
  <2>5. TypeOK'
    BY <1>0, <2>2, <2>3, <2>4 DEF TInv, TypeOK, Places, redis
  <2>6. pc'[p] = "due" /\ pc[p] = "no" /\ pc'[Startup] = "done"
    BY <1>1, <2>1, <2>2 DEF PollBegins, TInv, TypeOK
  <2>7. HandOK(p)'
    <3>1. HandOK(p) /\ p \in Loops
      BY <2>1 DEF TInv, OpInv, Loops
    <3> QED BY <2>1, <2>4, <2>6, <3>1 DEF HandOK, Resting
  <2>8. PollOK(p)'
    BY <2>3, <2>4, <2>6 DEF PollOK, PollPlaces, TInv, TypeOK
  <2>9. OpInv'
    BY <2>1, <2>2, <2>3, <2>4, <2>6, <2>7, <2>8, OthersOK DEF Places
  <2> QED BY <2>2, <2>5, <2>9 DEF TInv
<1>2. ASSUME Recover PROVE TInv'
  <2>1. Startup \in Handlers /\ Startup \notin Requests \cup Polls
    BY DEF Handlers
  <2>2. /\ waiting' \in Seq(Handlers) /\ LineInv' /\ overlapped' = Meddled
        /\ pc' = [pc EXCEPT ![Startup] = "ids"] /\ pc' \in [Handlers -> Places]
    BY <1>2, <2>1, ArrivesLemma DEF Recover, TInv, Places
  <2>4. UNCHANGED <<redis, locals, now, mishaps, fired>>
    BY <1>2 DEF Recover
  <2>5. TypeOK'
    BY <1>0, <2>2, <2>4 DEF TInv, TypeOK, Places, redis, locals
  <2>6. pc'[Startup] = "ids" /\ pc[Startup] = "no"
    BY <1>2, <2>1, <2>2 DEF Recover, TInv, TypeOK
  <2>7. HandOK(Startup)'
    <3>1. HandOK(Startup) /\ Startup \in Loops
      BY <2>1 DEF TInv, OpInv, Loops
    <3> QED BY <2>1, <2>4, <2>6, <3>1 DEF HandOK, Resting, locals
  <2>8. StartupOK'
    BY <2>6 DEF StartupOK, StartupPlaces
  <2>9. OpInv'
    BY <2>1, <2>2, <2>4, <2>6, <2>7, <2>8, OthersOK DEF Places, locals
  <2> QED BY <2>2, <2>5, <2>9 DEF TInv
<1>3. ASSUME NEW q \in Requests, NEW s \in Schedules, NEW l \in {"store", "load", "check"},
             pc[q] = "no", Arrives(q, l), UNCHANGED <<redis, todo, polledAt, now, mishaps, fired>>,
             item' = [item EXCEPT ![q] = s],
             op' \in [Requests -> Operation],
             \A g \in Requests \ {q} : op'[g] = op[g],
             Asked(l, op'[q].kind), copy' \in [Handlers -> Record]
      PROVE  TInv'
  <2>1. q \in Handlers /\ q \notin Loops /\ q \notin Polls /\ q # Startup
    BY DEF Handlers, Loops
  <2>2. /\ waiting' \in Seq(Handlers) /\ LineInv' /\ overlapped' = Meddled
        /\ pc' = [pc EXCEPT ![q] = l] /\ pc' \in [Handlers -> Places]
    BY <1>3, <2>1, ArrivesLemma DEF TInv, Places
  <2>3. /\ item' \in [Handlers -> Schedules \cup {None}] /\ item'[q] = s
        /\ \A g \in Handlers \ {q} : item'[g] = item[g]
    BY <1>3, <2>1 DEF TInv, TypeOK
  <2>4. TypeOK'
    BY <1>0, <1>3, <2>2, <2>3 DEF TInv, TypeOK, Places, redis, Operation
  <2>5. pc'[q] = l
    BY <2>1, <2>2 DEF TInv, TypeOK
  <2>6. HandOK(q)'
    <3>1. HandOK(q)
      BY <2>1 DEF TInv, OpInv
    <3> QED BY <1>3, <2>1, <2>3, <2>5, <3>1 DEF HandOK
  <2>7. RequestOK(q)'
    BY <1>3, <2>5 DEF RequestOK
  <2>8. OpInv'
    BY <1>3, <2>1, <2>2, <2>3, <2>6, <2>7, OthersOK DEF Places
  <2> QED BY <2>2, <2>4, <2>8 DEF TInv
<1>4. ASSUME NEW q \in Requests, NEW s \in Schedules, NEW tpl \in Templates, Create(q, s, tpl) PROVE TInv'
  <2>1. CASE CreateSchedule(q, s, tpl)
    <3>1. op' = [op EXCEPT ![q].kind = "create"] /\ op \in [Requests -> Operation]
      BY <2>1 DEF CreateSchedule, TInv, TypeOK, Operation
    <3>2. op' \in [Requests -> Operation]
      BY <3>1 DEF Operation
    <3>3. op'[q].kind = "create" /\ \A g \in Requests \ {q} : op'[g] = op[g]
      BY <3>1
    <3>4. copy' \in [Handlers -> Record]
      <4>1. Made(tpl) \in Record
        BY MadeLemma DEF TInv
      <4> QED BY <2>1, <4>1 DEF CreateSchedule, TInv, TypeOK
    <3>5. Asked("store", "create")
      BY DEF Asked
    <3> QED BY <1>3, <1>4, <2>1, <3>2, <3>3, <3>4, <3>5 DEF Create, CreateSchedule
  <2>2. CASE pc' = [pc EXCEPT ![q] = "rejected"] /\ UNCHANGED <<waiting, op, item, copy, overlapped>>
    <3>1. q \in Handlers /\ q \notin Loops /\ q \notin Polls /\ q # Startup
      BY DEF Handlers, Loops
    <3>2. UNCHANGED <<redis, todo, polledAt, now, mishaps, fired>> /\ pc[q] = "no"
      BY <1>4 DEF Create
    <3>3. TypeOK'
      BY <2>2, <3>1, <3>2 DEF TInv, TypeOK, redis
    <3>4. pc'[q] = "rejected" /\ \A g \in Handlers \ {q} : pc'[g] = pc[g]
      BY <2>2, <3>1 DEF TInv, TypeOK
    <3>5. LineInv'
      <4>1. \A g \in Handlers : Busy(g)' => Busy(g)
        BY <3>4 DEF Busy
      <4> QED BY <2>2, <4>1 DEF TInv, LineInv
    <3>6. HandOK(q)' /\ RequestOK(q)'
      <4>1. HandOK(q)
        BY <3>1 DEF TInv, OpInv
      <4> QED BY <2>2, <3>1, <3>2, <3>4, <4>1 DEF HandOK, RequestOK, Asked, Resting
    <3>7. OpInv'
      BY <2>2, <3>1, <3>2, <3>6, OthersOK DEF Places
    <3> QED BY <3>3, <3>5, <3>7 DEF TInv
  <2> QED BY <1>4, <2>1, <2>2 DEF Create
<1>5. ASSUME NEW q \in Requests, NEW s \in Schedules, NEW k \in Updates, NEW n \in Values,
             Update(q, s, [kind |-> k, value |-> n])
      PROVE  TInv'
  <2>1. op' = [op EXCEPT ![q] = [kind |-> k, value |-> n]] /\ op \in [Requests -> Operation]
    BY <1>5 DEF Update, TInv, TypeOK, Operation
  <2>2. [kind |-> k, value |-> n] \in Operation
    BY DEF Operation
  <2>3. op' \in [Requests -> Operation]
    BY <2>1, <2>2
  <2>4. op'[q].kind = k /\ \A g \in Requests \ {q} : op'[g] = op[g]
    BY <2>1
  <2>5. Asked("load", k)
    BY DEF Asked
  <2> QED BY <1>3, <1>5, <2>3, <2>4, <2>5 DEF Update, TInv, TypeOK
<1>6. ASSUME NEW q \in Requests, NEW s \in Schedules, Delete(q, s) PROVE TInv'
  <2>1. op' = [op EXCEPT ![q].kind = "delete"] /\ op \in [Requests -> Operation]
    BY <1>6 DEF Delete, TInv, TypeOK, Operation
  <2>2. op' \in [Requests -> Operation]
    BY <2>1 DEF Operation
  <2>3. op'[q].kind = "delete" /\ \A g \in Requests \ {q} : op'[g] = op[g]
    BY <2>1
  <2>4. Asked("check", "delete")
    BY DEF Asked
  <2> QED BY <1>3, <1>6, <2>2, <2>3, <2>4 DEF Delete, TInv, TypeOK
<1> QED BY <1>1, <1>2, <1>4, <1>5, <1>6

(* What an update makes of a record.                                        *)
LEMMA ChangedLemma ==
  ASSUME NEW r \in Record, NEW o \in Operation, o.kind \in Updates, now \in Nat
  PROVE  /\ Changed(r, o) \in Record
         /\ Changed(r, o).known = r.known /\ Changed(r, o).fireCount = r.fireCount
         /\ \/ Changed(r, o).max \in {r.max, None} /\ Changed(r, o).limitedAt = r.limitedAt
            \/ Changed(r, o).limitedAt = r.fireCount
         /\ o.kind \notin Reschedules => Changed(r, o).next = r.next
         /\ o.kind \notin Toggles => Changed(r, o).enabled = r.enabled
         /\ o.kind = "pause" => ~Changed(r, o).enabled
<1>1. NextFire(o.value, now) \in Nat /\ o.value \in Nat \ {0}
  BY NextFireLemma DEF Operation
<1>2. CASE o.kind = "rename"
  BY <1>2 DEF Changed, Record, Reschedules, Toggles
<1>3. CASE o.kind = "unlimit"
  BY <1>3 DEF Changed, Record, Reschedules, Toggles
<1>4. CASE o.kind = "pause"
  BY <1>4 DEF Changed, Record, Reschedules, Toggles
<1>5. CASE o.kind = "resume"
  BY <1>5 DEF Changed, Record, Reschedules, Toggles
<1>6. CASE o.kind = "reschedule"
  BY <1>1, <1>6 DEF Changed, Rescheduled, Record, Reschedules, Toggles
<1>7. CASE o.kind = "resumeReschedule"
  BY <1>1, <1>7 DEF Changed, Rescheduled, Record, Reschedules, Toggles
<1>8. CASE o.kind = "limit"
  BY <1>1, <1>8 DEF Changed, Record, Reschedules, Toggles
<1>9. CASE o.kind = "expire"
  BY <1>1, <1>9 DEF Changed, Record, Reschedules, Toggles
<1> QED BY <1>2, <1>3, <1>4, <1>5, <1>6, <1>7, <1>8, <1>9 DEF Updates, Plain, Reschedules, Toggles

LEMMA StoredLemma ==
  ASSUME hash \in [Schedules -> Record], NEW s \in Schedules, NEW r \in Record
  PROVE  /\ Stored(s, r) \in [Schedules -> Record]
         /\ \A t \in Schedules \ {s} : Stored(s, r)[t] = hash[t]
         /\ Stored(s, r)[s].known = r.known /\ Stored(s, r)[s].enabled = r.enabled
         /\ Stored(s, r)[s].next = r.next /\ Stored(s, r)[s].fireCount = r.fireCount
         /\ Stored(s, r)[s].max = Kept(r.max, hash[s].max)
         /\ Stored(s, r)[s].limitedAt = r.limitedAt
<1> DEFINE new == [r EXCEPT !.max = Kept(@, hash[s].max), !.expires = Kept(@, hash[s].expires)]
<1>1. Stored(s, r) = [hash EXCEPT ![s] = new]
  BY DEF Stored
<1>2. new \in Record
  BY DEF Record, Kept
<1>3. /\ new.known = r.known /\ new.enabled = r.enabled /\ new.next = r.next /\ new.fireCount = r.fireCount
      /\ new.max = Kept(r.max, hash[s].max) /\ new.limitedAt = r.limitedAt
  BY DEF Record
<1> HIDE DEF new
<1> QED BY <1>1, <1>2, <1>3

LEMMA PollType ==
  ASSUME TInv, NEW p \in Polls
  PROVE  PollDue(p) \/ PollReads(p) \/ RouteSucceeds(p) \/ RouteFails(p) => TInv'
<1> USE SchedulerAssumptions
<1>1. p \in Handlers /\ p \in Loops /\ p \notin Requests /\ p # Startup /\ HandOK(p)
  BY DEF Handlers, Loops, TInv, OpInv
<1>2. ASSUME PollDue(p) PROVE TInv'
  <2>1. At(p, "due") /\ NextId(p, DueAt(polledAt[p])) /\ todo[p] = {}
        /\ UNCHANGED <<redis, op, polledAt, now, mishaps, fired>>
    BY <1>1, <1>2 DEF PollDue, At, HandOK, Resting
  <2>2. DueAt(polledAt[p]) \in SUBSET Schedules
    BY DEF DueAt
  <2> QED BY <1>1, <2>1, <2>2, NextIdType DEF At, redis, TInv, TypeOK
<1>3. ASSUME PollReads(p) PROVE TInv'
  <2>1. At(p, "get") /\ UNCHANGED <<redis, op, item, todo, polledAt, now, mishaps, fired>>
        /\ item[p] \in Schedules /\ pc[p] \notin Resting
    BY <1>1, <1>3 DEF PollReads, At, HandOK, Resting
  <2>2. PICK l \in {"route", "zrem"} : Goto(p, l)
    BY <1>3 DEF PollReads
  <2>3. DataType'
    BY <1>1, <1>3, <2>1 DEF PollReads, DataType, redis, TInv, TypeOK
  <2> QED BY <1>1, <2>1, <2>2, <2>3, PlainType DEF At, Places, PollPlaces, Resting
<1>4. ASSUME RouteSucceeds(p) PROVE TInv'
  <2>1. At(p, "route") /\ UNCHANGED <<redis, op, item, todo, polledAt, now, mishaps>>
        /\ item[p] \in Schedules /\ pc[p] \notin Resting
    BY <1>1, <1>4 DEF RouteSucceeds, At, HandOK, Resting
  <2>2. PICK l \in {"del", "advance"} : Goto(p, l)
    BY <1>4 DEF RouteSucceeds
  <2>3. Counted(copy[p]) \in Record
    <3>1. copy[p] \in Record /\ now \in Nat
      BY <1>1 DEF TInv, TypeOK
    <3>2. NextFire(copy[p].period, now) \in Nat
      BY <3>1, NextFireLemma DEF Record
    <3>3. copy[p].fireCount + 1 \in Nat
      BY <3>1 DEF Record
    <3> DEFINE n == NextFire(copy[p].period, now)
               k == copy[p].fireCount + 1
    <3>4. Counted(copy[p]) = [copy[p] EXCEPT !.next = n, !.fireCount = k]
      BY <3>1 DEF Counted, Record
    <3> HIDE DEF n, k
    <3> QED BY <3>1, <3>2, <3>3, <3>4 DEF Record, n, k
  <2>4. copy' \in [Handlers -> Record] /\ fired' \in [Schedules -> Nat]
    BY <1>1, <1>4, <2>1, <2>3 DEF RouteSucceeds, TInv, TypeOK
  <2>5. DataType'
    BY <2>1, <2>4 DEF DataType, redis, TInv, TypeOK
  <2> QED BY <1>1, <2>1, <2>2, <2>5, PlainType DEF At, Places, PollPlaces, Resting
<1>5. ASSUME RouteFails(p) PROVE TInv'
  <2>1. At(p, "route") /\ NextId(p, todo[p]) /\ UNCHANGED <<redis, op, polledAt, now>>
    BY <1>5 DEF RouteFails
  <2>2. todo[p] \in SUBSET Schedules
    BY <1>1 DEF TInv, TypeOK
  <2>3. mishaps' \in Nat /\ fired' \in [Schedules -> Nat]
    BY <1>5 DEF RouteFails, TInv, TypeOK
  <2> QED BY <1>1, <2>1, <2>2, <2>3, NextIdType DEF At, redis, TInv, TypeOK
<1> QED BY <1>2, <1>3, <1>4, <1>5

LEMMA RequestType ==
  ASSUME TInv, NEW q \in Requests
  PROVE  AddToIndex(q) \/ UpdateReads(q) \/ Toggle(q) \/ Store(q) \/ DeleteChecks(q) => TInv'
<1> USE SchedulerAssumptions
<1>1. q \in Handlers /\ q \notin Loops /\ q \notin Polls /\ q # Startup /\ HandOK(q) /\ Asked(pc[q], op[q].kind)
  BY DEF Handlers, Loops, TInv, OpInv, RequestOK
<1>2. ASSUME AddToIndex(q) PROVE TInv'
  <2>1. At(q, "list") /\ Goto(q, "score") /\ index' = index \cup {item[q]}
        /\ UNCHANGED <<hash, leftover, score, locals, now, mishaps, fired>>
    BY <1>2 DEF AddToIndex
  <2>2. item[q] \in Schedules /\ pc[q] \notin Resting /\ Asked("score", op[q].kind)
    BY <1>1, <2>1 DEF At, HandOK, Resting, Asked
  <2>3. DataType'
    BY <2>1, <2>2 DEF DataType, locals, TInv, TypeOK
  <2> QED BY <1>1, <2>1, <2>2, <2>3, PlainType DEF At, Places, locals
<1>3. ASSUME UpdateReads(q) PROVE TInv'
  <2>1. At(q, "load") /\ UNCHANGED <<redis, op, item, todo, polledAt, now, mishaps, fired>>
    BY <1>3 DEF UpdateReads
  <2>2. item[q] \in Schedules /\ pc[q] \notin Resting /\ op[q].kind \in Updates /\ op[q] \in Operation
    BY <1>1, <2>1 DEF At, HandOK, Resting, Asked, TInv, TypeOK, Operation
  <2>3. PICK l \in {"toggle", "store", "rejected"} : Goto(q, l) /\ Asked(l, op[q].kind)
    BY <1>3, <2>2 DEF UpdateReads, Asked
  <2>4. Changed(hash[item[q]], op[q]) \in Record
    BY <2>2, ChangedLemma DEF TInv, TypeOK
  <2>5. copy' \in [Handlers -> Record]
    BY <1>3, <2>4 DEF UpdateReads, TInv, TypeOK
  <2>6. DataType'
    BY <2>1, <2>5 DEF DataType, redis, TInv, TypeOK
  <2> QED BY <1>1, <2>1, <2>2, <2>3, <2>6, PlainType DEF At, Places
<1>4. ASSUME Toggle(q) PROVE TInv'
  <2>1. At(q, "toggle") /\ Goto(q, "store") /\ UNCHANGED <<hash, leftover, index, locals, now, mishaps, fired>>
    BY <1>4 DEF Toggle
  <2>2. item[q] \in Schedules /\ pc[q] \notin Resting /\ Asked("store", op[q].kind)
    BY <1>1, <2>1 DEF At, HandOK, Resting, Asked, Updates, Plain
  <2>3. copy[q].next \in Nat
    BY <1>1 DEF TInv, TypeOK, Record
  <2>4. score' \in [Schedules -> Nat \cup {None}]
    BY <1>4, <2>2, <2>3 DEF Toggle, TInv, TypeOK
  <2>5. DataType'
    BY <2>1, <2>4 DEF DataType, locals, TInv, TypeOK
  <2> QED BY <1>1, <2>1, <2>2, <2>5, PlainType DEF At, Places, locals
<1>5. ASSUME Store(q) PROVE TInv'
  <2>1. At(q, "store") /\ hash' = Stored(item[q], copy[q]) /\ leftover' = leftover \ {item[q]}
        /\ UNCHANGED <<index, score, locals, now, mishaps, fired>>
    BY <1>5 DEF Store
  <2>2. item[q] \in Schedules /\ pc[q] \notin Resting /\ op[q].kind \in Updates \cup {"create"}
    BY <1>1, <2>1 DEF At, HandOK, Resting, Asked
  <2>3. PICK l \in {"list", "score", "done"} : Goto(q, l) /\ Asked(l, op[q].kind)
    BY <1>5, <2>2 DEF Store, Asked, Reschedules, Updates, Plain, Toggles
  <2>4. hash' \in [Schedules -> Record]
    <3>1. copy[q] \in Record /\ hash \in [Schedules -> Record]
      BY <1>1 DEF TInv, TypeOK
    <3> QED BY <2>1, <2>2, <3>1, StoredLemma
  <2>5. DataType'
    BY <2>1, <2>4 DEF DataType, locals, TInv, TypeOK
  <2> QED BY <1>1, <2>1, <2>2, <2>3, <2>5, PlainType DEF At, Places, locals
<1>6. ASSUME DeleteChecks(q) PROVE TInv'
  <2>1. At(q, "check") /\ UNCHANGED <<redis, locals, now, mishaps, fired>>
    BY <1>6 DEF DeleteChecks
  <2>2. pc[q] \notin Resting /\ op[q].kind = "delete"
    BY <1>1, <2>1 DEF At, Resting, Asked
  <2>3. PICK l \in {"del", "rejected"} : Goto(q, l) /\ Asked(l, op[q].kind)
    BY <1>6, <2>2 DEF DeleteChecks, Asked
  <2>4. DataType'
    BY <2>1 DEF DataType, redis, locals, TInv, TypeOK
  <2> QED BY <1>1, <2>1, <2>2, <2>3, <2>4, PlainType DEF At, Places, locals
<1> QED BY <1>2, <1>3, <1>4, <1>5, <1>6

LEMMA HandlerType ==
  ASSUME TInv, NEW h \in Handlers
  PROVE  Advance(h) \/ Score(h) \/ DropHash(h) \/ DropFromIndex(h) \/ DropScore(h) => TInv'
<1> USE SchedulerAssumptions
<1>1. /\ HandOK(h) /\ copy[h] \in Record
      /\ h \in Polls => h \notin Requests /\ h # Startup /\ pc[h] \in PollPlaces
      /\ h = Startup => h \notin Requests /\ pc[h] \in StartupPlaces
      /\ h \in Requests => h \notin Loops /\ Asked(pc[h], op[h].kind)
  BY DEF Handlers, Loops, TInv, TypeOK, OpInv, PollOK, StartupOK, RequestOK
<1>2. ASSUME Advance(h) PROVE TInv'
  <2>1. At(h, "advance") /\ Goto(h, "score") /\ UNCHANGED <<index, score, locals, now, mishaps, fired>>
    BY <1>2 DEF Advance
  <2>2. item[h] \in Schedules /\ pc[h] \notin Resting /\ h \notin Requests
    BY <1>1, <2>1 DEF At, HandOK, Resting, Asked
  <2>3. DataType'
    <3>1. hash \in [Schedules -> Record] /\ copy[h].next \in Nat /\ copy[h].fireCount \in Nat
      BY <1>1 DEF TInv, TypeOK, Record
    <3>2. hash' \in [Schedules -> Record] /\ leftover' \subseteq Schedules
      <4>1. CASE Known(item[h])
        <5>1. DEFINE r == [hash[item[h]] EXCEPT !.next = copy[h].next,
                             !.fireCount = IF h \in Polls THEN copy[h].fireCount ELSE @]
        <5>2. hash' = [hash EXCEPT ![item[h]] = r] /\ leftover' = leftover
          BY <1>2, <2>2, <3>1, <4>1 DEF Advance, Record
        <5>3. r \in Record
          BY <2>2, <3>1 DEF Record
        <5> HIDE DEF r
        <5> QED BY <2>2, <3>1, <5>2, <5>3 DEF TInv, TypeOK
      <4>2. CASE ~Known(item[h])
        BY <1>2, <2>2, <4>2 DEF Advance, TInv, TypeOK
      <4> QED BY <4>1, <4>2
    <3> QED BY <2>1, <3>2 DEF DataType, locals, TInv, TypeOK
  <2> QED BY <1>1, <2>1, <2>2, <2>3, PlainType DEF At, Places, PollPlaces, StartupPlaces, Resting, locals
<1>3. ASSUME Score(h) PROVE TInv'
  <2>1. At(h, "score") /\ Continue(h) /\ UNCHANGED <<hash, leftover, index, op, polledAt, now, mishaps, fired>>
    BY <1>3 DEF Score
  <2>2. item[h] \in Schedules /\ pc[h] \notin Resting /\ copy[h].next \in Nat
    BY <1>1, <2>1 DEF At, HandOK, Resting, Record
  <2>3. score' = [score EXCEPT ![item[h]] = copy[h].next]
    BY <1>3 DEF Score, Recovered
  <2>4. score' \in [Schedules -> Nat \cup {None}]
    BY <2>2, <2>3 DEF TInv, TypeOK
  <2> QED BY <2>1, <2>2, <2>4, ContinueType DEF At, TInv, TypeOK
<1>4. ASSUME DropHash(h) PROVE TInv'
  <2>1. At(h, "del") /\ Goto(h, "srem") /\ UNCHANGED <<index, score, locals, now, mishaps, fired>>
    BY <1>4 DEF DropHash
  <2>2. item[h] \in Schedules /\ pc[h] \notin Resting /\ h # Startup
        /\ (h \in Requests => Asked("srem", op[h].kind))
    BY <1>1, <2>1 DEF At, HandOK, Resting, Asked, StartupPlaces
  <2>3. DataType'
    <3>1. Nothing \in Record
      BY DEF Nothing, Record
    <3> QED BY <1>4, <2>1, <2>2, <3>1 DEF DropHash, DataType, locals, TInv, TypeOK
  <2> QED BY <1>1, <2>1, <2>2, <2>3, PlainType DEF At, Places, PollPlaces, StartupPlaces, Resting, locals
<1>5. ASSUME DropFromIndex(h) PROVE TInv'
  <2>1. At(h, "srem") /\ index' = index \ {item[h]}
        /\ UNCHANGED <<hash, leftover, score, op, polledAt, now, mishaps, fired>>
    BY <1>5 DEF DropFromIndex
  <2>2. pc[h] \notin Resting /\ (h \in Requests => Asked("zrem", op[h].kind))
    BY <1>1, <2>1 DEF At, Resting, Asked
  <2>3. index' \subseteq Schedules
    BY <2>1 DEF TInv, TypeOK
  <2>4. CASE h = Startup
    BY <1>5, <2>1, <2>2, <2>3, <2>4, ContinueType DEF DropFromIndex, At, TInv, TypeOK
  <2>5. CASE h # Startup
    <3>1. Goto(h, "zrem") /\ UNCHANGED <<item, todo, copy>>
      BY <1>5, <2>5 DEF DropFromIndex
    <3>2. DataType'
      BY <2>1, <2>3, <3>1 DEF DataType, TInv, TypeOK
    <3> QED BY <1>1, <2>1, <2>2, <2>5, <3>1, <3>2, PlainType DEF At, Places, PollPlaces, Resting
  <2> QED BY <2>4, <2>5
<1>6. ASSUME DropScore(h) PROVE TInv'
  <2>1. At(h, "zrem") /\ Continue(h) /\ UNCHANGED <<hash, leftover, index, op, polledAt, now, mishaps, fired>>
        /\ score' = [score EXCEPT ![item[h]] = None]
    BY <1>6 DEF DropScore
  <2>2. pc[h] \notin Resting
    BY <2>1 DEF At, Resting
  <2>4. score' \in [Schedules -> Nat \cup {None}]
    BY <2>1 DEF TInv, TypeOK
  <2> QED BY <2>1, <2>2, <2>4, ContinueType DEF At, TInv, TypeOK
<1> QED BY <1>2, <1>3, <1>4, <1>5, <1>6

LEMMA RecoveryType == TInv /\ (RecoverIds \/ RecoverReads) => TInv'
<1> SUFFICES ASSUME TInv, RecoverIds \/ RecoverReads PROVE TInv'
  OBVIOUS
<1> USE SchedulerAssumptions
<1>1. Startup \in Loops /\ Startup \in Handlers /\ Startup \notin Polls \cup Requests /\ HandOK(Startup)
  BY DEF Handlers, Loops, TInv, OpInv
<1>2. CASE RecoverIds
  <2>1. At(Startup, "ids") /\ NextId(Startup, index) /\ UNCHANGED <<redis, op, polledAt, now, mishaps, fired>>
    BY <1>2 DEF RecoverIds
  <2>2. index \in SUBSET Schedules /\ todo[Startup] = {}
    BY <1>1, <2>1 DEF HandOK, At, Resting, TInv, TypeOK
  <2> QED BY <1>1, <2>1, <2>2, NextIdType DEF At, redis, TInv, TypeOK
<1>3. CASE RecoverReads
  <2> DEFINE r == hash[item[Startup]]
  <2>1. At(Startup, "get") /\ UNCHANGED <<redis, op, polledAt, now, mishaps, fired>>
    BY <1>3 DEF RecoverReads
  <2>2. item[Startup] \in Schedules /\ pc[Startup] \notin Resting
    BY <1>1, <2>1 DEF At, HandOK, Resting
  <2>3. r \in Record /\ copy \in [Handlers -> Record]
    BY <2>2 DEF TInv, TypeOK
  <2>4. CASE ~r.known
    <3>1. Goto(Startup, "srem") /\ UNCHANGED <<item, todo, copy>>
      BY <1>3, <2>3, <2>4 DEF RecoverReads, Record
    <3>2. DataType'
      BY <2>1, <3>1 DEF DataType, redis, TInv, TypeOK
    <3> QED BY <1>1, <2>1, <2>2, <3>1, <3>2, PlainType DEF At, Places, StartupPlaces, Resting
  <2>5. CASE r.known /\ ~r.enabled
    <3>1. NextId(Startup, todo[Startup]) /\ todo[Startup] \in SUBSET Schedules
      BY <1>1, <1>3, <2>3, <2>5 DEF RecoverReads, Record, TInv, TypeOK
    <3> QED BY <1>1, <2>1, <2>2, <3>1, NextIdType DEF At, redis, Resting, TInv, TypeOK
  <2>6. CASE r.known /\ r.enabled
    <3>1. /\ copy' = [copy EXCEPT ![Startup] = [r EXCEPT !.next = NextFire(r.period, now)]]
          /\ Goto(Startup, "advance") /\ UNCHANGED <<item, todo>>
      BY <1>3, <2>3, <2>6 DEF RecoverReads, Record
    <3>2. [r EXCEPT !.next = NextFire(r.period, now)] \in Record
      <4>1. NextFire(r.period, now) \in Nat
        BY <2>3, NextFireLemma DEF Record, TInv, TypeOK
      <4> QED BY <2>3, <4>1 DEF Record
    <3>3. DataType'
      BY <1>1, <2>1, <2>3, <3>1, <3>2 DEF DataType, redis, TInv, TypeOK
    <3> QED BY <1>1, <2>1, <2>2, <3>1, <3>3, PlainType DEF At, Places, StartupPlaces, Resting
  <2> QED BY <2>3, <2>4, <2>5, <2>6 DEF Record
<1> QED BY <1>2, <1>3

LEMMA CrashType == TInv /\ Crash => TInv'
<1> SUFFICES ASSUME TInv, Crash PROVE TInv'
  OBVIOUS
<1> USE SchedulerAssumptions
<1>1. /\ pc' = [h \in Handlers |-> IF h \in Requests /\ pc[h] # "no" THEN "rejected" ELSE "no"]
      /\ item' = [h \in Handlers |-> None] /\ todo' = [h \in Handlers |-> {}]
      /\ copy' = [h \in Handlers |-> Nothing] /\ overlapped' = overlapped \cup Overlapping
      /\ UNCHANGED <<redis, op, polledAt, now, fired>> /\ mishaps' = mishaps + 1 /\ waiting' = << >>
  BY DEF Crash
<1>2. TypeOK'
  <2>1. Nothing \in Record /\ Overlapping \subseteq Schedules
    BY DEF Nothing, Record, Overlapping
  <2>2. /\ waiting' \in Seq(Handlers) /\ mishaps' \in Nat /\ overlapped' \subseteq Schedules
        /\ pc' \in [Handlers -> {"no", "rejected"}]
        /\ item' \in [Handlers -> Schedules \cup {None}] /\ todo' \in [Handlers -> SUBSET Schedules]
        /\ copy' \in [Handlers -> Record]
    BY <1>1, <2>1 DEF TInv, TypeOK
  <2> QED BY <1>1, <2>2 DEF TInv, TypeOK, redis
<1>3. LineInv'
  BY <1>1 DEF LineInv, Busy
<1>4. OpInv'
  BY <1>1 DEF TInv, OpInv, PollOK, StartupOK, RequestOK, Asked, HandOK, Handlers, Loops, PollPlaces, StartupPlaces,
              Resting
<1> QED BY <1>2, <1>3, <1>4 DEF TInv

LEMMA NextType == TInv /\ [Next]_vars => TInv'
<1> SUFFICES ASSUME TInv, [Next]_vars PROVE TInv'
  OBVIOUS
<1>1. CASE Tick
  <2>1. UNCHANGED <<waiting, redis, pc, locals, mishaps, fired, overlapped>> /\ now' = now + 1 /\ now \in Nat
    BY <1>1 DEF Tick, TInv, TypeOK
  <2>2. TypeOK' /\ LineInv'
    BY <2>1 DEF TInv, TypeOK, LineInv, Busy, redis, locals
  <2>3. \A p \in Polls : polledAt[p] \in Nat
    BY DEF TInv, TypeOK
  <2>4. OpInv'
    BY <2>1, <2>3 DEF TInv, OpInv, PollOK, StartupOK, RequestOK, HandOK, locals
  <2> QED BY <2>2, <2>4 DEF TInv
<1>2. CASE UNCHANGED vars
  BY <1>2 DEF vars, redis, locals, TInv, TypeOK, LineInv, Busy, OpInv, PollOK, StartupOK, RequestOK, HandOK
<1>3. CASE Answer
  BY <1>3, PollType, RequestType, HandlerType, RecoveryType DEF Answer
<1> QED BY <1>1, <1>2, <1>3, ArrivalsType, CrashType DEF Next

LEMMA TypeInvariant == Spec => []TInv
BY InitType, NextType, PTL DEF Spec

(* Every variable keeps its type, whatever the interleaving: the stored     *)
(* record is whole after any command, and a handler has in hand what its    *)
(* next command needs.                                                      *)
THEOREM TypeSafety == Spec => []TypeOK
BY TypeInvariant, PTL DEF TInv

-----------------------------------------------------------------------------
LEMMA RecordFields ==
  ASSUME NEW r \in Record
  PROVE  /\ r.known \in BOOLEAN /\ r.enabled \in BOOLEAN /\ r.fireCount \in Nat
         /\ r.max \in Nat \cup {None} /\ r.next \in Nat /\ r.period \in Nat \ {0}
         /\ r.limitedAt \in Nat
BY DEF Record

(* Once the recovery is over it has been everywhere.                        *)
LEMMA VisitedLemma ==
  ASSUME TInv, pc[Startup] = "done", NEW s \in Schedules
  PROVE  Visited(s)
<1>1. Startup \in Handlers /\ Startup \in Loops /\ HandOK(Startup)
  BY DEF TInv, OpInv, Handlers, Loops
<1>2. item[Startup] = None /\ todo[Startup] = {}
  BY <1>1 DEF HandOK, Resting
<1> QED BY <1>2, SchedulerAssumptions DEF Visited

(* A step of h leaves the others where they are, and its writes, if any,    *)
(* leave the schedule s alone.                                              *)
Others(h) ==
  \A g \in Handlers \ {h} :
    /\ pc'[g] = pc[g] /\ item'[g] = item[g] /\ todo'[g] = todo[g] /\ copy'[g] = copy[g]
    /\ g \in Requests => op'[g] = op[g]
Spared(s) ==
  /\ hash'[s] = hash[s] /\ score'[s] = score[s] /\ fired'[s] = fired[s]
  /\ mishaps' = mishaps \/ \A n \in {0, 1} : Tallied(s, n) => Tallied(s, n)'
  /\ s \in index' <=> s \in index

(* What h does to other schedules than the one it has in hand.             *)
LEMMA Aside ==
  ASSUME NEW h \in Handlers, NEW s \in Schedules, Others(h), Spared(s),
         overlapped \subseteq overlapped', ~WorksOn(h, s), ScheduleOK(s),
         h = Startup => (Visited(s)' /\ s \in index => Visited(s)),
         WorksOn(h, s)' => pc'[h] \in {"get", "load", "check"} \/ Phase(h, s)'
  PROVE  ScheduleOK(s)'
<1>1. \A g \in Handlers \ {h} : WorksOn(g, s)' <=> WorksOn(g, s)
  BY DEF Others, WorksOn
<1>2. Visited(s)' /\ s \in index => Visited(s)
  <2>1. CASE h = Startup
    BY <2>1
  <2>2. CASE h # Startup
    <3>1. Startup \in Handlers \ {h}
      BY <2>2 DEF Handlers
    <3> QED BY <3>1 DEF Others, Visited
  <2> QED BY <2>1, <2>2
<1>3. /\ Settled(s) => Settled(s)'
      /\ Limited(s) => Limited(s)'
      /\ Blank(s) => Blank(s)'
      /\ \A n \in {0, 1} : Tallied(s, n) => Tallied(s, n)'
  BY <1>2 DEF Settled, Sound, Known, Limited, Within, Blank, Tallied, Spared
<1>4. Idle(s) => Idle(s)'
  BY <1>3 DEF Idle
<1>5. ASSUME NEW g \in Handlers \ {h}, Phase(g, s) PROVE Phase(g, s)'
  <2>1. /\ pc'[g] = pc[g] /\ copy'[g] = copy[g] /\ (g \in Requests => op'[g] = op[g])
        /\ hash'[s] = hash[s] /\ score'[s] = score[s] /\ fired'[s] = fired[s]
        /\ (s \in index' <=> s \in index)
    BY DEF Others, Spared
  <2>2. g \in Requests /\ Amid(g, s) => Amid(g, s)'
    BY <1>3, <2>1 DEF Amid, Revised
  <2> QED BY <1>3, <1>5, <2>1, <2>2 DEF Phase
<1>6. s \in Overlapping => s \in Overlapping'
  <2> SUFFICES ASSUME NEW f \in Handlers, NEW g \in Handlers, f # g, WorksOn(f, s), WorksOn(g, s)
               PROVE  s \in Overlapping'
    BY DEF Overlapping
  <2>1. WorksOn(f, s)' /\ WorksOn(g, s)'
    BY <1>1
  <2> QED BY <2>1 DEF Overlapping
<1> SUFFICES ASSUME s \notin Meddled'
             PROVE  /\ (\A g \in Handlers : ~WorksOn(g, s)') => Idle(s)'
                    /\ \A g \in Handlers : WorksOn(g, s)' => Phase(g, s)'
  BY DEF ScheduleOK
<1>7. /\ (\A g \in Handlers : ~WorksOn(g, s)) => Idle(s)
      /\ \A g \in Handlers : WorksOn(g, s) => Phase(g, s)
  BY <1>6 DEF ScheduleOK, Meddled
<1>8. (\A g \in Handlers : ~WorksOn(g, s)') => Idle(s)'
  BY <1>1, <1>4, <1>7
<1>9. \A g \in Handlers \ {h} : WorksOn(g, s)' => Phase(g, s)'
  BY <1>1, <1>5, <1>7
<1>10. WorksOn(h, s)' => Phase(h, s)'
  <2> SUFFICES ASSUME WorksOn(h, s)', pc'[h] \in {"get", "load", "check"} PROVE Phase(h, s)'
    OBVIOUS
  <2>1. \A g \in Handlers \ {h} : ~WorksOn(g, s)'
    BY DEF Meddled, Overlapping
  <2>2. Idle(s)'
    BY <1>1, <1>4, <1>7, <2>1
  <2> QED BY <2>2 DEF Idle, Phase, Amid
<1> QED BY <1>8, <1>9, <1>10

(* What it does to the one it has in hand, where it is the only one to      *)
(* work on it.                                                             *)
LEMMA Own ==
  ASSUME NEW h \in Handlers, NEW s \in Schedules, Others(h), overlapped' = Meddled,
         WorksOn(h, s), ScheduleOK(s),
         Phase(h, s) => IF WorksOn(h, s)' THEN Phase(h, s)' ELSE Idle(s)'
  PROVE  ScheduleOK(s)'
<1> SUFFICES ASSUME s \notin Meddled'
             PROVE  /\ (\A g \in Handlers : ~WorksOn(g, s)') => Idle(s)'
                    /\ \A g \in Handlers : WorksOn(g, s)' => Phase(g, s)'
  BY DEF ScheduleOK
<1>1. s \notin Meddled
  BY DEF Meddled
<1>2. \A g \in Handlers \ {h} : ~WorksOn(g, s)
  BY <1>1 DEF Meddled, Overlapping
<1>3. \A g \in Handlers \ {h} : ~WorksOn(g, s)'
  BY <1>2 DEF Others, WorksOn
<1>4. Phase(h, s)
  BY <1>1 DEF ScheduleOK
<1> QED BY <1>3, <1>4

(* A command on the schedule in hand, after which h goes on with it, or, if *)
(* it is a request, is answered.                                            *)
LEMMA PlainFacts ==
  ASSUME TInv, NEW h \in Handlers, NEW l \in Places \ {"no", "due", "ids"}, Answered(h), pc[h] \notin Resting,
         Goto(h, l), UNCHANGED <<item, todo, op>>, h = Startup => l # "done",
         \A g \in Handlers \ {h} : copy'[g] = copy[g]
  PROVE  /\ pc'[h] = l /\ Others(h) /\ overlapped' = Meddled
         /\ \A s \in Schedules : Visited(s)' <=> Visited(s)
         /\ \A s \in Schedules : WorksOn(h, s) <=> s = item[h]
         /\ \A s \in Schedules : WorksOn(h, s)' <=> s = item[h] /\ l \notin Resting
<1>1. pc' = [pc EXCEPT ![h] = l] /\ overlapped' = Meddled
  BY GotoLemma DEF TInv
<1>2. pc'[h] = l /\ \A g \in Handlers \ {h} : pc'[g] = pc[g]
  BY <1>1 DEF TInv, TypeOK
<1>3. Others(h)
  BY <1>2 DEF Others
<1>4. \A s \in Schedules : Visited(s)' <=> Visited(s)
  <2>1. Startup \in Handlers
    BY DEF Handlers
  <2>2. pc'[Startup] \notin {"no", "ids"} <=> pc[Startup] \notin {"no", "ids"}
    BY <1>2, <2>1 DEF Resting
  <2> QED BY <2>2 DEF Visited
<1>5. \A s \in Schedules : /\ WorksOn(h, s) <=> s = item[h]
                           /\ WorksOn(h, s)' <=> s = item[h] /\ l \notin Resting
  BY <1>2 DEF WorksOn, Resting
<1> QED BY <1>1, <1>2, <1>3, <1>4, <1>5

LEMMA PlainStep ==
  ASSUME TInv, ScheduleInv, NEW h \in Handlers, NEW l \in Places \ {"no", "due", "ids"}, Answered(h),
         pc[h] \notin Resting, Goto(h, l), UNCHANGED <<item, todo, op>>, h = Startup => l # "done",
         \A g \in Handlers \ {h} : copy'[g] = copy[g],
         NEW t \in Schedules, t = item[h],
         \A s \in Schedules \ {t} : Spared(s),
         Phase(h, t) => IF l \notin Resting THEN Phase(h, t)' ELSE Idle(t)'
  PROVE  ScheduleInv'
<1> SUFFICES ASSUME NEW s \in Schedules PROVE ScheduleOK(s)'
  BY DEF ScheduleInv
<1>1. /\ pc'[h] = l /\ Others(h) /\ overlapped' = Meddled
      /\ Visited(s)' <=> Visited(s)
      /\ WorksOn(h, s) <=> s = item[h]
      /\ WorksOn(h, s)' <=> s = item[h] /\ l \notin Resting
  BY PlainFacts
<1>2. overlapped \subseteq overlapped' /\ ScheduleOK(s)
  BY <1>1 DEF Meddled, ScheduleInv
<1>3. CASE s = t
  <2>1. Phase(h, s) => IF WorksOn(h, s)' THEN Phase(h, s)' ELSE Idle(s)'
    BY <1>1, <1>3
  <2> QED BY <1>1, <1>2, <1>3, <2>1, Own
<1>4. CASE s # t
  BY <1>1, <1>2, <1>4, Aside
<1> QED BY <1>3, <1>4

(* The last command on it, after which a loop goes on to its next id.       *)
LEMMA LoopFacts ==
  ASSUME TInv, NEW h \in Loops, NEW ids \in SUBSET Schedules, Answered(h), pc[h] \notin {"no", "done"},
         NextId(h, ids), UNCHANGED op, ids = todo[h] \/ todo[h] = {}
  PROVE  /\ Others(h) /\ overlapped' = Meddled
         /\ \A s \in Schedules \ ids : ~WorksOn(h, s)'
         /\ \A s \in Schedules : WorksOn(h, s)' => pc'[h] = "get"
         /\ h # Startup => \A s \in Schedules : Visited(s)' <=> Visited(s)
         /\ h = Startup => \A s \in Schedules : Visited(s)' => s \notin ids
<1> USE SchedulerAssumptions
<1>1. h \in Handlers /\ EndOf(h) \in {"no", "done"} /\ (h = Startup => EndOf(h) = "done") /\ Startup \in Handlers
  BY DEF Handlers, Loops, EndOf
<1>2. PICK l \in {EndOf(h), "get"} :
        /\ Goto(h, l)
        /\ \/ l = EndOf(h) /\ ids = {} /\ item' = [item EXCEPT ![h] = None] /\ UNCHANGED todo
           \/ l = "get" /\ \E s \in ids : /\ item' = [item EXCEPT ![h] = s]
                                          /\ todo' = [todo EXCEPT ![h] = ids \ {s}]
  BY DEF NextId
<1>3. pc' = [pc EXCEPT ![h] = l] /\ overlapped' = Meddled
  BY <1>1, <1>2, GotoLemma DEF TInv, Places
<1>4. pc'[h] = l /\ \A g \in Handlers \ {h} : pc'[g] = pc[g]
  BY <1>1, <1>3 DEF TInv, TypeOK
<1>5. /\ item \in [Handlers -> Schedules \cup {None}] /\ todo \in [Handlers -> SUBSET Schedules]
      /\ copy' = [copy EXCEPT ![h] = Nothing] /\ copy \in [Handlers -> Record]
  BY DEF TInv, TypeOK, NextId
<1>6. CASE l = EndOf(h)
  <2>1. item' = [item EXCEPT ![h] = None] /\ UNCHANGED todo /\ ids = {}
    BY <1>1, <1>2, <1>6
  <2>2. Others(h) /\ item'[h] = None
    BY <1>1, <1>4, <1>5, <2>1 DEF Others
  <2>3. h # Startup => item'[Startup] = item[Startup] /\ todo'[Startup] = todo[Startup] /\ pc'[Startup] = pc[Startup]
    BY <1>1, <2>2 DEF Others
  <2> QED BY <1>1, <1>3, <1>4, <1>6, <2>1, <2>2, <2>3 DEF WorksOn, Visited
<1>7. CASE l = "get"
  <2>1. PICK t \in ids : item' = [item EXCEPT ![h] = t] /\ todo' = [todo EXCEPT ![h] = ids \ {t}]
    BY <1>1, <1>2, <1>7
  <2>2. Others(h) /\ item'[h] = t /\ todo'[h] = ids \ {t}
    BY <1>1, <1>4, <1>5, <2>1 DEF Others
  <2>3. h # Startup => item'[Startup] = item[Startup] /\ todo'[Startup] = todo[Startup] /\ pc'[Startup] = pc[Startup]
    BY <1>1, <2>2 DEF Others
  <2> QED BY <1>1, <1>3, <1>4, <1>7, <2>2, <2>3 DEF WorksOn, Visited
<1> QED BY <1>2, <1>6, <1>7

LEMMA LoopStep ==
  ASSUME TInv, ScheduleInv, NEW h \in Handlers, Answered(h), pc[h] \notin Resting, Continue(h), UNCHANGED op,
         NEW t \in Schedules, t = item[h],
         \A s \in Schedules \ {t} : Spared(s),
         Phase(h, t) /\ (Visited(t)' => h = Startup \/ Visited(t)) => Idle(t)'
  PROVE  ScheduleInv'
<1> USE SchedulerAssumptions
<1>0. HandOK(h) /\ pc[h] \notin {"no", "done"}
  BY DEF TInv, OpInv, Resting
<1>1. CASE h \notin Loops
  <2>1. Goto(h, "done") /\ UNCHANGED <<item, todo, copy>>
    BY <1>1 DEF Continue
  <2>2. h # Startup
    BY <1>1 DEF Loops
  <2>3. Visited(t)' <=> Visited(t)
    BY <2>1, <2>2, PlainFacts DEF Places
  <2>4. Phase(h, t) => Idle(t)'
    BY <2>3
  <2> QED BY <2>1, <2>2, <2>4, PlainStep DEF Places, Resting
<1>2. CASE h \in Loops
  <2>1. NextId(h, todo[h]) /\ todo[h] \in SUBSET Schedules
    BY <1>2 DEF Continue, TInv, TypeOK
  <2>2. /\ Others(h) /\ overlapped' = Meddled
        /\ \A s \in Schedules \ todo[h] : ~WorksOn(h, s)'
        /\ \A s \in Schedules : WorksOn(h, s)' => pc'[h] = "get"
        /\ h # Startup => \A s \in Schedules : Visited(s)' <=> Visited(s)
        /\ h = Startup => \A s \in Schedules : Visited(s)' => s \notin todo[h]
    BY <1>0, <1>2, <2>1, LoopFacts
  <2>3. t \notin todo[h]
    BY <1>0 DEF HandOK
  <2>4. Phase(h, t) => Idle(t)'
    BY <2>2
  <2> SUFFICES ASSUME NEW s \in Schedules PROVE ScheduleOK(s)'
    BY DEF ScheduleInv
  <2>5. overlapped \subseteq overlapped' /\ ScheduleOK(s)
    BY <2>2 DEF Meddled, ScheduleInv
  <2>6. CASE s = t
    <3>1. WorksOn(h, s) /\ ~WorksOn(h, s)'
      BY <2>2, <2>3, <2>6 DEF WorksOn, Resting
    <3>2. Phase(h, s) => Idle(s)'
      BY <2>4, <2>6
    <3> QED BY <2>2, <2>5, <3>1, <3>2, Own
  <2>7. CASE s # t
    <3>1. ~WorksOn(h, s)
      BY <2>7 DEF WorksOn
    <3>2. h = Startup => (Visited(s)' => Visited(s))
      <4>1. h = Startup => pc[h] \notin {"no", "ids"}
        BY DEF Resting
      <4> QED BY <2>2, <2>7, <4>1 DEF Visited
    <3> QED BY <2>2, <2>5, <2>7, <3>1, <3>2, Aside
  <2> QED BY <2>6, <2>7
<1> QED BY <1>1, <1>2

(* What a poll knows of the schedule it has in hand.                        *)
LEMMA SchedulePolls ==
  ASSUME TInv, ScheduleInv, NEW p \in Polls
  PROVE  PollReads(p) \/ RouteSucceeds(p) \/ RouteFails(p) => ScheduleInv'
<1> USE SchedulerAssumptions
<1> SUFFICES ASSUME PollReads(p) \/ RouteSucceeds(p) \/ RouteFails(p) PROVE ScheduleInv'
  OBVIOUS
<1>1. p \in Handlers /\ p \in Loops /\ p \notin Requests /\ p # Startup /\ HandOK(p) /\ PollOK(p)
  BY DEF Handlers, Loops, TInv, OpInv
<1>2. copy[p] \in Record /\ copy \in [Handlers -> Record] /\ mishaps \in Nat
  BY <1>1 DEF TInv, TypeOK
<1>3. pc[p] \in {"get", "route"} /\ pc[p] \notin Resting /\ Answered(p)
  BY DEF PollReads, RouteSucceeds, RouteFails, At, Resting
<1>4. PICK t \in Schedules : t = item[p]
  BY <1>1, <1>3 DEF HandOK
<1> DEFINE r == hash[t]
<1>5. r \in Record /\ fired[t] \in Nat /\ Visited(t)
  <2>1. pc[Startup] = "done"
    BY <1>1, <1>3 DEF PollOK
  <2> QED BY <2>1, VisitedLemma DEF TInv, TypeOK
<1>6. ASSUME PollReads(p) PROVE ScheduleInv'
  <2>1. UNCHANGED <<redis, op, item, todo, polledAt, now, mishaps, fired>> /\ pc[p] = "get"
    BY <1>6 DEF PollReads, At
  <2>2. copy'[p] = r /\ \A g \in Handlers \ {p} : copy'[g] = copy[g]
    BY <1>1, <1>2, <1>4, <1>6 DEF PollReads
  <2>3. PICK l \in {"route", "zrem"} : Goto(p, l) /\ l = IF Fires(r) THEN "route" ELSE "zrem"
    BY <1>4, <1>6 DEF PollReads
  <2>4. pc'[p] = l /\ (Visited(t)' <=> Visited(t))
    BY <1>1, <1>3, <2>1, <2>2, <2>3, PlainFacts DEF Places
  <2>5. \A s \in Schedules \ {t} : Spared(s)
    BY <2>1 DEF Spared, redis
  <2>6. ASSUME Phase(p, t) PROVE Phase(p, t)'
    <3>1. Settled(t) /\ Limited(t) /\ Blank(t) /\ Tallied(t, 0)
      BY <2>1, <2>6 DEF Phase
    <3>2. hash' = hash /\ index' = index /\ score' = score /\ fired' = fired /\ mishaps' = mishaps
      BY <2>1 DEF redis
    <3>3. Settled(t)' /\ Limited(t)' /\ Blank(t)' /\ Tallied(t, 0)'
      BY <2>4, <3>1, <3>2 DEF Settled, Sound, Known, Limited, Within, Blank, Tallied
    <3>4. t \in index => r.known
      BY <1>5, <3>1 DEF Settled, Sound, Known
    <3> QED BY <1>1, <2>2, <2>3, <2>4, <3>2, <3>3, <3>4 DEF Phase, Fires
  <2> QED BY <1>1, <1>3, <1>4, <2>1, <2>2, <2>3, <2>5, <2>6, PlainStep DEF Places, Resting
<1>7. ASSUME RouteSucceeds(p) PROVE ScheduleInv'
  <2>1. UNCHANGED <<redis, op, item, todo, polledAt, now, mishaps>> /\ pc[p] = "route"
    BY <1>7 DEF RouteSucceeds, At
  <2>2. /\ copy'[p] = Counted(copy[p]) /\ \A g \in Handlers \ {p} : copy'[g] = copy[g]
        /\ fired'[t] = fired[t] + 1 /\ \A s \in Schedules \ {t} : fired'[s] = fired[s]
    BY <1>1, <1>2, <1>4, <1>7 DEF RouteSucceeds, TInv, TypeOK
  <2>3. PICK l \in {"del", "advance"} : Goto(p, l) /\ l = IF Last(copy[p], polledAt[p]) THEN "del" ELSE "advance"
    BY <1>7 DEF RouteSucceeds
  <2>4. pc'[p] = l
    BY <1>1, <1>3, <2>1, <2>2, <2>3, PlainFacts DEF Places
  <2>5. \A s \in Schedules \ {t} : Spared(s)
    BY <2>1, <2>2 DEF Spared, redis
  <2>6. ASSUME Phase(p, t) PROVE Phase(p, t)'
    <3>1. Limited(t) /\ Blank(t) /\ Tallied(t, 0) /\ copy[p] = r /\ r.known
      BY <2>1, <2>6 DEF Phase
    <3>2. hash' = hash /\ mishaps' = mishaps
      BY <2>1 DEF redis
    <3>3. r.fireCount \in Nat /\ r.max \in Nat \cup {None}
      BY <1>5, RecordFields
    <3>4. Limited(t)' /\ Blank(t)' /\ Tallied(t, 1)'
      BY <1>2, <1>5, <2>2, <3>1, <3>2, <3>3 DEF Known, Limited, Within, Blank, Tallied
    <3>5. copy'[p].fireCount = r.fireCount + 1
      BY <1>2, <2>2, <3>1 DEF Counted, Record
    <3>6. l = "advance" /\ r.max # None => r.fireCount + 1 < r.max
      BY <2>3, <3>1, <3>3 DEF Last
    <3> QED BY <1>1, <2>2, <2>3, <2>4, <3>1, <3>2, <3>4, <3>5, <3>6 DEF Phase
  <2> QED BY <1>1, <1>3, <1>4, <2>1, <2>2, <2>3, <2>5, <2>6, PlainStep DEF Places, Resting
<1>8. ASSUME RouteFails(p) PROVE ScheduleInv'
  <2>1. /\ pc[p] = "route" /\ Continue(p) /\ UNCHANGED <<redis, op, polledAt, now>>
        /\ \/ UNCHANGED <<mishaps, fired>>
           \/ mishaps' = mishaps + 1 /\ fired' = [fired EXCEPT ![t] = @ + 1]
    BY <1>1, <1>4, <1>8 DEF RouteFails, At, Continue
  <2>2. /\ \A s \in Schedules \ {t} : fired'[s] = fired[s]
        /\ \A s \in Schedules, n \in {0, 1} : Tallied(s, n) => Tallied(s, n)'
    <3>1. hash' = hash /\ fired \in [Schedules -> Nat] /\ \A s \in Schedules : hash[s].fireCount \in Nat
      BY <2>1, RecordFields DEF redis, TInv, TypeOK
    <3>2. CASE UNCHANGED <<mishaps, fired>>
      BY <3>1, <3>2 DEF Tallied, Known
    <3>3. CASE mishaps' = mishaps + 1 /\ fired' = [fired EXCEPT ![t] = @ + 1]
      BY <1>2, <3>1, <3>3 DEF Tallied, Known
    <3> QED BY <2>1, <3>2, <3>3
  <2>3. \A s \in Schedules \ {t} : Spared(s)
    BY <2>1, <2>2 DEF Spared, redis
  <2>4. ASSUME Phase(p, t), Visited(t)' => p = Startup \/ Visited(t) PROVE Idle(t)'
    <3>1. Settled(t) /\ Limited(t) /\ Blank(t) /\ Tallied(t, 0)
      BY <2>1, <2>4 DEF Phase
    <3>2. Tallied(t, 0)'
      BY <2>2, <3>1
    <3> QED BY <1>1, <1>5, <2>1, <2>4, <3>1, <3>2 DEF Idle, Settled, Sound, Known, Limited, Within, Blank, redis
  <2> QED BY <1>1, <1>3, <1>4, <2>1, <2>3, <2>4, LoopStep
<1> QED BY <1>6, <1>7, <1>8

(* What a request knows of the schedule it has in hand.                     *)
LEMMA ScheduleRequests ==
  ASSUME TInv, ScheduleInv, NEW q \in Requests
  PROVE  AddToIndex(q) \/ UpdateReads(q) \/ Toggle(q) \/ Store(q) \/ DeleteChecks(q) => ScheduleInv'
<1> USE SchedulerAssumptions
<1> SUFFICES ASSUME AddToIndex(q) \/ UpdateReads(q) \/ Toggle(q) \/ Store(q) \/ DeleteChecks(q)
             PROVE  ScheduleInv'
  OBVIOUS
<1>1. /\ q \in Handlers /\ q \notin Loops /\ q \notin Polls /\ q # Startup /\ HandOK(q)
      /\ Asked(pc[q], op[q].kind) /\ op[q] \in Operation
  BY DEF Handlers, Loops, TInv, TypeOK, OpInv, RequestOK, Operation
<1>2. copy[q] \in Record /\ copy \in [Handlers -> Record] /\ mishaps \in Nat /\ hash \in [Schedules -> Record]
  BY <1>1 DEF TInv, TypeOK
<1>3. pc[q] \in {"list", "load", "toggle", "store", "check"} /\ pc[q] \notin Resting /\ Answered(q)
  BY DEF AddToIndex, UpdateReads, Toggle, Store, DeleteChecks, At, Resting
<1>4. PICK t \in Schedules : t = item[q]
  BY <1>1, <1>3 DEF HandOK
<1> DEFINE r == hash[t]
           c == copy[q]
           k == op[q].kind
<1>5. r \in Record /\ fired[t] \in Nat
  BY DEF TInv, TypeOK
<1>6. UNCHANGED <<op, item, todo, mishaps, fired>> /\ op' = op
  BY DEF AddToIndex, UpdateReads, Toggle, Store, DeleteChecks, locals
<1>7. ASSUME AddToIndex(q) PROVE ScheduleInv'
  <2>1. pc[q] = "list" /\ Goto(q, "score") /\ UNCHANGED <<hash, score, copy>> /\ index' = index \cup {t}
    BY <1>4, <1>7 DEF AddToIndex, At, locals
  <2>2. pc'[q] = "score"
    BY <1>1, <1>3, <1>6, <2>1, PlainFacts DEF Places
  <2>3. \A s \in Schedules \ {t} : Spared(s)
    BY <1>6, <2>1 DEF Spared
  <2>4. ASSUME Phase(q, t) PROVE Phase(q, t)'
    <3>1. Limited(t) /\ Blank(t) /\ Tallied(t, 0) /\ r.known /\ c.next = r.next /\ (k = "create" => score[t] = None)
      BY <1>1, <2>1, <2>4 DEF Phase, Amid
    <3>2. Amid(q, t)'
      BY <1>6, <2>1, <2>2, <3>1 DEF Amid
    <3> QED BY <1>1, <1>6, <2>1, <2>2, <3>1, <3>2 DEF Phase, Limited, Within, Blank, Tallied, Known
  <2> QED BY <1>1, <1>3, <1>4, <1>6, <2>1, <2>2, <2>3, <2>4, PlainStep DEF Places, Resting
<1>8. ASSUME UpdateReads(q) PROVE ScheduleInv'
  <2>1. pc[q] = "load" /\ UNCHANGED redis /\ \A g \in Handlers \ {q} : copy'[g] = copy[g]
    BY <1>1, <1>2, <1>8 DEF UpdateReads, At
  <2>2. k \in Updates
    BY <1>1, <2>1 DEF Asked
  <2>3. PICK l \in {"toggle", "store", "rejected"} :
          /\ Goto(q, l) /\ (l # "rejected" <=> r.known)
          /\ l = "toggle" => k \in Toggles
          /\ l = "store"  => k \notin Toggles
          /\ l # "rejected" => copy'[q] = Changed(r, op[q])
    BY <1>1, <1>2, <1>4, <1>5, <1>8, RecordFields DEF UpdateReads
  <2>4. pc'[q] = l /\ (Visited(t)' <=> Visited(t))
    BY <1>1, <1>3, <1>6, <2>1, <2>3, PlainFacts DEF Places
  <2>5. \A s \in Schedules \ {t} : Spared(s)
    BY <1>6, <2>1 DEF Spared, redis
  <2>6. ASSUME Phase(q, t) PROVE IF l \notin Resting THEN Phase(q, t)' ELSE Idle(t)'
    <3>1. Settled(t) /\ Limited(t) /\ Blank(t) /\ Tallied(t, 0)
      BY <1>1, <2>1, <2>6 DEF Phase
    <3>2. hash' = hash /\ index' = index /\ score' = score
      BY <2>1 DEF redis
    <3>3. Settled(t)' /\ Limited(t)' /\ Blank(t)' /\ Tallied(t, 0)'
      BY <1>6, <2>4, <3>1, <3>2 DEF Settled, Sound, Known, Limited, Within, Blank, Tallied
    <3>4. l # "rejected" => Revised(q, t)'
      <4>1. now \in Nat
        BY DEF TInv, TypeOK
      <4> QED BY <1>1, <1>5, <1>6, <2>2, <2>3, <3>2, <4>1, ChangedLemma DEF Revised
    <3>5. l # "rejected" => Amid(q, t)'
      BY <1>6, <2>2, <2>3, <2>4, <3>3, <3>4 DEF Amid, Updates, Plain, Toggles, Reschedules
    <3> QED BY <1>1, <2>3, <2>4, <3>3, <3>5 DEF Phase, Idle, Resting
  <2> QED BY <1>1, <1>3, <1>4, <1>6, <2>1, <2>3, <2>5, <2>6, PlainStep DEF Places, Resting
<1>9. ASSUME Toggle(q) PROVE ScheduleInv'
  <2>1. /\ pc[q] = "toggle" /\ Goto(q, "store") /\ UNCHANGED <<hash, index, copy>>
        /\ score' = [score EXCEPT ![t] = IF c.enabled THEN c.next ELSE None]
    BY <1>4, <1>9 DEF Toggle, At, locals
  <2>2. pc'[q] = "store"
    BY <1>1, <1>3, <1>6, <2>1, PlainFacts DEF Places
  <2>3. score'[t] = (IF c.enabled THEN c.next ELSE None) /\ \A s \in Schedules \ {t} : score'[s] = score[s]
    BY <2>1 DEF TInv, TypeOK
  <2>4. \A s \in Schedules \ {t} : Spared(s)
    BY <1>6, <2>1, <2>3 DEF Spared
  <2>5. ASSUME Phase(q, t) PROVE Phase(q, t)'
    <3>1. k \in Toggles
      BY <1>1, <2>1 DEF Asked
    <3>2. Limited(t) /\ Blank(t) /\ Tallied(t, 0) /\ Revised(q, t)
      BY <1>1, <2>1, <2>5, <3>1 DEF Phase, Amid, Toggles
    <3>3. Limited(t)' /\ Blank(t)' /\ Tallied(t, 0)' /\ Revised(q, t)'
      BY <1>6, <2>1, <3>2 DEF Limited, Within, Blank, Tallied, Known, Revised
    <3>4. Amid(q, t)'
      BY <1>6, <2>1, <2>2, <2>3, <3>1, <3>3 DEF Amid, Plain, Toggles
    <3> QED BY <1>1, <2>2, <3>3, <3>4 DEF Phase
  <2> QED BY <1>1, <1>3, <1>4, <1>6, <2>1, <2>2, <2>4, <2>5, PlainStep DEF Places, Resting
<1>10. ASSUME Store(q) PROVE ScheduleInv'
  <2>1. pc[q] = "store" /\ UNCHANGED <<index, score, copy>> /\ hash' = Stored(t, c)
    BY <1>4, <1>10 DEF Store, At, locals
  <2>2. k \in Updates \cup {"create"}
    BY <1>1, <2>1 DEF Asked
  <2>3. PICK l \in {"list", "score", "done"} :
          /\ Goto(q, l)
          /\ l = "list"  => k = "create"
          /\ l = "score" => k \in Reschedules
          /\ l = "done"  => k # "create" /\ (k \in Reschedules => ~c.enabled)
    BY <1>10, <2>2 DEF Store, Reschedules, Updates, Plain, Toggles
  <2>4. pc'[q] = l /\ (Visited(t)' <=> Visited(t))
    BY <1>1, <1>3, <1>6, <2>1, <2>3, PlainFacts DEF Places
  <2> DEFINE n == hash'[t]
  <2>5. /\ n.known = c.known /\ n.enabled = c.enabled /\ n.next = c.next /\ n.fireCount = c.fireCount
        /\ n.max = Kept(c.max, r.max) /\ n.limitedAt = c.limitedAt
        /\ \A s \in Schedules \ {t} : hash'[s] = hash[s]
    BY <1>2, <2>1, StoredLemma
  <2> HIDE DEF n
  <2>6. \A s \in Schedules \ {t} : Spared(s)
    BY <1>6, <2>1, <2>5 DEF Spared
  <2>7. ASSUME Phase(q, t) PROVE IF l \notin Resting THEN Phase(q, t)' ELSE Idle(t)'
    <3>1. Limited(t) /\ Blank(t) /\ Tallied(t, 0) /\ Amid(q, t)
      BY <1>1, <2>1, <2>7 DEF Phase
    <3>2. CASE k = "create"
      <4>1. /\ ~r.known /\ t \notin index /\ fired[t] = 0
            /\ c.known /\ c.fireCount = 0 /\ (c.max # None => c.max > 0) /\ score[t] = None
        BY <2>1, <3>1, <3>2 DEF Amid
      <4>2. n.max = c.max
        BY <2>5, <3>1, <4>1 DEF Blank, Known, Kept
      <4>3. Limited(t)'
        BY <2>5, <4>1, <4>2 DEF Limited, Within, n
      <4>6. Blank(t)' /\ Tallied(t, 0)'
        BY <1>2, <1>6, <2>5, <4>1 DEF Blank, Tallied, Known, n
      <4>4. l = "list"
        BY <2>3, <3>2 DEF Reschedules
      <4>5. Amid(q, t)'
        BY <1>6, <2>1, <2>4, <3>2, <4>1, <4>4 DEF Amid
      <4> QED BY <1>1, <2>1, <2>4, <2>5, <4>1, <4>3, <4>4, <4>5, <4>6 DEF Phase, n, Resting
    <3>3. CASE k # "create"
      <4>1. Revised(q, t)
        BY <2>1, <3>1, <3>3 DEF Amid
      <4>2. /\ n.known /\ n.fireCount = r.fireCount /\ r.known
            /\ (n.max = r.max /\ n.limitedAt = r.limitedAt) \/ n.limitedAt = r.fireCount
        BY <2>5, <4>1 DEF Revised, Kept
      <4>3. Limited(t)' /\ Blank(t)' /\ Tallied(t, 0)'
        <5>1. r.fireCount \in Nat
          BY <1>5, RecordFields
        <5>2. Limited(t)'
          BY <3>1, <4>2, <5>1 DEF Limited, Within, Known, n
        <5> QED BY <1>6, <3>1, <4>2, <5>2 DEF Blank, Tallied, Known, n
      <4>4. CASE l = "score"
        <5>1. Amid(q, t)'
          BY <1>6, <2>4, <3>3, <4>4 DEF Amid
        <5> QED BY <1>1, <2>1, <2>4, <2>5, <4>2, <4>3, <4>4, <5>1 DEF Phase, n, Resting
      <4>5. CASE l = "done"
        <5>1. CASE k \in Plain
          <6>1. Settled(t) /\ n.enabled = r.enabled /\ n.next = r.next
            BY <2>1, <2>5, <3>1, <4>1, <5>1 DEF Amid, Revised, Plain, Toggles, Reschedules
          <6>2. Settled(t)'
            BY <2>1, <2>4, <4>2, <6>1 DEF Settled, Sound, Known, n
          <6> QED BY <4>3, <4>5, <6>2 DEF Idle, Resting
        <5>2. CASE k \notin Plain
          <6>1. n.enabled => k \in Toggles /\ score[t] = c.next
            BY <2>1, <2>2, <2>3, <2>5, <3>1, <3>3, <4>1, <4>5, <5>2 DEF Updates, Plain, Amid, Revised, Toggles, Reschedules
          <6>2. Settled(t)'
            BY <2>1, <2>5, <4>2, <6>1 DEF Settled, Sound, Known, n
          <6> QED BY <4>3, <4>5, <6>2 DEF Idle, Resting
        <5> QED BY <5>1, <5>2
      <4> QED BY <2>3, <3>3, <4>4, <4>5
    <3> QED BY <3>2, <3>3
  <2> QED BY <1>1, <1>3, <1>4, <1>6, <2>1, <2>3, <2>6, <2>7, PlainStep DEF Places, Resting
<1>11. ASSUME DeleteChecks(q) PROVE ScheduleInv'
  <2>1. pc[q] = "check" /\ UNCHANGED <<redis, copy>>
    BY <1>11 DEF DeleteChecks, At, locals
  <2>2. PICK l \in {"del", "rejected"} : Goto(q, l)
    BY <1>11 DEF DeleteChecks
  <2>3. pc'[q] = l /\ (Visited(t)' <=> Visited(t)) /\ k = "delete"
    BY <1>1, <1>3, <1>6, <2>1, <2>2, PlainFacts DEF Places, Asked
  <2>4. \A s \in Schedules \ {t} : Spared(s)
    BY <1>6, <2>1 DEF Spared, redis
  <2>5. ASSUME Phase(q, t) PROVE IF l \notin Resting THEN Phase(q, t)' ELSE Idle(t)'
    <3>1. Settled(t) /\ Limited(t) /\ Blank(t) /\ Tallied(t, 0)
      BY <1>1, <2>1, <2>5 DEF Phase
    <3>2. Settled(t)' /\ Limited(t)' /\ Blank(t)' /\ Tallied(t, 0)'
      BY <1>6, <2>1, <2>3, <3>1 DEF Settled, Sound, Known, Limited, Within, Blank, Tallied, redis
    <3>3. l = "del" => Amid(q, t)'
      BY <1>6, <2>3, <3>2 DEF Amid
    <3> QED BY <1>1, <2>2, <2>3, <3>2, <3>3 DEF Phase, Idle, Resting
  <2> QED BY <1>1, <1>3, <1>4, <1>6, <2>1, <2>2, <2>4, <2>5, PlainStep DEF Places, Resting
<1> QED BY <1>7, <1>8, <1>9, <1>10, <1>11

(* The commands that more than one kind of handler issues.                  *)
LEMMA ScheduleHandlers ==
  ASSUME TInv, ScheduleInv, NEW h \in Handlers
  PROVE  Advance(h) \/ Score(h) \/ DropHash(h) \/ DropFromIndex(h) \/ DropScore(h) => ScheduleInv'
<1> USE SchedulerAssumptions
<1> SUFFICES ASSUME Advance(h) \/ Score(h) \/ DropHash(h) \/ DropFromIndex(h) \/ DropScore(h)
             PROVE  ScheduleInv'
  OBVIOUS
<1>1. /\ HandOK(h) /\ copy[h] \in Record /\ mishaps \in Nat /\ hash \in [Schedules -> Record]
      /\ h \in Polls => h \notin Requests /\ h # Startup /\ pc[h] \in PollPlaces
      /\ h = Startup => h \notin Requests /\ h \notin Polls /\ pc[h] \in StartupPlaces
      /\ h \in Requests => h \notin Loops /\ h \notin Polls /\ Asked(pc[h], op[h].kind)
      /\ h \in Polls \/ h = Startup \/ h \in Requests
  BY DEF Handlers, Loops, TInv, TypeOK, OpInv, PollOK, StartupOK, RequestOK
<1>2. pc[h] \in {"advance", "score", "del", "srem", "zrem"} /\ pc[h] \notin Resting /\ Answered(h)
  BY DEF Advance, Score, DropHash, DropFromIndex, DropScore, At, Resting
<1>3. PICK t \in Schedules : t = item[h]
  BY <1>1, <1>2 DEF HandOK
<1> DEFINE r == hash[t]
           c == copy[h]
<1>4. r \in Record /\ fired[t] \in Nat
  BY DEF TInv, TypeOK
<1>5. UNCHANGED <<op, mishaps, fired>> /\ op' = op
  BY DEF Advance, Score, DropHash, DropFromIndex, DropScore, locals
<1>6. ASSUME Advance(h) PROVE ScheduleInv'
  <2>1. pc[h] = "advance" /\ Goto(h, "score") /\ UNCHANGED <<index, score, item, todo, copy>>
    BY <1>6 DEF Advance, At, locals
  <2>2. pc'[h] = "score" /\ h \notin Requests
    BY <1>1, <1>2, <1>5, <2>1, PlainFacts DEF Places, Asked
  <2>3. \A s \in Schedules \ {t} : Spared(s)
    <3>1. \A s \in Schedules \ {t} : hash'[s] = hash[s]
      BY <1>1, <1>3, <1>6 DEF Advance
    <3> QED BY <1>5, <2>1, <3>1 DEF Spared
  <2>4. ASSUME Phase(h, t) PROVE Phase(h, t)'
    <3>1. Limited(t) /\ Blank(t) /\ r.known /\ Tallied(t, IF h \in Polls THEN 1 ELSE 0)
          /\ (h \in Polls => c.fireCount = r.fireCount + 1 /\ (r.max # None => c.fireCount < r.max))
      BY <2>1, <2>4 DEF Phase
    <3>2. r.fireCount \in Nat /\ r.max \in Nat \cup {None} /\ c.fireCount \in Nat
      BY <1>1, <1>4, RecordFields
    <3> DEFINE n == hash'[t]
    <3>3. n.known = r.known /\ n.next = c.next /\ n.max = r.max /\ n.limitedAt = r.limitedAt
          /\ n.fireCount = IF h \in Polls THEN c.fireCount ELSE r.fireCount
      <4>1. c.next \in Nat
        BY <1>1, RecordFields
      <4> DEFINE w == [r EXCEPT !.next = c.next, !.fireCount = IF h \in Polls THEN c.fireCount ELSE @]
      <4>2. hash' = [hash EXCEPT ![t] = w]
        BY <1>1, <1>3, <1>4, <1>6, <3>1, <3>2, <4>1 DEF Advance, Known, Record
      <4>3. /\ w.known = r.known /\ w.next = c.next /\ w.max = r.max /\ w.limitedAt = r.limitedAt
            /\ w.fireCount = IF h \in Polls THEN c.fireCount ELSE r.fireCount
        BY <1>4 DEF Record
      <4> HIDE DEF w
      <4> QED BY <1>1, <4>2, <4>3
    <3> HIDE DEF n
    <3>4. Limited(t)' /\ Blank(t)'
      BY <3>1, <3>3 DEF Limited, Within, Blank, Known, n
    <3>5. Tallied(t, 0)'
      BY <1>1, <1>4, <1>5, <3>1, <3>2, <3>3 DEF Tallied, Known, n
    <3> QED BY <2>1, <2>2, <3>1, <3>3, <3>4, <3>5 DEF Phase, n
  <2> QED BY <1>2, <1>3, <1>5, <2>1, <2>2, <2>3, <2>4, PlainStep DEF Places, Resting
<1>7. ASSUME Score(h) PROVE ScheduleInv'
  <2>1. pc[h] = "score" /\ Continue(h) /\ UNCHANGED <<hash, index>> /\ score' = [score EXCEPT ![t] = c.next]
    BY <1>3, <1>7 DEF Score, At, Recovered
  <2>2. score'[t] = c.next /\ \A s \in Schedules \ {t} : score'[s] = score[s]
    BY <2>1 DEF TInv, TypeOK
  <2>3. \A s \in Schedules \ {t} : Spared(s)
    BY <1>5, <2>1, <2>2 DEF Spared
  <2>4. ASSUME Phase(h, t) PROVE Idle(t)'
    <3>1. Limited(t) /\ Blank(t) /\ Tallied(t, 0) /\ r.known /\ c.next = r.next
      BY <2>1, <2>4 DEF Phase
    <3> QED BY <1>5, <2>1, <2>2, <3>1 DEF Idle, Settled, Sound, Known, Limited, Within, Blank, Tallied
  <2> QED BY <1>2, <1>3, <1>5, <2>1, <2>3, <2>4, LoopStep
<1>8. ASSUME DropHash(h) PROVE ScheduleInv'
  <2>1. pc[h] = "del" /\ Goto(h, "srem") /\ UNCHANGED <<index, score, item, todo, copy>>
        /\ hash' = [hash EXCEPT ![t] = Nothing]
    BY <1>3, <1>8 DEF DropHash, At, locals
  <2>2. pc'[h] = "srem" /\ (h \in Requests => op[h].kind = "delete")
    BY <1>1, <1>2, <1>5, <2>1, PlainFacts DEF Places, Asked
  <2>3. ~hash'[t].known /\ hash'[t].max = None /\ \A s \in Schedules \ {t} : hash'[s] = hash[s]
    BY <1>1, <2>1 DEF Nothing
  <2>4. \A s \in Schedules \ {t} : Spared(s)
    BY <1>5, <2>1, <2>3 DEF Spared
  <2>5. Phase(h, t)'
    <3>1. h \in Requests => Amid(h, t)'
      BY <1>5, <2>2 DEF Amid
    <3> QED BY <2>2, <2>3, <3>1 DEF Phase, Limited, Within, Blank, Tallied, Known
  <2> QED BY <1>2, <1>3, <1>5, <2>1, <2>2, <2>4, <2>5, PlainStep DEF Places, Resting
<1>9. ASSUME DropFromIndex(h) PROVE ScheduleInv'
  <2>1. pc[h] = "srem" /\ UNCHANGED <<hash, score>> /\ index' = index \ {t}
    BY <1>3, <1>9 DEF DropFromIndex, At
  <2>2. \A s \in Schedules \ {t} : Spared(s)
    BY <1>5, <2>1 DEF Spared
  <2>3. ASSUME Phase(h, t) PROVE Limited(t)' /\ Blank(t)' /\ Tallied(t, 0)' /\ Settled(t)' /\ ~hash'[t].known
    <3>1. Limited(t) /\ Blank(t) /\ ~r.known
      BY <2>1, <2>3 DEF Phase
    <3> QED BY <2>1, <3>1 DEF Settled, Limited, Within, Blank, Tallied, Known
  <2>4. CASE h = Startup
    <3>1. Continue(h) /\ (Phase(h, t) => Idle(t)')
      BY <1>9, <2>3, <2>4 DEF DropFromIndex, Idle
    <3> QED BY <1>2, <1>3, <1>5, <2>2, <3>1, LoopStep
  <2>5. CASE h # Startup
    <3>1. Goto(h, "zrem") /\ UNCHANGED <<item, todo, copy>>
      BY <1>9, <2>5 DEF DropFromIndex
    <3>2. pc'[h] = "zrem" /\ (h \in Requests => op[h].kind = "delete")
      BY <1>1, <1>2, <1>5, <2>1, <3>1, PlainFacts DEF Places, Asked
    <3>3. ASSUME Phase(h, t) PROVE Phase(h, t)'
      <4>1. h \in Requests => Amid(h, t)'
        BY <1>5, <3>2 DEF Amid
      <4> QED BY <2>1, <2>3, <3>2, <3>3, <4>1 DEF Phase
    <3> QED BY <1>2, <1>3, <1>5, <2>2, <2>5, <3>1, <3>3, PlainStep DEF Places, Resting
  <2> QED BY <2>4, <2>5
<1>10. ASSUME DropScore(h) PROVE ScheduleInv'
  <2>1. pc[h] = "zrem" /\ Continue(h) /\ UNCHANGED <<hash, index>> /\ score' = [score EXCEPT ![t] = None]
    BY <1>3, <1>10 DEF DropScore, At
  <2>2. \A s \in Schedules \ {t} : Spared(s)
    BY <1>5, <2>1 DEF Spared, TInv, TypeOK
  <2>3. ASSUME Phase(h, t) PROVE Idle(t)'
    <3>1. Limited(t) /\ Blank(t) /\ Tallied(t, 0) /\ ~(r.known /\ r.enabled) /\ (t \in index => r.known)
      BY <2>1, <2>3 DEF Phase
    <3> QED BY <1>5, <2>1, <3>1 DEF Idle, Settled, Sound, Known, Limited, Within, Blank, Tallied
  <2> QED BY <1>2, <1>3, <1>5, <2>1, <2>2, <2>3, LoopStep
<1> QED BY <1>6, <1>7, <1>8, <1>9, <1>10

(* A loop that begins its round; what the recovery reads.                   *)
LEMMA ScheduleLoops ==
  ASSUME TInv, ScheduleInv
  PROVE  (\E p \in Polls : PollDue(p)) \/ RecoverIds \/ RecoverReads => ScheduleInv'
<1> USE SchedulerAssumptions
<1>1. ASSUME NEW h \in Loops, NEW ids \in SUBSET Schedules, Answered(h), pc[h] \in {"due", "ids"},
             NextId(h, ids), UNCHANGED <<redis, op, mishaps, fired>>, h = Startup => ids = index
      PROVE  ScheduleInv'
  <2> SUFFICES ASSUME NEW s \in Schedules PROVE ScheduleOK(s)'
    BY DEF ScheduleInv
  <2>1. h \in Handlers /\ todo[h] = {} /\ ~WorksOn(h, s) /\ ScheduleOK(s) /\ Spared(s)
    BY <1>1 DEF Handlers, Loops, TInv, OpInv, HandOK, Resting, WorksOn, ScheduleInv, Spared, redis
  <2>2. /\ Others(h) /\ overlapped' = Meddled
        /\ WorksOn(h, s)' => pc'[h] = "get"
        /\ h = Startup => (Visited(s)' => s \notin ids)
    BY <1>1, <2>1, LoopFacts
  <2> QED BY <1>1, <2>1, <2>2, Aside DEF Meddled
<1>2. ASSUME NEW p \in Polls, PollDue(p) PROVE ScheduleInv'
  <2>1. p \in Loops /\ p # Startup /\ DueAt(polledAt[p]) \in SUBSET Schedules
    BY DEF Loops, DueAt
  <2> QED BY <1>1, <1>2, <2>1 DEF PollDue, At
<1>3. ASSUME RecoverIds PROVE ScheduleInv'
  <2>1. Startup \in Loops /\ index \in SUBSET Schedules
    BY DEF Loops, TInv, TypeOK
  <2> QED BY <1>1, <1>3, <2>1 DEF RecoverIds, At
<1>4. ASSUME RecoverReads PROVE ScheduleInv'
  <2>1. /\ Startup \in Loops /\ Startup \in Handlers /\ Startup \notin Polls \cup Requests /\ HandOK(Startup)
        /\ copy[Startup] \in Record /\ copy \in [Handlers -> Record]
    BY DEF Handlers, Loops, TInv, TypeOK, OpInv
  <2>2. /\ pc[Startup] = "get" /\ pc[Startup] \notin Resting /\ Answered(Startup)
        /\ UNCHANGED <<redis, op, polledAt, now, mishaps, fired>>
    BY <1>4 DEF RecoverReads, At, Resting
  <2>3. PICK t \in Schedules : t = item[Startup]
    BY <2>1, <2>2 DEF HandOK
  <2> DEFINE r == hash[t]
  <2>4. r \in Record /\ r.known \in BOOLEAN /\ r.enabled \in BOOLEAN
    BY RecordFields DEF TInv, TypeOK
  <2>5. \A s \in Schedules : Spared(s)
    BY <2>2 DEF Spared, redis
  <2>6. Phase(Startup, t) => Limited(t)' /\ Blank(t)' /\ Tallied(t, 0)'
    BY <2>1, <2>2 DEF Phase, Limited, Within, Blank, Tallied, Known, redis
  <2>7. CASE ~r.known
    <3>1. Goto(Startup, "srem") /\ UNCHANGED <<item, todo, copy>>
      BY <1>4, <2>3, <2>4, <2>7 DEF RecoverReads
    <3>2. pc'[Startup] = "srem"
      BY <2>1, <2>2, <3>1, PlainFacts DEF Places
    <3>3. Phase(Startup, t) => Phase(Startup, t)'
      BY <2>1, <2>2, <2>6, <2>7, <3>2 DEF Phase, redis
    <3> QED BY <2>1, <2>2, <2>3, <2>5, <3>1, <3>3, PlainStep DEF Places, Resting
  <2>8. CASE r.known /\ ~r.enabled
    <3>1. Continue(Startup)
      BY <1>4, <2>1, <2>3, <2>4, <2>8 DEF RecoverReads, Continue
    <3>2. Phase(Startup, t) => Idle(t)'
      BY <2>2, <2>6, <2>8 DEF Idle, Settled, Sound, Known, redis
    <3> QED BY <2>1, <2>2, <2>3, <2>5, <3>1, <3>2, LoopStep
  <2>9. CASE r.known /\ r.enabled
    <3>1. /\ Goto(Startup, "advance") /\ UNCHANGED <<item, todo>>
          /\ \A g \in Handlers \ {Startup} : copy'[g] = copy[g]
      BY <1>4, <2>1, <2>3, <2>4, <2>9 DEF RecoverReads
    <3>2. pc'[Startup] = "advance"
      BY <2>1, <2>2, <3>1, PlainFacts DEF Places
    <3>3. Phase(Startup, t) => Phase(Startup, t)'
      BY <2>1, <2>2, <2>6, <2>9, <3>2 DEF Phase, redis
    <3> QED BY <2>1, <2>2, <2>3, <2>5, <3>1, <3>3, PlainStep DEF Places, Resting
  <2> QED BY <2>4, <2>7, <2>8, <2>9
<1> QED BY <1>2, <1>3, <1>4

(* What begins has nothing in hand but what nobody else works on; a created *)
(* schedule is new.                                                        *)
LEMMA ScheduleArrivals ==
  ASSUME TInv, ScheduleInv
  PROVE  /\ \A p \in Polls : PollBegins(p) => ScheduleInv'
         /\ Recover => ScheduleInv'
         /\ \A q \in Requests, s \in Schedules :
              /\ \A tpl \in Templates : Create(q, s, tpl) => ScheduleInv'
              /\ \A k \in Updates, n \in Values : Update(q, s, [kind |-> k, value |-> n]) => ScheduleInv'
              /\ Delete(q, s) => ScheduleInv'
<1> USE SchedulerAssumptions
<1>1. ASSUME NEW h \in Loops, NEW l \in {"due", "ids"}, pc[h] = "no", Arrives(h, l), l = "due" => h # Startup,
             UNCHANGED <<redis, op, item, todo, copy, mishaps, fired>>
      PROVE  ScheduleInv'
  <2> SUFFICES ASSUME NEW s \in Schedules PROVE ScheduleOK(s)'
    BY DEF ScheduleInv
  <2>1. h \in Handlers
    BY DEF Handlers, Loops
  <2>2. pc' = [pc EXCEPT ![h] = l] /\ overlapped' = Meddled
    BY <1>1, <2>1, ArrivesLemma DEF TInv, Places
  <2>3. pc'[h] = l /\ Others(h) /\ overlapped \subseteq overlapped'
    BY <1>1, <2>1, <2>2 DEF TInv, TypeOK, Others, Meddled
  <2>4. ~WorksOn(h, s) /\ ~WorksOn(h, s)' /\ ScheduleOK(s) /\ Spared(s)
    BY <1>1, <2>3 DEF WorksOn, ScheduleInv, Spared, redis
  <2>5. h = Startup => ~Visited(s)'
    BY <1>1, <2>3 DEF Visited
  <2> QED BY <2>1, <2>3, <2>4, <2>5, Aside
<1>2. ASSUME NEW p \in Polls, PollBegins(p) PROVE ScheduleInv'
  <2>1. p \in Loops /\ p # Startup
    BY DEF Loops
  <2> QED BY <1>1, <1>2, <2>1 DEF PollBegins
<1>3. ASSUME Recover PROVE ScheduleInv'
  <2>1. Startup \in Loops
    BY DEF Loops
  <2> QED BY <1>1, <1>3, <2>1 DEF Recover, locals
<1>4. ASSUME NEW q \in Requests, NEW t \in Schedules, NEW l \in {"store", "load", "check"},
             pc[q] = "no", Arrives(q, l), UNCHANGED <<redis, todo, mishaps, fired>>,
             item' = [item EXCEPT ![q] = t], \A g \in Requests \ {q} : op'[g] = op[g],
             \A g \in Handlers \ {q} : copy'[g] = copy[g],
             l = "store" /\ pc'[q] = "store" => Phase(q, t)'
      PROVE  ScheduleInv'
  <2> SUFFICES ASSUME NEW s \in Schedules PROVE ScheduleOK(s)'
    BY DEF ScheduleInv
  <2>1. q \in Handlers /\ q # Startup /\ item[q] = None
    BY <1>4 DEF Handlers, TInv, OpInv, RequestOK
  <2>2. pc' = [pc EXCEPT ![q] = l] /\ overlapped' = Meddled
    BY <1>4, <2>1, ArrivesLemma DEF TInv, Places
  <2>3. pc'[q] = l /\ item'[q] = t /\ Others(q) /\ overlapped \subseteq overlapped'
    BY <1>4, <2>1, <2>2 DEF TInv, TypeOK, Others, Meddled
  <2>4. ~WorksOn(q, s) /\ ScheduleOK(s) /\ Spared(s)
    BY <1>4, <2>1 DEF WorksOn, ScheduleInv, Spared, redis
  <2>5. WorksOn(q, s)' => pc'[q] \in {"get", "load", "check"} \/ Phase(q, s)'
    BY <1>4, <2>3 DEF WorksOn
  <2> QED BY <2>1, <2>3, <2>4, <2>5, Aside
<1>5. ASSUME NEW q \in Requests, NEW t \in Schedules, NEW tpl \in Templates, Create(q, t, tpl) PROVE ScheduleInv'
  <2>1. q \in Handlers /\ q \notin Polls /\ pc[q] = "no" /\ UNCHANGED <<redis, todo, mishaps, fired>>
    BY <1>5 DEF Handlers, Create
  <2>2. CASE CreateSchedule(q, t, tpl)
    <3>1. op'[q].kind = "create" /\ \A g \in Requests \ {q} : op'[g] = op[g]
      BY <2>2 DEF CreateSchedule, TInv, TypeOK
    <3>2. copy'[q] = Made(tpl) /\ \A g \in Handlers \ {q} : copy'[g] = copy[g]
      BY <2>1, <2>2 DEF CreateSchedule, TInv, TypeOK
    <3>3. hash[t] = Nothing /\ t \notin index /\ score[t] = None /\ fired[t] = 0
      BY <2>2 DEF CreateSchedule, New
    <3>4. Made(tpl).known /\ Made(tpl).fireCount = 0 /\ (Made(tpl).max # None => Made(tpl).max > 0)
      BY MadeLemma DEF Made, TInv
    <3>5. ASSUME pc'[q] = "store" PROVE Phase(q, t)'
      <4>1. ~hash'[t].known /\ hash'[t].max = None /\ t \notin index' /\ score'[t] = None /\ fired'[t] = 0
        BY <2>1, <3>3 DEF redis, Nothing
      <4>2. Amid(q, t)'
        BY <3>1, <3>2, <3>4, <3>5, <4>1 DEF Amid, Plain, Toggles
      <4>3. Limited(t)' /\ Blank(t)' /\ Tallied(t, 0)'
        BY <4>1 DEF Limited, Blank, Tallied, Known
      <4> QED BY <2>1, <3>5, <4>1, <4>2, <4>3 DEF Phase
    <3> QED BY <1>4, <2>1, <2>2, <3>1, <3>2, <3>5 DEF CreateSchedule
  <2>3. CASE pc' = [pc EXCEPT ![q] = "rejected"] /\ UNCHANGED <<waiting, op, item, copy, overlapped>>
    <3> SUFFICES ASSUME NEW s \in Schedules PROVE ScheduleOK(s)'
      BY DEF ScheduleInv
    <3>1. pc'[q] = "rejected" /\ Others(q) /\ q # Startup
      BY <2>1, <2>3 DEF TInv, TypeOK, Others
    <3>2. ~WorksOn(q, s) /\ ~WorksOn(q, s)' /\ ScheduleOK(s) /\ Spared(s) /\ overlapped' = overlapped
      BY <2>1, <2>3, <3>1 DEF WorksOn, ScheduleInv, Spared, redis
    <3> QED BY <2>1, <3>1, <3>2, Aside
  <2> QED BY <1>5, <2>2, <2>3 DEF Create
<1>6. ASSUME NEW q \in Requests, NEW t \in Schedules, NEW k \in Updates, NEW n \in Values,
             Update(q, t, [kind |-> k, value |-> n])
      PROVE  ScheduleInv'
  <2>1. /\ pc[q] = "no" /\ Arrives(q, "load") /\ UNCHANGED <<redis, todo, copy, mishaps, fired>>
        /\ item' = [item EXCEPT ![q] = t] /\ \A g \in Requests \ {q} : op'[g] = op[g]
    BY <1>6 DEF Update, TInv, TypeOK
  <2> QED BY <1>4, <2>1
<1>7. ASSUME NEW q \in Requests, NEW t \in Schedules, Delete(q, t) PROVE ScheduleInv'
  <2>1. /\ pc[q] = "no" /\ Arrives(q, "check") /\ UNCHANGED <<redis, todo, copy, mishaps, fired>>
        /\ item' = [item EXCEPT ![q] = t] /\ \A g \in Requests \ {q} : op'[g] = op[g]
    BY <1>7 DEF Delete, TInv, TypeOK
  <2> QED BY <1>4, <2>1
<1> QED BY <1>2, <1>3, <1>5, <1>6, <1>7

(* A crash leaves every schedule without a handler, and the recovery has    *)
(* yet to come; the message that was not counted was sent before it.        *)
LEMMA ScheduleCrash == TInv /\ ScheduleInv /\ Crash => ScheduleInv'
<1> SUFFICES ASSUME TInv, ScheduleInv, Crash, NEW s \in Schedules, s \notin Meddled'
             PROVE  Idle(s)' /\ \A h \in Handlers : ~WorksOn(h, s)'
  BY DEF ScheduleInv, ScheduleOK
<1> USE SchedulerAssumptions
<1>1. /\ pc' = [h \in Handlers |-> IF h \in Requests /\ pc[h] # "no" THEN "rejected" ELSE "no"]
      /\ item' = [h \in Handlers |-> None] /\ overlapped' = Meddled
      /\ UNCHANGED <<redis, fired>> /\ mishaps' = mishaps + 1 /\ mishaps \in Nat
  BY DEF Crash, TInv, TypeOK, Meddled
<1>2. \A h \in Handlers : ~WorksOn(h, s)'
  BY <1>1 DEF WorksOn
<1>3. s \notin Meddled
  BY <1>1 DEF Meddled
<1>4. ~Visited(s)'
  BY <1>1 DEF Visited, Handlers
<1>5. Limited(s) /\ Blank(s) /\ \E n \in {0, 1} : Tallied(s, n)
  <2>1. CASE \A h \in Handlers : ~WorksOn(h, s)
    BY <1>3, <2>1 DEF ScheduleInv, ScheduleOK, Idle
  <2>2. ASSUME NEW h \in Handlers, WorksOn(h, s) PROVE Limited(s) /\ Blank(s) /\ \E n \in {0, 1} : Tallied(s, n)
    BY <1>3, <2>2 DEF ScheduleInv, ScheduleOK, Phase
  <2> QED BY <2>1, <2>2
<1>6. fired[s] \in Nat /\ hash[s].fireCount \in Nat
  BY RecordFields DEF TInv, TypeOK
<1>7. Limited(s)' /\ Blank(s)' /\ Tallied(s, 0)'
  BY <1>1, <1>5, <1>6 DEF Limited, Within, Blank, Tallied, Known, redis
<1> QED BY <1>2, <1>4, <1>7 DEF Idle, Settled

LEMMA InitSchedule == Init => ScheduleInv
<1> SUFFICES ASSUME Init, NEW s \in Schedules PROVE Idle(s) /\ \A h \in Handlers : ~WorksOn(h, s)
  BY DEF ScheduleInv, ScheduleOK
<1> USE SchedulerAssumptions
<1>1. TypeOK
  BY InitType DEF TInv
<1>2. \A h \in Handlers : ~WorksOn(h, s)
  BY DEF Init, WorksOn
<1>3. hash[s] = Nothing \/ \E tpl \in Templates : hash[s] = Made(tpl)
  BY DEF Init
<1>4. ~Visited(s)
  BY DEF Init, Visited, Handlers
<1>5. fired[s] = 0 /\ mishaps = 0 /\ hash[s].fireCount = 0
  BY <1>3 DEF Init, Nothing, Made
<1>6. CASE hash[s] = Nothing
  BY <1>2, <1>4, <1>5, <1>6 DEF Nothing, Idle, Settled, Limited, Within, Tallied, Blank, Known
<1>7. ASSUME NEW tpl \in Templates, hash[s] = Made(tpl) PROVE Idle(s)
  <2>1. Made(tpl).known /\ Made(tpl).max = tpl.max /\ (tpl.max # None => tpl.max \in Nat /\ tpl.max > 0)
    BY <1>1, MadeLemma DEF Made
  <2> QED BY <1>4, <1>5, <1>7, <2>1 DEF Idle, Settled, Limited, Within, Tallied, Blank, Known
<1> QED BY <1>2, <1>3, <1>6, <1>7

LEMMA NextSchedule == TInv /\ ScheduleInv /\ [Next]_vars => ScheduleInv'
<1> SUFFICES ASSUME TInv, ScheduleInv, [Next]_vars PROVE ScheduleInv'
  OBVIOUS
<1>1. CASE Tick \/ UNCHANGED vars
  <2>1. UNCHANGED <<waiting, redis, pc, locals, mishaps, fired, overlapped>>
    BY <1>1 DEF Tick, vars
  <2>2. \A h \in Handlers, s \in Schedules : WorksOn(h, s)' <=> WorksOn(h, s)
    BY <2>1 DEF WorksOn, locals
  <2>3. Meddled' = Meddled
    BY <2>1, <2>2 DEF Meddled, Overlapping
  <2>4. \A s \in Schedules : Idle(s)' <=> Idle(s)
    BY <2>1 DEF Idle, Settled, Sound, Visited, Limited, Within, Tallied, Blank, Known, redis, locals
  <2>5. \A h \in Handlers, s \in Schedules : Phase(h, s)' <=> Phase(h, s)
    BY <2>1 DEF Phase, Amid, Revised, Settled, Sound, Visited, Limited, Within, Tallied, Blank, Known, redis, locals
  <2> QED BY <2>2, <2>3, <2>4, <2>5 DEF ScheduleInv, ScheduleOK
<1>2. CASE Answer
  BY <1>2, SchedulePolls, ScheduleRequests, ScheduleHandlers, ScheduleLoops DEF Answer
<1> QED BY <1>1, <1>2, ScheduleArrivals, ScheduleCrash DEF Next

LEMMA ScheduleInvariant == Spec => []ScheduleInv
BY TypeInvariant, InitSchedule, NextSchedule, PTL DEF Spec

LEMMA RestLemma == TInv /\ Rest => \A h \in Handlers : ~Busy(h)
BY DEF TInv, LineInv, Rest, Elements

(* Once the hub has recovered and no handler is under way, a schedule that  *)
(* is listed is whole and due at its next fire time if it is enabled,       *)
(* wherever crashes cut the operations before: the recovery has been there  *)
(* since the last of them.                                                  *)
THEOREM PendingSafety == Spec => []ListedArePending
<1>1. TInv /\ ScheduleInv => ListedArePending
  <2> SUFFICES ASSUME TInv, ScheduleInv, Rest, pc[Startup] = "done", NEW s \in index \ overlapped
               PROVE  Known(s) /\ (hash[s].enabled => score[s] = hash[s].next)
    BY DEF ListedArePending
  <2>1. s \in Schedules
    BY DEF TInv, TypeOK
  <2>2. \A h \in Handlers : ~WorksOn(h, s)
    BY RestLemma DEF WorksOn, Busy
  <2>3. Visited(s)
    BY <2>1, VisitedLemma
  <2>4. s \notin Meddled
    BY <2>2 DEF Meddled, Overlapping
  <2> QED BY <2>1, <2>2, <2>3, <2>4 DEF ScheduleInv, ScheduleOK, Idle, Settled, Sound
<1> QED BY <1>1, TypeInvariant, ScheduleInvariant, PTL

(* A schedule stays below its limit, or where it was when an update set the *)
(* limit; and what was fired for it is counted, but for a fire that each    *)
(* crash, or a route that threw half-way, may have kept from being counted. *)
THEOREM CountSafety == Spec => []CountsFires
<1>1. TInv /\ ScheduleInv => CountsFires
  <2> SUFFICES ASSUME TInv, ScheduleInv, Rest, NEW s \in Schedules \ overlapped, Known(s)
               PROVE  fired[s] <= hash[s].fireCount + mishaps /\ Within(hash[s])
    BY DEF CountsFires
  <2>1. \A h \in Handlers : ~WorksOn(h, s)
    BY RestLemma DEF WorksOn, Busy
  <2>2. s \notin Meddled
    BY <2>1 DEF Meddled, Overlapping
  <2>3. Limited(s) /\ Tallied(s, 0)
    BY <2>1, <2>2 DEF ScheduleInv, ScheduleOK, Idle
  <2>4. hash[s].fireCount \in Nat /\ mishaps \in Nat
    BY RecordFields DEF TInv, TypeOK
  <2> QED BY <2>3, <2>4 DEF Limited, Tallied
<1> QED BY <1>1, TypeInvariant, ScheduleInvariant, PTL

-----------------------------------------------------------------------------
(* Without a poll under way, nothing is wanted.                             *)
LEMMA NoPolls ==
  ASSUME \A p \in Polls : item'[p] = None /\ todo'[p] = {}
  PROVE  PunctualInv'
BY SchedulerAssumptions DEF PunctualInv, PunctualOK, Wanted

LEMMA StartupAlone ==
  ASSUME TInv, pc[Startup] # "done", NEW p \in Polls
  PROVE  item[p] = None /\ todo[p] = {}
<1>1. PollOK(p) /\ HandOK(p) /\ p \in Loops
  BY DEF TInv, OpInv, Handlers, Loops
<1> QED BY <1>1 DEF PollOK, HandOK, Resting

(* What neither writes the schedule nor makes anybody want it.              *)
LEMMA Quiet ==
  ASSUME TInv, NEW s \in Schedules, PunctualOK(s), overlapped \subseteq overlapped',
         hash'[s] = hash[s], s \in index' <=> s \in index, now' \in Nat, now <= now',
         \A q \in Requests : item[q] = s => item'[q] = s /\ op'[q] = op[q],
         \A p \in Polls : /\ s \in todo'[p] => s \in todo[p]
                          /\ Wanted(p, s)' => Wanted(p, s)
                          /\ item'[p] = s /\ pc'[p] = "route" =>
                               (item[p] = s /\ pc[p] = "route") \/ (Known(s) /\ hash[s].enabled),
         \A q \in Requests, p \in Polls : Creating(q, s)' => Creating(q, s) \/ s \notin todo[p]
  PROVE  PunctualOK(s)'
<1>1. now \in Nat /\ hash[s].next \in Nat
  BY RecordFields DEF TInv, TypeOK
<1>2. \A q \in Requests : Changing(q, s) => Changing(q, s)'
  BY DEF Changing
<1>3. Early(s)' => Early(s)
  BY <1>1, <1>2 DEF Early, Known
<1>4. Known(s)' <=> Known(s)
  BY DEF Known
<1> QED BY <1>3, <1>4 DEF PunctualOK

(* A write to the schedule in hand, by its only handler.                    *)
LEMMA InHand ==
  ASSUME TInv, ScheduleInv, PunctualInv, NEW h \in Handlers,
         NEW l \in Places \ {"no", "due", "ids", "get", "route", "store"},
         Answered(h), pc[h] \notin Resting, Goto(h, l), UNCHANGED <<item, todo, op>>, h = Startup => l # "done",
         \A g \in Handlers \ {h} : copy'[g] = copy[g],
         NEW t \in Schedules, t = item[h],
         h \in Requests /\ op[h].kind = "create" /\ l \in {"list", "score"} => pc[h] \in {"store", "list"},
         \A p \in Polls : Phase(h, t) /\ t \in todo[p] /\ ~Early(t)
                            /\ (\A q \in Requests : ~Creating(q, t)) => ~Early(t)'
  PROVE  PunctualOK(t)'
<1>1. /\ pc'[h] = l /\ Others(h) /\ overlapped' = Meddled /\ WorksOn(h, t)
  BY PlainFacts
<1> SUFFICES ASSUME t \notin Meddled
             PROVE  /\ \A p \in Polls : Wanted(p, t)' => ~Early(t)'
                    /\ \A p \in Polls : item'[p] = t /\ pc'[p] = "route" => Known(t)' /\ hash'[t].enabled
                    /\ \A q \in Requests, p \in Polls : Creating(q, t)' => t \notin todo'[p]
  BY <1>1 DEF PunctualOK
<1>2. Phase(h, t) /\ t \notin overlapped /\ PunctualOK(t)
  BY <1>1 DEF ScheduleInv, ScheduleOK, PunctualInv, Meddled
<1>3. \A g \in Handlers \ {h} : ~WorksOn(g, t)
  BY <1>1 DEF Meddled, Overlapping
<1>4. \A p \in Polls : ~(item'[p] = t /\ pc'[p] \in {"get", "route"})
  <2> SUFFICES ASSUME NEW p \in Polls, item'[p] = t, pc'[p] \in {"get", "route"} PROVE FALSE
    OBVIOUS
  <2>1. p \in Handlers \ {h}
    BY <1>1 DEF Handlers
  <2> QED BY <1>1, <1>3, <2>1 DEF Others, WorksOn
<1>5. \A q \in Requests : Creating(q, t)' => Creating(q, t)
  <2> SUFFICES ASSUME NEW q \in Requests, Creating(q, t)' PROVE Creating(q, t)
    OBVIOUS
  <2>1. CASE q = h
    BY <1>1, <2>1 DEF Creating
  <2>2. CASE q # h
    BY <1>1, <2>2 DEF Others, Creating, Handlers
  <2> QED BY <2>1, <2>2
<1>6. ASSUME NEW p \in Polls, t \in todo[p] PROVE ~Early(t)'
  <2>1. ~Early(t) /\ \A q \in Requests : ~Creating(q, t)
    BY <1>2, <1>6 DEF PunctualOK, Wanted
  <2> QED BY <1>2, <1>6, <2>1
<1> QED BY <1>2, <1>4, <1>5, <1>6 DEF PunctualOK, Wanted

(* What a step of h that writes nothing of a schedule may do with it: the   *)
(* polls want no more of it than before, the requests keep it.              *)
LEMMA Elsewhere ==
  ASSUME TInv, PunctualInv, NEW h \in Handlers, NEW s \in Schedules, Others(h), overlapped' = Meddled,
         hash'[s] = hash[s], s \in index' <=> s \in index, UNCHANGED <<op, now>>,
         h \in Requests => item'[h] = item[h] /\ (Creating(h, s)' => Creating(h, s)),
         h \in Polls => /\ s \in todo'[h] => s \in todo[h]
                        /\ item'[h] = s /\ pc'[h] \in {"get", "route"} => Wanted(h, s)
                        /\ item'[h] = s /\ pc'[h] = "route" =>
                               (item[h] = s /\ pc[h] = "route") \/ (Known(s) /\ hash[s].enabled)
  PROVE  PunctualOK(s)'
<1>1. now \in Nat /\ overlapped \subseteq overlapped' /\ PunctualOK(s)
  BY DEF TInv, TypeOK, Meddled, PunctualInv
<1>2. \A q \in Requests : /\ item[q] = s => item'[q] = s
                          /\ Creating(q, s)' => Creating(q, s)
  BY DEF Others, Creating, Handlers
<1>3. ASSUME NEW p \in Polls
      PROVE  /\ s \in todo'[p] => s \in todo[p]
             /\ Wanted(p, s)' => Wanted(p, s)
             /\ item'[p] = s /\ pc'[p] = "route" =>
                  (item[p] = s /\ pc[p] = "route") \/ (Known(s) /\ hash[s].enabled)
  <2>1. CASE p = h
    BY <2>1 DEF Wanted
  <2>2. CASE p # h
    BY <2>2 DEF Others, Wanted, Handlers
  <2> QED BY <2>1, <2>2
<1> QED BY <1>1, <1>2, <1>3, Quiet

(* What is due is not early: a handler in the midst of it has left no score *)
(* below the next fire time, unless it is changing that.                   *)
LEMMA DueNotEarly ==
  ASSUME TInv, ScheduleInv, OnePoll, NEW p \in Polls, pc[p] = "due", NEW s \in DueAt(polledAt[p]), s \notin Meddled
  PROVE  ~Early(s) /\ \A q \in Requests : ~Creating(q, s)
<1> USE SchedulerAssumptions
<1>1. s \in Schedules /\ score[s] # None /\ score[s] <= polledAt[p] /\ score[s] \in Nat
  BY DEF DueAt, TInv, TypeOK
<1>2. polledAt[p] <= now /\ polledAt[p] \in Nat /\ now \in Nat /\ pc[Startup] = "done"
  BY DEF TInv, TypeOK, OpInv, PollOK
<1>3. Visited(s) /\ hash[s].next \in Nat
  BY <1>1, <1>2, VisitedLemma, RecordFields DEF TInv, TypeOK
<1>4. Settled(s) => ~Early(s)
  BY <1>1, <1>2, <1>3 DEF Settled, Sound, Early
<1>5. CASE \A h \in Handlers : ~WorksOn(h, s)
  <2>1. ~Early(s)
    BY <1>1, <1>4, <1>5 DEF ScheduleInv, ScheduleOK, Idle
  <2>2. \A q \in Requests : ~Creating(q, s)
    BY <1>5 DEF Creating, WorksOn, Handlers
  <2> QED BY <2>1, <2>2
<1>6. ASSUME NEW h \in Handlers, WorksOn(h, s) PROVE ~Early(s) /\ \A q \in Requests : ~Creating(q, s)
  <2>1. h \in Requests /\ Asked(pc[h], op[h].kind) /\ item[h] = s /\ pc[h] \notin Resting
    <3>1. h \notin Polls
      BY <1>6 DEF OnePoll, WorksOn
    <3>2. h # Startup
      BY <1>2, <1>6 DEF WorksOn
    <3> QED BY <1>6, <3>1, <3>2 DEF Handlers, WorksOn, TInv, OpInv, RequestOK, Resting
  <2>2. Phase(h, s) /\ Amid(h, s)
    BY <1>1, <1>6, <2>1 DEF ScheduleInv, ScheduleOK, Phase
  <2>3. op[h].kind \in Updates \cup {"create", "delete"}
    <3>1. pc[h] \in {"load", "toggle", "store", "list", "score", "check", "del", "srem", "zrem"}
      BY <2>1 DEF TInv, TypeOK, Resting, Asked
    <3> QED BY <2>1, <3>1 DEF Asked, Updates, Plain, Toggles, Reschedules
  <2>4. ~Creating(h, s)
    BY <1>1, <2>2 DEF Amid, Creating
  <2>5. \A q \in Requests \ {h} : ~Creating(q, s)
    BY <1>1, <1>6 DEF Meddled, Overlapping, Creating, WorksOn, Handlers
  <2>6. ~Early(s)
    <3> SUFFICES ASSUME Early(s) PROVE FALSE
      OBVIOUS
    <3>1. op[h].kind \notin Reschedules \cup {"resume"} /\ Known(s) /\ hash[s].enabled /\ s \in index
      BY <2>1 DEF Early, Changing
    <3>2. ~Settled(s)
      BY <1>4
    <3>3. pc[h] \in {"toggle", "store", "list", "score", "check", "del", "srem", "zrem"} /\ pc[h] # "toggle" /\ pc[h] # "check"
      BY <2>1, <2>2, <3>2 DEF TInv, TypeOK, Resting, Asked, Phase
    <3>4. pc[h] # "del"
      BY <2>2, <3>2 DEF Amid
    <3>5. pc[h] \notin {"srem", "zrem"}
      BY <2>2, <3>1 DEF Phase, Known
    <3>6. pc[h] \notin {"list", "score"}
      BY <2>1, <2>4, <3>1 DEF Asked, Creating
    <3>7. CASE pc[h] = "store"
      <4>1. op[h].kind \in Plain \cup {"pause"}
        BY <2>1, <2>4, <3>1, <3>7 DEF Asked, Creating, Updates, Plain, Toggles, Reschedules
      <4>2. op[h].kind = "pause"
        BY <2>2, <3>2, <3>7, <4>1 DEF Amid
      <4>3. ~copy[h].enabled
        BY <2>2, <3>7, <4>2 DEF Amid, Revised
      <4> QED BY <1>1, <2>2, <3>7, <4>2, <4>3 DEF Amid, Toggles
    <3> QED BY <3>3, <3>4, <3>5, <3>6, <3>7
  <2> QED BY <2>4, <2>5, <2>6
<1> QED BY <1>5, <1>6

LEMMA PunctualContinue ==
  ASSUME TInv, PunctualInv, NEW h \in Handlers, h # Startup, Answered(h), pc[h] \notin Resting, Continue(h),
         UNCHANGED <<op, now>>, NEW s \in Schedules, hash'[s] = hash[s], s \in index' <=> s \in index
  PROVE  PunctualOK(s)'
<1> USE SchedulerAssumptions
<1>1. CASE h \in Loops
  <2>1. h \in Polls /\ h \notin Requests /\ NextId(h, todo[h]) /\ todo[h] \in SUBSET Schedules
        /\ pc[h] \notin {"no", "done"}
    BY <1>1 DEF Loops, Continue, TInv, TypeOK, Resting
  <2>2. /\ Others(h) /\ overlapped' = Meddled
        /\ \A u \in Schedules \ todo[h] : ~WorksOn(h, u)'
        /\ \A u \in Schedules : WorksOn(h, u)' => pc'[h] = "get"
    BY <1>1, <2>1, LoopFacts
  <2>3. s \in todo'[h] => s \in todo[h]
    <3>1. todo' = todo \/ \E u \in todo[h] : todo' = [todo EXCEPT ![h] = todo[h] \ {u}]
      BY <2>1 DEF NextId
    <3> QED BY <3>1 DEF TInv, TypeOK
  <2> QED BY <2>1, <2>2, <2>3, Elsewhere DEF Wanted, WorksOn
<1>2. CASE h \notin Loops
  <2>1. h \in Requests /\ h \notin Polls /\ Goto(h, "done") /\ UNCHANGED <<item, todo, copy>>
    BY <1>2 DEF Handlers, Loops, Continue
  <2>2. pc'[h] = "done" /\ Others(h) /\ overlapped' = Meddled
    BY <2>1, PlainFacts DEF Places
  <2> QED BY <2>1, <2>2, Elsewhere DEF Creating
<1> QED BY <1>1, <1>2

LEMMA PunctualPolls ==
  ASSUME TInv, ScheduleInv, PunctualInv, OnePoll, NEW p \in Polls
  PROVE  PollDue(p) \/ PollReads(p) \/ RouteSucceeds(p) \/ RouteFails(p) => PunctualInv'
<1> USE SchedulerAssumptions
<1> SUFFICES ASSUME PollDue(p) \/ PollReads(p) \/ RouteSucceeds(p) \/ RouteFails(p), NEW s \in Schedules
             PROVE  PunctualOK(s)'
  BY DEF PunctualInv
<1>1. p \in Handlers /\ p \in Loops /\ p \notin Requests /\ p # Startup /\ HandOK(p)
  BY DEF Handlers, Loops, TInv, OpInv
<1>2. UNCHANGED <<redis, op, now>> /\ Answered(p)
  BY DEF PollDue, PollReads, RouteSucceeds, RouteFails, At
<1>3. ASSUME PollDue(p) PROVE PunctualOK(s)'
  <2>1. pc[p] = "due" /\ NextId(p, DueAt(polledAt[p])) /\ DueAt(polledAt[p]) \in SUBSET Schedules /\ todo[p] = {}
    BY <1>1, <1>3 DEF PollDue, At, DueAt, HandOK, Resting
  <2>2. /\ Others(p) /\ overlapped' = Meddled
        /\ \A u \in Schedules \ DueAt(polledAt[p]) : ~WorksOn(p, u)'
        /\ \A u \in Schedules : WorksOn(p, u)' => pc'[p] = "get"
    BY <1>1, <1>2, <2>1, LoopFacts
  <2>3. \A q \in Requests : item'[q] = item[q] /\ pc'[q] = pc[q] /\ op'[q] = op[q]
    BY <1>1, <1>2, <2>2 DEF Others, Handlers
  <2>4. Early(s)' => Early(s)
    BY <1>2, <2>3 DEF Early, Changing, Known, redis
  <2>5. \A q \in Requests : Creating(q, s)' => Creating(q, s)
    BY <2>3 DEF Creating
  <2>6. s \in todo'[p] => s \in DueAt(polledAt[p])
    <3>1. todo' = todo \/ \E u \in DueAt(polledAt[p]) : todo' = [todo EXCEPT ![p] = DueAt(polledAt[p]) \ {u}]
      BY <2>1 DEF NextId
    <3> QED BY <1>1, <2>1, <3>1 DEF TInv, TypeOK
  <2>7. Wanted(p, s)' => s \in DueAt(polledAt[p])
    BY <2>2, <2>6 DEF Wanted, WorksOn
  <2>8. ~(item'[p] = s /\ pc'[p] = "route")
    BY <2>2 DEF WorksOn
  <2>9. \A r \in Polls : r = p
    BY DEF OnePoll
  <2>10. ASSUME s \notin Meddled, s \in DueAt(polledAt[p])
         PROVE  ~Early(s)' /\ \A q \in Requests : ~Creating(q, s)'
    BY <2>1, <2>4, <2>5, <2>10, DueNotEarly
  <2> QED BY <2>2, <2>6, <2>7, <2>8, <2>9, <2>10 DEF PunctualOK
<1>4. ASSUME PollReads(p) \/ RouteSucceeds(p) PROVE PunctualOK(s)'
  <2>1. /\ pc[p] \in {"get", "route"} /\ pc[p] \notin Resting /\ UNCHANGED <<item, todo>>
        /\ \A g \in Handlers \ {p} : copy'[g] = copy[g]
    BY <1>1, <1>4 DEF PollReads, RouteSucceeds, At, Resting, TInv, TypeOK
  <2>2. PICK l \in {"route", "zrem", "del", "advance"} :
          Goto(p, l) /\ (l = "route" => hash[item[p]].known /\ hash[item[p]].enabled)
    BY <1>4 DEF PollReads, RouteSucceeds, Fires
  <2>3. pc'[p] = l /\ Others(p) /\ overlapped' = Meddled
    BY <1>1, <1>2, <2>1, <2>2, PlainFacts DEF Places
  <2> QED BY <1>1, <1>2, <2>1, <2>2, <2>3, Elsewhere DEF redis, Wanted, Known
<1>5. ASSUME RouteFails(p) PROVE PunctualOK(s)'
  <2>1. pc[p] \notin Resting /\ Continue(p)
    BY <1>1, <1>5 DEF RouteFails, At, Resting, Continue
  <2> QED BY <1>1, <1>2, <2>1, PunctualContinue DEF redis
<1> QED BY <1>3, <1>4, <1>5

LEMMA PunctualRequests ==
  ASSUME TInv, ScheduleInv, PunctualInv, NEW q \in Requests
  PROVE  AddToIndex(q) \/ UpdateReads(q) \/ Toggle(q) \/ Store(q) \/ DeleteChecks(q) => PunctualInv'
<1> USE SchedulerAssumptions
<1> SUFFICES ASSUME AddToIndex(q) \/ UpdateReads(q) \/ Toggle(q) \/ Store(q) \/ DeleteChecks(q),
                    NEW s \in Schedules
             PROVE  PunctualOK(s)'
  BY DEF PunctualInv
<1>1. /\ q \in Handlers /\ q \notin Loops /\ q \notin Polls /\ q # Startup /\ HandOK(q)
      /\ Asked(pc[q], op[q].kind) /\ copy[q] \in Record /\ copy \in [Handlers -> Record]
      /\ hash \in [Schedules -> Record]
  BY DEF Handlers, Loops, TInv, TypeOK, OpInv, RequestOK
<1>2. pc[q] \in {"list", "load", "toggle", "store", "check"} /\ pc[q] \notin Resting /\ Answered(q)
  BY DEF AddToIndex, UpdateReads, Toggle, Store, DeleteChecks, At, Resting
<1>3. PICK t \in Schedules : t = item[q]
  BY <1>1, <1>2 DEF HandOK
<1>4. UNCHANGED <<op, item, todo, now>> /\ op' = op /\ \A g \in Handlers \ {q} : copy'[g] = copy[g]
  BY <1>1 DEF AddToIndex, UpdateReads, Toggle, Store, DeleteChecks, locals
<1>5. PICK l \in {"score", "toggle", "store", "rejected", "list", "done", "del"} :
        /\ Goto(q, l)
        /\ l = "list" => Store(q)
        /\ l = "score" => Store(q) \/ AddToIndex(q)
        /\ l = "store" => Toggle(q) \/ UpdateReads(q)
        /\ l \in {"toggle", "rejected", "del"} => ~Store(q) /\ ~AddToIndex(q)
  BY <1>1, <1>2 DEF AddToIndex, UpdateReads, Toggle, Store, DeleteChecks, At
<1>6. pc'[q] = l /\ Others(q) /\ overlapped' = Meddled
  BY <1>1, <1>2, <1>4, <1>5, PlainFacts DEF Places
<1>7. CASE UpdateReads(q) \/ Toggle(q) \/ DeleteChecks(q)
  <2>1. hash' = hash /\ index' = index /\ l \notin {"list", "score"}
    BY <1>5, <1>7 DEF UpdateReads, Toggle, DeleteChecks, Store, AddToIndex, At, redis
  <2>2. Creating(q, s)' => Creating(q, s)
    <3>1. l = "store" => op[q].kind # "create"
      BY <1>1, <1>5, <1>7 DEF UpdateReads, Toggle, At, Asked, Toggles, Updates, Plain, Reschedules
    <3> QED BY <1>4, <1>6, <2>1, <3>1 DEF Creating
  <2> QED BY <1>1, <1>4, <1>6, <2>1, <2>2, Elsewhere
<1>8. ASSUME Store(q) \/ AddToIndex(q), s # t PROVE PunctualOK(s)'
  <2>1. hash'[s] = hash[s] /\ (s \in index' <=> s \in index)
    BY <1>3, <1>8 DEF Store, AddToIndex, Stored, TInv, TypeOK
  <2>2. ~Creating(q, s)'
    BY <1>3, <1>4, <1>8 DEF Creating
  <2> QED BY <1>1, <1>4, <1>6, <2>1, <2>2, Elsewhere
<1>9. ASSUME AddToIndex(q) PROVE PunctualOK(t)'
  <2>1. l = "score" /\ pc[q] = "list" /\ op[q].kind = "create" /\ Creating(q, t)
    BY <1>1, <1>2, <1>3, <1>5, <1>6, <1>9 DEF AddToIndex, At, Asked, Creating, Goto, TInv, TypeOK
  <2> QED BY <1>1, <1>2, <1>3, <1>4, <1>5, <2>1, InHand DEF Places
<1>10. ASSUME Store(q) PROVE PunctualOK(t)'
  <2>1. /\ pc[q] = "store" /\ l \in {"list", "score", "done"} /\ index' = index
        /\ hash' = Stored(t, copy[q]) /\ op[q].kind \in Updates \cup {"create"}
    BY <1>1, <1>2, <1>3, <1>5, <1>10 DEF Store, At, Asked, UpdateReads, Toggle
  <2>2. /\ hash'[t].known = copy[q].known /\ hash'[t].enabled = copy[q].enabled /\ hash'[t].next = copy[q].next
    <3>1. copy[q] \in Record /\ hash \in [Schedules -> Record]
      BY <1>1
    <3>2. /\ Stored(t, copy[q])[t].known = copy[q].known /\ Stored(t, copy[q])[t].enabled = copy[q].enabled
          /\ Stored(t, copy[q])[t].next = copy[q].next
      BY <3>1, StoredLemma
    <3> QED BY <2>1, <3>2
  <2>3. ASSUME NEW p \in Polls, Phase(q, t), ~Early(t), \A g \in Requests : ~Creating(g, t) PROVE ~Early(t)'
    <3>1. op[q].kind # "create" /\ Revised(q, t)
      BY <1>3, <2>1, <2>3 DEF Phase, Amid, Creating
    <3> SUFFICES ASSUME Early(t)' PROVE FALSE
      OBVIOUS
    <3>2. op[q].kind \notin Reschedules \cup {"resume"} /\ ~\E g \in Requests : Changing(g, t)
      BY <1>3, <1>4 DEF Early, Changing
    <3>3. op[q].kind # "pause"
      BY <2>2, <3>1 DEF Early, Revised
    <3>4. op[q].kind \notin Toggles
      BY <3>2, <3>3 DEF Toggles, Reschedules
    <3> QED BY <1>4, <2>1, <2>2, <2>3, <3>1, <3>2, <3>4 DEF Early, Revised, Known
  <2> QED BY <1>1, <1>2, <1>3, <1>4, <1>5, <2>1, <2>3, InHand DEF Places
<1> QED BY <1>7, <1>8, <1>9, <1>10

LEMMA PunctualHandlers ==
  ASSUME TInv, ScheduleInv, PunctualInv, OnePoll, NEW h \in Handlers
  PROVE  Advance(h) \/ Score(h) \/ DropHash(h) \/ DropFromIndex(h) \/ DropScore(h) => PunctualInv'
<1> USE SchedulerAssumptions
<1> SUFFICES ASSUME Advance(h) \/ Score(h) \/ DropHash(h) \/ DropFromIndex(h) \/ DropScore(h)
             PROVE  PunctualInv'
  OBVIOUS
<1>1. HandOK(h) /\ (h \in Requests => Asked(pc[h], op[h].kind))
  BY DEF TInv, OpInv, RequestOK
<1>2. pc[h] \in {"advance", "score", "del", "srem", "zrem"} /\ pc[h] \notin Resting /\ Answered(h)
  BY DEF Advance, Score, DropHash, DropFromIndex, DropScore, At, Resting
<1>3. PICK t \in Schedules : t = item[h]
  BY <1>1, <1>2 DEF HandOK
<1>4. UNCHANGED <<op, now>> /\ op' = op
  BY DEF Advance, Score, DropHash, DropFromIndex, DropScore, locals
<1>5. CASE h = Startup
  <2>1. \A p \in Polls : item[p] = None /\ todo[p] = {} /\ p \in Handlers \ {h}
    BY <1>2, <1>5, StartupAlone DEF Handlers
  <2>2. Others(h)
    <3>1. CASE Advance(h) \/ DropHash(h)
      <4>1. PICK l \in {"score", "srem"} : Goto(h, l) /\ UNCHANGED <<item, todo, copy>>
        BY <3>1 DEF Advance, DropHash, locals
      <4> QED BY <1>2, <1>4, <4>1, PlainFacts DEF Places
    <3>2. CASE Score(h) \/ DropFromIndex(h) \/ DropScore(h)
      <4>1. NextId(h, todo[h]) /\ h \in Loops /\ todo[h] \in SUBSET Schedules /\ pc[h] \notin {"no", "done"}
        BY <1>2, <1>5, <3>2 DEF Score, DropFromIndex, DropScore, Continue, Loops, TInv, TypeOK
      <4> QED BY <1>2, <1>4, <4>1, LoopFacts
    <3> QED BY <3>1, <3>2
  <2>3. \A p \in Polls : item'[p] = None /\ todo'[p] = {}
    BY <2>1, <2>2 DEF Others
  <2> QED BY <2>3, NoPolls
<1>6. CASE h # Startup
  <2> SUFFICES ASSUME NEW s \in Schedules PROVE PunctualOK(s)'
    BY DEF PunctualInv
  <2>1. CASE Score(h) \/ DropScore(h)
    <3>1. Continue(h) /\ UNCHANGED <<hash, index>>
      BY <2>1 DEF Score, DropScore
    <3> QED BY <1>2, <1>4, <1>6, <3>1, PunctualContinue
  <2>2. CASE Advance(h) \/ DropHash(h) \/ DropFromIndex(h)
    <3>1. PICK l \in {"score", "srem", "zrem"} :
            /\ Goto(h, l) /\ UNCHANGED <<item, todo, copy>> /\ (l = "score" => Advance(h))
      BY <1>6, <2>2 DEF Advance, DropHash, DropFromIndex, locals
    <3>2. pc'[h] = l /\ Others(h) /\ overlapped' = Meddled
      BY <1>2, <1>4, <1>6, <3>1, PlainFacts DEF Places
    <3>3. h \in Requests => l # "score"
      BY <1>1, <3>1 DEF Advance, At, Asked
    <3>4. CASE s # t
      <4>1. hash'[s] = hash[s] /\ (s \in index' <=> s \in index)
        BY <1>3, <2>2, <3>4 DEF Advance, DropHash, DropFromIndex, TInv, TypeOK
      <4> QED BY <1>2, <1>4, <3>1, <3>2, <3>3, <4>1, Elsewhere DEF Creating, Wanted
    <3>5. CASE s = t
      <4>1. ASSUME NEW p \in Polls, t \in todo[p] PROVE ~Early(t)'
        <5>1. CASE Advance(h)
          <6>1. h \in Polls
            BY <1>1, <1>6, <5>1 DEF Handlers, Advance, At, Asked
          <6> QED BY <1>1, <1>3, <4>1, <6>1 DEF OnePoll, HandOK
        <5>2. CASE DropHash(h)
          BY <1>3, <5>2 DEF DropHash, Early, Known, Nothing, TInv, TypeOK
        <5>3. CASE DropFromIndex(h)
          BY <1>3, <5>3 DEF DropFromIndex, Early
        <5> QED BY <2>2, <5>1, <5>2, <5>3
      <4> QED BY <1>2, <1>3, <1>4, <1>6, <3>1, <3>3, <3>5, <4>1, InHand DEF Places
    <3> QED BY <3>4, <3>5
  <2> QED BY <2>1, <2>2
<1> QED BY <1>5, <1>6

LEMMA PunctualArrivals ==
  ASSUME TInv, PunctualInv
  PROVE  /\ \A p \in Polls : PollBegins(p) => PunctualInv'
         /\ \A q \in Requests, s \in Schedules :
              /\ \A tpl \in Templates : Create(q, s, tpl) => PunctualInv'
              /\ \A k \in Updates, n \in Values : Update(q, s, [kind |-> k, value |-> n]) => PunctualInv'
              /\ Delete(q, s) => PunctualInv'
<1> USE SchedulerAssumptions
<1>0. now \in Nat /\ overlapped \subseteq Meddled /\ (Startup \in Handlers)
  BY DEF TInv, TypeOK, Meddled, Handlers
<1>1. ASSUME NEW p \in Polls, PollBegins(p) PROVE PunctualInv'
  <2> SUFFICES ASSUME NEW s \in Schedules PROVE PunctualOK(s)'
    BY DEF PunctualInv
  <2>1. p \in Handlers /\ p \notin Requests
    BY DEF Handlers
  <2>2. pc' = [pc EXCEPT ![p] = "due"] /\ overlapped' = Meddled
        /\ UNCHANGED <<redis, op, item, todo, copy, now, mishaps, fired>>
    BY <1>1, <2>1, ArrivesLemma DEF PollBegins, TInv, Places
  <2>3. pc'[p] = "due" /\ Others(p)
    BY <2>1, <2>2 DEF TInv, TypeOK, Others
  <2> QED BY <2>1, <2>2, <2>3, Elsewhere DEF redis, Wanted
<1>2. ASSUME NEW q \in Requests, NEW t \in Schedules, NEW l \in {"store", "load", "check"},
             pc[q] = "no", Arrives(q, l), UNCHANGED <<redis, todo, now>>, item' = [item EXCEPT ![q] = t],
             \A g \in Requests \ {q} : op'[g] = op[g],
             l = "store" => \A p \in Polls : t \notin todo[p]
      PROVE  PunctualInv'
  <2> SUFFICES ASSUME NEW s \in Schedules PROVE PunctualOK(s)'
    BY DEF PunctualInv
  <2>1. q \in Handlers /\ q \notin Polls /\ item[q] = None
    BY <1>2 DEF Handlers, TInv, OpInv, RequestOK
  <2>0. pc' = [pc EXCEPT ![q] = l] /\ overlapped' = Meddled
    BY <1>2, <2>1, ArrivesLemma DEF TInv, Places
  <2>2. /\ pc'[q] = l /\ item'[q] = t
        /\ \A g \in Handlers \ {q} : pc'[g] = pc[g] /\ item'[g] = item[g]
    BY <1>2, <2>0, <2>1 DEF TInv, TypeOK
  <2>3. \A g \in Requests : item[g] = s => item'[g] = s /\ op'[g] = op[g]
    BY <1>2, <2>1, <2>2 DEF Handlers
  <2>4. \A p \in Polls : pc'[p] = pc[p] /\ item'[p] = item[p] /\ todo'[p] = todo[p]
    BY <1>2, <2>1, <2>2 DEF Handlers
  <2>5. \A g \in Requests, p \in Polls : Creating(g, s)' => Creating(g, s) \/ s \notin todo[p]
    <3> SUFFICES ASSUME NEW g \in Requests, Creating(g, s)', ~Creating(g, s) PROVE \A p \in Polls : s \notin todo[p]
      OBVIOUS
    <3>1. g = q
      BY <1>2, <2>2 DEF Creating, Handlers
    <3> QED BY <1>2, <2>2, <3>1 DEF Creating
  <2>6. hash'[s] = hash[s] /\ (s \in index' <=> s \in index) /\ now' \in Nat /\ now <= now'
        /\ overlapped \subseteq overlapped'
    BY <1>0, <1>2, <2>0 DEF redis
  <2> QED BY <2>3, <2>4, <2>5, <2>6, Quiet DEF PunctualInv, Wanted
<1>3. ASSUME NEW q \in Requests, NEW t \in Schedules, NEW tpl \in Templates, Create(q, t, tpl) PROVE PunctualInv'
  <2>1. pc[q] = "no" /\ UNCHANGED <<redis, todo, now>>
    BY <1>3 DEF Create
  <2>2. CASE CreateSchedule(q, t, tpl)
    <3>1. /\ item' = [item EXCEPT ![q] = t] /\ \A g \in Requests \ {q} : op'[g] = op[g]
          /\ Arrives(q, "store") /\ \A p \in Polls : t \notin todo[p]
      BY <2>2 DEF CreateSchedule, New, Handlers, TInv, TypeOK
    <3> QED BY <1>2, <2>1, <3>1
  <2>3. CASE pc' = [pc EXCEPT ![q] = "rejected"] /\ UNCHANGED <<waiting, op, item, copy, overlapped>>
    <3> SUFFICES ASSUME NEW s \in Schedules PROVE PunctualOK(s)'
      BY DEF PunctualInv
    <3>1. \A h \in Handlers : pc'[h] = pc[h] \/ pc'[h] = "rejected"
      BY <2>3 DEF TInv, TypeOK
    <3>2. \A p \in Polls : pc'[p] = pc[p]
      BY <2>3 DEF Handlers, TInv, TypeOK
    <3>3. /\ \A g \in Requests : Creating(g, s)' => Creating(g, s)
          /\ \A p \in Polls : Wanted(p, s)' => Wanted(p, s)
      BY <2>1, <2>3, <3>1, <3>2 DEF Creating, Wanted, Handlers
    <3> QED BY <1>0, <2>1, <2>3, <3>2, <3>3, Quiet DEF PunctualInv, redis
  <2> QED BY <1>3, <2>2, <2>3 DEF Create
<1>4. ASSUME NEW q \in Requests, NEW t \in Schedules, NEW k \in Updates, NEW n \in Values,
             Update(q, t, [kind |-> k, value |-> n])
      PROVE  PunctualInv'
  <2>1. /\ pc[q] = "no" /\ UNCHANGED <<redis, todo, now>> /\ Arrives(q, "load")
        /\ item' = [item EXCEPT ![q] = t] /\ \A g \in Requests \ {q} : op'[g] = op[g]
    BY <1>4 DEF Update, TInv, TypeOK
  <2> QED BY <1>2, <2>1
<1>5. ASSUME NEW q \in Requests, NEW t \in Schedules, Delete(q, t) PROVE PunctualInv'
  <2>1. /\ pc[q] = "no" /\ UNCHANGED <<redis, todo, now>> /\ Arrives(q, "check")
        /\ item' = [item EXCEPT ![q] = t] /\ \A g \in Requests \ {q} : op'[g] = op[g]
    BY <1>5 DEF Delete, TInv, TypeOK
  <2> QED BY <1>2, <2>1
<1> QED BY <1>1, <1>3, <1>4, <1>5

(* Before the recovery has ended, and after a crash, no poll is under way.  *)
LEMMA PunctualStarts ==
  ASSUME TInv
  PROVE  Recover \/ RecoverIds \/ RecoverReads \/ Crash => PunctualInv'
<1> USE SchedulerAssumptions
<1>1. Startup \in Handlers /\ Startup \in Loops /\ \A p \in Polls : p \in Handlers \ {Startup}
  BY DEF Handlers, Loops
<1>2. ASSUME Crash PROVE PunctualInv'
  <2>1. \A p \in Polls : item'[p] = None /\ todo'[p] = {}
    BY <1>1, <1>2 DEF Crash
  <2> QED BY <2>1, NoPolls
<1>3. ASSUME Recover PROVE PunctualInv'
  <2>1. pc[Startup] # "done" /\ UNCHANGED <<item, todo>>
    BY <1>3 DEF Recover, locals
  <2> QED BY <2>1, StartupAlone, NoPolls
<1>4. ASSUME RecoverIds \/ RecoverReads PROVE PunctualInv'
  <2>1. pc[Startup] \in {"ids", "get"} /\ Answered(Startup) /\ UNCHANGED op
    BY <1>4 DEF RecoverIds, RecoverReads, At
  <2>2. Others(Startup)
    <3>1. CASE RecoverIds
      <4>1. NextId(Startup, index) /\ index \in SUBSET Schedules /\ pc[Startup] = "ids"
        BY <3>1 DEF RecoverIds, At, TInv, TypeOK
      <4>2. todo[Startup] = {}
        BY <1>1, <4>1 DEF TInv, OpInv, HandOK, Resting
      <4> QED BY <1>1, <2>1, <4>1, <4>2, LoopFacts
    <3>2. CASE RecoverReads
      <4>1. pc[Startup] \notin Resting
        BY <3>2 DEF RecoverReads, At, Resting
      <4>2. hash[item[Startup]].known \in BOOLEAN /\ hash[item[Startup]].enabled \in BOOLEAN
        BY <1>1, <4>1, RecordFields DEF TInv, TypeOK, OpInv, HandOK
      <4>3. CASE NextId(Startup, todo[Startup])
        <5>1. todo[Startup] \in SUBSET Schedules
          BY <1>1 DEF TInv, TypeOK
        <5> QED BY <1>1, <2>1, <4>3, <5>1, LoopFacts
      <4>4. CASE ~NextId(Startup, todo[Startup])
        <5>1. PICK l \in {"srem", "advance"} :
                /\ Goto(Startup, l) /\ UNCHANGED <<item, todo>>
                /\ \A g \in Handlers \ {Startup} : copy'[g] = copy[g]
          BY <3>2, <4>2, <4>4 DEF RecoverReads, TInv, TypeOK
        <5> QED BY <1>1, <2>1, <4>1, <5>1, PlainFacts DEF Places
      <4> QED BY <4>3, <4>4
    <3> QED BY <1>4, <3>1, <3>2
  <2>3. \A p \in Polls : item'[p] = None /\ todo'[p] = {}
    <3>1. \A p \in Polls : item[p] = None /\ todo[p] = {}
      BY <2>1, StartupAlone
    <3> QED BY <1>1, <2>2, <3>1 DEF Others
  <2> QED BY <2>3, NoPolls
<1> QED BY <1>2, <1>3, <1>4

LEMMA InitPunctual == Init => PunctualInv
BY SchedulerAssumptions DEF Init, PunctualInv, PunctualOK, Wanted, Handlers

LEMMA NextPunctual ==
  ASSUME OnePoll
  PROVE  TInv /\ ScheduleInv /\ PunctualInv /\ [Next]_vars => PunctualInv'
<1> SUFFICES ASSUME TInv, ScheduleInv, PunctualInv, [Next]_vars PROVE PunctualInv'
  OBVIOUS
<1>1. CASE Tick \/ UNCHANGED vars
  <2> SUFFICES ASSUME NEW s \in Schedules PROVE PunctualOK(s)'
    BY DEF PunctualInv
  <2>1. UNCHANGED <<redis, pc, locals, overlapped>> /\ now' \in Nat /\ now <= now'
    BY <1>1 DEF Tick, vars, TInv, TypeOK
  <2> QED BY <2>1, Quiet DEF PunctualInv, Wanted, Creating, redis, locals
<1>2. CASE Answer
  BY <1>2, PunctualPolls, PunctualRequests, PunctualHandlers, PunctualStarts DEF Answer
<1> QED BY <1>1, <1>2, PunctualArrivals, PunctualStarts DEF Next

(* With one poll at a time, a schedule on which no two operations           *)
(* overlapped is fired only while it exists and is enabled, and, if it is   *)
(* listed, not early unless it was rescheduled or resumed since the start.  *)
THEOREM PunctualSafety ==
  ASSUME \A p, r \in Polls : p = r
  PROVE  Spec => FiresWhenDue
<1>1. OnePoll
  BY DEF OnePoll
<1>2. Spec => []PunctualInv
  BY <1>1, TypeInvariant, ScheduleInvariant, InitPunctual, NextPunctual, PTL DEF Spec
<1> DEFINE A ==
      \A s \in Schedules \ overlapped :
        fired'[s] > fired[s] =>
          /\ Known(s) /\ hash[s].enabled
          /\ s \in index =>
               \/ hash[s].next <= now
               \/ \E q \in Requests : item[q] = s /\ op[q].kind \in Reschedules \cup {"resume"}
<1>3. TInv /\ PunctualInv /\ [Next]_vars => [A]_vars
  <2> SUFFICES ASSUME TInv, PunctualInv, [Next]_vars, NEW s \in Schedules \ overlapped, fired'[s] > fired[s]
               PROVE  /\ Known(s) /\ hash[s].enabled
                      /\ s \in index =>
                           \/ hash[s].next <= now
                           \/ \E q \in Requests : item[q] = s /\ op[q].kind \in Reschedules \cup {"resume"}
    OBVIOUS
  <2>1. PICK p \in Polls : RouteSucceeds(p) \/ (RouteFails(p) /\ fired' = [fired EXCEPT ![item[p]] = @ + 1])
    <3>1. fired[s] \in Nat /\ fired' # fired
      BY DEF TInv, TypeOK
    <3>2. ASSUME NEW p \in Polls, RouteFails(p) PROVE fired' = [fired EXCEPT ![item[p]] = @ + 1]
      BY <3>1, <3>2 DEF RouteFails
    <3>3. Answer
      BY <3>1 DEF Next, vars, Tick, PollBegins, Create, Update, Delete, Recover, Crash
    <3>4. ASSUME NEW p \in Polls PROVE ~PollDue(p) /\ ~PollReads(p)
      BY <3>1 DEF PollDue, PollReads
    <3>5. ASSUME NEW q \in Requests
          PROVE  ~AddToIndex(q) /\ ~UpdateReads(q) /\ ~Toggle(q) /\ ~Store(q) /\ ~DeleteChecks(q)
      BY <3>1 DEF AddToIndex, UpdateReads, Toggle, Store, DeleteChecks
    <3>6. ASSUME NEW h \in Handlers
          PROVE  ~Advance(h) /\ ~Score(h) /\ ~DropHash(h) /\ ~DropFromIndex(h) /\ ~DropScore(h)
      BY <3>1 DEF Advance, Score, DropHash, DropFromIndex, DropScore
    <3>7. ~RecoverIds /\ ~RecoverReads
      BY <3>1 DEF RecoverIds, RecoverReads
    <3>8. \E p \in Polls : RouteSucceeds(p) \/ RouteFails(p)
      BY <3>3, <3>4, <3>5, <3>6, <3>7, Zenon DEF Answer
    <3> QED BY <3>2, <3>8, Zenon
  <2>2. item[p] = s /\ pc[p] = "route"
    BY <2>1 DEF RouteSucceeds, RouteFails, At, TInv, TypeOK
  <2>3. Known(s) /\ hash[s].enabled /\ ~Early(s)
    BY <2>2 DEF PunctualInv, PunctualOK, Wanted
  <2>4. hash[s].next \in Nat /\ now \in Nat
    BY RecordFields DEF TInv, TypeOK
  <2> QED BY <2>3, <2>4 DEF Early, Changing
<1> QED BY <1>2, <1>3, TypeInvariant, PTL DEF Spec, FiresWhenDue
=============================================================================
