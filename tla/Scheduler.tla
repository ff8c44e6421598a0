------------------------------- MODULE Scheduler -------------------------------
(***************************************************************************)
(* Scheduled messages (hub/src/scheduler.ts): the poll that fires what is  *)
(* due, create, update and delete, and the recovery after a restart.  A    *)
(* schedule is spread over a hash, an index and a sorted set of fire times *)
(* in Redis; each operation is a sequence of commands on the hub's one     *)
(* connection, named by the program counter of its handler.  A cron        *)
(* expression is a period: it fires at the multiples of it.                *)
(***************************************************************************)
EXTENDS InOrder, Integers, FiniteSets

CONSTANTS
  Schedules,    \* schedule ids (UUIDs)
  Polls,        \* poll cycles that can be under way at once
  Requests,     \* create, update and delete requests
  Startup,      \* the handler that recovers schedules after a start
  Templates,    \* what a created schedule asks for: [period, max, expires]
  Values,       \* what an update may give: a period, a limit or a minute of expiry
  None,
  MaxTime,      \* bound: the last minute
  MaxMishaps    \* bound: restarts of the hub, and routes that throw half-way

ASSUME SchedulerAssumptions ==
  /\ Values \subseteq Nat \ {0} /\ MaxTime \in Nat /\ MaxMishaps \in Nat
  /\ Templates \subseteq [period : Nat \ {0}, max : (Nat \ {0}) \cup {None},
                    expires : Nat \cup {None}]
  /\ Startup \notin Polls \cup Requests /\ Polls \cap Requests = {}
  /\ None \notin Schedules \cup Nat

VARIABLES
  hash,           \* Redis, schedule:{s}; not known without a scheduleId field
  leftover,       \* Redis: ids whose hash has fields but no scheduleId
  index, score,   \* Redis, schedules:index, schedules:pending
  pc, op,         \* handlers: command awaited; requests: what is asked for
  item, todo,     \* handlers: the schedule in hand, the ids still to visit
  copy,           \* handlers: the schedule as read or made up
  polledAt,       \* poll: its now
  now,
  mishaps,        \* history: restarts, and routes that threw half-way
  fired,          \* history: messages fired for a schedule
  overlapped      \* history: schedules two handlers worked on at once

redis  == <<hash, leftover, index, score>>
locals == <<op, item, todo, copy, polledAt>>
vars   == <<waiting, redis, pc, locals, now, mishaps, fired, overlapped>>

Handlers == Polls \cup Requests \cup {Startup}
Loops    == Polls \cup {Startup}

(* A record's limitedAt is history: its count when an update set its limit. *)
Nothing == [known |-> FALSE, enabled |-> FALSE, fireCount |-> 0, max |-> None, expires |-> None,
            period |-> 1, next |-> 0, limitedAt |-> 0]
(* What an update gives: enabled (Toggles), an expression (Reschedules),    *)
(* a limit or none, or neither.                                            *)
Toggles     == {"pause", "resume", "resumeReschedule"}
Reschedules == {"reschedule", "resumeReschedule"}
Plain       == {"rename", "limit", "expire", "unlimit"}
Updates     == Plain \cup Toggles \cup Reschedules

(* computeNextFire, strictly after t.                                      *)
NextFire_Null(period, t) == None
NextFire(period, t)      == ((t \div period) + 1) * period

(* createSchedule's record.                                                *)
Made(tpl) == [known |-> TRUE, enabled |-> TRUE, fireCount |-> 0, max |-> tpl.max,
              expires |-> tpl.expires, period |-> tpl.period, next |-> NextFire(tpl.period, now),
              limitedAt |-> 0]

(* updateSchedule's changes to what it read.                                *)
Rescheduled(r, p) == [r EXCEPT !.period = p, !.next = NextFire(p, now)]
Changed(r, o) ==
  CASE o.kind = "rename"           -> r
    [] o.kind = "limit"            -> [r EXCEPT !.max = o.value, !.limitedAt = r.fireCount]
    [] o.kind = "expire"           -> [r EXCEPT !.expires = o.value]
    [] o.kind = "unlimit"          -> [r EXCEPT !.max = None, !.expires = None]
    [] o.kind = "pause"            -> [r EXCEPT !.enabled = FALSE]
    [] o.kind = "resume"           -> [r EXCEPT !.enabled = TRUE]
    [] o.kind = "reschedule"       -> Rescheduled(r, o.value)
    [] o.kind = "resumeReschedule" -> [Rescheduled(r, o.value) EXCEPT !.enabled = TRUE]

(* HSET of a whole record: a limit that is undefined is not among the      *)
(* fields written, and what Redis has stays.                               *)
Kept(new, old) == IF new = None THEN old ELSE new
Stored(s, r) == [hash EXCEPT ![s] = [r EXCEPT !.max = Kept(@, hash[s].max),
                                              !.expires = Kept(@, hash[s].expires)]]

(* The poll's decisions.                                                   *)
DueAt_Strictly(t) == { s \in Schedules : score[s] # None /\ score[s] < t }
DueAt(t)          == { s \in Schedules : score[s] # None /\ score[s] <= t }
Fires_Paused(r)   == r.known
Fires(r)          == r.known /\ r.enabled
Counted_Not(r)    == [r EXCEPT !.next = NextFire(r.period, now)]
Counted(r)        == [r EXCEPT !.next = NextFire(r.period, now), !.fireCount = @ + 1]
Last_Equal(r, t)  == \/ r.max # None /\ r.fireCount + 1 = r.max
                     \/ r.expires # None /\ t >= r.expires
Last(r, t)        == \/ r.max # None /\ r.fireCount + 1 >= r.max
                     \/ r.expires # None /\ t >= r.expires

(* recover's ZADD.                                                          *)
Recovered_Unscored(s, t) == score
Recovered(s, t)          == [score EXCEPT ![s] = t]

Known(s) == hash[s].known

(* A handler has a schedule in hand from the command that reads it on; the *)
(* ids a loop has still to visit are not.                                  *)
WorksOn(h, s) == item[h] = s /\ pc[h] \notin {"no", "due", "ids", "done", "rejected"}
Overlapping == { s \in Schedules : \E g, h \in Handlers : g # h /\ WorksOn(g, s) /\ WorksOn(h, s) }

(* A handler begins, resumes, and goes on to its next command.             *)
Arrives(h, l) ==
  /\ pc' = [pc EXCEPT ![h] = l]
  /\ Await(h)
  /\ overlapped' = overlapped \cup Overlapping
At(h, l) == Answered(h) /\ pc[h] = l
Goto(h, l) ==
  /\ pc' = [pc EXCEPT ![h] = l]
  /\ IF l \in {"no", "done", "rejected"} THEN Resolved ELSE AwaitAgain(h)
  /\ overlapped' = overlapped \cup Overlapping

(* A loop goes on to its next id, or ends; a request is answered.          *)
EndOf(h) == IF h \in Polls THEN "no" ELSE "done"
NextId(h, ids) ==
  /\ copy' = [copy EXCEPT ![h] = Nothing]
  /\ \/ ids = {} /\ Goto(h, EndOf(h)) /\ item' = [item EXCEPT ![h] = None] /\ UNCHANGED todo
     \/ \E s \in ids : /\ item' = [item EXCEPT ![h] = s]
                       /\ todo' = [todo EXCEPT ![h] = ids \ {s}]
                       /\ Goto(h, "get")
Continue(h) ==
  IF h \in Loops THEN NextId(h, todo[h]) ELSE Goto(h, "done") /\ UNCHANGED <<item, todo, copy>>

(* Redis as a stopped hub left it.                                         *)
Init ==
  /\ waiting = << >>
  /\ now = 0 /\ mishaps = 0
  /\ hash \in [Schedules -> {Nothing} \cup { Made(tpl) : tpl \in Templates }]
  /\ leftover = {}
  /\ index = { s \in Schedules : Known(s) }
  /\ score = [s \in Schedules |-> IF Known(s) THEN hash[s].next ELSE None]
  /\ pc = [h \in Handlers |-> "no"]
  /\ op = [q \in Requests |-> [kind |-> "none", value |-> 1]]
  /\ item = [h \in Handlers |-> None] /\ todo = [h \in Handlers |-> {}]
  /\ copy = [h \in Handlers |-> Nothing]
  /\ polledAt = [p \in Polls |-> 0]
  /\ fired = [s \in Schedules |-> 0] /\ overlapped = {}

-----------------------------------------------------------------------------
Tick ==
  /\ now < MaxTime /\ now' = now + 1
  /\ UNCHANGED <<waiting, redis, pc, locals, mishaps, fired, overlapped>>

(* poll: ZRANGEBYSCORE up to now, then each id in turn.                     *)
PollBegins(p) ==
  /\ pc[Startup] = "done" /\ pc[p] = "no"
  /\ polledAt' = [polledAt EXCEPT ![p] = now]
  /\ Arrives(p, "due")
  /\ UNCHANGED <<redis, op, item, todo, copy, now, mishaps, fired>>

PollDue(p) ==
  /\ At(p, "due")
  /\ NextId(p, DueAt(polledAt[p]))
  /\ UNCHANGED <<redis, op, polledAt, now, mishaps, fired>>

PollReads(p) ==
  LET r == hash[item[p]] IN
  /\ At(p, "get")
  /\ copy' = [copy EXCEPT ![p] = r]
  /\ Goto(p, IF Fires(r) THEN "route" ELSE "zrem")
  /\ UNCHANGED <<redis, op, item, todo, polledAt, now, mishaps, fired>>

(* routeMessage returns: the last fire deletes the schedule, any other     *)
(* advances it.                                                            *)
RouteSucceeds(p) ==
  LET s == item[p] IN
  /\ At(p, "route")
  /\ fired' = [fired EXCEPT ![s] = @ + 1]
  /\ copy' = [copy EXCEPT ![p] = Counted(@)]
  /\ Goto(p, IF Last(copy[p], polledAt[p]) THEN "del" ELSE "advance")
  /\ UNCHANGED <<redis, op, item, todo, polledAt, now, mishaps>>

(* It throws, before it has reached anyone or half-way through the          *)
(* recipients: the schedule is left as it is for the next poll.             *)
RouteFails(p) ==
  /\ At(p, "route")
  /\ NextId(p, todo[p])
  /\ \/ UNCHANGED <<mishaps, fired>>
     \/ /\ mishaps < MaxMishaps /\ mishaps' = mishaps + 1
        /\ fired' = [fired EXCEPT ![item[p]] = @ + 1]
  /\ UNCHANGED <<redis, op, polledAt, now>>

(* HSET of the counters, of whatever hash there is; recover sets next only. *)
Advance(h) ==
  LET s == item[h] IN
  /\ At(h, "advance")
  /\ IF Known(s)
       THEN /\ hash' = [hash EXCEPT ![s].next = copy[h].next,
                                    ![s].fireCount = IF h \in Polls THEN copy[h].fireCount ELSE @]
            /\ UNCHANGED leftover
       ELSE leftover' = leftover \cup {s} /\ UNCHANGED hash
  /\ Goto(h, "score")
  /\ UNCHANGED <<index, score, locals, now, mishaps, fired>>

(* ZADD of the next fire time: the end of a fire, a create, a reschedule    *)
(* and a recovery.                                                          *)
Score(h) ==
  LET s == item[h] IN
  /\ At(h, "score")
  /\ score' = IF h = Startup THEN Recovered(s, copy[h].next) ELSE [score EXCEPT ![s] = copy[h].next]
  /\ Continue(h)
  /\ UNCHANGED <<hash, leftover, index, op, polledAt, now, mishaps, fired>>

-----------------------------------------------------------------------------
(* createSchedule, under a new id: HSET, SADD, ZADD.                        *)
New(s) ==
  /\ hash[s] = Nothing /\ s \notin index \cup leftover /\ score[s] = None /\ fired[s] = 0
  /\ \A h \in Handlers : item[h] # s /\ s \notin todo[h]
CreateSchedule(q, s, tpl) ==
  /\ New(s)
  /\ op' = [op EXCEPT ![q].kind = "create"]
  /\ item' = [item EXCEPT ![q] = s]
  /\ copy' = [copy EXCEPT ![q] = Made(tpl)]
  /\ Arrives(q, "store")

(* A bad payload or expression is answered with an error.                   *)
Create(q, s, tpl) ==
  /\ pc[q] = "no"
  /\ \/ CreateSchedule(q, s, tpl)
     \/ pc' = [pc EXCEPT ![q] = "rejected"] /\ UNCHANGED <<waiting, op, item, copy, overlapped>>
  /\ UNCHANGED <<redis, todo, polledAt, now, mishaps, fired>>

AddToIndex(q) ==
  /\ At(q, "list")
  /\ index' = index \cup {item[q]}
  /\ Goto(q, "score")
  /\ UNCHANGED <<hash, leftover, score, locals, now, mishaps, fired>>

-----------------------------------------------------------------------------
(* updateSchedule: HGETALL; ZADD or ZREM if enabled is given; HSET; ZADD if *)
(* the expression is given and the schedule enabled.                        *)
Update(q, s, o) ==
  /\ pc[q] = "no"
  /\ op' = [op EXCEPT ![q] = o]
  /\ item' = [item EXCEPT ![q] = s]
  /\ Arrives(q, "load")
  /\ UNCHANGED <<redis, todo, copy, polledAt, now, mishaps, fired>>

UpdateReads(q) ==
  LET r == hash[item[q]] IN
  /\ At(q, "load")
  /\ IF r.known
       THEN /\ copy' = [copy EXCEPT ![q] = Changed(r, op[q])]
            /\ Goto(q, IF op[q].kind \in Toggles THEN "toggle" ELSE "store")
       ELSE Goto(q, "rejected") /\ UNCHANGED copy
  /\ UNCHANGED <<redis, op, item, todo, polledAt, now, mishaps, fired>>

Toggle(q) ==
  /\ At(q, "toggle")
  /\ score' = [score EXCEPT ![item[q]] = IF copy[q].enabled THEN copy[q].next ELSE None]
  /\ Goto(q, "store")
  /\ UNCHANGED <<hash, leftover, index, locals, now, mishaps, fired>>

(* HSET of the whole record, of a create or an update.                      *)
Store(q) ==
  /\ At(q, "store")
  /\ hash' = Stored(item[q], copy[q])
  /\ leftover' = leftover \ {item[q]}
  /\ Goto(q, CASE op[q].kind = "create" -> "list"
               [] op[q].kind \in Reschedules /\ copy[q].enabled -> "score"
               [] OTHER -> "done")
  /\ UNCHANGED <<index, score, locals, now, mishaps, fired>>

-----------------------------------------------------------------------------
(* DELETE: HGETALL for the 404; then deleteSchedule's DEL, SREM, ZREM, which *)
(* a poll issues too, after a last fire, and each loop in part.             *)
Delete(q, s) ==
  /\ pc[q] = "no"
  /\ op' = [op EXCEPT ![q].kind = "delete"]
  /\ item' = [item EXCEPT ![q] = s]
  /\ Arrives(q, "check")
  /\ UNCHANGED <<redis, todo, copy, polledAt, now, mishaps, fired>>

DeleteChecks(q) ==
  /\ At(q, "check")
  /\ Goto(q, IF Known(item[q]) THEN "del" ELSE "rejected")
  /\ UNCHANGED <<redis, locals, now, mishaps, fired>>

DropHash(h) ==
  /\ At(h, "del")
  /\ hash' = [hash EXCEPT ![item[h]] = Nothing]
  /\ leftover' = leftover \ {item[h]}
  /\ Goto(h, "srem")
  /\ UNCHANGED <<index, score, locals, now, mishaps, fired>>

DropFromIndex(h) ==
  /\ At(h, "srem")
  /\ index' = index \ {item[h]}
  /\ IF h = Startup THEN Continue(h) ELSE Goto(h, "zrem") /\ UNCHANGED <<item, todo, copy>>
  /\ UNCHANGED <<hash, leftover, score, op, polledAt, now, mishaps, fired>>

DropScore(h) ==
  /\ At(h, "zrem")
  /\ score' = [score EXCEPT ![item[h]] = None]
  /\ Continue(h)
  /\ UNCHANGED <<hash, leftover, index, op, polledAt, now, mishaps, fired>>

-----------------------------------------------------------------------------
(* recover, before the first poll.                                          *)
Recover ==
  /\ pc[Startup] = "no"
  /\ Arrives(Startup, "ids")
  /\ UNCHANGED <<redis, locals, now, mishaps, fired>>

RecoverIds ==
  /\ At(Startup, "ids")
  /\ NextId(Startup, index)
  /\ UNCHANGED <<redis, op, polledAt, now, mishaps, fired>>

RecoverReads ==
  LET r == hash[item[Startup]] IN
  /\ At(Startup, "get")
  /\ CASE ~r.known              -> Goto(Startup, "srem") /\ UNCHANGED <<item, todo, copy>>
       [] r.known /\ ~r.enabled -> NextId(Startup, todo[Startup])
       [] r.known /\ r.enabled  ->
            /\ copy' = [copy EXCEPT ![Startup] = [r EXCEPT !.next = NextFire(r.period, now)]]
            /\ Goto(Startup, "advance") /\ UNCHANGED <<item, todo>>
  /\ UNCHANGED <<redis, op, polledAt, now, mishaps, fired>>

(* The hub stops anywhere and starts again; requests under way get no      *)
(* answer.                                                                 *)
Crash ==
  /\ mishaps < MaxMishaps /\ mishaps' = mishaps + 1
  /\ waiting' = << >>
  /\ pc' = [h \in Handlers |-> IF h \in Requests /\ pc[h] # "no" THEN "rejected" ELSE "no"]
  /\ item' = [h \in Handlers |-> None] /\ todo' = [h \in Handlers |-> {}]
  /\ copy' = [h \in Handlers |-> Nothing]
  /\ overlapped' = overlapped \cup Overlapping
  /\ UNCHANGED <<redis, op, polledAt, now, fired>>

-----------------------------------------------------------------------------
Answer ==
  \/ \E p \in Polls : PollDue(p) \/ PollReads(p) \/ RouteSucceeds(p) \/ RouteFails(p)
  \/ \E q \in Requests : AddToIndex(q) \/ UpdateReads(q) \/ Toggle(q) \/ Store(q) \/ DeleteChecks(q)
  \/ \E h \in Handlers : Advance(h) \/ Score(h) \/ DropHash(h) \/ DropFromIndex(h) \/ DropScore(h)
  \/ RecoverIds \/ RecoverReads

Next ==
  \/ Tick
  \/ \E p \in Polls : PollBegins(p)
  \/ \E q \in Requests, s \in Schedules :
       \/ \E tpl \in Templates : Create(q, s, tpl)
       \/ \E k \in Updates, n \in Values : Update(q, s, [kind |-> k, value |-> n])
       \/ Delete(q, s)
  \/ Recover
  \/ Crash
  \/ Answer

(* Redis answers, the hub recovers and polls again and again, and a        *)
(* message that is routed again and again goes through in the end.         *)
Fairness ==
  /\ WF_vars(Answer) /\ WF_vars(Recover)
  /\ \A p \in Polls : WF_vars(PollBegins(p)) /\ SF_vars(RouteSucceeds(p))

Spec == Init /\ [][Next]_vars /\ Fairness

-----------------------------------------------------------------------------
Record == [known : BOOLEAN, enabled : BOOLEAN, fireCount : Nat, max : Nat \cup {None},
           expires : Nat \cup {None}, period : Nat \ {0}, next : Nat, limitedAt : Nat]
TypeOK ==
  /\ waiting \in Seq(Handlers)
  /\ hash \in [Schedules -> Record] /\ score \in [Schedules -> Nat \cup {None}]
  /\ leftover \subseteq Schedules /\ index \subseteq Schedules /\ overlapped \subseteq Schedules
  /\ pc \in [Handlers -> {"no", "due", "get", "route", "advance", "score", "list", "load", "toggle",
                          "store", "check", "del", "srem", "zrem", "ids", "done", "rejected"}]
  /\ op \in [Requests -> [kind : Updates \cup {"none", "create", "delete"}, value : Nat \ {0}]]
  /\ item \in [Handlers -> Schedules \cup {None}] /\ todo \in [Handlers -> SUBSET Schedules]
  /\ copy \in [Handlers -> Record] /\ polledAt \in [Polls -> Nat]
  /\ now \in Nat /\ mishaps \in Nat /\ fired \in [Schedules -> Nat]

(* Once the hub has recovered and no handler is under way, every schedule  *)
(* that is listed exists, and is due at its next fire time if it is        *)
(* enabled, wherever crashes cut the operations before; except where two   *)
(* operations overlapped.                                                  *)
ListedArePending ==
  Rest /\ pc[Startup] = "done" =>
    \A s \in index \ overlapped : Known(s) /\ (hash[s].enabled => score[s] = hash[s].next)

(* A schedule on which no two operations overlapped is fired only while it *)
(* exists and is enabled, although the poll lists what is due before it    *)
(* reads any of it; and one that is listed never early, unless it was      *)
(* rescheduled or resumed since the hub started.                           *)
FiresWhenDue ==
  [][\A s \in Schedules \ overlapped :
       fired'[s] > fired[s] =>
         /\ Known(s) /\ hash[s].enabled
         /\ s \in index =>
              \/ hash[s].next <= now
              \/ \E q \in Requests : item[q] = s /\ op[q].kind \in Reschedules \cup {"resume"}]_vars

(* Every message fired for it is counted, but for one for each crash and   *)
(* each route that threw half-way; and the count stays below the limit, or *)
(* where it was when an update set the limit at or below it: the fire that *)
(* would take it further deletes the schedule.                             *)
Within(r)   == r.max # None => r.fireCount < r.max \/ r.fireCount <= r.limitedAt
CountsFires ==
  Rest => \A s \in Schedules \ overlapped : Known(s) =>
            /\ fired[s] <= hash[s].fireCount + mishaps
            /\ Within(hash[s])

(* What is due is fired, or no longer due, although routing may fail and   *)
(* the hub crash.                                                          *)
Due(s) == Known(s) /\ hash[s].enabled /\ score[s] # None /\ score[s] <= now
DueIsHandled == \A s \in Schedules : Due(s) ~> ~Due(s)
=============================================================================
