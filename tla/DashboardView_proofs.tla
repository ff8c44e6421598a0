------------------------- MODULE DashboardView_proofs -------------------------
(***************************************************************************)
(* The dashboard's view is up to date but for what it may not know, and     *)
(* nothing in the dashboard waits for a closed socket, whatever the numbers *)
(* of instances, tasks, requests, operations and closes; and the pages of   *)
(* FeedViews, of which no name is one of DashboardView's: a gesture leaves   *)
(* nothing behind, and the pages show the same messages, the latest ones.   *)
(***************************************************************************)
EXTENDS DashboardView, FeedViews, FiniteSetTheorems, FunctionTheorems, SequenceTheorems, TLAPS

-----------------------------------------------------------------------------
(* The events that the view is still to be told of, in the order in which   *)
(* it will be if no operation overtakes another: those in the socket, then  *)
(* those of operations in progress.  Where a later operation overtook, the  *)
(* events it overtook are late; what follows the last late one is in order. *)

coming == stream \o emitting

About(k, n)  == k \in coming[n].keys
Last(k, n)   == About(k, n) /\ \A m \in DOMAIN coming : m > n => ~About(k, m)
First(k, n)  == About(k, n) /\ \A m \in DOMAIN coming : m < n => ~About(k, m)
Follows(k, m, n) == /\ About(k, m) /\ About(k, n) /\ m < n
                    /\ \A l \in DOMAIN coming : m < l /\ l < n => ~About(k, l)
(* No late event is about k, from the n-th on.                              *)
Clear(k, n)  == \A m \in DOMAIN coming : m >= n /\ About(k, m) => ~coming[m].late
(* The events of operations after the snapshot f.                          *)
NewsTo(f)    == { n \in DOMAIN coming : f \in coming[n].seen }

-----------------------------------------------------------------------------
(* Types: of a fetch, of its list and of the events of each part.           *)

Topic == [count : Nat, subscribers : SUBSET Instances]
Lists  == CASE part = "instances" -> [Instances -> Statuses]
            [] part = "topics"    -> (SUBSET Instances) \cup {None}
            [] part = "schedules" -> Schedules
            [] OTHER              -> {None}
Fetched == [step : {"idle", "counted", "answered"}, list : Lists \cup {None}, count : Nat,
            crossed : SUBSET Keys]
FetchOK(g) ==
  (g.step = "answered" => g.list \in Lists) /\ (g.step = "counted" => part = "topics")

HubTyped ==
  /\ instances \in [Instances -> Statuses] /\ members \in (SUBSET Instances) \cup {None}
  /\ schedule \in Schedules /\ tasks \in [Tasks -> {"new", "sent", "closed"}]

FetchInv == fetch \in [Fetches -> Fetched] /\ \A f \in Fetches : FetchOK(fetch[f])

EventOK(e) ==
  /\ e \in HubEvent
  /\ e.seen \subseteq { f \in Fetches : fetch[f].step # "idle" }
  /\ \/ /\ part = "instances" /\ e.id \in Instances
        /\ \/ e.kind \in {"joined", "left", "removed"} /\ e.keys = {e.id}
           \/ /\ e.kind = "session_updated" /\ e.data \in Instances /\ e.data # e.id
              /\ e.keys = {e.id, e.data}
     \/ /\ part = "topics" /\ e.keys = {"topic"}
        /\ \/ e.kind \in {"created", "deleted"}
           \/ e.kind \in {"subscribed", "unsubscribed"} /\ e.id \in Instances
           \/ e.kind = "silent" /\ e.late
     \/ /\ part = "schedules" /\ e.keys = {"schedule"}
        /\ \/ e.kind \in {"schedule:created", "schedule:updated", "schedule:fired"}
              /\ e.data \in Schedules \ {None} /\ (e.kind = "schedule:fired" => e.data.enabled)
           \/ e.kind = "schedule:deleted" /\ e.data = None
     \/ part = "tasks" /\ e.kind \in {"task", "result"} /\ e.id \in Tasks /\ e.keys = {e.id}

(* What a behaviour is not about stays as it was.                           *)
PartOK ==
  /\ part # "instances" => instances = [i \in Instances |-> "absent"] /\ vInstances = instances
  /\ part # "topics"    => members = None /\ vTopic = None
  /\ part # "schedules" => /\ schedule = None /\ vSchedule = None
                           /\ page \notin {"asked", "created", "changed", "firing"}
  /\ part # "tasks"     => tasks = [t \in Tasks |-> "new"] /\ pendingTaskIds = {} /\ activeTasks = 0

TInv ==
  /\ TypeOK
  /\ FetchInv
  /\ \A n \in DOMAIN coming : EventOK(coming[n])
  /\ socket = "closed" => stream = << >>
  /\ PartOK

-----------------------------------------------------------------------------
(* Instances.  Target: the status that the hub has after the operation.     *)

Target(e, i) ==
  CASE e.kind = "joined"  -> "online"
    [] e.kind = "left"    -> "offline"
    [] e.kind = "removed" -> "absent"
    [] OTHER              -> IF i = e.data THEN "online" ELSE "offline"

(* The last event about i, if it is not late, tells what the hub has.  One  *)
(* that an instance left changes nothing in a view that has none: before    *)
(* it, the view has it, or will.                                           *)
InstanceOK(i) ==
  /\ \A n \in DOMAIN coming : Last(i, n) /\ ~coming[n].late =>
       /\ instances[i] = Target(coming[n], i)
       /\ coming[n].kind = "left" =>
            /\ \A m \in DOMAIN coming : Follows(i, m, n) => coming[m].late \/ Target(coming[m], i) = "online"
            /\ First(i, n) => i \in behind \/ vInstances[i] # "absent"
  /\ (\A n \in DOMAIN coming : ~About(i, n)) => i \in behind \/ vInstances[i] = instances[i]

(* A snapshot that no event crossed is what the hub has but for the events  *)
(* it has seen.                                                            *)
InstanceSeedOK(f, i) ==
  fetch[f].step = "answered" /\ i \notin fetch[f].crossed =>
    /\ (\A n \in NewsTo(f) : ~About(i, n)) => fetch[f].list[i] = instances[i]
    /\ \A n \in NewsTo(f) :
         About(i, n) /\ coming[n].kind = "left" /\ (\A m \in NewsTo(f) : m # n => ~About(i, m))
           => fetch[f].list[i] = "online"

InstancesInv == \A i \in Instances : InstanceOK(i) /\ \A f \in Fetches : InstanceSeedOK(f, i)

-----------------------------------------------------------------------------
(* The topic.                                                              *)

Members(x)     == IF x = None THEN {} ELSE x
Shown(t)       == IF t = None THEN None ELSE t.subscribers
Writes(e, i)   == e.kind \in {"subscribed", "unsubscribed"} /\ e.id = i
Deletes(e)     == e.kind = "deleted"
NoDelete(n)    == \A m \in DOMAIN coming : m > n => ~Deletes(coming[m])
NoWrite(i, n)  == \A m \in DOMAIN coming : m > n => ~Writes(coming[m], i)

(* The events after the last late one are in the order of their operations: *)
(* the last about an instance says whether it is a member, a deletion is     *)
(* followed by a creation, and a creation by nobody's being a member.       *)
TopicOrder ==
  \A n \in DOMAIN coming : Clear("topic", n) =>
    LET e == coming[n] IN
    /\ Deletes(e) /\ Last("topic", n) => members = None
    /\ ~Deletes(e) /\ NoDelete(n) => members # None
    /\ \A m \in DOMAIN coming : Follows("topic", n, m) => (Deletes(e) <=> coming[m].kind = "created")
    /\ \A i \in Instances : NoDelete(n) /\ NoWrite(i, n) =>
         /\ e.kind = "created" => i \notin Members(members)
         /\ Writes(e, i) => (i \in Members(members) <=> e.kind = "subscribed")

(* The set x of members, or None, is what the hub has but for the events     *)
(* at the places in News.                                                  *)
Agrees(x, News) ==
  (\A n \in News : coming[n].kind \notin {"deleted", "silent"}) =>
    /\ (\A n \in News : coming[n].kind # "created") => (x = None <=> members = None)
    /\ \A i \in Instances : (\A n \in News : ~Writes(coming[n], i)) =>
         (i \in Members(x) <=> i \in Members(members))

TopicOK == "topic" \in behind \/ (Clear("topic", 1) => Agrees(Shown(vTopic), DOMAIN coming))

TopicSeedOK(f) ==
  "topic" \notin fetch[f].crossed =>
    /\ fetch[f].step = "answered" => Agrees(fetch[f].list, NewsTo(f))
    /\ fetch[f].step = "counted" /\ members = None =>
         \E n \in NewsTo(f) : coming[n].kind \in {"deleted", "silent"}

CountOK == vTopic # None /\ ~stray => vTopic.count = Cardinality(vTopic.subscribers)

TopicInv == part = "topics" => TopicOrder /\ TopicOK /\ CountOK /\ \A f \in Fetches : TopicSeedOK(f)

-----------------------------------------------------------------------------
(* The schedule.  A fire tells the number of fires only, all else tells the *)
(* whole schedule.                                                         *)

Sets(e) == e.kind # "schedule:fired"
NoSet(n) == \A m \in DOMAIN coming : m > n => ~Sets(coming[m])

Alike(s, r) == (s = None <=> r = None) /\ (s # None => s.enabled = r.enabled)

ScheduleOrder ==
  \A n \in DOMAIN coming : Clear("schedule", n) =>
    /\ Last("schedule", n) => schedule = coming[n].data
    /\ Sets(coming[n]) /\ NoSet(n) => Alike(schedule, coming[n].data)

Lacks(s, News) ==
  /\ (\A n \in News : ~Sets(coming[n])) => Alike(s, schedule)
  /\ News = {} => s = schedule

ScheduleOK == "schedule" \in behind \/ (Clear("schedule", 1) => Lacks(vSchedule, DOMAIN coming))

ScheduleSeedOK(f) ==
  fetch[f].step = "answered" /\ "schedule" \notin fetch[f].crossed =>
    Lacks(fetch[f].list, NewsTo(f))

ScheduleInv ==
  part = "schedules" => ScheduleOrder /\ ScheduleOK /\ \A f \in Fetches : ScheduleSeedOK(f)

-----------------------------------------------------------------------------
(* Tasks.  A task is told of once, so the count of those that are open is    *)
(* right even where the events about one were lost.                         *)

TaskOK(t) ==
  /\ \A n \in DOMAIN coming : Last(t, n) /\ ~coming[n].late =>
       tasks[t] = IF coming[n].kind = "task" THEN "sent" ELSE "closed"
  /\ (\A n \in DOMAIN coming : ~About(t, n)) /\ t \notin behind =>
       (t \in pendingTaskIds <=> tasks[t] = "sent")
  /\ \A n \in DOMAIN coming : About(t, n) /\ coming[n].kind = "task" =>
       /\ t \notin pendingTaskIds /\ tasks[t] # "new"
       /\ \A m \in DOMAIN coming : m # n => ~(About(t, m) /\ coming[m].kind = "task")
  /\ t \in pendingTaskIds => tasks[t] # "new"

TasksInv ==
  /\ part = "tasks" => \A t \in Tasks : TaskOK(t)
  /\ IsFiniteSet(pendingTaskIds) /\ activeTasks = Cardinality(pendingTaskIds)

ViewInv ==
  /\ part = "instances" => InstancesInv
  /\ TopicInv /\ ScheduleInv /\ TasksInv

-----------------------------------------------------------------------------
(* How a step moves the events that are coming.                            *)

(* The two sequences as one.                                               *)
Places ==
  /\ coming \in Seq(HubEvent) /\ Len(coming) = Len(stream) + Len(emitting)
  /\ DOMAIN coming = 1..Len(coming)
  /\ \A n \in DOMAIN coming :
       coming[n] = IF n <= Len(stream) THEN stream[n] ELSE emitting[n - Len(stream)]

(* A place is one in the socket, or one in emitting after them.            *)
LEMMA TwoSequences == stream \in Seq(HubEvent) /\ emitting \in Seq(HubEvent) => Places
BY ConcatProperties, LenProperties DEF Places, coming

LEMMA PlacesLemma == TypeOK => Places
BY TwoSequences DEF TypeOK

(* Crossed leaves a fetch what it has, and adds what crosses it.            *)
LEMMA CrossedLemma ==
  ASSUME fetch \in [Fetches -> Fetched], NEW E \in SUBSET HubEvent
  PROVE  /\ Crossed(E) \in [Fetches -> Fetched]
         /\ \A f \in Fetches :
              /\ Crossed(E)[f].step = fetch[f].step /\ Crossed(E)[f].list = fetch[f].list
              /\ Crossed(E)[f].count = fetch[f].count /\ fetch[f].crossed \subseteq Crossed(E)[f].crossed
              /\ \A e \in E : f \in e.seen => e.keys \subseteq Crossed(E)[f].crossed
<1> DEFINE X(f) == UNION { e.keys : e \in { e \in E : f \in e.seen } }
<1>1. \A f \in Fetches : X(f) \subseteq Keys
  BY DEF HubEvent
<1>2. \A f \in Fetches : Crossed(E)[f] = [fetch[f] EXCEPT !.crossed = fetch[f].crossed \cup X(f)]
  BY DEF Crossed
<1>3. \A f \in Fetches : \A e \in E : f \in e.seen => e.keys \subseteq X(f)
  OBVIOUS
<1>4. Crossed(E) = [f \in Fetches |-> Crossed(E)[f]]
  BY DEF Crossed
<1> HIDE DEF X
<1> QED BY <1>1, <1>2, <1>3, <1>4 DEF Fetched

Ended(f) == fetch[f].step # "idle" /\ fetch'[f].step = "idle"

(* The place an event had before the step.  Of two events about one thing,  *)
(* neither of them late, the order stays, and an event that is followed by   *)
(* no late one has behind it all that it had.                               *)
Moves(s) ==
  /\ s \in [DOMAIN coming' -> DOMAIN coming]
  /\ \A j \in DOMAIN coming' :
       /\ coming'[j].kind = coming[s[j]].kind /\ coming'[j].keys = coming[s[j]].keys
       /\ coming'[j].id = coming[s[j]].id     /\ coming'[j].data = coming[s[j]].data
       /\ coming[s[j]].late => coming'[j].late
       /\ \A f \in Fetches : f \in coming'[j].seen <=> f \in coming[s[j]].seen /\ ~Ended(f)
  /\ \A j, l \in DOMAIN coming' : s[j] = s[l] => j = l
  /\ \A j, l \in DOMAIN coming' : \A k : 
       About(k, j)' /\ About(k, l)' /\ j < l /\ ~coming'[j].late /\ ~coming'[l].late => s[j] < s[l]
  /\ \A j \in DOMAIN coming' : \A k : About(k, j)' /\ Clear(k, j)' =>
       \A c \in DOMAIN coming : c > s[j] /\ About(k, c) => \E l \in DOMAIN coming' : l > j /\ s[l] = c

(* An event that is there no more has crossed the snapshots it had seen.    *)
Gone(s, c) == \A j \in DOMAIN coming' : s[j] # c
Crosses(s) ==
  \A c \in DOMAIN coming : Gone(s, c) =>
    \A f \in coming[c].seen : coming[c].keys \subseteq fetch'[f].crossed
Loses(s) == \A c \in DOMAIN coming : Gone(s, c) => coming[c].keys \subseteq behind'

(* The step leaves the events alone, but for what fetches they have seen.   *)
LEMMA SamePlaces ==
  ASSUME TypeOK, TypeOK', Len(stream') = Len(stream), Len(emitting') = Len(emitting),
         \A n \in DOMAIN coming :
           /\ coming'[n].kind = coming[n].kind /\ coming'[n].keys = coming[n].keys
           /\ coming'[n].id = coming[n].id     /\ coming'[n].data = coming[n].data
           /\ coming'[n].late = coming[n].late
           /\ \A f \in Fetches : f \in coming'[n].seen <=> f \in coming[n].seen /\ ~Ended(f)
  PROVE  \E s : Moves(s) /\ (\A c \in DOMAIN coming : ~Gone(s, c)) /\ DOMAIN coming' = DOMAIN coming
<1> DEFINE s == [n \in DOMAIN coming' |-> n]
<1>1. Places /\ Places'
  BY PlacesLemma, PTL
<1>2. DOMAIN coming' = DOMAIN coming /\ DOMAIN coming \subseteq Nat
  BY <1>1, LenProperties DEF Places, TypeOK
<1>3. Moves(s)
  BY <1>2 DEF Moves, About, Clear
<1>4. \A c \in DOMAIN coming : ~Gone(s, c)
  BY <1>2 DEF Gone
<1> QED BY <1>2, <1>3, <1>4

(* The first event is handled.                                             *)
LEMMA HandlePlaces ==
  ASSUME TypeOK, TypeOK', HandleEvent, fetch \in [Fetches -> Fetched]
  PROVE  /\ 1 \in DOMAIN coming /\ coming[1] = Head(stream)
         /\ DOMAIN coming' = 1..(Len(coming) - 1)
         /\ \A n \in DOMAIN coming' : coming'[n] = coming[n + 1]
         /\ Moves([n \in DOMAIN coming' |-> n + 1])
         /\ \A c \in DOMAIN coming : Gone([n \in DOMAIN coming' |-> n + 1], c) => c = 1
<1> DEFINE s == [n \in DOMAIN coming' |-> n + 1]
<1>1. Places /\ Places'
  BY PlacesLemma, PTL
<1>2. stream \in Seq(HubEvent) /\ stream # << >> /\ stream' = Tail(stream) /\ emitting' = emitting
      /\ emitting \in Seq(HubEvent)
  BY DEF HandleEvent, TypeOK
<1>3. Len(stream) \in Nat /\ Len(stream) > 0 /\ Len(emitting) \in Nat /\ Len(stream') = Len(stream) - 1
      /\ coming[1] = Head(stream)
  <2>1. Len(stream) \in Nat /\ Len(stream) > 0 /\ Len(emitting) \in Nat /\ Len(stream') = Len(stream) - 1
    BY <1>2, EmptySeq, LenProperties
  <2>2. coming[1] = stream[1]
    <3>1. 1 \in DOMAIN coming /\ 1 <= Len(stream)
      BY <1>1, <2>1 DEF Places
    <3> QED BY <1>1, <3>1 DEF Places
  <2>3. stream[1] = Head(stream)
    BY <1>2
  <2> QED BY <2>1, <2>2, <2>3
<1>4. 1 \in DOMAIN coming /\ DOMAIN coming' = 1..(Len(coming) - 1) /\ Len(coming) \in Nat
  BY <1>1, <1>2, <1>3 DEF Places
<1>5. \A n \in DOMAIN coming' : coming'[n] = coming[n + 1] /\ n + 1 \in DOMAIN coming
  <2> SUFFICES ASSUME NEW n \in DOMAIN coming' PROVE coming'[n] = coming[n + 1] /\ n + 1 \in DOMAIN coming
    OBVIOUS
  <2>1. n \in Nat /\ n >= 1 /\ n + 1 \in DOMAIN coming
    BY <1>1, <1>4 DEF Places
  <2>2. coming'[n] = IF n <= Len(stream) - 1 THEN stream'[n] ELSE emitting[n - (Len(stream) - 1)]
    BY <1>1, <1>2, <1>3 DEF Places
  <2>3. coming[n + 1] = IF n + 1 <= Len(stream) THEN stream[n + 1] ELSE emitting[(n + 1) - Len(stream)]
    BY <1>1, <2>1 DEF Places
  <2>4. n <= Len(stream) - 1 => stream'[n] = stream[n + 1]
    BY <1>2, <1>3, <2>1
  <2> QED BY <1>3, <2>1, <2>2, <2>3, <2>4
<1>6. Moves(s)
  <2>1. s \in [DOMAIN coming' -> DOMAIN coming]
    BY <1>5
  <2>2. \A j \in DOMAIN coming' : s[j] = j + 1 /\ coming'[j] = coming[s[j]] /\ j \in Nat
    BY <1>4, <1>5
  <2>3. ASSUME NEW j \in DOMAIN coming', NEW c \in DOMAIN coming, c > s[j]
        PROVE  \E l \in DOMAIN coming' : l > j /\ s[l] = c
    <3>1. c \in Nat /\ c - 1 \in DOMAIN coming' /\ c - 1 > j
      BY <1>1, <1>4, <2>2, <2>3 DEF Places
    <3> QED BY <2>2, <3>1
  <2>4. fetch' = Crossed({Head(stream)}) /\ Head(stream) \in HubEvent
    BY <1>2, EmptySeq DEF HandleEvent
  <2>5. \A f \in Fetches : ~Ended(f)
    BY <2>4, CrossedLemma DEF Ended
  <2> QED BY <2>1, <2>2, <2>3, <2>5 DEF Moves
<1>7. \A c \in DOMAIN coming : Gone(s, c) => c = 1
  <2> SUFFICES ASSUME NEW c \in DOMAIN coming, c # 1 PROVE ~Gone(s, c)
    OBVIOUS
  <2>1. c - 1 \in DOMAIN coming' /\ s[c - 1] = c
    BY <1>1, <1>4 DEF Places
  <2> QED BY <2>1 DEF Gone
<1> QED BY <1>3, <1>4, <1>5, <1>6, <1>7

(* The socket closes, and the events in it are lost.                       *)
LEMMA ClosePlaces ==
  ASSUME TypeOK, TypeOK', emitting' = emitting, stream' = << >>, fetch' = Crossed({ stream[n] : n \in DOMAIN stream }),
         behind' = behind \cup UNION { e.keys : e \in { stream[n] : n \in DOMAIN stream } },
         fetch \in [Fetches -> Fetched]
  PROVE  \E s : Moves(s) /\ Crosses(s) /\ Loses(s)
<1> DEFINE s == [n \in DOMAIN coming' |-> Len(stream) + n]
           lost == { stream[n] : n \in DOMAIN stream }
<1>1. Places /\ Places'
  BY PlacesLemma, PTL
<1>2. stream \in Seq(HubEvent) /\ emitting \in Seq(HubEvent) /\ Len(stream) \in Nat /\ Len(emitting) \in Nat
      /\ DOMAIN stream = 1..Len(stream)
  BY LenProperties DEF TypeOK
<1>3. DOMAIN coming = 1..(Len(stream) + Len(emitting)) /\ DOMAIN coming' = 1..Len(emitting)
  BY <1>1, <1>2, EmptySeq DEF Places
<1>4. \A n \in DOMAIN coming' : n \in Nat /\ s[n] \in DOMAIN coming /\ s[n] = Len(stream) + n /\ coming'[n] = coming[s[n]]
  <2> SUFFICES ASSUME NEW n \in DOMAIN coming' PROVE Len(stream) + n \in DOMAIN coming /\ coming'[n] = coming[Len(stream) + n]
    BY <1>3
  <2>1. n \in 1..Len(emitting) /\ Len(stream) + n \in DOMAIN coming /\ ~(Len(stream) + n <= Len(stream))
    BY <1>2, <1>3
  <2>2. coming[Len(stream) + n] = emitting[(Len(stream) + n) - Len(stream)]
    BY <1>1, <2>1 DEF Places
  <2>3. coming'[n] = emitting[n - 0]
    <3>1. Len(stream') = 0 /\ ~(n <= 0)
      BY <1>2, <2>1, EmptySeq
    <3> QED BY <1>1, <3>1 DEF Places
  <2>4. (Len(stream) + n) - Len(stream) = n - 0
    BY <1>2, <2>1
  <2> QED BY <2>1, <2>2, <2>3, <2>4
<1>5. Moves(s)
  <2>1. s \in [DOMAIN coming' -> DOMAIN coming]
    BY <1>4
  <2>2. ASSUME NEW j \in DOMAIN coming', NEW c \in DOMAIN coming, c > s[j]
        PROVE  \E l \in DOMAIN coming' : l > j /\ s[l] = c
    <3>1. c \in Nat /\ c - Len(stream) \in DOMAIN coming' /\ c - Len(stream) > j /\ s[j] = Len(stream) + j
      BY <1>2, <1>3, <1>4, <2>2
    <3>2. s[c - Len(stream)] = Len(stream) + (c - Len(stream)) /\ Len(stream) + (c - Len(stream)) = c
      BY <1>2, <1>4, <3>1
    <3> QED BY <3>1, <3>2
  <2>3. \A j, l \in DOMAIN coming' : (s[j] = s[l] => j = l) /\ (j < l => s[j] < s[l])
    BY <1>2, <1>4
  <2>4. \A f \in Fetches : ~Ended(f)
    BY <1>2, CrossedLemma DEF Ended
  <2> QED BY <1>4, <2>1, <2>2, <2>3, <2>4 DEF Moves
<1>6. \A c \in DOMAIN coming : Gone(s, c) => coming[c] \in lost
  <2> SUFFICES ASSUME NEW c \in DOMAIN coming, c > Len(stream) PROVE ~Gone(s, c)
    BY <1>1, <1>2, <1>3 DEF Places
  <2>1. c - Len(stream) \in DOMAIN coming' /\ Len(stream) + (c - Len(stream)) = c
    BY <1>2, <1>3
  <2>2. s[c - Len(stream)] = c
    BY <1>4, <2>1
  <2> QED BY <2>1, <2>2 DEF Gone
<1>7. Loses(s)
  BY <1>6 DEF Loses
<1>8. Crosses(s)
  <2> SUFFICES ASSUME NEW c \in DOMAIN coming, Gone(s, c), NEW f \in coming[c].seen
               PROVE  coming[c].keys \subseteq fetch'[f].crossed
    BY DEF Crosses
  <2>1. coming[c] \in lost /\ coming[c] \in HubEvent
    BY <1>1, <1>6 DEF Places
  <2>3. f \in Fetches
    BY <2>1 DEF HubEvent
  <2>2. fetch'[f].crossed = fetch[f].crossed \cup UNION { e.keys : e \in { e \in lost : f \in e.seen } }
    BY <2>3 DEF Crossed, Fetched
  <2> QED BY <2>1, <2>2
<1> QED BY <1>5, <1>7, <1>8

(* An operation's event is emitted: it comes before those of earlier        *)
(* operations, which are late if they are about the same.                   *)
LEMMA EmitPlaces ==
  ASSUME TypeOK, TypeOK', NEW n \in 1..MaxOps, EmitToDashboards(n), socket = "open"
  PROVE  \E s : Moves(s) /\ \A c \in DOMAIN coming : ~Gone(s, c)
<1> DEFINE L == Len(stream)
           e == emitting[n]
           s == [j \in DOMAIN coming' |->
                   IF j <= L THEN j ELSE IF j = L + 1 THEN L + n ELSE IF j <= L + n THEN j - 1 ELSE j]
<1>1. Places /\ Places'
  BY PlacesLemma, PTL
<1>2. /\ stream \in Seq(HubEvent) /\ emitting \in Seq(HubEvent) /\ L \in Nat /\ Len(emitting) \in Nat
      /\ n \in Nat /\ n >= 1 /\ n <= Len(emitting) /\ e \in HubEvent
  BY LenProperties DEF TypeOK, EmitToDashboards
<1>3. stream' = Append(stream, e) /\ UNCHANGED fetch
  BY DEF EmitToDashboards
<1>4. /\ Len(emitting') = Len(emitting) - 1
      /\ \A m \in 1..(Len(emitting) - 1) :
           emitting'[m] = IF m < n THEN IF emitting[m].keys \cap e.keys # {} THEN [emitting[m] EXCEPT !.late = TRUE]
                                        ELSE emitting[m]
                          ELSE emitting[m + 1]
  <2> DEFINE Later(d) == IF d.keys \cap e.keys # {} THEN [d EXCEPT !.late = TRUE] ELSE d
             g == [m \in 1..(Len(emitting) - 1) |-> IF m < n THEN Later(emitting[m]) ELSE emitting[m + 1]]
  <2>1. emitting' = g
    BY DEF EmitToDashboards
  <2>2. emitting' \in Seq(HubEvent)
    BY DEF TypeOK
  <2>3. Len(emitting) - 1 \in Nat
    BY <1>2
  <2>4. DOMAIN g = 1..(Len(emitting) - 1)
    OBVIOUS
  <2>5. Len(emitting') = Len(emitting) - 1
    BY <2>1, <2>2, <2>3, <2>4, LenProperties
  <2> QED BY <2>1, <2>5
<1>5. Len(stream') = L + 1 /\ (\A m \in 1..L : stream'[m] = stream[m]) /\ stream'[L + 1] = e
  BY <1>2, <1>3, AppendProperties
<1>6. DOMAIN coming = 1..(L + Len(emitting)) /\ DOMAIN coming' = DOMAIN coming
  BY <1>1, <1>2, <1>4, <1>5 DEF Places
<1> HIDE DEF L, e
<1>7. ASSUME NEW j \in DOMAIN coming'
      PROVE  /\ j \in Nat /\ j >= 1 /\ s[j] \in DOMAIN coming
             /\ coming'[j] = coming[s[j]] \/ coming'[j] = [coming[s[j]] EXCEPT !.late = TRUE]
             /\ j > L + 1 /\ j <= L + n /\ coming[s[j]].keys \cap e.keys # {} => coming'[j].late
             /\ j = L + 1 => coming'[j] = e
  <2>1. j \in Nat /\ j >= 1 /\ j <= L + Len(emitting)
    BY <1>2, <1>6
  <2>2. CASE j <= L
    <3>1. coming'[j] = stream'[j] /\ coming[j] = stream[j] /\ s[j] = j
      BY <1>1, <1>2, <1>5, <1>6, <2>1, <2>2 DEF Places, L
    <3> QED BY <1>2, <1>5, <1>6, <2>1, <2>2, <3>1
  <2>3. CASE j = L + 1
    <3>1. s[j] = L + n /\ coming'[j] = stream'[L + 1] /\ L + n \in DOMAIN coming
      BY <1>1, <1>2, <1>5, <1>6, <2>1, <2>3 DEF Places
    <3>2. coming[L + n] = emitting[(L + n) - L] /\ (L + n) - L = n
      BY <1>1, <1>2, <3>1 DEF Places, L
    <3>3. coming[s[j]] = e
      BY <3>1, <3>2 DEF e
    <3> QED BY <1>2, <1>5, <2>1, <2>3, <3>1, <3>3
  <2>4. CASE j > L + 1
    <3> DEFINE m == j - (L + 1)
    <3>1. m \in 1..(Len(emitting) - 1) /\ ~(j <= L + 1)
      BY <1>2, <2>1, <2>4
    <3>2. coming'[j] = emitting'[m]
      BY <1>1, <1>5, <3>1 DEF Places
    <3>3. CASE j <= L + n
      <4>1. m < n /\ s[j] = j - 1 /\ s[j] \in DOMAIN coming /\ ~(s[j] <= L) /\ s[j] - L = m
        BY <1>2, <1>6, <2>1, <2>4, <3>3
      <4>2. coming[s[j]] = emitting[m]
        BY <1>1, <4>1 DEF Places, L
      <4>3. emitting[m] \in HubEvent
        BY <1>2, <3>1
      <4>4. [emitting[m] EXCEPT !.late = TRUE].late
        BY <4>3 DEF HubEvent
      <4>5. coming'[j] = IF emitting[m].keys \cap e.keys # {} THEN [emitting[m] EXCEPT !.late = TRUE]
                         ELSE emitting[m]
        BY <1>4, <3>1, <3>2, <4>1
      <4>6. (coming[s[j]].keys \cap e.keys # {} => coming'[j].late)
            /\ (coming'[j] = coming[s[j]] \/ coming'[j] = [coming[s[j]] EXCEPT !.late = TRUE])
        BY <4>2, <4>4, <4>5
      <4> HIDE DEF s, m
      <4> QED BY <2>1, <2>4, <3>1, <4>1, <4>6
    <3>4. CASE j > L + n
      <4>1. ~(m < n) /\ s[j] = j /\ s[j] \in DOMAIN coming /\ ~(s[j] <= L) /\ s[j] - L = m + 1
        BY <1>2, <1>6, <2>1, <2>4, <3>4
      <4>2. coming[s[j]] = emitting[m + 1]
        BY <1>1, <4>1 DEF Places, L
      <4>3. coming'[j] = emitting[m + 1]
        BY <1>4, <3>1, <3>2, <4>1
      <4> HIDE DEF s, m
      <4> QED BY <1>2, <2>1, <2>4, <3>1, <3>4, <4>1, <4>2, <4>3
    <3> QED BY <1>2, <2>1, <3>3, <3>4
  <2> QED BY <1>2, <2>1, <2>2, <2>3, <2>4
<1>8. \A j \in DOMAIN coming' :
        /\ coming'[j].kind = coming[s[j]].kind /\ coming'[j].keys = coming[s[j]].keys
        /\ coming'[j].id = coming[s[j]].id     /\ coming'[j].data = coming[s[j]].data
        /\ coming'[j].seen = coming[s[j]].seen /\ (coming[s[j]].late => coming'[j].late)
  <2> SUFFICES ASSUME NEW j \in DOMAIN coming'
               PROVE  /\ coming'[j].kind = coming[s[j]].kind /\ coming'[j].keys = coming[s[j]].keys
                      /\ coming'[j].id = coming[s[j]].id     /\ coming'[j].data = coming[s[j]].data
                      /\ coming'[j].seen = coming[s[j]].seen /\ (coming[s[j]].late => coming'[j].late)
    OBVIOUS
  <2>1. coming[s[j]] \in HubEvent
    BY <1>1, <1>7 DEF Places
  <2> HIDE DEF s
  <2> QED BY <1>7, <2>1 DEF HubEvent
<1>9. \A j \in DOMAIN coming' :
        s[j] = IF j <= L THEN j ELSE IF j = L + 1 THEN L + n ELSE IF j <= L + n THEN j - 1 ELSE j
  OBVIOUS
<1>10. s \in [DOMAIN coming' -> DOMAIN coming]
  BY <1>7
<1>11. \A c \in DOMAIN coming : \E l \in DOMAIN coming' :
         /\ s[l] = c /\ l = IF c <= L THEN c ELSE IF c = L + n THEN L + 1 ELSE IF c < L + n THEN c + 1 ELSE c
  <2> SUFFICES ASSUME NEW c \in DOMAIN coming
               PROVE  \E l \in DOMAIN coming' :
                        /\ s[l] = c
                        /\ l = IF c <= L THEN c ELSE IF c = L + n THEN L + 1 ELSE IF c < L + n THEN c + 1 ELSE c
    OBVIOUS
  <2> DEFINE l == IF c <= L THEN c ELSE IF c = L + n THEN L + 1 ELSE IF c < L + n THEN c + 1 ELSE c
  <2>1. l \in DOMAIN coming'
    BY <1>2, <1>6
  <2>2. s[l] = c
    BY <1>2, <1>6, <1>9, <2>1
  <2> QED BY <2>1, <2>2
<1> HIDE DEF s
(* Two that change places: the later one has become late.                   *)
<1>12. ASSUME NEW j \in DOMAIN coming', NEW l \in DOMAIN coming', NEW k, About(k, j)', About(k, l)', j < l, ~(s[j] < s[l])
       PROVE  coming'[l].late /\ j = L + 1 /\ j \in Nat /\ l \in Nat
  <2>1. j = L + 1 /\ l > L + 1 /\ l <= L + n
    BY <1>2, <1>7, <1>9, <1>12
  <2>2. k \in coming[s[l]].keys /\ k \in e.keys
    BY <1>7, <1>8, <1>12, <2>1 DEF About
  <2> QED BY <1>7, <2>1, <2>2
<1>13. Moves(s)
  <2>1. \A j, l \in DOMAIN coming' : s[j] = s[l] => j = l
    BY <1>2, <1>7, <1>9
  <2>2. ASSUME NEW j \in DOMAIN coming', NEW k, About(k, j)', Clear(k, j)', NEW c \in DOMAIN coming, c > s[j], About(k, c)
        PROVE  \E l \in DOMAIN coming' : l > j /\ s[l] = c
    <3>1. PICK l \in DOMAIN coming' : s[l] = c
      BY <1>11
    <3>2. About(k, l)' /\ l # j /\ l \in Nat /\ j \in Nat /\ c \in Nat /\ s[j] \in Nat
      BY <1>6, <1>7, <1>8, <2>2, <3>1 DEF About
    <3>3. CASE l < j
      <4>1. ~(s[l] < s[j])
        BY <2>2, <3>1, <3>2
      <4>2. coming'[j].late
        BY <1>12, <2>2, <3>2, <3>3, <4>1
      <4> QED BY <2>2, <3>2, <4>2 DEF Clear
    <3> QED BY <3>1, <3>2, <3>3
  <2>3. \A f \in Fetches : ~Ended(f)
    BY <1>3 DEF Ended
  <2> QED BY <1>8, <1>10, <1>12, <2>1, <2>2, <2>3 DEF Moves
<1>14. \A c \in DOMAIN coming : ~Gone(s, c)
  BY <1>11 DEF Gone
<1> QED BY <1>13, <1>14

(* There is nobody to tell: the event is lost, and earlier ones are late.   *)
LEMMA LosePlaces ==
  ASSUME TypeOK, TypeOK', NEW n \in 1..MaxOps, EmitToDashboards(n), socket # "open", stream = << >>,
         fetch \in [Fetches -> Fetched]
  PROVE  \E s : Moves(s) /\ Crosses(s) /\ Loses(s)
<1> DEFINE e == emitting[n]
           s == [j \in DOMAIN coming' |-> IF j < n THEN j ELSE j + 1]
<1>1. Places /\ Places'
  BY PlacesLemma, PTL
<1>2. /\ emitting \in Seq(HubEvent) /\ Len(emitting) \in Nat /\ Len(stream) = 0 /\ Len(stream') = 0
      /\ n \in Nat /\ n >= 1 /\ n <= Len(emitting) /\ e \in HubEvent
  BY LenProperties, EmptySeq DEF TypeOK, EmitToDashboards
<1>3. behind' = behind \cup e.keys /\ fetch' = Crossed({e})
  BY DEF EmitToDashboards
<1>4. /\ Len(emitting') = Len(emitting) - 1
      /\ \A m \in 1..(Len(emitting) - 1) :
           emitting'[m] = IF m < n THEN IF emitting[m].keys \cap e.keys # {} THEN [emitting[m] EXCEPT !.late = TRUE]
                                        ELSE emitting[m]
                          ELSE emitting[m + 1]
  <2> DEFINE Later(d) == IF d.keys \cap e.keys # {} THEN [d EXCEPT !.late = TRUE] ELSE d
             g == [m \in 1..(Len(emitting) - 1) |-> IF m < n THEN Later(emitting[m]) ELSE emitting[m + 1]]
  <2>1. emitting' = g
    BY DEF EmitToDashboards
  <2>2. emitting' \in Seq(HubEvent)
    BY DEF TypeOK
  <2>3. Len(emitting) - 1 \in Nat
    BY <1>2
  <2>4. DOMAIN g = 1..(Len(emitting) - 1)
    OBVIOUS
  <2>5. Len(emitting') = Len(emitting) - 1
    BY <2>1, <2>2, <2>3, <2>4, LenProperties
  <2> QED BY <2>1, <2>5
<1>5. /\ DOMAIN coming = 1..Len(emitting) /\ DOMAIN coming' = 1..(Len(emitting) - 1)
      /\ \A c \in DOMAIN coming : coming[c] = emitting[c] /\ coming[c] \in HubEvent
      /\ \A j \in DOMAIN coming' : coming'[j] = emitting'[j]
  BY <1>1, <1>2, <1>4 DEF Places
<1>6. coming[n] = e /\ n \in DOMAIN coming
  BY <1>2, <1>5
<1> HIDE DEF e
<1>7. ASSUME NEW j \in DOMAIN coming'
      PROVE  /\ j \in Nat /\ s[j] \in DOMAIN coming /\ s[j] = IF j < n THEN j ELSE j + 1
             /\ coming'[j] = coming[s[j]] \/ coming'[j] = [coming[s[j]] EXCEPT !.late = TRUE]
             /\ j < n /\ coming[s[j]].keys \cap e.keys # {} => coming'[j].late
  <2>1. j \in Nat /\ s[j] = IF j < n THEN j ELSE j + 1
    BY <1>5
  <2>2. s[j] \in DOMAIN coming
    BY <1>2, <1>5, <2>1
  <2>3. coming[s[j]] = emitting[s[j]] /\ coming[s[j]] \in HubEvent
    BY <1>5, <2>2
  <2>4. coming'[j] = IF j < n THEN IF emitting[j].keys \cap e.keys # {} THEN [emitting[j] EXCEPT !.late = TRUE]
                                   ELSE emitting[j]
                     ELSE emitting[j + 1]
    BY <1>4, <1>5
  <2> HIDE DEF s
  <2>5. [coming[s[j]] EXCEPT !.late = TRUE].late
    BY <2>3 DEF HubEvent
  <2>6. CASE j < n
    <3>1. s[j] = j
      BY <2>1, <2>6
    <3> QED BY <2>1, <2>2, <2>3, <2>4, <2>5, <2>6, <3>1
  <2>7. CASE ~(j < n)
    BY <2>1, <2>2, <2>3, <2>4, <2>7
  <2> QED BY <2>6, <2>7
<1>8. \A j \in DOMAIN coming' :
        /\ coming'[j].kind = coming[s[j]].kind /\ coming'[j].keys = coming[s[j]].keys
        /\ coming'[j].id = coming[s[j]].id     /\ coming'[j].data = coming[s[j]].data
        /\ coming'[j].seen = coming[s[j]].seen /\ (coming[s[j]].late => coming'[j].late)
  <2> SUFFICES ASSUME NEW j \in DOMAIN coming'
               PROVE  /\ coming'[j].kind = coming[s[j]].kind /\ coming'[j].keys = coming[s[j]].keys
                      /\ coming'[j].id = coming[s[j]].id     /\ coming'[j].data = coming[s[j]].data
                      /\ coming'[j].seen = coming[s[j]].seen /\ (coming[s[j]].late => coming'[j].late)
    OBVIOUS
  <2>1. coming[s[j]] \in HubEvent
    BY <1>5, <1>7
  <2> HIDE DEF s
  <2> QED BY <1>7, <2>1 DEF HubEvent
<1>9. s \in [DOMAIN coming' -> DOMAIN coming]
  BY <1>7
<1>10. \A c \in DOMAIN coming : c # n =>
         \E l \in DOMAIN coming' : s[l] = c /\ l = IF c < n THEN c ELSE c - 1
  <2> SUFFICES ASSUME NEW c \in DOMAIN coming, c # n
               PROVE  \E l \in DOMAIN coming' : s[l] = c /\ l = IF c < n THEN c ELSE c - 1
    OBVIOUS
  <2> DEFINE l == IF c < n THEN c ELSE c - 1
  <2>1. l \in DOMAIN coming'
    BY <1>2, <1>5
  <2>2. s[l] = c
    BY <1>2, <1>5, <1>7, <2>1
  <2> QED BY <2>1, <2>2
<1> HIDE DEF s
<1>11. \A j, l \in DOMAIN coming' : (s[j] = s[l] => j = l) /\ (j < l => s[j] < s[l])
  BY <1>2, <1>7
<1>12. ASSUME NEW j \in DOMAIN coming', NEW k, About(k, j)', Clear(k, j)', NEW c \in DOMAIN coming, c > s[j], About(k, c)
       PROVE  \E l \in DOMAIN coming' : l > j /\ s[l] = c
  <2>1. CASE c = n
    <3>1. j < n /\ k \in coming[s[j]].keys /\ k \in e.keys
      BY <1>2, <1>6, <1>7, <1>8, <1>12, <2>1 DEF About
    <3>2. coming'[j].late /\ j \in Nat
      BY <1>7, <3>1
    <3> QED BY <1>12, <3>2 DEF Clear
  <2>2. CASE c # n
    <3>1. PICK l \in DOMAIN coming' : s[l] = c
      BY <1>10, <2>2
    <3>2. l > j
      BY <1>2, <1>7, <1>12, <3>1
    <3> QED BY <3>1, <3>2
  <2> QED BY <2>1, <2>2
<1>13. Moves(s)
  <2>1. \A f \in Fetches : ~Ended(f)
    BY <1>2, <1>3, CrossedLemma DEF Ended
  <2> QED BY <1>8, <1>9, <1>11, <1>12, <2>1 DEF Moves
<1>14. \A c \in DOMAIN coming : Gone(s, c) => coming[c] = e
  BY <1>6, <1>10 DEF Gone
<1>15. Loses(s)
  BY <1>3, <1>14 DEF Loses
<1>16. Crosses(s)
  <2> SUFFICES ASSUME NEW c \in DOMAIN coming, Gone(s, c), NEW f \in coming[c].seen
               PROVE  coming[c].keys \subseteq fetch'[f].crossed
    BY DEF Crosses
  <2>1. coming[c] = e /\ e \in HubEvent
    BY <1>2, <1>14
  <2>2. f \in Fetches
    BY <2>1 DEF HubEvent
  <2>3. fetch'[f].crossed = fetch[f].crossed \cup UNION { d.keys : d \in { d \in {e} : f \in d.seen } }
    BY <1>3, <2>2 DEF Crossed, Fetched
  <2> QED BY <2>1, <2>3
<1> QED BY <1>13, <1>15, <1>16

(* An event keeps its neighbours, as far as no late one follows.            *)
LEMMA KeepsLast ==
  ASSUME TypeOK, TypeOK', NEW s, Moves(s), NEW k, NEW j \in DOMAIN coming', Last(k, j)', ~coming'[j].late
  PROVE  Last(k, s[j]) /\ ~coming[s[j]].late /\ s[j] \in DOMAIN coming
<1>1. Places /\ Places'
  BY PlacesLemma, PTL
<1>2. Clear(k, j)' /\ About(k, j)'
  BY <1>1 DEF Clear, Last, Places
<1>3. About(k, s[j]) /\ ~coming[s[j]].late /\ s[j] \in DOMAIN coming
  BY <1>2 DEF Moves, About
<1>4. ASSUME NEW c \in DOMAIN coming, c > s[j], About(k, c) PROVE FALSE
  <2>1. PICK l \in DOMAIN coming' : l > j /\ s[l] = c
    BY <1>2, <1>4 DEF Moves
  <2>2. About(k, l)'
    BY <1>4, <2>1 DEF Moves, About
  <2> QED BY <2>1, <2>2 DEF Last
<1> QED BY <1>3, <1>4 DEF Last

(* No late event about k from a place on: nor was there one before.        *)
LEMMA KeepsClear ==
  ASSUME TypeOK, TypeOK', NEW s, Moves(s), NEW k, NEW j \in DOMAIN coming', About(k, j)', Clear(k, j)'
  PROVE  Clear(k, s[j]) /\ About(k, s[j]) /\ s[j] \in DOMAIN coming
<1>1. Places /\ Places'
  BY PlacesLemma, PTL
<1>2. About(k, s[j]) /\ s[j] \in DOMAIN coming /\ ~coming'[j].late /\ ~coming[s[j]].late
  BY <1>1 DEF Moves, About, Clear, Places
<1>3. ASSUME NEW c \in DOMAIN coming, c > s[j], About(k, c) PROVE ~coming[c].late
  <2>1. PICK l \in DOMAIN coming' : l > j /\ s[l] = c
    BY <1>3 DEF Moves
  <2>2. About(k, l)' /\ ~coming'[l].late
    BY <1>1, <1>3, <2>1 DEF Moves, About, Clear, Places
  <2> QED BY <2>1, <2>2 DEF Moves
<1>4. \A c \in DOMAIN coming : c \in Nat
  BY <1>1 DEF Places
<1> QED BY <1>2, <1>3, <1>4 DEF Clear

(* Two events with none about k between them: nor was there one before.    *)
LEMMA KeepsNext ==
  ASSUME TypeOK, TypeOK', NEW s, Moves(s), NEW k, NEW m \in DOMAIN coming', NEW j \in DOMAIN coming',
         Follows(k, m, j)', Clear(k, m)'
  PROVE  Follows(k, s[m], s[j])
<1>1. Places /\ Places'
  BY PlacesLemma, PTL
<1>2. /\ About(k, m)' /\ About(k, j)' /\ m < j /\ m \in Nat /\ j \in Nat
      /\ ~coming'[m].late /\ ~coming'[j].late
  BY <1>1 DEF Follows, Clear, Places
<1>3. About(k, s[m]) /\ About(k, s[j]) /\ s[m] < s[j]
  BY <1>2 DEF Moves, About
<1>4. ASSUME NEW c \in DOMAIN coming, c > s[m], c < s[j], About(k, c) PROVE FALSE
  <2>1. PICK l \in DOMAIN coming' : l > m /\ s[l] = c
    BY <1>2, <1>4 DEF Moves
  <2>2. About(k, l)' /\ ~coming'[l].late /\ l \in Nat /\ l # j
    BY <1>1, <1>2, <1>4, <2>1 DEF Moves, About, Clear, Places
  <2>3. l > j => s[j] < s[l]
    BY <1>2, <2>2 DEF Moves
  <2>4. s[j] \in Nat /\ s[l] \in Nat
    BY <1>1 DEF Moves, Places
  <2>5. l < j
    BY <1>2, <1>4, <2>1, <2>2, <2>3, <2>4
  <2> QED BY <1>2, <2>1, <2>2, <2>5 DEF Follows
<1> QED BY <1>3, <1>4 DEF Follows

(* While nothing about k is lost, what is there after the step was there    *)
(* before, and the other way round.                                        *)
LEMMA KeepsAll ==
  ASSUME NEW s, Moves(s), Loses(s), NEW k, k \notin behind', NEW c \in DOMAIN coming, About(k, c)
  PROVE  \E j \in DOMAIN coming' : s[j] = c /\ About(k, j)'
<1>1. ~Gone(s, c)
  BY DEF Loses, About
<1>2. PICK j \in DOMAIN coming' : s[j] = c
  BY <1>1 DEF Gone
<1> QED BY <1>2 DEF Moves, About

(* The events that a fetch has seen and that have not crossed it.           *)
LEMMA KeepsNews ==
  ASSUME NEW s, Moves(s), Crosses(s), NEW f \in Fetches, fetch'[f].step # "idle", NEW k, k \notin fetch'[f].crossed
  PROVE  /\ \A c \in NewsTo(f) : About(k, c) => \E j \in NewsTo(f)' : s[j] = c /\ About(k, j)'
         /\ \A j \in NewsTo(f)' : s[j] \in NewsTo(f) /\ (About(k, j)' <=> About(k, s[j]))
<1>1. ASSUME NEW c \in NewsTo(f), About(k, c) PROVE \E j \in NewsTo(f)' : s[j] = c /\ About(k, j)'
  <2>1. ~Gone(s, c)
    BY <1>1 DEF Crosses, About, NewsTo
  <2>2. PICK j \in DOMAIN coming' : s[j] = c
    BY <2>1 DEF Gone
  <2>3. About(k, j)' /\ f \in coming'[j].seen
    BY <1>1, <2>2 DEF Moves, About, NewsTo, Ended
  <2> QED BY <2>2, <2>3 DEF NewsTo
<1>2. ASSUME NEW j \in NewsTo(f)' PROVE s[j] \in NewsTo(f) /\ (About(k, j)' <=> About(k, s[j]))
  <2>1. j \in DOMAIN coming' /\ f \in coming'[j].seen
    BY <1>2 DEF NewsTo
  <2> QED BY <2>1 DEF Moves, About, NewsTo
<1> QED BY <1>1, <1>2

-----------------------------------------------------------------------------
(* Types.                                                                  *)

LEMMA InitType == Init => TInv
<1> SUFFICES ASSUME Init PROVE TInv
  OBVIOUS
<1>1. coming = << >>
  BY DEF Init, coming
<1>2. \A n \in DOMAIN coming : EventOK(coming[n])
  BY <1>1
<1>3. TypeOK
  <2>1. << >> \in Seq(HubEvent)
    OBVIOUS
  <2>2. ops \in 0..MaxOps /\ closes \in 0..MaxCloses
    BY DashboardAssumptions DEF Init
  <2>3. \A f \in Fetches : /\ fetch[f].step \in {"idle", "counted", "answered"}
                           /\ fetch[f].count \in Nat /\ fetch[f].crossed \subseteq Keys
    BY DEF Init, NoFetch
  <2>4. behind \subseteq Keys /\ part \in Parts
    BY DEF Init
  <2>5. instances \in [Instances -> Statuses] /\ vInstances \in [Instances -> Statuses]
    BY DEF Init, Statuses
  <2>6. members \in (SUBSET Instances) \cup {None} /\ schedule \in Schedules
    <3>1. members \in (SUBSET Instances) \cup {None}
      BY DEF Init
    <3>2. schedule \in {None, [enabled |-> TRUE, fires |-> 0]}
      BY DEF Init
    <3>3. [enabled |-> TRUE, fires |-> 0] \in [enabled : BOOLEAN, fires : Nat]
      OBVIOUS
    <3> QED BY <3>1, <3>2, <3>3 DEF Schedules
  <2>7. /\ vTopic \in [count : Nat, subscribers : SUBSET Instances] \cup {None}
        /\ vSchedule \in Schedules /\ tasks \in [Tasks -> {"new", "sent", "closed"}]
        /\ pendingTaskIds \subseteq Tasks /\ activeTasks \in Nat
        /\ socket \in {"open", "closed"} /\ plug \in {"open", "closed"}
        /\ seeded \in BOOLEAN /\ stray \in BOOLEAN /\ request \in {"none", "sent"}
        /\ page \in {"idle", "asked", "created", "changed", "firing", "create", "delete", "subscribe",
                     "unsubscribe"}
    BY DEF Init, Schedules
  <2>8. emitting \in Seq(HubEvent) /\ stream \in Seq(HubEvent)
    BY <2>1 DEF Init
  <2> QED BY <2>2, <2>3, <2>4, <2>5, <2>6, <2>7, <2>8 DEF TypeOK
<1>4. fetch \in [Fetches -> Fetched] /\ \A f \in Fetches : FetchOK(fetch[f])
  BY DEF Init, NoFetch, Fetched, FetchOK, FetchInv
<1>5. PartOK
  BY DEF Init, PartOK, Parts
<1> QED BY <1>2, <1>3, <1>4, <1>5 DEF TInv, FetchInv, Init

(* What is true of an event stays so where it goes.                         *)
LEMMA EventsStay ==
  ASSUME TypeOK, TypeOK', \A n \in DOMAIN coming : EventOK(coming[n]), UNCHANGED part, NEW s, Moves(s)
  PROVE  \A j \in DOMAIN coming' : EventOK(coming[j])'
<1> SUFFICES ASSUME NEW j \in DOMAIN coming' PROVE EventOK(coming[j])'
  OBVIOUS
<1>1. Places /\ Places'
  BY PlacesLemma, PTL
<1>2. coming'[j] \in HubEvent
  BY <1>1 DEF Places
<1>3. EventOK(coming[s[j]]) /\ s[j] \in DOMAIN coming
  BY DEF Moves
<1>4. coming'[j].seen \subseteq { f \in Fetches : fetch'[f].step # "idle" }
  BY <1>2, <1>3 DEF Moves, EventOK, Ended, HubEvent
<1>5. /\ coming'[j].kind = coming[s[j]].kind /\ coming'[j].keys = coming[s[j]].keys
      /\ coming'[j].id = coming[s[j]].id     /\ coming'[j].data = coming[s[j]].data
      /\ coming[s[j]].late => coming'[j].late
  BY DEF Moves
<1> DEFINE d == coming'[j]
           e == coming[s[j]]
<1>6. EventOK(e)
  BY <1>3
<1> HIDE DEF d, e
<1>7. CASE part = "instances"
  BY <1>2, <1>4, <1>5, <1>6, <1>7 DEF EventOK, d, e
<1>8. CASE part = "topics"
  BY <1>2, <1>4, <1>5, <1>6, <1>8 DEF EventOK, d, e
<1>9. CASE part = "schedules"
  BY <1>2, <1>4, <1>5, <1>6, <1>9 DEF EventOK, d, e
<1>10. CASE part = "tasks"
  BY <1>2, <1>4, <1>5, <1>6, <1>10 DEF EventOK, d, e
<1> QED BY <1>6, <1>7, <1>8, <1>9, <1>10 DEF EventOK

(* Types that depend on the part, when the step leaves the part alone.      *)
LEMMA ListsStay == UNCHANGED part => Lists' = Lists /\ Fetched' = Fetched
BY DEF Lists, Fetched

(* Crossed keeps the types of fetches.                                     *)
LEMMA CrossedType ==
  ASSUME FetchInv, UNCHANGED part, NEW E \in SUBSET HubEvent, fetch' = Crossed(E) \/ fetch' = fetch
  PROVE  /\ FetchInv'
         /\ \A f \in Fetches : /\ fetch'[f].step \in {"idle", "counted", "answered"}
                                /\ fetch'[f].count \in Nat /\ fetch'[f].crossed \subseteq Keys
<1>1. fetch \in [Fetches -> Fetched] /\ \A f \in Fetches : FetchOK(fetch[f])
  BY DEF FetchInv
<1>2. Lists' = Lists /\ Fetched' = Fetched
  BY ListsStay
<1>3. fetch' \in [Fetches -> Fetched]
  BY <1>1, CrossedLemma
<1>4. \A f \in Fetches : fetch'[f].step = fetch[f].step /\ fetch'[f].list = fetch[f].list
  BY <1>1, CrossedLemma
<1>5. \A f \in Fetches : FetchOK(fetch[f])'
  BY <1>1, <1>2, <1>4 DEF FetchOK
<1>6. \A f \in Fetches : /\ fetch'[f].step \in {"idle", "counted", "answered"}
                          /\ fetch'[f].count \in Nat /\ fetch'[f].crossed \subseteq Keys
  BY <1>3 DEF Fetched
<1> QED BY <1>2, <1>3, <1>5, <1>6 DEF FetchInv

LEMMA HandleType == TInv /\ HandleEvent => TInv'
<1> SUFFICES ASSUME TInv, HandleEvent PROVE TInv'
  OBVIOUS
<1> DEFINE e == Head(stream)
<1>1. TypeOK /\ FetchInv /\ PartOK /\ (\A n \in DOMAIN coming : EventOK(coming[n])) /\ Places
  BY PlacesLemma DEF TInv
<1>2. stream \in Seq(HubEvent) /\ stream # << >> /\ stream' = Tail(stream) /\ fetch' = Crossed({e})
      /\ UNCHANGED <<hub, emitting, socket, seeded, sender, bounds>>
  BY <1>1 DEF HandleEvent, TypeOK
<1>3. EventOK(e)
  <2>1. 1 \in DOMAIN coming /\ coming[1] = e
    <3>1. 1 \in DOMAIN coming /\ 1 <= Len(stream)
      BY <1>1, <1>2, EmptySeq, LenProperties DEF Places, TypeOK
    <3> QED BY <1>1, <1>2, <3>1 DEF Places
  <2> QED BY <1>1, <2>1
<1>4. e \in HubEvent
  BY <1>3 DEF EventOK
<1> HIDE DEF e
<1>5. /\ FetchInv'
      /\ \A f \in Fetches : /\ fetch'[f].step \in {"idle", "counted", "answered"}
                             /\ fetch'[f].count \in Nat /\ fetch'[f].crossed \subseteq Keys
  BY <1>1, <1>2, <1>4, CrossedType DEF hub
<1>6. stream' \in Seq(HubEvent)
  BY <1>2
<1>7. /\ vInstances' = InstancesAfter(vInstances, e) /\ vTopic' = TopicAfter(vTopic, e)
      /\ vSchedule' = ScheduleAfter(vSchedule, e)    /\ pendingTaskIds' = PendingAfter(pendingTaskIds, e)
      /\ activeTasks' = Active(activeTasks, e)
      /\ behind' = IF e.late THEN behind \cup e.keys ELSE (behind \ Settled(e)) \cup Dropped(e)
      /\ stray' \in BOOLEAN
  BY DEF HandleEvent, e
<1>8. vInstances' \in [Instances -> Statuses] /\ (part # "instances" => vInstances' = vInstances)
  <2>1. vInstances \in [Instances -> Statuses]
    BY <1>1 DEF TypeOK
  <2>2. CASE e.kind \in {"joined", "left", "removed"}
    BY <1>3, <1>7, <2>1, <2>2 DEF EventOK, InstancesAfter, Statuses
  <2>3. CASE e.kind = "session_updated"
    BY <1>3, <1>7, <2>1, <2>3 DEF EventOK, InstancesAfter, Statuses
  <2>4. CASE e.kind \notin {"joined", "left", "removed", "session_updated"}
    BY <1>7, <2>1, <2>4 DEF InstancesAfter
  <2> QED BY <2>2, <2>3, <2>4
<1>9. vTopic' \in [count : Nat, subscribers : SUBSET Instances] \cup {None} /\ (part # "topics" => vTopic' = vTopic)
  <2>1. vTopic \in Topic \cup {None}
    BY <1>1 DEF TypeOK, Topic
  <2>2. CASE e.kind \in {"created", "deleted"}
    BY <1>3, <1>7, <2>1, <2>2 DEF EventOK, TopicAfter, Topic
  <2>3. CASE e.kind \in {"subscribed", "unsubscribed"} /\ vTopic # None
    <3>1. e.id \in Instances /\ vTopic \in Topic /\ part = "topics"
      BY <1>3, <2>1, <2>3 DEF EventOK
    <3>3. vTopic.count \in Nat /\ vTopic.subscribers \in SUBSET Instances
      BY <3>1 DEF Topic
    <3>4. With(vTopic, e.id) \in Topic
      BY <3>1, <3>3 DEF With, Topic
    <3>5. Unsubscribed(vTopic, e.id) \in Topic
      <4>1. (IF vTopic.count = 0 THEN 0 ELSE vTopic.count - 1) \in Nat
        BY <3>3
      <4> QED BY <3>3, <4>1 DEF Unsubscribed, Topic
    <3>2. Subscribed(vTopic, e.id) \in Topic /\ Unsubscribed(vTopic, e.id) \in Topic
      BY <3>1, <3>4, <3>5 DEF Subscribed
    <3> QED BY <1>7, <2>3, <3>1, <3>2 DEF TopicAfter, Topic
  <2>4. CASE e.kind \notin {"created", "deleted"} /\ ~(e.kind \in {"subscribed", "unsubscribed"} /\ vTopic # None)
    BY <1>7, <2>1, <2>4 DEF TopicAfter, Topic
  <2> QED BY <2>2, <2>3, <2>4
<1>10. vSchedule' \in Schedules /\ (part # "schedules" => vSchedule' = vSchedule)
  <2>1. vSchedule \in Schedules
    BY <1>1 DEF TypeOK
  <2>2. CASE e.kind \in {"schedule:created", "schedule:updated", "schedule:deleted"}
    BY <1>3, <1>7, <2>1, <2>2 DEF EventOK, ScheduleAfter, Schedules
  <2>3. CASE e.kind = "schedule:fired" /\ vSchedule # None
    <3>1. e.data \in Schedules \ {None} /\ part = "schedules" /\ vSchedule' = [vSchedule EXCEPT !.fires = e.data.fires]
      BY <1>3, <1>7, <2>3 DEF EventOK, ScheduleAfter
    <3> QED BY <2>1, <2>3, <3>1 DEF Schedules
  <2>4. CASE e.kind \notin {"schedule:created", "schedule:updated", "schedule:deleted"}
             /\ ~(e.kind = "schedule:fired" /\ vSchedule # None)
    BY <1>7, <2>1, <2>4 DEF ScheduleAfter
  <2> QED BY <2>2, <2>3, <2>4
<1>11. /\ pendingTaskIds' \subseteq Tasks /\ activeTasks' \in Nat
       /\ part # "tasks" => pendingTaskIds' = pendingTaskIds /\ activeTasks' = activeTasks
  <2>1. pendingTaskIds \subseteq Tasks /\ activeTasks \in Nat
    BY <1>1 DEF TypeOK
  <2>2. CASE e.kind = "task"
    BY <1>3, <1>7, <2>1, <2>2 DEF EventOK, PendingAfter, Active
  <2>3. CASE e.kind = "result"
    BY <1>3, <1>7, <2>1, <2>3 DEF EventOK, PendingAfter, Active
  <2>4. CASE e.kind \notin {"task", "result"}
    BY <1>7, <2>1, <2>4 DEF PendingAfter, Active
  <2> QED BY <2>2, <2>3, <2>4
<1>12. behind' \subseteq Keys
  <2>1. behind \subseteq Keys /\ e.keys \subseteq Keys
    BY <1>1, <1>4 DEF TypeOK, HubEvent
  <2>2. Dropped(e) \subseteq Keys
    BY <1>3 DEF Dropped, EventOK, Keys
  <2> QED BY <1>7, <2>1, <2>2
<1>13. TypeOK'
  BY <1>1, <1>2, <1>5, <1>6, <1>7, <1>8, <1>9, <1>10, <1>11, <1>12 DEF TypeOK, hub, sender, bounds
<1>14. \A j \in DOMAIN coming' : EventOK(coming[j])'
  BY <1>1, <1>2, <1>13, HandlePlaces, EventsStay DEF FetchInv, hub
<1>15. PartOK'
  BY <1>1, <1>2, <1>8, <1>9, <1>10, <1>11 DEF PartOK, hub, sender
<1>16. socket' = "closed" => stream' = << >>
  BY <1>2 DEF TInv
<1> QED BY <1>5, <1>13, <1>14, <1>15, <1>16 DEF TInv

(* The socket opens or closes, or an event is emitted: the view has what it  *)
(* has.  However the events move, none is gone but those the view is behind  *)
(* with, and the snapshots they crossed know of them.                       *)
Wire == SocketOpens \/ SocketCloses \/ \E n \in 1..MaxOps : EmitToDashboards(n)

LEMMA EmitType ==
  ASSUME TInv, NEW n \in 1..MaxOps, EmitToDashboards(n)
  PROVE  TypeOK' /\ FetchInv'
<1> DEFINE e == emitting[n]
           Later(d) == IF d.keys \cap e.keys # {} THEN [d EXCEPT !.late = TRUE] ELSE d
<1>1. /\ TypeOK /\ FetchInv /\ emitting \in Seq(HubEvent) /\ stream \in Seq(HubEvent)
      /\ Len(emitting) \in Nat /\ n \in 1..Len(emitting) /\ e \in HubEvent
  BY LenProperties DEF TInv, TypeOK, EmitToDashboards
<1>2. /\ emitting' = [m \in 1..(Len(emitting) - 1) |-> IF m < n THEN Later(emitting[m]) ELSE emitting[m + 1]]
      /\ stream' = Append(stream, e) \/ stream' = stream
      /\ behind' = behind \cup e.keys \/ behind' = behind
      /\ fetch' = Crossed({e}) \/ fetch' = fetch
      /\ UNCHANGED <<hub, socket, shown, seeded, stray, sender, bounds>>
  BY DEF EmitToDashboards
<1> HIDE DEF e
<1>3. emitting' \in Seq(HubEvent)
  <2>1. \A d \in HubEvent : Later(d) \in HubEvent
    BY DEF HubEvent
  <2> HIDE DEF Later
  <2>2. \A m \in 1..(Len(emitting) - 1) : (IF m < n THEN Later(emitting[m]) ELSE emitting[m + 1]) \in HubEvent
    BY <1>1, <2>1
  <2> DEFINE G(m) == IF m < n THEN Later(emitting[m]) ELSE emitting[m + 1]
  <2>3. \A m \in 1..(Len(emitting) - 1) : G(m) \in HubEvent
    BY <2>2
  <2>4. emitting' = [m \in 1..(Len(emitting) - 1) |-> G(m)]
    BY <1>2
  <2> HIDE DEF G
  <2>5. emitting' \in [1..(Len(emitting) - 1) -> HubEvent]
    BY <2>3, <2>4
  <2>6. Len(emitting) - 1 \in Nat
    BY <1>1
  <2> QED BY <2>5, <2>6, SeqDef
<1>4. stream' \in Seq(HubEvent)
  BY <1>1, <1>2, AppendProperties
<1>5. behind' \subseteq Keys
  BY <1>1, <1>2 DEF TypeOK, HubEvent
<1>6. /\ FetchInv'
      /\ \A f \in Fetches : /\ fetch'[f].step \in {"idle", "counted", "answered"}
                             /\ fetch'[f].count \in Nat /\ fetch'[f].crossed \subseteq Keys
  BY <1>1, <1>2, CrossedType DEF hub
<1>7. TypeOK'
  BY <1>1, <1>2, <1>3, <1>4, <1>5, <1>6 DEF TypeOK, hub, shown, sender, bounds
<1> QED BY <1>6, <1>7

LEMMA WireType ==
  ASSUME TInv, Wire
  PROVE  TInv' /\ \E s : Moves(s) /\ Crosses(s) /\ Loses(s)
<1>1. TypeOK /\ FetchInv /\ PartOK /\ (\A n \in DOMAIN coming : EventOK(coming[n]))
      /\ fetch \in [Fetches -> Fetched] /\ (socket = "closed" => stream = << >>)
  BY DEF TInv, FetchInv
<1>2. UNCHANGED <<hub, shown, stray, seeded, sender>>
  BY DEF Wire, SocketOpens, SocketCloses, EmitToDashboards, view, seeds
<1>3. PartOK'
  BY <1>1, <1>2 DEF PartOK, hub, shown, sender
<1>4. CASE SocketOpens
  <2>1. UNCHANGED <<emitting, stream, fetch, behind, ops, closes>> /\ socket' = "open" /\ stream = << >>
    BY <1>1, <1>4 DEF SocketOpens, view, seeds, bounds
  <2>2. TypeOK'
    BY <1>1, <1>2, <2>1 DEF TypeOK, hub, shown, sender
  <2>3. coming' = coming
    BY <2>1 DEF coming
  <2>4. FetchInv'
    BY <1>1, <1>2, <2>1, CrossedType DEF hub
  <2>5. PICK s : Moves(s) /\ \A c \in DOMAIN coming : ~Gone(s, c)
    BY <1>1, <2>1, <2>2, <2>3, SamePlaces DEF Ended
  <2>6. \A j \in DOMAIN coming' : EventOK(coming[j])'
    BY <1>1, <1>2, <2>2, <2>5, EventsStay DEF hub
  <2> QED BY <1>3, <2>1, <2>2, <2>4, <2>5, <2>6 DEF TInv, Crosses, Loses
<1>5. CASE SocketCloses
  <2> DEFINE lost == { stream[n] : n \in DOMAIN stream }
  <2>1. /\ emitting' = emitting /\ stream' = << >> /\ socket' = "closed" /\ ops' = ops
        /\ closes' = closes + 1 /\ closes < MaxCloses /\ fetch' = Crossed(lost)
        /\ behind' = behind \cup UNION { e.keys : e \in lost }
    BY <1>5 DEF SocketCloses, view, seeds
  <2>2. lost \in SUBSET HubEvent /\ \A e \in lost : e.keys \subseteq Keys
    <3>1. stream \in Seq(HubEvent)
      BY <1>1 DEF TypeOK
    <3>2. \A n \in DOMAIN stream : stream[n] \in HubEvent
      BY <3>1
    <3> QED BY <3>2 DEF HubEvent
  <2>3. /\ FetchInv'
        /\ \A f \in Fetches : /\ fetch'[f].step \in {"idle", "counted", "answered"}
                              /\ fetch'[f].count \in Nat /\ fetch'[f].crossed \subseteq Keys
    <3> HIDE DEF lost
    <3> QED BY <1>1, <1>2, <2>1, <2>2, CrossedType DEF hub
  <2>4. behind' \subseteq Keys /\ closes' \in 0..MaxCloses /\ stream' \in Seq(HubEvent)
    BY <1>1, <2>1, <2>2, DashboardAssumptions DEF TypeOK
  <2>5. TypeOK'
    BY <1>1, <1>2, <2>1, <2>3, <2>4 DEF TypeOK, hub, shown, sender
  <2>6. PICK s : Moves(s) /\ Crosses(s) /\ Loses(s)
    BY <1>1, <2>1, <2>5, ClosePlaces
  <2>7. \A j \in DOMAIN coming' : EventOK(coming[j])'
    BY <1>1, <1>2, <2>5, <2>6, EventsStay DEF hub
  <2> QED BY <1>3, <2>1, <2>3, <2>5, <2>6, <2>7 DEF TInv
<1>6. ASSUME NEW n \in 1..MaxOps, EmitToDashboards(n) PROVE TInv' /\ \E s : Moves(s) /\ Crosses(s) /\ Loses(s)
  <2>1. TypeOK' /\ FetchInv' /\ socket' = socket
    BY <1>6, EmitType DEF EmitToDashboards
  <2>2. socket \in {"open", "closed"} /\ (socket # "open" => stream = << >> /\ stream' = stream)
    BY <1>1, <1>6 DEF TypeOK, EmitToDashboards
  <2>3. PICK s : Moves(s) /\ Crosses(s) /\ Loses(s)
    <3>1. CASE socket = "open"
      BY <1>1, <1>6, <2>1, <3>1, EmitPlaces DEF Crosses, Loses
    <3>2. CASE socket # "open"
      BY <1>1, <1>6, <2>1, <2>2, <3>2, LosePlaces
    <3> QED BY <3>1, <3>2
  <2>4. \A j \in DOMAIN coming' : EventOK(coming[j])'
    BY <1>1, <1>2, <2>1, <2>3, EventsStay DEF hub
  <2> QED BY <1>3, <2>1, <2>2, <2>3, <2>4 DEF TInv
<1> QED BY <1>4, <1>5, <1>6 DEF Wire

(* An operation of the hub: an event is added.                             *)
LEMMA AddPlaces ==
  ASSUME TypeOK, TypeOK', NEW e, emitting' = Append(emitting, e), stream' = stream
  PROVE  /\ Len(coming') = Len(coming) + 1 /\ Len(coming) \in Nat
         /\ DOMAIN coming = 1..Len(coming) /\ DOMAIN coming' = 1..(Len(coming) + 1)
         /\ \A n \in DOMAIN coming : coming'[n] = coming[n]
         /\ coming'[Len(coming) + 1] = e
<1>1. Places /\ Places'
  BY PlacesLemma, PTL
<1>2. /\ Len(stream) \in Nat /\ Len(emitting) \in Nat /\ emitting \in Seq(HubEvent)
      /\ Len(emitting') = Len(emitting) + 1
      /\ (\A m \in 1..Len(emitting) : emitting'[m] = emitting[m]) /\ emitting'[Len(emitting) + 1] = e
  BY LenProperties DEF TypeOK
<1>3. /\ Len(coming') = Len(coming) + 1 /\ Len(coming) \in Nat
      /\ DOMAIN coming = 1..Len(coming) /\ DOMAIN coming' = 1..(Len(coming) + 1)
  BY <1>1, <1>2 DEF Places
<1>4. \A n \in DOMAIN coming : coming'[n] = coming[n]
  <2> SUFFICES ASSUME NEW n \in DOMAIN coming PROVE coming'[n] = coming[n]
    OBVIOUS
  <2>1. n \in DOMAIN coming' /\ n \in Nat /\ n >= 1 /\ n <= Len(stream) + Len(emitting)
    BY <1>1, <1>3 DEF Places
  <2>2. coming'[n] = IF n <= Len(stream) THEN stream[n] ELSE emitting'[n - Len(stream)]
    BY <1>1, <2>1 DEF Places
  <2>3. coming[n] = IF n <= Len(stream) THEN stream[n] ELSE emitting[n - Len(stream)]
    BY <1>1 DEF Places
  <2>4. ~(n <= Len(stream)) => n - Len(stream) \in 1..Len(emitting)
    BY <1>2, <2>1
  <2> QED BY <1>2, <2>2, <2>3, <2>4
<1>5. coming'[Len(coming) + 1] = e
  <2> DEFINE n == Len(coming) + 1
  <2>1. n \in DOMAIN coming' /\ ~(n <= Len(stream)) /\ n - Len(stream) = Len(emitting) + 1
    BY <1>1, <1>2, <1>3 DEF Places
  <2>2. coming'[n] = emitting'[n - Len(stream)]
    BY <1>1, <2>1 DEF Places
  <2> QED BY <1>2, <2>1, <2>2
<1> QED BY <1>3, <1>4, <1>5

(* An operation that began with a typed event keeps the types.             *)
LEMMA OperationType ==
  ASSUME TInv, NEW p, NEW kind, NEW keys, NEW id, NEW data, Operation(p, Event(kind, keys, id, data)),
         EventOK(Event(kind, keys, id, data)), HubTyped', PartOK'
  PROVE  TInv'
<1> DEFINE e == Event(kind, keys, id, data)
<1>1. TypeOK /\ FetchInv /\ (\A n \in DOMAIN coming : EventOK(coming[n])) /\ e \in HubEvent
  BY DEF TInv, EventOK
<1>2. /\ emitting' = Append(emitting, e) /\ ops' = ops + 1 /\ ops < MaxOps
      /\ UNCHANGED <<part, socket, stream, view, seeds, plug, request, closes>>
      /\ page' = page \/ page' \in {"created", "changed"} \/ page' = "idle"
  <2>1. page' = page \/ page' = ScheduleCalls(e.kind) \/ page' = "idle"
    BY DEF Operation
  <2>2. page' = ScheduleCalls(e.kind) => page' \in {"created", "changed", "idle"}
    BY DEF ScheduleCalls
  <2> QED BY <2>1, <2>2 DEF Operation
<1> HIDE DEF e
<1>3. emitting' \in Seq(HubEvent) /\ ops' \in 0..MaxOps
  BY <1>1, <1>2, AppendProperties, DashboardAssumptions DEF TypeOK
<1>4. TypeOK'
  BY <1>1, <1>2, <1>3 DEF TypeOK, HubTyped, view, shown, seeds
<1>5. \A n \in DOMAIN coming' : coming'[n] = e \/ (n \in DOMAIN coming /\ coming'[n] = coming[n])
  <2>1. /\ DOMAIN coming = 1..Len(coming) /\ DOMAIN coming' = 1..(Len(coming) + 1) /\ Len(coming) \in Nat
        /\ \A n \in DOMAIN coming : coming'[n] = coming[n]
        /\ coming'[Len(coming) + 1] = e
    BY <1>1, <1>2, <1>4, AddPlaces
  <2>2. \A n \in 1..(Len(coming) + 1) : n \in 1..Len(coming) \/ n = Len(coming) + 1
    BY <2>1
  <2> QED BY <2>1, <2>2
<1>6. \A n \in DOMAIN coming' : EventOK(coming[n])'
  <2> SUFFICES ASSUME NEW n \in DOMAIN coming' PROVE EventOK(coming[n])'
    OBVIOUS
  <2>1. EventOK(coming'[n])
    BY <1>1, <1>5 DEF e
  <2> QED BY <1>2, <2>1 DEF EventOK, seeds
<1>7. FetchInv'
  BY <1>1, <1>2, CrossedType DEF seeds
<1> QED BY <1>2, <1>4, <1>6, <1>7 DEF TInv

(* What an event is when its operation begins.                             *)
Kinds == {"joined", "left", "removed", "session_updated", "created", "deleted", "subscribed",
          "unsubscribed", "silent", "schedule:created", "schedule:updated", "schedule:deleted",
          "schedule:fired", "task", "result"}

LEMMA EventLemma ==
  ASSUME NEW kind, NEW keys, NEW id, NEW data, kind \in Kinds, keys \subseteq Keys,
         id \in Instances \cup Tasks \cup {None}, data \in Instances \cup Schedules
  PROVE  /\ Event(kind, keys, id, data) \in HubEvent
         /\ Event(kind, keys, id, data).kind = kind /\ Event(kind, keys, id, data).keys = keys
         /\ Event(kind, keys, id, data).id = id     /\ Event(kind, keys, id, data).data = data
         /\ Event(kind, keys, id, data).late <=> (kind = "silent")
         /\ Event(kind, keys, id, data).seen \subseteq { f \in Fetches : fetch[f].step # "idle" }
BY DEF Event, HubEvent, Kinds

(* The snapshots that an event of an operation has seen.                   *)
LEMMA SeenLemma ==
  ASSUME NEW kind, NEW keys, NEW id, NEW data, NEW f \in Fetches
  PROVE  f \in Event(kind, keys, id, data).seen <=>
           \/ fetch[f].step = "answered"
           \/ fetch[f].step = "counted" /\ kind \in {"deleted", "silent"}
BY DEF Event

InstanceOps == \E i \in Instances : \/ Joins(i) \/ Leaves(i) \/ Removed(i)
                                    \/ \E j \in Instances : SessionUpdated(i, j)
TopicOps    == \/ TopicCreated \/ TopicDeleted \/ TopicExpires
               \/ \E i \in Instances : \/ Subscribes(i) \/ Unsubscribes(i)
                                       \/ \E j \in Instances : SubscriptionMoves(i, j)
ScheduleOps == ScheduleCreated \/ ScheduleUpdated \/ ScheduleDeleted \/ ScheduleFired
TaskOps     == \E t \in Tasks : MessageSent(t)

(* An operation begins with an event of its own, and changes its part only. *)
Began(p, e) == EventOK(e) /\ Operation(p, e) /\ HubTyped' /\ PartOK'

(* It says what it has made of the instances.                              *)
TellsInstances(e) ==
  /\ ~e.late
  /\ \A i \in Instances :
       IF i \in e.keys THEN instances'[i] = Target(e, i) /\ (e.kind = "left" => instances[i] = "online")
       ELSE instances'[i] = instances[i]

LEMMA InstanceOpsBegin ==
  ASSUME TInv, InstanceOps
  PROVE  \E kind, keys, id, data : /\ Began("instances", Event(kind, keys, id, data))
                                   /\ TellsInstances(Event(kind, keys, id, data)) /\ kind # "silent"
<1>1. HubTyped /\ PartOK /\ None \in Schedules
  BY DEF TInv, TypeOK, HubTyped, Schedules
<1>2. ASSUME NEW e, Operation("instances", e), instances' \in [Instances -> Statuses], UNCHANGED <<members, schedule, tasks>>
      PROVE  HubTyped' /\ PartOK'
  BY <1>1, <1>2 DEF HubTyped, PartOK, Operation, view, shown
<1>3. ASSUME NEW i \in Instances, NEW kind \in {"joined", "left", "removed"}, part = "instances",
             \A k \in Instances \ {i} : instances'[k] = instances[k],
             /\ kind = "joined" => instances'[i] = "online"
             /\ kind = "left" => instances'[i] = "offline" /\ instances[i] = "online"
             /\ kind = "removed" => instances'[i] = "absent"
      PROVE  EventOK(Event(kind, {i}, i, None)) /\ TellsInstances(Event(kind, {i}, i, None))
  <2>1. {i} \subseteq Keys /\ i \in Instances \cup Tasks \cup {None} /\ kind \in Kinds
        /\ None \in Instances \cup Schedules
    BY <1>1 DEF Keys, Kinds
  <2> DEFINE e == Event(kind, {i}, i, None)
  <2>2. /\ e \in HubEvent /\ e.kind = kind /\ e.keys = {i} /\ e.id = i /\ (e.late <=> kind = "silent")
        /\ e.seen \subseteq { f \in Fetches : fetch[f].step # "idle" }
    BY ONLY <2>1, EventLemma
  <2> HIDE DEF e
  <2>3. EventOK(e)
    BY <1>3, <2>2 DEF EventOK
  <2>4. TellsInstances(e)
    BY <1>3, <2>2 DEF TellsInstances, Target
  <2> QED BY <2>3, <2>4 DEF e
<1>4. ASSUME NEW i \in Instances, Joins(i) \/ Leaves(i) \/ Removed(i)
      PROVE  \E kind, keys, id, data : /\ Began("instances", Event(kind, keys, id, data))
                                       /\ TellsInstances(Event(kind, keys, id, data)) /\ kind # "silent"
  <2>1. part = "instances" /\ instances \in [Instances -> Statuses]
    BY <1>1, <1>4 DEF Joins, Leaves, Removed, Operation, HubTyped
  <2>2. PICK kind \in {"joined", "left", "removed"} :
          /\ Operation("instances", Event(kind, {i}, i, None))
          /\ kind = "joined" => instances'[i] = "online"
          /\ kind = "left" => instances'[i] = "offline" /\ instances[i] = "online"
          /\ kind = "removed" => instances'[i] = "absent"
    BY <1>4, <2>1 DEF Joins, Leaves, Removed
  <2>3. instances' \in [Instances -> Statuses] /\ UNCHANGED <<members, schedule, tasks>>
        /\ \A k \in Instances \ {i} : instances'[k] = instances[k]
    BY <1>4, <2>1 DEF Joins, Leaves, Removed, Statuses
  <2>4. EventOK(Event(kind, {i}, i, None)) /\ TellsInstances(Event(kind, {i}, i, None))
    BY <1>3, <2>1, <2>2, <2>3
  <2>5. HubTyped' /\ PartOK'
    BY <1>2, <2>2, <2>3
  <2> QED BY <2>2, <2>4, <2>5 DEF Began
<1>5. ASSUME NEW i \in Instances, NEW j \in Instances, SessionUpdated(i, j)
      PROVE  \E kind, keys, id, data : /\ Began("instances", Event(kind, keys, id, data))
                                       /\ TellsInstances(Event(kind, keys, id, data)) /\ kind # "silent"
  <2>1. part = "instances" /\ i # j /\ Operation("instances", Event("session_updated", {i, j}, i, j))
        /\ instances \in [Instances -> Statuses]
    BY <1>1, <1>5 DEF SessionUpdated, Operation, HubTyped
  <2>2. {i, j} \subseteq Keys /\ i \in Instances \cup Tasks \cup {None} /\ "session_updated" \in Kinds
        /\ j \in Instances \cup Schedules
    BY DEF Keys, Kinds
  <2> DEFINE e == Event("session_updated", {i, j}, i, j)
  <2>3. /\ e \in HubEvent /\ e.kind = "session_updated" /\ e.keys = {i, j} /\ e.id = i /\ e.data = j
        /\ ~e.late
        /\ e.seen \subseteq { f \in Fetches : fetch[f].step # "idle" }
    BY ONLY <2>2, EventLemma
  <2> HIDE DEF e
  <2>4. EventOK(e)
    BY <2>1, <2>3 DEF EventOK
  <2>5. instances' \in [Instances -> Statuses] /\ UNCHANGED <<members, schedule, tasks>>
        /\ instances'[i] = "offline" /\ instances'[j] = "online"
        /\ \A k \in Instances \ {i, j} : instances'[k] = instances[k]
    BY <1>5, <2>1 DEF SessionUpdated, Statuses
  <2>6. TellsInstances(e)
    BY <2>3, <2>5 DEF TellsInstances, Target
  <2>7. HubTyped' /\ PartOK'
    BY <1>2, <2>1, <2>5
  <2>8. Began("instances", Event("session_updated", {i, j}, i, j)) /\ TellsInstances(Event("session_updated", {i, j}, i, j))
    BY <2>1, <2>4, <2>6, <2>7 DEF Began, e
  <2> QED BY <2>8
<1> QED BY <1>4, <1>5 DEF InstanceOps

(* It says what it has made of the topic, or nothing at all.                *)
TellsTopic(e) ==
  /\ e.late <=> e.kind = "silent"
  /\ e.kind \in {"created", "deleted", "subscribed", "unsubscribed", "silent"}
  /\ e.kind = "created" => members = None /\ members' = {}
  /\ e.kind = "deleted" => members # None /\ members' = None
  /\ e.kind \in {"subscribed", "unsubscribed"} =>
       /\ members # None /\ members' # None
       /\ \A i \in Instances : IF Writes(e, i) THEN i \in members' <=> e.kind = "subscribed"
                               ELSE i \in members' <=> i \in members

LEMMA TopicOpsBegin ==
  ASSUME TInv, TopicOps
  PROVE  \E kind, id : /\ Began("topics", Event(kind, {"topic"}, id, None))
                       /\ TellsTopic(Event(kind, {"topic"}, id, None))
<1>1. HubTyped /\ PartOK /\ None \in Schedules
  BY DEF TInv, TypeOK, HubTyped, Schedules
<1>2. ASSUME NEW e, Operation("topics", e), members' \in (SUBSET Instances) \cup {None},
             UNCHANGED <<instances, schedule, tasks>>
      PROVE  HubTyped' /\ PartOK'
  <2>1. page \notin {"asked", "created", "changed", "firing"}
    BY <1>1, <1>2 DEF PartOK, Operation
  <2>2. page' = page \/ page' = "idle"
    BY <1>2, <2>1 DEF Operation
  <2> QED BY <1>1, <1>2, <2>1, <2>2 DEF HubTyped, PartOK, Operation, view, shown
<1>3. ASSUME NEW kind, NEW id, part = "topics",
             \/ kind \in {"created", "deleted", "silent"} /\ id = None
             \/ kind \in {"subscribed", "unsubscribed"} /\ id \in Instances,
             kind = "created" => members = None /\ members' = {},
             kind = "deleted" => members # None /\ members' = None,
             kind \in {"subscribed", "unsubscribed"} =>
               /\ members # None /\ members' # None
               /\ \A i \in Instances : IF i = id THEN i \in members' <=> kind = "subscribed"
                                       ELSE i \in members' <=> i \in members
      PROVE  EventOK(Event(kind, {"topic"}, id, None)) /\ TellsTopic(Event(kind, {"topic"}, id, None))
  <2>1. {"topic"} \subseteq Keys /\ id \in Instances \cup Tasks \cup {None} /\ kind \in Kinds
        /\ None \in Instances \cup Schedules
    BY <1>1, <1>3 DEF Keys, Kinds
  <2> DEFINE e == Event(kind, {"topic"}, id, None)
  <2>2. /\ e \in HubEvent /\ e.kind = kind /\ e.keys = {"topic"} /\ e.id = id
        /\ e.late <=> (kind = "silent")
        /\ e.seen \subseteq { f \in Fetches : fetch[f].step # "idle" }
    BY ONLY <2>1, EventLemma
  <2> HIDE DEF e
  <2>3. EventOK(e)
    BY <1>3, <2>2 DEF EventOK
  <2>4. TellsTopic(e)
    BY <1>3, <2>2 DEF TellsTopic, Writes
  <2> QED BY <2>3, <2>4 DEF e
<1>4. ASSUME TopicCreated \/ TopicDeleted \/ TopicExpires
      PROVE  \E kind, id : /\ Began("topics", Event(kind, {"topic"}, id, None))
                           /\ TellsTopic(Event(kind, {"topic"}, id, None))
  <2>1. PICK kind \in {"created", "deleted", "silent"} :
          /\ Operation("topics", Event(kind, {"topic"}, None, None))
          /\ kind = "created" => members = None /\ members' = {}
          /\ kind = "deleted" => members # None /\ members' = None
    BY <1>4, DashboardAssumptions DEF TopicCreated, TopicDeleted, TopicExpires
  <2>2. part = "topics" /\ members' \in (SUBSET Instances) \cup {None} /\ UNCHANGED <<instances, schedule, tasks>>
    BY <1>4, <2>1 DEF TopicCreated, TopicDeleted, TopicExpires, Operation
  <2>3. EventOK(Event(kind, {"topic"}, None, None)) /\ TellsTopic(Event(kind, {"topic"}, None, None))
    BY <1>3, <2>1, <2>2
  <2>4. HubTyped' /\ PartOK'
    BY <1>2, <2>1, <2>2
  <2> QED BY <2>1, <2>3, <2>4 DEF Began
<1>5. ASSUME NEW i \in Instances, Subscribes(i) \/ Unsubscribes(i)
      PROVE  \E kind, id : /\ Began("topics", Event(kind, {"topic"}, id, None))
                           /\ TellsTopic(Event(kind, {"topic"}, id, None))
  <2>1. PICK kind \in {"subscribed", "unsubscribed"} :
          /\ Operation("topics", Event(kind, {"topic"}, i, None)) /\ members # None
          /\ members' = IF kind = "subscribed" THEN members \cup {i} ELSE members \ {i}
    BY <1>5 DEF Subscribes, Unsubscribes
  <2>2. part = "topics" /\ members \in SUBSET Instances /\ members' \in SUBSET Instances
        /\ UNCHANGED <<instances, schedule, tasks>>
    BY <1>1, <1>5, <2>1 DEF Subscribes, Unsubscribes, Operation, HubTyped
  <2>5. members' # None
    BY <2>2, DashboardAssumptions
  <2>3. EventOK(Event(kind, {"topic"}, i, None)) /\ TellsTopic(Event(kind, {"topic"}, i, None))
    BY <1>3, <2>1, <2>2, <2>5
  <2>4. HubTyped' /\ PartOK'
    BY <1>2, <2>1, <2>2
  <2> QED BY <2>1, <2>3, <2>4 DEF Began
<1>6. ASSUME NEW i \in Instances, NEW j \in Instances, SubscriptionMoves(i, j)
      PROVE  \E kind, id : /\ Began("topics", Event(kind, {"topic"}, id, None))
                           /\ TellsTopic(Event(kind, {"topic"}, id, None))
  <2>1. /\ Operation("topics", Event("silent", {"topic"}, None, None)) /\ part = "topics"
        /\ members' \in (SUBSET Instances) \cup {None} /\ UNCHANGED <<instances, schedule, tasks>>
    BY <1>1, <1>6 DEF SubscriptionMoves, Operation, HubTyped
  <2>2. EventOK(Event("silent", {"topic"}, None, None)) /\ TellsTopic(Event("silent", {"topic"}, None, None))
    BY <1>3, <2>1
  <2> QED BY <1>2, <2>1, <2>2 DEF Began
<1> QED BY <1>4, <1>5, <1>6 DEF TopicOps

TellsSchedule(e) ==
  ~e.late /\ schedule' = e.data /\ e.data \in Schedules /\ (~Sets(e) => Alike(schedule, e.data))

LEMMA ScheduleOpsBegin ==
  ASSUME TInv, ScheduleOps
  PROVE  \E kind, data : /\ Began("schedules", Event(kind, {"schedule"}, None, data))
                         /\ TellsSchedule(Event(kind, {"schedule"}, None, data))
<1>1. HubTyped /\ PartOK /\ None \in Schedules
  BY DEF TInv, TypeOK, HubTyped, Schedules
<1>2. ASSUME NEW kind, NEW data \in Schedules, ScheduleOp(kind, data, data),
             \/ kind = "schedule:deleted" /\ data = None
             \/ /\ kind \in {"schedule:created", "schedule:updated", "schedule:fired"} /\ data # None
                /\ kind = "schedule:fired" => data.enabled /\ Alike(schedule, data)
      PROVE  /\ Began("schedules", Event(kind, {"schedule"}, None, data))
             /\ TellsSchedule(Event(kind, {"schedule"}, None, data))
  <2> DEFINE e == Event(kind, {"schedule"}, None, data)
  <2>1. part = "schedules" /\ Operation("schedules", e) /\ schedule' = data /\ UNCHANGED <<instances, members, tasks>>
    BY <1>2 DEF ScheduleOp, Operation
  <2>2. {"schedule"} \subseteq Keys /\ None \in Instances \cup Tasks \cup {None} /\ kind \in Kinds
        /\ data \in Instances \cup Schedules
    BY <1>2 DEF Keys, Kinds
  <2>3. /\ e \in HubEvent /\ e.kind = kind /\ e.keys = {"schedule"} /\ e.data = data
        /\ (e.late <=> (kind = "silent"))
        /\ e.seen \subseteq { f \in Fetches : fetch[f].step # "idle" }
    BY ONLY <2>2, EventLemma
  <2> HIDE DEF e
  <2>4. EventOK(e)
    BY <1>2, <2>1, <2>3 DEF EventOK
  <2>5. HubTyped' /\ PartOK'
    BY <1>1, <1>2, <2>1 DEF HubTyped, PartOK, Operation, view, shown
  <2>6. TellsSchedule(e)
    BY <1>2, <2>1, <2>3 DEF TellsSchedule, Sets
  <2> QED BY <2>1, <2>4, <2>5, <2>6 DEF Began, e
<1>3. CASE ScheduleCreated
  <2> DEFINE s == [enabled |-> TRUE, fires |-> 0]
  <2>1. ScheduleOp("schedule:created", s, s)
    BY <1>3 DEF ScheduleCreated
  <2>2. s \in [enabled : BOOLEAN, fires : Nat]
    OBVIOUS
  <2>3. s \in Schedules /\ s # None
    BY <2>2, DashboardAssumptions DEF Schedules
  <2> QED BY <1>2, <2>1, <2>3
<1>4. CASE ScheduleUpdated
  <2> DEFINE s == [schedule EXCEPT !.enabled = ~@]
  <2>1. schedule \in [enabled : BOOLEAN, fires : Nat] /\ ScheduleOp("schedule:updated", s, s)
    BY <1>1, <1>4 DEF ScheduleUpdated, HubTyped, Schedules
  <2>2. s \in [enabled : BOOLEAN, fires : Nat]
    BY <2>1
  <2>3. s \in Schedules /\ s # None
    BY <2>2, DashboardAssumptions DEF Schedules
  <2> QED BY <1>2, <2>1, <2>3
<1>5. CASE ScheduleDeleted
  BY <1>1, <1>2, <1>5 DEF ScheduleDeleted
<1>6. CASE ScheduleFired
  <2> DEFINE s == [schedule EXCEPT !.fires = @ + 1]
  <2>1. schedule \in [enabled : BOOLEAN, fires : Nat] /\ ScheduleOp("schedule:fired", s, s) /\ schedule.enabled
    BY <1>1, <1>6 DEF ScheduleFired, HubTyped, Schedules
  <2>2. s \in [enabled : BOOLEAN, fires : Nat] /\ s.enabled
    BY <2>1
  <2>3. s \in Schedules /\ s # None /\ schedule # None
    BY <2>1, <2>2, DashboardAssumptions DEF Schedules
  <2>4. Alike(schedule, s)
    BY <2>1, <2>2, <2>3 DEF Alike
  <2> HIDE DEF s
  <2> QED BY <1>2, <2>1, <2>2, <2>3, <2>4
<1> QED BY <1>3, <1>4, <1>5, <1>6 DEF ScheduleOps

TellsTask(t, e) ==
  /\ ~e.late /\ e.keys = {t} /\ e.kind \in {"task", "result"} /\ UNCHANGED pendingTaskIds
  /\ e.kind = "task"   => tasks[t] = "new" /\ tasks'[t] = "sent"
  /\ e.kind = "result" => tasks[t] = "sent" /\ tasks'[t] = "closed"
  /\ \A u \in Tasks : u # t => tasks'[u] = tasks[u]

LEMMA TaskOpsBegin ==
  ASSUME TInv, NEW t \in Tasks, MessageSent(t)
  PROVE  \E kind \in {"task", "result"} : /\ Began("tasks", Event(kind, {t}, t, None))
                                         /\ TellsTask(t, Event(kind, {t}, t, None))
<1>1. HubTyped /\ PartOK /\ None \in Schedules
  BY DEF TInv, TypeOK, HubTyped, Schedules
<1>2. PICK kind \in {"task", "result"} :
        /\ Operation("tasks", Event(kind, {t}, t, None))
        /\ kind = "task"   => tasks[t] = "new" /\ tasks' = [tasks EXCEPT ![t] = "sent"]
        /\ kind = "result" => tasks[t] = "sent" /\ tasks' = [tasks EXCEPT ![t] = "closed"]
  BY DEF MessageSent
<1>3. part = "tasks" /\ tasks' \in [Tasks -> {"new", "sent", "closed"}] /\ UNCHANGED <<instances, members, schedule>>
  BY <1>1 DEF MessageSent, Operation, HubTyped
<1>4. EventOK(Event(kind, {t}, t, None)) /\ TellsTask(t, Event(kind, {t}, t, None))
  <2>1. {t} \subseteq Keys /\ t \in Instances \cup Tasks \cup {None} /\ kind \in Kinds
        /\ None \in Instances \cup Schedules
    BY <1>1 DEF Keys, Kinds
  <2> DEFINE e == Event(kind, {t}, t, None)
  <2>2. /\ e \in HubEvent /\ e.kind = kind /\ e.keys = {t} /\ e.id = t
        /\ (e.late <=> (kind = "silent"))
        /\ e.seen \subseteq { f \in Fetches : fetch[f].step # "idle" }
    BY ONLY <2>1, EventLemma
  <2> HIDE DEF e
  <2>3. EventOK(e)
    BY <1>3, <2>2 DEF EventOK
  <2>4. UNCHANGED pendingTaskIds
    BY <1>2 DEF Operation, view, shown
  <2>5. TellsTask(t, e)
    BY <1>1, <1>2, <2>2, <2>4 DEF TellsTask, HubTyped
  <2> QED BY <2>3, <2>5 DEF e
<1>5. HubTyped' /\ PartOK'
  <2>1. page \notin {"asked", "created", "changed", "firing"}
    BY <1>1, <1>3 DEF PartOK
  <2>2. page' = page \/ page' = "idle"
    BY <1>2, <2>1 DEF Operation
  <2> QED BY <1>1, <1>2, <1>3, <2>1, <2>2 DEF HubTyped, PartOK, Operation, view, shown
<1> QED BY <1>2, <1>4, <1>5 DEF Began

(* A fetch begins or goes on: the view and the events stay.                 *)
LEMMA BeginType ==
  ASSUME TInv, NEW f \in Fetches, NEW g \in Fetched, FetchOK(g), g.step # "idle",
         fetch' = [fetch EXCEPT ![f] = g], UNCHANGED <<hub, wire, view, plug, request, bounds>>,
         seeded' \in BOOLEAN, page' = page \/ page' = "idle"
  PROVE  TInv' /\ coming' = coming
<1>1. TypeOK /\ FetchInv /\ PartOK /\ (\A n \in DOMAIN coming : EventOK(coming[n]))
      /\ fetch \in [Fetches -> Fetched] /\ (socket = "closed" => stream = << >>)
  BY DEF TInv, FetchInv
<1>2. coming' = coming /\ Lists' = Lists /\ Fetched' = Fetched
  BY ListsStay DEF coming, wire, hub
<1>3. fetch' \in [Fetches -> Fetched] /\ \A h \in Fetches : fetch'[h] = IF h = f THEN g ELSE fetch[h]
  BY <1>1
<1>4. FetchInv'
  BY <1>1, <1>2, <1>3 DEF FetchInv, FetchOK, hub
<1>5. \A h \in Fetches : fetch[h].step # "idle" => fetch'[h].step # "idle"
  BY <1>3
<1>6. \A n \in DOMAIN coming' : EventOK(coming[n])'
  <2> SUFFICES ASSUME NEW n \in DOMAIN coming PROVE EventOK(coming[n])'
    BY <1>2
  <2>1. EventOK(coming[n]) /\ coming'[n] = coming[n]
    BY <1>1, <1>2
  <2>2. coming[n].seen \subseteq { h \in Fetches : fetch'[h].step # "idle" }
    BY <1>5, <2>1 DEF EventOK
  <2> QED BY <2>1, <2>2 DEF EventOK, hub
<1>7. TypeOK'
  <2>1. \A h \in Fetches : /\ fetch'[h].step \in {"idle", "counted", "answered"}
                            /\ fetch'[h].count \in Nat /\ fetch'[h].crossed \subseteq Keys
    BY <1>3 DEF Fetched
  <2> QED BY <1>1, <2>1 DEF TypeOK, hub, wire, view, shown, bounds
<1>8. PartOK' /\ (socket' = "closed" => stream' = << >>)
  BY <1>1 DEF PartOK, hub, wire, view, shown
<1> QED BY <1>2, <1>4, <1>6, <1>7, <1>8 DEF TInv

(* A fetch ends: only which fetches an event has seen changes.              *)
SameEvents ==
  /\ DOMAIN coming' = DOMAIN coming
  /\ \A n \in DOMAIN coming :
       /\ coming'[n].kind = coming[n].kind /\ coming'[n].keys = coming[n].keys
       /\ coming'[n].id = coming[n].id     /\ coming'[n].data = coming[n].data
       /\ coming'[n].late = coming[n].late

Forgotten(u, f) == [n \in DOMAIN u |-> [u[n] EXCEPT !.seen = @ \ {f}]]

(* The end of a fetch takes it out of what events have seen, and no more.  *)
LEMMA ForgetLemma ==
  ASSUME NEW u \in Seq(HubEvent), NEW f
  PROVE  /\ Forgotten(u, f) \in Seq(HubEvent) /\ Len(Forgotten(u, f)) = Len(u)
         /\ \A n \in DOMAIN u :
              /\ Forgotten(u, f)[n].kind = u[n].kind /\ Forgotten(u, f)[n].keys = u[n].keys
              /\ Forgotten(u, f)[n].id = u[n].id     /\ Forgotten(u, f)[n].data = u[n].data
              /\ Forgotten(u, f)[n].late = u[n].late /\ Forgotten(u, f)[n].seen = u[n].seen \ {f}
<1> DEFINE w == Forgotten(u, f)
<1> DEFINE G(d) == [d EXCEPT !.seen = @ \ {f}]
<1>1. \A d \in HubEvent : /\ G(d) \in HubEvent /\ G(d).kind = d.kind /\ G(d).keys = d.keys /\ G(d).id = d.id
                          /\ G(d).data = d.data /\ G(d).late = d.late /\ G(d).seen = d.seen \ {f}
  BY DEF HubEvent
<1>2. DOMAIN u = 1..Len(u) /\ Len(u) \in Nat /\ \A n \in DOMAIN u : u[n] \in HubEvent
  BY LenProperties
<1>3. w = [n \in DOMAIN u |-> G(u[n])]
  BY DEF Forgotten
<1> HIDE DEF G, w
<1>4. w \in [1..Len(u) -> HubEvent] /\ DOMAIN w = 1..Len(u)
  BY <1>1, <1>2, <1>3
<1>5. w \in Seq(HubEvent)
  BY <1>2, <1>4, SeqDef
<1>6. Len(w) = Len(u)
  BY <1>2, <1>4, <1>5, LenProperties
<1>7. \A n \in DOMAIN u : w[n] = G(u[n])
  BY <1>3
<1> QED BY <1>1, <1>2, <1>5, <1>6, <1>7 DEF w

LEMMA ForgetEvents ==
  ASSUME TInv, NEW f \in Fetches, Ends(f)
  PROVE  /\ emitting' \in Seq(HubEvent) /\ stream' \in Seq(HubEvent) /\ (stream = << >> => stream' = << >>)
         /\ SameEvents /\ \A n \in DOMAIN coming : coming'[n].seen = coming[n].seen \ {f}
<1>1. emitting \in Seq(HubEvent) /\ stream \in Seq(HubEvent)
  BY DEF TInv, TypeOK
<1>2. emitting' = Forgotten(emitting, f) /\ stream' = Forgotten(stream, f)
  BY DEF Ends, Forgotten
<1>3. /\ emitting' \in Seq(HubEvent) /\ Len(emitting') = Len(emitting)
      /\ \A n \in DOMAIN emitting :
           /\ emitting'[n].kind = emitting[n].kind /\ emitting'[n].keys = emitting[n].keys
           /\ emitting'[n].id = emitting[n].id /\ emitting'[n].data = emitting[n].data
           /\ emitting'[n].late = emitting[n].late /\ emitting'[n].seen = emitting[n].seen \ {f}
  BY <1>1, <1>2, ForgetLemma
<1>4. /\ stream' \in Seq(HubEvent) /\ Len(stream') = Len(stream)
      /\ \A n \in DOMAIN stream :
           /\ stream'[n].kind = stream[n].kind /\ stream'[n].keys = stream[n].keys
           /\ stream'[n].id = stream[n].id /\ stream'[n].data = stream[n].data
           /\ stream'[n].late = stream[n].late /\ stream'[n].seen = stream[n].seen \ {f}
  BY <1>1, <1>2, ForgetLemma
<1>5. Places /\ Places'
  <2>1. Places
    BY <1>1, TwoSequences
  <2>2. (stream \in Seq(HubEvent) /\ emitting \in Seq(HubEvent))' => Places'
    BY TwoSequences, PTL
  <2> QED BY <1>3, <1>4, <2>1, <2>2
<1>6. /\ DOMAIN emitting = 1..Len(emitting) /\ DOMAIN stream = 1..Len(stream)
      /\ Len(emitting) \in Nat /\ Len(stream) \in Nat
  BY <1>1, LenProperties
<1>7. DOMAIN coming' = DOMAIN coming
  BY <1>3, <1>4, <1>5 DEF Places
<1>8. ASSUME NEW n \in DOMAIN coming
      PROVE  /\ coming'[n].kind = coming[n].kind /\ coming'[n].keys = coming[n].keys
             /\ coming'[n].id = coming[n].id     /\ coming'[n].data = coming[n].data
             /\ coming'[n].late = coming[n].late /\ coming'[n].seen = coming[n].seen \ {f}
  <2>1. n \in Nat /\ n >= 1 /\ n <= Len(stream) + Len(emitting)
    BY <1>5, <1>6 DEF Places
  <2>2. CASE n <= Len(stream)
    <3>1. coming[n] = stream[n] /\ coming'[n] = stream'[n] /\ n \in DOMAIN stream
      BY <1>4, <1>5, <1>6, <1>7, <2>1, <2>2 DEF Places
    <3> QED BY <1>4, <3>1
  <2>3. CASE ~(n <= Len(stream))
    <3>1. /\ coming[n] = emitting[n - Len(stream)] /\ coming'[n] = emitting'[n - Len(stream)]
          /\ n - Len(stream) \in DOMAIN emitting
      BY <1>4, <1>5, <1>6, <1>7, <2>1, <2>3 DEF Places
    <3> QED BY <1>3, <3>1
  <2> QED BY <2>2, <2>3
<1>9. stream = << >> => stream' = << >>
  BY <1>4, EmptySeq
<1> QED BY <1>3, <1>4, <1>7, <1>8, <1>9 DEF SameEvents

LEMMA EndType ==
  ASSUME TInv, NEW f \in Fetches, Ends(f), UNCHANGED <<hub, socket, pendingTaskIds, activeTasks, seeded, sender, bounds>>,
         vInstances' \in [Instances -> Statuses], part # "instances" => vInstances' = vInstances,
         vTopic' \in Topic \cup {None}, part # "topics" => vTopic' = vTopic,
         vSchedule' \in Schedules, part # "schedules" => vSchedule' = vSchedule,
         behind' \subseteq Keys, stray' \in BOOLEAN
  PROVE  TInv'
<1>1. TypeOK /\ FetchInv /\ PartOK /\ (\A n \in DOMAIN coming : EventOK(coming[n]))
      /\ fetch \in [Fetches -> Fetched] /\ (socket = "closed" => stream = << >>)
  BY DEF TInv, FetchInv
<1>2. /\ emitting' \in Seq(HubEvent) /\ stream' \in Seq(HubEvent) /\ (stream = << >> => stream' = << >>)
      /\ SameEvents /\ \A n \in DOMAIN coming : coming'[n].seen = coming[n].seen \ {f}
  BY ForgetEvents
<1>3. fetch' = [fetch EXCEPT ![f] = NoFetch] /\ Lists' = Lists /\ Fetched' = Fetched
  BY ListsStay DEF Ends, hub
<1>4. NoFetch \in Fetched /\ NoFetch.step = "idle"
  BY DEF NoFetch, Fetched
<1>5. fetch' \in [Fetches -> Fetched] /\ \A h \in Fetches : fetch'[h] = IF h = f THEN NoFetch ELSE fetch[h]
  BY <1>1, <1>3, <1>4
<1>6. FetchInv'
  BY <1>1, <1>3, <1>4, <1>5 DEF FetchInv, FetchOK, hub
<1>7. TypeOK'
  <2>1. \A h \in Fetches : /\ fetch'[h].step \in {"idle", "counted", "answered"}
                            /\ fetch'[h].count \in Nat /\ fetch'[h].crossed \subseteq Keys
    BY <1>5 DEF Fetched
  <2> QED BY <1>1, <1>2, <2>1 DEF TypeOK, Topic, hub, sender, bounds
<1>8. Places'
  BY <1>7, PlacesLemma, PTL
<1>9. \A n \in DOMAIN coming' : EventOK(coming[n])'
  <2> SUFFICES ASSUME NEW n \in DOMAIN coming' PROVE EventOK(coming[n])'
    OBVIOUS
  <2>1. n \in DOMAIN coming /\ EventOK(coming[n]) /\ coming'[n] \in HubEvent
    BY <1>1, <1>2, <1>8 DEF SameEvents, Places
  <2>2. coming'[n].seen \subseteq { h \in Fetches : fetch'[h].step # "idle" }
    BY <1>2, <1>5, <2>1 DEF EventOK
  <2> DEFINE d == coming'[n]
             e == coming[n]
  <2>3. d.kind = e.kind /\ d.keys = e.keys /\ d.id = e.id /\ d.data = e.data /\ d.late = e.late
    BY <1>2, <2>1 DEF SameEvents
  <2>4. EventOK(e) /\ d \in HubEvent /\ d.seen \subseteq { h \in Fetches : fetch'[h].step # "idle" }
    BY <2>1, <2>2
  <2> HIDE DEF d, e
  <2>5. \/ /\ part = "instances" /\ d.id \in Instances
           /\ \/ d.kind \in {"joined", "left", "removed"} /\ d.keys = {d.id}
              \/ /\ d.kind = "session_updated" /\ d.data \in Instances /\ d.data # d.id
                 /\ d.keys = {d.id, d.data}
        \/ /\ part = "topics" /\ d.keys = {"topic"}
           /\ \/ d.kind \in {"created", "deleted"}
              \/ d.kind \in {"subscribed", "unsubscribed"} /\ d.id \in Instances
              \/ d.kind = "silent" /\ d.late
        \/ /\ part = "schedules" /\ d.keys = {"schedule"}
           /\ \/ d.kind \in {"schedule:created", "schedule:updated", "schedule:fired"}
                 /\ d.data \in Schedules \ {None} /\ (d.kind = "schedule:fired" => d.data.enabled)
              \/ d.kind = "schedule:deleted" /\ d.data = None
        \/ part = "tasks" /\ d.kind \in {"task", "result"} /\ d.id \in Tasks /\ d.keys = {d.id}
    BY <2>3, <2>4 DEF EventOK
  <2> QED BY <2>4, <2>5 DEF EventOK, hub, d
<1>10. PartOK'
  BY <1>1 DEF PartOK, hub, sender
<1> QED BY <1>1, <1>2, <1>6, <1>7, <1>9, <1>10 DEF TInv

(* The steps of fetches.                                                   *)
Begin(f) == FetchInstances(f) \/ FetchTopics(f) \/ ListSubscribers(f) \/ FetchSchedules(f) \/ PageRefreshes(f)
End(f)   == FetchFails(f) \/ SeedInstances(f) \/ SeedTopics(f) \/ SeedSchedules(f)

LEMMA AnswerLemma ==
  ASSUME NEW list \in Lists
  PROVE  Answer(list) \in Fetched /\ FetchOK(Answer(list)) /\ Answer(list).step = "answered"
         /\ Answer(list).list = list /\ Answer(list).crossed = {}
BY DEF Answer, NoFetch, Fetched, FetchOK

(* Fetches begin, and go on, without a change of the events.               *)
LEMMA BeginsType ==
  ASSUME TInv, NEW f \in Fetches, Begin(f)
  PROVE  TInv' /\ coming' = coming
<1>1. TypeOK /\ FetchInv /\ PartOK /\ fetch \in [Fetches -> Fetched] /\ FetchOK(fetch[f])
  BY DEF TInv, FetchInv
<1>2. CASE FetchInstances(f)
  <2>1. /\ fetch' = [fetch EXCEPT ![f] = Answer(instances)] /\ instances \in Lists
        /\ UNCHANGED <<hub, wire, view, plug, request, bounds>> /\ seeded' \in BOOLEAN /\ page' = page
    BY <1>1, <1>2 DEF FetchInstances, Begins, Lists, TypeOK, sender
  <2> QED BY <2>1, AnswerLemma, BeginType
<1>3. CASE FetchTopics(f)
  <2>1. part = "topics" /\ UNCHANGED <<hub, wire, view, plug, request, bounds>> /\ seeded' \in BOOLEAN /\ page' = page
        /\ None \in Lists
    BY <1>1, <1>3 DEF FetchTopics, TypeOK, sender, Lists
  <2>2. CASE members = None
    <3>1. fetch' = [fetch EXCEPT ![f] = Answer(None)]
      BY <1>3, <2>2 DEF FetchTopics, Begins
    <3> QED BY <2>1, <3>1, AnswerLemma, BeginType
  <2>3. CASE members # None
    <3> DEFINE g == [NoFetch EXCEPT !.step = "counted", !.count = Cardinality(members)]
    <3>1. fetch' = [fetch EXCEPT ![f] = g]
      BY <1>3, <2>3 DEF FetchTopics, Begins
    <3>2. Cardinality(members) \in Nat
      BY <1>1, <2>3, DashboardAssumptions, FS_Subset, FS_CardinalityType DEF TypeOK
    <3>3. g \in Fetched /\ FetchOK(g) /\ g.step = "counted"
      BY <2>1, <3>2 DEF NoFetch, Fetched, FetchOK
    <3> HIDE DEF g
    <3> QED BY <2>1, <3>1, <3>3, BeginType
  <2> QED BY <2>2, <2>3
<1>4. CASE ListSubscribers(f)
  <2> DEFINE list == IF members = None THEN {} ELSE members
             g == [fetch[f] EXCEPT !.step = "answered", !.list = list]
  <2>1. /\ fetch' = [fetch EXCEPT ![f] = g] /\ fetch[f].step = "counted"
        /\ UNCHANGED <<hub, wire, view, plug, request, bounds>> /\ seeded' = seeded /\ page' = page
    BY <1>4 DEF ListSubscribers, sender
  <2>2. part = "topics" /\ list \in Lists
    BY <1>1, <2>1 DEF FetchOK, Lists, TypeOK
  <2> HIDE DEF list
  <2>3. g \in Fetched /\ FetchOK(g) /\ g.step = "answered"
    BY <1>1, <2>2 DEF Fetched, FetchOK
  <2> HIDE DEF g
  <2>4. seeded' \in BOOLEAN
    BY <1>1, <2>1 DEF TypeOK
  <2> QED BY <2>1, <2>3, <2>4, BeginType
<1>5. CASE FetchSchedules(f) \/ PageRefreshes(f)
  <2>1. /\ fetch' = [fetch EXCEPT ![f] = Answer(schedule)] /\ part = "schedules"
        /\ UNCHANGED <<hub, wire, view, plug, request, bounds>> /\ seeded' = seeded /\ page' \in {page, "idle"}
    BY <1>1, <1>5 DEF FetchSchedules, PageRefreshes, Begins, sender, PartOK
  <2>2. schedule \in Lists /\ seeded' \in BOOLEAN
    BY <1>1, <2>1 DEF Lists, TypeOK
  <2> QED BY <2>1, <2>2, AnswerLemma, BeginType
<1> QED BY <1>2, <1>3, <1>4, <1>5 DEF Begin

LEMMA EndsType ==
  ASSUME TInv, NEW f \in Fetches, End(f)
  PROVE  TInv' /\ Ends(f)
<1>1. TypeOK /\ FetchOK(fetch[f]) /\ fetch[f] \in Fetched
  BY DEF TInv, FetchInv
<1>2. CASE FetchFails(f)
  <2>1. Ends(f) /\ UNCHANGED <<hub, socket, view, seeded, sender, bounds>>
    BY <1>2 DEF FetchFails
  <2> QED BY <1>1, <2>1, EndType DEF TypeOK, Topic, view, shown
<1>3. CASE SeedInstances(f)
  <2>1. /\ Ends(f) /\ fetch[f].step = "answered" /\ part = "instances" /\ vInstances' = Added(vInstances, fetch[f].list)
        /\ UNCHANGED <<hub, socket, vTopic, vSchedule, pendingTaskIds, activeTasks, stray, seeded, sender, bounds>>
        /\ behind' = { k \in behind : k \in Instances /\ vInstances[k] = "absent" => k \in fetch[f].crossed }
               \cup { i \in fetch[f].crossed : vInstances[i] = "absent" /\ fetch[f].list[i] # "absent" }
    BY <1>3 DEF SeedInstances
  <2>2. fetch[f].list \in [Instances -> Statuses] /\ vInstances \in [Instances -> Statuses]
    BY <1>1, <2>1 DEF FetchOK, Lists, TypeOK
  <2>3. vInstances' \in [Instances -> Statuses]
    BY <2>1, <2>2 DEF Added
  <2>4. behind' \subseteq Keys
    BY <1>1, <2>1 DEF TypeOK, Fetched
  <2> QED BY <1>1, <2>1, <2>3, <2>4, EndType DEF TypeOK, Topic
<1>4. CASE SeedTopics(f)
  <2> DEFINE g == fetch[f]
             t == IF g.list = None THEN None ELSE [count |-> g.count, subscribers |-> g.list]
  <2>1. /\ Ends(f) /\ fetch[f].step = "answered" /\ part = "topics" /\ vTopic' = Listed(vTopic, t)
        /\ UNCHANGED <<hub, socket, vInstances, vSchedule, pendingTaskIds, activeTasks, seeded, sender, bounds>>
        /\ behind' = BehindAfter(g, "topic", vTopic)
        /\ stray' = IF t = None THEN stray ELSE t.count # Cardinality(t.subscribers)
    BY <1>4 DEF SeedTopics
  <2>2. g.list \in (SUBSET Instances) \cup {None} /\ g.count \in Nat
    BY <1>1, <2>1 DEF FetchOK, Lists, Fetched
  <2>3. t \in Topic \cup {None}
    BY <2>2 DEF Topic
  <2>4. behind' \subseteq Keys
    BY <1>1, <2>1 DEF TypeOK, BehindAfter, Keys
  <2> HIDE DEF t
  <2>5. vTopic' \in Topic \cup {None} /\ stray' \in BOOLEAN
    BY <1>1, <2>1, <2>3 DEF TypeOK, Topic, Listed
  <2> QED BY <1>1, <2>1, <2>4, <2>5, EndType DEF TypeOK
<1>5. CASE SeedSchedules(f)
  <2>1. /\ Ends(f) /\ fetch[f].step = "answered" /\ part = "schedules" /\ vSchedule' = Listed(vSchedule, fetch[f].list)
        /\ UNCHANGED <<hub, socket, vInstances, vTopic, pendingTaskIds, activeTasks, stray, seeded, sender, bounds>>
        /\ behind' = BehindAfter(fetch[f], "schedule", vSchedule)
    BY <1>5 DEF SeedSchedules
  <2>2. fetch[f].list \in Schedules
    BY <1>1, <2>1 DEF FetchOK, Lists
  <2>3. behind' \subseteq Keys /\ vSchedule' \in Schedules
    BY <1>1, <2>1, <2>2 DEF TypeOK, BehindAfter, Keys, Listed
  <2> QED BY <1>1, <2>1, <2>3, EndType DEF TypeOK, Topic
<1> QED BY <1>2, <1>3, <1>4, <1>5 DEF End

(* The pages and the plugin socket leave hub, events and view alone.        *)
Quiet ==
  \/ \E i \in Instances : TopicPageAsks(i)
  \/ PageAsks \/ PageFails \/ HandleSend \/ FireNow \/ RequestAnswered \/ RequestTimeout
  \/ PlugOpens \/ PlugCloses

LEMMA QuietType == TInv /\ Quiet => TInv' /\ UNCHANGED <<hub, wire, view, seeds>>
<1> SUFFICES ASSUME TInv, Quiet PROVE TInv' /\ UNCHANGED <<hub, wire, view, seeds>>
  OBVIOUS
<1>1. TypeOK /\ FetchInv /\ PartOK /\ (\A n \in DOMAIN coming : EventOK(coming[n]))
      /\ (socket = "closed" => stream = << >>)
  BY DEF TInv
<1>2. UNCHANGED <<hub, wire, view, seeds>>
  BY DEF Quiet, TopicPageAsks, PageAsks, PageFails, HandleSend, FireNow, RequestAnswered, RequestTimeout,
         PlugOpens, PlugCloses
<1>3. \/ page' = page
      \/ page' = "idle"
      \/ part = "topics" /\ page' \in {"create", "delete", "subscribe", "unsubscribe"}
      \/ part = "schedules" /\ page' \in {"asked", "changed", "firing"}
  <2>1. page \in {"created", "firing"} => part = "schedules"
    BY <1>1 DEF PartOK
  <2>2. CASE \E i \in Instances : TopicPageAsks(i)
    BY <2>2 DEF TopicPageAsks
  <2>3. CASE PageAsks \/ PageFails \/ HandleSend \/ FireNow
    BY <2>1, <2>3 DEF PageAsks, PageFails, HandleSend, FireNow
  <2>4. CASE RequestAnswered \/ RequestTimeout \/ PlugOpens \/ PlugCloses
    BY <2>1, <2>4 DEF RequestAnswered, RequestTimeout, PlugOpens, PlugCloses, Fulfilled, Rejected
  <2> QED BY <2>2, <2>3, <2>4 DEF Quiet
<1>4. /\ request' \in {"none", "sent"} /\ plug' \in {"open", "closed"} /\ ops' = ops
      /\ \/ closes' = closes
         \/ closes < MaxCloses /\ closes' = closes + 1
  BY <1>1 DEF Quiet, TopicPageAsks, PageAsks, PageFails, HandleSend, FireNow, RequestAnswered, RequestTimeout,
         PlugOpens, PlugCloses, PluginRequest, AfterClose, bounds, TypeOK
<1>5. coming' = coming
  BY <1>2 DEF wire, coming
<1>6. closes' \in 0..MaxCloses
  BY <1>1, <1>4, DashboardAssumptions DEF TypeOK
<1>7. TypeOK'
  BY <1>1, <1>2, <1>3, <1>4, <1>6 DEF TypeOK, hub, wire, view, shown, seeds
<1>8. FetchInv'
  BY <1>1, <1>2, CrossedType DEF hub, seeds
<1>9. PartOK'
  BY <1>1, <1>2, <1>3 DEF PartOK, hub, view, shown
<1>10. \A n \in DOMAIN coming' : EventOK(coming[n])'
  BY <1>1, <1>2, <1>5 DEF EventOK, hub, seeds
<1> QED BY <1>1, <1>2, <1>7, <1>8, <1>9, <1>10 DEF TInv, wire

(* Every step is one of these.                                             *)
LEMMA Steps ==
  [Next]_vars => \/ UNCHANGED vars \/ HandleEvent \/ Wire \/ Quiet
                 \/ InstanceOps \/ TopicOps \/ ScheduleOps \/ TaskOps
                 \/ \E f \in Fetches : Begin(f) \/ End(f)
BY DEF Next, Wire, Quiet, InstanceOps, TopicOps, ScheduleOps, TaskOps, Begin, End

LEMMA NextType == TInv /\ [Next]_vars => TInv'
<1> SUFFICES ASSUME TInv, [Next]_vars PROVE TInv'
  OBVIOUS
<1>1. CASE UNCHANGED vars
  <2>1. UNCHANGED <<hub, wire, view, seeds, sender, bounds>> /\ coming' = coming
    BY <1>1 DEF vars, coming, wire
  <2>2. TypeOK' /\ FetchInv' /\ PartOK'
    BY <2>1, CrossedType DEF TInv, TypeOK, PartOK, hub, wire, view, shown, seeds, sender, bounds
  <2>3. \A n \in DOMAIN coming' : EventOK(coming[n])'
    BY <2>1 DEF TInv, EventOK, hub, seeds
  <2> QED BY <2>1, <2>2, <2>3 DEF TInv, wire
<1>2. \A p : (\E kind, keys, id, data : Began(p, Event(kind, keys, id, data))) => TInv'
  BY OperationType DEF Began
<1>3. CASE InstanceOps \/ TopicOps \/ ScheduleOps \/ TaskOps
  BY <1>2, <1>3, InstanceOpsBegin, TopicOpsBegin, ScheduleOpsBegin, TaskOpsBegin DEF TaskOps
<1>4. CASE \E f \in Fetches : Begin(f) \/ End(f)
  BY <1>4, BeginsType, EndsType
<1> QED BY <1>1, <1>3, <1>4, Steps, HandleType, WireType, QuietType

LEMMA TypeInvariant == Spec => []TInv
BY InitType, NextType, PTL DEF Spec

(* The dashboard and what it knows of the hub are typed, and a view of one  *)
(* part of the hub is told of that part only.                              *)
THEOREM TypeSafety == Spec => []TypeOK
BY TypeInvariant, PTL DEF TInv

-----------------------------------------------------------------------------
(* How the places of events are related by an operation, and by the end of  *)
(* a fetch.                                                                *)
LEMMA AddEvents ==
  ASSUME TInv, TInv', NEW p, NEW e, Operation(p, e)
  PROVE  \E N \in Nat :
           /\ N \in DOMAIN coming' /\ N \notin DOMAIN coming /\ coming'[N] = e
           /\ DOMAIN coming' = DOMAIN coming \cup {N}
           /\ \A n \in DOMAIN coming : n \in Nat /\ n < N /\ n >= 1 /\ coming'[n] = coming[n]
           /\ \A k : \A n \in DOMAIN coming : About(k, n)' <=> About(k, n)
           /\ \A k : About(k, N)' <=> k \in e.keys
           /\ \A f : NewsTo(f)' = IF f \in e.seen THEN NewsTo(f) \cup {N} ELSE NewsTo(f)
           /\ \A f : NewsTo(f) \subseteq DOMAIN coming
<1>1. /\ Len(coming) \in Nat /\ DOMAIN coming = 1..Len(coming) /\ DOMAIN coming' = 1..(Len(coming) + 1)
      /\ \A n \in DOMAIN coming : coming'[n] = coming[n]
      /\ coming'[Len(coming) + 1] = e
  BY AddPlaces DEF TInv, Operation
<1>2. PICK N \in Nat : N = Len(coming) + 1
  BY <1>1
<1>5. /\ N \in DOMAIN coming' /\ N \notin DOMAIN coming /\ coming'[N] = e
      /\ DOMAIN coming' = DOMAIN coming \cup {N}
      /\ \A n \in DOMAIN coming : n \in Nat /\ n < N /\ n >= 1 /\ coming'[n] = coming[n]
  BY <1>1, <1>2
<1>3. /\ \A k : \A n \in DOMAIN coming : About(k, n)' <=> About(k, n)
      /\ \A k : About(k, N)' <=> k \in e.keys
  BY <1>5 DEF About
<1>4. ASSUME NEW f
      PROVE  NewsTo(f)' = (IF f \in e.seen THEN NewsTo(f) \cup {N} ELSE NewsTo(f)) /\ NewsTo(f) \subseteq DOMAIN coming
  BY <1>5 DEF NewsTo
<1> QED BY <1>3, <1>4, <1>5

LEMMA EndEvents ==
  ASSUME TInv, TInv', NEW f \in Fetches, Ends(f)
  PROVE  /\ DOMAIN coming' = DOMAIN coming
         /\ \A n \in DOMAIN coming :
              /\ n \in Nat
              /\ coming'[n].kind = coming[n].kind /\ coming'[n].keys = coming[n].keys
              /\ coming'[n].id = coming[n].id     /\ coming'[n].data = coming[n].data
              /\ coming'[n].late = coming[n].late
         /\ \A k, n : n \in DOMAIN coming => (About(k, n)' <=> About(k, n))
         /\ \A g \in Fetches : g # f => NewsTo(g)' = NewsTo(g) /\ fetch'[g] = fetch[g]
         /\ fetch'[f].step = "idle"
         /\ NewsTo(f) \subseteq DOMAIN coming
<1>1. SameEvents /\ \A n \in DOMAIN coming : coming'[n].seen = coming[n].seen \ {f}
  BY ForgetEvents
<1>2. \A n \in DOMAIN coming : n \in Nat
  BY PlacesLemma DEF TInv, Places
<1>3. fetch' = [fetch EXCEPT ![f] = NoFetch] /\ fetch \in [Fetches -> Fetched] /\ NoFetch.step = "idle"
  BY DEF Ends, TInv, FetchInv, NoFetch
<1>4. ASSUME NEW g \in Fetches, g # f PROVE NewsTo(g)' = NewsTo(g) /\ fetch'[g] = fetch[g]
  BY <1>1, <1>3, <1>4 DEF NewsTo, SameEvents
<1>5. NewsTo(f) \subseteq DOMAIN coming
  BY DEF NewsTo
<1> QED BY <1>1, <1>2, <1>3, <1>4, <1>5 DEF SameEvents, About

Numbered == \A n \in DOMAIN coming : n \in Nat

LEMMA Numbers == (TInv => Numbered) /\ (TInv' => Numbered')
<1>1. TInv => Numbered
  BY PlacesLemma DEF TInv, Places, Numbered
<1> QED BY <1>1, PTL

-----------------------------------------------------------------------------
(* Instances.                                                              *)

(* Events move or get lost, and the hub and its snapshots stay.             *)
LEMMA InstanceSeedsMove ==
  ASSUME InstancesInv, NEW s, Moves(s), Crosses(s), UNCHANGED instances,
         \A f \in Fetches : /\ fetch'[f].step = fetch[f].step /\ fetch'[f].list = fetch[f].list
                             /\ fetch[f].crossed \subseteq fetch'[f].crossed
  PROVE  \A f \in Fetches, i \in Instances : InstanceSeedOK(f, i)'
<1> SUFFICES ASSUME NEW f \in Fetches, NEW i \in Instances,
                    fetch'[f].step = "answered", i \notin fetch'[f].crossed
             PROVE  /\ (\A n \in NewsTo(f)' : ~About(i, n)') => fetch'[f].list[i] = instances'[i]
                    /\ \A n \in NewsTo(f)' :
                         About(i, n)' /\ coming'[n].kind = "left" /\ (\A m \in NewsTo(f)' : m # n => ~About(i, m)')
                           => fetch'[f].list[i] = "online"
  BY DEF InstanceSeedOK
<1>1. InstanceSeedOK(f, i) /\ fetch[f].step = "answered" /\ i \notin fetch[f].crossed
  BY DEF InstancesInv
<1>2. /\ \A c \in NewsTo(f) : About(i, c) => \E j \in NewsTo(f)' : s[j] = c /\ About(i, j)'
      /\ \A j \in NewsTo(f)' : s[j] \in NewsTo(f) /\ (About(i, j)' <=> About(i, s[j]))
  BY KeepsNews
<1>3. ASSUME \A n \in NewsTo(f)' : ~About(i, n)' PROVE fetch'[f].list[i] = instances'[i]
  BY <1>1, <1>2, <1>3 DEF InstanceSeedOK
<1>4. ASSUME NEW n \in NewsTo(f)', About(i, n)', coming'[n].kind = "left",
             \A m \in NewsTo(f)' : m # n => ~About(i, m)'
      PROVE  fetch'[f].list[i] = "online"
  <2>1. s[n] \in NewsTo(f) /\ About(i, s[n]) /\ n \in DOMAIN coming'
    BY <1>2, <1>4 DEF NewsTo
  <2>2. coming[s[n]].kind = "left"
    BY <1>4, <2>1 DEF Moves
  <2>3. \A c \in NewsTo(f) : c # s[n] => ~About(i, c)
    BY <1>2, <1>4
  <2> QED BY <1>1, <2>1, <2>2, <2>3 DEF InstanceSeedOK
<1> QED BY <1>3, <1>4

(* The last event about an instance was its last before the step.          *)
LEMMA InstanceOrderMoves ==
  ASSUME TInv, TInv', InstancesInv, NEW s, Moves(s), UNCHANGED instances, NEW i \in Instances,
         NEW j \in DOMAIN coming', Last(i, j)', ~coming'[j].late
  PROVE  /\ Last(i, s[j]) /\ ~coming[s[j]].late /\ s[j] \in DOMAIN coming
         /\ coming[s[j]].kind = coming'[j].kind
         /\ instances'[i] = Target(coming'[j], i)
         /\ coming'[j].kind = "left" =>
              \A m \in DOMAIN coming' : Follows(i, m, j)' => coming'[m].late \/ Target(coming'[m], i) = "online"
<1>1. TypeOK /\ TypeOK' /\ InstanceOK(i)
  BY DEF TInv, InstancesInv
<1>2. Last(i, s[j]) /\ ~coming[s[j]].late /\ s[j] \in DOMAIN coming
  BY <1>1, KeepsLast
<1>3. \A l \in DOMAIN coming' :
        /\ coming'[l].kind = coming[s[l]].kind /\ coming'[l].data = coming[s[l]].data /\ s[l] \in DOMAIN coming
        /\ Target(coming'[l], i) = Target(coming[s[l]], i) /\ (coming[s[l]].late => coming'[l].late)
  BY DEF Moves, Target
<1>4. instances'[i] = Target(coming'[j], i)
  BY <1>1, <1>2, <1>3 DEF InstanceOK
<1>5. ASSUME coming'[j].kind = "left", NEW m \in DOMAIN coming', Follows(i, m, j)', ~coming'[m].late
      PROVE  Target(coming'[m], i) = "online"
  <2>1. Clear(i, m)'
    <3>1. TInv' /\ m \in DOMAIN coming' /\ j \in DOMAIN coming' /\ Follows(i, m, j)' /\ ~coming'[m].late
          /\ Last(i, j)' /\ ~coming'[j].late
      BY <1>5
    <3>2. \A l \in DOMAIN coming' : l \in Nat
      BY Numbers DEF Numbered
    <3> QED BY <3>1, <3>2 DEF Follows, Last, Clear
  <2>2. Follows(i, s[m], s[j])
    BY <1>1, <1>5, <2>1, KeepsNext
  <2> QED BY <1>1, <1>2, <1>3, <1>5, <2>2 DEF InstanceOK
<1> QED BY <1>2, <1>3, <1>4, <1>5

(* Sockets and emissions.                                                  *)
LEMMA InstancesMove ==
  ASSUME TInv, TInv', InstancesInv, NEW s, Moves(s), Crosses(s), Loses(s),
         UNCHANGED <<instances, vInstances>>, behind \subseteq behind',
         \A f \in Fetches : /\ fetch'[f].step = fetch[f].step /\ fetch'[f].list = fetch[f].list
                             /\ fetch[f].crossed \subseteq fetch'[f].crossed
  PROVE  InstancesInv'
<1>1. \A f \in Fetches, i \in Instances : InstanceSeedOK(f, i)'
  BY InstanceSeedsMove
<1>2. ASSUME NEW i \in Instances PROVE InstanceOK(i)'
  <2>1. InstanceOK(i)
    BY DEF InstancesInv
  <2>2. ASSUME NEW j \in DOMAIN coming', Last(i, j)', ~coming'[j].late, coming'[j].kind = "left", First(i, j)'
        PROVE  i \in behind' \/ vInstances'[i] # "absent"
    <3> SUFFICES ASSUME i \notin behind' PROVE vInstances'[i] # "absent"
      OBVIOUS
    <3>1. Last(i, s[j]) /\ ~coming[s[j]].late /\ s[j] \in DOMAIN coming /\ coming[s[j]].kind = "left"
      BY <2>2, InstanceOrderMoves
    <3>2. \A l \in DOMAIN coming' : About(i, l)' => l = j
      <4>1. \A l \in DOMAIN coming' : l \in Nat
        BY Numbers DEF Numbered
      <4> QED BY <2>2, <4>1 DEF Last, First
    <3>3. \A c \in DOMAIN coming : About(i, c) => c = s[j]
      BY <3>2, KeepsAll
    <3>4. First(i, s[j])
      <4>1. \A c \in DOMAIN coming : c \in Nat
        BY PlacesLemma DEF TInv, Places
      <4> QED BY <3>1, <3>3, <4>1 DEF First, Last
    <3> QED BY <2>1, <3>1, <3>4 DEF InstanceOK
  <2>3. ASSUME \A n \in DOMAIN coming' : ~About(i, n)', i \notin behind'
        PROVE  vInstances'[i] = instances'[i]
    <3>1. \A c \in DOMAIN coming : ~About(i, c)
      BY <2>3, KeepsAll
    <3> QED BY <2>1, <2>3, <3>1 DEF InstanceOK
  <2>4. \A j \in DOMAIN coming' : Last(i, j)' /\ ~coming'[j].late =>
          /\ instances'[i] = Target(coming'[j], i)
          /\ coming'[j].kind = "left" =>
               \A m \in DOMAIN coming' : Follows(i, m, j)' => coming'[m].late \/ Target(coming'[m], i) = "online"
    BY InstanceOrderMoves
  <2> QED BY <2>2, <2>3, <2>4 DEF InstanceOK
<1> QED BY <1>1, <1>2 DEF InstancesInv

(* What HandleEvent does to the events, whatever the part.                  *)
LEMMA Handled ==
  ASSUME TInv, TInv', HandleEvent
  PROVE  /\ 1 \in DOMAIN coming /\ coming[1] = Head(stream) /\ EventOK(coming[1])
         /\ \A c \in DOMAIN coming : c \in Nat /\ c >= 1 /\ (c = 1 \/ c - 1 \in DOMAIN coming')
         /\ \A j \in DOMAIN coming' : /\ j \in Nat /\ j >= 1 /\ j + 1 \in DOMAIN coming /\ coming'[j] = coming[j + 1]
         /\ \A k : \A j \in DOMAIN coming' : About(k, j)' <=> About(k, j + 1)
         /\ \E s : Moves(s) /\ Crosses(s) /\ \A j \in DOMAIN coming' : s[j] = j + 1
         /\ \A f \in Fetches : /\ fetch'[f].step = fetch[f].step /\ fetch'[f].list = fetch[f].list
                                /\ fetch'[f].count = fetch[f].count
                                /\ fetch[f].crossed \subseteq fetch'[f].crossed
<1>1. TypeOK /\ TypeOK' /\ fetch \in [Fetches -> Fetched] /\ Places /\ Places'
  BY PlacesLemma, PTL DEF TInv, FetchInv
<1> DEFINE s == [n \in DOMAIN coming' |-> n + 1]
<1>2. /\ 1 \in DOMAIN coming /\ coming[1] = Head(stream)
      /\ DOMAIN coming' = 1..(Len(coming) - 1)
      /\ \A n \in DOMAIN coming' : coming'[n] = coming[n + 1]
      /\ Moves(s) /\ \A c \in DOMAIN coming : Gone(s, c) => c = 1
  BY <1>1, HandlePlaces
<1>3. EventOK(coming[1]) /\ coming[1] \in HubEvent
  BY <1>2 DEF TInv, EventOK
<1>4. DOMAIN coming = 1..Len(coming) /\ Len(coming) \in Nat
  BY <1>1, LenProperties DEF Places
<1>5. \A j \in DOMAIN coming' : s[j] = j + 1 /\ j \in Nat /\ j >= 1 /\ j + 1 \in DOMAIN coming
  BY <1>2, <1>4
<1>6. \A c \in DOMAIN coming : c \in Nat /\ c >= 1 /\ (c = 1 \/ c - 1 \in DOMAIN coming')
  BY <1>2, <1>4
<1> HIDE DEF s
<1>7. fetch' = Crossed({coming[1]})
  BY <1>2 DEF HandleEvent
<1>8. /\ \A f \in Fetches :
           /\ fetch'[f].step = fetch[f].step /\ fetch'[f].list = fetch[f].list /\ fetch'[f].count = fetch[f].count
           /\ fetch[f].crossed \subseteq fetch'[f].crossed
           /\ f \in coming[1].seen => coming[1].keys \subseteq fetch'[f].crossed
  BY <1>1, <1>3, <1>7, CrossedLemma
<1>9. Crosses(s)
  BY <1>2, <1>3, <1>8 DEF Crosses, HubEvent
<1>10. \A k : \A j \in DOMAIN coming' : About(k, j)' <=> About(k, j + 1)
  BY <1>2 DEF About
<1> QED BY <1>2, <1>3, <1>5, <1>6, <1>8, <1>9, <1>10

(* The event that is handled is the first about its instances.             *)
LEMMA InstancesHandle ==
  ASSUME TInv, TInv', part = "instances", InstancesInv, HandleEvent
  PROVE  InstancesInv'
<1> DEFINE e == coming[1]
<1>1. /\ 1 \in DOMAIN coming /\ e = Head(stream) /\ EventOK(e)
      /\ \A c \in DOMAIN coming : c \in Nat /\ c >= 1 /\ (c = 1 \/ c - 1 \in DOMAIN coming')
      /\ \A j \in DOMAIN coming' : j \in Nat /\ j >= 1 /\ j + 1 \in DOMAIN coming /\ coming'[j] = coming[j + 1]
      /\ \A k : \A j \in DOMAIN coming' : About(k, j)' <=> About(k, j + 1)
      /\ \A f \in Fetches : /\ fetch'[f].step = fetch[f].step /\ fetch'[f].list = fetch[f].list
                             /\ fetch[f].crossed \subseteq fetch'[f].crossed
  BY Handled
<1>2. PICK s : Moves(s) /\ Crosses(s) /\ \A j \in DOMAIN coming' : s[j] = j + 1
  BY Handled
<1>3. UNCHANGED instances /\ vInstances \in [Instances -> Statuses] /\ instances \in [Instances -> Statuses]
      /\ vInstances' = InstancesAfter(vInstances, e)
      /\ behind' = IF e.late THEN behind \cup e.keys ELSE (behind \ Settled(e)) \cup Dropped(e)
  BY <1>1 DEF HandleEvent, hub, TInv, TypeOK
<1>4. e.id \in Instances
      /\ \/ e.kind \in {"joined", "left", "removed"} /\ e.keys = {e.id}
         \/ /\ e.kind = "session_updated" /\ e.data \in Instances /\ e.data # e.id
            /\ e.keys = {e.id, e.data}
  BY <1>1 DEF EventOK
<1>5. \A k : About(k, 1) <=> k \in e.keys
  BY DEF About
<1> HIDE DEF e
(* What the event makes of the view.                                       *)
<1>6. ASSUME NEW i \in Instances
      PROVE  /\ i \notin e.keys => vInstances'[i] = vInstances[i] /\ (i \in behind => i \in behind')
             /\ i \in e.keys /\ i \notin behind' =>
                  /\ ~e.late
                  /\ IF e.kind = "left" THEN /\ i \notin behind
                                             /\ vInstances[i] # "absent" => vInstances'[i] = Target(e, i)
                     ELSE vInstances'[i] = Target(e, i)
             /\ i \in e.keys /\ e.kind # "left" /\ Target(e, i) = "online" => vInstances'[i] = "online"
  <2>1. CASE e.kind = "joined"
    BY <1>3, <1>4, <2>1 DEF InstancesAfter, Settled, Dropped, Target
  <2>2. CASE e.kind = "removed"
    BY <1>3, <1>4, <2>2 DEF InstancesAfter, Settled, Dropped, Target
  <2>3. CASE e.kind = "left"
    BY <1>3, <1>4, <2>3 DEF InstancesAfter, Settled, Dropped, Target
  <2>4. CASE e.kind = "session_updated"
    <3>1. vInstances' = [vInstances EXCEPT ![e.id] = "absent", ![e.data] = "online"]
      BY <1>3, <2>4 DEF InstancesAfter
    <3>2. vInstances'[e.data] = "online" /\ vInstances'[e.id] = "absent"
          /\ \A k \in Instances \ {e.id, e.data} : vInstances'[k] = vInstances[k]
      BY <1>3, <1>4, <2>4, <3>1
    <3> QED BY <1>3, <1>4, <2>4, <3>2 DEF Settled, Dropped, Target
  <2> QED BY <1>4, <2>1, <2>2, <2>3, <2>4
<1>7. \A f \in Fetches, i \in Instances : InstanceSeedOK(f, i)'
  BY <1>1, <1>2, <1>3, InstanceSeedsMove
<1>8. ASSUME NEW i \in Instances PROVE InstanceOK(i)'
  <2>1. InstanceOK(i)
    BY DEF InstancesInv
  <2>2. ASSUME NEW j \in DOMAIN coming', Last(i, j)', ~coming'[j].late, coming'[j].kind = "left", First(i, j)',
               i \notin behind'
        PROVE  vInstances'[i] # "absent"
    <3>1. Last(i, j + 1) /\ ~coming[j + 1].late /\ j + 1 \in DOMAIN coming /\ coming[j + 1].kind = "left"
      BY <1>2, <1>3, <2>2, InstanceOrderMoves
    <3>2. ASSUME NEW c \in DOMAIN coming, c > 1, c < j + 1 PROVE ~About(i, c)
      <4>1. c - 1 \in DOMAIN coming' /\ c - 1 < j /\ (c - 1) + 1 = c
        BY <1>1, <3>2
      <4> QED BY <1>1, <2>2, <4>1 DEF First
    <3>3. CASE i \in e.keys
      <4>1. ~e.late
        BY <1>6, <2>2, <3>3
      <4>2. Follows(i, 1, j + 1)
        BY <1>1, <1>5, <3>1, <3>2, <3>3 DEF Follows, Last
      <4>3. Target(e, i) = "online"
        BY <1>1, <2>1, <3>1, <4>1, <4>2 DEF InstanceOK, e
      <4>4. e.kind # "left"
        BY <4>3 DEF Target
      <4> QED BY <1>6, <3>3, <4>3, <4>4
    <3>4. CASE i \notin e.keys
      <4>1. First(i, j + 1)
        <5>1. \A c \in DOMAIN coming : c < j + 1 => ~About(i, c)
          BY <1>1, <1>5, <3>2, <3>4
        <5> QED BY <3>1, <5>1 DEF First, Last
      <4>2. i \notin behind /\ vInstances'[i] = vInstances[i]
        BY <1>6, <2>2, <3>4
      <4> QED BY <2>1, <3>1, <4>1, <4>2 DEF InstanceOK
    <3> QED BY <3>3, <3>4
  <2>3. ASSUME \A n \in DOMAIN coming' : ~About(i, n)', i \notin behind'
        PROVE  vInstances'[i] = instances'[i]
    <3>1. \A c \in DOMAIN coming : c # 1 => ~About(i, c)
      BY <1>1, <2>3
    <3>2. CASE i \notin e.keys
      <4>1. \A c \in DOMAIN coming : ~About(i, c)
        BY <1>5, <3>1, <3>2
      <4>2. i \notin behind /\ vInstances'[i] = vInstances[i]
        BY <1>6, <2>3, <3>2
      <4> QED BY <1>3, <2>1, <4>1, <4>2 DEF InstanceOK
    <3>3. CASE i \in e.keys
      <4>1. Last(i, 1) /\ First(i, 1) /\ ~e.late
        BY <1>1, <1>5, <1>6, <2>3, <3>1, <3>3 DEF Last, First
      <4>2. instances[i] = Target(e, i) /\ (e.kind = "left" => i \in behind \/ vInstances[i] # "absent")
        BY <1>1, <2>1, <4>1 DEF InstanceOK, e
      <4> QED BY <1>3, <1>6, <2>3, <3>3, <4>2
    <3> QED BY <3>2, <3>3
  <2>4. \A j \in DOMAIN coming' : Last(i, j)' /\ ~coming'[j].late =>
          /\ instances'[i] = Target(coming'[j], i)
          /\ coming'[j].kind = "left" =>
               \A m \in DOMAIN coming' : Follows(i, m, j)' => coming'[m].late \/ Target(coming'[m], i) = "online"
    BY <1>2, <1>3, InstanceOrderMoves
  <2> QED BY <2>2, <2>3, <2>4 DEF InstanceOK
<1> QED BY <1>7, <1>8 DEF InstancesInv

(* The event of an operation is the last about its instances.              *)
LEMMA InstancesOperate ==
  ASSUME TInv, TInv', InstancesInv, NEW e, Operation("instances", e), TellsInstances(e), EventOK(e),
         \A f \in Fetches : f \in e.seen <=> fetch[f].step = "answered"
  PROVE  InstancesInv'
<1>1. PICK N \in Nat :
           /\ N \in DOMAIN coming' /\ N \notin DOMAIN coming /\ coming'[N] = e
           /\ DOMAIN coming' = DOMAIN coming \cup {N}
           /\ \A n \in DOMAIN coming : n \in Nat /\ n < N /\ n >= 1 /\ coming'[n] = coming[n]
           /\ \A k : \A n \in DOMAIN coming : About(k, n)' <=> About(k, n)
           /\ \A k : About(k, N)' <=> k \in e.keys
           /\ \A f : NewsTo(f)' = IF f \in e.seen THEN NewsTo(f) \cup {N} ELSE NewsTo(f)
           /\ \A f : NewsTo(f) \subseteq DOMAIN coming
  BY AddEvents
<1>2. part = "instances" /\ UNCHANGED <<vInstances, behind, fetch>>
  BY DEF Operation, view, shown, seeds
<1>3. ASSUME NEW i \in Instances
      PROVE  InstanceOK(i)' /\ \A f \in Fetches : InstanceSeedOK(f, i)'
  <2>1. InstanceOK(i) /\ \A f \in Fetches : InstanceSeedOK(f, i)
    BY <1>3 DEF InstancesInv
  <2>2. CASE i \in e.keys
    <3>1. ~e.late /\ instances'[i] = Target(e, i) /\ (e.kind = "left" => instances[i] = "online")
      BY <2>2 DEF TellsInstances
    <3>2. \A n \in DOMAIN coming' : Last(i, n)' => n = N
      BY <1>1, <2>2 DEF Last
    <3>3. ASSUME NEW m \in DOMAIN coming', Follows(i, m, N)', e.kind = "left"
          PROVE  coming'[m].late \/ Target(coming'[m], i) = "online"
      <4>1. m \in DOMAIN coming /\ Last(i, m) /\ coming'[m] = coming[m]
        BY <1>1, <3>3 DEF Follows, Last
      <4> QED BY <2>1, <3>1, <3>3, <4>1 DEF InstanceOK
    <3>4. ASSUME First(i, N)', e.kind = "left" PROVE i \in behind' \/ vInstances'[i] # "absent"
      <4>1. \A n \in DOMAIN coming : ~About(i, n)
        BY <1>1, <3>4 DEF First
      <4> QED BY <1>2, <2>1, <3>1, <3>4, <4>1 DEF InstanceOK
    <3>5. InstanceOK(i)'
      BY <1>1, <2>2, <3>1, <3>2, <3>3, <3>4 DEF InstanceOK
    <3>6. ASSUME NEW f \in Fetches PROVE InstanceSeedOK(f, i)'
      <4> SUFFICES ASSUME fetch[f].step = "answered", i \notin fetch[f].crossed
                   PROVE  /\ ~(\A n \in NewsTo(f)' : ~About(i, n)')
                          /\ \A n \in NewsTo(f)' :
                               About(i, n)' /\ coming'[n].kind = "left" /\ (\A m \in NewsTo(f)' : m # n => ~About(i, m)')
                                 => fetch[f].list[i] = "online"
        BY <1>2 DEF InstanceSeedOK
      <4>1. N \in NewsTo(f)' /\ About(i, N)' /\ NewsTo(f) \subseteq NewsTo(f)'
        BY <1>1, <2>2
      <4>2. ASSUME NEW n \in NewsTo(f)', coming'[n].kind = "left", \A m \in NewsTo(f)' : m # n => ~About(i, m)'
            PROVE  fetch[f].list[i] = "online"
        <5>1. n = N
          BY <4>1, <4>2
        <5>2. \A m \in NewsTo(f) : ~About(i, m)
          BY <1>1, <4>1, <4>2, <5>1
        <5> QED BY <1>1, <2>1, <3>1, <4>2, <5>1, <5>2 DEF InstanceSeedOK
      <4> QED BY <4>1, <4>2
    <3> QED BY <3>5, <3>6
  <2>3. CASE i \notin e.keys
    <3>1. instances'[i] = instances[i]
      BY <2>3 DEF TellsInstances
    <3>2. ~About(i, N)'
      BY <1>1, <2>3
    <3>3. \A n \in DOMAIN coming' : Last(i, n)' => n \in DOMAIN coming /\ Last(i, n)
      BY <1>1, <3>2 DEF Last
    <3>4. \A n \in DOMAIN coming : /\ First(i, n)' => First(i, n)
                                   /\ \A m \in DOMAIN coming' : Follows(i, m, n)' => m \in DOMAIN coming /\ Follows(i, m, n)
      BY <1>1, <3>2 DEF First, Follows
    <3>5. (\A n \in DOMAIN coming' : ~About(i, n)') => \A n \in DOMAIN coming : ~About(i, n)
      BY <1>1
    <3>6. InstanceOK(i)'
      BY <1>1, <1>2, <2>1, <3>1, <3>3, <3>4, <3>5 DEF InstanceOK, Target
    <3>7. \A f \in Fetches : InstanceSeedOK(f, i)'
      BY <1>1, <1>2, <2>1, <3>1, <3>2 DEF InstanceSeedOK
    <3> QED BY <3>6, <3>7
  <2> QED BY <2>2, <2>3
<1> QED BY <1>3 DEF InstancesInv

(* A snapshot is what the hub has.                                         *)
LEMMA InstancesFetch ==
  ASSUME TInv, TInv', part = "instances", InstancesInv, NEW f \in Fetches, Begin(f)
  PROVE  InstancesInv'
<1>1. FetchInstances(f)
  BY DEF Begin, FetchTopics, ListSubscribers, FetchSchedules, PageRefreshes, TInv, FetchInv, FetchOK, PartOK
<1>2. coming' = coming /\ UNCHANGED <<instances, vInstances, behind>> /\ fetch' = [fetch EXCEPT ![f] = Answer(instances)]
      /\ fetch[f].step = "idle" /\ fetch \in [Fetches -> Fetched] /\ instances \in Lists
  BY <1>1 DEF FetchInstances, coming, wire, hub, view, shown, Begins, TInv, FetchInv, TypeOK, Lists
<1>3. NewsTo(f) = {}
  BY <1>2 DEF NewsTo, TInv, EventOK
<1>4. ASSUME NEW i \in Instances PROVE InstanceOK(i)'
  BY <1>2 DEF InstancesInv, InstanceOK, Last, First, Follows, About, Target
<1>5. ASSUME NEW i \in Instances, NEW g \in Fetches PROVE InstanceSeedOK(g, i)'
  <2>1. InstanceSeedOK(g, i)
    BY DEF InstancesInv
  <2>2. NewsTo(g)' = NewsTo(g)
    BY <1>2 DEF NewsTo
  <2>3. CASE g = f
    <3>1. fetch'[f].list = instances
      BY <1>2, AnswerLemma
    <3> QED BY <1>2, <1>3, <2>2, <2>3, <3>1 DEF InstanceSeedOK
  <2>4. CASE g # f
    <3>1. fetch'[g] = fetch[g]
      BY <1>2, <2>4
    <3> QED BY <1>2, <2>1, <2>2, <3>1 DEF InstanceSeedOK, About
  <2> QED BY <2>3, <2>4
<1> QED BY <1>4, <1>5 DEF InstancesInv

(* A snapshot is taken where the view has nothing.                         *)
LEMMA InstancesEnd ==
  ASSUME TInv, TInv', part = "instances", InstancesInv, NEW f \in Fetches, End(f)
  PROVE  InstancesInv'
<1>1. Ends(f) /\ UNCHANGED instances
  BY EndsType DEF End, FetchFails, SeedInstances, SeedTopics, SeedSchedules, hub
<1>2. /\ DOMAIN coming' = DOMAIN coming
      /\ \A n \in DOMAIN coming :
           /\ n \in Nat
           /\ coming'[n].kind = coming[n].kind /\ coming'[n].data = coming[n].data
           /\ coming'[n].late = coming[n].late
      /\ \A k, n : n \in DOMAIN coming => (About(k, n)' <=> About(k, n))
      /\ \A g \in Fetches : g # f => NewsTo(g)' = NewsTo(g) /\ fetch'[g] = fetch[g]
      /\ fetch'[f].step = "idle"
      /\ NewsTo(f) \subseteq DOMAIN coming
  BY <1>1, EndEvents
<1>3. ASSUME NEW i \in Instances, NEW g \in Fetches PROVE InstanceSeedOK(g, i)'
  <2>1. InstanceSeedOK(g, i)
    BY DEF InstancesInv
  <2>2. CASE g = f
    BY <1>2, <2>2 DEF InstanceSeedOK
  <2>3. CASE g # f
    <3>1. NewsTo(g)' = NewsTo(g) /\ fetch'[g] = fetch[g] /\ NewsTo(g) \subseteq DOMAIN coming
      BY <1>2, <2>3 DEF NewsTo
    <3> QED BY <1>1, <1>2, <2>1, <3>1 DEF InstanceSeedOK
  <2> QED BY <2>2, <2>3
(* The view takes what it lacks; and what it took is what the hub has, but   *)
(* for news that are still to come.                                        *)
<1>4. ASSUME NEW i \in Instances, i \notin behind'
      PROVE  \/ i \notin behind /\ vInstances'[i] = vInstances[i]
             \/ vInstances'[i] = fetch[f].list[i] /\ InstanceSeedOK(f, i) /\ fetch[f].step = "answered"
                /\ i \notin fetch[f].crossed
  <2>1. CASE FetchFails(f)
    BY <1>4, <2>1 DEF FetchFails, view, shown
  <2>2. CASE SeedInstances(f)
    <3>1. vInstances' = Added(vInstances, fetch[f].list) /\ fetch[f].step = "answered"
          /\ behind' = { k \in behind : k \in Instances /\ vInstances[k] = "absent" => k \in fetch[f].crossed }
               \cup { k \in fetch[f].crossed : vInstances[k] = "absent" /\ fetch[f].list[k] # "absent" }
      BY <2>2 DEF SeedInstances
    <3>2. vInstances'[i] = IF vInstances[i] = "absent" THEN fetch[f].list[i] ELSE vInstances[i]
      BY <3>1 DEF Added
    <3> QED BY <1>4, <3>1, <3>2 DEF InstancesInv
  <2> QED BY <2>1, <2>2 DEF End, SeedTopics, SeedSchedules
<1>5. ASSUME NEW i \in Instances PROVE InstanceOK(i)'
  <2>1. InstanceOK(i)
    BY DEF InstancesInv
  <2>2. ASSUME NEW n \in DOMAIN coming, Last(i, n), ~coming[n].late
        PROVE  /\ instances'[i] = Target(coming'[n], i)
               /\ coming'[n].kind = "left" =>
                    \A m \in DOMAIN coming : Follows(i, m, n) => coming'[m].late \/ Target(coming'[m], i) = "online"
    BY <1>1, <1>2, <2>1, <2>2 DEF InstanceOK, Target
  <2>3. ASSUME NEW n \in DOMAIN coming, Last(i, n), ~coming[n].late, coming[n].kind = "left", First(i, n), i \notin behind'
        PROVE  vInstances'[i] # "absent"
    <3>1. instances[i] = "offline" /\ (i \in behind \/ vInstances[i] # "absent")
      BY <2>1, <2>3 DEF InstanceOK, Target
    <3>2. \A m \in DOMAIN coming : m # n => ~About(i, m)
      BY <1>2, <2>3 DEF Last, First
    <3>3. InstanceSeedOK(f, i) /\ fetch[f].step = "answered" /\ i \notin fetch[f].crossed =>
            fetch[f].list[i] # "absent"
      <4>1. CASE n \in NewsTo(f)
        BY <1>2, <2>3, <3>2, <4>1 DEF InstanceSeedOK, Last
      <4>2. CASE n \notin NewsTo(f)
        BY <1>2, <3>1, <3>2, <4>2 DEF InstanceSeedOK
      <4> QED BY <4>1, <4>2
    <3> QED BY <1>4, <2>3, <3>1, <3>3
  <2>4. ASSUME \A n \in DOMAIN coming : ~About(i, n), i \notin behind'
        PROVE  vInstances'[i] = instances'[i]
    BY <1>1, <1>2, <1>4, <2>1, <2>4 DEF InstanceOK, InstanceSeedOK
  <2>5. /\ \A n \in DOMAIN coming : (Last(i, n)' <=> Last(i, n)) /\ (First(i, n)' <=> First(i, n))
        /\ \A m, n \in DOMAIN coming : Follows(i, m, n)' <=> Follows(i, m, n)
    BY <1>2 DEF Last, First, Follows
  <2> QED BY <1>2, <2>2, <2>3, <2>4, <2>5 DEF InstanceOK
<1> QED BY <1>3, <1>5 DEF InstancesInv

-----------------------------------------------------------------------------
(* Schedules.  In a behaviour about one thing, every event is about it.     *)

LEMMA OneThing ==
  ASSUME TInv, NEW k, (part = "topics" /\ k = "topic") \/ (part = "schedules" /\ k = "schedule")
  PROVE  \A n \in DOMAIN coming : n \in Nat /\ n >= 1 /\ About(k, n) /\ coming[n].keys = {k}
<1>1. \A n \in DOMAIN coming : n \in Nat /\ n >= 1
  BY PlacesLemma, LenProperties DEF TInv, Places
<1>2. \A n \in DOMAIN coming : coming[n].keys = {k}
  BY DEF TInv, EventOK
<1> QED BY <1>1, <1>2 DEF About

(* The same of the state after a step.                                     *)
OneTopic    == part = "topics" => \A n \in DOMAIN coming : n \in Nat /\ n >= 1 /\ About("topic", n)
OneSchedule == part = "schedules" => \A n \in DOMAIN coming : n \in Nat /\ n >= 1 /\ About("schedule", n)

LEMMA OneThings == (TInv => OneTopic /\ OneSchedule) /\ (TInv' => OneTopic' /\ OneSchedule')
<1>1. TInv => OneTopic /\ OneSchedule
  BY OneThing DEF OneTopic, OneSchedule
<1> QED BY <1>1, PTL

LacksNext(s, News) ==
  /\ (\A n \in News : ~Sets(coming'[n])) => Alike(s, schedule')
  /\ News = {} => s = schedule'

(* The order stays where events move.                                      *)
LEMMA ScheduleOrderMoves ==
  ASSUME TInv, TInv', part = "schedules", ScheduleOrder, UNCHANGED <<part, schedule>>, NEW s, Moves(s)
  PROVE  ScheduleOrder'
<1> SUFFICES ASSUME NEW j \in DOMAIN coming', Clear("schedule", j)'
             PROVE  /\ Last("schedule", j)' => schedule' = coming'[j].data
                    /\ Sets(coming'[j]) /\ NoSet(j)' => Alike(schedule', coming'[j].data)
  BY DEF ScheduleOrder
<1>1. TypeOK /\ TypeOK' /\ \A l \in DOMAIN coming' : l \in Nat /\ About("schedule", l)'
  BY OneThings DEF TInv, OneSchedule
<1>2. Clear("schedule", s[j]) /\ s[j] \in DOMAIN coming
  BY <1>1, KeepsClear
<1>3. coming'[j].data = coming[s[j]].data /\ coming'[j].kind = coming[s[j]].kind
  BY DEF Moves
<1>4. ASSUME Last("schedule", j)' PROVE schedule' = coming'[j].data
  <2>1. ~coming'[j].late
    BY <1>1 DEF Clear
  <2>2. Last("schedule", s[j])
    BY <1>1, <1>4, <2>1, KeepsLast
  <2> QED BY <1>2, <1>3, <2>2 DEF ScheduleOrder
<1>5. ASSUME Sets(coming'[j]), NoSet(j)' PROVE Alike(schedule', coming'[j].data)
  <2>1. NoSet(s[j])
    <3> SUFFICES ASSUME NEW c \in DOMAIN coming, c > s[j] PROVE ~Sets(coming[c])
      BY DEF NoSet
    <3>1. About("schedule", c)
      BY OneThing
    <3>2. PICK l \in DOMAIN coming' : l > j /\ s[l] = c
      BY <1>1, <3>1 DEF Moves
    <3> QED BY <1>5, <3>2 DEF NoSet, Moves, Sets
  <2>2. Sets(coming[s[j]])
    BY <1>3, <1>5 DEF Sets
  <2> QED BY <1>2, <1>3, <2>1, <2>2 DEF ScheduleOrder, Alike
<1> QED BY <1>4, <1>5

(* What lacks no more than events lacks no more than the same events moved. *)
LEMMA LacksMove ==
  ASSUME NEW x, NEW M, NEW M1, NEW s, Moves(s), M1 \subseteq DOMAIN coming', \A c \in M : \E j \in M1 : s[j] = c,
         Lacks(x, M), UNCHANGED schedule
  PROVE  LacksNext(x, M1)
<1>1. \A j \in M1 : coming'[j].kind = coming[s[j]].kind
  BY DEF Moves
<1> QED BY <1>1 DEF Lacks, LacksNext, Sets

(* A snapshot that nothing crosses lacks no more than it did.              *)
LEMMA ScheduleSeedsMove ==
  ASSUME TInv, TInv', part = "schedules", ScheduleInv, NEW s, Moves(s), Crosses(s), UNCHANGED schedule,
         \A f \in Fetches : /\ fetch'[f].step = fetch[f].step /\ fetch'[f].list = fetch[f].list
                             /\ fetch[f].crossed \subseteq fetch'[f].crossed
  PROVE  \A f \in Fetches : ScheduleSeedOK(f)'
<1> SUFFICES ASSUME NEW f \in Fetches, fetch'[f].step = "answered", "schedule" \notin fetch'[f].crossed
             PROVE  LacksNext(fetch[f].list, NewsTo(f)')
  BY DEF ScheduleSeedOK, Lacks, LacksNext
<1>1. Lacks(fetch[f].list, NewsTo(f))
  BY DEF ScheduleInv, ScheduleSeedOK
<1>2. \A c \in NewsTo(f) : About("schedule", c) => \E j \in NewsTo(f)' : s[j] = c /\ About("schedule", j)'
  BY KeepsNews
<1>3. \A c \in NewsTo(f) : About("schedule", c)
  BY OneThing DEF NewsTo
<1>4. NewsTo(f)' \subseteq DOMAIN coming'
  BY DEF NewsTo
<1> QED BY <1>1, <1>2, <1>3, <1>4, LacksMove

(* Sockets and emissions.                                                  *)
LEMMA SchedulesMove ==
  ASSUME TInv, TInv', part = "schedules", ScheduleInv, NEW s, Moves(s), Crosses(s), Loses(s),
         UNCHANGED <<part, schedule, vSchedule>>, behind \subseteq behind',
         \A f \in Fetches : /\ fetch'[f].step = fetch[f].step /\ fetch'[f].list = fetch[f].list
                             /\ fetch[f].crossed \subseteq fetch'[f].crossed
  PROVE  ScheduleInv'
<1>1. ScheduleOrder'
  BY ScheduleOrderMoves DEF ScheduleInv
<1>2. \A f \in Fetches : ScheduleSeedOK(f)'
  BY ScheduleSeedsMove
<1>3. ASSUME "schedule" \notin behind', Clear("schedule", 1)' PROVE LacksNext(vSchedule, DOMAIN coming')
  <2>1. \A c \in DOMAIN coming : \E j \in DOMAIN coming' : s[j] = c
    BY <1>3, KeepsAll, OneThing
  <2>2. \A j \in DOMAIN coming' : ~coming'[j].late
    BY <1>3, OneThings DEF OneSchedule, Clear
  <2>3. Clear("schedule", 1)
    BY <2>1, <2>2 DEF Clear, Moves
  <2>4. Lacks(vSchedule, DOMAIN coming)
    BY <1>3, <2>3 DEF ScheduleInv, ScheduleOK
  <2> QED BY <2>1, <2>4, LacksMove
<1>4. ScheduleOK'
  BY <1>3 DEF ScheduleOK, Lacks, LacksNext
<1> QED BY <1>1, <1>2, <1>4 DEF ScheduleInv

(* The view lacks the events behind the one that is handled.               *)
LEMMA SchedulesHandle ==
  ASSUME TInv, TInv', part = "schedules", ScheduleInv, HandleEvent
  PROVE  ScheduleInv'
<1> DEFINE e == coming[1]
<1>1. /\ 1 \in DOMAIN coming /\ e = Head(stream) /\ EventOK(e)
      /\ \A c \in DOMAIN coming : c \in Nat /\ c >= 1 /\ (c = 1 \/ c - 1 \in DOMAIN coming')
      /\ \A j \in DOMAIN coming' : j \in Nat /\ j >= 1 /\ j + 1 \in DOMAIN coming /\ coming'[j] = coming[j + 1]
      /\ \A f \in Fetches : /\ fetch'[f].step = fetch[f].step /\ fetch'[f].list = fetch[f].list
                             /\ fetch[f].crossed \subseteq fetch'[f].crossed
  BY Handled
<1>2. PICK s : Moves(s) /\ Crosses(s) /\ \A j \in DOMAIN coming' : s[j] = j + 1
  BY Handled
<1>3. /\ UNCHANGED <<part, schedule>> /\ schedule \in Schedules /\ vSchedule \in Schedules
      /\ vSchedule' = ScheduleAfter(vSchedule, e)
      /\ behind' = IF e.late THEN behind \cup e.keys ELSE (behind \ Settled(e)) \cup Dropped(e)
  BY <1>1 DEF HandleEvent, hub, TInv, TypeOK
<1>4. /\ e.keys = {"schedule"}
      /\ \/ e.kind \in {"schedule:created", "schedule:updated", "schedule:fired"} /\ e.data \in Schedules \ {None}
            /\ (e.kind = "schedule:fired" => e.data.enabled)
         \/ e.kind = "schedule:deleted" /\ e.data = None
  BY <1>1 DEF EventOK
<1> HIDE DEF e
<1>5. ScheduleOrder'
  BY <1>2, <1>3, ScheduleOrderMoves DEF ScheduleInv
<1>6. \A f \in Fetches : ScheduleSeedOK(f)'
  BY <1>1, <1>2, <1>3, ScheduleSeedsMove
<1>7. ASSUME "schedule" \notin behind', Clear("schedule", 1)' PROVE LacksNext(vSchedule', DOMAIN coming')
  <2>1. ~e.late
    BY <1>3, <1>4, <1>7
  <2>2. Clear("schedule", 1)
    <3> SUFFICES ASSUME NEW c \in DOMAIN coming PROVE ~coming[c].late
      BY DEF Clear
    <3>1. CASE c = 1
      BY <2>1, <3>1 DEF e
    <3>2. CASE c # 1
      <4>1. c - 1 \in DOMAIN coming' /\ coming'[c - 1] = coming[c] /\ c - 1 >= 1
        BY <1>1, <3>2
      <4>2. About("schedule", c - 1)'
        BY <1>3, <4>1, OneThings DEF OneSchedule
      <4> QED BY <1>7, <4>1, <4>2 DEF Clear
    <3> QED BY <3>1, <3>2
  <2>3. (\A j \in DOMAIN coming' : ~Sets(coming'[j])) => NoSet(1)
    <3> SUFFICES ASSUME \A j \in DOMAIN coming' : ~Sets(coming'[j]), NEW c \in DOMAIN coming, c > 1
                 PROVE  ~Sets(coming[c])
      BY DEF NoSet
    <3>1. c - 1 \in DOMAIN coming' /\ coming'[c - 1] = coming[c]
      BY <1>1
    <3> QED BY <3>1
  <2>4. DOMAIN coming' = {} => Last("schedule", 1)
    BY <1>1, OneThing DEF Last
  <2>5. /\ Last("schedule", 1) => schedule = e.data
        /\ Sets(e) /\ NoSet(1) => Alike(schedule, e.data)
    BY <1>1, <2>2 DEF ScheduleInv, ScheduleOrder, e
  <2>6. CASE Sets(e)
    <3>1. vSchedule' = e.data
      BY <1>3, <1>4, <2>6 DEF Sets, ScheduleAfter
    <3> QED BY <1>3, <2>3, <2>4, <2>5, <2>6, <3>1 DEF LacksNext, Alike
  <2>7. CASE ~Sets(e)
    <3>1. "schedule" \notin behind /\ e.kind = "schedule:fired"
      BY <1>3, <1>4, <1>7, <2>1, <2>7 DEF Settled, Sets
    <3>2. Lacks(vSchedule, DOMAIN coming)
      BY <2>2, <3>1 DEF ScheduleInv, ScheduleOK
    <3>3. (\A j \in DOMAIN coming' : ~Sets(coming'[j])) => \A c \in DOMAIN coming : ~Sets(coming[c])
      BY <1>1, <2>3, <2>7 DEF NoSet, e
    <3>4. (\A j \in DOMAIN coming' : ~Sets(coming'[j])) => Alike(vSchedule, schedule)
      BY <3>2, <3>3 DEF Lacks
    <3>5. CASE vSchedule = None
      <4>1. vSchedule' = vSchedule
        BY <1>3, <3>1, <3>5 DEF ScheduleAfter
      <4>2. DOMAIN coming' = {} => schedule # None /\ Alike(vSchedule, schedule)
        BY <1>4, <2>4, <2>5, <3>1, <3>4
      <4> QED BY <1>3, <3>4, <3>5, <4>1, <4>2 DEF LacksNext, Alike
    <3>6. CASE vSchedule # None
      <4>1. vSchedule \in [enabled : BOOLEAN, fires : Nat] /\ e.data \in [enabled : BOOLEAN, fires : Nat]
            /\ e.data # None
        BY <1>3, <1>4, <3>1, <3>6 DEF Schedules
      <4>2. vSchedule' = [vSchedule EXCEPT !.fires = e.data.fires]
        BY <1>3, <3>1, <3>6 DEF ScheduleAfter
      <4>3. vSchedule' \in [enabled : BOOLEAN, fires : Nat] /\ vSchedule'.enabled = vSchedule.enabled
            /\ vSchedule'.fires = e.data.fires
        BY <4>1, <4>2
      <4>4. vSchedule' # None
        BY <4>3, DashboardAssumptions
      <4>5. DOMAIN coming' = {} => vSchedule' = schedule
        <5>1. ASSUME DOMAIN coming' = {} PROVE vSchedule' = schedule
          <6>1. schedule = e.data /\ Alike(vSchedule, schedule)
            BY <2>4, <2>5, <3>4, <5>1
          <6>2. vSchedule'.enabled = e.data.enabled
            BY <3>6, <4>3, <6>1 DEF Alike
          <6> QED BY <4>1, <4>3, <6>1, <6>2
        <5> QED BY <5>1
      <4> QED BY <1>3, <3>4, <3>6, <4>3, <4>4, <4>5 DEF LacksNext, Alike
    <3> QED BY <3>5, <3>6
  <2> QED BY <2>6, <2>7
<1>8. ScheduleOK'
  BY <1>7 DEF ScheduleOK, Lacks, LacksNext
<1> QED BY <1>5, <1>6, <1>8 DEF ScheduleInv

(* The event of the operation is the last, and tells the schedule.         *)
LEMMA SchedulesOperate ==
  ASSUME TInv, TInv', ScheduleInv, NEW e, Operation("schedules", e), TellsSchedule(e), EventOK(e),
         \A f \in Fetches : f \in e.seen <=> fetch[f].step = "answered"
  PROVE  ScheduleInv'
<1>1. PICK N \in Nat :
           /\ N \in DOMAIN coming' /\ N \notin DOMAIN coming /\ coming'[N] = e
           /\ DOMAIN coming' = DOMAIN coming \cup {N}
           /\ \A n \in DOMAIN coming : n \in Nat /\ n < N /\ n >= 1 /\ coming'[n] = coming[n]
           /\ \A k : \A n \in DOMAIN coming : About(k, n)' <=> About(k, n)
           /\ \A k : About(k, N)' <=> k \in e.keys
           /\ \A f : NewsTo(f)' = IF f \in e.seen THEN NewsTo(f) \cup {N} ELSE NewsTo(f)
           /\ \A f : NewsTo(f) \subseteq DOMAIN coming
  BY AddEvents
<1>2. part = "schedules" /\ UNCHANGED <<part, vSchedule, behind, fetch>> /\ e.keys = {"schedule"}
  BY DEF Operation, view, shown, seeds, EventOK
<1>3. ~e.late /\ schedule' = e.data /\ (~Sets(e) => Alike(schedule, schedule'))
  BY DEF TellsSchedule
<1>4. /\ \A n \in DOMAIN coming : Clear("schedule", n)' => Clear("schedule", n)
      /\ \A n \in DOMAIN coming : NoSet(n)' => NoSet(n) /\ ~Sets(e)
      /\ \A n \in DOMAIN coming : ~Last("schedule", n)'
      /\ Clear("schedule", 1)' => Clear("schedule", 1)
  BY <1>1, <1>2 DEF Clear, NoSet, Last
<1>5. ScheduleOrder'
  <2> SUFFICES ASSUME NEW n \in DOMAIN coming', Clear("schedule", n)'
               PROVE  /\ Last("schedule", n)' => schedule' = coming'[n].data
                      /\ Sets(coming'[n]) /\ NoSet(n)' => Alike(schedule', coming'[n].data)
    BY DEF ScheduleOrder
  <2>1. CASE n = N
    BY <1>1, <1>3, <2>1 DEF Alike
  <2>2. CASE n # N
    <3>1. n \in DOMAIN coming /\ coming'[n] = coming[n]
      BY <1>1, <2>2
    <3>2. Sets(coming[n]) /\ NoSet(n)' => Alike(schedule, coming[n].data) /\ Alike(schedule, schedule')
      BY <1>2, <1>3, <1>4, <3>1 DEF ScheduleInv, ScheduleOrder
    <3> QED BY <1>4, <3>1, <3>2 DEF Alike
  <2> QED BY <2>1, <2>2
<1>6. ASSUME NEW x, NEW M \in SUBSET DOMAIN coming, Lacks(x, M) PROVE LacksNext(x, M \cup {N})
  <2>1. ASSUME \A n \in M \cup {N} : ~Sets(coming'[n]) PROVE Alike(x, schedule')
    <3>1. ~Sets(e) /\ \A n \in M : ~Sets(coming[n])
      BY <1>1, <2>1
    <3> QED BY <1>3, <1>6, <3>1 DEF Lacks, Alike
  <2> QED BY <2>1 DEF LacksNext
<1>7. ScheduleOK'
  <2> SUFFICES ASSUME "schedule" \notin behind', Clear("schedule", 1)' PROVE LacksNext(vSchedule, DOMAIN coming')
    BY <1>2 DEF ScheduleOK, Lacks, LacksNext
  <2>1. Lacks(vSchedule, DOMAIN coming)
    BY <1>2, <1>4 DEF ScheduleInv, ScheduleOK
  <2> QED BY <1>1, <1>6, <2>1
<1>8. ASSUME NEW f \in Fetches PROVE ScheduleSeedOK(f)'
  <2> SUFFICES ASSUME fetch[f].step = "answered", "schedule" \notin fetch[f].crossed
               PROVE  LacksNext(fetch[f].list, NewsTo(f)')
    BY <1>2 DEF ScheduleSeedOK, Lacks, LacksNext
  <2>1. Lacks(fetch[f].list, NewsTo(f)) /\ NewsTo(f)' = NewsTo(f) \cup {N}
    BY <1>1, <1>2 DEF ScheduleInv, ScheduleSeedOK
  <2> QED BY <1>1, <1>6, <2>1
<1> QED BY <1>5, <1>7, <1>8 DEF ScheduleInv

(* A snapshot is the schedule of the hub.                                  *)
LEMMA SchedulesFetch ==
  ASSUME TInv, TInv', part = "schedules", ScheduleInv, NEW f \in Fetches, Begin(f)
  PROVE  ScheduleInv'
<1>1. FetchSchedules(f) \/ PageRefreshes(f)
  BY DEF Begin, FetchInstances, FetchTopics, ListSubscribers, TInv, FetchInv, FetchOK
<1>2. coming' = coming /\ UNCHANGED <<part, schedule, vSchedule, behind>>
      /\ fetch' = [fetch EXCEPT ![f] = Answer(schedule)]
      /\ fetch[f].step = "idle" /\ fetch \in [Fetches -> Fetched] /\ schedule \in Lists
  BY <1>1 DEF FetchSchedules, PageRefreshes, coming, wire, hub, view, shown, Begins, TInv, FetchInv, TypeOK, Lists
<1>3. NewsTo(f) = {}
  BY <1>2 DEF NewsTo, TInv, EventOK
<1>4. ScheduleOrder' /\ ScheduleOK'
  BY <1>2 DEF ScheduleInv, ScheduleOrder, ScheduleOK, Lacks, Last, Clear, NoSet, About
<1>5. ASSUME NEW g \in Fetches PROVE ScheduleSeedOK(g)'
  <2>1. NewsTo(g)' = NewsTo(g)
    BY <1>2 DEF NewsTo
  <2>2. CASE g = f
    <3>1. fetch'[f].list = schedule
      BY <1>2, AnswerLemma
    <3> QED BY <1>2, <1>3, <2>1, <2>2, <3>1 DEF ScheduleSeedOK, Lacks, Alike
  <2>3. CASE g # f
    <3>1. fetch'[g] = fetch[g] /\ ScheduleSeedOK(g)
      BY <1>2, <2>3 DEF ScheduleInv
    <3> QED BY <1>2, <2>1, <3>1 DEF ScheduleSeedOK, Lacks
  <2> QED BY <2>2, <2>3
<1> QED BY <1>4, <1>5 DEF ScheduleInv

(* A snapshot is taken where it lists the schedule.                        *)
LEMMA SchedulesEnd ==
  ASSUME TInv, TInv', part = "schedules", ScheduleInv, NEW f \in Fetches, End(f)
  PROVE  ScheduleInv'
<1>1. Ends(f) /\ UNCHANGED <<part, schedule>>
  BY EndsType DEF End, FetchFails, SeedInstances, SeedTopics, SeedSchedules, hub
<1>2. /\ DOMAIN coming' = DOMAIN coming
      /\ \A n \in DOMAIN coming :
           /\ n \in Nat
           /\ coming'[n].kind = coming[n].kind /\ coming'[n].data = coming[n].data
           /\ coming'[n].late = coming[n].late
      /\ \A k, n : n \in DOMAIN coming => (About(k, n)' <=> About(k, n))
      /\ \A g \in Fetches : g # f => NewsTo(g)' = NewsTo(g) /\ fetch'[g] = fetch[g]
      /\ fetch'[f].step = "idle"
      /\ NewsTo(f) \subseteq DOMAIN coming
  BY <1>1, EndEvents
<1>3. /\ \A n \in DOMAIN coming : Sets(coming'[n]) <=> Sets(coming[n])
      /\ \A n \in Nat : (Clear("schedule", n)' <=> Clear("schedule", n)) /\ (NoSet(n)' <=> NoSet(n))
      /\ \A n \in DOMAIN coming : Last("schedule", n)' <=> Last("schedule", n)
  BY <1>2 DEF Sets, Clear, NoSet, Last
<1>4. ScheduleOrder'
  BY <1>1, <1>2, <1>3 DEF ScheduleInv, ScheduleOrder, Alike
<1>5. ASSUME NEW g \in Fetches PROVE ScheduleSeedOK(g)'
  <2>1. CASE g = f
    BY <1>2, <2>1 DEF ScheduleSeedOK
  <2>2. CASE g # f
    <3>1. NewsTo(g)' = NewsTo(g) /\ fetch'[g] = fetch[g] /\ NewsTo(g) \subseteq DOMAIN coming /\ ScheduleSeedOK(g)
      BY <1>2, <2>2 DEF NewsTo, ScheduleInv
    <3> QED BY <1>1, <1>3, <3>1 DEF ScheduleSeedOK, Lacks, Alike
  <2> QED BY <2>1, <2>2
(* The view is left as it was, or takes a list that no event crossed.       *)
<1>6. ASSUME "schedule" \notin behind'
      PROVE  \/ "schedule" \notin behind /\ vSchedule' = vSchedule
             \/ /\ vSchedule' = fetch[f].list /\ fetch[f].step = "answered"
                /\ "schedule" \notin fetch[f].crossed
  <2>1. CASE FetchFails(f)
    BY <1>6, <2>1 DEF FetchFails, view, shown
  <2>2. CASE SeedSchedules(f)
    BY <1>6, <2>2 DEF SeedSchedules, Listed, BehindAfter
  <2> QED BY <2>1, <2>2 DEF End, SeedTopics, SeedInstances
<1>7. ScheduleOK'
  <2> SUFFICES ASSUME "schedule" \notin behind', Clear("schedule", 1) PROVE Lacks(vSchedule', DOMAIN coming)
    BY <1>1, <1>2, <1>3 DEF ScheduleOK, Lacks, Alike
  <2>1. CASE "schedule" \notin behind /\ vSchedule' = vSchedule
    BY <2>1 DEF ScheduleInv, ScheduleOK
  <2>2. CASE vSchedule' = fetch[f].list /\ fetch[f].step = "answered" /\ "schedule" \notin fetch[f].crossed
    <3>1. Lacks(fetch[f].list, NewsTo(f))
      BY <2>2 DEF ScheduleInv, ScheduleSeedOK
    <3> QED BY <1>2, <2>2, <3>1 DEF Lacks
  <2> QED BY <1>6, <2>1, <2>2
<1> QED BY <1>4, <1>5, <1>7 DEF ScheduleInv

-----------------------------------------------------------------------------
(* Tasks.                                                                  *)

Counted == IsFiniteSet(pendingTaskIds) /\ activeTasks = Cardinality(pendingTaskIds)

(* The events about a task are the ones that were, and the last the last.  *)
LEMMA TaskOrderMoves ==
  ASSUME TInv, TInv', part = "tasks", TasksInv, UNCHANGED tasks, NEW s, Moves(s), NEW t \in Tasks,
         NEW j \in DOMAIN coming', About(t, j)'
  PROVE  /\ s[j] \in DOMAIN coming /\ About(t, s[j]) /\ coming[s[j]].kind = coming'[j].kind
         /\ Last(t, j)' /\ ~coming'[j].late =>
              tasks'[t] = IF coming'[j].kind = "task" THEN "sent" ELSE "closed"
         /\ coming'[j].kind = "task" =>
              /\ t \notin pendingTaskIds /\ tasks'[t] # "new"
              /\ \A m \in DOMAIN coming' : m # j => ~(About(t, m)' /\ coming'[m].kind = "task")
<1>1. TypeOK /\ TypeOK' /\ TaskOK(t)
  BY DEF TInv, TasksInv
<1>2. \A l \in DOMAIN coming' : s[l] \in DOMAIN coming /\ coming[s[l]].kind = coming'[l].kind
                                /\ (About(t, l)' <=> About(t, s[l])) /\ (s[l] = s[j] => l = j)
  BY DEF Moves, About
<1>3. Last(t, j)' /\ ~coming'[j].late => Last(t, s[j]) /\ ~coming[s[j]].late
  BY <1>1, KeepsLast
<1> QED BY <1>1, <1>2, <1>3 DEF TaskOK

(* Sockets and emissions.                                                  *)
LEMMA TasksMove ==
  ASSUME TInv, TInv', TasksInv, NEW s, Moves(s), Loses(s),
         UNCHANGED <<part, tasks, pendingTaskIds, activeTasks>>, behind \subseteq behind'
  PROVE  TasksInv'
<1>1. ASSUME part = "tasks", NEW t \in Tasks PROVE TaskOK(t)'
  <2>1. TaskOK(t)
    BY <1>1 DEF TasksInv
  <2>2. ASSUME \A j \in DOMAIN coming' : ~About(t, j)', t \notin behind'
        PROVE  t \in pendingTaskIds' <=> tasks'[t] = "sent"
    <3>1. \A c \in DOMAIN coming : ~About(t, c)
      BY <2>2, KeepsAll
    <3> QED BY <2>1, <2>2, <3>1 DEF TaskOK
  <2>3. ASSUME NEW j \in DOMAIN coming', Last(t, j)', ~coming'[j].late
        PROVE  tasks'[t] = IF coming'[j].kind = "task" THEN "sent" ELSE "closed"
    BY <1>1, <2>3, TaskOrderMoves DEF Last
  <2>4. ASSUME NEW j \in DOMAIN coming', About(t, j)', coming'[j].kind = "task"
        PROVE  /\ t \notin pendingTaskIds' /\ tasks'[t] # "new"
               /\ \A m \in DOMAIN coming' : m # j => ~(About(t, m)' /\ coming'[m].kind = "task")
    BY <1>1, <2>4, TaskOrderMoves
  <2> QED BY <2>1, <2>2, <2>3, <2>4 DEF TaskOK
<1> QED BY <1>1 DEF TasksInv

(* A task is told of once, so that the count goes up once.                 *)
LEMMA TasksHandle ==
  ASSUME TInv, TInv', part = "tasks", TasksInv, HandleEvent
  PROVE  TasksInv'
<1> DEFINE e == coming[1]
<1>1. /\ 1 \in DOMAIN coming /\ e = Head(stream) /\ EventOK(e)
      /\ \A c \in DOMAIN coming : c \in Nat /\ c >= 1 /\ (c = 1 \/ c - 1 \in DOMAIN coming')
      /\ \A j \in DOMAIN coming' : j \in Nat /\ j >= 1 /\ j + 1 \in DOMAIN coming /\ coming'[j] = coming[j + 1]
      /\ \A k : \A j \in DOMAIN coming' : About(k, j)' <=> About(k, j + 1)
  BY Handled
<1>2. PICK s : Moves(s) /\ \A j \in DOMAIN coming' : s[j] = j + 1
  BY Handled
<1>3. /\ UNCHANGED <<part, tasks>> /\ pendingTaskIds' = PendingAfter(pendingTaskIds, e)
      /\ activeTasks' = Active(activeTasks, e)
      /\ behind' = IF e.late THEN behind \cup e.keys ELSE (behind \ Settled(e)) \cup Dropped(e)
  BY <1>1 DEF HandleEvent, hub
<1>4. e.id \in Tasks /\ e.keys = {e.id} /\ e.kind \in {"task", "result"} /\ e.late \in BOOLEAN
  BY <1>1 DEF EventOK, HubEvent
<1> PICK u \in Tasks : u = e.id
  BY <1>4
<1>5. \A k : About(k, 1) <=> k \in e.keys
  BY DEF About
<1>6. TaskOK(u) /\ Counted
  BY <1>4 DEF TasksInv, Counted
<1>7. e.kind = "task" => u \notin pendingTaskIds /\ tasks[u] # "new"
  BY <1>1, <1>4, <1>5, <1>6 DEF TaskOK
<1>8. e.kind = "task" => \A j \in DOMAIN coming' : ~(About(u, j)' /\ coming'[j].kind = "task")
  <2>1. ASSUME e.kind = "task", NEW j \in DOMAIN coming', About(u, j)', coming'[j].kind = "task" PROVE FALSE
    <3>1. j + 1 \in DOMAIN coming /\ j + 1 # 1 /\ About(u, j + 1) /\ coming[j + 1].kind = "task"
      BY <1>1, <2>1
    <3>2. 1 \in DOMAIN coming /\ About(u, 1) /\ coming[1].kind = "task"
      BY <1>1, <1>4, <1>5, <2>1
    <3> HIDE DEF e
    <3> QED BY <1>6, <3>1, <3>2 DEF TaskOK
  <2> QED BY <2>1
<1>9. ASSUME \A j \in DOMAIN coming' : ~About(u, j)', ~e.late
      PROVE  tasks[u] = IF e.kind = "task" THEN "sent" ELSE "closed"
  <2>1. \A c \in DOMAIN coming : c # 1 => ~About(u, c)
    BY <1>1, <1>9
  <2>2. Last(u, 1)
    BY <1>1, <1>4, <1>5, <2>1 DEF Last
  <2> QED BY <1>1, <1>6, <1>9, <2>2 DEF TaskOK
<1> HIDE DEF e
<1>10. Counted'
  <2>1. CASE e.kind = "task"
    <3>1. pendingTaskIds' = pendingTaskIds \cup {u} /\ activeTasks' = activeTasks + 1
      BY <1>3, <2>1 DEF PendingAfter, Active
    <3> QED BY <1>6, <1>7, <2>1, <3>1, FS_AddElement DEF Counted
  <2>2. CASE e.kind = "result" /\ u \in pendingTaskIds
    <3>1. pendingTaskIds' = pendingTaskIds \ {u} /\ activeTasks' = IF activeTasks = 0 THEN 0 ELSE activeTasks - 1
      BY <1>3, <2>2 DEF PendingAfter, Active
    <3>2. Cardinality(pendingTaskIds) # 0 /\ Cardinality(pendingTaskIds) \in Nat
      BY <1>6, <2>2, FS_EmptySet, FS_CardinalityType DEF Counted
    <3> QED BY <1>6, <2>2, <3>1, <3>2, FS_RemoveElement DEF Counted
  <2>3. CASE e.kind = "result" /\ u \notin pendingTaskIds
    <3>1. pendingTaskIds' = pendingTaskIds /\ activeTasks' = activeTasks
      BY <1>3, <2>3 DEF PendingAfter, Active
    <3> QED BY <1>6, <3>1 DEF Counted
  <2> QED BY <1>4, <2>1, <2>2, <2>3
<1>11. ASSUME NEW t \in Tasks PROVE TaskOK(t)'
  <2>1. TaskOK(t)
    BY DEF TasksInv
  <2>2. ASSUME NEW j \in DOMAIN coming', Last(t, j)', ~coming'[j].late
        PROVE  tasks'[t] = IF coming'[j].kind = "task" THEN "sent" ELSE "closed"
    BY <1>2, <1>3, <2>2, TaskOrderMoves DEF Last
  <2>3. ASSUME NEW j \in DOMAIN coming', About(t, j)', coming'[j].kind = "task"
        PROVE  /\ t \notin pendingTaskIds /\ tasks'[t] # "new" /\ (t = u => e.kind # "task")
               /\ \A m \in DOMAIN coming' : m # j => ~(About(t, m)' /\ coming'[m].kind = "task")
    BY <1>2, <1>3, <1>8, <2>3, TaskOrderMoves
  <2>4. CASE t # u
    <3>1. (t \in pendingTaskIds' <=> t \in pendingTaskIds) /\ (t \notin behind' => t \notin behind)
      BY <1>3, <1>4, <2>4 DEF PendingAfter, Settled, Dropped
    <3>2. (\A j \in DOMAIN coming' : ~About(t, j)') => \A c \in DOMAIN coming : ~About(t, c)
      BY <1>1, <1>4, <1>5, <2>4
    <3> QED BY <1>3, <2>1, <2>2, <2>3, <3>1, <3>2 DEF TaskOK
  <2>5. CASE t = u
    <3>1. /\ e.kind = "task" => t \in pendingTaskIds'
          /\ e.kind = "result" => t \notin pendingTaskIds'
          /\ t \notin behind' => ~e.late
      BY <1>3, <1>4, <2>5 DEF PendingAfter
    <3> QED BY <1>3, <1>4, <1>7, <1>9, <2>2, <2>3, <2>5, <3>1 DEF TaskOK
  <2> QED BY <2>4, <2>5
<1> QED BY <1>10, <1>11 DEF TasksInv, Counted

(* A message is sent, and its result.                                      *)
LEMMA TasksOperate ==
  ASSUME TInv, TInv', TasksInv, NEW t \in Tasks, NEW e, Operation("tasks", e), TellsTask(t, e)
  PROVE  TasksInv'
<1>1. PICK N \in Nat :
           /\ N \in DOMAIN coming' /\ N \notin DOMAIN coming /\ coming'[N] = e
           /\ DOMAIN coming' = DOMAIN coming \cup {N}
           /\ \A n \in DOMAIN coming : n \in Nat /\ n < N /\ n >= 1 /\ coming'[n] = coming[n]
           /\ \A k : \A n \in DOMAIN coming : About(k, n)' <=> About(k, n)
           /\ \A k : About(k, N)' <=> k \in e.keys
           /\ \A f : NewsTo(f)' = IF f \in e.seen THEN NewsTo(f) \cup {N} ELSE NewsTo(f)
           /\ \A f : NewsTo(f) \subseteq DOMAIN coming
  BY AddEvents
<1>2. part = "tasks" /\ UNCHANGED <<pendingTaskIds, activeTasks, behind>>
  BY DEF Operation, view, shown
<1>3. ASSUME NEW u \in Tasks PROVE TaskOK(u)'
  <2>1. TaskOK(u)
    BY <1>2 DEF TasksInv
  <2>2. CASE u # t
    <3>1. ~About(u, N)' /\ tasks'[u] = tasks[u]
      BY <1>1, <2>2 DEF TellsTask
    <3>2. \A n \in DOMAIN coming' : About(u, n)' => n \in DOMAIN coming /\ About(u, n) /\ coming'[n] = coming[n]
      BY <1>1, <3>1
    <3>3. \A n \in DOMAIN coming' : Last(u, n)' => Last(u, n)
      BY <1>1, <3>2 DEF Last
    <3>4. (\A n \in DOMAIN coming' : ~About(u, n)') => \A n \in DOMAIN coming : ~About(u, n)
      BY <1>1
    <3>5. \A n \in DOMAIN coming' : Last(u, n)' => About(u, n)'
      BY DEF Last
    <3> QED BY <1>2, <2>1, <3>1, <3>2, <3>3, <3>4, <3>5 DEF TaskOK
  <2>3. CASE u = t
    <3>1. About(u, N)' /\ \A n \in DOMAIN coming' : Last(u, n)' => n = N
      BY <1>1, <2>3 DEF TellsTask, Last
    <3>2. ASSUME NEW n \in DOMAIN coming', About(u, n)', coming'[n].kind = "task"
          PROVE  /\ u \notin pendingTaskIds' /\ tasks'[u] # "new"
                 /\ \A m \in DOMAIN coming' : m # n => ~(About(u, m)' /\ coming'[m].kind = "task")
      <4>1. CASE e.kind = "task"
        <5>1. tasks[u] = "new" /\ tasks'[u] = "sent"
          BY <2>3, <4>1 DEF TellsTask
        <5>2. \A m \in DOMAIN coming : ~(About(u, m)' /\ coming'[m].kind = "task")
          BY <1>1, <2>1, <5>1 DEF TaskOK
        <5> QED BY <1>1, <1>2, <2>1, <3>2, <5>1, <5>2 DEF TaskOK
      <4>2. CASE e.kind = "result"
        <5>1. tasks[u] = "sent" /\ tasks'[u] = "closed"
          BY <2>3, <4>2 DEF TellsTask
        <5>2. n \in DOMAIN coming /\ About(u, n) /\ coming[n].kind = "task"
          BY <1>1, <3>2, <4>2
        <5>3. /\ u \notin pendingTaskIds
              /\ \A m \in DOMAIN coming : m # n => ~(About(u, m) /\ coming[m].kind = "task")
          BY <2>1, <5>2 DEF TaskOK
        <5> QED BY <1>1, <1>2, <4>2, <5>1, <5>3
      <4> QED BY <4>1, <4>2 DEF TellsTask
    <3>3. tasks'[u] = (IF e.kind = "task" THEN "sent" ELSE "closed")
      BY <2>3 DEF TellsTask
    <3> QED BY <1>1, <1>2, <3>1, <3>2, <3>3 DEF TaskOK
  <2> QED BY <2>2, <2>3
<1> QED BY <1>2, <1>3 DEF TasksInv

(* Tasks are not seeded: what other steps do to fetches does not matter.    *)
LEMMA TasksStay ==
  ASSUME TasksInv, UNCHANGED <<part, tasks, pendingTaskIds, activeTasks, behind>>,
         DOMAIN coming' = DOMAIN coming,
         \A n \in DOMAIN coming : coming'[n].kind = coming[n].kind /\ coming'[n].late = coming[n].late,
         \A k, n : n \in DOMAIN coming => (About(k, n)' <=> About(k, n))
  PROVE  TasksInv'
<1>1. ASSUME part = "tasks", NEW t \in Tasks PROVE TaskOK(t)'
  <2>1. TaskOK(t)
    BY <1>1 DEF TasksInv
  <2>2. \A n \in DOMAIN coming : Last(t, n)' <=> Last(t, n)
    BY DEF Last
  <2> QED BY <2>1, <2>2 DEF TaskOK
<1> QED BY <1>1 DEF TasksInv

-----------------------------------------------------------------------------
(* Topics.                                                                 *)

AgreesNext(x, News) ==
  (\A n \in News : coming'[n].kind \notin {"deleted", "silent"}) =>
    /\ (\A n \in News : coming'[n].kind # "created") => (x = None <=> members' = None)
    /\ \A i \in Instances : (\A n \in News : ~Writes(coming'[n], i)) =>
         (i \in Members(x) <=> i \in Members(members'))

(* A set agrees as well with more news.                                    *)
LEMMA AgreesMore ==
  ASSUME NEW x, NEW M, NEW D, M \subseteq D, Agrees(x, M)
  PROVE  Agrees(x, D)
BY DEF Agrees

(* The order stays where events move.                                      *)
LEMMA TopicOrderMoves ==
  ASSUME TInv, TInv', part = "topics", TopicOrder, UNCHANGED <<part, members>>, NEW s, Moves(s)
  PROVE  TopicOrder'
<1> SUFFICES ASSUME NEW j \in DOMAIN coming', Clear("topic", j)'
             PROVE  /\ Deletes(coming'[j]) /\ Last("topic", j)' => members' = None
                    /\ ~Deletes(coming'[j]) /\ NoDelete(j)' => members' # None
                    /\ \A m \in DOMAIN coming' : Follows("topic", j, m)' =>
                         (Deletes(coming'[j]) <=> coming'[m].kind = "created")
                    /\ \A i \in Instances : NoDelete(j)' /\ NoWrite(i, j)' =>
                         /\ coming'[j].kind = "created" => i \notin Members(members')
                         /\ Writes(coming'[j], i) => (i \in Members(members') <=> coming'[j].kind = "subscribed")
  BY DEF TopicOrder
<1>1. TypeOK /\ TypeOK' /\ \A l \in DOMAIN coming' : l \in Nat /\ About("topic", l)'
  BY OneThings DEF TInv, OneTopic
<1>2. Clear("topic", s[j]) /\ s[j] \in DOMAIN coming
  BY <1>1, KeepsClear
<1>3. \A l \in DOMAIN coming' : /\ s[l] \in DOMAIN coming
                                /\ coming'[l].kind = coming[s[l]].kind /\ coming'[l].id = coming[s[l]].id
  BY DEF Moves
<1>4. \A c \in DOMAIN coming : c > s[j] => \E l \in DOMAIN coming' : l > j /\ s[l] = c
  BY <1>1, OneThing DEF Moves
<1>5. /\ Deletes(coming'[j]) <=> Deletes(coming[s[j]])
      /\ \A i \in Instances : Writes(coming'[j], i) <=> Writes(coming[s[j]], i)
  BY <1>3 DEF Deletes, Writes
<1>6. NoDelete(j)' => NoDelete(s[j])
  BY <1>3, <1>4 DEF NoDelete, Deletes
<1>7. \A i \in Instances : NoWrite(i, j)' => NoWrite(i, s[j])
  <2> SUFFICES ASSUME NEW i \in Instances, NoWrite(i, j)', NEW c \in DOMAIN coming, c > s[j]
               PROVE  ~Writes(coming[c], i)
    BY DEF NoWrite
  <2>1. PICK l \in DOMAIN coming' : l > j /\ s[l] = c
    BY <1>4
  <2>2. ~Writes(coming'[l], i)
    BY <2>1 DEF NoWrite
  <2> QED BY <1>3, <2>1, <2>2 DEF Writes
<1>8. Last("topic", j)' => Last("topic", s[j])
  <2>1. ~coming'[j].late
    BY <1>1 DEF Clear
  <2> QED BY <1>1, <2>1, KeepsLast
<1>9. \A m \in DOMAIN coming' : Follows("topic", j, m)' => Follows("topic", s[j], s[m])
  BY <1>1, KeepsNext
<1>10. /\ Deletes(coming[s[j]]) /\ Last("topic", s[j]) => members = None
       /\ ~Deletes(coming[s[j]]) /\ NoDelete(s[j]) => members # None
       /\ \A c \in DOMAIN coming : Follows("topic", s[j], c) => (Deletes(coming[s[j]]) <=> coming[c].kind = "created")
       /\ \A i \in Instances : NoDelete(s[j]) /\ NoWrite(i, s[j]) =>
            /\ coming[s[j]].kind = "created" => i \notin Members(members)
            /\ Writes(coming[s[j]], i) => (i \in Members(members) <=> coming[s[j]].kind = "subscribed")
  BY <1>2 DEF TopicOrder
<1>11. ASSUME NEW m \in DOMAIN coming', Follows("topic", j, m)'
       PROVE  Deletes(coming'[j]) <=> coming'[m].kind = "created"
  BY <1>3, <1>5, <1>9, <1>10, <1>11
<1>12. Members(members') = Members(members)
  BY DEF Members
<1>13. ASSUME NEW i \in Instances, NoDelete(j)', NoWrite(i, j)'
       PROVE  /\ coming'[j].kind = "created" => i \notin Members(members')
              /\ Writes(coming'[j], i) => (i \in Members(members') <=> coming'[j].kind = "subscribed")
  BY <1>3, <1>5, <1>6, <1>7, <1>10, <1>12, <1>13
<1> QED BY <1>5, <1>6, <1>8, <1>10, <1>11, <1>13

(* What agrees but for events does so but for the same events moved.       *)
LEMMA AgreesMove ==
  ASSUME NEW x, NEW M, NEW M1, NEW s, Moves(s), M1 \subseteq DOMAIN coming', \A c \in M : \E j \in M1 : s[j] = c,
         Agrees(x, M), UNCHANGED members
  PROVE  AgreesNext(x, M1)
<1>1. \A j \in M1 : coming'[j].kind = coming[s[j]].kind /\ coming'[j].id = coming[s[j]].id
  BY DEF Moves
<1>2. Members(members') = Members(members)
  BY DEF Members
<1>3. \A c \in M : \E j \in M1 : coming'[j].kind = coming[c].kind /\ coming'[j].id = coming[c].id
  BY <1>1
<1>4. (\A j \in M1 : coming'[j].kind \notin {"deleted", "silent"}) =>
        \A c \in M : coming[c].kind \notin {"deleted", "silent"}
  BY <1>3
<1>5. (\A j \in M1 : coming'[j].kind # "created") => \A c \in M : coming[c].kind # "created"
  BY <1>3
<1>6. \A i \in Instances : (\A j \in M1 : ~Writes(coming'[j], i)) => \A c \in M : ~Writes(coming[c], i)
  BY <1>3 DEF Writes
<1> QED BY <1>2, <1>4, <1>5, <1>6 DEF Agrees, AgreesNext

(* A snapshot that nothing crosses agrees as it did.                       *)
LEMMA TopicSeedsMove ==
  ASSUME TInv, TInv', part = "topics", TopicInv, NEW s, Moves(s), Crosses(s), UNCHANGED members,
         \A f \in Fetches : /\ fetch'[f].step = fetch[f].step /\ fetch'[f].list = fetch[f].list
                             /\ fetch[f].crossed \subseteq fetch'[f].crossed
  PROVE  \A f \in Fetches : TopicSeedOK(f)'
<1> SUFFICES ASSUME NEW f \in Fetches, "topic" \notin fetch'[f].crossed, fetch'[f].step # "idle"
             PROVE  /\ fetch[f].step = "answered" => AgreesNext(fetch[f].list, NewsTo(f)')
                    /\ fetch[f].step = "counted" /\ members = None =>
                         \E n \in NewsTo(f)' : coming'[n].kind \in {"deleted", "silent"}
  BY DEF TopicSeedOK, Agrees, AgreesNext
<1>1. TopicSeedOK(f) /\ "topic" \notin fetch[f].crossed
  BY DEF TopicInv
<1>2. \A c \in NewsTo(f) : \E j \in NewsTo(f)' : s[j] = c
  <2>1. \A c \in NewsTo(f) : About("topic", c) => \E j \in NewsTo(f)' : s[j] = c /\ About("topic", j)'
    BY KeepsNews
  <2>2. \A c \in NewsTo(f) : About("topic", c)
    BY OneThing DEF NewsTo
  <2> QED BY <2>1, <2>2
<1>3. NewsTo(f)' \subseteq DOMAIN coming'
  BY DEF NewsTo
<1>4. \A j \in NewsTo(f)' : coming'[j].kind = coming[s[j]].kind
  BY <1>3 DEF Moves
<1>5. fetch[f].step = "answered" => AgreesNext(fetch[f].list, NewsTo(f)')
  BY <1>1, <1>2, <1>3, AgreesMove DEF TopicSeedOK
<1>6. ASSUME fetch[f].step = "counted", members = None
      PROVE  \E n \in NewsTo(f)' : coming'[n].kind \in {"deleted", "silent"}
  <2>1. PICK c \in NewsTo(f) : coming[c].kind \in {"deleted", "silent"}
    BY <1>1, <1>6 DEF TopicSeedOK
  <2> QED BY <1>2, <1>4, <2>1
<1> QED BY <1>5, <1>6

(* Sockets and emissions.                                                  *)
LEMMA TopicsMove ==
  ASSUME TInv, TInv', part = "topics", TopicInv, NEW s, Moves(s), Crosses(s), Loses(s),
         UNCHANGED <<part, members, vTopic, stray>>, behind \subseteq behind',
         \A f \in Fetches : /\ fetch'[f].step = fetch[f].step /\ fetch'[f].list = fetch[f].list
                             /\ fetch[f].crossed \subseteq fetch'[f].crossed
  PROVE  TopicInv'
<1>1. TopicOrder'
  BY TopicOrderMoves DEF TopicInv
<1>2. \A f \in Fetches : TopicSeedOK(f)'
  BY TopicSeedsMove
<1>3. ASSUME "topic" \notin behind', Clear("topic", 1)' PROVE AgreesNext(Shown(vTopic), DOMAIN coming')
  <2>1. \A c \in DOMAIN coming : \E j \in DOMAIN coming' : s[j] = c
    BY <1>3, KeepsAll, OneThing
  <2>2. \A j \in DOMAIN coming' : ~coming'[j].late
    BY <1>3, OneThings DEF OneTopic, Clear
  <2>3. Clear("topic", 1)
    BY <2>1, <2>2 DEF Clear, Moves
  <2>4. Agrees(Shown(vTopic), DOMAIN coming)
    BY <1>3, <2>3 DEF TopicInv, TopicOK
  <2> QED BY <2>1, <2>4, AgreesMove
<1>4. TopicOK'
  <2>1. Shown(vTopic') = Shown(vTopic)
    BY DEF Shown
  <2> QED BY <1>3, <2>1 DEF TopicOK, Agrees, AgreesNext
<1>5. CountOK'
  BY DEF TopicInv, CountOK
<1> QED BY <1>1, <1>2, <1>4, <1>5 DEF TopicInv

(* A creation follows a deletion, so where nothing is deleted from an event *)
(* on, nothing is created after it.                                        *)
LEMMA NoCreation ==
  ASSUME TInv, part = "topics", TopicOrder, NEW n \in DOMAIN coming, Clear("topic", n),
         ~Deletes(coming[n]), NoDelete(n), NEW m \in DOMAIN coming, m > n
  PROVE  coming[m].kind # "created"
<1>1. /\ DOMAIN coming = 1..Len(coming) /\ Len(coming) \in Nat
  BY PlacesLemma, LenProperties DEF TInv, Places
<1>2. m - 1 \in DOMAIN coming /\ m - 1 >= n /\ m \in Nat /\ n \in Nat
  BY <1>1
<1>3. Follows("topic", m - 1, m)
  BY <1>1, <1>2, OneThing DEF Follows
<1>4. Clear("topic", m - 1)
  BY <1>1, <1>2 DEF Clear
<1>5. ~Deletes(coming[m - 1])
  BY <1>2 DEF NoDelete
<1> QED BY <1>2, <1>3, <1>4, <1>5 DEF TopicOrder

(* The count follows the subscribers unless one who was none unsubscribes. *)
LEMMA TopicCounts ==
  ASSUME TInv, part = "topics", CountOK, HandleEvent, NEW e, e = Head(stream), EventOK(e)
  PROVE  CountOK'
<1>1. /\ vTopic' = TopicAfter(vTopic, e) /\ vTopic \in Topic \cup {None}
      /\ stray' = (\/ stray /\ e.kind # "deleted"
                   \/ e.kind = "unsubscribed" /\ vTopic # None /\ e.id \notin vTopic.subscribers)
  BY DEF HandleEvent, TInv, TypeOK, Topic
<1>2. \/ e.kind \in {"created", "deleted", "silent"}
      \/ e.kind \in {"subscribed", "unsubscribed"} /\ e.id \in Instances
  BY DEF EventOK
<1>3. vTopic # None => /\ vTopic \in Topic /\ IsFiniteSet(vTopic.subscribers) /\ vTopic.count \in Nat
                       /\ vTopic.subscribers \subseteq Instances
  BY <1>1, FS_Subset, DashboardAssumptions DEF Topic
<1> SUFFICES ASSUME vTopic' # None, ~stray' PROVE vTopic'.count = Cardinality(vTopic'.subscribers)
  BY DEF CountOK
<1>4. CASE e.kind = "deleted"
  BY <1>1, <1>4 DEF TopicAfter
<1>5. CASE e.kind # "deleted" /\ vTopic = None
  <2>1. vTopic' = [count |-> 0, subscribers |-> {}]
    BY <1>1, <1>5 DEF TopicAfter
  <2> QED BY <2>1, FS_EmptySet
<1>6. CASE e.kind # "deleted" /\ vTopic # None
  <2>1. ~stray /\ vTopic.count = Cardinality(vTopic.subscribers)
    BY <1>1, <1>6 DEF CountOK
  <2>2. CASE e.kind = "subscribed" /\ e.id \notin vTopic.subscribers
    <3>1. vTopic' = [count |-> vTopic.count + 1, subscribers |-> vTopic.subscribers \cup {e.id}]
      <4>1. vTopic' = Subscribed(vTopic, e.id)
        BY <1>1, <1>6, <2>2 DEF TopicAfter
      <4>2. Subscribed(vTopic, e.id) = With(vTopic, e.id)
        BY <2>2 DEF Subscribed
      <4> QED BY <4>1, <4>2 DEF With
    <3>2. Cardinality(vTopic.subscribers \cup {e.id}) = Cardinality(vTopic.subscribers) + 1
      BY <1>3, <1>6, <2>2, FS_AddElement
    <3> QED BY <2>1, <3>1, <3>2
  <2>3. CASE e.kind = "unsubscribed"
    <3>1. e.id \in vTopic.subscribers
      BY <1>1, <1>6, <2>3
    <3>2. /\ Cardinality(vTopic.subscribers) \in Nat /\ Cardinality(vTopic.subscribers) # 0
          /\ Cardinality(vTopic.subscribers \ {e.id}) = Cardinality(vTopic.subscribers) - 1
      BY <1>3, <1>6, <3>1, FS_EmptySet, FS_CardinalityType, FS_RemoveElement
    <3>3. vTopic' = [count |-> IF vTopic.count = 0 THEN 0 ELSE vTopic.count - 1,
                     subscribers |-> vTopic.subscribers \ {e.id}]
      BY <1>1, <1>6, <2>3 DEF TopicAfter, Unsubscribed
    <3> QED BY <2>1, <3>2, <3>3
  <2>4. CASE e.kind \in {"created", "silent"} \/ (e.kind = "subscribed" /\ e.id \in vTopic.subscribers)
    <3>1. vTopic' = vTopic
      BY <1>1, <1>6, <2>4 DEF TopicAfter, Subscribed
    <3> QED BY <2>1, <3>1
  <2> QED BY <1>2, <1>6, <2>2, <2>3, <2>4
<1> QED BY <1>4, <1>5, <1>6

(* The order tells what the view has after a deletion, whatever it had.    *)
LEMMA TopicsHandle ==
  ASSUME TInv, TInv', part = "topics", TopicInv, HandleEvent
  PROVE  TopicInv'
<1> DEFINE e == coming[1]
<1>1. /\ 1 \in DOMAIN coming /\ e = Head(stream) /\ EventOK(e)
      /\ \A c \in DOMAIN coming : c \in Nat /\ c >= 1 /\ (c = 1 \/ c - 1 \in DOMAIN coming')
      /\ \A j \in DOMAIN coming' : j \in Nat /\ j >= 1 /\ j + 1 \in DOMAIN coming /\ coming'[j] = coming[j + 1]
      /\ \A f \in Fetches : /\ fetch'[f].step = fetch[f].step /\ fetch'[f].list = fetch[f].list
                             /\ fetch[f].crossed \subseteq fetch'[f].crossed
  BY Handled
<1>2. PICK s : Moves(s) /\ Crosses(s) /\ \A j \in DOMAIN coming' : s[j] = j + 1
  BY Handled
<1>3. /\ UNCHANGED <<part, members>> /\ members \in (SUBSET Instances) \cup {None}
      /\ vTopic \in Topic \cup {None} /\ vTopic' = TopicAfter(vTopic, e)
      /\ behind' = IF e.late THEN behind \cup e.keys ELSE (behind \ Settled(e)) \cup Dropped(e)
  BY <1>1 DEF HandleEvent, hub, TInv, TypeOK, Topic
<1>4. /\ e.keys = {"topic"} /\ e.late \in BOOLEAN
      /\ \/ e.kind \in {"created", "deleted"}
         \/ e.kind \in {"subscribed", "unsubscribed"} /\ e.id \in Instances
         \/ e.kind = "silent" /\ e.late
  BY <1>1 DEF EventOK, HubEvent
<1>5. CountOK'
  BY <1>1, TopicCounts DEF TopicInv
<1> HIDE DEF e
<1>6. TopicOrder'
  BY <1>2, <1>3, TopicOrderMoves DEF TopicInv
<1>7. \A f \in Fetches : TopicSeedOK(f)'
  BY <1>1, <1>2, <1>3, TopicSeedsMove
<1>8. ASSUME "topic" \notin behind', Clear("topic", 1)',
             \A j \in DOMAIN coming' : coming'[j].kind \notin {"deleted", "silent"}
      PROVE  /\ (\A j \in DOMAIN coming' : coming'[j].kind # "created") => (Shown(vTopic') = None <=> members = None)
             /\ \A i \in Instances : (\A j \in DOMAIN coming' : ~Writes(coming'[j], i)) =>
                  (i \in Members(Shown(vTopic')) <=> i \in Members(members))
  <2>1. ~e.late
    BY <1>3, <1>4, <1>8
  <2>2. \A c \in DOMAIN coming : c = 1 \/ (c > 1 /\ c - 1 \in DOMAIN coming' /\ coming'[c - 1] = coming[c])
    <3>1. ASSUME NEW c \in DOMAIN coming, c # 1
          PROVE  c > 1 /\ c - 1 \in DOMAIN coming' /\ coming'[c - 1] = coming[c]
      <4>1. c \in Nat /\ c >= 1 /\ c - 1 \in DOMAIN coming'
        BY <1>1, <3>1
      <4>2. coming'[c - 1] = coming[(c - 1) + 1]
        BY <1>1, <4>1
      <4> QED BY <3>1, <4>1, <4>2
    <3> QED BY <3>1
  <2>3. \A c \in DOMAIN coming : Clear("topic", c)
    <3> SUFFICES ASSUME NEW c \in DOMAIN coming PROVE ~coming[c].late
      BY DEF Clear
    <3>1. CASE c = 1
      BY <2>1, <3>1 DEF e
    <3>2. CASE c # 1
      <4>1. c - 1 \in DOMAIN coming' /\ coming'[c - 1] = coming[c] /\ c - 1 >= 1
        BY <1>1, <2>2, <3>2
      <4>2. About("topic", c - 1)'
        BY <1>3, <4>1, OneThings DEF OneTopic
      <4> QED BY <1>8, <4>1, <4>2 DEF Clear
    <3> QED BY <3>1, <3>2
  <2>4. Clear("topic", 1) /\ \A m \in DOMAIN coming : m # 1 => coming[m].kind \notin {"deleted", "silent"}
    <3>1. Clear("topic", 1)
      BY <1>1, <2>3
    <3> QED BY <1>8, <2>2, <3>1
  <2>5. NoDelete(1)
    BY <2>4 DEF NoDelete, Deletes
  <2>6. \A i \in Instances : (\A j \in DOMAIN coming' : ~Writes(coming'[j], i)) => NoWrite(i, 1)
    BY <1>1, <2>2 DEF NoWrite
  <2>7. /\ Deletes(e) /\ Last("topic", 1) => members = None
        /\ ~Deletes(e) => members # None
        /\ \A m \in DOMAIN coming : Follows("topic", 1, m) => (Deletes(e) <=> coming[m].kind = "created")
        /\ \A i \in Instances : NoWrite(i, 1) /\ Writes(e, i) =>
             (i \in Members(members) <=> e.kind = "subscribed")
    BY <1>1, <2>4, <2>5 DEF TopicInv, TopicOrder, e
  <2>8. CASE e.kind = "deleted"
    <3>1. vTopic' = None /\ Deletes(e) /\ Shown(vTopic') = None /\ Members(None) = {}
      BY <1>3, <2>8 DEF TopicAfter, Deletes, Shown, Members
    <3>2. CASE DOMAIN coming' = {}
      <4>1. Last("topic", 1)
        BY <1>1, <2>2, <3>2, OneThing DEF Last
      <4> QED BY <2>7, <3>1, <4>1 DEF Members
    <3>3. CASE DOMAIN coming' # {}
      <4>1. 1 \in DOMAIN coming'
        <5>1. DOMAIN coming = 1..Len(coming) /\ Len(coming) \in Nat
          BY PlacesLemma, LenProperties DEF TInv, Places
        <5>2. 2 \in DOMAIN coming
          BY <1>1, <3>3, <5>1
        <5> QED BY <1>1, <5>2
      <4>2. 2 \in DOMAIN coming /\ coming'[1] = coming[2]
        BY <1>1, <4>1
      <4>3. Follows("topic", 1, 2)
        BY <1>1, <4>2, OneThing DEF Follows
      <4>4. coming[2].kind = "created"
        BY <2>7, <3>1, <4>2, <4>3
      <4>5. Clear("topic", 2) /\ NoDelete(2)
        BY <2>3, <2>5, <4>2, OneThing DEF NoDelete
      <4>6. \A i \in Instances : NoWrite(i, 1) => NoWrite(i, 2)
        BY OneThing DEF NoWrite
      <4>7. \A i \in Instances : NoWrite(i, 2) => i \notin Members(members)
        BY <4>2, <4>4, <4>5 DEF TopicInv, TopicOrder
      <4> QED BY <2>6, <3>1, <4>1, <4>2, <4>4, <4>6, <4>7
    <3> QED BY <3>2, <3>3
  <2>9. CASE e.kind # "deleted"
    <3>1. "topic" \notin behind /\ ~Deletes(e) /\ e.kind \notin {"deleted", "silent"} /\ members # None
      BY <1>3, <1>4, <1>8, <2>1, <2>7, <2>9 DEF Settled, Deletes
    <3>2. Agrees(Shown(vTopic), DOMAIN coming)
      BY <2>4, <3>1 DEF TopicInv, TopicOK
    <3>3. \A c \in DOMAIN coming : coming[c].kind \notin {"deleted", "silent"}
      BY <2>4, <3>1 DEF e
    <3>4. /\ (\A c \in DOMAIN coming : coming[c].kind # "created") => (Shown(vTopic) = None <=> members = None)
          /\ \A i \in Instances : (\A c \in DOMAIN coming : ~Writes(coming[c], i)) =>
               (i \in Members(Shown(vTopic)) <=> i \in Members(members))
      BY <3>2, <3>3 DEF Agrees
    <3>5. \A i \in Instances : NoWrite(i, 1) /\ ~Writes(e, i) => \A c \in DOMAIN coming : ~Writes(coming[c], i)
      BY <2>2 DEF NoWrite, e
    <3>6. CASE e.kind = "created"
      <4>1. /\ vTopic = None => vTopic' = [count |-> 0, subscribers |-> {}]
            /\ vTopic # None => vTopic' = vTopic
        BY <1>3, <3>6 DEF TopicAfter
      <4>2. vTopic' # None /\ Shown(vTopic') # None /\ Members(Shown(vTopic')) = Members(Shown(vTopic))
        <5>1. [count |-> 0, subscribers |-> {}] \in Topic
          BY DEF Topic
        <5>2. vTopic' \in Topic
          BY <1>3, <4>1, <5>1
        <5>3. vTopic' # None /\ vTopic'.subscribers # None
          BY <5>2, DashboardAssumptions DEF Topic
        <5>4. {} # None
          BY DashboardAssumptions
        <5> QED BY <4>1, <5>3, <5>4 DEF Shown, Members
      <4>3. \A i \in Instances : ~Writes(e, i)
        BY <3>6 DEF Writes
      <4> QED BY <2>6, <3>1, <3>4, <3>5, <4>2, <4>3
    <3>7. CASE e.kind \in {"subscribed", "unsubscribed"}
      <4>1. \A m \in DOMAIN coming : coming[m].kind # "created"
        <5>1. \A m \in DOMAIN coming : m # 1 => m > 1
          BY <2>2
        <5>2. \A m \in DOMAIN coming : m > 1 => coming[m].kind # "created"
          BY <1>1, <2>4, <2>5, <3>1, NoCreation DEF TopicInv, e
        <5> QED BY <3>7, <5>1, <5>2 DEF e
      <4>2. Shown(vTopic) # None
        BY <3>1, <3>4, <4>1
      <4>3. vTopic # None /\ vTopic \in Topic
        BY <1>3, <4>2 DEF Shown
      <4>4. /\ vTopic' \in Topic
            /\ vTopic'.subscribers = IF e.kind = "subscribed" THEN vTopic.subscribers \cup {e.id}
                                     ELSE vTopic.subscribers \ {e.id}
        <5>1. e.id \in Instances /\ vTopic.count \in Nat /\ vTopic.subscribers \in SUBSET Instances
          BY <1>4, <3>7, <4>3 DEF Topic
        <5>2. vTopic' = IF e.kind = "subscribed" THEN Subscribed(vTopic, e.id) ELSE Unsubscribed(vTopic, e.id)
          BY <1>3, <3>7, <4>3 DEF TopicAfter
        <5>3. Subscribed(vTopic, e.id) \in Topic
              /\ Subscribed(vTopic, e.id).subscribers = vTopic.subscribers \cup {e.id}
          BY <4>3, <5>1 DEF Subscribed, With, Topic
        <5>4. Unsubscribed(vTopic, e.id) \in Topic
              /\ Unsubscribed(vTopic, e.id).subscribers = vTopic.subscribers \ {e.id}
          BY <5>1 DEF Unsubscribed, Topic
        <5> QED BY <5>2, <5>3, <5>4
      <4>5. /\ vTopic' # None /\ Shown(vTopic') = vTopic'.subscribers /\ Shown(vTopic') # None
            /\ Shown(vTopic) = vTopic.subscribers /\ Shown(vTopic) # None
        BY <4>3, <4>4, DashboardAssumptions DEF Shown, Topic
      <4>6. Members(Shown(vTopic')) = vTopic'.subscribers /\ Members(Shown(vTopic)) = vTopic.subscribers
        BY <4>5 DEF Members
      <4>7. ASSUME NEW i \in Instances, NoWrite(i, 1) PROVE i \in Members(Shown(vTopic')) <=> i \in Members(members)
        <5>1. CASE i = e.id
          <6>1. Writes(e, i)
            BY <3>7, <5>1 DEF Writes
          <6> QED BY <2>7, <3>7, <4>4, <4>6, <4>7, <5>1, <6>1
        <5>2. CASE i # e.id
          <6>1. ~Writes(e, i)
            BY <5>2 DEF Writes
          <6> QED BY <3>4, <3>5, <4>4, <4>6, <4>7, <5>2, <6>1
        <5> QED BY <5>1, <5>2
      <4> QED BY <2>6, <3>1, <4>5, <4>7
    <3> QED BY <1>4, <2>1, <2>9, <3>6, <3>7
  <2> QED BY <2>8, <2>9
<1>9. TopicOK'
  BY <1>3, <1>8 DEF TopicOK, Agrees
<1> QED BY <1>5, <1>6, <1>7, <1>9 DEF TopicInv

(* The event of an operation is the last, and tells what it did.           *)
LEMMA TopicsOperate ==
  ASSUME TInv, TInv', TopicInv, NEW e, Operation("topics", e), TellsTopic(e), EventOK(e),
         \A f \in Fetches : f \in e.seen <=> \/ fetch[f].step = "answered"
                                             \/ fetch[f].step = "counted" /\ e.kind \in {"deleted", "silent"}
  PROVE  TopicInv'
<1>1. PICK N \in Nat :
           /\ N \in DOMAIN coming' /\ N \notin DOMAIN coming /\ coming'[N] = e
           /\ DOMAIN coming' = DOMAIN coming \cup {N}
           /\ \A n \in DOMAIN coming : n \in Nat /\ n < N /\ n >= 1 /\ coming'[n] = coming[n]
           /\ \A k : \A n \in DOMAIN coming : About(k, n)' <=> About(k, n)
           /\ \A k : About(k, N)' <=> k \in e.keys
           /\ \A f : NewsTo(f)' = IF f \in e.seen THEN NewsTo(f) \cup {N} ELSE NewsTo(f)
           /\ \A f : NewsTo(f) \subseteq DOMAIN coming
  BY AddEvents
<1>2. part = "topics" /\ UNCHANGED <<part, vTopic, stray, behind, fetch>> /\ e.keys = {"topic"}
  BY DEF Operation, view, shown, seeds, EventOK
<1>3. /\ members \in (SUBSET Instances) \cup {None} /\ members' \in (SUBSET Instances) \cup {None}
      /\ {} # None
  <2>1. TypeOK => members \in (SUBSET Instances) \cup {None}
    BY DEF TypeOK
  <2>2. members' \in (SUBSET Instances) \cup {None}
    BY <2>1 DEF TInv, TypeOK
  <2> QED BY <2>1, <2>2, DashboardAssumptions DEF TInv
<1>4. /\ e.late <=> e.kind = "silent"
      /\ e.kind \in {"created", "deleted", "subscribed", "unsubscribed", "silent"}
      /\ e.kind = "created" => members = None /\ members' = {}
      /\ e.kind = "deleted" => members # None /\ members' = None
      /\ e.kind \in {"subscribed", "unsubscribed"} =>
           /\ members # None /\ members' # None
           /\ \A i \in Instances : IF Writes(e, i) THEN i \in members' <=> e.kind = "subscribed"
                                   ELSE i \in members' <=> i \in members
  BY DEF TellsTopic
<1>5. /\ \A n \in DOMAIN coming' : Clear("topic", n)' => ~e.late
      /\ \A n \in DOMAIN coming : Clear("topic", n)' => Clear("topic", n)
      /\ \A n \in DOMAIN coming : NoDelete(n)' => NoDelete(n) /\ ~Deletes(e)
      /\ \A i \in Instances : \A n \in DOMAIN coming : NoWrite(i, n)' => NoWrite(i, n) /\ ~Writes(e, i)
      /\ \A n \in DOMAIN coming : ~Last("topic", n)'
      /\ \A m, n \in DOMAIN coming : Follows("topic", m, n)' => Follows("topic", m, n)
      /\ \A n \in DOMAIN coming : Follows("topic", n, N)' => Last("topic", n)
      /\ \A n \in DOMAIN coming' : ~Follows("topic", N, n)'
      /\ Clear("topic", 1)' => Clear("topic", 1) /\ ~e.late
  <2>1. \A n \in DOMAIN coming' : Clear("topic", n)' => ~e.late
    BY <1>1, <1>2 DEF Clear
  <2>2. \A n \in DOMAIN coming : Clear("topic", n)' => Clear("topic", n)
    BY <1>1, <1>2 DEF Clear
  <2>3. \A n \in DOMAIN coming : NoDelete(n)' => NoDelete(n) /\ ~Deletes(e)
    BY <1>1, <1>2 DEF NoDelete
  <2>4. \A i \in Instances : \A n \in DOMAIN coming : NoWrite(i, n)' => NoWrite(i, n) /\ ~Writes(e, i)
    BY <1>1, <1>2 DEF NoWrite
  <2>5. \A n \in DOMAIN coming : ~Last("topic", n)'
    BY <1>1, <1>2 DEF Last
  <2>6. \A m, n \in DOMAIN coming : Follows("topic", m, n)' => Follows("topic", m, n)
    BY <1>1, <1>2 DEF Follows
  <2>7. \A n \in DOMAIN coming : Follows("topic", n, N)' => Last("topic", n)
    BY <1>1, <1>2 DEF Follows, Last
  <2>8. \A n \in DOMAIN coming' : ~Follows("topic", N, n)'
    BY <1>1, <1>2 DEF Follows
  <2>9. Clear("topic", 1)' => Clear("topic", 1) /\ ~e.late
    <3>1. N >= 1
      BY <1>1, <1>2, OneThings DEF OneTopic
    <3> QED BY <1>1, <1>2, <3>1 DEF Clear
  <2> QED BY <2>1, <2>2, <2>3, <2>4, <2>5, <2>6, <2>7, <2>8, <2>9
<1>6. e.kind \in {"created", "subscribed", "unsubscribed"} => members' # None
  BY <1>3, <1>4
<1>7. ASSUME NEW n \in DOMAIN coming', Clear("topic", n)'
      PROVE  /\ Deletes(coming'[n]) /\ Last("topic", n)' => members' = None
             /\ ~Deletes(coming'[n]) /\ NoDelete(n)' => members' # None
             /\ \A m \in DOMAIN coming' : Follows("topic", n, m)' =>
                  (Deletes(coming'[n]) <=> coming'[m].kind = "created")
             /\ \A i \in Instances : NoDelete(n)' /\ NoWrite(i, n)' =>
                  /\ coming'[n].kind = "created" => i \notin Members(members')
                  /\ Writes(coming'[n], i) => (i \in Members(members') <=> coming'[n].kind = "subscribed")
  <2>1. ~e.late /\ e.kind \in {"created", "deleted", "subscribed", "unsubscribed"}
    BY <1>4, <1>5, <1>7
  <2>2. CASE n = N
    <3>1. coming'[n] = e
      BY <1>1, <2>2
    <3>2. Deletes(e) <=> e.kind = "deleted"
      BY DEF Deletes
    <3>3. \A m \in DOMAIN coming' : ~Follows("topic", n, m)'
      BY <1>5, <2>2
    <3>4. ASSUME NEW i \in Instances
          PROVE  /\ e.kind = "created" => i \notin Members(members')
                 /\ Writes(e, i) => (i \in Members(members') <=> e.kind = "subscribed")
      BY <1>4 DEF Members, Writes
    <3> QED BY <1>4, <1>6, <2>1, <3>1, <3>2, <3>3, <3>4
  <2>3. CASE n # N
    <3>1. n \in DOMAIN coming /\ coming'[n] = coming[n] /\ Clear("topic", n) /\ ~Last("topic", n)'
      BY <1>1, <1>5, <1>7, <2>3
    <3>2. /\ Deletes(coming[n]) /\ Last("topic", n) => members = None
          /\ ~Deletes(coming[n]) /\ NoDelete(n) => members # None
          /\ \A m \in DOMAIN coming : Follows("topic", n, m) => (Deletes(coming[n]) <=> coming[m].kind = "created")
          /\ \A i \in Instances : NoDelete(n) /\ NoWrite(i, n) =>
               /\ coming[n].kind = "created" => i \notin Members(members)
               /\ Writes(coming[n], i) => (i \in Members(members) <=> coming[n].kind = "subscribed")
      BY <1>2, <3>1 DEF TopicInv, TopicOrder
    <3>3. NoDelete(n)' => NoDelete(n) /\ ~Deletes(e) /\ members' # None
      BY <1>5, <1>6, <2>1, <3>1 DEF Deletes
    <3>4. ASSUME NEW m \in DOMAIN coming', Follows("topic", n, m)'
          PROVE  Deletes(coming'[n]) <=> coming'[m].kind = "created"
      <4>1. CASE m = N
        <5>1. Last("topic", n) /\ coming'[m] = e
          BY <1>1, <1>5, <3>1, <3>4, <4>1
        <5>2. NoDelete(n)
          BY <5>1, OneThing, <1>2 DEF Last, NoDelete
        <5> QED BY <1>4, <2>1, <3>1, <3>2, <5>1, <5>2
      <4>2. CASE m # N
        <5>1. m \in DOMAIN coming /\ coming'[m] = coming[m] /\ Follows("topic", n, m)
          BY <1>1, <1>5, <3>1, <3>4, <4>2
        <5> QED BY <3>1, <3>2, <5>1
      <4> QED BY <4>1, <4>2
    <3>5. ASSUME NEW i \in Instances, NoDelete(n)', NoWrite(i, n)', coming[n].kind = "created" \/ Writes(coming[n], i)
          PROVE  /\ coming[n].kind = "created" => i \notin Members(members')
                 /\ Writes(coming[n], i) => (i \in Members(members') <=> coming[n].kind = "subscribed")
      <4>1. NoDelete(n) /\ NoWrite(i, n) /\ ~Writes(e, i) /\ ~Deletes(e) /\ ~Deletes(coming[n])
        BY <1>5, <3>1, <3>3, <3>5 DEF Deletes, Writes
      <4>2. members # None
        BY <3>2, <4>1
      <4>3. e.kind \in {"subscribed", "unsubscribed"}
        BY <1>4, <2>1, <4>1, <4>2 DEF Deletes
      <4>4. i \in Members(members') <=> i \in Members(members)
        BY <1>4, <4>1, <4>2, <4>3 DEF Members
      <4> QED BY <3>2, <4>1, <4>4
    <3> QED BY <3>1, <3>2, <3>3, <3>4, <3>5
  <2> QED BY <2>2, <2>3
<1>8. TopicOrder'
  BY <1>7 DEF TopicOrder
<1>9. ASSUME NEW x, NEW M \in SUBSET DOMAIN coming, Agrees(x, M) PROVE AgreesNext(x, M \cup {N})
  <2> SUFFICES ASSUME \A n \in M \cup {N} : coming'[n].kind \notin {"deleted", "silent"}
               PROVE  /\ (\A n \in M \cup {N} : coming'[n].kind # "created") => (x = None <=> members' = None)
                      /\ \A i \in Instances : (\A n \in M \cup {N} : ~Writes(coming'[n], i)) =>
                           (i \in Members(x) <=> i \in Members(members'))
    BY DEF AgreesNext
  <2>1. e.kind \in {"created", "subscribed", "unsubscribed"} /\ \A n \in M : coming[n].kind \notin {"deleted", "silent"}
    BY <1>1, <1>4
  <2>2. /\ (\A n \in M : coming[n].kind # "created") => (x = None <=> members = None)
        /\ \A i \in Instances : (\A n \in M : ~Writes(coming[n], i)) =>
             (i \in Members(x) <=> i \in Members(members))
    BY <1>9, <2>1 DEF Agrees
  <2>3. ASSUME \A n \in M \cup {N} : coming'[n].kind # "created" PROVE x = None <=> members' = None
    <3>1. e.kind \in {"subscribed", "unsubscribed"} /\ \A n \in M : coming[n].kind # "created"
      BY <1>1, <2>1, <2>3
    <3> QED BY <1>4, <2>2, <3>1
  <2>4. ASSUME NEW i \in Instances, \A n \in M \cup {N} : ~Writes(coming'[n], i)
        PROVE  i \in Members(x) <=> i \in Members(members')
    <3>1. ~Writes(e, i) /\ \A n \in M : ~Writes(coming[n], i)
      BY <1>1, <2>4
    <3>2. i \in Members(members) <=> i \in Members(members')
      <4>1. CASE e.kind = "created"
        BY <1>4, <4>1 DEF Members
      <4>2. CASE e.kind \in {"subscribed", "unsubscribed"}
        BY <1>4, <3>1, <4>2 DEF Members
      <4> QED BY <2>1, <4>1, <4>2
    <3> QED BY <2>2, <3>1, <3>2
  <2> QED BY <2>3, <2>4
<1>10. TopicOK'
  <2> SUFFICES ASSUME "topic" \notin behind', Clear("topic", 1)' PROVE AgreesNext(Shown(vTopic), DOMAIN coming')
    BY <1>2 DEF TopicOK, Agrees, AgreesNext, Shown
  <2>1. Agrees(Shown(vTopic), DOMAIN coming)
    BY <1>2, <1>5 DEF TopicInv, TopicOK
  <2> QED BY <1>1, <1>9, <2>1
<1>11. ASSUME NEW f \in Fetches PROVE TopicSeedOK(f)'
  <2> SUFFICES ASSUME "topic" \notin fetch[f].crossed
               PROVE  /\ fetch[f].step = "answered" => AgreesNext(fetch[f].list, NewsTo(f)')
                      /\ fetch[f].step = "counted" /\ members' = None =>
                           \E n \in NewsTo(f)' : coming'[n].kind \in {"deleted", "silent"}
    BY <1>2 DEF TopicSeedOK, Agrees, AgreesNext
  <2>1. /\ fetch[f].step = "answered" => Agrees(fetch[f].list, NewsTo(f))
        /\ fetch[f].step = "counted" /\ members = None =>
             \E n \in NewsTo(f) : coming[n].kind \in {"deleted", "silent"}
    BY <1>2 DEF TopicInv, TopicSeedOK
  <2>2. ASSUME fetch[f].step = "answered" PROVE AgreesNext(fetch[f].list, NewsTo(f)')
    <3>1. NewsTo(f)' = NewsTo(f) \cup {N}
      BY <1>1, <2>2
    <3> QED BY <1>1, <1>9, <2>1, <2>2, <3>1
  <2>3. ASSUME fetch[f].step = "counted", members' = None
        PROVE  \E n \in NewsTo(f)' : coming'[n].kind \in {"deleted", "silent"}
    <3>1. e.kind \in {"deleted", "silent"}
      BY <1>4, <1>6, <2>3
    <3>2. N \in NewsTo(f)' /\ coming'[N].kind \in {"deleted", "silent"}
      BY <1>1, <2>3, <3>1
    <3> QED BY <3>2
  <2> QED BY <2>2, <2>3
<1>12. CountOK'
  BY <1>2 DEF TopicInv, CountOK
<1> QED BY <1>8, <1>10, <1>11, <1>12 DEF TopicInv

(* A count that is followed by a deletion is news, whatever is listed.     *)
LEMMA TopicsFetch ==
  ASSUME TInv, TInv', part = "topics", TopicInv, NEW f \in Fetches, Begin(f)
  PROVE  TopicInv'
<1>1. FetchTopics(f) \/ ListSubscribers(f)
  BY DEF Begin, FetchInstances, FetchSchedules, PageRefreshes, TInv, PartOK
<1>2. /\ coming' = coming /\ UNCHANGED <<part, members, vTopic, stray, behind>>
      /\ fetch \in [Fetches -> Fetched] /\ members \in (SUBSET Instances) \cup {None}
      /\ Lists = (SUBSET Instances) \cup {None}
  BY <1>1 DEF FetchTopics, ListSubscribers, coming, wire, hub, view, shown, TInv, FetchInv, TypeOK, Lists
<1>3. PICK g \in Fetched : fetch' = [fetch EXCEPT ![f] = g]
                           /\ \/ fetch[f].step = "idle" /\ g = Answer(None) /\ members = None
                              \/ fetch[f].step = "idle" /\ g.step = "counted" /\ members # None
                              \/ /\ fetch[f].step = "counted" /\ g.step = "answered"
                                 /\ g.list = (IF members = None THEN {} ELSE members)
                                 /\ g.crossed = fetch[f].crossed
  <2>1. CASE FetchTopics(f) /\ members = None
    <3>1. fetch' = [fetch EXCEPT ![f] = Answer(None)] /\ fetch[f].step = "idle"
      BY <2>1 DEF FetchTopics, Begins
    <3>2. Answer(None) \in Fetched
      BY <1>2, AnswerLemma
    <3> QED BY <2>1, <3>1, <3>2
  <2>2. CASE FetchTopics(f) /\ members # None
    <3> DEFINE c == [NoFetch EXCEPT !.step = "counted", !.count = Cardinality(members)]
    <3>1. fetch' = [fetch EXCEPT ![f] = c] /\ fetch[f].step = "idle"
      BY <2>2 DEF FetchTopics, Begins
    <3>2. c \in Fetched /\ c.step = "counted"
      <4>1. IsFiniteSet(members)
        BY <1>2, <2>2, FS_Subset, DashboardAssumptions
      <4>2. Cardinality(members) \in Nat
        BY <4>1, FS_CardinalityType
      <4> QED BY <4>2 DEF NoFetch, Fetched
    <3> HIDE DEF c
    <3> QED BY <2>2, <3>1, <3>2
  <2>3. CASE ListSubscribers(f)
    <3> DEFINE c == [fetch[f] EXCEPT !.step = "answered", !.list = IF members = None THEN {} ELSE members]
    <3>1. fetch' = [fetch EXCEPT ![f] = c] /\ fetch[f].step = "counted" /\ fetch[f] \in Fetched
      BY <1>2, <2>3 DEF ListSubscribers
    <3>2. (IF members = None THEN {} ELSE members) \in Lists \cup {None}
      BY <1>2
    <3>3. c \in Fetched /\ c.step = "answered" /\ c.list = (IF members = None THEN {} ELSE members)
          /\ c.crossed = fetch[f].crossed
      BY <3>1, <3>2 DEF Fetched
    <3> HIDE DEF c
    <3> QED BY <3>1, <3>3
  <2> QED BY <1>1, <2>1, <2>2, <2>3
<1>4. TopicOrder' /\ CountOK'
  BY <1>2 DEF TopicInv, TopicOrder, CountOK, Last, Clear, Follows, NoDelete, NoWrite, About, Deletes, Writes, Members
<1>5. TopicOK'
  BY <1>2 DEF TopicInv, TopicOK, Agrees, Clear, About, Shown, Writes, Members
<1>6. ASSUME NEW h \in Fetches PROVE TopicSeedOK(h)'
  <2>1. NewsTo(h)' = NewsTo(h)
    BY <1>2 DEF NewsTo
  <2>2. CASE h # f
    <3>1. fetch'[h] = fetch[h] /\ TopicSeedOK(h)
      BY <1>2, <1>3, <2>2 DEF TopicInv
    <3> QED BY <1>2, <2>1, <3>1 DEF TopicSeedOK, Agrees, Writes, Members
  <2>3. CASE h = f
    <3>1. TopicSeedOK(f)
      BY DEF TopicInv
    <3>2. CASE fetch[f].step = "idle" /\ fetch'[f] = Answer(None) /\ members = None
      <4>1. fetch'[f].step = "answered" /\ fetch'[f].list = None
        BY <3>2 DEF Answer, NoFetch
      <4> QED BY <1>2, <2>3, <3>2, <4>1 DEF TopicSeedOK, Agrees, Members
    <3>3. CASE fetch'[f].step = "counted" /\ members # None
      BY <1>2, <2>3, <3>3 DEF TopicSeedOK
    <3>4. CASE /\ fetch[f].step = "counted" /\ fetch'[f].step = "answered"
               /\ fetch'[f].list = (IF members = None THEN {} ELSE members)
               /\ fetch'[f].crossed = fetch[f].crossed
      <4>1. CASE members = None
        <5>1. "topic" \notin fetch[f].crossed => \E n \in NewsTo(f) : coming[n].kind \in {"deleted", "silent"}
          BY <3>1, <3>4, <4>1 DEF TopicSeedOK
        <5> QED BY <1>2, <2>1, <2>3, <3>4, <5>1 DEF TopicSeedOK, Agrees
      <4>2. CASE members # None
        BY <1>2, <2>3, <3>4, <4>2 DEF TopicSeedOK, Agrees, Members
      <4> QED BY <4>1, <4>2
    <3> QED BY <1>2, <1>3, <3>2, <3>3, <3>4
  <2> QED BY <2>2, <2>3
<1> QED BY <1>4, <1>5, <1>6 DEF TopicInv

(* A snapshot is taken where it lists the topic.                           *)
LEMMA TopicsEnd ==
  ASSUME TInv, TInv', part = "topics", TopicInv, NEW f \in Fetches, End(f)
  PROVE  TopicInv'
<1>1. Ends(f) /\ UNCHANGED <<part, members>>
  BY EndsType DEF End, FetchFails, SeedInstances, SeedTopics, SeedSchedules, hub
<1>2. /\ DOMAIN coming' = DOMAIN coming
      /\ \A n \in DOMAIN coming :
           /\ n \in Nat
           /\ coming'[n].kind = coming[n].kind /\ coming'[n].id = coming[n].id
           /\ coming'[n].late = coming[n].late
      /\ \A k, n : n \in DOMAIN coming => (About(k, n)' <=> About(k, n))
      /\ \A g \in Fetches : g # f => NewsTo(g)' = NewsTo(g) /\ fetch'[g] = fetch[g]
      /\ fetch'[f].step = "idle"
      /\ NewsTo(f) \subseteq DOMAIN coming
  BY <1>1, EndEvents
<1>3. /\ \A n \in DOMAIN coming : Deletes(coming'[n]) <=> Deletes(coming[n])
      /\ \A n \in DOMAIN coming : \A i \in Instances : Writes(coming'[n], i) <=> Writes(coming[n], i)
      /\ Members(members') = Members(members)
  BY <1>1, <1>2 DEF Deletes, Writes, Members
<1>4. /\ \A n \in Nat : (Clear("topic", n)' <=> Clear("topic", n)) /\ (NoDelete(n)' <=> NoDelete(n))
      /\ \A n \in DOMAIN coming : Last("topic", n)' <=> Last("topic", n)
      /\ \A m, n \in DOMAIN coming : Follows("topic", m, n)' <=> Follows("topic", m, n)
      /\ \A i \in Instances : \A n \in DOMAIN coming : NoWrite(i, n)' <=> NoWrite(i, n)
  BY <1>2, <1>3 DEF Clear, NoDelete, Last, Follows, NoWrite
<1>5. TopicOrder'
  <2> SUFFICES ASSUME NEW n \in DOMAIN coming, Clear("topic", n)
               PROVE  /\ Deletes(coming'[n]) /\ Last("topic", n) => members' = None
                      /\ ~Deletes(coming'[n]) /\ NoDelete(n) => members' # None
                      /\ \A m \in DOMAIN coming : Follows("topic", n, m) =>
                           (Deletes(coming'[n]) <=> coming'[m].kind = "created")
                      /\ \A i \in Instances : NoDelete(n) /\ NoWrite(i, n) =>
                           /\ coming'[n].kind = "created" => i \notin Members(members')
                           /\ Writes(coming'[n], i) =>
                                (i \in Members(members') <=> coming'[n].kind = "subscribed")
    BY <1>2, <1>4 DEF TopicOrder
  <2> QED BY <1>1, <1>2, <1>3 DEF TopicInv, TopicOrder
<1>6. ASSUME NEW x, NEW M \in SUBSET DOMAIN coming, Agrees(x, M) PROVE AgreesNext(x, M)
  BY <1>1, <1>2, <1>3, <1>6 DEF Agrees, AgreesNext
<1>7. ASSUME NEW g \in Fetches PROVE TopicSeedOK(g)'
  <2>1. CASE g = f
    BY <1>2, <2>1 DEF TopicSeedOK
  <2>2. CASE g # f
    <3>1. NewsTo(g)' = NewsTo(g) /\ fetch'[g] = fetch[g] /\ NewsTo(g) \subseteq DOMAIN coming /\ TopicSeedOK(g)
      BY <1>2, <2>2 DEF NewsTo, TopicInv
    <3>2. "topic" \notin fetch[g].crossed =>
            /\ fetch[g].step = "answered" => AgreesNext(fetch[g].list, NewsTo(g))
            /\ fetch[g].step = "counted" /\ members' = None =>
                 \E n \in NewsTo(g) : coming'[n].kind \in {"deleted", "silent"}
      BY <1>1, <1>2, <1>6, <3>1 DEF TopicSeedOK
    <3> QED BY <3>1, <3>2 DEF TopicSeedOK, Agrees, AgreesNext
  <2> QED BY <2>1, <2>2
(* The view is left as it was, or takes a list, and its count, that no      *)
(* event crossed.                                                          *)
<1>8. SeedTopics(f) =>
        /\ fetch[f].list \in (SUBSET Instances) \cup {None} /\ fetch[f].step = "answered"
        /\ IF fetch[f].list = None THEN vTopic' = vTopic /\ stray' = stray
           ELSE /\ vTopic' = [count |-> fetch[f].count, subscribers |-> fetch[f].list]
                /\ stray' = (fetch[f].count # Cardinality(fetch[f].list))
        /\ behind' = BehindAfter(fetch[f], "topic", vTopic)
  <2> DEFINE t == [count |-> fetch[f].count, subscribers |-> fetch[f].list]
  <2> SUFFICES ASSUME SeedTopics(f)
               PROVE  /\ fetch[f].list \in (SUBSET Instances) \cup {None} /\ fetch[f].step = "answered"
                      /\ IF fetch[f].list = None THEN vTopic' = vTopic /\ stray' = stray
                         ELSE vTopic' = t /\ stray' = (fetch[f].count # Cardinality(fetch[f].list))
                      /\ behind' = BehindAfter(fetch[f], "topic", vTopic)
    OBVIOUS
  <2>1. fetch[f] \in Fetched /\ FetchOK(fetch[f]) /\ fetch[f].step = "answered"
    BY DEF SeedTopics, TInv, FetchInv
  <2>2. fetch[f].list \in (SUBSET Instances) \cup {None} /\ fetch[f].count \in Nat
    BY <2>1 DEF Fetched, FetchOK, Lists
  <2>3. fetch[f].list # None => t \in Topic /\ t # None
    BY <2>2, DashboardAssumptions DEF Topic
  <2>4. CASE fetch[f].list = None
    BY <2>1, <2>2, <2>4 DEF SeedTopics, Listed
  <2>5. CASE fetch[f].list # None
    <3>1. vTopic' = Listed(vTopic, t) /\ stray' = (IF t = None THEN stray ELSE t.count # Cardinality(t.subscribers))
          /\ behind' = BehindAfter(fetch[f], "topic", vTopic)
      BY <2>5 DEF SeedTopics
    <3> QED BY <2>1, <2>2, <2>3, <2>5, <3>1 DEF Listed
  <2> QED BY <2>4, <2>5
<1>9. CountOK'
  <2>1. CASE SeedTopics(f)
    <3>1. CASE fetch[f].list = None
      <4>1. vTopic' = vTopic /\ (stray' <=> stray)
        BY <1>8, <2>1, <3>1
      <4> QED BY <4>1 DEF TopicInv, CountOK
    <3>2. CASE fetch[f].list # None
      <4>1. vTopic' = [count |-> fetch[f].count, subscribers |-> fetch[f].list]
        BY <1>8, <2>1, <3>2
      <4>2. stray' <=> (fetch[f].count # Cardinality(fetch[f].list))
        BY <1>8, <2>1, <3>2
      <4>3. vTopic'.count = fetch[f].count /\ vTopic'.subscribers = fetch[f].list
        BY <4>1
      <4> QED BY <4>2, <4>3 DEF CountOK
    <3> QED BY <3>1, <3>2
  <2>2. CASE ~SeedTopics(f)
    BY <2>2 DEF End, FetchFails, SeedInstances, SeedSchedules, view, shown, TopicInv, CountOK
  <2> QED BY <2>1, <2>2
<1>10. ASSUME "topic" \notin behind'
       PROVE  \/ "topic" \notin behind /\ vTopic' = vTopic
              \/ /\ Shown(vTopic') = fetch[f].list /\ fetch[f].step = "answered"
                 /\ "topic" \notin fetch[f].crossed
  <2>1. CASE FetchFails(f)
    BY <1>10, <2>1 DEF FetchFails, view, shown
  <2>2. CASE SeedTopics(f)
    <3>1. CASE fetch[f].list = None
      BY <1>8, <1>10, <2>2, <3>1 DEF BehindAfter, Shown
    <3>2. CASE fetch[f].list # None
      <4>1. vTopic' = [count |-> fetch[f].count, subscribers |-> fetch[f].list]
        BY <1>8, <2>2, <3>2
      <4>2. fetch[f].list \in SUBSET Instances /\ fetch[f].count \in Nat
        BY <1>8, <2>2, <3>2 DEF TInv, TypeOK
      <4>3. vTopic' # None
        <5>1. vTopic' \in Topic
          BY <4>1, <4>2 DEF Topic
        <5> QED BY <5>1, DashboardAssumptions DEF Topic
      <4>4. Shown(vTopic') = fetch[f].list
        BY <4>1, <4>3 DEF Shown
      <4> QED BY <1>8, <1>10, <2>2, <3>2, <4>4 DEF BehindAfter
    <3> QED BY <3>1, <3>2
  <2> QED BY <2>1, <2>2 DEF End, SeedSchedules, SeedInstances
<1>11. TopicOK'
  <2> SUFFICES ASSUME "topic" \notin behind', Clear("topic", 1) PROVE AgreesNext(Shown(vTopic'), DOMAIN coming)
    BY <1>2, <1>4 DEF TopicOK, Agrees, AgreesNext
  <2>1. CASE "topic" \notin behind /\ vTopic' = vTopic
    <3>1. Agrees(Shown(vTopic), DOMAIN coming)
      BY <2>1 DEF TopicInv, TopicOK
    <3>2. AgreesNext(Shown(vTopic), DOMAIN coming)
      BY <1>6, <3>1
    <3>3. Shown(vTopic') = Shown(vTopic)
      BY <2>1 DEF Shown
    <3> QED BY <3>2, <3>3
  <2>2. CASE Shown(vTopic') = fetch[f].list /\ fetch[f].step = "answered" /\ "topic" \notin fetch[f].crossed
    <3>1. Agrees(fetch[f].list, NewsTo(f))
      BY <2>2 DEF TopicInv, TopicSeedOK
    <3>2. AgreesNext(fetch[f].list, DOMAIN coming)
      BY <1>2, <1>6, <3>1, AgreesMore
    <3> QED BY <2>2, <3>2
  <2> QED BY <1>10, <2>1, <2>2
<1> QED BY <1>5, <1>7, <1>9, <1>11 DEF TopicInv

-----------------------------------------------------------------------------
(* The view.                                                               *)

LEMMA ViewInit == Init => ViewInv
<1> SUFFICES ASSUME Init PROVE ViewInv
  OBVIOUS
<1>1. TInv
  BY InitType
<1>2. DOMAIN coming = {}
  <2>1. stream = << >> /\ emitting = << >> /\ Places
    BY <1>1, PlacesLemma DEF Init, TInv
  <2>2. Len(coming) = 0
    BY <2>1 DEF Places
  <2> QED BY <2>1, <2>2 DEF Places
<1>3. \A f \in Fetches : fetch[f].step = "idle"
  BY DEF Init, NoFetch
<1>4. Instances \subseteq behind /\ "topic" \in behind /\ "schedule" \in behind
  BY DashboardAssumptions DEF Init, Keys
<1>5. vTopic = None /\ pendingTaskIds = {} /\ activeTasks = 0 /\ \A t \in Tasks : tasks[t] = "new"
  BY DEF Init
<1>6. InstancesInv
  BY <1>2, <1>3, <1>4 DEF InstancesInv, InstanceOK, InstanceSeedOK
<1>7. TopicInv
  BY <1>2, <1>3, <1>4, <1>5 DEF TopicInv, TopicOrder, TopicOK, TopicSeedOK, CountOK
<1>8. ScheduleInv
  BY <1>2, <1>3, <1>4 DEF ScheduleInv, ScheduleOrder, ScheduleOK, ScheduleSeedOK
<1>9. TasksInv
  BY <1>2, <1>5, FS_EmptySet DEF TasksInv, TaskOK
<1> QED BY <1>6, <1>7, <1>8, <1>9 DEF ViewInv

NoTasks == part # "tasks" => TasksInv

(* Where a behaviour is not about tasks, none is open.                     *)
LEMMA OtherParts == (TInv => NoTasks) /\ (TInv' => NoTasks')
<1>1. TInv => NoTasks
  BY FS_EmptySet DEF TInv, PartOK, TasksInv, NoTasks
<1> QED BY <1>1, PTL

(* A step that tells of one part keeps the whole invariant if it keeps that *)
(* part's.                                                                 *)
LEMMA PartInv ==
  ASSUME TInv', UNCHANGED part,
         part = "instances" => InstancesInv', part = "topics" => TopicInv',
         part = "schedules" => ScheduleInv', part = "tasks" => TasksInv'
  PROVE  ViewInv'
BY OtherParts DEF ViewInv, TopicInv, ScheduleInv, NoTasks

(* A step that leaves the hub, the view, the events and the fetches alone. *)
LEMMA ViewStays ==
  ASSUME TInv', ViewInv, coming' = coming, UNCHANGED <<hub, view, fetch>>
  PROVE  ViewInv'
<1>1. /\ UNCHANGED <<part, instances, members, schedule, tasks, behind, stray, vInstances, vTopic, vSchedule,
                     pendingTaskIds, activeTasks>>
      /\ \A k, n : About(k, n)' <=> About(k, n)
      /\ \A k, n : Clear(k, n)' <=> Clear(k, n)
      /\ \A k, n : Last(k, n)' <=> Last(k, n)
      /\ \A f : NewsTo(f)' = NewsTo(f)
  BY DEF hub, view, shown, About, Clear, Last, NewsTo
<1>2. InstancesInv => InstancesInv'
  BY <1>1 DEF InstancesInv, InstanceOK, InstanceSeedOK, First, Follows, Target
<1>3. TopicInv => TopicInv'
  <2>1. TopicOrder => TopicOrder'
    BY <1>1 DEF TopicOrder, Follows, NoDelete, NoWrite, Deletes, Writes, Members
  <2>2. \A x, M : Agrees(x, M) => AgreesNext(x, M)
    BY <1>1 DEF Agrees, AgreesNext, Writes, Members
  <2>3. TopicOK => TopicOK'
    BY <1>1, <2>2 DEF TopicOK, Agrees, AgreesNext, Shown
  <2>4. \A f \in Fetches : TopicSeedOK(f) => TopicSeedOK(f)'
    BY <1>1, <2>2 DEF TopicSeedOK, Agrees, AgreesNext
  <2> QED BY <1>1, <2>1, <2>3, <2>4 DEF TopicInv, CountOK
<1>4. ScheduleInv => ScheduleInv'
  BY <1>1 DEF ScheduleInv, ScheduleOrder, ScheduleOK, ScheduleSeedOK, Lacks, NoSet, Sets, Alike
<1>5. TasksInv => TasksInv'
  BY <1>1, TasksStay
<1> QED BY <1>1, <1>2, <1>3, <1>4, <1>5 DEF ViewInv

LEMMA ViewOperates ==
  ASSUME TInv, TInv', ViewInv, InstanceOps \/ TopicOps \/ ScheduleOps \/ TaskOps
  PROVE  ViewInv'
<1>1. ASSUME NEW p, NEW e, Operation(p, e) PROVE part = p /\ UNCHANGED part
  BY <1>1 DEF Operation
<1>2. CASE InstanceOps
  <2>1. PICK kind, keys, id, data : /\ Began("instances", Event(kind, keys, id, data))
                                    /\ TellsInstances(Event(kind, keys, id, data))
    BY <1>2, InstanceOpsBegin
  <2>2. PICK e : e = Event(kind, keys, id, data)
    OBVIOUS
  <2>3. e.kind = kind
    BY <2>2 DEF Event
  <2>4. Operation("instances", e) /\ TellsInstances(e) /\ EventOK(e) /\ part = "instances" /\ UNCHANGED part
    BY <1>1, <2>1, <2>2 DEF Began
  <2>5. \A f \in Fetches : f \in e.seen <=> fetch[f].step = "answered"
    BY <2>2, <2>3, <2>4, SeenLemma DEF EventOK
  <2>6. InstancesInv'
    BY <2>4, <2>5, InstancesOperate DEF ViewInv
  <2> QED BY <2>4, <2>6, PartInv
<1>3. CASE TopicOps
  <2>1. PICK kind, id : /\ Began("topics", Event(kind, {"topic"}, id, None))
                        /\ TellsTopic(Event(kind, {"topic"}, id, None))
    BY <1>3, TopicOpsBegin
  <2>2. PICK e : e = Event(kind, {"topic"}, id, None)
    OBVIOUS
  <2>3. e.kind = kind
    BY <2>2 DEF Event
  <2>4. Operation("topics", e) /\ TellsTopic(e) /\ EventOK(e) /\ part = "topics" /\ UNCHANGED part
    BY <1>1, <2>1, <2>2 DEF Began
  <2>5. \A f \in Fetches : f \in e.seen <=> \/ fetch[f].step = "answered"
                                            \/ fetch[f].step = "counted" /\ e.kind \in {"deleted", "silent"}
    BY <2>2, <2>3, SeenLemma
  <2>6. TopicInv'
    BY <2>4, <2>5, TopicsOperate DEF ViewInv
  <2> QED BY <2>4, <2>6, PartInv
<1>4. CASE ScheduleOps
  <2>1. PICK kind, data : /\ Began("schedules", Event(kind, {"schedule"}, None, data))
                          /\ TellsSchedule(Event(kind, {"schedule"}, None, data))
    BY <1>4, ScheduleOpsBegin
  <2>2. PICK e : e = Event(kind, {"schedule"}, None, data)
    OBVIOUS
  <2>3. e.kind = kind
    BY <2>2 DEF Event
  <2>4. Operation("schedules", e) /\ TellsSchedule(e) /\ EventOK(e) /\ part = "schedules" /\ UNCHANGED part
    BY <1>1, <2>1, <2>2 DEF Began
  <2>5. \A f \in Fetches : f \in e.seen <=> fetch[f].step = "answered"
    BY <2>2, <2>3, <2>4, SeenLemma DEF EventOK
  <2>6. ScheduleInv'
    BY <2>4, <2>5, SchedulesOperate DEF ViewInv
  <2> QED BY <2>4, <2>6, PartInv
<1>5. CASE TaskOps
  <2>1. PICK t \in Tasks : MessageSent(t)
    BY <1>5 DEF TaskOps
  <2>2. PICK kind \in {"task", "result"} : /\ Began("tasks", Event(kind, {t}, t, None))
                                           /\ TellsTask(t, Event(kind, {t}, t, None))
    BY <2>1, TaskOpsBegin
  <2>3. PICK e : e = Event(kind, {t}, t, None)
    OBVIOUS
  <2>4. Operation("tasks", e) /\ TellsTask(t, e) /\ part = "tasks" /\ UNCHANGED part
    BY <1>1, <2>2, <2>3 DEF Began
  <2>5. TasksInv'
    BY <2>4, TasksOperate DEF ViewInv
  <2> QED BY <2>4, <2>5, PartInv
<1> QED BY <1>2, <1>3, <1>4, <1>5

LEMMA ViewMoves ==
  ASSUME TInv, TInv', ViewInv, Wire
  PROVE  ViewInv'
<1>1. PICK s : Moves(s) /\ Crosses(s) /\ Loses(s)
  BY WireType
<1>2. /\ UNCHANGED <<part, instances, members, schedule, tasks, stray, vInstances, vTopic, vSchedule,
                     pendingTaskIds, activeTasks>>
      /\ behind \subseteq behind'
      /\ fetch' = fetch \/ \E E \in SUBSET HubEvent : fetch' = Crossed(E)
  <2>1. CASE SocketOpens
    BY <2>1 DEF SocketOpens, hub, view, shown, seeds
  <2>2. CASE SocketCloses
    <3>1. { stream[n] : n \in DOMAIN stream } \in SUBSET HubEvent
      BY LenProperties DEF TInv, TypeOK
    <3> QED BY <2>2, <3>1 DEF SocketCloses, hub, shown
  <2>3. CASE \E n \in 1..MaxOps : EmitToDashboards(n)
    <3>1. PICK n \in 1..MaxOps : EmitToDashboards(n)
      BY <2>3
    <3>2. emitting[n] \in HubEvent
      BY <3>1, LenProperties DEF TInv, TypeOK, EmitToDashboards
    <3>3. {emitting[n]} \in SUBSET HubEvent
      BY <3>2
    <3> QED BY <3>1, <3>3 DEF EmitToDashboards, hub, shown
  <2> QED BY <2>1, <2>2, <2>3 DEF Wire
<1>3. \A f \in Fetches : /\ fetch'[f].step = fetch[f].step /\ fetch'[f].list = fetch[f].list
                          /\ fetch[f].crossed \subseteq fetch'[f].crossed
  BY <1>2, CrossedLemma DEF TInv, FetchInv
<1>4. part = "instances" => InstancesInv'
  BY <1>1, <1>2, <1>3, InstancesMove DEF ViewInv
<1>5. part = "topics" => TopicInv'
  BY <1>1, <1>2, <1>3, TopicsMove DEF ViewInv
<1>6. part = "schedules" => ScheduleInv'
  BY <1>1, <1>2, <1>3, SchedulesMove DEF ViewInv
<1>7. part = "tasks" => TasksInv'
  BY <1>1, <1>2, TasksMove DEF ViewInv
<1> QED BY <1>2, <1>4, <1>5, <1>6, <1>7, PartInv

LEMMA ViewFetches ==
  ASSUME TInv, TInv', ViewInv, NEW f \in Fetches, Begin(f) \/ End(f)
  PROVE  ViewInv'
<1>1. UNCHANGED <<part, tasks, pendingTaskIds, activeTasks>>
  BY DEF Begin, End, FetchInstances, FetchTopics, ListSubscribers, FetchSchedules, PageRefreshes,
         FetchFails, SeedInstances, SeedTopics, SeedSchedules, hub, view, shown
<1>2. CASE Begin(f)
  <2>1. coming' = coming /\ UNCHANGED behind
    BY <1>2, BeginsType DEF Begin, FetchInstances, FetchTopics, ListSubscribers, FetchSchedules, PageRefreshes, view
  <2>2. TasksInv'
    BY <1>1, <2>1, TasksStay DEF ViewInv, About
  <2> QED BY <1>1, <1>2, <2>2, InstancesFetch, TopicsFetch, SchedulesFetch, PartInv DEF ViewInv
<1>3. CASE End(f)
  <2>1. ASSUME part = "tasks" PROVE TasksInv'
    <3>1. Ends(f) /\ UNCHANGED behind
      BY <1>3, <2>1 DEF End, FetchFails, SeedInstances, SeedTopics, SeedSchedules, view
    <3>2. /\ DOMAIN coming' = DOMAIN coming
          /\ \A n \in DOMAIN coming : coming'[n].kind = coming[n].kind /\ coming'[n].late = coming[n].late
          /\ \A k, n : n \in DOMAIN coming => (About(k, n)' <=> About(k, n))
      BY <3>1, EndEvents
    <3> QED BY <1>1, <3>1, <3>2, TasksStay DEF ViewInv
  <2> QED BY <1>1, <1>3, <2>1, InstancesEnd, TopicsEnd, SchedulesEnd, PartInv DEF ViewInv
<1> QED BY <1>2, <1>3

LEMMA ViewNext == TInv /\ ViewInv /\ [Next]_vars => ViewInv'
<1> SUFFICES ASSUME TInv, ViewInv, [Next]_vars PROVE ViewInv'
  OBVIOUS
<1>1. TInv'
  BY NextType
<1>2. CASE UNCHANGED vars
  <2>1. UNCHANGED <<hub, wire, view, seeds>> /\ coming' = coming
    BY <1>2 DEF vars, wire, coming
  <2> QED BY <1>1, <2>1, ViewStays DEF seeds
<1>3. CASE Quiet
  <2>1. UNCHANGED <<hub, wire, view, seeds>>
    BY <1>3, QuietType
  <2> QED BY <1>1, <2>1, ViewStays DEF seeds, wire, coming
<1>4. CASE HandleEvent
  <2>1. UNCHANGED part
    BY <1>4 DEF HandleEvent, hub
  <2> QED BY <1>1, <1>4, <2>1, InstancesHandle, TopicsHandle, SchedulesHandle, TasksHandle, PartInv DEF ViewInv
<1>5. CASE \E f \in Fetches : Begin(f) \/ End(f)
  BY <1>1, <1>5, ViewFetches
<1>6. CASE InstanceOps \/ TopicOps \/ ScheduleOps \/ TaskOps
  BY <1>1, <1>6, ViewOperates
<1>7. CASE Wire
  BY <1>1, <1>7, ViewMoves
<1> QED BY <1>2, <1>3, <1>4, <1>5, <1>6, <1>7, Steps

(* Nothing is about k if it was told of.                                    *)
LEMMA ToldLemma ==
  ASSUME TypeOK, NEW k, Told(k)
  PROVE  \A n \in DOMAIN coming : ~About(k, n)
<1> SUFFICES ASSUME NEW n \in DOMAIN coming PROVE k \notin coming[n].keys
  BY DEF About
<1>1. Places /\ Len(stream) \in Nat /\ Len(emitting) \in Nat
      /\ DOMAIN stream = 1..Len(stream) /\ DOMAIN emitting = 1..Len(emitting)
  BY PlacesLemma, LenProperties DEF TypeOK
<1>2. CASE n <= Len(stream)
  <2>1. n \in DOMAIN stream /\ coming[n] = stream[n]
    BY <1>1, <1>2 DEF Places
  <2> QED BY <2>1 DEF Told
<1>3. CASE ~(n <= Len(stream))
  <2>1. n - Len(stream) \in DOMAIN emitting /\ coming[n] = emitting[n - Len(stream)]
    BY <1>1, <1>3 DEF Places
  <2> QED BY <2>1 DEF Told
<1> QED BY <1>2, <1>3

(* With no event to come, the invariant is the property.                   *)
LEMMA ViewUpToDate == TInv /\ ViewInv => UpToDate
<1> SUFFICES ASSUME TInv, ViewInv PROVE UpToDate
  OBVIOUS
<1>1. TypeOK /\ PartOK
  BY DEF TInv
<1>2. ASSUME NEW i \in Instances \ behind, Told(i) PROVE vInstances[i] = instances[i]
  <2>1. CASE part = "instances"
    <3>1. \A n \in DOMAIN coming : ~About(i, n)
      BY <1>1, <1>2, ToldLemma
    <3> QED BY <2>1, <3>1 DEF ViewInv, InstancesInv, InstanceOK
  <2>2. CASE part # "instances"
    BY <1>1, <2>2 DEF PartOK
  <2> QED BY <2>1, <2>2
<1>3. ASSUME "topic" \notin behind, Told("topic")
      PROVE  IF vTopic = None THEN members = None
             ELSE /\ vTopic.subscribers = members
                  /\ ~stray => vTopic.count = Cardinality(members)
  <2>1. CASE part = "topics"
    <3>1. \A n \in DOMAIN coming : FALSE
      BY <1>1, <1>3, <2>1, ToldLemma, OneThing
    <3>2. Agrees(Shown(vTopic), DOMAIN coming) /\ CountOK
      BY <1>3, <2>1, <3>1 DEF ViewInv, TopicInv, TopicOK, Clear
    <3>3. /\ Shown(vTopic) = None <=> members = None
          /\ \A i \in Instances : i \in Members(Shown(vTopic)) <=> i \in Members(members)
      BY <3>1, <3>2 DEF Agrees
    <3>4. CASE vTopic = None
      BY <3>3, <3>4 DEF Shown
    <3>5. CASE vTopic # None
      <4>1. vTopic.subscribers \in SUBSET Instances /\ vTopic.subscribers # None
        BY <1>1, <3>5, DashboardAssumptions DEF TypeOK
      <4>2. members \in SUBSET Instances /\ members # None
        BY <1>1, <3>3, <3>5, <4>1 DEF TypeOK, Shown
      <4>3. vTopic.subscribers = members
        BY <3>3, <3>5, <4>1, <4>2 DEF Shown, Members
      <4> QED BY <3>2, <3>5, <4>3 DEF CountOK
    <3> QED BY <3>4, <3>5
  <2>2. CASE part # "topics"
    BY <1>1, <2>2 DEF PartOK
  <2> QED BY <2>1, <2>2
<1>4. ASSUME "schedule" \notin behind, Told("schedule") PROVE vSchedule = schedule
  <2>1. CASE part = "schedules"
    <3>1. \A n \in DOMAIN coming : FALSE
      BY <1>1, <1>4, <2>1, ToldLemma, OneThing
    <3>2. DOMAIN coming = {} /\ Clear("schedule", 1)
      BY <3>1 DEF Clear
    <3> QED BY <1>4, <2>1, <3>2 DEF ViewInv, ScheduleInv, ScheduleOK, Lacks
  <2>2. CASE part # "schedules"
    BY <1>1, <2>2 DEF PartOK
  <2> QED BY <2>1, <2>2
<1>5. ASSUME NEW t \in Tasks \ behind, Told(t) PROVE t \in pendingTaskIds <=> tasks[t] = "sent"
  <2>1. CASE part = "tasks"
    <3>1. \A n \in DOMAIN coming : ~About(t, n)
      BY <1>1, <1>5, ToldLemma
    <3> QED BY <2>1, <3>1 DEF ViewInv, TasksInv, TaskOK
  <2>2. CASE part # "tasks"
    BY <1>1, <2>2 DEF PartOK
  <2> QED BY <2>1, <2>2
<1>6. activeTasks = Cardinality(pendingTaskIds)
  BY DEF ViewInv, TasksInv
<1> QED BY <1>2, <1>3, <1>4, <1>5, <1>6 DEF UpToDate

(* However seeds and events cross, in whatever order the events come, and   *)
(* whenever the socket closes, the view is the hub's state once it has been *)
(* told of every operation, but for what it may not know: for any number of *)
(* instances, tasks, requests and operations.                              *)
THEOREM UpToDateSafety == Spec => []UpToDate
<1>1. Init => TInv /\ ViewInv
  BY InitType, ViewInit
<1>2. TInv /\ ViewInv /\ [Next]_vars => (TInv /\ ViewInv)'
  BY NextType, ViewNext
<1> QED BY <1>1, <1>2, ViewUpToDate, PTL DEF Spec

-----------------------------------------------------------------------------
(* Requests.                                                               *)

(* A request that waits was sent on the open socket, and a page that waits  *)
(* for it has one: each step keeps both.                                   *)
LEMMA NextHangs == NoneHangs /\ [Next]_vars => NoneHangs'
<1> SUFFICES ASSUME NoneHangs, [Next]_vars PROVE NoneHangs'
  OBVIOUS
<1> USE DEF NoneHangs, hub, wire, shown, view, seeds, sender, bounds
(* What the live view does leaves pages and requests alone.                 *)
<1>1. ASSUME UNCHANGED <<page, plug, request>> PROVE NoneHangs'
  BY <1>1
(* An operation of the hub may answer the page that asked for it.           *)
<1>2. ASSUME NEW p, NEW e, Operation(p, e) PROVE NoneHangs'
  BY <1>2 DEF Operation, ScheduleCalls
<1>3. CASE HandleEvent \/ SocketOpens \/ SocketCloses \/ \E n \in 1..MaxOps : EmitToDashboards(n)
  BY <1>1, <1>3 DEF HandleEvent, SocketOpens, SocketCloses, EmitToDashboards
<1>4. ASSUME NEW i \in Instances, NEW j \in Instances,
             \/ Joins(i) \/ Leaves(i) \/ Removed(i) \/ Subscribes(i) \/ Unsubscribes(i)
             \/ SessionUpdated(i, j) \/ SubscriptionMoves(i, j)
      PROVE  NoneHangs'
  BY <1>2, <1>4 DEF Joins, Leaves, Removed, Subscribes, Unsubscribes, SessionUpdated,
     SubscriptionMoves
<1>5. CASE TopicCreated \/ TopicDeleted \/ TopicExpires
  BY <1>2, <1>5 DEF TopicCreated, TopicDeleted, TopicExpires
<1>6. CASE ScheduleCreated \/ ScheduleUpdated \/ ScheduleDeleted \/ ScheduleFired
  BY <1>2, <1>6 DEF ScheduleCreated, ScheduleUpdated, ScheduleDeleted, ScheduleFired, ScheduleOp
<1>7. ASSUME NEW t \in Tasks, MessageSent(t) PROVE NoneHangs'
  BY <1>2, <1>7 DEF MessageSent
<1>8. ASSUME NEW f \in Fetches,
             \/ FetchInstances(f) \/ FetchTopics(f) \/ ListSubscribers(f) \/ FetchSchedules(f)
             \/ FetchFails(f) \/ SeedInstances(f) \/ SeedTopics(f) \/ SeedSchedules(f)
      PROVE  NoneHangs'
  BY <1>1, <1>8 DEF FetchInstances, FetchTopics, ListSubscribers, FetchSchedules, FetchFails,
     SeedInstances, SeedTopics, SeedSchedules
<1>9. ASSUME NEW f \in Fetches, PageRefreshes(f) PROVE NoneHangs'
  BY <1>9 DEF PageRefreshes
<1>10. ASSUME NEW i \in Instances, TopicPageAsks(i) PROVE NoneHangs'
  BY <1>10 DEF TopicPageAsks
<1>11. CASE PageAsks \/ PageFails
  BY <1>11 DEF PageAsks, PageFails
<1>12. CASE HandleSend \/ FireNow
  BY <1>12 DEF HandleSend, FireNow, PluginRequest
<1>13. CASE RequestAnswered \/ RequestTimeout
  BY <1>13 DEF RequestAnswered, RequestTimeout, Fulfilled, Rejected
<1>14. CASE PlugOpens
  BY <1>14 DEF PlugOpens
<1>15. CASE PlugCloses
  BY <1>15 DEF PlugCloses, AfterClose, Rejected
<1>16. CASE UNCHANGED vars
  BY <1>1, <1>16 DEF vars
<1> QED
  BY <1>3, <1>4, <1>5, <1>6, <1>7, <1>8, <1>9, <1>10, <1>11, <1>12, <1>13, <1>14, <1>15, <1>16
     DEF Next

(* Requests and pages never wait for a socket that is not open (NoneHangs). *)
THEOREM HangSafety == Spec => []NoneHangs
<1>1. Init => NoneHangs
  BY DEF Init, NoneHangs
<1> QED BY <1>1, NextHangs, PTL DEF Spec

-----------------------------------------------------------------------------
(* FeedViews: the two instances picked and the node dragged.                *)

(* While a node is dragged it is the one that is pinned and some button is  *)
(* down, unless a second one was pressed meanwhile.                        *)
GraphTyped == graph \in [nodes : SUBSET Peers, pinned : SUBSET Peers, drag : Peers \cup {Nobody},
                         pressed : BOOLEAN, twice : BOOLEAN]
PickedTyped == picked \in [a : Peers \cup {Nobody}, b : Peers \cup {Nobody}]

GestureInv ==
  /\ GraphTyped
  /\ PickedTyped
  /\ GesturesEnd
  /\ ~graph.twice => graph.pinned \subseteq {graph.drag}
  /\ ~graph.pressed => graph.drag = Nobody

LEMMA InitGesture == InitFeed => GestureInv
  BY FeedAssumptions
     DEF InitFeed, NoNodes, GestureInv, GraphTyped, PickedTyped, GesturesEnd

LEMMA PickedGesture == ASSUME GestureInv, NEW p \in Peers, InstanceSelect(p) PROVE GestureInv'
<1>1. GraphTyped' /\ graph' = graph
  BY DEF GestureInv, InstanceSelect, GraphTyped
<1>2. PickedTyped' /\ (picked'.a = picked'.b => picked'.a = Nobody)
  BY FeedAssumptions DEF GestureInv, GesturesEnd, InstanceSelect, Picked, PickedTyped
<1>3. QED
  BY <1>1, <1>2 DEF GestureInv, GesturesEnd

(* A gesture: each kind moves the node dragged, its pin and the button      *)
(* together.                                                               *)
LEMMA GraphGesture == ASSUME GestureInv, NEW m \in Gestures, Gesture(m) PROVE GestureInv'
<1>1. PickedTyped' /\ picked' = picked
  BY DEF GestureInv, Gesture, PickedTyped
<1>2. graph' = AfterGesture(graph, m)
  BY DEF Gesture
<1>3. CASE m.kind = "sync"
  <2>1. graph' = Synced(graph, m.ids) /\ m.ids \in SUBSET Peers
    BY <1>2, <1>3 DEF AfterGesture, Gestures
  <2>2. QED
    BY <1>1, <2>1 DEF Synced, GestureInv, GesturesEnd, GraphTyped
<1>4. CASE m.kind = "down"
  <2>1. graph' = MouseDown(graph, m.node) /\ m.node \in Peers \cup {Nobody}
    BY <1>2, <1>4 DEF AfterGesture, Gestures
  <2>2. QED
    BY <1>1, <2>1 DEF MouseDown, GestureInv, GesturesEnd, GraphTyped
<1>5. CASE m.kind = "up"
  <2>1. graph' = MouseUp(graph)
    BY <1>2, <1>5 DEF AfterGesture
  <2>2. QED
    BY <1>1, <2>1 DEF MouseUp, GestureInv, GesturesEnd, GraphTyped
<1>6. QED
  BY <1>3, <1>4, <1>5 DEF Gestures

(* Whatever is clicked, dragged and released, and whenever nodes come and   *)
(* go, two different instances are picked and no node stays pinned, but for *)
(* a second button.                                                        *)
THEOREM GesturesSafety == SpecFeed => []GesturesEnd
<1>1. InitFeed => GestureInv
  BY InitGesture
<1>2. GestureInv /\ [NextFeed]_pages => GestureInv'
  <2>1. CASE UNCHANGED pages
    BY <2>1 DEF pages, GestureInv, GraphTyped, PickedTyped, GesturesEnd
  <2>2. ASSUME GestureInv, NEW e \in MessageEvents(Len(told) + 1), MessageTold(e)
        PROVE  GestureInv'
    BY <2>2 DEF MessageTold, GestureInv, GraphTyped, PickedTyped, GesturesEnd
  <2>3. ASSUME GestureInv, TimelineRefreshes
        PROVE  GestureInv'
    BY <2>3 DEF TimelineRefreshes, GestureInv, GraphTyped, PickedTyped, GesturesEnd
  <2>4. QED
    BY <2>1, <2>2, <2>3, PickedGesture, GraphGesture DEF NextFeed
<1>3. GestureInv => GesturesEnd
  BY DEF GestureInv
<1>4. QED
  BY <1>1, <1>2, <1>3, PTL DEF SpecFeed

-----------------------------------------------------------------------------
(* The feed.                                                               *)

(* How many of the messages told the feed holds; and FeedIsLatest with what *)
(* it needs to be inductive, that told is a sequence, and with the          *)
(* timeline's clock, which is never ahead of it.                           *)
Kept == IF Len(told) < MaxFeedSize THEN Len(told) ELSE MaxFeedSize
LatestInv ==
  told \in Seq(UNION { MessageEvents(n) : n \in Nat }) /\ FeedIsLatest /\ nowMs \in 0..Len(told)

(* appendFeed below MAX_FEED_SIZE, and at it, where slice drops the first.  *)
LEMMA FeedAppended ==
  ASSUME LatestInv, NEW e, MessageTold(e), told' \in Seq(UNION { MessageEvents(n) : n \in Nat })
  PROVE  FeedIsLatest'
<1> DEFINE l == Len(told)
           k == Kept
           n == l - k
           next == Append(feed, Entry(e, l + 1))
<1>1. l \in Nat /\ k \in Nat /\ n \in Nat /\ n = l - k /\ MaxFeedSize \in Nat \ {0} /\ k <= MaxFeedSize
  BY FeedAssumptions DEF LatestInv, Kept
<1>2. told' = Append(told, e) /\ feed' = AppendFeed(feed, Entry(e, l + 1))
  BY DEF MessageTold
<1>3. Len(told') = l + 1 /\ \A m \in 1..l : told'[m] = told[m]
  BY <1>2 DEF LatestInv
<1>4. told'[l + 1] = e
  BY <1>2 DEF LatestInv
<1>5. feed = [m \in 1..k |-> Entry(told[n + m], n + m)]
  BY DEF LatestInv, FeedIsLatest, Kept
<1>6. PICK S : S = { Entry(told[n + m], n + m) : m \in 1..k } \cup { Entry(e, l + 1) }
  OBVIOUS
<1>7. feed \in Seq(S) /\ Len(feed) = k
  <2>1. feed \in [1..k -> S]
    BY <1>5, <1>6
  <2>2. feed \in Seq(S)
    BY <1>1, <2>1, SeqDef
  <2>3. QED
    BY <1>1, <2>1, <2>2, LenProperties
<1>8. next \in Seq(S) /\ Len(next) = k + 1 /\ Entry(e, l + 1) \in S
  <2>1. Entry(e, l + 1) \in S
    BY <1>6
  <2>2. QED
    BY <1>1, <1>7, <2>1, AppendProperties
<1>9. ASSUME NEW m \in 1..(k + 1) PROVE next[m] = Entry(told'[n + m], n + m)
  <2> HIDE DEF l, k, n
  <2>1. CASE m <= k
    <3>1. m \in 1..k /\ n + m \in 1..l
      BY <1>1, <2>1
    <3>2. next[m] = feed[m]
      BY <1>7, <1>8, <3>1, AppendProperties
    <3>3. feed[m] = Entry(told[n + m], n + m) /\ told'[n + m] = told[n + m]
      BY <1>3, <1>5, <3>1
    <3>4. QED
      BY <3>2, <3>3
  <2>2. CASE m = k + 1
    <3>1. n + m = l + 1
      BY <1>1, <2>2
    <3>2. next[m] = Entry(e, l + 1)
      BY <1>7, <1>8, <2>2, AppendProperties
    <3>3. QED
      BY <1>4, <3>1, <3>2
  <2>3. m <= k \/ m = k + 1
    BY <1>1
  <2>4. QED
    BY <2>1, <2>2, <2>3
<1>10. CASE l < MaxFeedSize
  <2>1. k = l /\ n = 0 /\ Kept' = k + 1
    BY <1>1, <1>3, <1>10 DEF Kept
  <2>2. feed' = next
    BY <1>1, <1>2, <1>7, <1>8, <1>10, <2>1 DEF AppendFeed
  <2>3. feed' = [m \in 1..(k + 1) |-> Entry(told'[m], m)]
    BY <1>1, <1>7, <1>8, <1>9, <2>1, <2>2
  <2>4. QED
    BY <1>1, <1>3, <2>1, <2>3 DEF FeedIsLatest, Kept
<1>11. CASE ~(l < MaxFeedSize)
  <2>1. k = MaxFeedSize /\ Kept' = k
    BY <1>1, <1>3, <1>11 DEF Kept
  <2>2. feed' = SubSeq(next, 2, k + 1)
    <3>1. Len(next) - MaxFeedSize + 1 = 2 /\ Len(next) > MaxFeedSize
      BY <1>1, <1>8, <2>1
    <3>2. feed' = SubSeq(next, 2, Len(next))
      BY <1>2, <3>1 DEF AppendFeed
    <3>3. QED
      BY <1>8, <3>2
  <2>3. feed' = [m \in 1..k |-> next[m + 1]]
    BY <1>1, <1>7, <1>8, <2>2
  <2>4. feed' = [m \in 1..k |-> Entry(told'[n + 1 + m], n + 1 + m)]
    <3>1. ASSUME NEW m \in 1..k PROVE next[m + 1] = Entry(told'[n + 1 + m], n + 1 + m)
      <4>1. m + 1 \in 1..(k + 1) /\ n + (m + 1) = n + 1 + m
        BY <1>1
      <4>2. QED
        BY <1>9, <4>1
    <3>2. QED
      BY <2>3, <3>1
  <2>5. Len(told') - k = n + 1
    BY <1>1, <1>3
  <2>6. QED
    BY <2>1, <2>4, <2>5 DEF FeedIsLatest, Kept
<1>12. QED
  BY <1>10, <1>11

(* appendFeed keeps the feed the end of what was told; the other steps leave *)
(* both as they are.                                                       *)
LEMMA InitLatest == InitFeed => LatestInv
  BY FeedAssumptions DEF InitFeed, LatestInv, FeedIsLatest

LEMMA NextLatest == LatestInv /\ [NextFeed]_pages => LatestInv'
<1> SUFFICES ASSUME LatestInv, [NextFeed]_pages PROVE LatestInv'
  OBVIOUS
<1>1. CASE UNCHANGED pages
  BY <1>1 DEF pages, LatestInv, FeedIsLatest
<1>2. ASSUME NEW e \in MessageEvents(Len(told) + 1), MessageTold(e)
      PROVE  LatestInv'
  <2>1. PICK Events : Events = UNION { MessageEvents(n) : n \in Nat }
    OBVIOUS
  <2>2. told \in Seq(Events) /\ e \in Events
    BY <2>1 DEF LatestInv
  <2>3. told' \in Seq(Events)
    BY <1>2, <2>2 DEF MessageTold
  <2>4. nowMs' \in 0..Len(told')
    <3>1. Len(told) \in Nat /\ Len(told') = Len(told) + 1 /\ nowMs' = nowMs
      BY <1>2, <2>2 DEF MessageTold
    <3> QED BY <3>1 DEF LatestInv
  <2> QED BY <1>2, <2>1, <2>3, <2>4, FeedAppended DEF LatestInv
<1>3. ASSUME NEW p \in Peers, InstanceSelect(p)
      PROVE  LatestInv'
  BY <1>3 DEF InstanceSelect, LatestInv, FeedIsLatest
<1>4. ASSUME NEW m \in Gestures, Gesture(m)
      PROVE  LatestInv'
  BY <1>4 DEF Gesture, LatestInv, FeedIsLatest
<1>5. ASSUME TimelineRefreshes
      PROVE  LatestInv'
  <2>1. Len(told) \in Nat /\ told' = told /\ feed' = feed /\ nowMs' = Len(told)
    BY <1>5 DEF TimelineRefreshes, LatestInv
  <2> QED BY <2>1 DEF LatestInv, FeedIsLatest
<1> QED BY <1>1, <1>2, <1>3, <1>4, <1>5 DEF NextFeed

-----------------------------------------------------------------------------
(* FeedViews: the pages, which are functions of the feed.                   *)

EntryOK(e) ==
  /\ e.from \in Peers /\ e.to \in Peers \cup {Nobody} /\ e.reply \in Nat
  /\ e.id \in Int /\ e.id # 0 /\ e.receivedAt \in 1..Len(told)
  /\ e.isBroadcast \in BOOLEAN /\ e.inTopic \in BOOLEAN
  /\ e.type = IF e.reply = 0 THEN "task" ELSE "result"
  /\ e.isBroadcast => ~e.inTopic
  /\ e.isBroadcast \/ e.inTopic => e.reply = 0 /\ e.to = Nobody

(* The entries of the feed are finitely many, and each is of one kind.      *)
LEMMA FeedEntries ==
  ASSUME LatestInv
  PROVE  IsFiniteSet(Entries(feed)) /\ \A e \in Entries(feed) : EntryOK(e)
<1> DEFINE l == Len(told)
           k == Kept
           n == l - k
<1>1. l \in Nat /\ k \in Nat /\ n \in Nat /\ n = l - k
  BY FeedAssumptions DEF LatestInv, Kept
<1>2. feed = [m \in 1..k |-> Entry(told[n + m], n + m)]
  BY DEF LatestInv, FeedIsLatest, Kept
<1>3. \A p \in 1..l : \E q \in Nat : told[p] \in MessageEvents(q)
  BY DEF LatestInv
<1> HIDE DEF l, k, n
<1>4. IsFiniteSet(Entries(feed))
  <2>1. IsFiniteSet(1..k)
    BY <1>1, FS_Interval
  <2>2. feed \in Surjection(1..k, Entries(feed))
    BY <1>2 DEF Entries, Surjection
  <2> QED BY <2>1, <2>2, FS_Surjection
<1>5. ASSUME NEW e \in Entries(feed) PROVE EntryOK(e)
  <2>1. PICK m \in 1..k : e = Entry(told[n + m], n + m)
    BY <1>2 DEF Entries
  <2>2. PICK p \in 1..l : p = n + m
    BY <1>1
  <2>3. PICK q \in Nat : told[p] \in MessageEvents(q)
    BY <1>3
  <2>4. PICK d \in MessageEvents(q) : d = told[p]
    BY <2>3
  <2>5. e = Entry(d, p) /\ p \in Nat /\ p > 0 /\ p \in 1..Len(told)
    BY <1>1, <2>1, <2>2, <2>4 DEF l
  <2>6. /\ d.route[1] \in Peers /\ d.route[2] \in Peers \cup {Nobody} /\ d.reply \in Nat
        /\ d.kind \in {"message:sent", "broadcast:sent", "topic:message"}
        /\ d.kind # "message:sent" => d.reply = 0 /\ d.route[2] = Nobody
    BY <2>3, FeedAssumptions DEF MessageEvents, Senders
  <2>7. /\ e.from = d.route[1] /\ e.to = d.route[2] /\ e.reply = d.reply /\ e.receivedAt = p
        /\ e.type = IF d.reply = 0 THEN "task" ELSE "result"
        /\ e.id = IF d.kind = "broadcast:sent" THEN -p ELSE p
        /\ e.isBroadcast = (d.kind = "broadcast:sent")
        /\ e.inTopic = (d.kind = "topic:message")
    BY <2>5 DEF Entry
  <2>8. e.id \in Int /\ e.id # 0
    BY <2>5, <2>7
  <2> QED BY <2>5, <2>6, <2>7, <2>8 DEF EntryOK
<1> QED BY <1>4, <1>5

(* Each entry passes one filter of the kinds, and one of the types.         *)
LEMMA One == ASSUME NEW x, NEW S, S = {x} PROVE Cardinality(S) = 1
BY FS_Singleton

LEMMA KindsPart == ASSUME LatestInv PROVE FiltersPart
<1> SUFFICES ASSUME NEW e \in Entries(feed)
    PROVE /\ Cardinality({ k \in {"direct", "broadcast", "topic"} : PassesKind(e, k) }) = 1
          /\ Cardinality({ t \in {"broadcast", "task", "result"} : PassesType(e, t) }) = 1
  BY DEF FiltersPart
<1> DEFINE K == { k \in {"direct", "broadcast", "topic"} : PassesKind(e, k) }
           T == { t \in {"broadcast", "task", "result"} : PassesType(e, t) }
<1>1. EntryOK(e)
  BY FeedEntries
<1>2. \E x : K = {x}
  <2>1. CASE e.isBroadcast
    <3>1. K = {"broadcast"}
      BY <1>1, <2>1 DEF PassesKind, EntryOK
    <3> QED BY <3>1
  <2>2. CASE ~e.isBroadcast /\ e.inTopic
    <3>1. K = {"topic"}
      BY <1>1, <2>2 DEF PassesKind, EntryOK
    <3> QED BY <3>1
  <2>3. CASE ~e.isBroadcast /\ ~e.inTopic
    <3>1. K = {"direct"}
      BY <1>1, <2>3 DEF PassesKind, EntryOK
    <3> QED BY <3>1
  <2> QED BY <2>1, <2>2, <2>3
<1>3. \E x : T = {x}
  <2>1. CASE e.isBroadcast
    <3>1. T = {"broadcast"}
      BY <1>1, <2>1 DEF PassesType, EntryOK
    <3> QED BY <3>1
  <2>2. CASE ~e.isBroadcast
    <3>1. T = {e.type}
      BY <1>1, <2>2 DEF PassesType, EntryOK
    <3> QED BY <3>1
  <2> QED BY <2>1, <2>2
<1> HIDE DEF K, T
<1>4. Cardinality(K) = 1 /\ Cardinality(T) = 1
  BY <1>2, <1>3, One
<1> QED BY <1>4 DEF K, T

(* A reply has the root of the message it replies to.                       *)
LEMMA RepliesInThread == ASSUME LatestInv, NEW a, NEW b PROVE RepliesFollow(a, b)
<1> DEFINE said    == Exchanged(NonTopic(Entries(feed)), a, b)
           threads == Threads(said)
           In(e)   == { r \in DOMAIN threads : e \in threads[r] }
<1>1. \A e \in said : EntryOK(e)
  BY FeedEntries DEF Exchanged, NonTopic
<1>2. /\ DOMAIN threads = { RootId(e) : e \in said }
      /\ \A r \in DOMAIN threads : threads[r] = { e \in said : RootId(e) = r }
  BY DEF Threads
<1> HIDE DEF said, threads
<1>3. \A e \in said : In(e) = { RootId(e) }
  BY <1>2
<1> HIDE DEF In
<1>4. \A e \in said : Cardinality(In(e)) = 1
  BY <1>3, One
<1>5. ASSUME NEW e \in said, NEW d \in said, e.reply = d.id, d.reply = 0
      PROVE  In(e) = In(d)
  <2>1. d.id # 0
    BY <1>1 DEF EntryOK
  <2>2. RootId(e) = RootId(d)
    BY <1>5, <2>1 DEF RootId
  <2> QED BY <1>3, <2>2
<1> QED BY <1>4, <1>5 DEF RepliesFollow, In, said, threads

(* The dot is that of the target, if that is listed.                        *)
LEMMA DotsAreOne ==
  ASSUME LatestInv, NEW listed \in SUBSET Peers PROVE OneDotEach(listed)
<1> DEFINE now == nowMs
           seen(e) == e.receivedAt <= now /\ now <= e.receivedAt + Window
<1> SUFFICES ASSUME NEW e \in Entries(feed)
             PROVE  Cardinality({ p \in listed : e \in Dots(Entries(feed), listed, now)[p] })
               = IF seen(e) /\ {e.from, e.to} \cap listed # {} THEN 1 ELSE 0
  BY DEF OneDotEach
<1> DEFINE P == { p \in listed : e \in Dots(Entries(feed), listed, now)[p] }
<1>1. EntryOK(e) /\ now \in Nat
  BY FeedEntries DEF LatestInv
<1>2. now - e.receivedAt \in 0..Window <=> seen(e)
  BY <1>1, FeedAssumptions DEF EntryOK
<1>3. P = { p \in listed : now - e.receivedAt \in 0..Window /\ DotTarget(e, listed) = p }
  BY DEF Dots
<1>4. DotTarget(e, listed) \in listed <=> {e.from, e.to} \cap listed # {}
  BY <1>1, FeedAssumptions DEF DotTarget, EntryOK
<1> HIDE DEF now, P, seen
<1>5. CASE seen(e) /\ {e.from, e.to} \cap listed # {}
  <2>1. P = { DotTarget(e, listed) }
    BY <1>2, <1>3, <1>4, <1>5
  <2>2. Cardinality(P) = 1
    BY <2>1, One
  <2> QED BY <1>5, <2>2 DEF P
<1>6. CASE ~(seen(e) /\ {e.from, e.to} \cap listed # {})
  <2>1. P = {}
    BY <1>2, <1>3, <1>4, <1>6
  <2>2. Cardinality(P) = 0
    BY <2>1, FS_EmptySet
  <2> QED BY <1>6, <2>2 DEF P
<1> QED BY <1>5, <1>6

(* The graph draws every direct message on one edge.                        *)
Direct(entries) == { e \in entries : CountedOnEdge(e) }

LEMMA WeightLemma ==
  ASSUME NEW es, NEW edge
  PROVE  Weight(EdgeCounts(es), edge) = Cardinality(OnEdge(es, edge))
<1> DEFINE E == { <<e.from, e.to>> : e \in Direct(es) }
<1>1. /\ DOMAIN EdgeCounts(es) = E
      /\ \A x \in E : EdgeCounts(es)[x] = Cardinality(OnEdge(es, x))
  BY DEF EdgeCounts, Direct
<1>2. edge \notin E => OnEdge(es, edge) = {}
  BY DEF OnEdge, Direct
<1> HIDE DEF E
<1> QED BY <1>1, <1>2, FS_EmptySet DEF Weight

(* The sum of the counts is the number of direct messages: each edge counts  *)
(* its own from 1 on, so they correspond to the pairs of edge and number.    *)
LEMMA TotalLemma ==
  ASSUME NEW es, IsFiniteSet(es)
  PROVE  Total(EdgeCounts(es)) = Cardinality(Direct(es))
<1> DEFINE E == { <<e.from, e.to>> : e \in Direct(es) }
           c == EdgeCounts(es)
           U == UNION { {x} \X (1..c[x]) : x \in E }
           b == [x \in E |-> CHOOSE f : f \in Bijection(OnEdge(es, x), 1..c[x])]
           h == [e \in Direct(es) |-> << <<e.from, e.to>>, b[<<e.from, e.to>>][e] >>]
<1>1. DOMAIN c = E /\ \A x \in E : c[x] = Cardinality(OnEdge(es, x))
  BY DEF EdgeCounts, Direct
<1>2. Direct(es) \in SUBSET es /\ \A x : OnEdge(es, x) \in SUBSET es
  BY DEF Direct, OnEdge
<1>3. IsFiniteSet(Direct(es)) /\ \A x : IsFiniteSet(OnEdge(es, x))
  BY <1>2, FS_Subset
<1>4. /\ \A x \in E : \A e \in OnEdge(es, x) : e \in Direct(es) /\ <<e.from, e.to>> = x
      /\ \A e \in Direct(es) : <<e.from, e.to>> \in E /\ e \in OnEdge(es, <<e.from, e.to>>)
  BY DEF Direct, OnEdge
<1>5. \A x \in E : \A n : <<x, n>> \in U <=> n \in 1..c[x]
  OBVIOUS
<1>6. \A u \in U : \E x \in E : \E n \in 1..c[x] : u = <<x, n>>
  OBVIOUS
<1> HIDE DEF E, c, U
<1>7. ASSUME NEW x \in E PROVE b[x] \in Bijection(OnEdge(es, x), 1..c[x])
  <2>1. PICK n \in Nat : ExistsBijection(1..n, OnEdge(es, x))
    BY <1>3, FS_NatBijection
  <2>2. c[x] = n
    BY <1>1, <2>1, FS_CountingElements
  <2>3. ExistsBijection(OnEdge(es, x), 1..c[x])
    BY <2>1, <2>2, Fun_ExistsBijSymmetric
  <2>4. \E f : f \in Bijection(OnEdge(es, x), 1..c[x])
    BY <2>3 DEF ExistsBijection
  <2> QED BY <2>4
<1> HIDE DEF b
<1>8. ASSUME NEW x \in E
      PROVE  /\ \A e \in OnEdge(es, x) : b[x][e] \in 1..c[x]
             /\ \A e, d \in OnEdge(es, x) : b[x][e] = b[x][d] => e = d
             /\ \A n \in 1..c[x] : \E e \in OnEdge(es, x) : b[x][e] = n
  BY <1>7 DEF Bijection, Injection, IsInjective, Surjection
<1>9. h \in [Direct(es) -> U]
  BY <1>4, <1>5, <1>8
<1>10. ASSUME NEW e \in Direct(es), NEW d \in Direct(es), h[e] = h[d] PROVE e = d
  <2>1. <<e.from, e.to>> = <<d.from, d.to>> /\ b[<<e.from, e.to>>][e] = b[<<d.from, d.to>>][d]
    BY <1>10
  <2> QED BY <1>4, <1>8, <2>1
<1>11. ASSUME NEW u \in U PROVE \E e \in Direct(es) : h[e] = u
  <2>1. PICK x \in E : \E n \in 1..c[x] : u = <<x, n>>
    BY <1>6
  <2>2. PICK n \in 1..c[x] : u = <<x, n>>
    BY <2>1
  <2>3. PICK e \in OnEdge(es, x) : b[x][e] = n
    BY <1>8
  <2> QED BY <1>4, <2>2, <2>3
<1> HIDE DEF h
<1>12. h \in Bijection(Direct(es), U)
  BY <1>9, <1>10, <1>11 DEF Bijection, Injection, IsInjective, Surjection
<1>13. Cardinality(U) = Cardinality(Direct(es))
  BY <1>3, <1>12, FS_Bijection DEF ExistsBijection
<1> QED BY <1>1, <1>13 DEF Total, U, c

(* A conversation's direct messages are those of the pair's two edges.      *)
LEMMA PagesShowTheSame == ASSUME LatestInv PROVE PagesAgree
<1> DEFINE es == Entries(feed)
<1>1. IsFiniteSet(es)
  BY FeedEntries
<1> HIDE DEF es
<1>2. Filtered(es, Nobody, "direct", "all") = Direct(es)
  BY DEF Filtered, PassesKind, PassesType, Direct, CountedOnEdge
<1>3. ASSUME NEW a \in Peers, NEW b \in Peers, a # b
      PROVE  Cardinality(Filtered(Exchanged(NonTopic(es), a, b), Nobody, "direct", "all"))
               = Weight(EdgeCounts(es), <<a, b>>) + Weight(EdgeCounts(es), <<b, a>>)
  <2> DEFINE A == OnEdge(es, <<a, b>>)
             B == OnEdge(es, <<b, a>>)
  <2>1. Filtered(Exchanged(NonTopic(es), a, b), Nobody, "direct", "all") = A \cup B
    BY DEF Filtered, Exchanged, NonTopic, PassesKind, PassesType, OnEdge, CountedOnEdge
  <2>2. A \cap B = {} /\ A \in SUBSET es /\ B \in SUBSET es
    BY <1>3 DEF OnEdge
  <2> HIDE DEF A, B
  <2>3. /\ IsFiniteSet(A) /\ IsFiniteSet(B)
        /\ Cardinality(A) \in Nat /\ Cardinality(B) \in Nat
    BY <1>1, <2>2, FS_Subset, FS_CardinalityType
  <2>4. Cardinality(A \cup B) = Cardinality(A) + Cardinality(B) - Cardinality({})
    BY <2>2, <2>3, FS_Union
  <2>5. Cardinality(A \cup B) = Cardinality(A) + Cardinality(B)
    BY <2>3, <2>4, FS_EmptySet
  <2> QED BY <2>1, <2>5, WeightLemma DEF A, B
<1> QED BY <1>1, <1>2, <1>3, TotalLemma DEF PagesAgree, es

(* Whatever the dashboard is told, in whatever order and however much of it  *)
(* the feed has dropped, its pages show the same messages, each in one place *)
(* (ViewsAgree).                                                           *)
THEOREM ViewsSafety == SpecFeed => []ViewsAgree
<1>1. LatestInv => ViewsAgree
  BY KindsPart, PagesShowTheSame, RepliesInThread, DotsAreOne DEF ViewsAgree, LatestInv
<1> QED BY <1>1, InitLatest, NextLatest, PTL DEF SpecFeed
=============================================================================
