-------------------------- MODULE Connections_proofs --------------------------
(***************************************************************************)
(* The registry, the broadcast map, the presence keys and a dashboard's    *)
(* list agree for any numbers of instances, sockets, updates and removals: *)
(* in the line of the Redis connection, whoever is yet to undo a change of *)
(* an instance has behind it whoever made the change that came last.       *)
(***************************************************************************)
EXTENDS Connections, RedisLists_proofs

(* A handler has a command in the line exactly while it is at work.         *)
In(h) == h \in Elements(waiting)
LineInv ==
  /\ Distinct(waiting)
  /\ \A s \in Sockets : /\ In(<<"open", s>>) <=> opening[s] \in {"register", "topics"}
                        /\ In(<<"close", s>>) <=> closing[s] = "expire"
  /\ \A u \in Updates : In(<<"update", u>>) <=> updating[u] \in {"migrate", "register", "offline"}
  /\ \A r \in Removals : In(<<"remove", r>>) <=> removing[r] \in {"unsubscribe", "del"}
  /\ \A i \in Instances : In(<<"scan", i>>) => i \in toScan

(* A socket, an update and a removal know whom they are about.              *)
ArgumentInv ==
  /\ \A s \in Sockets : /\ sock[s] = "free" => opening[s] = "no"
                        /\ sock[s] # "free" => instanceId[s] \in Instances
                        /\ opening[s] # "no" => openedAs[s] \in Instances
                        /\ sock[s] # "closed" => closing[s] = "no"
                        /\ closing[s] # "no" => closedAs[s] \in Instances
  /\ \A u \in Updates :
       updating[u] # "no" => via[u] \in Sockets /\ oldId[u] \in Instances /\ newId[u] \in Instances
  /\ \A r \in Removals : IF removing[r] = "no" THEN target[r] = None ELSE target[r] \in Instances

TInv == TypeOK /\ LineInv /\ ArgumentInv

(* Who is about to attach a socket to i, to show i as online, to detach it, *)
(* and to delete its presence key.                                         *)
Attachers(i) ==
  { <<"open", s>> : s \in { t \in Sockets : opening[t] = "register" /\ openedAs[t] = i } }
    \cup { <<"update", u>> : u \in { v \in Updates : updating[v] = "register" /\ newId[v] = i } }
Announcers(i) ==
  { <<"open", s>> : s \in { t \in Sockets : opening[t] \in {"register", "topics"} /\ openedAs[t] = i } }
    \cup { <<"update", u>> : u \in { v \in Updates : updating[v] \in {"register", "offline"} /\ newId[v] = i } }
Detachers(i) ==
  { <<"close", s>> : s \in { t \in Sockets : closing[t] = "expire" /\ closedAs[t] = i } }
    \cup { <<"update", u>> : u \in { v \in Updates : updating[v] = "offline" /\ oldId[v] = i } }
Deleters(i) == { <<"remove", r>> : r \in { q \in Removals : removing[q] = "del" /\ target[q] = i } }

(* Behind everyone of S there is someone of T.                              *)
Followed(line, S, T) == \A g \in S : \E h \in T : Precedes(line, g, h)

(* The status of an instance is the last thing that was decided about it:   *)
(* what a record does not show yet is still to come, and comes last.       *)
Online(i) ==
  status[i] = "online" =>
    /\ wsRef[i] = None \/ i \notin presence => Attachers(i) # {}
    /\ shown[i] # "online" => Announcers(i) # {}
    /\ Followed(waiting, Detachers(i) \cup Deleters(i), Attachers(i))
Removed(i) == \E r \in Removals : target[r] = i
Offline(i) ==
  status[i] # "online" /\ ~Removed(i) =>
    /\ wsRef[i] # None => Detachers(i) # {}
    /\ Followed(waiting, Attachers(i), Detachers(i))
Absent(i) ==
  status[i] = "absent" =>
    /\ wsRef[i] = None
    /\ i \in presence /\ i \notin toScan => Deleters(i) # {}
    /\ Followed(waiting, Attachers(i), Deleters(i))
RecordsOK(i) == Online(i) /\ Offline(i) /\ Absent(i) /\ RefMatchesBroadcast(i)
RecordsInv   == \A i \in Instances : RecordsOK(i)

-----------------------------------------------------------------------------
(* What a step does to the line.                                           *)
LEMMA LineLemma ==
  ASSUME NEW X, NEW u \in Seq(X), Distinct(u), NEW h \in X
  PROVE  /\ u # << >> /\ Head(u) = h =>
              /\ h \in Elements(u)
              /\ Tail(u) \in Seq(X) /\ Distinct(Tail(u)) /\ Elements(Tail(u)) = Elements(u) \ {h}
              /\ /\ Append(Tail(u), h) \in Seq(X) /\ Distinct(Append(Tail(u), h))
                 /\ Elements(Append(Tail(u), h)) = Elements(u)
         /\ h \notin Elements(u) =>
              /\ Append(u, h) \in Seq(X) /\ Distinct(Append(u, h))
              /\ Elements(Append(u, h)) = Elements(u) \cup {h}
<1>1. ASSUME u # << >>, Head(u) = h
      PROVE  /\ h \in Elements(u)
             /\ Tail(u) \in Seq(X) /\ Distinct(Tail(u)) /\ Elements(Tail(u)) = Elements(u) \ {h}
             /\ /\ Append(Tail(u), h) \in Seq(X) /\ Distinct(Append(Tail(u), h))
                /\ Elements(Append(Tail(u), h)) = Elements(u)
  <2>1. h \in Elements(u)
    BY <1>1, PrecedesLemma
  <2>2. Tail(u) = LPop(u)
    BY <1>1 DEF LPop
  <2>3. /\ LPop(u) \in Seq(X) /\ Distinct(LPop(u)) /\ h \notin Elements(LPop(u))
        /\ Elements(u) = Elements(LPop(u)) \cup {h}
    BY <1>1, LPopLemma
  <2>4. /\ Append(Tail(u), h) \in Seq(X) /\ Distinct(Append(Tail(u), h))
        /\ Elements(Append(Tail(u), h)) = Elements(u)
    BY <1>1, HeadToEnd
  <2> QED BY <2>1, <2>2, <2>3, <2>4
<1>2. h \notin Elements(u) =>
        /\ Append(u, h) \in Seq(X) /\ Distinct(Append(u, h))
        /\ Elements(Append(u, h)) = Elements(u) \cup {h}
  BY RPushLemma DEF RPush
<1> QED BY <1>1, <1>2

(* Whoever is followed stays so when the head leaves or goes to the end,    *)
(* and a head that goes to the end follows everyone else.                   *)
LEMMA FollowedAnswered ==
  ASSUME NEW X, NEW u \in Seq(X), Distinct(u), u # << >>, NEW S, NEW T, NEW S1, NEW T1, NEW w
  PROVE  /\ /\ w = Tail(u) \/ w = Append(Tail(u), Head(u))
            /\ Followed(u, S, T) /\ S1 \subseteq S \ {Head(u)} /\ T \ {Head(u)} \subseteq T1
            => Followed(w, S1, T1)
         /\ /\ w = Append(Tail(u), Head(u))
            /\ S1 \subseteq Elements(u) \ {Head(u)} /\ Head(u) \in T1
            => Followed(w, S1, T1)
<1> DEFINE e == Head(u)
<1>1. \A g : ~Precedes(u, g, e)
  BY PrecedesLemma
<1>2. /\ \A g, k : g # e => (Precedes(Tail(u), g, k) <=> Precedes(u, g, k))
      /\ \A g, k : g # e /\ k # e => (Precedes(Append(Tail(u), e), g, k) <=> Precedes(u, g, k))
      /\ \A g : Precedes(Append(Tail(u), e), g, e) <=> g \in Elements(u) \ {e}
  BY HeadToEnd, PrecedesLPop DEF LPop
<1> HIDE DEF e
<1>3. ASSUME w = Tail(u) \/ w = Append(Tail(u), e),
             Followed(u, S, T), S1 \subseteq S \ {e}, T \ {e} \subseteq T1
      PROVE  Followed(w, S1, T1)
  <2> SUFFICES ASSUME NEW g \in S1 PROVE \E k \in T1 : Precedes(w, g, k)
    BY DEF Followed
  <2>1. PICK k \in T : Precedes(u, g, k)
    BY <1>3 DEF Followed
  <2>2. g # e /\ k # e /\ k \in T1
    BY <1>1, <1>3, <2>1
  <2> QED BY <1>2, <1>3, <2>1, <2>2
<1>4. ASSUME w = Append(Tail(u), e), S1 \subseteq Elements(u) \ {e}, e \in T1
      PROVE  Followed(w, S1, T1)
  BY <1>2, <1>4 DEF Followed
<1> QED BY <1>3, <1>4 DEF e

(* The same for a command that comes to the end of the line.                *)
LEMMA FollowedAwaits ==
  ASSUME NEW X, NEW u \in Seq(X), Distinct(u), NEW h \in X, h \notin Elements(u),
         NEW S, NEW T, NEW S1, NEW T1
  PROVE  /\ Followed(u, S, T) /\ S1 \subseteq S /\ T \subseteq T1 => Followed(Append(u, h), S1, T1)
         /\ S1 \subseteq Elements(u) /\ h \in T1 => Followed(Append(u, h), S1, T1)
<1>1. /\ \A g, k : k # h => (Precedes(Append(u, h), g, k) <=> Precedes(u, g, k))
      /\ \A g : Precedes(Append(u, h), g, h) <=> g \in Elements(u)
  BY PrecedesRPush DEF RPush
<1>2. \A g, k : Precedes(u, g, k) => k # h
  BY PrecedesLemma
<1> QED BY <1>1, <1>2 DEF Followed

LEMMA StepLine ==
  ASSUME TypeOK, LineInv, NEW h \in Handlers
  PROVE  /\ Answered(h) => In(h)
         /\ Answered(h) /\ Resolved =>
              waiting' \in Seq(Handlers) /\ Distinct(waiting)' /\ \A g : In(g)' <=> In(g) /\ g # h
         /\ Answered(h) /\ AwaitAgain(h) =>
              waiting' \in Seq(Handlers) /\ Distinct(waiting)' /\ \A g : In(g)' <=> In(g)
         /\ ~In(h) /\ Await(h) =>
              waiting' \in Seq(Handlers) /\ Distinct(waiting)' /\ \A g : In(g)' <=> In(g) \/ g = h
<1>1. waiting \in Seq(Handlers) /\ Distinct(waiting)
  BY DEF TypeOK, LineInv
<1>2. Answered(h) => In(h)
  BY <1>1, LineLemma DEF Answered, In
<1>3. Answered(h) /\ Resolved =>
        waiting' \in Seq(Handlers) /\ Distinct(waiting)' /\ \A g : In(g)' <=> In(g) /\ g # h
  <2> SUFFICES ASSUME Answered(h) /\ Resolved
               PROVE  /\ waiting' \in Seq(Handlers) /\ Distinct(waiting')
                      /\ Elements(waiting') = Elements(waiting) \ {h}
    BY <1>2 DEF In
  <2>1. waiting' = Tail(waiting) /\ waiting # << >> /\ Head(waiting) = h
    BY DEF Answered, Resolved, In
  <2> QED BY <1>1, <2>1, LineLemma
<1>4. Answered(h) /\ AwaitAgain(h) =>
        waiting' \in Seq(Handlers) /\ Distinct(waiting)' /\ \A g : In(g)' <=> In(g)
  <2> SUFFICES ASSUME Answered(h) /\ AwaitAgain(h)
               PROVE  /\ waiting' \in Seq(Handlers) /\ Distinct(waiting')
                      /\ Elements(waiting') = Elements(waiting)
    BY <1>2 DEF In
  <2>1. waiting' = Append(Tail(waiting), h) /\ waiting # << >> /\ Head(waiting) = h
    BY DEF Answered, AwaitAgain, In
  <2> QED BY <1>1, <2>1, LineLemma
<1>5. ~In(h) /\ Await(h) =>
        waiting' \in Seq(Handlers) /\ Distinct(waiting)' /\ \A g : In(g)' <=> In(g) \/ g = h
  <2> SUFFICES ASSUME ~In(h) /\ Await(h)
               PROVE  /\ waiting' \in Seq(Handlers) /\ Distinct(waiting')
                      /\ Elements(waiting') = Elements(waiting) \cup {h}
    BY <1>2 DEF In
  <2>1. waiting' = Append(waiting, h) /\ h \notin Elements(waiting)
    BY DEF Await, In
  <2> QED BY <1>1, <2>1, LineLemma
<1> QED BY <1>2, <1>3, <1>4, <1>5

LEMMA InitType == Init => TInv
BY ConnectionAssumptions
   DEF Init, TInv, TypeOK, LineInv, ArgumentInv, In, Distinct, Elements, Handlers

LEMMA OpenType ==
  ASSUME TInv, NEW s \in Sockets,
         (\E i \in Instances : OpenRegister(s, i)) \/ OpenAttach(s) \/ OpenTopics(s)
  PROVE  TInv'
<1> DEFINE h == <<"open", s>>
<1>1. TypeOK /\ LineInv /\ ArgumentInv /\ h \in Handlers
  BY DEF TInv, Handlers
<1>2. ASSUME NEW i \in Instances, OpenRegister(s, i) PROVE TInv'
  <2>1. ~In(h) /\ Await(h)
    BY <1>1, <1>2 DEF OpenRegister, LineInv, ArgumentInv
  <2>2. waiting' \in Seq(Handlers) /\ Distinct(waiting)' /\ \A g : In(g)' <=> In(g) \/ g = h
    BY <1>1, <2>1, StepLine
  <2>3. TypeOK'
    BY <1>1, <1>2, <2>2 DEF TypeOK, OpenRegister, Register, closes, updates, removals
  <2>4. LineInv'
    BY <1>1, <1>2, <2>2 DEF TypeOK, LineInv, OpenRegister, closes, updates, removals
  <2>5. ArgumentInv'
    BY <1>1, <1>2 DEF TypeOK, ArgumentInv, OpenRegister, closes, updates, removals
  <2> QED BY <2>3, <2>4, <2>5 DEF TInv
<1>3. ASSUME OpenAttach(s) \/ OpenTopics(s) PROVE TInv'
  <2>1. Answered(h) /\ openedAs[s] \in Instances
    BY <1>1, <1>3, StepLine DEF OpenAttach, OpenTopics, LineInv, ArgumentInv
  <2>2. /\ waiting' \in Seq(Handlers) /\ Distinct(waiting)'
        /\ (\A g : In(g)' <=> In(g)) \/ (Resolved /\ \A g : In(g)' <=> In(g) /\ g # h)
    BY <1>1, <1>3, <2>1, StepLine DEF OpenAttach, OpenTopics
  <2>3. TypeOK'
    <3>1. CASE OpenAttach(s)
      BY <1>1, <2>1, <2>2, <3>1 DEF TypeOK, OpenAttach, Referring, Listed, sockets, closes, updates, removals
    <3>2. CASE OpenTopics(s)
      BY <1>1, <2>1, <2>2, <3>2 DEF TypeOK, OpenTopics, JoinedShown, registry, sockets, closes, updates, removals
    <3> QED BY <1>3, <3>1, <3>2
  <2>4. LineInv'
    <3>1. CASE OpenAttach(s)
      <4>1. \A g : In(g)' <=> In(g)
        BY <1>1, <2>1, <3>1, StepLine DEF OpenAttach
      <4> QED BY <1>1, <2>2, <3>1, <4>1 DEF TypeOK, LineInv, OpenAttach, sockets, closes, updates, removals
    <3>2. CASE OpenTopics(s) /\ AwaitAgain(h) /\ UNCHANGED opening
      <4>1. \A g : In(g)' <=> In(g)
        BY <1>1, <2>1, <3>2, StepLine
      <4> QED BY <1>1, <2>2, <3>2, <4>1 DEF TypeOK, LineInv, OpenTopics, sockets, closes, updates, removals
    <3>3. CASE OpenTopics(s) /\ Resolved /\ opening' = [opening EXCEPT ![s] = "done"]
      <4>1. \A g : In(g)' <=> In(g) /\ g # h
        BY <1>1, <2>1, <3>3, StepLine
      <4> QED BY <1>1, <2>2, <3>3, <4>1 DEF TypeOK, LineInv, OpenTopics, sockets, closes, updates, removals
    <3> QED BY <1>3, <3>1, <3>2, <3>3 DEF OpenTopics
  <2>5. ArgumentInv'
    BY <1>1, <1>3, <2>1 DEF TypeOK, ArgumentInv, OpenAttach, OpenTopics, sockets, closes, updates, removals
  <2> QED BY <2>3, <2>4, <2>5 DEF TInv
<1> QED BY <1>2, <1>3

LEMMA CloseType ==
  ASSUME TInv, NEW s \in Sockets, PeerDies(s) \/ CloseMarkOffline(s) \/ CloseDetach(s)
  PROVE  TInv'
<1> DEFINE h == <<"close", s>>
<1>1. TypeOK /\ LineInv /\ ArgumentInv /\ h \in Handlers
  BY DEF TInv, Handlers
<1>2. CASE PeerDies(s)
  BY <1>1, <1>2 DEF TInv, TypeOK, LineInv, ArgumentInv, In, PeerDies, registry, opens, closes, updates, removals
<1>3. CASE CloseMarkOffline(s)
  <2>1. ~In(h) /\ instanceId[s] \in Instances
    BY <1>1, <1>3 DEF CloseMarkOffline, LineInv, ArgumentInv
  <2>2. waiting' \in Seq(Handlers)
    BY <1>1, <1>3, <2>1, StepLine DEF CloseMarkOffline, TypeOK
  <2>3. TypeOK'
    BY <1>1, <1>3, <2>1, <2>2
       DEF TypeOK, CloseMarkOffline, MarkedOffline, Unlisted, LeftShown, opens, updates, removals
  <2>4. LineInv'
    <3>1. CASE Await(h) /\ closing' = [closing EXCEPT ![s] = "expire"]
      <4>1. Distinct(waiting)' /\ \A g : In(g)' <=> In(g) \/ g = h
        BY <1>1, <2>1, <3>1, StepLine
      <4> QED BY <1>1, <1>3, <3>1, <4>1 DEF TypeOK, LineInv, CloseMarkOffline, opens, updates, removals
    <3>2. CASE UNCHANGED waiting /\ closing' = [closing EXCEPT ![s] = "done"]
      BY <1>1, <1>3, <2>1, <3>2 DEF TypeOK, LineInv, In, CloseMarkOffline, opens, updates, removals
    <3> QED BY <1>3, <3>1, <3>2 DEF CloseMarkOffline
  <2>5. ArgumentInv'
    BY <1>1, <1>3, <2>1 DEF TypeOK, ArgumentInv, CloseMarkOffline, opens, updates, removals
  <2> QED BY <2>3, <2>4, <2>5 DEF TInv
<1>4. CASE CloseDetach(s)
  <2>1. Answered(h) /\ closing[s] = "expire" /\ closedAs[s] \in Instances
    BY <1>1, <1>4, StepLine DEF CloseDetach, LineInv, ArgumentInv
  <2>2. waiting' \in Seq(Handlers) /\ Distinct(waiting)' /\ \A g : In(g)' <=> In(g) /\ g # h
    BY <1>1, <1>4, <2>1, StepLine DEF CloseDetach
  <2>3. TypeOK'
    BY <1>1, <1>4, <2>1, <2>2
       DEF TypeOK, CloseDetach, Referring, Unlisted, LeftShown, sockets, opens, updates, removals
  <2>4. LineInv'
    BY <1>1, <1>4, <2>2 DEF TypeOK, LineInv, CloseDetach, sockets, opens, updates, removals
  <2>5. ArgumentInv'
    BY <1>1, <1>4, <2>1 DEF TypeOK, ArgumentInv, CloseDetach, sockets, opens, updates, removals
  <2> QED BY <2>3, <2>4, <2>5 DEF TInv
<1> QED BY <1>2, <1>3, <1>4

LEMMA UpdateType ==
  ASSUME TInv, NEW u \in Updates,
         \/ \E s \in Sockets, j \in Instances : SessionUpdate(u, s, j)
         \/ UpdateRegister(u) \/ UpdateAttach(u) \/ UpdateDetach(u)
  PROVE  TInv'
<1> DEFINE h == <<"update", u>>
<1>1. TypeOK /\ LineInv /\ ArgumentInv /\ h \in Handlers
  BY DEF TInv, Handlers
<1>2. ASSUME NEW s \in Sockets, NEW j \in Instances, SessionUpdate(u, s, j) PROVE TInv'
  <2>1. ~In(h) /\ Await(h) /\ instanceId[s] \in Instances
    BY <1>1, <1>2 DEF SessionUpdate, LineInv, ArgumentInv
  <2>2. waiting' \in Seq(Handlers) /\ Distinct(waiting)' /\ \A g : In(g)' <=> In(g) \/ g = h
    BY <1>1, <2>1, StepLine
  <2>3. TypeOK'
    BY <1>1, <1>2, <2>1, <2>2 DEF TypeOK, SessionUpdate, registry, sockets, opens, closes, removals
  <2>4. LineInv'
    BY <1>1, <1>2, <2>2 DEF TypeOK, LineInv, SessionUpdate, sockets, opens, closes, removals
  <2>5. ArgumentInv'
    BY <1>1, <1>2, <2>1 DEF TypeOK, ArgumentInv, SessionUpdate, sockets, opens, closes, removals
  <2> QED BY <2>3, <2>4, <2>5 DEF TInv
<1>3. ASSUME UpdateRegister(u) \/ UpdateAttach(u) \/ UpdateDetach(u)
      PROVE  Answered(h) /\ via[u] \in Sockets /\ oldId[u] \in Instances /\ newId[u] \in Instances
  BY <1>1, <1>3, StepLine DEF UpdateRegister, UpdateAttach, UpdateDetach, ArgumentInv
<1>4. CASE UpdateRegister(u)
  <2>1. waiting' \in Seq(Handlers) /\ Distinct(waiting)' /\ \A g : In(g)' <=> In(g)
    BY <1>1, <1>3, <1>4, StepLine DEF UpdateRegister
  <2>2. TypeOK'
    BY <1>1, <1>3, <1>4, <2>1
       DEF TypeOK, UpdateRegister, Register, registry, sockets, opens, closes, removals
  <2>3. LineInv'
    BY <1>1, <1>4, <2>1 DEF TypeOK, LineInv, UpdateRegister, sockets, opens, closes, removals
  <2>4. ArgumentInv'
    BY <1>1, <1>3, <1>4 DEF TypeOK, ArgumentInv, UpdateRegister, sockets, opens, closes, removals
  <2> QED BY <2>2, <2>3, <2>4 DEF TInv
<1>5. CASE UpdateAttach(u)
  <2>1. waiting' \in Seq(Handlers)
    BY <1>1, <1>3, <1>5, StepLine DEF UpdateAttach
  <2>2. TypeOK'
    BY <1>1, <1>3, <1>5, <2>1
       DEF TypeOK, UpdateAttach, Listed, Referring, MarkedOffline, SessionShown, opens, closes, removals
  <2>3. LineInv'
    <3>1. CASE AwaitAgain(h) /\ updating' = [updating EXCEPT ![u] = "offline"]
      <4>1. Distinct(waiting)' /\ \A g : In(g)' <=> In(g)
        BY <1>1, <1>3, <1>5, <3>1, StepLine
      <4> QED BY <1>1, <1>5, <3>1, <4>1 DEF TypeOK, LineInv, UpdateAttach, opens, closes, removals
    <3>2. CASE Resolved /\ updating' = [updating EXCEPT ![u] = "done"]
      <4>1. Distinct(waiting)' /\ \A g : In(g)' <=> In(g) /\ g # h
        BY <1>1, <1>3, <1>5, <3>2, StepLine
      <4> QED BY <1>1, <1>5, <3>2, <4>1 DEF TypeOK, LineInv, UpdateAttach, opens, closes, removals
    <3> QED BY <1>5, <3>1, <3>2 DEF UpdateAttach
  <2>4. ArgumentInv'
    BY <1>1, <1>3, <1>5 DEF TypeOK, ArgumentInv, UpdateAttach, opens, closes, removals
  <2> QED BY <2>2, <2>3, <2>4 DEF TInv
<1>6. CASE UpdateDetach(u)
  <2>1. waiting' \in Seq(Handlers) /\ Distinct(waiting)' /\ \A g : In(g)' <=> In(g) /\ g # h
    BY <1>1, <1>3, <1>6, StepLine DEF UpdateDetach
  <2>2. TypeOK'
    BY <1>1, <1>3, <1>6, <2>1
       DEF TypeOK, UpdateDetach, Referring, Unlisted, SessionShown, sockets, opens, closes, removals
  <2>3. LineInv'
    BY <1>1, <1>6, <2>1 DEF TypeOK, LineInv, UpdateDetach, sockets, opens, closes, removals
  <2>4. ArgumentInv'
    BY <1>1, <1>3, <1>6 DEF TypeOK, ArgumentInv, UpdateDetach, sockets, opens, closes, removals
  <2> QED BY <2>2, <2>3, <2>4 DEF TInv
<1> QED BY <1>2, <1>4, <1>5, <1>6

LEMMA RemoveType ==
  ASSUME TInv, NEW r \in Removals,
         (\E i \in Instances : Remove(r, i)) \/ RemoveDeregister(r) \/ RemoveDone(r)
  PROVE  TInv'
<1> DEFINE h == <<"remove", r>>
<1>1. TypeOK /\ LineInv /\ ArgumentInv /\ h \in Handlers
  BY DEF TInv, Handlers
<1>2. ASSUME NEW i \in Instances, Remove(r, i) PROVE TInv'
  <2>1. ~In(h) /\ Await(h)
    BY <1>1, <1>2 DEF Remove, LineInv
  <2>2. waiting' \in Seq(Handlers) /\ Distinct(waiting)' /\ \A g : In(g)' <=> In(g) \/ g = h
    BY <1>1, <2>1, StepLine
  <2>3. TypeOK'
    BY <1>1, <1>2, <2>2 DEF TypeOK, Remove, registry, sockets, opens, closes, updates
  <2>4. LineInv'
    BY <1>1, <1>2, <2>2 DEF TypeOK, LineInv, Remove, sockets, opens, closes, updates
  <2>5. ArgumentInv'
    BY <1>1, <1>2 DEF TypeOK, ArgumentInv, Remove, sockets, opens, closes, updates
  <2> QED BY <2>3, <2>4, <2>5 DEF TInv
<1>3. ASSUME RemoveDeregister(r) \/ RemoveDone(r) PROVE Answered(h) /\ target[r] \in Instances
  BY <1>1, <1>3, StepLine DEF RemoveDeregister, RemoveDone, ArgumentInv
<1>4. CASE RemoveDeregister(r)
  <2>1. waiting' \in Seq(Handlers) /\ Distinct(waiting)' /\ \A g : In(g)' <=> In(g)
    BY <1>1, <1>3, <1>4, StepLine DEF RemoveDeregister
  <2>2. TypeOK'
    BY <1>1, <1>3, <1>4, <2>1 DEF TypeOK, RemoveDeregister, registry, sockets, opens, closes, updates
  <2>3. LineInv'
    BY <1>1, <1>4, <2>1 DEF TypeOK, LineInv, RemoveDeregister, sockets, opens, closes, updates
  <2>4. ArgumentInv'
    BY <1>1, <1>3, <1>4 DEF TypeOK, ArgumentInv, RemoveDeregister, sockets, opens, closes, updates
  <2> QED BY <2>2, <2>3, <2>4 DEF TInv
<1>5. CASE RemoveDone(r)
  <2>1. waiting' \in Seq(Handlers) /\ Distinct(waiting)' /\ \A g : In(g)' <=> In(g) /\ g # h
    BY <1>1, <1>3, <1>5, StepLine DEF RemoveDone
  <2>2. TypeOK'
    BY <1>1, <1>3, <1>5, <2>1
       DEF TypeOK, RemoveDone, Deregistered, registry, sockets, opens, closes, updates
  <2>3. LineInv'
    BY <1>1, <1>5, <2>1 DEF TypeOK, LineInv, RemoveDone, sockets, opens, closes, updates
  <2>4. ArgumentInv'
    BY <1>1, <1>3, <1>5 DEF TypeOK, ArgumentInv, RemoveDone, sockets, opens, closes, updates
  <2> QED BY <2>2, <2>3, <2>4 DEF TInv
<1> QED BY <1>2, <1>4, <1>5

LEMMA ScanType ==
  ASSUME TInv, NEW i \in Instances, ScanGet(i) \/ HydrateOffline(i)
  PROVE  TInv'
<1> DEFINE h == <<"scan", i>>
<1>1. TypeOK /\ LineInv /\ ArgumentInv /\ h \in Handlers
  BY DEF TInv, Handlers
<1>2. CASE ScanGet(i)
  <2>1. ~In(h) /\ Await(h) /\ i \in toScan
    BY <1>2 DEF ScanGet, In, Elements
  <2>2. waiting' \in Seq(Handlers) /\ Distinct(waiting)' /\ \A g : In(g)' <=> In(g) \/ g = h
    BY <1>1, <2>1, StepLine
  <2>3. TypeOK' /\ ArgumentInv'
    BY <1>1, <1>2, <2>2
       DEF TypeOK, ArgumentInv, ScanGet, registry, sockets, opens, closes, updates, removals
  <2>4. LineInv'
    BY <1>1, <1>2, <2>1, <2>2 DEF LineInv, ScanGet, sockets, opens, closes, updates, removals
  <2> QED BY <2>3, <2>4 DEF TInv
<1>3. CASE HydrateOffline(i)
  <2>1. Answered(h)
    BY <1>3 DEF HydrateOffline
  <2>2. waiting' \in Seq(Handlers) /\ Distinct(waiting)' /\ \A g : In(g)' <=> In(g) /\ g # h
    BY <1>1, <1>3, <2>1, StepLine DEF HydrateOffline
  <2>3. TypeOK' /\ ArgumentInv'
    BY <1>1, <1>3, <2>2
       DEF TypeOK, ArgumentInv, HydrateOffline, sockets, opens, closes, updates, removals
  <2>4. LineInv'
    BY <1>1, <1>3, <2>2 DEF LineInv, HydrateOffline, sockets, opens, closes, updates, removals
  <2> QED BY <2>3, <2>4 DEF TInv
<1> QED BY <1>2, <1>3

(* Types, the line and the arguments are kept by every step.                *)
LEMMA NextType == TInv /\ [Next]_vars => TInv'
<1>1. ASSUME TInv, Next PROVE TInv'
  BY <1>1, OpenType, CloseType, UpdateType, RemoveType, ScanType DEF Next
<1>2. ASSUME TInv, UNCHANGED vars PROVE TInv'
  BY <1>2 DEF vars, registry, sockets, opens, closes, updates, removals,
              TInv, TypeOK, LineInv, ArgumentInv, In
<1> QED BY <1>1, <1>2

LEMMA TypeInvariant == Spec => []TInv
BY InitType, NextType, PTL DEF Spec

(* Every variable keeps to its values.                                      *)
THEOREM TypeSafety == Spec => []TypeOK
BY TypeInvariant, PTL DEF TInv

-----------------------------------------------------------------------------
(* All of them are at work; none is of two kinds.                           *)
LEMMA RolesLemma ==
  ASSUME TInv, NEW i
  PROVE  /\ \A g \in Announcers(i) \cup Detachers(i) \cup Deleters(i) : g \in Handlers /\ In(g)
         /\ Attachers(i) \subseteq Announcers(i)
         /\ \A g \in Attachers(i) : g \notin Detachers(i) /\ g \notin Deleters(i)
         /\ \A g \in Detachers(i) : g \notin Deleters(i)
         /\ \A s \in Sockets : <<"close", s>> \notin Announcers(i) \cup Attachers(i) \cup Deleters(i)
         /\ \A s \in Sockets : <<"open", s>> \notin Detachers(i) \cup Deleters(i)
         /\ \A u \in Updates : <<"update", u>> \notin Deleters(i)
         /\ \A r \in Removals : <<"remove", r>> \notin Announcers(i) \cup Attachers(i) \cup Detachers(i)
         /\ \A j \in Instances : <<"scan", j>> \notin Attachers(i) \cup Detachers(i) \cup Deleters(i)
<1> USE DEF Attachers, Announcers, Detachers, Deleters
<1>1. \A g \in Announcers(i) : g \in Handlers /\ In(g)
  BY DEF TInv, LineInv, Handlers
<1>2. \A g \in Detachers(i) : g \in Handlers /\ In(g)
  BY DEF TInv, LineInv, Handlers
<1>3. \A g \in Deleters(i) : g \in Handlers /\ In(g)
  BY DEF TInv, LineInv, Handlers
<1>4. Attachers(i) \subseteq Announcers(i)
  OBVIOUS
<1>5. \A g \in Attachers(i) : g \notin Detachers(i) /\ g \notin Deleters(i)
  OBVIOUS
<1>6. \A g \in Detachers(i) : g \notin Deleters(i)
  OBVIOUS
<1>7. /\ \A s \in Sockets : <<"close", s>> \notin Announcers(i) \cup Attachers(i) \cup Deleters(i)
      /\ \A s \in Sockets : <<"open", s>> \notin Detachers(i) \cup Deleters(i)
      /\ \A u \in Updates : <<"update", u>> \notin Deleters(i)
  OBVIOUS
<1>8. /\ \A r \in Removals : <<"remove", r>> \notin Announcers(i) \cup Attachers(i) \cup Detachers(i)
      /\ \A j \in Instances : <<"scan", j>> \notin Attachers(i) \cup Detachers(i) \cup Deleters(i)
  OBVIOUS
<1> QED BY <1>1, <1>2, <1>3, <1>4, <1>5, <1>6, <1>7, <1>8

LEMMA Kept ==
  ASSUME TInv, NEW h \in Handlers, NEW S, NEW T, NEW S1, NEW T1, Followed(waiting, S, T),
         \/ Answered(h) /\ (Resolved \/ AwaitAgain(h)) /\ S1 \subseteq S \ {h} /\ T \ {h} \subseteq T1
         \/ ~In(h) /\ Await(h) /\ S1 \subseteq S /\ T \subseteq T1
  PROVE  Followed(waiting', S1, T1)
<1>1. waiting \in Seq(Handlers) /\ Distinct(waiting)
  BY DEF TInv, TypeOK, LineInv
<1>2. CASE Answered(h) /\ (Resolved \/ AwaitAgain(h)) /\ S1 \subseteq S \ {h} /\ T \ {h} \subseteq T1
  <2>1. /\ waiting # << >> /\ h = Head(waiting)
        /\ waiting' = Tail(waiting) \/ waiting' = Append(Tail(waiting), h)
    BY <1>2 DEF Answered, Resolved, AwaitAgain
  <2> DEFINE w == waiting'
  <2>2. w = Tail(waiting) \/ w = Append(Tail(waiting), Head(waiting))
    BY <2>1
  <2> HIDE DEF w
  <2>3. Followed(w, S1, T1)
    BY <1>1, <1>2, <2>1, <2>2, FollowedAnswered
  <2> QED BY <2>3 DEF w
<1>3. CASE ~In(h) /\ Await(h) /\ S1 \subseteq S /\ T \subseteq T1
  <2>1. Followed(Append(waiting, h), S1, T1)
    BY <1>1, <1>3, FollowedAwaits DEF In
  <2> QED BY <1>3, <2>1 DEF Await
<1> QED BY <1>2, <1>3

LEMMA ComesLast ==
  ASSUME TInv, NEW h \in Handlers, NEW S1, NEW T1, h \in T1,
         \A g \in S1 : In(g) /\ g # h,
         (Answered(h) /\ AwaitAgain(h)) \/ (~In(h) /\ Await(h))
  PROVE  Followed(waiting', S1, T1)
<1>1. waiting \in Seq(Handlers) /\ Distinct(waiting)
  BY DEF TInv, TypeOK, LineInv
<1>2. CASE Answered(h) /\ AwaitAgain(h)
  <2>1. waiting # << >> /\ h = Head(waiting) /\ waiting' = Append(Tail(waiting), Head(waiting))
    BY <1>2 DEF Answered, AwaitAgain
  <2>2. S1 \subseteq Elements(waiting) \ {Head(waiting)} /\ Head(waiting) \in T1
    BY <2>1 DEF In
  <2>3. Followed(Append(Tail(waiting), Head(waiting)), S1, T1)
    BY <1>1, <2>1, <2>2, FollowedAnswered
  <2> QED BY <2>1, <2>3
<1>3. CASE ~In(h) /\ Await(h)
  <2>1. Followed(Append(waiting, h), S1, T1)
    BY <1>1, <1>3, FollowedAwaits DEF In
  <2> QED BY <1>3, <2>1 DEF Await
<1> QED BY <1>2, <1>3

(* A step that is not about i: its records, and who is to change them, stay; *)
(* what a dashboard shows changes for the better.                           *)
Bystander(i) ==
  /\ status'[i] = status[i] /\ wsRef'[i] = wsRef[i] /\ pluginWs'[i] = pluginWs[i]
  /\ i \in presence' <=> i \in presence
  /\ i \in toScan' <=> i \in toScan
  /\ target' = target \/ Removed(i)' = Removed(i)
  /\ Attachers(i)' = Attachers(i) /\ Detachers(i)' = Detachers(i) /\ Deleters(i)' = Deleters(i)
  /\ \/ shown'[i] = shown[i] /\ Announcers(i)' = Announcers(i)
     \/ shown'[i] = "online"

LEMMA BystanderLemma ==
  ASSUME TInv, NEW i, RecordsOK(i), Bystander(i), NEW h \in Handlers,
         h \notin Attachers(i) \cup Detachers(i) \cup Deleters(i),
         \/ Answered(h) /\ (Resolved \/ AwaitAgain(h))
         \/ ~In(h) /\ Await(h)
         \/ UNCHANGED waiting
  PROVE  RecordsOK(i)'
<1>1. ASSUME NEW S, NEW T, Followed(waiting, S, T), h \notin S, h \notin T
      PROVE  Followed(waiting', S, T)
  <2>1. S \subseteq S \ {h} /\ T \ {h} \subseteq T /\ S \subseteq S /\ T \subseteq T
    BY <1>1
  <2>2. CASE UNCHANGED waiting
    BY <1>1, <2>2
  <2> QED BY <1>1, <2>1, <2>2, Kept
<1> DEFINE A == Attachers(i)
           D == Detachers(i)
           E == Deleters(i)
<1>2. h \notin A /\ h \notin D /\ h \notin E /\ A' = A /\ D' = D /\ E' = E
  BY DEF Bystander
<1>3. Removed(i)' = Removed(i)
  BY DEF Bystander, Removed
<1> HIDE DEF A, D, E
<1>4. /\ Followed(waiting, D \cup E, A) => Followed(waiting', D \cup E, A)
      /\ Followed(waiting, A, D) => Followed(waiting', A, D)
      /\ Followed(waiting, A, E) => Followed(waiting', A, E)
  BY <1>1, <1>2
<1>5. Online(i)'
  <2> SUFFICES ASSUME status'[i] = "online"
               PROVE  /\ wsRef'[i] = None \/ i \notin presence' => A' # {}
                      /\ shown'[i] # "online" => Announcers(i)' # {}
                      /\ Followed(waiting', D' \cup E', A')
    BY DEF Online, A, D, E
  <2>1. status[i] = "online"
    BY DEF Bystander
  <2>2. /\ wsRef[i] = None \/ i \notin presence => A # {}
        /\ shown[i] # "online" => Announcers(i) # {}
        /\ Followed(waiting, D \cup E, A)
    BY <2>1 DEF RecordsOK, Online, A, D, E
  <2> QED BY <1>2, <1>4, <2>2 DEF Bystander
<1>6. Offline(i)'
  <2> SUFFICES ASSUME status'[i] # "online", ~Removed(i)'
               PROVE  /\ wsRef'[i] # None => D' # {}
                      /\ Followed(waiting', A', D')
    BY DEF Offline, A, D
  <2>1. (wsRef[i] # None => D # {}) /\ Followed(waiting, A, D)
    BY <1>3 DEF Bystander, RecordsOK, Offline, A, D
  <2> QED BY <1>2, <1>4, <2>1 DEF Bystander
<1>7. Absent(i)'
  <2> SUFFICES ASSUME status'[i] = "absent"
               PROVE  /\ wsRef'[i] = None
                      /\ i \in presence' /\ i \notin toScan' => E' # {}
                      /\ Followed(waiting', A', E')
    BY DEF Absent, A, E
  <2>1. wsRef[i] = None /\ (i \in presence /\ i \notin toScan => E # {}) /\ Followed(waiting, A, E)
    BY DEF Bystander, RecordsOK, Absent, A, E
  <2> QED BY <1>2, <1>4, <2>1 DEF Bystander
<1>8. RefMatchesBroadcast(i)'
  BY DEF Bystander, RecordsOK, RefMatchesBroadcast
<1> QED BY <1>5, <1>6, <1>7, <1>8 DEF RecordsOK

(* What one handler does to the instance it is about.  It registers it, and *)
(* has yet to attach a socket;                                             *)
LEMMA Registers ==
  ASSUME TInv, NEW i, NEW h \in Handlers,
         (Answered(h) /\ AwaitAgain(h)) \/ (~In(h) /\ Await(h)),
         status'[i] = "online", wsRef'[i] = None, h \in Attachers(i)',
         Detachers(i)' = Detachers(i), Deleters(i)' = Deleters(i), h \notin Detachers(i) \cup Deleters(i)
  PROVE  RecordsOK(i)'
<1> DEFINE A == Attachers(i)
           D == Detachers(i)
           E == Deleters(i)
<1>1. /\ \A g \in D \cup E : In(g)
      /\ h \in A' /\ h \notin D \cup E /\ D' = D /\ E' = E
  BY RolesLemma
<1>2. Announcers(i)' # {}
  BY DEF Attachers, Announcers
<1> HIDE DEF A, D, E
<1>3. Followed(waiting', D \cup E, A')
  BY <1>1, ComesLast
<1>4. Followed(waiting', D' \cup E', A')
  BY <1>1, <1>3
<1>5. Online(i)'
  BY <1>1, <1>2, <1>4 DEF Online, A, D, E
<1>6. Offline(i)' /\ Absent(i)' /\ RefMatchesBroadcast(i)'
  BY DEF Offline, Absent, RefMatchesBroadcast
<1> QED BY <1>5, <1>6 DEF RecordsOK

(* it attaches one, and what it would have undone is undone by others;      *)
LEMMA Attaches ==
  ASSUME TInv, NEW i, RecordsOK(i), NEW h \in Handlers, h \in Attachers(i),
         Answered(h), Resolved \/ AwaitAgain(h), NEW s \in Sockets,
         status'[i] = status[i], wsRef'[i] = IF Registered(i) THEN s ELSE wsRef[i], pluginWs'[i] = s,
         i \in presence', Removed(i)' = Removed(i),
         Attachers(i)' = Attachers(i) \ {h}, Detachers(i)' = Detachers(i), Deleters(i)' = Deleters(i),
         (shown'[i] = shown[i] /\ Announcers(i)' = Announcers(i)) \/ shown'[i] = "online"
  PROVE  RecordsOK(i)'
<1> USE ConnectionAssumptions
<1> DEFINE A == Attachers(i)
           D == Detachers(i)
           E == Deleters(i)
<1>1. h \in A /\ h \notin D /\ h \notin E /\ A' = A \ {h} /\ D' = D /\ E' = E
  BY RolesLemma
<1> HIDE DEF A, D, E
<1>2. ASSUME NEW S, Followed(waiting, A, S), h \notin S PROVE S # {} /\ Followed(waiting', A \ {h}, S)
  <2>1. A \ {h} \subseteq A \ {h} /\ S \ {h} \subseteq S
    OBVIOUS
  <2>2. Followed(waiting', A \ {h}, S)
    BY <1>2, <2>1, Kept
  <2> QED BY <1>1, <1>2, <2>2 DEF Followed
<1>3. Online(i)'
  <2> SUFFICES ASSUME status[i] = "online"
               PROVE  /\ wsRef'[i] = None \/ i \notin presence' => A' # {}
                      /\ shown'[i] # "online" => Announcers(i)' # {}
                      /\ Followed(waiting', D' \cup E', A')
    BY DEF Online, A, D, E
  <2>1. (shown[i] # "online" => Announcers(i) # {}) /\ Followed(waiting, D \cup E, A)
    BY DEF RecordsOK, Online, A, D, E
  <2>2. D \cup E \subseteq (D \cup E) \ {h} /\ A \ {h} \subseteq A \ {h}
    BY <1>1
  <2>3. Followed(waiting', D \cup E, A \ {h})
    BY <2>1, <2>2, Kept
  <2> QED BY <1>1, <2>1, <2>3 DEF Registered
<1>4. Offline(i)'
  <2> SUFFICES ASSUME status[i] # "online", ~Removed(i)
               PROVE  D' # {} /\ Followed(waiting', A', D')
    BY DEF Offline, A, D
  <2>1. Followed(waiting, A, D)
    BY DEF RecordsOK, Offline, A, D
  <2> QED BY <1>1, <1>2, <2>1
<1>5. Absent(i)'
  <2> SUFFICES ASSUME status[i] = "absent"
               PROVE  wsRef'[i] = None /\ E' # {} /\ Followed(waiting', A', E')
    BY DEF Absent, A, E
  <2>1. wsRef[i] = None /\ Followed(waiting, A, E)
    BY DEF RecordsOK, Absent, A, E
  <2> QED BY <1>1, <1>2, <2>1 DEF Registered
<1>6. RefMatchesBroadcast(i)'
  BY DEF RecordsOK, Absent, Registered, RefMatchesBroadcast
<1> QED BY <1>3, <1>4, <1>5, <1>6 DEF RecordsOK

(* it marks it offline, and has yet to detach the socket;                   *)
LEMMA GoesOffline ==
  ASSUME TInv, NEW i, NEW h \in Handlers,
         (Answered(h) /\ AwaitAgain(h)) \/ (~In(h) /\ Await(h)),
         status'[i] = "offline", h \in Detachers(i)', Attachers(i)' = Attachers(i) \ {h},
         RefMatchesBroadcast(i)'
  PROVE  RecordsOK(i)'
<1> DEFINE A == Attachers(i)
           D == Detachers(i)
<1>1. (\A g \in A \ {h} : In(g) /\ g # h) /\ A' = A \ {h} /\ h \in D'
  BY RolesLemma
<1> HIDE DEF A, D
<1>2. Followed(waiting', A \ {h}, D')
  BY <1>1, ComesLast
<1>3. Offline(i)'
  BY <1>1, <1>2 DEF Offline, A, D
<1>4. Online(i)' /\ Absent(i)'
  BY DEF Online, Absent
<1> QED BY <1>3, <1>4 DEF RecordsOK

(* it detaches it, or deletes the key, while another is to follow if the    *)
(* instance is online by now.                                              *)
LEMMA Undoes ==
  ASSUME TInv, NEW i, RecordsOK(i), NEW h \in Handlers, h \in Detachers(i) \cup Deleters(i),
         Answered(h), Resolved, status'[i] = status[i],
         wsRef'[i] = wsRef[i] \/ (h \in Detachers(i) /\ wsRef'[i] = None), RefMatchesBroadcast(i)',
         h \in Detachers(i) /\ Registered(i) => wsRef'[i] = None,
         h \notin Deleters(i) => (i \in presence' <=> i \in presence),
         h \in Deleters(i) => i \notin presence' /\ Removed(i)',
         Removed(i)' = Removed(i), i \in toScan' <=> i \in toScan,
         Attachers(i)' = Attachers(i), Detachers(i)' = Detachers(i) \ {h}, Deleters(i)' = Deleters(i) \ {h}
  PROVE  RecordsOK(i)'
<1> DEFINE A == Attachers(i)
           D == Detachers(i)
           E == Deleters(i)
<1>1. /\ h \in D \cup E /\ h \notin A /\ (h \notin D \/ h \notin E)
      /\ A' = A /\ D' = D \ {h} /\ E' = E \ {h}
  BY RolesLemma
<1>2. A # {} => Announcers(i)' # {}
  BY DEF Attachers, Announcers
<1> HIDE DEF A, D, E
<1>3. Online(i)'
  <2> SUFFICES ASSUME status[i] = "online"
               PROVE  A' # {} /\ Announcers(i)' # {} /\ Followed(waiting', D' \cup E', A')
    BY DEF Online, A, D, E
  <2>1. Followed(waiting, D \cup E, A)
    BY DEF RecordsOK, Online, A, D, E
  <2>2. A # {}
    BY <1>1, <2>1 DEF Followed
  <2>3. (D \ {h}) \cup (E \ {h}) \subseteq (D \cup E) \ {h} /\ A \ {h} \subseteq A
    OBVIOUS
  <2>4. Followed(waiting', (D \ {h}) \cup (E \ {h}), A)
    BY <2>1, <2>3, Kept
  <2> QED BY <1>1, <1>2, <2>2, <2>4
<1>4. Offline(i)'
  <2> SUFFICES ASSUME status[i] # "online", ~Removed(i)
               PROVE  (wsRef'[i] # None => D' # {}) /\ Followed(waiting', A', D')
    BY DEF Offline, A, D
  <2>1. Followed(waiting, A, D) /\ h \in D
    BY <1>1 DEF RecordsOK, Offline, A, D, E
  <2>2. A \subseteq A \ {h} /\ D \ {h} \subseteq D \ {h}
    BY <1>1
  <2>3. Followed(waiting', A, D \ {h})
    BY <2>1, <2>2, Kept
  <2>4. wsRef'[i] = None
    BY <2>1 DEF RecordsOK, Absent, Registered, D
  <2> QED BY <1>1, <2>3, <2>4
<1>5. Absent(i)'
  <2> SUFFICES ASSUME status[i] = "absent"
               PROVE  /\ wsRef'[i] = None
                      /\ i \in presence' /\ i \notin toScan' => E' # {}
                      /\ Followed(waiting', A', E')
    BY DEF Absent, A, E
  <2>1. wsRef[i] = None /\ (i \in presence /\ i \notin toScan => E # {}) /\ Followed(waiting, A, E)
    BY DEF RecordsOK, Absent, A, E
  <2>2. A \subseteq A \ {h} /\ E \ {h} \subseteq E \ {h}
    BY <1>1
  <2>3. Followed(waiting', A, E \ {h})
    BY <2>1, <2>2, Kept
  <2>4. i \in presence' /\ i \notin toScan' => E \ {h} # {}
    BY <1>1, <2>1 DEF E
  <2> QED BY <1>1, <2>1, <2>3, <2>4
<1> QED BY <1>3, <1>4, <1>5 DEF RecordsOK

-----------------------------------------------------------------------------
(* The steps.                                                              *)
LEMMA OpenRecords ==
  ASSUME TInv, NEW s \in Sockets, NEW i \in Instances, RecordsOK(i),
         (\E j \in Instances : OpenRegister(s, j)) \/ OpenAttach(s) \/ OpenTopics(s)
  PROVE  RecordsOK(i)'
<1> DEFINE h == <<"open", s>>
<1> USE DEF closes, updates, removals
<1>1. TypeOK /\ LineInv /\ ArgumentInv /\ h \in Handlers
  BY DEF TInv, Handlers
<1>2. h \notin Detachers(i) \cup Deleters(i)
  BY RolesLemma
<1>3. ASSUME NEW j \in Instances, OpenRegister(s, j) PROVE RecordsOK(i)'
  <2>1. ~In(h) /\ Await(h) /\ opening[s] = "no"
    BY <1>1, <1>3 DEF OpenRegister, LineInv, ArgumentInv
  <2>2. Detachers(i)' = Detachers(i) /\ Deleters(i)' = Deleters(i)
    BY <1>3 DEF OpenRegister, Detachers, Deleters
  <2>3. CASE i = j
    <3>1. h \in Attachers(i)'
      BY <1>1, <1>3, <2>3 DEF OpenRegister, Attachers, TypeOK
    <3>2. status'[i] = "online" /\ wsRef'[i] = None
      BY <1>1, <1>3, <2>3 DEF OpenRegister, Register, TypeOK
    <3> QED BY <1>1, <1>2, <2>1, <2>2, <3>1, <3>2, Registers
  <2>4. CASE i # j
    <3>1. Attachers(i)' = Attachers(i) /\ Announcers(i)' = Announcers(i) /\ h \notin Attachers(i)
      BY <1>1, <1>3, <2>1, <2>4 DEF OpenRegister, Attachers, Announcers, TypeOK
    <3>2. Bystander(i)
      BY <1>1, <1>3, <2>2, <2>4, <3>1 DEF OpenRegister, Register, Bystander, TypeOK
    <3> QED BY <1>1, <1>2, <2>1, <3>1, <3>2, BystanderLemma
  <2> QED BY <2>3, <2>4
<1>4. ASSUME OpenAttach(s) PROVE RecordsOK(i)'
  <2>1. Answered(h) /\ AwaitAgain(h) /\ opening[s] = "register" /\ Detachers(i)' = Detachers(i) /\ Deleters(i)' = Deleters(i)
    BY <1>4 DEF OpenAttach, Detachers, Deleters
  <2>2. Announcers(i)' = Announcers(i)
    BY <1>1, <1>4 DEF OpenAttach, Announcers, TypeOK
  <2>3. Attachers(i)' = Attachers(i) \ {h} /\ (h \in Attachers(i) <=> openedAs[s] = i)
    BY <1>1, <1>4 DEF OpenAttach, Attachers, TypeOK
  <2>4. CASE openedAs[s] = i
    <3>1. /\ status'[i] = status[i] /\ pluginWs'[i] = s
          /\ wsRef'[i] = IF Registered(i) THEN s ELSE wsRef[i]
          /\ i \in presence' /\ Removed(i)' = Removed(i) /\ shown'[i] = shown[i]
      BY <1>1, <1>4, <2>4 DEF OpenAttach, Referring, Listed, Removed, TypeOK
    <3> QED BY <1>1, <2>1, <2>2, <2>3, <2>4, <3>1, Attaches
  <2>5. CASE openedAs[s] # i
    <3>1. Bystander(i)
      BY <1>1, <1>4, <2>1, <2>2, <2>3, <2>5 DEF OpenAttach, Referring, Listed, Bystander, TypeOK
    <3> QED BY <1>1, <1>2, <2>1, <2>3, <2>5, <3>1, BystanderLemma
  <2> QED BY <2>4, <2>5
<1>5. ASSUME OpenTopics(s) PROVE RecordsOK(i)'
  <2>1. Answered(h) /\ (Resolved \/ AwaitAgain(h)) /\ opening[s] = "topics"
    BY <1>5 DEF OpenTopics
  <2>2. Attachers(i)' = Attachers(i) /\ h \notin Attachers(i) /\ Detachers(i)' = Detachers(i) /\ Deleters(i)' = Deleters(i)
    BY <1>1, <1>5 DEF OpenTopics, Attachers, Detachers, Deleters, TypeOK
  <2>3. (shown'[i] = shown[i] /\ Announcers(i)' = Announcers(i)) \/ shown'[i] = "online"
    <3>1. CASE UNCHANGED <<opening, shown>>
      BY <1>5, <3>1 DEF OpenTopics, Announcers
    <3>2. CASE /\ opening' = [opening EXCEPT ![s] = "done"]
               /\ shown' = JoinedShown(openedAs[s])
      BY <1>1, <1>5, <3>2 DEF OpenTopics, Announcers, JoinedShown, TypeOK
    <3> QED BY <1>5, <3>1, <3>2 DEF OpenTopics
  <2>4. Bystander(i)
    BY <1>5, <2>2, <2>3 DEF OpenTopics, Bystander, registry
  <2> QED BY <1>1, <1>2, <2>1, <2>2, <2>4, BystanderLemma
<1> QED BY <1>3, <1>4, <1>5

LEMMA CloseRecords ==
  ASSUME TInv, NEW s \in Sockets, NEW i \in Instances, RecordsOK(i),
         PeerDies(s) \/ CloseMarkOffline(s) \/ CloseDetach(s)
  PROVE  RecordsOK(i)'
<1> DEFINE h == <<"close", s>>
<1> USE DEF opens, updates, removals
<1>1. TypeOK /\ LineInv /\ ArgumentInv /\ h \in Handlers
  BY DEF TInv, Handlers
<1>2. h \notin Attachers(i) \cup Deleters(i)
  BY RolesLemma
<1>3. Attachers(i)' = Attachers(i) /\ Announcers(i)' = Announcers(i) /\ Deleters(i)' = Deleters(i)
  BY DEF PeerDies, CloseMarkOffline, CloseDetach, Attachers, Announcers, Deleters
<1>4. CASE PeerDies(s)
  <2>1. Detachers(i)' = Detachers(i) /\ h \notin Detachers(i) /\ UNCHANGED waiting
    BY <1>1, <1>4 DEF PeerDies, closes, Detachers, ArgumentInv
  <2>2. Bystander(i)
    BY <1>3, <1>4, <2>1 DEF PeerDies, Bystander, registry
  <2> QED BY <1>1, <1>2, <2>1, <2>2, BystanderLemma
<1>5. CASE CloseMarkOffline(s)
  <2> DEFINE j == instanceId[s]
  <2>1. closing[s] = "no" /\ ~In(h) /\ j \in Instances
    BY <1>1, <1>5 DEF CloseMarkOffline, LineInv, ArgumentInv
  <2>2. h \notin Detachers(i)
    BY <2>1 DEF Detachers
  <2>3. ASSUME Registered(j), i = j PROVE RecordsOK(i)'
    <3>1. Await(h) /\ status'[i] = "offline" /\ UNCHANGED <<wsRef, pluginWs>>
      BY <1>1, <1>5, <2>1, <2>3 DEF CloseMarkOffline, MarkedOffline, TypeOK
    <3>2. h \in Detachers(i)'
      BY <1>1, <1>5, <2>3 DEF CloseMarkOffline, Detachers, TypeOK
    <3>3. RefMatchesBroadcast(i)' /\ Attachers(i)' = Attachers(i) \ {h}
      BY <1>2, <1>3, <3>1 DEF RecordsOK, RefMatchesBroadcast
    <3> QED BY <1>1, <2>1, <3>1, <3>2, <3>3, GoesOffline
  <2>4. ASSUME Registered(j), i # j PROVE RecordsOK(i)'
    <3>1. Await(h) /\ Detachers(i)' = Detachers(i)
      BY <1>1, <1>5, <2>1, <2>4 DEF CloseMarkOffline, Detachers, TypeOK
    <3>2. Bystander(i)
      BY <1>1, <1>3, <1>5, <2>4, <3>1 DEF CloseMarkOffline, MarkedOffline, Bystander, TypeOK
    <3> QED BY <1>1, <1>2, <2>1, <2>2, <3>1, <3>2, BystanderLemma
  <2>5. ASSUME ~Registered(j) PROVE RecordsOK(i)'
    <3>1. Detachers(i)' = Detachers(i) /\ UNCHANGED <<waiting, status, wsRef, presence, toScan, target>>
      BY <1>1, <1>5, <2>1, <2>5 DEF CloseMarkOffline, Detachers, TypeOK
    <3>2. CASE i = j
      <4>1. status[i] = "absent" /\ wsRef[i] = None
        BY <2>5, <3>2 DEF Registered, RecordsOK, Absent
      <4> QED BY <1>3, <3>1, <4>1 DEF RecordsOK, Online, Offline, Absent, RefMatchesBroadcast, Removed
    <3>3. CASE i # j
      <4>1. Bystander(i)
        BY <1>1, <1>3, <1>5, <2>5, <3>1, <3>3 DEF CloseMarkOffline, Unlisted, LeftShown, Bystander, TypeOK
      <4> QED BY <1>1, <1>2, <2>2, <3>1, <4>1, BystanderLemma
    <3> QED BY <3>2, <3>3
  <2> QED BY <2>3, <2>4, <2>5
<1>6. CASE CloseDetach(s)
  <2> DEFINE j == closedAs[s]
  <2>1. /\ Answered(h) /\ Resolved /\ closing[s] = "expire" /\ j \in Instances
        /\ UNCHANGED <<status, presence, toScan, target>>
    BY <1>1, <1>6, StepLine DEF CloseDetach, LineInv, ArgumentInv
  <2>2. Detachers(i)' = Detachers(i) \ {h} /\ (h \in Detachers(i) <=> i = j)
    BY <1>1, <1>6, <2>1 DEF CloseDetach, Detachers, TypeOK
  <2>3. CASE i = j
    <3>1. wsRef'[i] = IF Registered(i) THEN None ELSE wsRef[i]
      BY <1>1, <1>6, <2>1, <2>3 DEF CloseDetach, Referring, TypeOK
    <3>2. pluginWs'[i] = None
      BY <1>1, <1>6, <2>1, <2>3 DEF CloseDetach, Unlisted, TypeOK
    <3>3. RefMatchesBroadcast(i)'
      BY <3>1, <3>2 DEF RecordsOK, Absent, Registered, RefMatchesBroadcast
    <3>4. Deleters(i)' = Deleters(i) \ {h} /\ Removed(i)' = Removed(i) /\ h \notin Deleters(i)
      BY <1>2, <1>3, <2>1 DEF Removed
    <3> QED BY <1>1, <1>2, <1>3, <2>1, <2>2, <2>3, <3>1, <3>3, <3>4, Undoes
  <2>4. CASE i # j
    <3>1. Bystander(i)
      BY <1>1, <1>3, <1>6, <2>1, <2>2, <2>4 DEF CloseDetach, Referring, Unlisted, LeftShown, Bystander, TypeOK
    <3> QED BY <1>1, <1>2, <2>1, <2>2, <2>4, <3>1, BystanderLemma
  <2> QED BY <2>3, <2>4
<1> QED BY <1>4, <1>5, <1>6

LEMMA UpdateRecords ==
  ASSUME TInv, NEW u \in Updates, NEW i \in Instances, RecordsOK(i),
         \/ \E s \in Sockets, j \in Instances : SessionUpdate(u, s, j)
         \/ UpdateRegister(u) \/ UpdateDetach(u)
  PROVE  RecordsOK(i)'
<1> DEFINE h == <<"update", u>>
<1> USE DEF opens, closes, removals
<1>1. TypeOK /\ LineInv /\ ArgumentInv /\ h \in Handlers
  BY DEF TInv, Handlers
<1>2. h \notin Deleters(i)
  BY RolesLemma
<1>3. Deleters(i)' = Deleters(i) /\ UNCHANGED target
  BY DEF SessionUpdate, UpdateRegister, UpdateDetach, Deleters
<1>4. ASSUME NEW s \in Sockets, NEW j \in Instances, SessionUpdate(u, s, j) PROVE RecordsOK(i)'
  <2>1. ~In(h) /\ Await(h)
    BY <1>1, <1>4 DEF SessionUpdate, LineInv
  <2>2. /\ Attachers(i)' = Attachers(i) /\ h \notin Attachers(i)
        /\ Detachers(i)' = Detachers(i) /\ h \notin Detachers(i)
    BY <1>1, <1>4 DEF SessionUpdate, Attachers, Detachers, TypeOK
  <2>3. Announcers(i)' = Announcers(i)
    BY <1>1, <1>4 DEF SessionUpdate, Announcers, TypeOK
  <2>4. Bystander(i)
    BY <1>3, <1>4, <2>2, <2>3 DEF SessionUpdate, Bystander, registry
  <2> QED BY <1>1, <1>2, <2>1, <2>2, <2>4, BystanderLemma
<1>5. CASE UpdateRegister(u)
  <2>1. /\ Answered(h) /\ AwaitAgain(h) /\ updating[u] = "migrate" /\ newId[u] \in Instances
        /\ UNCHANGED <<pluginWs, presence, toScan, shown>>
    BY <1>1, <1>5 DEF UpdateRegister, ArgumentInv
  <2>2. Detachers(i)' = Detachers(i) /\ h \notin Detachers(i) \cup Attachers(i)
    BY <1>1, <1>5 DEF UpdateRegister, Attachers, Detachers, TypeOK
  <2>3. CASE UNCHANGED <<updating, registry>>
    <3>1. Attachers(i)' = Attachers(i) /\ Announcers(i)' = Announcers(i)
      BY <1>5, <2>3 DEF UpdateRegister, Attachers, Announcers
    <3>2. Bystander(i)
      BY <1>3, <2>1, <2>2, <2>3, <3>1 DEF Bystander, registry
    <3> QED BY <1>1, <1>2, <2>1, <2>2, <3>2, BystanderLemma
  <2>4. ASSUME updating' = [updating EXCEPT ![u] = "register"], Register(newId[u]), i = newId[u]
        PROVE  RecordsOK(i)'
    <3>1. status'[i] = "online" /\ wsRef'[i] = None
      BY <1>1, <2>4 DEF Register, TypeOK
    <3>2. h \in Attachers(i)'
      BY <1>1, <1>5, <2>4 DEF UpdateRegister, Attachers, TypeOK
    <3> QED BY <1>1, <1>2, <1>3, <2>1, <2>2, <3>1, <3>2, Registers
  <2>5. ASSUME updating' = [updating EXCEPT ![u] = "register"], Register(newId[u]), i # newId[u]
        PROVE  RecordsOK(i)'
    <3>1. Attachers(i)' = Attachers(i) /\ Announcers(i)' = Announcers(i)
      BY <1>1, <1>5, <2>1, <2>5 DEF UpdateRegister, Attachers, Announcers, TypeOK
    <3>2. Bystander(i)
      BY <1>1, <1>3, <2>1, <2>2, <2>5, <3>1 DEF Bystander, Register, TypeOK
    <3> QED BY <1>1, <1>2, <2>1, <2>2, <3>2, BystanderLemma
  <2> QED BY <1>5, <2>3, <2>4, <2>5 DEF UpdateRegister
<1>6. CASE UpdateDetach(u)
  <2> DEFINE j == oldId[u]
  <2>1. /\ Answered(h) /\ Resolved /\ updating[u] = "offline" /\ j \in Instances /\ newId[u] \in Instances
        /\ UNCHANGED <<status, presence, toScan>>
    BY <1>1, <1>6 DEF UpdateDetach, ArgumentInv
  <2>2. Attachers(i)' = Attachers(i) /\ h \notin Attachers(i)
    BY <1>1, <1>6 DEF UpdateDetach, Attachers, TypeOK
  <2>3. Detachers(i)' = Detachers(i) \ {h} /\ (h \in Detachers(i) <=> i = j)
    BY <1>1, <1>6 DEF UpdateDetach, Detachers, TypeOK
  <2>4. CASE i = j
    <3>1. wsRef'[i] = IF Registered(i) THEN None ELSE wsRef[i]
      BY <1>1, <1>6, <2>4 DEF UpdateDetach, Referring, TypeOK
    <3>2. pluginWs'[i] = None
      BY <1>1, <1>6, <2>4 DEF UpdateDetach, Unlisted, TypeOK
    <3>3. RefMatchesBroadcast(i)'
      BY <3>1, <3>2 DEF RecordsOK, Absent, Registered, RefMatchesBroadcast
    <3>4. Deleters(i)' = Deleters(i) \ {h} /\ Removed(i)' = Removed(i)
      BY <1>2, <1>3 DEF Removed
    <3> QED BY <1>1, <1>2, <2>1, <2>2, <2>3, <2>4, <3>1, <3>3, <3>4, Undoes
  <2>5. CASE i # j
    <3>1. (shown'[i] = shown[i] /\ Announcers(i)' = Announcers(i)) \/ shown'[i] = "online"
      <4>1. CASE i = newId[u]
        BY <1>1, <1>6, <2>5, <4>1 DEF UpdateDetach, SessionShown, TypeOK
      <4>2. CASE i # newId[u]
        BY <1>1, <1>6, <2>1, <2>5, <4>2 DEF UpdateDetach, SessionShown, Announcers, TypeOK
      <4> QED BY <4>1, <4>2
    <3>2. Bystander(i)
      BY <1>1, <1>3, <1>6, <2>1, <2>2, <2>3, <2>5, <3>1 DEF UpdateDetach, Referring, Unlisted, Bystander, TypeOK
    <3> QED BY <1>1, <1>2, <2>1, <2>2, <2>3, <2>5, <3>2, BystanderLemma
  <2> QED BY <2>4, <2>5
<1> QED BY <1>4, <1>5, <1>6

LEMMA UpdateAttachRecords ==
  ASSUME TInv, NEW u \in Updates, NEW i \in Instances, RecordsOK(i), UpdateAttach(u)
  PROVE  RecordsOK(i)'
<1> DEFINE h == <<"update", u>>
           k == oldId[u]
           j == newId[u]
           s == via[u]
<1> USE DEF opens, closes, removals
<1>1. TypeOK /\ LineInv /\ ArgumentInv /\ h \in Handlers
  BY DEF TInv, Handlers
<1>2. /\ Answered(h) /\ (Resolved \/ AwaitAgain(h)) /\ updating[u] = "register"
      /\ s \in Sockets /\ k \in Instances /\ j \in Instances
      /\ presence' = presence \cup {j} /\ wsRef' = Referring(j, s)
      /\ UNCHANGED <<toScan, target>>
  BY <1>1 DEF UpdateAttach, ArgumentInv
<1>3. h \notin Deleters(i) /\ Deleters(i)' = Deleters(i)
  BY RolesLemma DEF UpdateAttach, Deleters
<1>4. h \notin Detachers(i)
  BY <1>2 DEF Detachers
<1>5. /\ Attachers(i)' = Attachers(i) \ {h}
      /\ h \in Attachers(i) <=> i = j
  <2>1. \A v \in Updates : updating'[v] = "register" <=> updating[v] = "register" /\ v # u
    BY <1>1 DEF UpdateAttach, TypeOK
  <2> QED BY <1>2, <2>1 DEF UpdateAttach, Attachers
<1>6. CASE Registered(k)
  <2>1. /\ status' = [status EXCEPT ![k] = "offline"] /\ pluginWs' = [pluginWs EXCEPT ![j] = s]
        /\ updating' = [updating EXCEPT ![u] = "offline"] /\ AwaitAgain(h) /\ UNCHANGED shown
    BY <1>6 DEF UpdateAttach, MarkedOffline, Listed
  <2>2. Announcers(i)' = Announcers(i)
    BY <1>1, <1>2, <2>1 DEF UpdateAttach, Announcers, TypeOK
  <2>3. CASE i = k
    <3>1. status'[i] = "offline"
      BY <1>1, <2>1, <2>3 DEF TypeOK
    <3>2. h \in Detachers(i)'
      BY <1>1, <2>1, <2>3 DEF UpdateAttach, Detachers, TypeOK
    <3>3. RefMatchesBroadcast(i)'
      BY <1>1, <1>2, <1>6, <2>1, <2>3 DEF RecordsOK, RefMatchesBroadcast, Referring, Registered, TypeOK
    <3> QED BY <1>1, <1>2, <1>5, <2>1, <3>1, <3>2, <3>3, GoesOffline
  <2>4. CASE i # k
    <3>1. Detachers(i)' = Detachers(i)
      BY <1>1, <1>2, <2>1, <2>4 DEF UpdateAttach, Detachers, TypeOK
    <3>2. CASE i = j
      <4>1. /\ status'[i] = status[i] /\ pluginWs'[i] = s /\ shown'[i] = shown[i]
            /\ wsRef'[i] = IF Registered(i) THEN s ELSE wsRef[i]
            /\ i \in presence' /\ Removed(i)' = Removed(i)
        BY <1>1, <1>2, <2>1, <2>4, <3>2 DEF Referring, Removed, TypeOK
      <4> QED BY <1>1, <1>2, <1>3, <1>5, <2>1, <2>2, <3>1, <3>2, <4>1, Attaches
    <3>3. CASE i # j
      <4>1. Bystander(i)
        BY <1>1, <1>2, <1>3, <1>5, <2>1, <2>2, <2>4, <3>1, <3>3 DEF Referring, Bystander, TypeOK
      <4> QED BY <1>1, <1>2, <1>3, <1>4, <1>5, <2>1, <3>3, <4>1, BystanderLemma
    <3> QED BY <3>2, <3>3
  <2> QED BY <2>3, <2>4
<1>7. CASE ~Registered(k)
  <2>1. /\ pluginWs' = [[pluginWs EXCEPT ![j] = s] EXCEPT ![k] = None]
        /\ updating' = [updating EXCEPT ![u] = "done"] /\ Resolved
        /\ shown' = SessionShown(k, j) /\ UNCHANGED status
    BY <1>7 DEF UpdateAttach, Listed
  <2>2. Detachers(i)' = Detachers(i)
    BY <1>1, <1>2, <2>1 DEF UpdateAttach, Detachers, TypeOK
  <2>3. Removed(i)' = Removed(i)
    BY <1>2 DEF Removed
  <2>4. CASE i = k
    <3>1. /\ status[i] = "absent" /\ status'[i] = "absent" /\ wsRef[i] = None /\ wsRef'[i] = None
      BY <1>1, <1>2, <1>7, <2>1, <2>4 DEF Registered, Referring, RecordsOK, Absent, TypeOK
    <3>2. CASE i = j
      <4> DEFINE A == Attachers(i)
                 D == Detachers(i)
                 E == Deleters(i)
      <4>1. h \in A /\ A' = A \ {h} /\ D' = D /\ E' = E /\ h \notin D /\ h \notin E
        BY <1>3, <1>4, <1>5, <2>2, <3>2
      <4>2. Followed(waiting, A, E) /\ (~Removed(i) => Followed(waiting, A, D))
        BY <3>1 DEF RecordsOK, Absent, Offline
      <4> HIDE DEF A, D, E
      <4>3. E # {} /\ A \ {h} \subseteq A \ {h} /\ D \ {h} \subseteq D /\ E \ {h} \subseteq E
        BY <4>1, <4>2 DEF Followed
      <4>4. Followed(waiting', A \ {h}, E) /\ (~Removed(i) => Followed(waiting', A \ {h}, D))
        BY <1>1, <1>2, <4>2, <4>3, Kept
      <4>5. Offline(i)' /\ Absent(i)'
        BY <2>3, <3>1, <4>1, <4>3, <4>4 DEF Offline, Absent, A, D, E
      <4> QED BY <3>1, <4>5 DEF RecordsOK, Online, RefMatchesBroadcast
    <3>3. CASE i # j
      <4> DEFINE A == Attachers(i)
                 D == Detachers(i)
                 E == Deleters(i)
      <4>1. A' = A /\ D' = D /\ E' = E /\ h \notin A /\ h \notin D /\ h \notin E
        BY <1>3, <1>4, <1>5, <2>2, <3>3
      <4>2. /\ Followed(waiting, A, E) /\ (~Removed(i) => Followed(waiting, A, D))
            /\ i \in presence' /\ i \notin toScan' => E # {}
        BY <1>2, <3>1, <3>3 DEF RecordsOK, Absent, Offline
      <4> HIDE DEF A, D, E
      <4>3. A \subseteq A \ {h} /\ D \ {h} \subseteq D /\ E \ {h} \subseteq E
        BY <4>1
      <4>4. Followed(waiting', A, E) /\ (~Removed(i) => Followed(waiting', A, D))
        BY <1>1, <1>2, <4>2, <4>3, Kept
      <4>5. Offline(i)' /\ Absent(i)'
        BY <2>3, <3>1, <4>1, <4>2, <4>4 DEF Offline, Absent, A, D, E
      <4> QED BY <3>1, <4>5 DEF RecordsOK, Online, RefMatchesBroadcast
    <3> QED BY <3>2, <3>3
  <2>5. CASE i # k /\ i = j
    <3>1. /\ status'[i] = status[i] /\ pluginWs'[i] = s /\ shown'[i] = "online"
          /\ wsRef'[i] = IF Registered(i) THEN s ELSE wsRef[i]
          /\ i \in presence'
      BY <1>1, <1>2, <2>1, <2>5 DEF Referring, SessionShown, TypeOK
    <3> QED BY <1>1, <1>2, <1>3, <1>5, <2>1, <2>2, <2>3, <2>5, <3>1, Attaches
  <2>6. CASE i # k /\ i # j
    <3>1. Announcers(i)' = Announcers(i) /\ shown'[i] = shown[i]
      BY <1>1, <1>2, <2>1, <2>6 DEF UpdateAttach, Announcers, SessionShown, TypeOK
    <3>2. Bystander(i)
      BY <1>1, <1>2, <1>3, <1>5, <2>1, <2>2, <2>6, <3>1 DEF Referring, Bystander, TypeOK
    <3> QED BY <1>1, <1>2, <1>3, <1>4, <1>5, <2>1, <2>6, <3>2, BystanderLemma
  <2> QED BY <2>4, <2>5, <2>6
<1> QED BY <1>6, <1>7

LEMMA RemoveRecords ==
  ASSUME TInv, NEW r \in Removals, NEW i \in Instances, RecordsOK(i),
         (\E j \in Instances : Remove(r, j)) \/ RemoveDeregister(r) \/ RemoveDone(r)
  PROVE  RecordsOK(i)'
<1> DEFINE h == <<"remove", r>>
<1> USE DEF opens, closes, updates
<1>1. TypeOK /\ LineInv /\ ArgumentInv /\ h \in Handlers
  BY DEF TInv, Handlers
<1>2. h \notin Announcers(i) \cup Attachers(i) \cup Detachers(i)
  BY RolesLemma
<1>3. Attachers(i)' = Attachers(i) /\ Announcers(i)' = Announcers(i) /\ Detachers(i)' = Detachers(i)
  BY DEF Remove, RemoveDeregister, RemoveDone, Attachers, Announcers, Detachers
<1>4. ASSUME NEW j \in Instances, Remove(r, j) PROVE RecordsOK(i)'
  <2>1. /\ ~In(h) /\ Await(h) /\ removing[r] = "no" /\ target[r] = None
        /\ UNCHANGED <<status, wsRef, pluginWs, presence, toScan, shown>>
    BY <1>1, <1>4 DEF Remove, LineInv, ArgumentInv, registry
  <2>2. Deleters(i)' = Deleters(i) /\ h \notin Deleters(i)
    BY <1>1, <1>4 DEF Remove, Deleters, TypeOK
  <2>3. CASE i = j
    <3>1. status[i] = "offline" /\ Removed(i)'
      BY <1>1, <1>4, <2>3 DEF Remove, Removed, TypeOK
    <3> QED BY <2>1, <3>1 DEF RecordsOK, Online, Offline, Absent, RefMatchesBroadcast
  <2>4. CASE i # j
    <3>1. Removed(i)' = Removed(i)
      BY <1>1, <1>4, <2>1, <2>4, ConnectionAssumptions DEF Remove, Removed, TypeOK
    <3>2. Bystander(i)
      BY <1>3, <2>1, <2>2, <3>1 DEF Bystander
    <3> QED BY <1>1, <1>2, <2>1, <2>2, <3>2, BystanderLemma
  <2> QED BY <2>3, <2>4
<1>5. CASE RemoveDeregister(r)
  <2>1. /\ Answered(h) /\ AwaitAgain(h) /\ removing[r] = "unsubscribe" /\ target[r] \in Instances
        /\ UNCHANGED <<pluginWs, presence, toScan, shown, target>>
    BY <1>1, <1>5 DEF RemoveDeregister, ArgumentInv
  <2>2. h \notin Deleters(i)
    BY <2>1 DEF Deleters
  <2>3. CASE UNCHANGED <<removing, registry>>
    <3>1. Deleters(i)' = Deleters(i)
      BY <2>1, <2>3 DEF Deleters
    <3>2. Bystander(i)
      BY <1>3, <2>1, <2>3, <3>1 DEF Bystander, registry
    <3> QED BY <1>1, <1>2, <2>1, <2>2, <3>2, BystanderLemma
  <2>4. ASSUME removing' = [removing EXCEPT ![r] = "del"], status' = [status EXCEPT ![target[r]] = "absent"],
               wsRef' = [wsRef EXCEPT ![target[r]] = None]
        PROVE  RecordsOK(i)'
    <3>1. CASE i = target[r]
      <4> DEFINE A == Attachers(i)
                 E == Deleters(i)
      <4>1. status'[i] = "absent" /\ wsRef'[i] = None /\ Removed(i)'
        BY <1>1, <2>1, <2>4, <3>1 DEF Removed, TypeOK
      <4>2. h \in E' /\ A' = A /\ \A g \in A : In(g) /\ g # h
        BY <1>1, <1>2, <1>3, <2>1, <2>4, <3>1, RolesLemma DEF Deleters, TypeOK
      <4> HIDE DEF A, E
      <4>3. Followed(waiting', A, E')
        BY <1>1, <2>1, <4>2, ComesLast
      <4>4. Absent(i)'
        BY <4>1, <4>2, <4>3 DEF Absent, A, E
      <4> QED BY <4>1, <4>4 DEF RecordsOK, Online, Offline, RefMatchesBroadcast
    <3>2. CASE i # target[r]
      <4>1. Deleters(i)' = Deleters(i)
        BY <1>1, <2>1, <2>4, <3>2 DEF Deleters, TypeOK
      <4>2. Bystander(i)
        BY <1>1, <1>3, <2>1, <2>4, <3>2, <4>1 DEF Bystander, TypeOK
      <4> QED BY <1>1, <1>2, <2>1, <2>2, <4>2, BystanderLemma
    <3> QED BY <3>1, <3>2
  <2> QED BY <1>5, <2>3, <2>4 DEF RemoveDeregister
<1>6. CASE RemoveDone(r)
  <2>1. /\ Answered(h) /\ Resolved /\ removing[r] = "del" /\ target[r] \in Instances
        /\ UNCHANGED <<status, wsRef, pluginWs, toScan, target>> /\ presence' = presence \ {target[r]}
    BY <1>1, <1>6 DEF RemoveDone, ArgumentInv, Deregistered, registry
  <2>2. Deleters(i)' = Deleters(i) \ {h} /\ (h \in Deleters(i) <=> i = target[r])
    BY <1>1, <1>6, <2>1 DEF RemoveDone, Deleters, TypeOK
  <2>3. CASE i = target[r]
    <3>1. Removed(i)' /\ Removed(i)' = Removed(i) /\ i \notin presence' /\ RefMatchesBroadcast(i)'
      BY <2>1, <2>3 DEF Removed, RecordsOK, RefMatchesBroadcast
    <3>2. Detachers(i)' = Detachers(i) \ {h}
      BY <1>2, <1>3
    <3> QED BY <1>1, <1>2, <1>3, <2>1, <2>2, <2>3, <3>1, <3>2, Undoes
  <2>4. CASE i # target[r]
    <3>1. Bystander(i)
      BY <1>1, <1>3, <1>6, <2>1, <2>2, <2>4 DEF RemoveDone, Bystander, TypeOK
    <3> QED BY <1>1, <1>2, <2>1, <2>2, <2>4, <3>1, BystanderLemma
  <2> QED BY <2>3, <2>4
<1> QED BY <1>4, <1>5, <1>6

LEMMA ScanRecords ==
  ASSUME TInv, NEW j \in Instances, NEW i \in Instances, RecordsOK(i), ScanGet(j) \/ HydrateOffline(j)
  PROVE  RecordsOK(i)'
<1> DEFINE h == <<"scan", j>>
<1> USE DEF opens, closes, updates, removals
<1>1. TypeOK /\ LineInv /\ h \in Handlers
  BY DEF TInv, Handlers
<1>2. h \notin Attachers(i) \cup Detachers(i) \cup Deleters(i)
  BY RolesLemma
<1>3. /\ Attachers(i)' = Attachers(i) /\ Announcers(i)' = Announcers(i)
      /\ Detachers(i)' = Detachers(i) /\ Deleters(i)' = Deleters(i) /\ Removed(i)' = Removed(i)
  BY DEF ScanGet, HydrateOffline, Attachers, Announcers, Detachers, Deleters, Removed
<1>4. CASE ScanGet(j)
  <2>1. ~In(h) /\ Await(h)
    BY <1>4 DEF ScanGet, In, Elements
  <2>2. Bystander(i)
    BY <1>3, <1>4 DEF ScanGet, Bystander, registry
  <2> QED BY <1>1, <1>2, <2>1, <2>2, BystanderLemma
<1>5. CASE HydrateOffline(j)
  <2>1. /\ Answered(h) /\ Resolved /\ toScan' = toScan \ {j}
        /\ UNCHANGED <<wsRef, pluginWs, presence, shown>>
    BY <1>5 DEF HydrateOffline
  <2>2. CASE i # j
    <3>1. Bystander(i)
      BY <1>1, <1>3, <1>5, <2>1, <2>2 DEF HydrateOffline, Bystander, TypeOK
    <3> QED BY <1>1, <1>2, <2>1, <3>1, BystanderLemma
  <2>3. CASE i = j
    <3> DEFINE A == Attachers(i)
               D == Detachers(i)
               E == Deleters(i)
    <3>1. A' = A /\ D' = D /\ E' = E /\ h \notin A /\ h \notin D /\ h \notin E
      BY <1>2, <1>3
    <3>2. status'[i] = IF i \in presence /\ status[i] = "absent" THEN "offline" ELSE status[i]
      BY <1>1, <1>5, <2>3 DEF HydrateOffline, Registered, TypeOK
    <3>3. ASSUME NEW S, NEW T, Followed(waiting, S, T), h \notin S, h \notin T PROVE Followed(waiting', S, T)
      <4>1. S \subseteq S \ {h} /\ T \ {h} \subseteq T
        BY <3>3
      <4> QED BY <1>1, <2>1, <3>3, <4>1, Kept
    <3> HIDE DEF A, D, E
    <3>4. Online(i)'
      <4> SUFFICES ASSUME status[i] = "online"
                   PROVE  /\ wsRef[i] = None \/ i \notin presence => A' # {}
                          /\ shown[i] # "online" => Announcers(i)' # {}
                          /\ Followed(waiting', D' \cup E', A')
        BY <2>1, <3>2 DEF Online, A, D, E
      <4>1. /\ wsRef[i] = None \/ i \notin presence => A # {}
            /\ shown[i] # "online" => Announcers(i) # {}
            /\ Followed(waiting, D \cup E, A)
        BY DEF RecordsOK, Online, A, D, E
      <4>2. Followed(waiting', D \cup E, A)
        BY <3>1, <3>3, <4>1
      <4> QED BY <1>3, <3>1, <4>1, <4>2
    <3>5. Offline(i)'
      <4> SUFFICES ASSUME status'[i] # "online", ~Removed(i)
                   PROVE  (wsRef[i] # None => D' # {}) /\ Followed(waiting', A', D')
        BY <1>3, <2>1 DEF Offline, A, D
      <4>1. status[i] # "online"
        BY <3>2
      <4>2. (wsRef[i] # None => D # {}) /\ Followed(waiting, A, D)
        BY <4>1 DEF RecordsOK, Offline, A, D
      <4> QED BY <3>1, <3>3, <4>2
    <3>6. Absent(i)'
      <4> SUFFICES ASSUME status'[i] = "absent"
                   PROVE  wsRef[i] = None /\ i \notin presence /\ Followed(waiting', A', E')
        BY <2>1 DEF Absent, A, E
      <4>1. status[i] = "absent" /\ i \notin presence
        BY <3>2
      <4>2. wsRef[i] = None /\ Followed(waiting, A, E)
        BY <4>1 DEF RecordsOK, Absent, A, E
      <4> QED BY <3>1, <3>3, <4>1, <4>2
    <3> QED BY <2>1, <3>4, <3>5, <3>6 DEF RecordsOK, RefMatchesBroadcast
  <2> QED BY <2>2, <2>3
<1> QED BY <1>4, <1>5

LEMMA InitRecords == Init => RecordsInv
BY DEF Init, RecordsInv, RecordsOK, Online, Offline, Absent, RefMatchesBroadcast, Followed,
       Attachers, Announcers, Detachers, Deleters

LEMMA NextRecords == TInv /\ RecordsInv /\ [Next]_vars => RecordsInv'
<1> SUFFICES ASSUME TInv, RecordsInv, [Next]_vars, NEW i \in Instances PROVE RecordsOK(i)'
  BY DEF RecordsInv
<1>1. RecordsOK(i)
  BY DEF RecordsInv
<1>2. ASSUME Next PROVE RecordsOK(i)'
  BY <1>1, <1>2, OpenRecords, CloseRecords, UpdateRecords, UpdateAttachRecords, RemoveRecords, ScanRecords
     DEF Next
<1>3. ASSUME UNCHANGED vars PROVE RecordsOK(i)'
  BY <1>1, <1>3 DEF vars, registry, sockets, opens, closes, updates, removals,
       RecordsOK, Online, Offline, Removed, Absent, RefMatchesBroadcast,
       Attachers, Announcers, Detachers, Deleters
<1> QED BY <1>2, <1>3

LEMMA RecordsInvariant == Spec => [](TInv /\ RecordsInv)
<1>1. Init => TInv /\ RecordsInv
  BY InitType, InitRecords
<1>2. (TInv /\ RecordsInv) /\ [Next]_vars => (TInv /\ RecordsInv)'
  BY NextType, NextRecords
<1> QED BY <1>1, <1>2, PTL DEF Spec

(* With nothing under way nobody is left to attach, detach or delete.       *)
LEMMA AtRest ==
  ASSUME TInv, Rest, NEW i
  PROVE  Announcers(i) = {} /\ Attachers(i) = {} /\ Detachers(i) = {} /\ Deleters(i) = {}
<1>1. \A g : ~In(g)
  BY DEF Rest, In, Elements
<1> QED BY <1>1, RolesLemma

(* Whenever nothing is under way the registry, the broadcast map and Redis  *)
(* agree on who is connected.                                              *)
THEOREM RecordsSafety == Spec => []RecordsAgree
<1>1. TInv /\ RecordsInv => RecordsAgree
  <2> SUFFICES ASSUME TInv, RecordsInv, Rest, NEW i \in Instances
               PROVE  /\ StatusMatchesRef(i) /\ RefMatchesBroadcast(i)
                      /\ toScan = {} => PresenceMatchesRegistry(i)
    BY DEF RecordsAgree
  <2>1. Attachers(i) = {} /\ Detachers(i) = {} /\ Deleters(i) = {} /\ RecordsOK(i)
    BY AtRest DEF RecordsInv
  <2>2. StatusMatchesRef(i) /\ RefMatchesBroadcast(i)
    BY <2>1 DEF RecordsOK, Online, Offline, Removed, StatusMatchesRef
  <2>3. toScan = {} => PresenceMatchesRegistry(i)
    BY <2>1 DEF RecordsOK, Online, Absent, Registered, PresenceMatchesRegistry
  <2> QED BY <2>2, <2>3
<1> QED BY <1>1, RecordsInvariant, PTL

(* No late event hides an online instance from a dashboard.                 *)
THEOREM ShownSafety == Spec => []OnlineIsShown
<1>1. TInv /\ RecordsInv => OnlineIsShown
  BY AtRest DEF RecordsInv, RecordsOK, Online, OnlineIsShown
<1> QED BY <1>1, RecordsInvariant, PTL
=============================================================================
