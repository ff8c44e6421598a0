---------------------------- MODULE Delivery_proofs ----------------------------
(***************************************************************************)
(* A message's way to its recipients, in three parts, each about a module   *)
(* of its own and for all values of its constants: the plugin's end of the  *)
(* wire (PluginConnection), the limiter a frame has to pass (RateLimits)    *)
(* and the hub's delivery to many (Delivery).                              *)
(***************************************************************************)
EXTENDS Delivery, RateLimits, PluginConnection, FiniteSetTheorems, SequenceTheorems, TLAPS

-----------------------------------------------------------------------------
(* PluginConnection.  A plugin has one live connection, follows its session *)
(* file and shares its identity with the hub.                              *)

(* A session_update asks for a session; the watcher is active exactly while *)
(* its promise waits.                                                      *)
CallInv ==
  \A r \in Requests : kind[r] = "session_update" =>
    /\ asked[r] \in Sessions
    /\ promise[r] = "waiting" => updating = r
UpdatingInv ==
  updating # None => kind[updating] = "session_update" /\ promise[updating] = "waiting"

(* The connection in use has a URL, that of the plugin's identity.          *)
UrlInv == url[conn] = session

TInv == TypeOK /\ CallInv /\ UpdatingInv /\ UrlInv

LEMMA InitType == Init => TInv
<1> SUFFICES ASSUME Init PROVE TInv
  OBVIOUS
<1> USE PluginAssumptions DEF Init
<1>1. TypeOK
  <2>1. changes \in 0..MaxChanges /\ drops \in 0..MaxDrops
    OBVIOUS
  <2>2. PICK c \in Conns : /\ conn = c
                          /\ url = [d \in Conns |-> IF d = c THEN session ELSE None]
                          /\ socket = [d \in Conns |-> IF d = c THEN "connecting" ELSE "none"]
    OBVIOUS
  <2> QED BY <2>1, <2>2 DEF TypeOK
<1>2. CallInv
  BY DEF CallInv
<1>3. UpdatingInv /\ UrlInv
  BY DEF UpdatingInv, UrlInv
<1> QED BY <1>1, <1>2, <1>3 DEF TInv

(* Every step keeps the types, and the watcher in step with its request.    *)
LEMMA NextType == TInv /\ [Next]_vars => TInv'
<1> SUFFICES ASSUME TInv, [Next]_vars PROVE TInv'
  OBVIOUS
<1> USE PluginAssumptions DEF TInv, TypeOK, CallInv, UpdatingInv, UrlInv
<1> USE DEF watcher, identity, calls, hub
<1>1. ASSUME NEW c \in Conns, NEW r \in Requests, SocketOpens(c, r) PROVE TInv'
  BY <1>1 DEF SocketOpens, Request, Free
<1>2. ASSUME NEW c \in Conns, NEW r \in Requests, SessionUpdated(r, c) PROVE TInv'
  <2>1. updating = r /\ kind[r] = "session_update" /\ asked[r] \in Sessions
    BY <1>2 DEF SessionUpdated
  <2> QED BY <1>2, <2>1 DEF SessionUpdated, Unborn, Abandoned, Current, NewUrl, Destroyed
<1>3. ASSUME NEW c \in Conns, ConnectFails(c) PROVE TInv'
  BY <1>3 DEF ConnectFails
<1>4. ASSUME NEW c \in Conns, SocketCloses(c) PROVE TInv'
  BY <1>4 DEF SocketCloses, Abandoned, Renames
<1>5. ASSUME NEW c \in Conns, Reconnect(c) PROVE TInv'
  BY <1>5 DEF Reconnect
<1>6. ASSUME NEW r \in Requests, ToolCall(r) PROVE TInv'
  BY <1>6 DEF ToolCall, RequestByTool, RequestByFetch, Request, Free
<1>7. ASSUME NEW r \in Requests, FetchEnds(r) PROVE TInv'
  BY <1>7 DEF FetchEnds
<1>8. ASSUME NEW r \in Requests, AnswerArrives(r) PROVE TInv'
  BY <1>8 DEF AnswerArrives
<1>9. ASSUME NEW r \in Requests, Timeout(r) PROVE TInv'
  BY <1>9 DEF Timeout, Renames
<1>10. ASSUME NEW r \in Requests, SessionUpdate(r) PROVE TInv'
  BY <1>10 DEF SessionUpdate, Request, Free
<1>11. ASSUME NEW r \in Requests, HubAnswers(r) PROVE TInv'
  BY <1>11 DEF HubAnswers, Renames
<1>12. ASSUME NEW r \in Requests, HubGoesOn(r) PROVE TInv'
  BY <1>12 DEF HubGoesOn, Renames
<1>13. ASSUME NEW r \in Requests, HubSilent(r) PROVE TInv'
  BY <1>13 DEF HubSilent
<1>14. ASSUME NEW s \in Sessions \cup {None}, SessionFileChanges(s) PROVE TInv'
  BY <1>14 DEF SessionFileChanges
<1>15. CASE EventIgnored
  BY <1>15 DEF EventIgnored
<1>16. CASE NothingNew
  BY <1>16 DEF NothingNew
<1>17. CASE UNCHANGED vars
  BY <1>17 DEF vars
<1> QED
  BY <1>1, <1>2, <1>3, <1>4, <1>5, <1>6, <1>7, <1>8, <1>9, <1>10, <1>11, <1>12, <1>13, <1>14,
     <1>15, <1>16, <1>17 DEF Next

(* All reachable states of a plugin and its hub are well typed.            *)
THEOREM TypeCorrect == Spec => []TInv
BY InitType, NextType, PTL DEF Spec

(* TypeOK, of the model's variables, holds always.                         *)
THEOREM TypeSafety == Spec => []TypeOK
<1>1. TInv => TypeOK
  BY DEF TInv
<1> QED BY <1>1, TypeCorrect, PTL
-----------------------------------------------------------------------------
(* No step gives a second connection a socket or a timer: the new one of a *)
(* session update has never had any, and destroy leaves the old one none.   *)
LEMMA NextLive == TInv /\ OneLiveConnection /\ [Next]_vars => OneLiveConnection'
<1> SUFFICES ASSUME TInv, OneLiveConnection, [Next]_vars PROVE OneLiveConnection'
  OBVIOUS
<1> USE PluginAssumptions DEF TInv, TypeOK, UrlInv, OneLiveConnection
<1> USE DEF watcher, identity, calls, hub
<1>1. ASSUME NEW c \in Conns, NEW r \in Requests, SocketOpens(c, r) PROVE OneLiveConnection'
  BY <1>1 DEF SocketOpens
<1>2. ASSUME NEW c \in Conns, NEW r \in Requests, SessionUpdated(r, c) PROVE OneLiveConnection'
  BY <1>2 DEF SessionUpdated, Unborn, Destroyed
<1>3. ASSUME NEW c \in Conns, ConnectFails(c) PROVE OneLiveConnection'
  BY <1>3 DEF ConnectFails
<1>4. ASSUME NEW c \in Conns, SocketCloses(c) PROVE OneLiveConnection'
  BY <1>4 DEF SocketCloses
<1>5. ASSUME NEW c \in Conns, Reconnect(c) PROVE OneLiveConnection'
  BY <1>5 DEF Reconnect
<1>6. ASSUME NEW r \in Requests, ToolCall(r) PROVE OneLiveConnection'
  BY <1>6 DEF ToolCall
<1>7. ASSUME NEW r \in Requests, FetchEnds(r) PROVE OneLiveConnection'
  BY <1>7 DEF FetchEnds
<1>8. ASSUME NEW r \in Requests, AnswerArrives(r) PROVE OneLiveConnection'
  BY <1>8 DEF AnswerArrives
<1>9. ASSUME NEW r \in Requests, Timeout(r) PROVE OneLiveConnection'
  BY <1>9 DEF Timeout
<1>10. ASSUME NEW r \in Requests, SessionUpdate(r) PROVE OneLiveConnection'
  BY <1>10 DEF SessionUpdate
<1>11. ASSUME NEW r \in Requests, HubAnswers(r) PROVE OneLiveConnection'
  BY <1>11 DEF HubAnswers
<1>12. ASSUME NEW r \in Requests, HubGoesOn(r) PROVE OneLiveConnection'
  BY <1>12 DEF HubGoesOn
<1>13. ASSUME NEW r \in Requests, HubSilent(r) PROVE OneLiveConnection'
  BY <1>13 DEF HubSilent
<1>14. ASSUME NEW s \in Sessions \cup {None}, SessionFileChanges(s) PROVE OneLiveConnection'
  BY <1>14 DEF SessionFileChanges
<1>15. CASE EventIgnored
  BY <1>15 DEF EventIgnored
<1>16. CASE NothingNew
  BY <1>16 DEF NothingNew
<1>17. CASE UNCHANGED vars
  BY <1>17 DEF vars
<1> QED
  BY <1>1, <1>2, <1>3, <1>4, <1>5, <1>6, <1>7, <1>8, <1>9, <1>10, <1>11, <1>12, <1>13, <1>14,
     <1>15, <1>16, <1>17 DEF Next

(* Whatever is replaced, lost or destroyed, only the connection in use     *)
(* lives (OneLiveConnection).                                              *)
THEOREM OneLiveSafety == Spec => []OneLiveConnection
<1>1. Init => OneLiveConnection
  BY DEF Init, OneLiveConnection
<1> QED BY <1>1, NextLive, TypeCorrect, PTL DEF Spec

-----------------------------------------------------------------------------
(* What the watcher asks for is in the file, or the change that made it     *)
(* old has been reported to it or will be.                                 *)
FollowInv ==
  /\ SessionFollowsFile
  /\ watching /\ ~event /\ updating # None => asked[updating] = file \/ missed

(* Every step keeps the watcher on the track of its file.                   *)
LEMMA NextFollow == TInv /\ FollowInv /\ [Next]_vars => FollowInv'
<1> SUFFICES ASSUME TInv, FollowInv, [Next]_vars PROVE FollowInv'
  OBVIOUS
<1> USE PluginAssumptions DEF TInv, TypeOK, UpdatingInv, FollowInv, SessionFollowsFile
<1> USE DEF watcher, identity, calls, hub
<1>1. ASSUME NEW c \in Conns, NEW r \in Requests, SocketOpens(c, r) PROVE FollowInv'
  BY <1>1 DEF SocketOpens, Request, Free
<1>2. ASSUME NEW c \in Conns, NEW r \in Requests, SessionUpdated(r, c) PROVE FollowInv'
  BY <1>2 DEF SessionUpdated, Current
<1>3. ASSUME NEW c \in Conns, ConnectFails(c) PROVE FollowInv'
  BY <1>3 DEF ConnectFails
<1>4. ASSUME NEW c \in Conns, SocketCloses(c) PROVE FollowInv'
  BY <1>4 DEF SocketCloses
<1>5. ASSUME NEW c \in Conns, Reconnect(c) PROVE FollowInv'
  BY <1>5 DEF Reconnect
<1>6. ASSUME NEW r \in Requests, ToolCall(r) PROVE FollowInv'
  BY <1>6 DEF ToolCall, RequestByTool, RequestByFetch, Request, Free
<1>7. ASSUME NEW r \in Requests, FetchEnds(r) PROVE FollowInv'
  BY <1>7 DEF FetchEnds
<1>8. ASSUME NEW r \in Requests, AnswerArrives(r) PROVE FollowInv'
  BY <1>8 DEF AnswerArrives
<1>9. ASSUME NEW r \in Requests, Timeout(r) PROVE FollowInv'
  BY <1>9 DEF Timeout
<1>10. ASSUME NEW r \in Requests, SessionUpdate(r) PROVE FollowInv'
  BY <1>10 DEF SessionUpdate, Request, Free
<1>11. ASSUME NEW r \in Requests, HubAnswers(r) PROVE FollowInv'
  BY <1>11 DEF HubAnswers
<1>12. ASSUME NEW r \in Requests, HubGoesOn(r) PROVE FollowInv'
  BY <1>12 DEF HubGoesOn
<1>13. ASSUME NEW r \in Requests, HubSilent(r) PROVE FollowInv'
  BY <1>13 DEF HubSilent
<1>14. ASSUME NEW s \in Sessions \cup {None}, SessionFileChanges(s) PROVE FollowInv'
  BY <1>14 DEF SessionFileChanges
<1>15. CASE EventIgnored
  BY <1>15 DEF EventIgnored
<1>16. CASE NothingNew
  BY <1>16 DEF NothingNew
<1>17. CASE UNCHANGED vars
  BY <1>17 DEF vars
<1> QED
  BY <1>1, <1>2, <1>3, <1>4, <1>5, <1>6, <1>7, <1>8, <1>9, <1>10, <1>11, <1>12, <1>13, <1>14,
     <1>15, <1>16, <1>17 DEF Next

(* The plugin has the session of its file, but for the changes it is known  *)
(* to have missed (SessionFollowsFile).                                    *)
THEOREM FollowSafety == Spec => []SessionFollowsFile
<1>1. Init => FollowInv
  BY DEF Init, FollowInv, SessionFollowsFile
<1>2. FollowInv => SessionFollowsFile
  BY DEF FollowInv
<1> QED BY <1>1, <1>2, NextFollow, TypeCorrect, PTL DEF Spec

-----------------------------------------------------------------------------
(* The answer that the watcher awaits is on its way: the hub has taken the  *)
(* new identity already.                                                   *)
UpdateAnswered ==
  updating # None /\ Renames(updating) /\ frame[updating] = "answered"

(* Frames that can still be answered are on the live socket, which has a    *)
(* well-formed id; and unless an update went unheard, the hub has the       *)
(* identity that the plugin has or is about to take.                       *)
HubInv ==
  /\ \A r \in Requests : frame[r] \in {"sent", "answered"}
       => via[r] = conn /\ socket[conn] = "open"
  /\ socket[conn] = "open" => session \notin Malformed
  /\ ~unheard =>
       /\ socket[conn] = "open" => hubId[conn] = home
       /\ IF UpdateAnswered THEN home = asked[updating]
                            ELSE session \notin Malformed => home = session

HInv == TInv /\ OneLiveConnection /\ HubInv

(* Every step keeps the hub in step with the plugin.                        *)
LEMMA NextHub == HInv /\ [Next]_vars => HubInv'
<1> SUFFICES ASSUME HInv, [Next]_vars PROVE HubInv'
  OBVIOUS
<1> USE PluginAssumptions DEF HInv, TInv, TypeOK, CallInv, UpdatingInv, UrlInv, OneLiveConnection, HubInv,
      UpdateAnswered, Renames
<1> USE DEF watcher, identity, calls, hub
<1>1. ASSUME NEW c \in Conns, NEW r \in Requests, SocketOpens(c, r) PROVE HubInv'
  BY <1>1 DEF SocketOpens, Request, Free
<1>2. ASSUME NEW c \in Conns, NEW r \in Requests, SessionUpdated(r, c) PROVE HubInv'
  BY <1>2 DEF SessionUpdated, Current, NewUrl, Unborn, Abandoned, Destroyed
<1>3. ASSUME NEW c \in Conns, ConnectFails(c) PROVE HubInv'
  BY <1>3 DEF ConnectFails
<1>4. ASSUME NEW c \in Conns, SocketCloses(c) PROVE HubInv'
  BY <1>4 DEF SocketCloses, Abandoned
<1>5. ASSUME NEW c \in Conns, Reconnect(c) PROVE HubInv'
  BY <1>5 DEF Reconnect
<1>6. ASSUME NEW r \in Requests, ToolCall(r) PROVE HubInv'
  BY <1>6 DEF ToolCall, RequestByTool, RequestByFetch, Request, Free
<1>7. ASSUME NEW r \in Requests, FetchEnds(r) PROVE HubInv'
  BY <1>7 DEF FetchEnds
<1>8. ASSUME NEW r \in Requests, AnswerArrives(r) PROVE HubInv'
  BY <1>8 DEF AnswerArrives
<1>9. ASSUME NEW r \in Requests, Timeout(r) PROVE HubInv'
  BY <1>9 DEF Timeout
<1>10. ASSUME NEW r \in Requests, SessionUpdate(r) PROVE HubInv'
  BY <1>10 DEF SessionUpdate, Request, Free
<1>11. ASSUME NEW r \in Requests, HubAnswers(r) PROVE HubInv'
  <2>1. via[r] = conn /\ socket[conn] = "open"
    BY <1>11 DEF HubAnswers
  <2>2. frame' = [frame EXCEPT ![r] = "answered"]
    BY <1>11 DEF HubAnswers
  <2>3. CASE ~Renames(r)
    <3>1. UNCHANGED hub
      BY <1>11, <2>3 DEF HubAnswers
    <3>2. UpdateAnswered' <=> UpdateAnswered
      BY <1>11, <2>2, <2>3 DEF HubAnswers
    <3> QED BY <1>11, <2>1, <2>2, <3>1, <3>2 DEF HubAnswers
  <2>4. CASE Renames(r)
    <3>1. hubId'[conn] = asked[r]
      BY <1>11, <2>1, <2>4 DEF HubAnswers
    <3>2. CASE promise[r] = "none"
      BY <1>11, <2>1, <2>4, <3>2 DEF HubAnswers
    <3>3. CASE promise[r] = "waiting"
      <4>1. updating = r /\ UpdateAnswered'
        BY <1>11, <2>2, <2>4, <3>3 DEF HubAnswers
      <4>2. ~unheard' => home' = asked[r]
        BY <1>11, <2>1, <2>4, <3>3 DEF HubAnswers
      <4> QED BY <1>11, <2>1, <2>2, <3>1, <4>1, <4>2 DEF HubAnswers
    <3> QED BY <3>2, <3>3
  <2> QED BY <2>3, <2>4
<1>12. ASSUME NEW r \in Requests, HubGoesOn(r) PROVE HubInv'
  BY <1>12 DEF HubGoesOn
<1>13. ASSUME NEW r \in Requests, HubSilent(r) PROVE HubInv'
  BY <1>13 DEF HubSilent
<1>14. ASSUME NEW s \in Sessions \cup {None}, SessionFileChanges(s) PROVE HubInv'
  BY <1>14 DEF SessionFileChanges
<1>15. CASE EventIgnored
  BY <1>15 DEF EventIgnored
<1>16. CASE NothingNew
  BY <1>16 DEF NothingNew
<1>17. CASE UNCHANGED vars
  BY <1>17 DEF vars
<1> QED
  BY <1>1, <1>2, <1>3, <1>4, <1>5, <1>6, <1>7, <1>8, <1>9, <1>10, <1>11, <1>12, <1>13, <1>14,
     <1>15, <1>16, <1>17 DEF Next

(* Hub and plugin agree on the identity and on its queue, unless an update  *)
(* went unheard (HubKnowsIdentity).                                        *)
THEOREM IdentitySafety == Spec => []HubKnowsIdentity
<1>1. Init => HubInv
  BY PluginAssumptions DEF Init, HubInv, UpdateAnswered
<1>2. HInv => HubKnowsIdentity
  BY DEF HInv, HubInv, HubKnowsIdentity, UpdateAnswered
<1>3. TInv /\ OneLiveConnection /\ HubInv /\ [Next]_vars => HubInv'
  BY NextHub DEF HInv
<1>4. TInv /\ OneLiveConnection /\ HubInv => HubKnowsIdentity
  BY <1>2 DEF HInv
<1> QED BY <1>1, <1>3, <1>4, OneLiveSafety, TypeCorrect, PTL DEF Spec

-----------------------------------------------------------------------------
(* RateLimits.                                                             *)

(* The frames of id in l that passed between two times, and their number.   *)
Frame == [id : Ids, at : Nat, passes : BOOLEAN]
Hits(l, id, a, b)  == { n \in DOMAIN l : l[n].id = id /\ l[n].passes /\ l[n].at \in a..b }
Count(l, id, a, b) == Cardinality(Hits(l, id, a, b))

(* One frame more: the set of hits grows by it, or stays.                   *)
LEMMA OneMore ==
  ASSUME NEW H, NEW K, NEW n \in Nat, H \subseteq 1..n, K \subseteq 1..(n + 1),
         \A m \in 1..n : m \in K <=> m \in H
  PROVE  /\ n + 1 \in K => K = H \cup {n + 1}
         /\ n + 1 \notin K => K = H
<1>1. \A x : x \in 1..(n + 1) <=> x \in 1..n \/ x = n + 1
  OBVIOUS
<1>2. \A x : x \in H => x \in 1..n
  OBVIOUS
<1>3. \A x : x \in K => x \in 1..n \/ x = n + 1
  BY <1>1
<1>4. ASSUME n + 1 \in K PROVE K = H \cup {n + 1}
  <2>1. \A x : x \in K <=> x \in H \/ x = n + 1
    BY <1>2, <1>3, <1>4
  <2> QED BY <2>1
<1>5. ASSUME n + 1 \notin K PROVE K = H
  <2>1. \A x : x \in K <=> x \in H
    BY <1>2, <1>3, <1>5
  <2> QED BY <2>1
<1> QED BY <1>4, <1>5

(* A frame more is one hit more, if it passes within the interval.          *)
LEMMA CountAppend ==
  ASSUME NEW l \in Seq(Frame), NEW f \in Frame, NEW id, NEW a \in Int, NEW b \in Int
  PROVE  /\ Count(l, id, a, b) \in Nat
         /\ Count(Append(l, f), id, a, b) =
              IF f.id = id /\ f.passes /\ f.at \in a..b THEN Count(l, id, a, b) + 1
                                                       ELSE Count(l, id, a, b)
<1> DEFINE H == Hits(l, id, a, b)
           K == Hits(Append(l, f), id, a, b)
<1>1. /\ Len(l) \in Nat /\ DOMAIN l = 1..Len(l)
      /\ DOMAIN Append(l, f) = 1..(Len(l) + 1)
      /\ Append(l, f)[Len(l) + 1] = f /\ \A n \in DOMAIN l : Append(l, f)[n] = l[n]
  OBVIOUS
<1>2. IsFiniteSet(H) /\ Len(l) + 1 \notin H
  <2>1. H \in SUBSET (1..Len(l))
    BY <1>1 DEF Hits
  <2>2. IsFiniteSet(1..Len(l))
    BY <1>1, FS_Interval
  <2> QED BY <1>1, <2>1, <2>2, FS_Subset
<1>3. K = IF f.id = id /\ f.passes /\ f.at \in a..b THEN H \cup {Len(l) + 1} ELSE H
  <2>1. \A n \in 1..Len(l) : n \in K <=> n \in H
    BY <1>1 DEF Hits
  <2>2. Len(l) + 1 \in K <=> f.id = id /\ f.passes /\ f.at \in a..b
    BY <1>1 DEF Hits
  <2>3. K \subseteq 1..(Len(l) + 1) /\ H \subseteq 1..Len(l)
    BY <1>1 DEF Hits
  <2>4. /\ Len(l) + 1 \in K => K = H \cup {Len(l) + 1}
        /\ Len(l) + 1 \notin K => K = H
    <3> HIDE DEF H, K
    <3> QED BY <1>1, <2>1, <2>3, OneMore
  <2> HIDE DEF H, K
  <2> QED BY <2>2, <2>4
<1>4. Cardinality(H) \in Nat /\ Cardinality(H \cup {Len(l) + 1}) = Cardinality(H) + 1
  BY <1>2, FS_CardinalityType, FS_AddElement
<1> HIDE DEF H, K
<1>5. Count(l, id, a, b) = Cardinality(H) /\ Count(Append(l, f), id, a, b) = Cardinality(K)
  BY DEF H, K, Count
<1> QED BY <1>3, <1>4, <1>5

(* The hits of a log are finitely many.                                     *)
LEMMA HitsFinite ==
  ASSUME NEW l \in Seq(Frame), NEW id, NEW a \in Int, NEW b \in Int
  PROVE  IsFiniteSet(Hits(l, id, a, b)) /\ Count(l, id, a, b) \in Nat
<1>1. Len(l) \in Nat /\ DOMAIN l = 1..Len(l)
  OBVIOUS
<1>2. Hits(l, id, a, b) \in SUBSET (1..Len(l))
  BY <1>1 DEF Hits
<1>3. IsFiniteSet(1..Len(l))
  BY <1>1, FS_Interval
<1>4. IsFiniteSet(Hits(l, id, a, b))
  BY <1>2, <1>3, FS_Subset
<1> QED BY <1>4, FS_CardinalityType DEF Count

(* A longer interval has no fewer hits.                                    *)
LEMMA CountMonotone ==
  ASSUME NEW l \in Seq(Frame), NEW id, NEW a \in Int, NEW b \in Int, NEW c \in Int, NEW d \in Int,
         a <= c, d <= b
  PROVE  Count(l, id, c, d) <= Count(l, id, a, b)
<1>1. Hits(l, id, c, d) \in SUBSET Hits(l, id, a, b)
  <2>1. \A x : x \in c..d => x \in a..b
    OBVIOUS
  <2> QED BY <2>1 DEF Hits
<1> QED BY <1>1, HitsFinite, FS_Subset DEF Count

(* The hits of an interval are those of its two parts.                      *)
LEMMA CountSplit ==
  ASSUME NEW l \in Seq(Frame), NEW id, NEW a \in Int, NEW b \in Int, NEW m \in Int,
         a <= m + 1, m <= b
  PROVE  Count(l, id, a, b) = Count(l, id, a, m) + Count(l, id, m + 1, b)
<1> DEFINE H == Hits(l, id, a, m)
           K == Hits(l, id, m + 1, b)
<1>1. Hits(l, id, a, b) = H \cup K
  <2>1. \A x : x \in a..b <=> x \in a..m \/ x \in (m + 1)..b
    OBVIOUS
  <2> QED BY <2>1 DEF Hits
<1>2. H \cap K = {}
  <2>1. \A x : ~(x \in a..m /\ x \in (m + 1)..b)
    OBVIOUS
  <2> QED BY <2>1 DEF Hits
<1>3. IsFiniteSet(H) /\ IsFiniteSet(K) /\ Cardinality(H) \in Nat /\ Cardinality(K) \in Nat
  BY HitsFinite DEF Count
<1> HIDE DEF H, K
<1>4. Cardinality(H \cup K) = Cardinality(H) + Cardinality(K) - Cardinality(H \cap K)
  BY <1>3, FS_Union
<1>5. Cardinality(H \cap K) = 0
  BY <1>2, FS_EmptySet
<1> QED BY <1>1, <1>3, <1>4, <1>5 DEF Count, H, K

(* Nothing has passed at a time when no frame has arrived.                  *)
LEMMA CountNone ==
  ASSUME NEW l \in Seq(Frame), NEW id, NEW a \in Int, NEW b \in Int,
         \A n \in DOMAIN l : ~(l[n].id = id /\ l[n].passes /\ l[n].at \in a..b)
  PROVE  Count(l, id, a, b) = 0
<1>1. Hits(l, id, a, b) = {}
  BY DEF Hits
<1> QED BY <1>1, FS_EmptySet DEF Count

-----------------------------------------------------------------------------
(* The limiter.                                                            *)

EntryType == [count : Nat, start : Nat, since : Nat]

LimiterType ==
  /\ clock \in Nat /\ log \in Seq(Frame) /\ dropped \subseteq Ids
  /\ rateLimitMap \in [DOMAIN rateLimitMap -> EntryType] /\ DOMAIN rateLimitMap \subseteq Ids
  /\ IsFiniteSet(DOMAIN rateLimitMap) /\ Cardinality(DOMAIN rateLimitMap) <= MapMax
  /\ \A n \in DOMAIN log : log[n].at <= clock

(* An entry counts what has passed in its window, which has not ended when  *)
(* the last frame passed; of the window before that, less than the limit    *)
(* passed in the time of a window up to the start of this one.              *)
Counts(id, e, l, now) ==
  /\ e.start <= now /\ e.count \in 1..Frames
  /\ Count(l, id, e.start, now) >= e.count
Exact(id, e, l, now) ==
  /\ Count(l, id, e.start, now) = e.count
  /\ Count(l, id, e.start, e.start) >= 1
  /\ Count(l, id, e.start - Window + 1, e.start - 1) < Frames
  /\ Count(l, id, e.start + Window, now) = 0

Bounded(id, l) == \A t \in Int : Count(l, id, t, t + Window - 1) < 2 * Frames
Silent(id, l)  == \A a, b \in Int : Count(l, id, a, b) = 0
Refused(l)     == \A n \in DOMAIN l :
  ~l[n].passes => Count(l, l[n].id, l[n].at - Window + 1, l[n].at) >= Frames

LimiterInv ==
  /\ LimiterType
  /\ \A id \in DOMAIN rateLimitMap : Counts(id, rateLimitMap[id], log, clock)
  /\ \A id \in DOMAIN rateLimitMap \ dropped : Exact(id, rateLimitMap[id], log, clock)
  /\ \A id \in Ids \ (DOMAIN rateLimitMap \cup dropped) : Silent(id, log)
  /\ \A id \in Ids \ dropped : Bounded(id, log)
  /\ Refused(log)

-----------------------------------------------------------------------------
(* The map.                                                                *)

LEMMA LeastNumber ==
  ASSUME NEW T, T \subseteq Nat, T # {}
  PROVE  \E m \in T : \A n \in T : m <= n
<1>1. PICK R : IsWellFoundedOn(R, Nat) /\ \A a, b \in Nat : a < b => <<a, b>> \in R
  <2> DEFINE R == OpToRel(<, Nat)
  <2>1. IsWellFoundedOn(R, Nat)
    BY NatLessThanWellFounded
  <2>2. \A a, b \in Nat : a < b => <<a, b>> \in R
    BY DEF OpToRel
  <2> HIDE DEF R
  <2> QED BY <2>1, <2>2
<1>2. PICK m \in T : \A n \in T : ~(<<n, m>> \in R)
  BY <1>1, WFMin
<1>3. \A n \in T : ~(n < m)
  BY <1>1, <1>2
<1> QED BY <1>3

(* Evicted keeps some entries as they are, with room for one more.          *)
LEMMA EvictedLemma ==
  ASSUME NEW map, map \in [DOMAIN map -> EntryType], IsFiniteSet(DOMAIN map),
         Cardinality(DOMAIN map) <= MapMax, NEW now \in Nat
  PROVE  LET k == Evicted(map, now) IN
         /\ DOMAIN k \subseteq DOMAIN map /\ \A id \in DOMAIN k : k[id] = map[id]
         /\ k \in [DOMAIN k -> EntryType]
         /\ IsFiniteSet(DOMAIN k) /\ Cardinality(DOMAIN k) < MapMax
<1> DEFINE kept == EvictStale(map, now)
           k    == Evicted(map, now)
<1> SUFFICES /\ DOMAIN k \subseteq DOMAIN map /\ \A id \in DOMAIN k : k[id] = map[id]
             /\ k \in [DOMAIN k -> EntryType]
             /\ IsFiniteSet(DOMAIN k) /\ Cardinality(DOMAIN k) < MapMax
  OBVIOUS
<1> HIDE DEF k
<1>1. /\ DOMAIN kept \subseteq DOMAIN map /\ \A id \in DOMAIN kept : kept[id] = map[id]
      /\ kept \in [DOMAIN kept -> EntryType]
  BY DEF EvictStale, Without
<1>2. IsFiniteSet(DOMAIN kept) /\ Cardinality(DOMAIN kept) \in Nat
      /\ Cardinality(DOMAIN kept) <= MapMax /\ Cardinality(DOMAIN map) \in Nat
  <2>1. DOMAIN kept \in SUBSET DOMAIN map
    BY <1>1
  <2>2. Cardinality(DOMAIN kept) <= Cardinality(DOMAIN map) /\ IsFiniteSet(DOMAIN kept)
    BY <2>1, FS_Subset
  <2> QED BY <2>2, FS_CardinalityType, LimiterAssumptions
<1> HIDE DEF kept
<1>3. CASE ~(Cardinality(DOMAIN map) >= MapMax)
  <2>1. k = map
    BY <1>3 DEF Evicted, k
  <2> QED BY <1>2, <1>3, <2>1, LimiterAssumptions
<1>4. CASE Cardinality(DOMAIN map) >= MapMax /\ ~(Cardinality(DOMAIN kept) >= MapMax)
  <2>1. k = kept
    BY <1>4 DEF Evicted, k, kept
  <2> QED BY <1>1, <1>2, <1>4, <2>1, LimiterAssumptions
<1>5. CASE Cardinality(DOMAIN map) >= MapMax /\ Cardinality(DOMAIN kept) >= MapMax
  <2>1. k = Without(kept, {Oldest(kept)})
    BY <1>5 DEF Evicted, k, kept
  <2>2. DOMAIN kept # {}
    BY <1>5, FS_EmptySet, LimiterAssumptions
  <2>3. Oldest(kept) \in DOMAIN kept
    <3> DEFINE T == { kept[i].since : i \in DOMAIN kept }
    <3>1. T \subseteq Nat /\ T # {}
      BY <1>1, <2>2 DEF EntryType
    <3> HIDE DEF T
    <3>2. PICK m \in T : \A n \in T : m <= n
      BY <3>1, LeastNumber
    <3>3. PICK i \in DOMAIN kept : m = kept[i].since
      BY DEF T
    <3>4. \A j \in DOMAIN kept : kept[i].since <= kept[j].since
      BY <3>2, <3>3 DEF T
    <3> QED BY <3>4 DEF Oldest
  <2>4. DOMAIN k = DOMAIN kept \ {Oldest(kept)} /\ \A id \in DOMAIN k : k[id] = kept[id]
    BY <2>1 DEF Without
  <2>5. IsFiniteSet(DOMAIN k) /\ Cardinality(DOMAIN k) = Cardinality(DOMAIN kept) - 1
    BY <1>2, <2>3, <2>4, FS_RemoveElement
  <2>6. k \in [DOMAIN k -> EntryType]
    BY <1>1, <2>1 DEF Without
  <2> QED BY <1>1, <1>2, <2>4, <2>5, <2>6, LimiterAssumptions
<1> QED BY <1>3, <1>4, <1>5

-----------------------------------------------------------------------------
(* Steps, for the counts of one id.                                        *)

LEMMA CountFuture ==
  ASSUME NEW l \in Seq(Frame), NEW now \in Nat, \A n \in DOMAIN l : l[n].at <= now,
         NEW id, NEW a \in Int, NEW b \in Int, now < a
  PROVE  Count(l, id, a, b) = 0
<1>1. \A n \in DOMAIN l : l[n].at \in Nat /\ l[n].at <= now
  <2>1. \A n \in DOMAIN l : l[n] \in Frame
    OBVIOUS
  <2> QED BY <2>1 DEF Frame
<1> QED BY <1>1, CountNone

LEMMA CountTick ==
  ASSUME NEW l \in Seq(Frame), NEW now \in Nat, \A n \in DOMAIN l : l[n].at <= now,
         NEW id, NEW a \in Int
  PROVE  Count(l, id, a, now + 1) = Count(l, id, a, now)
<1>1. CASE a <= now + 1
  <2>1. Count(l, id, a, now + 1) = Count(l, id, a, now) + Count(l, id, now + 1, now + 1)
    BY <1>1, CountSplit
  <2>2. Count(l, id, now + 1, now + 1) = 0
    BY CountFuture
  <2> QED BY <2>1, <2>2, HitsFinite
<1>2. CASE a > now + 1
  BY <1>2, CountFuture
<1> QED BY <1>1, <1>2

(* Time goes on.                                                           *)
LEMMA TickKeeps ==
  ASSUME NEW l \in Seq(Frame), NEW now \in Nat, \A n \in DOMAIN l : l[n].at <= now,
         NEW id, NEW e \in EntryType
  PROVE  /\ Counts(id, e, l, now) => Counts(id, e, l, now + 1)
         /\ Exact(id, e, l, now) => Exact(id, e, l, now + 1)
<1>1. /\ e.start \in Int /\ e.start + Window \in Int
  BY LimiterAssumptions DEF EntryType
<1>2. /\ Count(l, id, e.start, now + 1) = Count(l, id, e.start, now)
      /\ Count(l, id, e.start + Window, now + 1) = Count(l, id, e.start + Window, now)
  BY <1>1, CountTick
<1> QED BY <1>1, <1>2 DEF Counts, Exact

(* A frame of another id, or one that does not pass, changes no count.      *)
LEMMA OthersKeep ==
  ASSUME NEW l \in Seq(Frame), NEW f \in Frame, NEW id, ~(f.id = id /\ f.passes)
  PROVE  \A a, b \in Int : Count(Append(l, f), id, a, b) = Count(l, id, a, b)
BY CountAppend

LEMMA SameCounts ==
  ASSUME NEW l \in Seq(Frame), NEW k \in Seq(Frame), NEW id,
         \A a, b \in Int : Count(k, id, a, b) = Count(l, id, a, b),
         NEW now \in Nat, NEW e \in EntryType
  PROVE  /\ Counts(id, e, l, now) => Counts(id, e, k, now)
         /\ Exact(id, e, l, now) => Exact(id, e, k, now)
<1>1. e.start \in Int /\ e.start + Window \in Int /\ e.start - Window + 1 \in Int
      /\ e.start - 1 \in Int /\ now \in Int
  BY LimiterAssumptions DEF EntryType
<1> QED BY <1>1 DEF Counts, Exact

LEMMA SameBounds ==
  ASSUME NEW l \in Seq(Frame), NEW k \in Seq(Frame), NEW id,
         \A a, b \in Int : Count(k, id, a, b) = Count(l, id, a, b)
  PROVE  /\ Silent(id, l) => Silent(id, k)
         /\ Bounded(id, l) => Bounded(id, k)
<1>1. \A t \in Int : t + Window - 1 \in Int
  BY LimiterAssumptions
<1> QED BY <1>1 DEF Silent, Bounded

(* The frames that were turned away stay justified: counts only grow.       *)
LEMMA RefusedKeeps ==
  ASSUME NEW l \in Seq(Frame), NEW f \in Frame, Refused(l),
         ~f.passes => Count(l, f.id, f.at - Window + 1, f.at) >= Frames
  PROVE  Refused(Append(l, f))
<1> DEFINE k == Append(l, f)
<1>1. /\ Len(l) \in Nat /\ DOMAIN l = 1..Len(l) /\ DOMAIN k = 1..(Len(l) + 1)
      /\ k[Len(l) + 1] = f /\ \A n \in DOMAIN l : k[n] = l[n]
  OBVIOUS
<1>2. \A id : \A a, b \in Int : Count(k, id, a, b) >= Count(l, id, a, b) /\ Count(l, id, a, b) \in Nat
                               /\ Count(k, id, a, b) \in Nat
  <2> SUFFICES ASSUME NEW id, NEW a \in Int, NEW b \in Int
               PROVE  Count(k, id, a, b) >= Count(l, id, a, b) /\ Count(l, id, a, b) \in Nat
                        /\ Count(k, id, a, b) \in Nat
    OBVIOUS
  <2> QED BY CountAppend
<1> HIDE DEF k
<1>3. ASSUME NEW n \in DOMAIN k, ~k[n].passes
      PROVE  Count(k, k[n].id, k[n].at - Window + 1, k[n].at) >= Frames
  <2> DEFINE g == k[n]
  <2>1. g \in Frame /\ Count(l, g.id, g.at - Window + 1, g.at) >= Frames
    <3>1. CASE n = Len(l) + 1
      BY <1>1, <1>3, <3>1
    <3>2. CASE n \in DOMAIN l
      <4>1. g = l[n] /\ l[n] \in Frame /\ ~l[n].passes
        BY <1>1, <1>3, <3>2
      <4> QED BY <3>2, <4>1 DEF Refused
    <3> QED BY <1>1, <3>1, <3>2
  <2>2. g.at \in Int /\ g.at - Window + 1 \in Int
    BY <2>1, LimiterAssumptions DEF Frame
  <2> HIDE DEF g
  <2>3. Count(k, g.id, g.at - Window + 1, g.at) >= Frames
    BY <1>2, <2>1, <2>2, LimiterAssumptions
  <2> QED BY <2>3 DEF g
<1> QED BY <1>3 DEF Refused, k

Pass(id, now) == [id |-> id, at |-> now, passes |-> TRUE]

(* One hit more for the intervals that now is in.                           *)
LEMMA PassCounts ==
  ASSUME NEW l \in Seq(Frame), NEW id \in Ids, NEW now \in Nat
  PROVE  /\ Pass(id, now) \in Frame
         /\ \A a, b \in Int : Count(l, id, a, b) \in Nat
         /\ \A a, b \in Int : a <= now /\ now <= b
              => Count(Append(l, Pass(id, now)), id, a, b) = Count(l, id, a, b) + 1
         /\ \A a, b \in Int : ~(a <= now /\ now <= b)
              => Count(Append(l, Pass(id, now)), id, a, b) = Count(l, id, a, b)
<1>1. /\ Pass(id, now) \in Frame /\ Pass(id, now).id = id /\ Pass(id, now).passes
      /\ Pass(id, now).at = now
  BY DEF Pass, Frame
<1>2. \A a, b \in Int : now \in a..b <=> a <= now /\ now <= b
  OBVIOUS
<1>3. ASSUME NEW a \in Int, NEW b \in Int
      PROVE  /\ Count(l, id, a, b) \in Nat
             /\ Count(Append(l, Pass(id, now)), id, a, b) =
                  IF now \in a..b THEN Count(l, id, a, b) + 1 ELSE Count(l, id, a, b)
  BY <1>1, CountAppend
<1> QED BY <1>1, <1>2, <1>3

LEMMA PassIn ==
  ASSUME NEW l \in Seq(Frame), NEW id \in Ids, NEW now \in Nat, NEW a \in Int, NEW b \in Int,
         a <= now, now <= b
  PROVE  Count(Append(l, Pass(id, now)), id, a, b) = Count(l, id, a, b) + 1
BY PassCounts

LEMMA PassOut ==
  ASSUME NEW l \in Seq(Frame), NEW id \in Ids, NEW now \in Nat, NEW a \in Int, NEW b \in Int,
         ~(a <= now /\ now <= b)
  PROVE  Count(Append(l, Pass(id, now)), id, a, b) = Count(l, id, a, b)
BY PassCounts

(* The first frame of an entry.                                            *)
LEMMA FirstPass ==
  ASSUME NEW l \in Seq(Frame), NEW id \in Ids, NEW now \in Nat, NEW e \in EntryType,
         e.count = 1, e.start = now
  PROVE  LET k == Append(l, Pass(id, now)) IN
         /\ Counts(id, e, k, now)
         /\ Silent(id, l) => Exact(id, e, k, now) /\ Bounded(id, k)
<1> DEFINE k == Append(l, Pass(id, now))
<1> HIDE DEF k
<1>1. /\ \A a, b \in Int : Count(l, id, a, b) \in Nat
      /\ \A a, b \in Int : a <= now /\ now <= b => Count(k, id, a, b) = Count(l, id, a, b) + 1
      /\ \A a, b \in Int : ~(a <= now /\ now <= b) => Count(k, id, a, b) = Count(l, id, a, b)
  BY PassCounts DEF k
<1> USE LimiterAssumptions
<1>2. Counts(id, e, k, now)
  BY <1>1 DEF Counts
<1>3. ASSUME Silent(id, l) PROVE Exact(id, e, k, now) /\ Bounded(id, k)
  <2>1. \A a, b \in Int : Count(l, id, a, b) = 0
    BY <1>3 DEF Silent
  <2>2. Count(k, id, now, now) = 1
    BY <1>1, <2>1
  <2>3. now - Window + 1 \in Int /\ now - 1 \in Int /\ now + Window \in Int
    OBVIOUS
  <2>4. Count(k, id, now - Window + 1, now - 1) = 0 /\ Count(k, id, now + Window, now) = 0
    BY <1>1, <2>1, <2>3
  <2>5. Bounded(id, k)
    <3>1. \A t \in Int : t + Window - 1 \in Int
      OBVIOUS
    <3>2. \A a, b \in Int : Count(k, id, a, b) <= 1 /\ Count(k, id, a, b) \in Nat
      BY <1>1, <2>1
    <3>3. 1 < 2 * Frames
      OBVIOUS
    <3> QED BY <3>1, <3>2, <3>3 DEF Bounded
  <2> QED BY <2>2, <2>4, <2>5 DEF Exact
<1> QED BY <1>2, <1>3 DEF k

(* A frame after the end of its entry's window.                            *)
LEMMA NewWindow ==
  ASSUME NEW l \in Seq(Frame), NEW id \in Ids, NEW now \in Nat,
         NEW d \in EntryType, Counts(id, d, l, now), Exact(id, d, l, now), Bounded(id, l),
         d.start + Window <= now, \A n \in DOMAIN l : l[n].at <= now,
         NEW e \in EntryType, e.count = 1, e.start = now
  PROVE  LET k == Append(l, Pass(id, now)) IN Exact(id, e, k, now) /\ Bounded(id, k)
<1> DEFINE k == Append(l, Pass(id, now))
<1> HIDE DEF k
<1> USE LimiterAssumptions
<1>1. /\ d.start \in Nat /\ d.count \in Nat /\ d.count <= Frames
      /\ Count(l, id, d.start, now) = d.count
      /\ Count(l, id, d.start, d.start) >= 1 /\ Count(l, id, d.start + Window, now) = 0
  BY DEF EntryType, Counts, Exact
<1>2. /\ now - Window + 1 \in Int /\ now - 1 \in Int /\ now + Window \in Int
      /\ d.start + Window \in Int /\ d.start + 1 \in Int
  BY <1>1
<1>3. Count(l, id, d.start + 1, now) < Frames
  <2>1. Count(l, id, d.start, now) = Count(l, id, d.start, d.start) + Count(l, id, d.start + 1, now)
    BY <1>1, CountSplit
  <2>2. Count(l, id, d.start, d.start) \in Nat /\ Count(l, id, d.start + 1, now) \in Nat
    BY HitsFinite, <1>1, <1>2
  <2> QED BY <1>1, <2>1, <2>2
<1>4. \A a, b \in Int : a > d.start /\ b <= now => Count(l, id, a, b) < Frames
  <2> SUFFICES ASSUME NEW a \in Int, NEW b \in Int, a > d.start, b <= now
               PROVE  Count(l, id, a, b) < Frames
    OBVIOUS
  <2>1. Count(l, id, a, b) <= Count(l, id, d.start + 1, now)
    BY <1>1, <1>2, CountMonotone
  <2>2. Count(l, id, a, b) \in Nat /\ Count(l, id, d.start + 1, now) \in Nat
    BY HitsFinite, <1>2
  <2> QED BY <1>3, <2>1, <2>2
<1>5. Count(l, id, now, now) = 0
  <2>1. Count(l, id, now, now) <= Count(l, id, d.start + Window, now)
    BY <1>1, <1>2, CountMonotone
  <2> QED BY HitsFinite, <1>1, <2>1
<1>6. Exact(id, e, k, now)
  <2>1. Count(k, id, now, now) = 1
    BY HitsFinite, PassIn, <1>5 DEF k
  <2>2. Count(k, id, now - Window + 1, now - 1) = Count(l, id, now - Window + 1, now - 1)
    BY PassOut, <1>2 DEF k
  <2>3. Count(l, id, now - Window + 1, now - 1) < Frames
    BY <1>1, <1>2, <1>4
  <2>4. Count(k, id, now + Window, now) = Count(l, id, now + Window, now)
    BY PassOut, <1>2 DEF k
  <2>5. Count(l, id, now + Window, now) <= Count(l, id, d.start + Window, now)
    BY <1>1, <1>2, CountMonotone
  <2>6. Count(l, id, now + Window, now) = 0
    BY HitsFinite, <1>1, <1>2, <2>5
  <2> QED BY <2>1, <2>2, <2>3, <2>4, <2>6 DEF Exact
<1>7. Bounded(id, k)
  <2> SUFFICES ASSUME NEW t \in Int PROVE Count(k, id, t, t + Window - 1) < 2 * Frames
    BY DEF Bounded
  <2>1. t + Window - 1 \in Int
    OBVIOUS
  <2>2. CASE t <= now /\ now <= t + Window - 1
    <3>1. Count(k, id, t, t + Window - 1) = Count(l, id, t, t + Window - 1) + 1
      BY HitsFinite, PassIn, <2>1, <2>2 DEF k
    <3>2. Count(l, id, t, t + Window - 1) = Count(l, id, t, now) + Count(l, id, now + 1, t + Window - 1)
      BY <2>1, <2>2, CountSplit
    <3>3. Count(l, id, t, now) < Frames
      BY <1>1, <1>4, <2>2
    <3>4. Count(l, id, now + 1, t + Window - 1) = 0
      BY <2>1, CountFuture
    <3> QED BY HitsFinite, <3>1, <3>2, <3>3, <3>4
  <2>3. CASE ~(t <= now /\ now <= t + Window - 1)
    <3>1. Count(k, id, t, t + Window - 1) = Count(l, id, t, t + Window - 1)
      BY PassOut, <2>1, <2>3 DEF k
    <3> QED BY <3>1 DEF Bounded
  <2> QED BY <2>2, <2>3
<1> QED BY <1>6, <1>7 DEF k

(* A frame within its entry's window.                                      *)
LEMMA SameWindow ==
  ASSUME NEW l \in Seq(Frame), NEW id \in Ids, NEW now \in Nat,
         NEW d \in EntryType, Counts(id, d, l, now),
         now < d.start + Window, d.count < Frames, \A n \in DOMAIN l : l[n].at <= now,
         NEW e \in EntryType, e.count = d.count + 1, e.start = d.start
  PROVE  LET k == Append(l, Pass(id, now)) IN
         /\ Counts(id, e, k, now)
         /\ Exact(id, d, l, now) /\ Bounded(id, l) => Exact(id, e, k, now) /\ Bounded(id, k)
<1> DEFINE k == Append(l, Pass(id, now))
<1> HIDE DEF k
<1> USE LimiterAssumptions
<1>1. /\ d.start \in Nat /\ d.start <= now /\ d.count \in 1..Frames
      /\ Count(l, id, d.start, now) >= d.count
  BY DEF EntryType, Counts
<1>2. Count(k, id, d.start, now) = Count(l, id, d.start, now) + 1 /\ Count(l, id, d.start, now) \in Nat
  BY HitsFinite, PassIn, <1>1 DEF k
<1>3. Counts(id, e, k, now)
  BY <1>1, <1>2 DEF Counts
<1>4. ASSUME Exact(id, d, l, now), Bounded(id, l) PROVE Exact(id, e, k, now) /\ Bounded(id, k)
  <2>1. /\ Count(l, id, d.start, now) = d.count /\ Count(l, id, d.start, d.start) >= 1
        /\ Count(l, id, d.start - Window + 1, d.start - 1) < Frames
        /\ Count(l, id, d.start + Window, now) = 0
    BY <1>4 DEF Exact
  <2>2. d.start - Window + 1 \in Int /\ d.start - 1 \in Int /\ d.start + Window \in Int
    BY <1>1
  <2>3. Exact(id, e, k, now)
    <3>1. Count(k, id, d.start, d.start) >= 1
      BY HitsFinite, PassIn, PassOut, <1>1, <2>1 DEF k
    <3>2. Count(k, id, d.start - Window + 1, d.start - 1) < Frames
      BY HitsFinite, PassIn, PassOut, <1>1, <2>1, <2>2 DEF k
    <3>3. Count(k, id, d.start + Window, now) = 0
      BY HitsFinite, PassIn, PassOut, <1>1, <2>1, <2>2 DEF k
    <3> QED BY <1>2, <2>1, <3>1, <3>2, <3>3 DEF Exact
  <2>4. ASSUME NEW t \in Int PROVE Count(k, id, t, t + Window - 1) < 2 * Frames
    <3>1. t + Window - 1 \in Int
      OBVIOUS
    <3>2. CASE t <= now /\ now <= t + Window - 1
      <4>1. Count(k, id, t, t + Window - 1) = Count(l, id, t, t + Window - 1) + 1
        BY HitsFinite, PassIn, <3>1, <3>2 DEF k
      <4>2. Count(l, id, t, t + Window - 1) = Count(l, id, t, now) + Count(l, id, now + 1, t + Window - 1)
        BY <3>1, <3>2, CountSplit
      <4>3. Count(l, id, now + 1, t + Window - 1) = 0
        BY <3>1, CountFuture
      <4>4. CASE t >= d.start
        <5>1. Count(l, id, t, now) <= Count(l, id, d.start, now)
          BY <1>1, <4>4, CountMonotone
        <5> QED BY HitsFinite, <1>1, <2>1, <4>1, <4>2, <4>3, <5>1
      <4>5. CASE t < d.start
        <5>1. Count(l, id, t, now) = Count(l, id, t, d.start - 1) + Count(l, id, d.start - 1 + 1, now)
          BY <1>1, <2>2, <4>5, CountSplit
        <5>2. d.start - 1 + 1 = d.start
          BY <1>1
        <5>3. Count(l, id, t, d.start - 1) <= Count(l, id, d.start - Window + 1, d.start - 1)
          BY <1>1, <2>2, <3>2, CountMonotone
        <5>4. /\ Count(l, id, t, d.start - 1) \in Nat
              /\ Count(l, id, d.start - Window + 1, d.start - 1) \in Nat
          BY HitsFinite, <2>2
        <5>5. Count(l, id, t, d.start - 1) < Frames /\ Count(l, id, t, d.start - 1) \in Nat
          BY <2>1, <5>3, <5>4
        <5>6. Count(l, id, t, now) = Count(l, id, t, d.start - 1) + d.count
          BY <2>1, <5>1, <5>2
        <5>7. Count(k, id, t, t + Window - 1) = Count(l, id, t, d.start - 1) + d.count + 1
          BY <1>1, <4>1, <4>2, <4>3, <5>5, <5>6
        <5> QED BY <1>1, <5>5, <5>7
      <4> QED BY <1>1, <4>4, <4>5
    <3>3. CASE ~(t <= now /\ now <= t + Window - 1)
      <4>1. Count(k, id, t, t + Window - 1) = Count(l, id, t, t + Window - 1)
        BY PassOut, <3>1, <3>3 DEF k
      <4> QED BY <1>4, <4>1 DEF Bounded
    <3> QED BY <3>2, <3>3
  <2> QED BY <2>3, <2>4 DEF Bounded
<1> QED BY <1>3, <1>4 DEF k

-----------------------------------------------------------------------------
(* The log grows by a frame that is no later than now.                      *)
LEMMA LogGrows ==
  ASSUME NEW l \in Seq(Frame), NEW f \in Frame, NEW now \in Nat, f.at = now,
         \A n \in DOMAIN l : l[n].at <= now
  PROVE  /\ Append(l, f) \in Seq(Frame)
         /\ \A n \in DOMAIN Append(l, f) : Append(l, f)[n].at <= now
<1>1. /\ Len(l) \in Nat /\ DOMAIN l = 1..Len(l) /\ DOMAIN Append(l, f) = 1..(Len(l) + 1)
      /\ Append(l, f)[Len(l) + 1] = f /\ \A n \in DOMAIN l : Append(l, f)[n] = l[n]
      /\ Append(l, f) \in Seq(Frame)
  OBVIOUS
<1>2. \A n \in DOMAIN Append(l, f) : n \in DOMAIN l \/ n = Len(l) + 1
  BY <1>1
<1> QED BY <1>1, <1>2

(* A frame of id passes.  It concerns id's entry, and those evicted for it. *)
LEMMA PassStep ==
  ASSUME LimiterInv, NEW id \in Ids, clock' = clock, log' = Append(log, Pass(id, clock)),
         dropped' = dropped \cup (DOMAIN rateLimitMap \ DOMAIN rateLimitMap'),
         rateLimitMap' \in [DOMAIN rateLimitMap' -> EntryType],
         id \in DOMAIN rateLimitMap', DOMAIN rateLimitMap' \subseteq DOMAIN rateLimitMap \cup {id},
         \A i \in DOMAIN rateLimitMap' \ {id} : rateLimitMap'[i] = rateLimitMap[i],
         IsFiniteSet(DOMAIN rateLimitMap'), Cardinality(DOMAIN rateLimitMap') <= MapMax,
         Counts(id, rateLimitMap'[id], log', clock),
         id \notin dropped => Exact(id, rateLimitMap'[id], log', clock) /\ Bounded(id, log')
  PROVE  LimiterInv'
<1> USE DEF LimiterInv, LimiterType
<1>1. Pass(id, clock) \in Frame /\ Pass(id, clock).id = id /\ Pass(id, clock).at = clock
      /\ Pass(id, clock).passes
  BY DEF Pass, Frame
<1>2. log' \in Seq(Frame) /\ \A n \in DOMAIN log' : log'[n].at <= clock
  BY <1>1, LogGrows
<1>3. LimiterType'
  BY <1>2
<1>4. Refused(log')
  BY <1>1, RefusedKeeps
<1>5. ASSUME NEW i, i # id
      PROVE  /\ \A a, b \in Int : Count(log', i, a, b) = Count(log, i, a, b)
             /\ Silent(i, log) => Silent(i, log')
             /\ Bounded(i, log) => Bounded(i, log')
  <2>1. \A a, b \in Int : Count(log', i, a, b) = Count(log, i, a, b)
    BY <1>1, <1>5, OthersKeep
  <2> QED BY <1>2, <2>1, SameBounds
<1>6. ASSUME NEW i \in DOMAIN rateLimitMap' PROVE Counts(i, rateLimitMap'[i], log', clock)
  <2>1. CASE i # id
    <3>1. i \in DOMAIN rateLimitMap /\ rateLimitMap'[i] = rateLimitMap[i]
           /\ rateLimitMap[i] \in EntryType
      BY <1>6, <2>1
    <3>2. Counts(i, rateLimitMap[i], log, clock)
      BY <3>1
    <3>3. \A a, b \in Int : Count(log', i, a, b) = Count(log, i, a, b)
      BY <1>5, <2>1
    <3>4. Counts(i, rateLimitMap[i], log', clock)
      BY <1>2, <3>1, <3>2, <3>3, SameCounts
    <3> QED BY <3>1, <3>4
  <2> QED BY <2>1
<1>7. ASSUME NEW i \in DOMAIN rateLimitMap' \ dropped' PROVE Exact(i, rateLimitMap'[i], log', clock)
  <2>1. CASE i # id
    <3>1. i \in DOMAIN rateLimitMap \ dropped /\ rateLimitMap'[i] = rateLimitMap[i]
           /\ rateLimitMap[i] \in EntryType
      BY <1>7, <2>1
    <3>2. Exact(i, rateLimitMap[i], log, clock)
      BY <3>1
    <3>3. \A a, b \in Int : Count(log', i, a, b) = Count(log, i, a, b)
      BY <1>5, <2>1
    <3>4. Exact(i, rateLimitMap[i], log', clock)
      BY <1>2, <3>1, <3>2, <3>3, SameCounts
    <3> QED BY <3>1, <3>4
  <2> QED BY <1>7, <2>1
<1>8. ASSUME NEW i \in Ids \ (DOMAIN rateLimitMap' \cup dropped') PROVE Silent(i, log')
  <2>1. i # id /\ i \in Ids \ (DOMAIN rateLimitMap \cup dropped)
    BY <1>8
  <2> QED BY <1>5, <2>1
<1>9. ASSUME NEW i \in Ids \ dropped' PROVE Bounded(i, log')
  <2>1. i \in Ids \ dropped
    BY <1>9
  <2>2. CASE i # id
    BY <1>5, <2>1, <2>2
  <2> QED BY <2>1, <2>2
<1> QED BY <1>3, <1>4, <1>6, <1>7, <1>8, <1>9

(* checkRateLimit keeps what the counts say.                                *)
LEMMA FrameKeeps ==
  ASSUME LimiterInv, NEW id \in Ids, FrameArrives(id)
  PROVE  LimiterInv'
<1> DEFINE result == CheckRateLimit(rateLimitMap, id, clock, Len(log) + 1)
           e == rateLimitMap[id]
<1>1. /\ clock' = clock /\ rateLimitMap' = result.map
      /\ log' = Append(log, [id |-> id, at |-> clock, passes |-> result.passes])
      /\ dropped' = dropped \cup (DOMAIN rateLimitMap \ DOMAIN result.map)
  BY DEF FrameArrives
<1>2. LimiterType /\ Len(log) + 1 \in Nat /\ Refused(log)
  BY DEF LimiterInv, LimiterType
<1>3. CASE id \notin DOMAIN rateLimitMap
  <2> DEFINE k == Evicted(rateLimitMap, clock)
             f == [count |-> 1, start |-> clock, since |-> Len(log) + 1]
  <2>1. result = [map |-> With(k, id, f), passes |-> TRUE]
    BY <1>3 DEF CheckRateLimit
  <2>2. rateLimitMap' = With(k, id, f) /\ log' = Append(log, Pass(id, clock))
    <3>1. result.map = With(k, id, f) /\ result.passes = TRUE
      BY <2>1
    <3> HIDE DEF result
    <3> QED BY <1>1, <3>1 DEF Pass
  <2>3. f \in EntryType /\ f.count = 1 /\ f.start = clock
    BY <1>2 DEF EntryType, LimiterType
  <2>4. /\ DOMAIN k \subseteq DOMAIN rateLimitMap
        /\ \A i \in DOMAIN k : k[i] = rateLimitMap[i]
        /\ k \in [DOMAIN k -> EntryType]
        /\ IsFiniteSet(DOMAIN k) /\ Cardinality(DOMAIN k) < MapMax
    BY <1>2, EvictedLemma DEF LimiterType
  <2> HIDE DEF k, f, result
  <2>5. /\ DOMAIN rateLimitMap' = DOMAIN k \cup {id} /\ rateLimitMap'[id] = f
        /\ \A i \in DOMAIN k : i # id => rateLimitMap'[i] = k[i]
        /\ rateLimitMap' \in [DOMAIN k \cup {id} -> EntryType]
    BY <2>2, <2>3, <2>4 DEF With
  <2>6. IsFiniteSet(DOMAIN k \cup {id}) /\ Cardinality(DOMAIN k \cup {id}) <= MapMax
    <3>1. id \notin DOMAIN k /\ Cardinality(DOMAIN k) \in Nat
      BY <1>3, <2>4, FS_CardinalityType
    <3>2. /\ IsFiniteSet(DOMAIN k \cup {id})
          /\ Cardinality(DOMAIN k \cup {id}) = Cardinality(DOMAIN k) + 1
      BY <2>4, <3>1, FS_AddElement
    <3> QED BY <2>4, <3>1, <3>2, LimiterAssumptions
  <2>7. /\ Counts(id, f, log', clock)
        /\ Silent(id, log) => Exact(id, f, log', clock) /\ Bounded(id, log')
    BY <1>2, <2>2, <2>3, FirstPass DEF LimiterType
  <2>8. id \notin dropped => Silent(id, log)
    BY <1>3 DEF LimiterInv
  <2>9. dropped' = dropped \cup (DOMAIN rateLimitMap \ DOMAIN rateLimitMap')
    BY <1>1
  <2> QED BY <1>1, <2>2, <2>4, <2>5, <2>6, <2>7, <2>8, <2>9, PassStep
<1>4. ASSUME id \in DOMAIN rateLimitMap, NEW f \in EntryType,
             result = [map |-> With(rateLimitMap, id, f), passes |-> TRUE],
             Counts(id, f, Append(log, Pass(id, clock)), clock),
             id \notin dropped => /\ Exact(id, f, Append(log, Pass(id, clock)), clock)
                                 /\ Bounded(id, Append(log, Pass(id, clock)))
      PROVE  LimiterInv'
  <2>1. rateLimitMap' = With(rateLimitMap, id, f) /\ log' = Append(log, Pass(id, clock))
    <3>1. result.map = With(rateLimitMap, id, f) /\ result.passes = TRUE
      BY <1>4
    <3> HIDE DEF result
    <3> QED BY <1>1, <3>1 DEF Pass
  <2> HIDE DEF result
  <2>2. /\ DOMAIN rateLimitMap' = DOMAIN rateLimitMap /\ rateLimitMap'[id] = f
        /\ \A i \in DOMAIN rateLimitMap : i # id => rateLimitMap'[i] = rateLimitMap[i]
        /\ rateLimitMap' \in [DOMAIN rateLimitMap -> EntryType]
    BY <1>2, <1>4, <2>1 DEF With, LimiterType
  <2>3. dropped' = dropped \cup (DOMAIN rateLimitMap \ DOMAIN rateLimitMap')
    BY <1>1
  <2>4. IsFiniteSet(DOMAIN rateLimitMap) /\ Cardinality(DOMAIN rateLimitMap) <= MapMax
    BY <1>2 DEF LimiterType
  <2> QED BY <1>1, <1>4, <2>1, <2>2, <2>3, <2>4, PassStep
<1>5. ASSUME id \in DOMAIN rateLimitMap
      PROVE  /\ e \in EntryType /\ Counts(id, e, log, clock)
             /\ id \notin dropped => Exact(id, e, log, clock) /\ Bounded(id, log)
             /\ e.start \in Nat /\ e.count \in 1..Frames /\ clock \in Nat
             /\ log \in Seq(Frame) /\ \A n \in DOMAIN log : log[n].at <= clock
  BY <1>5 DEF LimiterInv, LimiterType, EntryType, Counts
<1>6. CASE id \in DOMAIN rateLimitMap /\ Stale(e, clock)
  <2> DEFINE f == [e EXCEPT !.count = 1, !.start = clock]
  <2>1. f \in EntryType /\ f.count = 1 /\ f.start = clock
    BY <1>5, <1>6 DEF EntryType
  <2>2. result = [map |-> With(rateLimitMap, id, f), passes |-> TRUE]
    BY <1>6 DEF CheckRateLimit
  <2>3. e.start + Window <= clock
    BY <1>5, <1>6, LimiterAssumptions DEF Stale
  <2> HIDE DEF f, e, result
  <2>4. Counts(id, f, Append(log, Pass(id, clock)), clock)
    BY <1>5, <1>6, <2>1, FirstPass
  <2>5. id \notin dropped => /\ Exact(id, f, Append(log, Pass(id, clock)), clock)
                            /\ Bounded(id, Append(log, Pass(id, clock)))
    BY <1>5, <1>6, <2>1, <2>3, NewWindow
  <2> QED BY <1>4, <1>6, <2>1, <2>2, <2>4, <2>5
<1>7. CASE id \in DOMAIN rateLimitMap /\ ~Stale(e, clock) /\ ~AtLimit(e)
  <2> DEFINE f == [e EXCEPT !.count = @ + 1]
  <2>1. f \in EntryType /\ f.count = e.count + 1 /\ f.start = e.start
    BY <1>5, <1>7 DEF EntryType
  <2>2. result = [map |-> With(rateLimitMap, id, f), passes |-> TRUE]
    BY <1>7 DEF CheckRateLimit
  <2>3. clock < e.start + Window /\ e.count < Frames
    BY <1>5, <1>7, LimiterAssumptions DEF Stale, AtLimit
  <2> HIDE DEF f, e, result
  <2>4. /\ Counts(id, f, Append(log, Pass(id, clock)), clock)
        /\ Exact(id, e, log, clock) /\ Bounded(id, log)
             => /\ Exact(id, f, Append(log, Pass(id, clock)), clock)
                /\ Bounded(id, Append(log, Pass(id, clock)))
    BY <1>5, <1>7, <2>1, <2>3, SameWindow
  <2> QED BY <1>4, <1>5, <1>7, <2>1, <2>2, <2>4
<1>8. CASE id \in DOMAIN rateLimitMap /\ ~Stale(e, clock) /\ AtLimit(e)
  <2> DEFINE f == [id |-> id, at |-> clock, passes |-> FALSE]
  <2>1. result = [map |-> rateLimitMap, passes |-> FALSE]
    BY <1>8 DEF CheckRateLimit
  <2>2. /\ rateLimitMap' = rateLimitMap /\ dropped' = dropped /\ log' = Append(log, f)
        /\ clock' = clock
    <3>1. result.map = rateLimitMap /\ result.passes = FALSE
      BY <2>1
    <3> HIDE DEF result
    <3> QED BY <1>1, <3>1
  <2>3. f \in Frame /\ ~f.passes /\ f.at = clock /\ f.id = id
    BY <1>5, <1>8 DEF Frame
  <2>4. clock < e.start + Window /\ e.count = Frames
    BY <1>5, <1>8, LimiterAssumptions DEF Stale, AtLimit
  <2> HIDE DEF f, result, e
  <2>5. Count(log, id, clock - Window + 1, clock) >= Frames
    <3>1. clock - Window + 1 \in Int /\ clock - Window + 1 <= e.start
      BY <1>5, <1>8, <2>4, LimiterAssumptions
    <3>2. Count(log, id, e.start, clock) <= Count(log, id, clock - Window + 1, clock)
      BY <1>5, <1>8, <3>1, CountMonotone
    <3>3. Count(log, id, e.start, clock) >= Frames
      BY <1>5, <1>8, <2>4 DEF Counts
    <3>4. Count(log, id, e.start, clock) \in Nat /\ Count(log, id, clock - Window + 1, clock) \in Nat
      BY <1>5, <1>8, <3>1, HitsFinite
    <3> QED BY <3>2, <3>3, <3>4, LimiterAssumptions
  <2>6. Refused(log')
    BY <1>2, <1>5, <1>8, <2>2, <2>3, <2>5, RefusedKeeps
  <2>7. log' \in Seq(Frame) /\ \A n \in DOMAIN log' : log'[n].at <= clock
    BY <1>5, <1>8, <2>2, <2>3, LogGrows
  <2>8. ASSUME NEW i
        PROVE  /\ \A a, b \in Int : Count(log', i, a, b) = Count(log, i, a, b)
               /\ Silent(i, log) => Silent(i, log')
               /\ Bounded(i, log) => Bounded(i, log')
    <3>1. \A a, b \in Int : Count(log', i, a, b) = Count(log, i, a, b)
      BY <1>5, <1>8, <2>2, <2>3, OthersKeep
    <3> QED BY <1>5, <1>8, <2>7, <3>1, SameBounds
  <2>9. \A i \in DOMAIN rateLimitMap : rateLimitMap[i] \in EntryType
    BY <1>2 DEF LimiterType
  <2>10. LimiterType'
    BY <1>2, <2>2, <2>7 DEF LimiterType
  <2>11. ASSUME NEW i \in DOMAIN rateLimitMap
         PROVE  /\ Counts(i, rateLimitMap[i], log', clock)
                /\ i \notin dropped => Exact(i, rateLimitMap[i], log', clock)
    <3>1. /\ Counts(i, rateLimitMap[i], log, clock)
          /\ i \notin dropped => Exact(i, rateLimitMap[i], log, clock)
      BY DEF LimiterInv
    <3> QED BY <1>5, <1>8, <2>7, <2>8, <2>9, <3>1, SameCounts
  <2>12. /\ \A i \in Ids \ (DOMAIN rateLimitMap \cup dropped) : Silent(i, log')
         /\ \A i \in Ids \ dropped : Bounded(i, log')
    BY <2>8 DEF LimiterInv
  <2> QED BY <2>2, <2>6, <2>10, <2>11, <2>12 DEF LimiterInv
<1> QED BY <1>3, <1>6, <1>7, <1>8

LEMMA NextLimiterInv == LimiterInv /\ [NextLimiter]_limiter => LimiterInv'
<1> SUFFICES ASSUME LimiterInv, [NextLimiter]_limiter PROVE LimiterInv'
  OBVIOUS
<1>1. CASE ClockTicks
  <2>1. /\ clock' = clock + 1 /\ UNCHANGED <<rateLimitMap, log, dropped>>
        /\ clock \in Nat /\ log \in Seq(Frame)
        /\ \A n \in DOMAIN log : log[n].at <= clock
    BY <1>1 DEF ClockTicks, LimiterInv, LimiterType
  <2>2. \A n \in DOMAIN log : log[n].at <= clock + 1
    <3>1. \A n \in DOMAIN log : log[n] \in Frame
      BY <2>1
    <3> QED BY <2>1, <3>1 DEF Frame
  <2>3. \A i, e : e \in EntryType =>
          /\ Counts(i, e, log, clock) => Counts(i, e, log, clock + 1)
          /\ Exact(i, e, log, clock) => Exact(i, e, log, clock + 1)
    BY <2>1, TickKeeps
  <2>4. \A i \in DOMAIN rateLimitMap : rateLimitMap[i] \in EntryType
    BY DEF LimiterInv, LimiterType
  <2> QED BY <2>1, <2>2, <2>3, <2>4 DEF LimiterInv, LimiterType
<1>2. ASSUME NEW id \in Ids, FrameArrives(id) PROVE LimiterInv'
  BY <1>2, FrameKeeps
<1>3. ASSUME NEW id \in Ids, ConnectionCloses(id) PROVE LimiterInv'
  <2>1. /\ rateLimitMap' = Without(rateLimitMap, {id}) /\ dropped' = dropped \cup {id}
        /\ clock' = clock /\ log' = log
    BY <1>3 DEF ConnectionCloses
  <2>2. /\ DOMAIN rateLimitMap' = DOMAIN rateLimitMap \ {id}
        /\ \A i \in DOMAIN rateLimitMap' : rateLimitMap'[i] = rateLimitMap[i]
        /\ rateLimitMap' \in [DOMAIN rateLimitMap' -> EntryType]
    BY <2>1 DEF Without, LimiterInv, LimiterType
  <2>3. IsFiniteSet(DOMAIN rateLimitMap') /\ Cardinality(DOMAIN rateLimitMap') <= MapMax
    <3>1. DOMAIN rateLimitMap' \in SUBSET DOMAIN rateLimitMap
      BY <2>2
    <3>2. /\ IsFiniteSet(DOMAIN rateLimitMap)
          /\ Cardinality(DOMAIN rateLimitMap) <= MapMax
      BY DEF LimiterInv, LimiterType
    <3>3. /\ IsFiniteSet(DOMAIN rateLimitMap')
          /\ Cardinality(DOMAIN rateLimitMap') <= Cardinality(DOMAIN rateLimitMap)
      BY <3>1, <3>2, FS_Subset
    <3>4. Cardinality(DOMAIN rateLimitMap') \in Nat /\ Cardinality(DOMAIN rateLimitMap) \in Nat
      BY <3>2, <3>3, FS_CardinalityType
    <3> QED BY <3>2, <3>3, <3>4, LimiterAssumptions
  <2> QED BY <2>1, <2>2, <2>3 DEF LimiterInv, LimiterType
<1>4. CASE UNCHANGED limiter
  BY <1>4 DEF limiter, LimiterInv, LimiterType
<1> QED BY <1>1, <1>2, <1>3, <1>4 DEF NextLimiter

(* The limiter keeps its bounds (LimiterBounds).                            *)
THEOREM LimiterSafety == SpecLimiter => []LimiterBounds
<1>1. InitLimiter => LimiterInv
  <2> SUFFICES ASSUME InitLimiter PROVE LimiterInv
    OBVIOUS
  <2>1. /\ rateLimitMap = [id \in {} |-> 0] /\ clock = Window /\ log = << >> /\ dropped = {}
        /\ DOMAIN rateLimitMap = {}
    BY DEF InitLimiter
  <2>2. LimiterType
    BY <2>1, FS_EmptySet, LimiterAssumptions DEF LimiterType
  <2>3. ASSUME NEW id, NEW a \in Int, NEW b \in Int PROVE Count(log, id, a, b) = 0
    <3>1. log \in Seq(Frame) /\ DOMAIN log = {}
      BY <2>1
    <3> QED BY <3>1, CountNone
  <2>4. \A id : Silent(id, log) /\ Bounded(id, log)
    BY <2>3, LimiterAssumptions DEF Silent, Bounded
  <2> QED BY <2>1, <2>2, <2>4 DEF LimiterInv, Refused
<1>2. LimiterInv => LimiterBounds
  <2> SUFFICES ASSUME LimiterInv PROVE LimiterBounds
    OBVIOUS
  <2>1. \A id, a, b : Passed(id, a, b) = Count(log, id, a, b)
    BY DEF Passed, Count, Hits
  <2>2. \A id \in Ids \ dropped, t \in 0..clock : Passed(id, t, t + Window - 1) < 2 * Frames
    BY <2>1 DEF LimiterInv, LimiterType, Bounded
  <2>3. \A n \in DOMAIN log :
          ~log[n].passes => Passed(log[n].id, log[n].at - Window + 1, log[n].at) >= Frames
    BY <2>1 DEF LimiterInv, Refused
  <2> QED BY <2>2, <2>3 DEF LimiterBounds, LimiterInv, LimiterType
<1> QED BY <1>1, <1>2, NextLimiterInv, PTL DEF SpecLimiter

-----------------------------------------------------------------------------
(* Delivery.                                                               *)

(* A call.  Live: who has been sent a copy; Queued: whose queued copy the    *)
(* answer counts as such; Held: every recipient is to have a queued copy.    *)

Held(c)   == c.kind \in {"role", "send"} \/ c.persistent
Live(c)   == { i \in Instances : c.sent[i] = 1 }
Queued(c) == { i \in Instances : c.copies[i] = 1 /\ (c.kind = "publish" \/ c.sent[i] = 0) }

(* Between two recipients: those still to do have nothing, the others what  *)
(* they are owed, and the counts are theirs.                                *)
Copied(c) ==
  /\ \A i \in Instances : c.copies[i] <= 1 /\ c.sent[i] <= 1
  /\ \A i \in c.todo : c.copies[i] = 0 /\ c.sent[i] = 0
  /\ c.kind # "send" => /\ c.from \notin c.todo
                        /\ c.from \in Instances => c.copies[c.from] = 0 /\ c.sent[c.from] = 0
Between(c) ==
  /\ c \in CallType /\ Copied(c)
  /\ \A i \in c.recipients \ c.todo :
       (Held(c) => c.copies[i] = 1) /\ (i \in c.steady => c.sent[i] = 1)
  /\ c.delivered = Cardinality(Live(c)) /\ c.queued = Cardinality(Queued(c))

(* While next is served: its copy is queued in the step push, and counted    *)
(* in the next one; the live copy of a topic's message is sent before.      *)
Serving(c) ==
  /\ c.next \in Instances \ c.todo /\ c.kind \in {"role", "send", "publish"}
  /\ Held(c)
  /\ c.kind # "send" => c.from # c.next
  /\ c.copies[c.next] = IF c.step = "push" THEN 0 ELSE 1
  /\ c.kind # "publish" => c.sent[c.next] = 0
  /\ \A i \in c.recipients \ c.todo :
       /\ i # c.next => c.copies[i] = 1
       /\ i \in c.steady /\ (c.kind = "publish" \/ i # c.next) => c.sent[i] = 1
  /\ c.delivered = Cardinality(Live(c)) /\ c.queued = Cardinality(Queued(c) \ {c.next})

CallOK(c) ==
  \/ c.step = "new"
  \/ c.step = "done" /\ c.answer = "silent"
  \/ c.step \in {"push", "stats"} /\ c.answer = "none" /\ Copied(c) /\ Serving(c)
  \/ /\ c.step \in {"role", "members", "counted", "done"}
     /\ Between(c) /\ c.todo = {} /\ c.next = NoOne
     /\ c.step # "done" => c.answer = "none"
     /\ c.step = "role" => c.kind = "set_role"
     /\ c.step \in {"members", "counted"} => c.kind = "publish"
     /\ c.step = "members" => c.recipients = {} /\ c.copies = Zero /\ c.sent = Zero

-----------------------------------------------------------------------------
LEMMA Constants ==
  /\ IsFiniteSet(Instances) /\ NoOne \notin Instances /\ NoOne # System /\ System \notin Instances
  /\ Zero \in [Instances -> Nat] /\ Zero \in [Instances -> 0..Sockets]
  /\ \A i \in Instances : Zero[i] = 0
  /\ \A S : S \subseteq Instances => IsFiniteSet(S) /\ Cardinality(S) \in Nat
<1>1. \A S : S \subseteq Instances => IsFiniteSet(S) /\ Cardinality(S) \in Nat
  <2> SUFFICES ASSUME NEW S, S \subseteq Instances PROVE IsFiniteSet(S) /\ Cardinality(S) \in Nat
    OBVIOUS
  <2>1. S \in SUBSET Instances
    OBVIOUS
  <2>2. IsFiniteSet(S)
    BY <2>1, FS_Subset, DeliveryAssumptions
  <2> QED BY <2>2, FS_CardinalityType
<1> QED BY <1>1, DeliveryAssumptions DEF Zero

(* The records the handlers make of a call, field by field.                 *)
LEMMA BlankType == Blank \in CallType
BY Constants DEF Blank, CallType

LEMMA MadeFields ==
  ASSUME NEW f \in Senders, NEW sort \in {"set_role", "broadcast", "role", "send", "publish"},
         NEW c, c = Made(f, sort)
  PROVE  /\ c \in CallType
         /\ c.from = f /\ c.kind = sort /\ c.step = "new"
         /\ Held(c) <=> sort \in {"role", "send"}
         /\ c.todo = {} /\ c.next = NoOne /\ c.refs = Zero /\ c.delivered = 0 /\ c.queued = 0
         /\ c.answer = "none" /\ c.recipients = {} /\ c.copies = Zero /\ c.sent = Zero
         /\ c.steady = Attached
BY Constants DEF Made, Blank, CallType, Attached, Held

LEMMA DoneFields ==
  ASSUME NEW c \in CallType, NEW answer \in {"ok", "error"}
  PROVE  LET d == Done(c, answer) IN
         /\ d \in CallType
         /\ d.step = "done" /\ d.answer = answer /\ d.next = NoOne /\ d.refs = Zero
         /\ d.from = c.from /\ d.kind = c.kind /\ d.persistent = c.persistent /\ d.todo = c.todo
         /\ d.delivered = c.delivered /\ d.queued = c.queued /\ d.recipients = c.recipients
         /\ d.copies = c.copies /\ d.sent = c.sent /\ d.steady = c.steady
BY Constants DEF Done, CallType

(* A call that has served all its recipients may answer.                   *)
LEMMA DoneOK ==
  ASSUME NEW c, Between(c), c.todo = {}, NEW answer \in {"ok", "error"}
  PROVE  Done(c, answer) \in CallType /\ CallOK(Done(c, answer))
<1> DEFINE d == Done(c, answer)
<1>1. /\ d \in CallType
      /\ d.step = "done" /\ d.answer = answer /\ d.next = NoOne
      /\ d.from = c.from /\ d.kind = c.kind /\ d.persistent = c.persistent /\ d.todo = c.todo
      /\ d.delivered = c.delivered /\ d.queued = c.queued /\ d.recipients = c.recipients
      /\ d.copies = c.copies /\ d.sent = c.sent /\ d.steady = c.steady
  BY DoneFields DEF Between
<1> HIDE DEF d
<1>2. Live(d) = Live(c) /\ Queued(d) = Queued(c) /\ (Held(d) <=> Held(c))
  BY <1>1 DEF Live, Queued, Held
<1>3. Between(d)
  BY <1>1, <1>2 DEF Between, Copied
<1>4. CallOK(d)
  BY <1>1, <1>3 DEF CallOK
<1> QED BY <1>1, <1>4 DEF d

(* The first call of pushMessage for a role or an address, or the next one. *)
LEMMA PushOK ==
  ASSUME NEW c, Between(c), c.kind \in {"role", "send"}, c.answer = "none", NEW n \in c.todo,
         NEW d, d = [c EXCEPT !.step = "push", !.next = n, !.todo = @ \ {n}]
  PROVE  d \in CallType /\ CallOK(d)
<1>1. c \in CallType /\ n \in Instances /\ c.todo \subseteq Instances
  BY DEF Between, CallType
<1>2. /\ d \in CallType
      /\ d.step = "push" /\ d.next = n /\ d.todo = c.todo \ {n} /\ d.answer = c.answer
      /\ d.from = c.from /\ d.kind = c.kind /\ d.persistent = c.persistent
      /\ d.delivered = c.delivered /\ d.queued = c.queued /\ d.recipients = c.recipients
      /\ d.copies = c.copies /\ d.sent = c.sent /\ d.steady = c.steady
  BY <1>1 DEF CallType
<1>3. Live(d) = Live(c) /\ Queued(d) = Queued(c) /\ (Held(d) <=> Held(c))
  BY <1>2 DEF Live, Queued, Held
<1>4. c.copies[n] = 0 /\ c.sent[n] = 0 /\ Queued(c) \ {n} = Queued(c)
  BY DEF Between, Copied, Queued
<1>5. Copied(d)
  BY <1>2 DEF Between, Copied
<1>6. Serving(d)
  <2>1. \A i \in d.recipients \ d.todo : i = n \/ i \in c.recipients \ c.todo
    BY <1>2
  <2>2. c.kind # "send" => c.from # n
    BY DEF Between, Copied
  <2>3. Held(d)
    BY <1>3 DEF Held
  <2> QED BY <1>1, <1>2, <1>3, <1>4, <2>1, <2>2, <2>3 DEF Between, Serving
<1> QED BY <1>2, <1>5, <1>6 DEF CallOK

(* RPUSH.                                                                  *)
LEMMA PushedOK ==
  ASSUME NEW c \in CallType, CallOK(c), c.step = "push",
         NEW d, d = [c EXCEPT !.copies = [c.copies EXCEPT ![c.next] = @ + 1], !.step = "stats"]
  PROVE  d \in CallType /\ CallOK(d)
<1>1. Copied(c) /\ Serving(c) /\ c.answer = "none"
  BY DEF CallOK
<1>2. c.next \in Instances /\ c.copies \in [Instances -> Nat]
  BY <1>1 DEF Serving, CallType
<1> DEFINE f == [c.copies EXCEPT ![c.next] = @ + 1]
<1>3. f \in [Instances -> Nat]
  BY <1>2
<1> HIDE DEF f
<1>4. d = [c EXCEPT !.copies = f, !.step = "stats"]
  BY DEF f
<1>5. /\ d \in CallType
      /\ d.step = "stats" /\ d.next = c.next /\ d.todo = c.todo /\ d.answer = c.answer
      /\ d.from = c.from /\ d.kind = c.kind /\ d.persistent = c.persistent
      /\ d.delivered = c.delivered /\ d.queued = c.queued /\ d.recipients = c.recipients
      /\ d.sent = c.sent /\ d.steady = c.steady
      /\ d.copies = f
  BY <1>3, <1>4 DEF CallType
<1>6. c.copies[c.next] = 0
  BY <1>1 DEF Serving
<1>7. d.copies \in [Instances -> Nat]
      /\ \A i \in Instances : d.copies[i] = IF i = c.next THEN 1 ELSE c.copies[i]
  BY <1>2, <1>3, <1>5, <1>6 DEF f
<1>8. Live(d) = Live(c) /\ (Held(d) <=> Held(c))
  BY <1>5 DEF Live, Held
<1>9. Queued(d) \ {d.next} = Queued(c) \ {c.next}
  BY <1>5, <1>7 DEF Queued
<1>10. Copied(d)
  <2>1. c.next \notin c.todo /\ (c.kind # "send" => c.from # c.next) /\ c.todo \subseteq Instances
    BY <1>1 DEF Serving, CallType
  <2> QED BY <1>1, <1>2, <1>5, <1>7, <2>1 DEF Copied
<1>11. Serving(d)
  <2>1. c.recipients \subseteq Instances
    BY DEF CallType
  <2>2. \A i \in d.recipients \ d.todo :
          /\ Held(d) /\ i # d.next => d.copies[i] = 1
          /\ i \in d.steady /\ (d.kind = "publish" \/ i # d.next) => d.sent[i] = 1
    BY <1>1, <1>5, <1>7, <1>8, <2>1 DEF Serving
  <2>3. d.copies[d.next] = 1
    BY <1>2, <1>5, <1>7
  <2> QED BY <1>1, <1>5, <1>8, <1>9, <2>2, <2>3 DEF Serving
<1> QED BY <1>1, <1>5, <1>10, <1>11 DEF CallOK

(* One more live copy, to one who has a queued copy.                       *)
LEMMA OneMoreLive ==
  ASSUME NEW c, NEW d, NEW n \in Instances, c.sent[n] = 0, c.kind # "publish",
         d.copies = c.copies, d.kind = c.kind, d.persistent = c.persistent,
         \A i \in Instances : d.sent[i] = IF i = n THEN 1 ELSE c.sent[i]
  PROVE  /\ Live(d) = Live(c) \cup {n} /\ n \notin Live(c) /\ Queued(d) = Queued(c) \ {n}
         /\ Held(d) <=> Held(c)
         /\ Cardinality(Live(d)) = Cardinality(Live(c)) + 1
<1>1. \A x : x \in Live(d) <=> x \in Live(c) \/ x = n
  BY DEF Live
<1>2. n \notin Live(c)
  BY DEF Live
<1>3. \A x : x \in Queued(d) <=> x \in Queued(c) /\ x # n
  BY DEF Queued
<1>4. Live(d) = Live(c) \cup {n}
  BY <1>1
<1>5. Queued(d) = Queued(c) \ {n}
  BY <1>3
<1>6. IsFiniteSet(Live(c))
  BY Constants DEF Live
<1>7. Cardinality(Live(c) \cup {n}) = Cardinality(Live(c)) + 1
  BY <1>2, <1>6, FS_AddElement
<1> QED BY <1>2, <1>4, <1>5, <1>7 DEF Held

(* What becomes of a call whose counts or copies are changed.               *)
LEMMA SetDelivered ==
  ASSUME NEW c \in CallType, NEW m \in Nat, NEW d, d = [c EXCEPT !.delivered = m]
  PROVE  /\ d \in CallType /\ d.delivered = m
         /\ d.kind = c.kind /\ d.from = c.from /\ d.step = c.step /\ d.persistent = c.persistent
         /\ d.todo = c.todo /\ d.next = c.next /\ d.refs = c.refs /\ d.queued = c.queued
         /\ d.answer = c.answer /\ d.recipients = c.recipients /\ d.copies = c.copies
         /\ d.sent = c.sent /\ d.steady = c.steady
BY DEF CallType

LEMMA SetQueued ==
  ASSUME NEW c \in CallType, NEW m \in Nat, NEW d, d = [c EXCEPT !.queued = m]
  PROVE  /\ d \in CallType /\ d.queued = m
         /\ d.kind = c.kind /\ d.from = c.from /\ d.step = c.step /\ d.persistent = c.persistent
         /\ d.todo = c.todo /\ d.next = c.next /\ d.refs = c.refs /\ d.delivered = c.delivered
         /\ d.answer = c.answer /\ d.recipients = c.recipients /\ d.copies = c.copies
         /\ d.sent = c.sent /\ d.steady = c.steady
BY DEF CallType

LEMMA SetSent ==
  ASSUME NEW c \in CallType, NEW f \in [Instances -> Nat], NEW d, d = [c EXCEPT !.sent = f]
  PROVE  /\ d \in CallType /\ d.sent = f
         /\ d.kind = c.kind /\ d.from = c.from /\ d.step = c.step /\ d.persistent = c.persistent
         /\ d.todo = c.todo /\ d.next = c.next /\ d.refs = c.refs /\ d.delivered = c.delivered
         /\ d.queued = c.queued /\ d.answer = c.answer /\ d.recipients = c.recipients
         /\ d.copies = c.copies /\ d.steady = c.steady
BY DEF CallType

(* Live delivery, for a role or an address: to next if it is attached, and  *)
(* who kept its socket is.                                                 *)
LEMMA SentOK ==
  ASSUME NEW c \in CallType, CallOK(c), c.step = "stats", c.kind # "publish",
         NEW n, n = c.next
  PROVE  LET d == Counted(Sent(c, n), TRUE) IN
         /\ Between(d) /\ d.kind = c.kind /\ d.todo = c.todo /\ d.answer = "none"
         /\ d.steady = c.steady /\ d.from = c.from
<1>1. Copied(c) /\ Serving(c) /\ c.answer = "none"
  BY DEF CallOK
<1>2. /\ c.sent \in [Instances -> Nat] /\ c.copies \in [Instances -> Nat]
      /\ c.delivered \in Nat /\ c.queued \in Nat
      /\ c.todo \subseteq Instances /\ c.recipients \subseteq Instances
  BY DEF CallType
<1>3. /\ n \in Instances /\ c.kind \in {"role", "send"}
      /\ n \notin c.todo /\ (c.kind # "send" => c.from # n)
      /\ c.copies[n] = 1 /\ c.sent[n] = 0
  BY <1>1 DEF Serving
<1>4. c.delivered = Cardinality(Live(c)) /\ c.queued = Cardinality(Queued(c) \ {n})
  BY <1>1 DEF Serving
<1>5. \A i \in c.recipients \ c.todo : i # n =>
        (Held(c) => c.copies[i] = 1) /\ (i \in c.steady => c.sent[i] = 1)
  BY <1>1 DEF Serving
<1> DEFINE f == [c.sent EXCEPT ![n] = @ + 1]
           e == [c EXCEPT !.sent = f]
           d == Counted(Sent(c, n), TRUE)
<1>6. f \in [Instances -> Nat] /\ \A i \in Instances : f[i] = IF i = n THEN 1 ELSE c.sent[i]
  BY <1>2, <1>3
<1>7. Sent(c, n) = e
  BY DEF Sent
<1>8. d = [e EXCEPT !.delivered = e.delivered + 1]
  BY <1>7 DEF Counted
<1>9. /\ e \in CallType /\ e.sent = f
       /\ e.todo = c.todo /\ e.answer = c.answer
       /\ e.from = c.from /\ e.kind = c.kind /\ e.persistent = c.persistent
       /\ e.delivered = c.delivered /\ e.queued = c.queued /\ e.recipients = c.recipients
       /\ e.copies = c.copies /\ e.steady = c.steady
  <2> HIDE DEF f
  <2> QED BY <1>6, SetSent
<1> HIDE DEF e, f, d
<1>10. /\ d \in CallType /\ d.delivered = e.delivered + 1
       /\ d.todo = e.todo /\ d.answer = e.answer
       /\ d.from = e.from /\ d.kind = e.kind /\ d.persistent = e.persistent
       /\ d.queued = e.queued /\ d.recipients = e.recipients
       /\ d.copies = e.copies /\ d.steady = e.steady /\ d.sent = e.sent
  <2>1. e.delivered + 1 \in Nat
    BY <1>2, <1>9
  <2> QED BY <1>8, <1>9, <2>1, SetDelivered
<1>11. /\ d.delivered = c.delivered + 1 /\ d.todo = c.todo /\ d.answer = c.answer
       /\ d.from = c.from /\ d.kind = c.kind /\ d.persistent = c.persistent
       /\ d.queued = c.queued /\ d.recipients = c.recipients
       /\ d.copies = c.copies /\ d.steady = c.steady
       /\ \A i \in Instances : d.sent[i] = IF i = n THEN 1 ELSE c.sent[i]
  BY <1>6, <1>9, <1>10
<1>12. /\ Queued(d) = Queued(c) \ {n} /\ (Held(d) <=> Held(c))
       /\ Cardinality(Live(d)) = Cardinality(Live(c)) + 1
  BY <1>3, <1>11, OneMoreLive
<1>13. Copied(d)
  <2>1. \A i \in Instances : c.copies[i] <= 1 /\ c.sent[i] <= 1
    BY <1>1 DEF Copied
  <2>2. \A i \in c.todo : i # n /\ c.copies[i] = 0 /\ c.sent[i] = 0
    BY <1>1, <1>3 DEF Copied
  <2>3. c.kind # "send" =>
          /\ c.from \notin c.todo
          /\ c.from \in Instances => c.copies[c.from] = 0 /\ c.sent[c.from] = 0
    BY <1>1 DEF Copied
  <2>4. \A i \in Instances : d.copies[i] <= 1 /\ d.sent[i] <= 1
    BY <1>11, <2>1
  <2>5. \A i \in d.todo : d.copies[i] = 0 /\ d.sent[i] = 0
    BY <1>2, <1>11, <2>2
  <2>6. d.kind # "send" =>
          /\ d.from \notin d.todo
          /\ d.from \in Instances => d.copies[d.from] = 0 /\ d.sent[d.from] = 0
    BY <1>3, <1>11, <2>3
  <2> QED BY <2>4, <2>5, <2>6 DEF Copied
<1>14. \A i \in d.recipients \ d.todo :
         (Held(d) => d.copies[i] = 1) /\ (i \in d.steady => d.sent[i] = 1)
  <2> SUFFICES ASSUME NEW i \in d.recipients \ d.todo
               PROVE  (Held(d) => d.copies[i] = 1) /\ (i \in d.steady => d.sent[i] = 1)
    OBVIOUS
  <2>1. i \in Instances /\ i \in c.recipients \ c.todo
    BY <1>2, <1>11
  <2> QED BY <1>3, <1>5, <1>11, <1>12, <2>1
<1>15. Between(d)
  BY <1>2, <1>4, <1>10, <1>11, <1>12, <1>13, <1>14 DEF Between
<1> QED BY <1>1, <1>11, <1>15 DEF d

(* Without a live copy; it had better not have kept its socket.             *)
LEMMA NotSentOK ==
  ASSUME NEW c \in CallType, CallOK(c), c.step = "stats", c.kind # "publish",
         NEW n, n = c.next, n \notin c.steady
  PROVE  LET d == Counted(c, FALSE) IN
         /\ Between(d) /\ d.kind = c.kind /\ d.todo = c.todo /\ d.answer = "none"
         /\ d.steady = c.steady /\ d.from = c.from
<1>1. Copied(c) /\ Serving(c) /\ c.answer = "none"
  BY DEF CallOK
<1>2. c.queued \in Nat
  BY DEF CallType
<1>3. n \in Instances /\ c.kind \in {"role", "send"} /\ c.copies[n] = 1 /\ c.sent[n] = 0
  BY <1>1 DEF Serving
<1>4. c.delivered = Cardinality(Live(c)) /\ c.queued = Cardinality(Queued(c) \ {n})
  BY <1>1 DEF Serving
<1>5. \A i \in c.recipients \ c.todo :
        (Held(c) => c.copies[i] = 1) /\ (i \in c.steady => c.sent[i] = 1)
  BY <1>1, <1>3 DEF Serving
<1> DEFINE d == Counted(c, FALSE)
<1>6. d = [c EXCEPT !.queued = c.queued + 1]
  BY DEF Counted
<1> HIDE DEF d
<1>7. /\ d \in CallType /\ d.queued = c.queued + 1
      /\ d.todo = c.todo /\ d.answer = c.answer
      /\ d.from = c.from /\ d.kind = c.kind /\ d.persistent = c.persistent
      /\ d.delivered = c.delivered /\ d.recipients = c.recipients
      /\ d.copies = c.copies /\ d.steady = c.steady /\ d.sent = c.sent
  <2>1. c.queued + 1 \in Nat
    BY <1>2
  <2> QED BY <1>6, <2>1, SetQueued
<1>8. Live(d) = Live(c) /\ Queued(d) = Queued(c) /\ (Held(d) <=> Held(c))
  BY <1>7 DEF Live, Queued, Held
<1>9. Cardinality(Queued(c)) = c.queued + 1
  <2>1. n \in Queued(c)
    BY <1>3 DEF Queued
  <2>2. IsFiniteSet(Queued(c)) /\ Cardinality(Queued(c)) \in Nat
    BY Constants DEF Queued
  <2>3. Cardinality(Queued(c) \ {n}) = Cardinality(Queued(c)) - 1
    BY <2>1, <2>2, FS_RemoveElement
  <2> QED BY <1>4, <2>2, <2>3
<1>10. Copied(d)
  BY <1>1, <1>7 DEF Copied
<1>11. Between(d)
  BY <1>4, <1>5, <1>7, <1>8, <1>9, <1>10 DEF Between
<1> QED BY <1>1, <1>7, <1>11 DEF d

(* A topic's recipients that are passed on the way to the next await.      *)
Online(k, P) == { j \in P : IsOnline(k, j) }

LEMMA ServedFields ==
  ASSUME NEW k, NEW c, Between(c), c.kind = "publish", NEW P, P \subseteq c.todo,
         NEW L, L = Online(k, P), NEW d, d = Served(k, c, P)
  PROVE  /\ d \in CallType /\ d.todo = c.todo \ P /\ d.delivered = c.delivered + Cardinality(L)
         /\ \A i \in Instances : d.sent[i] = IF i \in L THEN 1 ELSE c.sent[i]
         /\ d.kind = c.kind /\ d.from = c.from /\ d.step = c.step /\ d.persistent = c.persistent
         /\ d.next = c.next /\ d.refs = c.refs /\ d.queued = c.queued /\ d.answer = c.answer
         /\ d.recipients = c.recipients /\ d.copies = c.copies /\ d.steady = c.steady
<1> DEFINE f == [j \in Instances |-> IF j \in L THEN c.sent[j] + 1 ELSE c.sent[j]]
           T == c.todo \ P
           m == c.delivered + Cardinality(L)
<1>1. L \subseteq P
  BY DEF Online
<1>2. /\ c \in CallType /\ c.sent \in [Instances -> Nat] /\ c.delivered \in Nat
      /\ c.todo \subseteq Instances
  BY DEF Between, CallType
<1>3. \A i \in c.todo : c.sent[i] = 0
  BY DEF Between, Copied
<1>4. f \in [Instances -> Nat] /\ T \in SUBSET Instances
  BY <1>2
<1>5. m \in Nat
  <2>1. Cardinality(L) \in Nat
    BY <1>1, <1>2, Constants
  <2> QED BY <1>2, <2>1
<1>6. \A i \in Instances : f[i] = IF i \in L THEN 1 ELSE c.sent[i]
  BY <1>1, <1>2, <1>3
<1>7. d = [c EXCEPT !.todo = T, !.delivered = m, !.sent = f]
  BY DEF Served, Online
<1> HIDE DEF f, T, m
<1>8. /\ d \in CallType /\ d.todo = T /\ d.delivered = m /\ d.sent = f
      /\ d.kind = c.kind /\ d.from = c.from /\ d.step = c.step /\ d.persistent = c.persistent
      /\ d.next = c.next /\ d.refs = c.refs /\ d.queued = c.queued /\ d.answer = c.answer
      /\ d.recipients = c.recipients /\ d.copies = c.copies /\ d.steady = c.steady
  BY <1>2, <1>4, <1>5, <1>7 DEF CallType
<1> QED BY <1>6, <1>8 DEF T, m

(* Their live copies are counted; nothing is queued for them.              *)
LEMMA ServedCounts ==
  ASSUME NEW k, NEW c, Between(c), c.kind = "publish", NEW P, P \subseteq c.todo,
         NEW d, d = Served(k, c, P)
  PROVE  /\ Copied(d) /\ Queued(d) = Queued(c) /\ d.delivered = Cardinality(Live(d))
         /\ Held(d) <=> Held(c)
<1>1. PICK L : L = Online(k, P)
  OBVIOUS
<1>2. /\ d.todo = c.todo \ P /\ d.delivered = c.delivered + Cardinality(L)
      /\ \A i \in Instances : d.sent[i] = IF i \in L THEN 1 ELSE c.sent[i]
      /\ d.kind = c.kind /\ d.from = c.from /\ d.persistent = c.persistent /\ d.copies = c.copies
  BY <1>1, ServedFields
<1>3. L \subseteq P /\ L \subseteq c.todo
  BY <1>1 DEF Online
<1>4. /\ c \in CallType /\ c.sent \in [Instances -> Nat] /\ c.todo \subseteq Instances
      /\ c.delivered = Cardinality(Live(c)) /\ Copied(c)
  BY DEF Between, CallType
<1>5. \A i \in L : c.sent[i] = 0 /\ i \in Instances
  BY <1>3, <1>4 DEF Copied
<1>6. Queued(d) = Queued(c) /\ (Held(d) <=> Held(c))
  BY <1>2 DEF Queued, Held
<1>7. d.delivered = Cardinality(Live(d))
  <2>1. \A x : x \in Live(d) <=> x \in Live(c) \/ x \in L
    BY <1>2, <1>5 DEF Live
  <2>2. Live(d) = Live(c) \cup L
    BY <2>1
  <2>3. Live(c) \cap L = {}
    BY <1>5 DEF Live
  <2>4. /\ IsFiniteSet(Live(c)) /\ IsFiniteSet(L)
        /\ Cardinality(Live(c)) \in Nat /\ Cardinality(L) \in Nat
    BY <1>5, Constants DEF Live
  <2>5. Cardinality(Live(c) \cup L)
          = Cardinality(Live(c)) + Cardinality(L) - Cardinality(Live(c) \cap L)
    BY <2>4, FS_Union
  <2>6. Cardinality(Live(c) \cap L) = 0
    BY <2>3, FS_EmptySet
  <2> QED BY <1>2, <1>4, <2>2, <2>4, <2>5, <2>6
<1>8. Copied(d)
  <2>1. \A i \in Instances : c.copies[i] <= 1 /\ c.sent[i] <= 1
    BY <1>4 DEF Copied
  <2>2. \A i \in c.todo : c.copies[i] = 0 /\ c.sent[i] = 0
    BY <1>4 DEF Copied
  <2>3. /\ c.from \notin c.todo
        /\ c.from \in Instances => c.copies[c.from] = 0 /\ c.sent[c.from] = 0
    BY <1>4 DEF Copied
  <2>4. \A i \in Instances : d.copies[i] <= 1 /\ d.sent[i] <= 1
    BY <1>2, <2>1
  <2>5. \A i \in d.todo : d.copies[i] = 0 /\ d.sent[i] = 0
    BY <1>2, <1>3, <1>4, <2>2
  <2>6. /\ d.from \notin d.todo
        /\ d.from \in Instances => d.copies[d.from] = 0 /\ d.sent[d.from] = 0
    BY <1>2, <1>3, <2>3
  <2> QED BY <2>4, <2>5, <2>6 DEF Copied
<1> QED BY <1>6, <1>7, <1>8

(* Those that need no queue: of a message that is not persistent, all.      *)
LEMMA ServedOK ==
  ASSUME NEW k, NEW c, Between(c), c.kind = "publish", NEW P, P \subseteq c.todo,
         P \cap c.steady \subseteq Online(k, P),
         Held(c) => P = {}, NEW d, d = Served(k, c, P)
  PROVE  Between(d)
<1>1. PICK L : L = Online(k, P)
  OBVIOUS
<1>2. /\ d \in CallType /\ d.todo = c.todo \ P /\ d.delivered = c.delivered + Cardinality(L)
      /\ \A i \in Instances : d.sent[i] = IF i \in L THEN 1 ELSE c.sent[i]
      /\ d.kind = c.kind /\ d.from = c.from /\ d.step = c.step /\ d.persistent = c.persistent
      /\ d.next = c.next /\ d.refs = c.refs /\ d.queued = c.queued /\ d.answer = c.answer
      /\ d.recipients = c.recipients /\ d.copies = c.copies /\ d.steady = c.steady
  BY <1>1, ServedFields
<1>3. /\ Copied(d) /\ Queued(d) = Queued(c) /\ d.delivered = Cardinality(Live(d))
      /\ (Held(d) <=> Held(c))
  BY ServedCounts
<1>4. \A i \in P : i \in c.steady => i \in L
  BY <1>1 DEF Online
<1>5. \A i \in d.recipients \ d.todo :
        (Held(d) => d.copies[i] = 1) /\ (i \in d.steady => d.sent[i] = 1)
  <2> SUFFICES ASSUME NEW i \in d.recipients \ d.todo
               PROVE  (Held(d) => d.copies[i] = 1) /\ (i \in d.steady => d.sent[i] = 1)
    OBVIOUS
  <2>1. i \in c.recipients /\ i \in Instances /\ (i \in c.todo => i \in P)
    BY <1>2 DEF CallType
  <2>2. CASE i \in P
    BY <1>2, <1>3, <1>4, <2>1, <2>2
  <2>3. CASE i \notin c.todo
    <3>1. (Held(c) => c.copies[i] = 1) /\ (i \in c.steady => c.sent[i] = 1)
      BY <2>1, <2>3 DEF Between
    <3> QED BY <1>2, <1>3, <2>1, <3>1
  <2> QED BY <2>1, <2>2, <2>3
<1>6. c.queued = Cardinality(Queued(c))
  BY DEF Between
<1> QED BY <1>2, <1>3, <1>5, <1>6 DEF Between

LEMMA ServingTopic ==
  ASSUME NEW d, Held(d), d.kind = "publish", d.step = "push",
         d.next \in Instances \ d.todo, d.from # d.next, d.copies[d.next] = 0,
         d.delivered = Cardinality(Live(d)), d.queued = Cardinality(Queued(d) \ {d.next}),
         \A i \in d.recipients \ d.todo :
           (i # d.next => d.copies[i] = 1) /\ (i \in d.steady => d.sent[i] = 1)
  PROVE  Serving(d)
BY DEF Serving

Pushing(c, n) == [c EXCEPT !.step = "push", !.next = n]

(* The next one to be queued.                                              *)
LEMMA ServedPush ==
  ASSUME NEW k, NEW c, Between(c), c.kind = "publish", Held(c), c.answer = "none",
         NEW n \in c.todo, NEW P, P = {n}, P \cap c.steady \subseteq Online(k, P),
         NEW e, e = Served(k, c, P)
  PROVE  LET d == Pushing(e, n) IN
         /\ d \in CallType /\ CallOK(d)
         /\ d.kind = "publish" /\ d.refs = c.refs /\ d.steady = c.steady /\ d.step = "push"
<1>1. PICK L : L = Online(k, P)
  OBVIOUS
<1>2. P \subseteq c.todo
  OBVIOUS
<1>3. /\ e \in CallType /\ e.todo = c.todo \ P /\ e.delivered = c.delivered + Cardinality(L)
      /\ \A i \in Instances : e.sent[i] = IF i \in L THEN 1 ELSE c.sent[i]
      /\ e.kind = c.kind /\ e.from = c.from /\ e.step = c.step /\ e.persistent = c.persistent
      /\ e.next = c.next /\ e.refs = c.refs /\ e.queued = c.queued /\ e.answer = c.answer
      /\ e.recipients = c.recipients /\ e.copies = c.copies /\ e.steady = c.steady
  BY <1>1, <1>2, ServedFields
<1>4. Copied(e) /\ Queued(e) = Queued(c) /\ e.delivered = Cardinality(Live(e))
  BY <1>2, ServedCounts
<1>5. /\ c \in CallType /\ n \in Instances /\ c.copies[n] = 0 /\ c.from # n
      /\ c.queued = Cardinality(Queued(c)) /\ c.recipients \subseteq Instances
  BY DEF Between, CallType, Copied
<1>6. L \subseteq {n} /\ (n \in c.steady => n \in L)
  BY <1>1 DEF Online
<1>7. PICK d : d = Pushing(e, n)
  OBVIOUS
<1>8. /\ d \in CallType /\ d.step = "push" /\ d.next = n /\ d.todo = e.todo
      /\ d.answer = e.answer /\ d.from = e.from /\ d.kind = e.kind /\ d.persistent = e.persistent
      /\ d.delivered = e.delivered /\ d.queued = e.queued /\ d.recipients = e.recipients
      /\ d.copies = e.copies /\ d.sent = e.sent /\ d.steady = e.steady /\ d.refs = e.refs
  BY <1>3, <1>5, <1>7 DEF CallType, Pushing
<1>9. Live(d) = Live(e) /\ Queued(d) = Queued(e)
  BY <1>8 DEF Live, Queued
<1>10. Copied(d)
  BY <1>4, <1>8 DEF Copied
<1>11. Queued(c) \ {n} = Queued(c)
  BY <1>5 DEF Queued
<1>12. \A i \in d.recipients \ d.todo :
         /\ i # n => d.copies[i] = 1
         /\ i \in d.steady => d.sent[i] = 1
  <2> SUFFICES ASSUME NEW i \in d.recipients \ d.todo
               PROVE  (i # n => d.copies[i] = 1) /\ (i \in d.steady => d.sent[i] = 1)
    OBVIOUS
  <2>1. i \in c.recipients /\ i \in Instances /\ (i \in c.todo => i = n)
    BY <1>3, <1>5, <1>8
  <2>2. CASE i = n
    BY <1>3, <1>6, <1>8, <2>1, <2>2
  <2>3. CASE i # n
    <3>1. c.copies[i] = 1 /\ (i \in c.steady => c.sent[i] = 1)
      BY <2>1, <2>3 DEF Between
    <3> QED BY <1>3, <1>6, <1>8, <2>1, <2>3, <3>1
  <2> QED BY <2>2, <2>3
<1>13. d.delivered = Cardinality(Live(d)) /\ d.queued = Cardinality(Queued(d) \ {n})
  BY <1>3, <1>4, <1>5, <1>8, <1>9, <1>11
<1>14. n \notin d.todo /\ d.copies[n] = 0
  BY <1>3, <1>5, <1>8
<1>15. Held(d)
  BY <1>3, <1>8 DEF Held
<1>16. Serving(d)
  <2>1. /\ d.next \in Instances \ d.todo /\ d.kind = "publish" /\ d.from # d.next
        /\ d.copies[d.next] = 0 /\ d.step = "push"
    BY <1>3, <1>5, <1>8, <1>14
  <2>2. d.delivered = Cardinality(Live(d)) /\ d.queued = Cardinality(Queued(d) \ {d.next})
    BY <1>8, <1>13
  <2>3. \A i \in d.recipients \ d.todo :
          (i # d.next => d.copies[i] = 1) /\ (i \in d.steady => d.sent[i] = 1)
    BY <1>8, <1>12
  <2> QED BY <1>15, <2>1, <2>2, <2>3, ServingTopic
<1> QED BY <1>3, <1>7, <1>8, <1>10, <1>16 DEF CallOK

Owing(c, to) == [c EXCEPT !.todo = to, !.recipients = to]

(* The members are read: the message is owed to them.                      *)
LEMMA MembersOK ==
  ASSUME NEW c \in CallType, CallOK(c), c.step = "members",
         NEW to \in SUBSET Instances, c.from \notin to,
         NEW d, d = Owing(c, to)
  PROVE  /\ Between(d) /\ d.kind = "publish" /\ d.answer = "none" /\ d.next = NoOne
         /\ d.refs = c.refs /\ d.steady = c.steady /\ d.todo = to
<1>1. /\ Between(c) /\ c.kind = "publish" /\ c.answer = "none" /\ c.next = NoOne
      /\ c.copies = Zero /\ c.sent = Zero
  BY DEF CallOK
<1>2. /\ d \in CallType /\ d.todo = to /\ d.recipients = to
      /\ d.kind = c.kind /\ d.from = c.from /\ d.persistent = c.persistent
      /\ d.next = c.next /\ d.refs = c.refs /\ d.delivered = c.delivered /\ d.queued = c.queued
      /\ d.answer = c.answer /\ d.copies = c.copies /\ d.sent = c.sent /\ d.steady = c.steady
  BY DEF CallType, Owing
<1>3. Live(d) = Live(c) /\ Queued(d) = Queued(c)
  BY <1>2 DEF Live, Queued
<1>4. Copied(d)
  <2>1. \A i \in Instances : d.copies[i] = 0 /\ d.sent[i] = 0
    BY <1>1, <1>2, Constants
  <2> QED BY <1>2, <2>1 DEF Copied
<1>5. Between(d)
  BY <1>1, <1>2, <1>3, <1>4 DEF Between
<1> QED BY <1>1, <1>2, <1>5

(* A topic's copy is counted when pushMessage has ended.                   *)
LEMMA CountOK ==
  ASSUME NEW c \in CallType, CallOK(c), c.step = "stats", c.kind = "publish",
         NEW d, d = [c EXCEPT !.queued = @ + 1]
  PROVE  /\ Between(d) /\ d.kind = "publish" /\ d.answer = "none" /\ Held(d)
         /\ d.refs = c.refs /\ d.steady = c.steady /\ d.todo = c.todo
<1>1. Copied(c) /\ Serving(c) /\ c.answer = "none"
  BY DEF CallOK
<1>2. PICK n : n = c.next
  OBVIOUS
<1>3. n \in Instances /\ c.copies[n] = 1 /\ Held(c)
  BY <1>1, <1>2 DEF Serving
<1>4. c.delivered = Cardinality(Live(c)) /\ c.queued = Cardinality(Queued(c) \ {n})
  BY <1>1, <1>2 DEF Serving
<1>5. \A i \in c.recipients \ c.todo :
        (Held(c) => c.copies[i] = 1) /\ (i \in c.steady => c.sent[i] = 1)
  BY <1>1, <1>2, <1>3 DEF Serving
<1>6. c.queued + 1 \in Nat
  BY DEF CallType
<1>7. /\ d \in CallType /\ d.queued = c.queued + 1
      /\ d.todo = c.todo /\ d.answer = c.answer /\ d.refs = c.refs
      /\ d.from = c.from /\ d.kind = c.kind /\ d.persistent = c.persistent
      /\ d.delivered = c.delivered /\ d.recipients = c.recipients
      /\ d.copies = c.copies /\ d.steady = c.steady /\ d.sent = c.sent
  BY <1>6, SetQueued
<1>8. Live(d) = Live(c) /\ Queued(d) = Queued(c) /\ (Held(d) <=> Held(c))
  BY <1>7 DEF Live, Queued, Held
<1>9. Cardinality(Queued(c)) = c.queued + 1
  <2>1. n \in Queued(c)
    BY <1>3 DEF Queued
  <2>2. IsFiniteSet(Queued(c)) /\ Cardinality(Queued(c)) \in Nat
    BY Constants DEF Queued
  <2>3. Cardinality(Queued(c) \ {n}) = Cardinality(Queued(c)) - 1
    BY <2>1, <2>2, FS_RemoveElement
  <2> QED BY <1>4, <2>2, <2>3
<1>10. Copied(d)
  BY <1>1, <1>7 DEF Copied
<1>11. Between(d)
  BY <1>4, <1>5, <1>7, <1>8, <1>9, <1>10 DEF Between
<1> QED BY <1>1, <1>3, <1>7, <1>8, <1>11

-----------------------------------------------------------------------------
Handlers == ({"open"} \X Instances \X (0..Sockets)) \cup ({"close"} \X Instances \X {0})
            \cup ({"call"} \X Calls \X {0})

(* h opens or closes a connection of i.                                    *)
ConnectionOf(i, h) == h = <<"close", i, 0>> \/ \E n \in 0..Sockets : h = <<"open", i, n>>

SocketInv ==
  \A i \in Instances :
    /\ ready[i] # 0 => status[i] = "online"
    /\ wsRef[i] # 0 => pluginWs[i] = wsRef[i]
    /\ i \in declared => role[i] = TRUE

(* Nothing that would change the entry of an attached instance waits, nor   *)
(* anything of the same instance behind the open that would attach it.      *)
OpenInv ==
  \A i \in Instances, n \in 0..Sockets, p \in DOMAIN waiting :
    waiting[p] = <<"open", i, n>> => n <= opened[i]
QuietInv ==
  \A i \in Instances : wsRef[i] # 0 /\ wsRef[i] = ready[i] =>
    \A p \in DOMAIN waiting : ~ConnectionOf(i, waiting[p])
LastInv ==
  \A i \in Instances : ready[i] # 0 =>
    \A p, q \in DOMAIN waiting :
      p < q /\ waiting[p] = <<"open", i, ready[i]>> => ~ConnectionOf(i, waiting[q])
OrderInv == waiting \in Seq(Handlers) /\ OpenInv /\ QuietInv /\ LastInv

(* What Append and Tail do to the line of handlers.                         *)
LEMMA AppendLine ==
  ASSUME NEW w \in Seq(Handlers), NEW h \in Handlers, NEW v, v = Append(w, h)
  PROVE  /\ v \in Seq(Handlers) /\ Len(w) \in Nat /\ DOMAIN w = 1..Len(w)
         /\ DOMAIN v = 1..(Len(w) + 1) /\ v[Len(w) + 1] = h
         /\ \A p \in DOMAIN w : v[p] = w[p]
OBVIOUS

LEMMA TailLine ==
  ASSUME NEW w \in Seq(Handlers), w # << >>, NEW v, v = Tail(w)
  PROVE  /\ v \in Seq(Handlers) /\ Len(w) \in Nat /\ Len(w) > 0 /\ DOMAIN w = 1..Len(w)
         /\ DOMAIN v = 1..(Len(w) - 1) /\ w[1] = Head(w)
         /\ \A p \in DOMAIN v : v[p] = w[p + 1]
OBVIOUS

(* The handlers there are.                                                  *)
LEMMA HandlerKinds ==
  /\ \A i \in Instances, n \in 0..Sockets : <<"open", i, n>> \in Handlers
  /\ \A i \in Instances : <<"close", i, 0>> \in Handlers
  /\ \A k \in Calls : <<"call", k, 0>> \in Handlers
BY DEF Handlers

(* A handler that is not one of i leaves i's order as it is, wherever it     *)
(* goes; so does one that leaves the line.                                 *)
LEMMA AppendOrder ==
  ASSUME OrderInv, NEW h \in Handlers, waiting' = Append(waiting, h),
         UNCHANGED <<wsRef, ready, opened>>, \A i \in Instances : ~ConnectionOf(i, h),
         \A i \in Instances, n \in 0..Sockets : h # <<"open", i, n>>
  PROVE  OrderInv'
<1>1. /\ waiting' \in Seq(Handlers) /\ Len(waiting) \in Nat /\ DOMAIN waiting = 1..Len(waiting)
      /\ DOMAIN waiting' = 1..(Len(waiting) + 1) /\ waiting'[Len(waiting) + 1] = h
      /\ \A p \in DOMAIN waiting : waiting'[p] = waiting[p]
  BY AppendLine DEF OrderInv
<1>2. \A p \in DOMAIN waiting' : p \in DOMAIN waiting \/ p = Len(waiting) + 1
  BY <1>1
<1>3. OpenInv'
  BY <1>1, <1>2 DEF OrderInv, OpenInv
<1>4. QuietInv'
  BY <1>1, <1>2 DEF OrderInv, QuietInv
<1>5. LastInv'
  <2> SUFFICES ASSUME NEW i \in Instances, ready[i] # 0,
                      NEW p \in DOMAIN waiting', NEW q \in DOMAIN waiting', p < q,
                      waiting'[p] = <<"open", i, ready[i]>>
               PROVE  ~ConnectionOf(i, waiting'[q])
    BY DEF LastInv
  <2>1. CASE q = Len(waiting) + 1
    BY <1>1, <2>1
  <2>2. CASE q \in DOMAIN waiting
    <3>1. p \in DOMAIN waiting
      BY <1>1, <2>2
    <3> QED BY <1>1, <2>2, <3>1 DEF OrderInv, LastInv
  <2> QED BY <1>2, <2>1, <2>2
<1> QED BY <1>1, <1>3, <1>4, <1>5 DEF OrderInv

LEMMA TailOrder ==
  ASSUME OrderInv, waiting # << >>, waiting' = Tail(waiting), UNCHANGED <<wsRef, ready, opened>>
  PROVE  OrderInv'
<1>1. /\ waiting' \in Seq(Handlers) /\ Len(waiting) \in Nat /\ DOMAIN waiting = 1..Len(waiting)
      /\ DOMAIN waiting' = 1..(Len(waiting) - 1)
      /\ \A p \in DOMAIN waiting' : waiting'[p] = waiting[p + 1]
  BY TailLine DEF OrderInv
<1>2. \A p \in DOMAIN waiting' : p + 1 \in DOMAIN waiting
  BY <1>1
<1>3. OpenInv'
  BY <1>1, <1>2 DEF OrderInv, OpenInv
<1>4. QuietInv'
  BY <1>1, <1>2 DEF OrderInv, QuietInv
<1>5. LastInv'
  <2> SUFFICES ASSUME NEW i \in Instances, ready[i] # 0,
                      NEW p \in DOMAIN waiting', NEW q \in DOMAIN waiting', p < q,
                      waiting'[p] = <<"open", i, ready[i]>>
               PROVE  ~ConnectionOf(i, waiting'[q])
    BY DEF LastInv
  <2>1. p + 1 \in DOMAIN waiting /\ q + 1 \in DOMAIN waiting /\ p + 1 < q + 1
    BY <1>1
  <2>2. waiting[p + 1] = <<"open", i, ready[i]>> /\ waiting'[q] = waiting[q + 1]
    BY <1>1
  <2> QED BY <2>1, <2>2 DEF OrderInv, LastInv
<1> QED BY <1>1, <1>3, <1>4, <1>5 DEF OrderInv

(* The head of the line goes to its end: it is a call's.                   *)
LEMMA AgainOrder ==
  ASSUME OrderInv, NEW h \in Handlers, waiting # << >>, waiting' = Append(Tail(waiting), h),
         UNCHANGED <<wsRef, ready, opened>>, \A i \in Instances : ~ConnectionOf(i, h),
         \A i \in Instances, n \in 0..Sockets : h # <<"open", i, n>>
  PROVE  OrderInv'
<1>1. PICK w : w = Tail(waiting)
  OBVIOUS
<1>2. /\ w \in Seq(Handlers) /\ Len(waiting) \in Nat /\ DOMAIN waiting = 1..Len(waiting)
      /\ Len(waiting) > 0 /\ DOMAIN w = 1..(Len(waiting) - 1)
      /\ \A p \in DOMAIN w : w[p] = waiting[p + 1]
  BY <1>1, TailLine DEF OrderInv
<1>3. /\ waiting' \in Seq(Handlers) /\ DOMAIN waiting' = 1..Len(waiting)
      /\ waiting'[Len(waiting)] = h
      /\ \A p \in DOMAIN w : waiting'[p] = w[p]
  <2>1. waiting' = Append(w, h)
    BY <1>1
  <2>2. Len(w) = Len(waiting) - 1
    BY <1>1, TailLine DEF OrderInv
  <2>3. /\ waiting' \in Seq(Handlers)
        /\ DOMAIN waiting' = 1..(Len(w) + 1) /\ waiting'[Len(w) + 1] = h
        /\ \A p \in DOMAIN w : waiting'[p] = w[p]
    <3>1. PICK v : v = waiting'
      OBVIOUS
    <3>2. v = Append(w, h)
      BY <2>1, <3>1
    <3>3. /\ v \in Seq(Handlers)
          /\ DOMAIN v = 1..(Len(w) + 1) /\ v[Len(w) + 1] = h
          /\ \A p \in DOMAIN w : v[p] = w[p]
      BY <1>2, <3>2, AppendLine
    <3> QED BY <3>1, <3>3
  <2> QED BY <1>2, <2>2, <2>3
<1>4. \A p \in DOMAIN waiting' :
        \/ p = Len(waiting)
        \/ p + 1 \in DOMAIN waiting /\ p \in DOMAIN w /\ waiting'[p] = waiting[p + 1]
  BY <1>2, <1>3
<1>5. waiting'[Len(waiting)] = h
  BY <1>3
<1>6. OpenInv'
  BY <1>4, <1>5 DEF OrderInv, OpenInv
<1>7. QuietInv'
  BY <1>4, <1>5 DEF OrderInv, QuietInv
<1>8. LastInv'
  <2> SUFFICES ASSUME NEW i \in Instances, ready[i] # 0,
                      NEW p \in DOMAIN waiting', NEW q \in DOMAIN waiting', p < q,
                      waiting'[p] = <<"open", i, ready[i]>>
               PROVE  ~ConnectionOf(i, waiting'[q])
    BY DEF LastInv
  <2>1. CASE q = Len(waiting)
    BY <1>5, <2>1
  <2>2. CASE q # Len(waiting)
    <3>1. p # Len(waiting) /\ p + 1 < q + 1
      BY <1>2, <1>3, <2>2
    <3>2. /\ p + 1 \in DOMAIN waiting /\ q + 1 \in DOMAIN waiting
          /\ waiting[p + 1] = <<"open", i, ready[i]>> /\ waiting'[q] = waiting[q + 1]
      BY <1>4, <2>2, <3>1
    <3> QED BY <3>1, <3>2 DEF OrderInv, LastInv
  <2> QED BY <2>1, <2>2
<1> QED BY <1>3, <1>6, <1>7, <1>8 DEF OrderInv

(* Who has kept its socket is attached, by the socket of a topic's snapshot, *)
(* and has the role it is getting.                                         *)
SteadyOK(c) ==
  \A i \in c.steady :
    /\ i \in Attached
    /\ c.kind = "publish" => c.refs[i] = ready[i]
    /\ c.step = "role" /\ i = c.from => role[i] = TRUE
SteadyInv == \A k \in Calls : ~Idle(k) => SteadyOK(call[k])
CallsInv  == \A k \in Calls : CallOK(call[k])

DeliveryInv == DeliveryTypeOK /\ SocketInv /\ OrderInv /\ SteadyInv /\ CallsInv

(* A call is well as long as fewer have kept their sockets.                *)
LEMMA SteadyLess ==
  ASSUME NEW c \in CallType, CallOK(c), NEW S \in SUBSET c.steady,
         NEW d, d = [c EXCEPT !.steady = S]
  PROVE  /\ d \in CallType /\ CallOK(d) /\ d.steady = S
         /\ d.kind = c.kind /\ d.refs = c.refs /\ d.step = c.step /\ d.from = c.from
<1>1. /\ d \in CallType /\ d.steady = S
      /\ d.kind = c.kind /\ d.from = c.from /\ d.step = c.step /\ d.persistent = c.persistent
      /\ d.todo = c.todo /\ d.next = c.next /\ d.refs = c.refs /\ d.delivered = c.delivered
      /\ d.queued = c.queued /\ d.answer = c.answer /\ d.recipients = c.recipients
      /\ d.copies = c.copies /\ d.sent = c.sent
  BY DEF CallType
<1>2. Live(d) = Live(c) /\ Queued(d) = Queued(c) /\ (Held(d) <=> Held(c))
  BY <1>1 DEF Live, Queued, Held
<1>3. Copied(c) => Copied(d)
  BY <1>1 DEF Copied
<1>4. ASSUME Between(c) PROVE Between(d)
  <2>1. \A i \in d.recipients \ d.todo :
          (Held(d) => d.copies[i] = 1) /\ (i \in d.steady => d.sent[i] = 1)
    BY <1>1, <1>2, <1>4 DEF Between
  <2> QED BY <1>1, <1>2, <1>3, <1>4, <2>1 DEF Between
<1>5. ASSUME Serving(c) PROVE Serving(d)
  <2>1. \A i \in d.recipients \ d.todo :
          /\ i # d.next => d.copies[i] = 1
          /\ i \in d.steady /\ (d.kind = "publish" \/ i # d.next) => d.sent[i] = 1
    BY <1>1, <1>5 DEF Serving
  <2>2. /\ d.next \in Instances \ d.todo /\ d.kind \in {"role", "send", "publish"}
        /\ d.kind # "send" => d.from # d.next
        /\ d.copies[d.next] = IF d.step = "push" THEN 0 ELSE 1
        /\ d.kind # "publish" => d.sent[d.next] = 0
    BY <1>1, <1>5 DEF Serving
  <2>3. Held(d) /\ d.delivered = Cardinality(Live(d)) /\ d.queued = Cardinality(Queued(d) \ {d.next})
    BY <1>1, <1>2, <1>5 DEF Serving
  <2> QED BY <2>1, <2>2, <2>3 DEF Serving
<1>6. CallOK(d)
  BY <1>1, <1>3, <1>4, <1>5 DEF CallOK
<1> QED BY <1>1, <1>6

(* A plugin's id opens a socket: it had none, and was not attached.        *)
LEMMA OpenRegisterKeeps ==
  ASSUME DeliveryInv, NEW i \in Instances, OpenRegister(i)
  PROVE  DeliveryInv'
<1> DEFINE h == <<"open", i, opened[i] + 1>>
<1>1. /\ ready[i] = 0 /\ opened[i] < Sockets /\ opened[i] \in Nat /\ Sockets \in Nat
      /\ opened[i] + 1 \in 0..Sockets
  BY DeliveryAssumptions DEF OpenRegister, DeliveryInv, DeliveryTypeOK
<1>2. DeliveryTypeOK'
  BY <1>1 DEF OpenRegister, DeliveryInv, DeliveryTypeOK, connections, Detached
<1>3. SocketInv'
  BY <1>1 DEF OpenRegister, DeliveryInv, DeliveryTypeOK, SocketInv, Detached
<1>4. \A j \in Instances : (j \in Attached)' <=> j \in Attached
  BY <1>1 DEF OpenRegister, DeliveryInv, DeliveryTypeOK, Attached, Detached
<1>5. OrderInv'
  <2>1. h \in Handlers
    BY <1>1, HandlerKinds
  <2>2. /\ waiting' \in Seq(Handlers) /\ Len(waiting) \in Nat /\ DOMAIN waiting = 1..Len(waiting)
        /\ DOMAIN waiting' = 1..(Len(waiting) + 1) /\ waiting'[Len(waiting) + 1] = h
        /\ \A p \in DOMAIN waiting : waiting'[p] = waiting[p]
    BY <2>1, AppendLine DEF OpenRegister, Await, DeliveryInv, OrderInv
  <2>3. \A p \in DOMAIN waiting' : p \in DOMAIN waiting \/ p = Len(waiting) + 1
    BY <2>2
  <2>4. /\ opened \in [Instances -> 0..Sockets] /\ ready \in [Instances -> 0..Sockets]
        /\ opened' = [opened EXCEPT ![i] = opened[i] + 1]
        /\ ready' = [ready EXCEPT ![i] = opened[i] + 1]
    BY DEF OpenRegister, DeliveryInv, DeliveryTypeOK
  <2>5. OpenInv'
    <3> SUFFICES ASSUME NEW j \in Instances, NEW n \in 0..Sockets, NEW p \in DOMAIN waiting',
                        waiting'[p] = <<"open", j, n>>
                 PROVE  n <= opened'[j]
      BY DEF OpenInv
    <3>1. CASE p = Len(waiting) + 1
      BY <1>1, <2>2, <2>4, <3>1
    <3>2. CASE p \in DOMAIN waiting
      <4>1. n <= opened[j] /\ opened[j] \in Nat
        BY <2>2, <2>4, <3>2 DEF DeliveryInv, OrderInv, OpenInv
      <4> QED BY <1>1, <2>4, <4>1
    <3> QED BY <2>3, <3>1, <3>2
  <2>6. \A j \in Instances : j # i => ~ConnectionOf(j, h)
    BY DEF ConnectionOf
  <2>7. QuietInv'
    <3> SUFFICES ASSUME NEW j \in Instances, wsRef'[j] # 0, wsRef'[j] = ready'[j],
                        NEW p \in DOMAIN waiting'
                 PROVE  ~ConnectionOf(j, waiting'[p])
      BY DEF QuietInv
    <3>1. j \in Attached
      BY <1>4 DEF Attached
    <3>2. j # i /\ wsRef[j] # 0 /\ wsRef[j] = ready[j]
      BY <1>1, <3>1 DEF Attached
    <3> QED BY <2>2, <2>3, <2>6, <3>2 DEF DeliveryInv, OrderInv, QuietInv
  <2>8. LastInv'
    <3> SUFFICES ASSUME NEW j \in Instances, ready'[j] # 0,
                        NEW p \in DOMAIN waiting', NEW q \in DOMAIN waiting', p < q,
                        waiting'[p] = <<"open", j, ready'[j]>>
                 PROVE  ~ConnectionOf(j, waiting'[q])
      BY DEF LastInv
    <3>1. p \in DOMAIN waiting /\ waiting[p] = <<"open", j, ready'[j]>>
      BY <2>2
    <3>2. j # i
      <4> SUFFICES ASSUME j = i PROVE FALSE
        OBVIOUS
      <4>1. opened[i] + 1 <= opened[i]
        BY <1>1, <2>4, <3>1 DEF DeliveryInv, OrderInv, OpenInv
      <4> QED BY <1>1, <4>1
    <3>3. ready'[j] = ready[j]
      BY <2>4, <3>2
    <3>4. CASE q = Len(waiting) + 1
      BY <2>2, <2>6, <3>2, <3>4
    <3>5. CASE q \in DOMAIN waiting
      BY <2>2, <3>1, <3>3, <3>5 DEF DeliveryInv, OrderInv, LastInv
    <3> QED BY <2>3, <3>4, <3>5
  <2> QED BY <2>2, <2>5, <2>7, <2>8 DEF OrderInv
<1>6. SteadyInv'
  <2> SUFFICES ASSUME NEW k \in Calls, ~Idle(k)', NEW j \in call[k].steady
               PROVE  /\ (j \in Attached)'
                      /\ call[k].kind = "publish" => call[k].refs[j] = ready'[j]
                      /\ call[k].step = "role" /\ j = call[k].from => role'[j] = TRUE
    BY DEF SteadyInv, SteadyOK, OpenRegister
  <2>1. call[k].steady \subseteq Instances
    BY DEF DeliveryInv, DeliveryTypeOK, CallType
  <2>2. /\ j \in Attached
        /\ call[k].kind = "publish" => call[k].refs[j] = ready[j]
        /\ call[k].step = "role" /\ j = call[k].from => role[j] = TRUE
    BY DEF DeliveryInv, SteadyInv, SteadyOK, OpenRegister, Idle
  <2>3. j # i
    BY <1>1, <2>2 DEF Attached
  <2>4. ready'[j] = ready[j] /\ role'[j] = role[j]
    BY <2>1, <2>3 DEF OpenRegister, DeliveryInv, DeliveryTypeOK
  <2> QED BY <1>4, <2>1, <2>2, <2>4
<1>7. CallsInv'
  BY DEF OpenRegister, DeliveryInv, CallsInv
<1> QED BY <1>2, <1>3, <1>5, <1>6, <1>7 DEF DeliveryInv

(* The registry entry of i is not that of an attached instance when its open *)
(* or its close is at the head of the line.                                *)
LEMMA HeadNotAttached ==
  ASSUME OrderInv, NEW i \in Instances, NEW h, ConnectionOf(i, h), Answered(h)
  PROVE  i \notin Attached
<1>1. waiting # << >> /\ 1 \in DOMAIN waiting /\ waiting[1] = h
  BY TailLine DEF Answered, OrderInv
<1> QED BY <1>1 DEF OrderInv, QuietInv, Attached

(* The open is answered: i is attached by its current socket or an old one. *)
LEMMA OpenAttachKeeps ==
  ASSUME DeliveryInv, NEW i \in Instances, NEW n \in 1..Sockets, OpenAttach(i, n)
  PROVE  DeliveryInv'
<1>1. n \in 0..Sockets /\ n # 0 /\ ConnectionOf(i, <<"open", i, n>>)
  BY DeliveryAssumptions DEF ConnectionOf
<1>2. i \notin Attached
  BY <1>1, HeadNotAttached DEF OpenAttach, DeliveryInv
<1>3. DeliveryTypeOK'
  BY <1>1 DEF OpenAttach, DeliveryInv, DeliveryTypeOK
<1>4. SocketInv'
  BY <1>1 DEF OpenAttach, DeliveryInv, DeliveryTypeOK, SocketInv
<1>5. \A j \in Instances : j \in Attached => (j \in Attached)'
  BY <1>2 DEF OpenAttach, DeliveryInv, DeliveryTypeOK, Attached
<1>6. OrderInv'
  <2>1. /\ waiting' \in Seq(Handlers) /\ Len(waiting) \in Nat /\ DOMAIN waiting = 1..Len(waiting)
        /\ DOMAIN waiting' = 1..(Len(waiting) - 1) /\ waiting # << >>
        /\ waiting[1] = <<"open", i, n>> /\ Len(waiting) > 0
        /\ \A p \in DOMAIN waiting' : waiting'[p] = waiting[p + 1]
    BY TailLine DEF OpenAttach, Answered, Resolved, DeliveryInv, OrderInv
  <2>2. \A p \in DOMAIN waiting' : p + 1 \in DOMAIN waiting /\ 1 < p + 1
    BY <2>1
  <2>3. 1 \in DOMAIN waiting
    BY <2>1
  <2>4. wsRef' = [wsRef EXCEPT ![i] = n] /\ wsRef \in [Instances -> 0..Sockets]
        /\ ready' = ready /\ opened' = opened
    BY DEF OpenAttach, DeliveryInv, DeliveryTypeOK
  <2>5. OpenInv'
    BY <2>1, <2>2, <2>4 DEF DeliveryInv, OrderInv, OpenInv
  <2>6. QuietInv'
    <3> SUFFICES ASSUME NEW j \in Instances, wsRef'[j] # 0, wsRef'[j] = ready[j],
                        NEW p \in DOMAIN waiting'
                 PROVE  ~ConnectionOf(j, waiting'[p])
      BY <2>4 DEF QuietInv
    <3>1. CASE j = i
      <4>1. ready[i] = n
        BY <2>4, <3>1
      <4> QED BY <1>1, <2>1, <2>2, <2>3, <3>1, <4>1 DEF DeliveryInv, OrderInv, LastInv
    <3>2. CASE j # i
      <4>1. wsRef[j] # 0 /\ wsRef[j] = ready[j]
        BY <2>4, <3>2
      <4> QED BY <2>1, <2>2, <4>1 DEF DeliveryInv, OrderInv, QuietInv
    <3> QED BY <3>1, <3>2
  <2>7. LastInv'
    <3> SUFFICES ASSUME NEW j \in Instances, ready[j] # 0,
                        NEW p \in DOMAIN waiting', NEW q \in DOMAIN waiting', p < q,
                        waiting'[p] = <<"open", j, ready[j]>>
                 PROVE  ~ConnectionOf(j, waiting'[q])
      BY <2>4 DEF LastInv
    <3>1. p + 1 \in DOMAIN waiting /\ q + 1 \in DOMAIN waiting /\ p + 1 < q + 1
      BY <2>1
    <3>2. waiting[p + 1] = <<"open", j, ready[j]>> /\ waiting'[q] = waiting[q + 1]
      BY <2>1
    <3> QED BY <3>1, <3>2 DEF DeliveryInv, OrderInv, LastInv
  <2> QED BY <2>1, <2>5, <2>6, <2>7 DEF OrderInv
<1>7. SteadyInv'
  <2> SUFFICES ASSUME NEW k \in Calls, ~Idle(k)', NEW j \in call[k].steady
               PROVE  /\ (j \in Attached)'
                      /\ call[k].kind = "publish" => call[k].refs[j] = ready[j]
                      /\ call[k].step = "role" /\ j = call[k].from => role[j] = TRUE
    BY DEF SteadyInv, SteadyOK, OpenAttach
  <2>1. call[k].steady \subseteq Instances
    BY DEF DeliveryInv, DeliveryTypeOK, CallType
  <2>2. /\ j \in Attached
        /\ call[k].kind = "publish" => call[k].refs[j] = ready[j]
        /\ call[k].step = "role" /\ j = call[k].from => role[j] = TRUE
    BY DEF DeliveryInv, SteadyInv, SteadyOK, OpenAttach, Idle
  <2> QED BY <1>5, <2>1, <2>2
<1>8. CallsInv'
  BY DEF OpenAttach, DeliveryInv, CallsInv
<1> QED BY <1>3, <1>4, <1>6, <1>7, <1>8 DEF DeliveryInv

(* The close is answered: i was not attached any more, nor is it now.       *)
LEMMA CloseDetachKeeps ==
  ASSUME DeliveryInv, NEW i \in Instances, CloseDetach(i)
  PROVE  DeliveryInv'
<1>1. i \notin Attached
  <2>1. ConnectionOf(i, <<"close", i, 0>>)
    BY DEF ConnectionOf
  <2> QED BY <2>1, HeadNotAttached DEF CloseDetach, DeliveryInv
<1>2. DeliveryTypeOK'
  BY DeliveryAssumptions DEF CloseDetach, DeliveryInv, DeliveryTypeOK, Detached
<1>3. SocketInv'
  BY DEF CloseDetach, DeliveryInv, DeliveryTypeOK, SocketInv, Detached
<1>4. \A j \in Instances : (j \in Attached)' <=> j \in Attached
  BY <1>1 DEF CloseDetach, DeliveryInv, DeliveryTypeOK, Attached, Detached
<1>5. OrderInv'
  <2>1. /\ waiting' \in Seq(Handlers) /\ Len(waiting) \in Nat /\ DOMAIN waiting = 1..Len(waiting)
        /\ DOMAIN waiting' = 1..(Len(waiting) - 1)
        /\ \A p \in DOMAIN waiting' : waiting'[p] = waiting[p + 1]
    BY TailLine DEF CloseDetach, Answered, Resolved, DeliveryInv, OrderInv
  <2>2. \A p \in DOMAIN waiting' : p + 1 \in DOMAIN waiting
    BY <2>1
  <2>3. ready' = ready /\ opened' = opened
    BY DEF CloseDetach
  <2>4. OpenInv'
    BY <2>1, <2>2, <2>3 DEF DeliveryInv, OrderInv, OpenInv
  <2>5. QuietInv'
    <3> SUFFICES ASSUME NEW j \in Instances, wsRef'[j] # 0, wsRef'[j] = ready'[j],
                        NEW p \in DOMAIN waiting'
                 PROVE  ~ConnectionOf(j, waiting'[p])
      BY DEF QuietInv
    <3>1. wsRef[j] # 0 /\ wsRef[j] = ready[j]
      BY <1>4 DEF Attached
    <3> QED BY <2>1, <2>2, <3>1 DEF DeliveryInv, OrderInv, QuietInv
  <2>6. LastInv'
    <3> SUFFICES ASSUME NEW j \in Instances, ready[j] # 0,
                        NEW p \in DOMAIN waiting', NEW q \in DOMAIN waiting', p < q,
                        waiting'[p] = <<"open", j, ready[j]>>
                 PROVE  ~ConnectionOf(j, waiting'[q])
      BY <2>3 DEF LastInv
    <3>1. p + 1 \in DOMAIN waiting /\ q + 1 \in DOMAIN waiting /\ p + 1 < q + 1
      BY <2>1
    <3>2. waiting[p + 1] = <<"open", j, ready[j]>> /\ waiting'[q] = waiting[q + 1]
      BY <2>1
    <3> QED BY <3>1, <3>2 DEF DeliveryInv, OrderInv, LastInv
  <2> QED BY <2>1, <2>4, <2>5, <2>6 DEF OrderInv
<1>6. SteadyInv'
  <2> SUFFICES ASSUME NEW k \in Calls, ~Idle(k)', NEW j \in call[k].steady
               PROVE  /\ (j \in Attached)'
                      /\ call[k].kind = "publish" => call[k].refs[j] = ready[j]
                      /\ call[k].step = "role" /\ j = call[k].from => role[j] = TRUE
    BY DEF SteadyInv, SteadyOK, CloseDetach
  <2>1. call[k].steady \subseteq Instances
    BY DEF DeliveryInv, DeliveryTypeOK, CallType
  <2>2. /\ j \in Attached
        /\ call[k].kind = "publish" => call[k].refs[j] = ready[j]
        /\ call[k].step = "role" /\ j = call[k].from => role[j] = TRUE
    BY DEF DeliveryInv, SteadyInv, SteadyOK, CloseDetach, Idle
  <2> QED BY <1>4, <2>1, <2>2
<1>7. CallsInv'
  BY DEF CloseDetach, DeliveryInv, CallsInv
<1> QED BY <1>2, <1>3, <1>5, <1>6, <1>7 DEF DeliveryInv

(* A socket closes: no call counts on its instance any longer.              *)
LEMMA CloseMarkOfflineKeeps ==
  ASSUME DeliveryInv, NEW i \in Instances, CloseMarkOffline(i)
  PROVE  DeliveryInv'
<1> DEFINE h == <<"close", i, 0>>
<1>1. \A j \in Instances : j # i => (j \in Attached' <=> j \in Attached)
  BY DEF CloseMarkOffline, DeliveryInv, DeliveryTypeOK, Attached
<1>2. \A k \in Calls :
        /\ call'[k] \in CallType /\ CallOK(call'[k]) /\ call'[k].step = call[k].step
        /\ ~Idle(k) => /\ call'[k].steady = call[k].steady \ {i} /\ call'[k].kind = call[k].kind
                       /\ call'[k].refs = call[k].refs /\ call'[k].from = call[k].from
  <2> SUFFICES ASSUME NEW k \in Calls
               PROVE  /\ call'[k] \in CallType /\ CallOK(call'[k]) /\ call'[k].step = call[k].step
                      /\ ~Idle(k) => /\ call'[k].steady = call[k].steady \ {i}
                                     /\ call'[k].kind = call[k].kind
                                     /\ call'[k].refs = call[k].refs
                                     /\ call'[k].from = call[k].from
    OBVIOUS
  <2>1. call[k] \in CallType /\ CallOK(call[k])
    BY DEF DeliveryInv, DeliveryTypeOK, CallsInv
  <2>2. CASE Idle(k)
    BY <2>1, <2>2 DEF CloseMarkOffline
  <2>3. CASE ~Idle(k)
    <3>1. PICK S \in SUBSET call[k].steady : S = call[k].steady \ {i}
      OBVIOUS
    <3>2. PICK c : c = call[k]
      OBVIOUS
    <3>3. call'[k] = [c EXCEPT !.steady = S]
      BY <2>3, <3>1, <3>2 DEF CloseMarkOffline
    <3>4. PICK d : d = [c EXCEPT !.steady = S]
      OBVIOUS
    <3>5. /\ d \in CallType /\ CallOK(d) /\ d.steady = S
          /\ d.kind = c.kind /\ d.refs = c.refs /\ d.step = c.step /\ d.from = c.from
      BY <2>1, <3>2, <3>4, SteadyLess
    <3> QED BY <3>1, <3>2, <3>3, <3>4, <3>5
  <2> QED BY <2>2, <2>3
<1>3. DeliveryTypeOK'
  <2>1. call' \in [Calls -> CallType]
    BY <1>2 DEF CloseMarkOffline
  <2> QED BY <2>1, DeliveryAssumptions DEF CloseMarkOffline, DeliveryInv, DeliveryTypeOK
<1>4. SocketInv'
  BY DEF CloseMarkOffline, DeliveryInv, DeliveryTypeOK, SocketInv
<1>5. OrderInv'
  <2>1. h \in Handlers
    BY HandlerKinds
  <2>2. /\ waiting' \in Seq(Handlers) /\ Len(waiting) \in Nat /\ DOMAIN waiting = 1..Len(waiting)
        /\ DOMAIN waiting' = 1..(Len(waiting) + 1) /\ waiting'[Len(waiting) + 1] = h
        /\ \A p \in DOMAIN waiting : waiting'[p] = waiting[p]
    BY <2>1, AppendLine DEF CloseMarkOffline, Await, DeliveryInv, OrderInv
  <2>3. \A p \in DOMAIN waiting' : p \in DOMAIN waiting \/ p = Len(waiting) + 1
    BY <2>2
  <2>4. /\ ready \in [Instances -> 0..Sockets] /\ ready' = [ready EXCEPT ![i] = 0]
        /\ wsRef' = wsRef /\ opened' = opened
    BY DEF CloseMarkOffline, DeliveryInv, DeliveryTypeOK
  <2>5. \A j \in Instances : j # i => ~ConnectionOf(j, h)
    BY DEF ConnectionOf
  <2>6. OpenInv'
    BY <2>2, <2>3, <2>4 DEF DeliveryInv, OrderInv, OpenInv
  <2>7. QuietInv'
    <3> SUFFICES ASSUME NEW j \in Instances, wsRef[j] # 0, wsRef[j] = ready'[j],
                        NEW p \in DOMAIN waiting'
                 PROVE  ~ConnectionOf(j, waiting'[p])
      BY <2>4 DEF QuietInv
    <3>1. j # i /\ wsRef[j] = ready[j]
      BY <2>4
    <3> QED BY <2>2, <2>3, <2>5, <3>1 DEF DeliveryInv, OrderInv, QuietInv
  <2>8. LastInv'
    <3> SUFFICES ASSUME NEW j \in Instances, ready'[j] # 0,
                        NEW p \in DOMAIN waiting', NEW q \in DOMAIN waiting', p < q,
                        waiting'[p] = <<"open", j, ready'[j]>>
                 PROVE  ~ConnectionOf(j, waiting'[q])
      BY DEF LastInv
    <3>1. j # i /\ ready'[j] = ready[j]
      BY <2>4
    <3>2. p \in DOMAIN waiting /\ waiting[p] = <<"open", j, ready[j]>>
      BY <2>2, <3>1
    <3>3. CASE q = Len(waiting) + 1
      BY <2>2, <2>5, <3>1, <3>3
    <3>4. CASE q \in DOMAIN waiting
      BY <2>2, <3>1, <3>2, <3>4 DEF DeliveryInv, OrderInv, LastInv
    <3> QED BY <2>3, <3>3, <3>4
  <2> QED BY <2>2, <2>6, <2>7, <2>8 DEF OrderInv
<1>6. SteadyInv'
  <2> SUFFICES ASSUME NEW k \in Calls, ~Idle(k)', NEW j \in call'[k].steady
               PROVE  /\ (j \in Attached)'
                      /\ call'[k].kind = "publish" => call'[k].refs[j] = ready'[j]
                      /\ call'[k].step = "role" /\ j = call'[k].from => role'[j] = TRUE
    BY DEF SteadyInv, SteadyOK
  <2>1. ~Idle(k)
    BY <1>2 DEF Idle
  <2>2. j # i /\ j \in call[k].steady
    BY <1>2, <2>1
  <2>3. j \in Instances
    BY <2>2 DEF DeliveryInv, DeliveryTypeOK, CallType
  <2>4. /\ j \in Attached
        /\ call[k].kind = "publish" => call[k].refs[j] = ready[j]
        /\ call[k].step = "role" /\ j = call[k].from => role[j] = TRUE
    BY <2>1, <2>2 DEF DeliveryInv, SteadyInv, SteadyOK
  <2>5. ready'[j] = ready[j] /\ role' = role
    BY <2>2, <2>3 DEF CloseMarkOffline, DeliveryInv, DeliveryTypeOK
  <2> QED BY <1>1, <1>2, <2>1, <2>2, <2>3, <2>4, <2>5
<1>7. CallsInv'
  BY <1>2 DEF CallsInv
<1> QED BY <1>3, <1>4, <1>5, <1>6, <1>7 DEF DeliveryInv

(* Members come and go: no call has read them yet, or it has for good.      *)
LEMMA MembersKeep ==
  ASSUME DeliveryInv, NEW i \in Instances, Subscribe(i) \/ Unsubscribe(i)
  PROVE  DeliveryInv'
<1>1. /\ UNCHANGED <<waiting, status, wsRef, role, pluginWs, ready, opened, declared, call>>
      /\ subscribers' \subseteq Instances
  BY DEF Subscribe, Unsubscribe, connections, DeliveryInv, DeliveryTypeOK
<1> QED BY <1>1 DEF DeliveryInv, DeliveryTypeOK, SocketInv, OrderInv, OpenInv, QuietInv, LastInv,
                    SteadyInv, SteadyOK, CallsInv, Attached, Idle

(* One step of call k, which leaves the call d: no connection changes.      *)
CallStep(k, d) ==
  /\ d \in CallType /\ CallOK(d) /\ call' = [call EXCEPT ![k] = d]
  /\ d.step \notin {"new", "done"} => SteadyOK(d)'
  /\ \/ UNCHANGED waiting
     \/ waiting' = Append(waiting, <<"call", k, 0>>)
     \/ waiting # << >> /\ waiting' = Tail(waiting)
     \/ waiting # << >> /\ waiting' = Append(Tail(waiting), <<"call", k, 0>>)
  /\ UNCHANGED <<status, wsRef, pluginWs, ready, opened, subscribers>>

LEMMA CallStepKeeps ==
  ASSUME DeliveryInv, NEW k \in Calls, NEW d, CallStep(k, d),
         role' \in [Instances -> BOOLEAN], declared' \subseteq Instances,
         \A i \in Instances : role[i] = TRUE => role'[i] = TRUE,
         \A i \in declared' : role'[i] = TRUE
  PROVE  DeliveryInv'
<1>1. /\ status' = status /\ wsRef' = wsRef /\ pluginWs' = pluginWs /\ ready' = ready
      /\ opened' = opened /\ subscribers' = subscribers
  BY DEF CallStep
<1>2. /\ call \in [Calls -> CallType] /\ call'[k] = d
      /\ \A m \in Calls : m # k => call'[m] = call[m]
  BY DEF CallStep, DeliveryInv, DeliveryTypeOK
<1>3. DeliveryTypeOK'
  <2>1. call' \in [Calls -> CallType]
    BY <1>2 DEF CallStep
  <2> QED BY <1>1, <2>1 DEF DeliveryInv, DeliveryTypeOK
<1>4. SocketInv'
  BY <1>1 DEF DeliveryInv, SocketInv
<1>5. OrderInv'
  <2>1. <<"call", k, 0>> \in Handlers
    BY HandlerKinds
  <2>2. /\ \A i \in Instances : ~ConnectionOf(i, <<"call", k, 0>>)
        /\ \A i \in Instances, n \in 0..Sockets : <<"call", k, 0>> # <<"open", i, n>>
    BY DEF ConnectionOf
  <2>3. CASE UNCHANGED waiting
    BY <1>1, <2>3 DEF DeliveryInv, OrderInv, OpenInv, QuietInv, LastInv
  <2>4. CASE waiting' = Append(waiting, <<"call", k, 0>>)
    BY <1>1, <2>1, <2>2, <2>4, AppendOrder DEF DeliveryInv
  <2>5. CASE waiting # << >> /\ waiting' = Tail(waiting)
    BY <1>1, <2>5, TailOrder DEF DeliveryInv
  <2>6. CASE waiting # << >> /\ waiting' = Append(Tail(waiting), <<"call", k, 0>>)
    BY <1>1, <2>1, <2>2, <2>6, AgainOrder DEF DeliveryInv
  <2> QED BY <2>3, <2>4, <2>5, <2>6 DEF CallStep
<1>6. SteadyInv'
  <2> SUFFICES ASSUME NEW m \in Calls, ~Idle(m)' PROVE SteadyOK(call[m])'
    BY DEF SteadyInv
  <2>1. CASE m = k
    <3>1. d.step \notin {"new", "done"}
      BY <1>2, <2>1 DEF Idle
    <3>2. SteadyOK(d)'
      BY <3>1 DEF CallStep
    <3> QED BY <1>2, <2>1, <3>2
  <2>2. CASE m # k
    <3>1. call'[m] = call[m] /\ call[m].steady \subseteq Instances
      BY <1>2, <2>2 DEF CallType
    <3>2. SteadyOK(call[m])
      BY <3>1 DEF DeliveryInv, SteadyInv, Idle
    <3>3. Attached' = Attached
      BY <1>1 DEF Attached
    <3> QED BY <1>1, <3>1, <3>2, <3>3 DEF SteadyOK
  <2> QED BY <2>1, <2>2
<1>7. CallsInv'
  BY <1>2 DEF CallStep, CallsInv, DeliveryInv
<1> QED BY <1>3, <1>4, <1>5, <1>6, <1>7 DEF DeliveryInv

(* A step that is not about roles.                                         *)
LEMMA PlainStepKeeps ==
  ASSUME DeliveryInv, NEW k \in Calls, NEW d, CallStep(k, d), UNCHANGED <<role, declared>>
  PROVE  DeliveryInv'
<1>1. role' \in [Instances -> BOOLEAN] /\ declared' \subseteq Instances
  BY DEF DeliveryInv, DeliveryTypeOK
<1>2. \A i \in Instances : role[i] = TRUE => role'[i] = TRUE
  OBVIOUS
<1>3. \A i \in declared' : role'[i] = TRUE
  BY <1>1 DEF DeliveryInv, SocketInv
<1> QED BY <1>1, <1>2, <1>3, CallStepKeeps

(* A new call: nothing sent, nothing queued, and so nothing counted.        *)
LEMMA MadeOK ==
  ASSUME DeliveryInv, NEW f \in Senders,
         NEW sort \in {"set_role", "broadcast", "role", "send", "publish"}, NEW c, c = Made(f, sort)
  PROVE  Between(c) /\ c.todo = {} /\ Live(c) = {} /\ Queued(c) = {} /\ Copied(c)
<1>1. /\ c \in CallType
      /\ c.from = f /\ c.kind = sort /\ c.step = "new"
      /\ c.todo = {} /\ c.next = NoOne /\ c.refs = Zero /\ c.delivered = 0 /\ c.queued = 0
      /\ c.answer = "none" /\ c.recipients = {} /\ c.copies = Zero /\ c.sent = Zero
      /\ c.steady = Attached
  BY MadeFields
<1>2. \A i \in Instances : c.copies[i] = 0 /\ c.sent[i] = 0
  BY <1>1, Constants
<1>3. Live(c) = {} /\ Queued(c) = {}
  BY <1>2 DEF Live, Queued
<1>4. Cardinality({}) = 0
  BY FS_EmptySet
<1>5. Copied(c)
  BY <1>1, <1>2 DEF Copied
<1>6. Between(c)
  BY <1>1, <1>3, <1>4, <1>5 DEF Between
<1> QED BY <1>1, <1>3, <1>5, <1>6

(* A limiter turns the frame away.                                          *)
LEMMA LimitedKeeps ==
  ASSUME DeliveryInv, NEW k \in Calls, NEW f \in Senders, Limited(k, f)
  PROVE  DeliveryInv'
<1>1. PICK d : d = [Blank EXCEPT !.step = "done", !.answer = "silent"]
  OBVIOUS
<1>2. d \in CallType /\ d.step = "done" /\ d.answer = "silent"
  BY <1>1, BlankType DEF CallType
<1>3. CallStep(k, d)
  BY <1>1, <1>2 DEF Limited, CallStep, CallOK, connections
<1> QED BY <1>3, PlainStepKeeps DEF Limited, connections

(* set_role.                                                               *)
LEMMA SetRoleKeeps ==
  ASSUME DeliveryInv, NEW k \in Calls, NEW f \in Senders, SetRole(k, f)
  PROVE  DeliveryInv'
<1>1. PICK c : c = Made(f, "set_role")
  OBVIOUS
<1>2. /\ c \in CallType /\ c.from = f /\ c.kind = "set_role" /\ c.todo = {} /\ c.next = NoOne
      /\ c.answer = "none" /\ c.steady = Attached
  BY <1>1, MadeFields
<1>3. Between(c)
  BY <1>1, MadeOK
<1>4. CASE status[f] # "absent"
  <2>1. PICK d : d = [c EXCEPT !.step = "role"]
    OBVIOUS
  <2>2. /\ d \in CallType /\ d.step = "role"
        /\ d.kind = c.kind /\ d.from = c.from /\ d.persistent = c.persistent
        /\ d.todo = c.todo /\ d.next = c.next /\ d.refs = c.refs /\ d.delivered = c.delivered
        /\ d.queued = c.queued /\ d.answer = c.answer /\ d.recipients = c.recipients
        /\ d.copies = c.copies /\ d.sent = c.sent /\ d.steady = c.steady
    BY <1>2, <2>1 DEF CallType
  <2>3. Live(d) = Live(c) /\ Queued(d) = Queued(c) /\ (Held(d) <=> Held(c))
    BY <2>2 DEF Live, Queued, Held
  <2>4. Between(d)
    BY <1>3, <2>2, <2>3 DEF Between, Copied
  <2>5. CallOK(d)
    BY <1>2, <2>2, <2>4 DEF CallOK
  <2>6. role' = [role EXCEPT ![f] = TRUE] /\ role \in [Instances -> BOOLEAN] /\ f \in Instances
        /\ declared' = declared /\ call' = [call EXCEPT ![k] = d]
        /\ waiting' = Append(waiting, <<"call", k, 0>>)
        /\ UNCHANGED <<status, wsRef, pluginWs, ready, opened, subscribers>>
    BY <1>1, <1>4, <2>1 DEF SetRole, Await, DeliveryInv, DeliveryTypeOK
  <2>7. SteadyOK(d)'
    <3>1. Attached' = Attached
      BY <2>6 DEF Attached
    <3> QED BY <1>2, <2>2, <2>6, <3>1 DEF SteadyOK
  <2>8. CallStep(k, d)
    BY <2>2, <2>5, <2>6, <2>7 DEF CallStep
  <2>9. role' \in [Instances -> BOOLEAN] /\ \A i \in Instances : role[i] = TRUE => role'[i] = TRUE
    BY <2>6
  <2>10. declared' \subseteq Instances /\ \A i \in declared' : role'[i] = TRUE
    BY <2>6, <2>9 DEF DeliveryInv, DeliveryTypeOK, SocketInv
  <2> QED BY <2>8, <2>9, <2>10, CallStepKeeps
<1>5. CASE status[f] = "absent"
  <2>1. PICK d : d = Done(c, "error")
    OBVIOUS
  <2>2. d \in CallType /\ CallOK(d) /\ d.step = "done"
    BY <1>2, <1>3, <2>1, DoneOK, DoneFields
  <2>3. call' = [call EXCEPT ![k] = d]
        /\ UNCHANGED <<waiting, status, wsRef, pluginWs, ready, opened, subscribers, role, declared>>
    BY <1>1, <1>5, <2>1 DEF SetRole
  <2>4. CallStep(k, d)
    BY <2>2, <2>3 DEF CallStep
  <2> QED BY <2>3, <2>4, PlainStepKeeps
<1> QED BY <1>4, <1>5

(* set_role answers: who kept its socket still has the role.                *)
LEMMA RoleSetKeeps ==
  ASSUME DeliveryInv, NEW k \in Calls, RoleSet(k)
  PROVE  DeliveryInv'
<1>1. PICK c : c = call[k]
  OBVIOUS
<1>2. /\ c \in CallType /\ CallOK(c) /\ c.step = "role" /\ SteadyOK(c)
  BY <1>1 DEF RoleSet, DeliveryInv, DeliveryTypeOK, CallsInv, SteadyInv, Idle
<1>3. Between(c) /\ c.todo = {}
  BY <1>2 DEF CallOK
<1>4. PICK d : d = Done(c, "ok")
  OBVIOUS
<1>5. d \in CallType /\ CallOK(d) /\ d.step = "done"
  BY <1>2, <1>3, <1>4, DoneOK, DoneFields
<1>6. /\ call' = [call EXCEPT ![k] = d] /\ waiting # << >> /\ waiting' = Tail(waiting)
      /\ UNCHANGED <<status, wsRef, pluginWs, ready, opened, subscribers, role>>
      /\ declared' = IF c.from \in c.steady THEN declared \cup {c.from} ELSE declared
  BY <1>1, <1>4 DEF RoleSet, Answered, Resolved
<1>7. CallStep(k, d)
  BY <1>5, <1>6 DEF CallStep
<1>8. c.from \in c.steady => c.from \in Instances /\ role[c.from] = TRUE
  BY <1>2 DEF SteadyOK, CallType
<1>9. declared \subseteq Instances /\ role \in [Instances -> BOOLEAN]
      /\ \A i \in declared : role[i] = TRUE
  BY DEF DeliveryInv, DeliveryTypeOK, SocketInv
<1>10. declared' \subseteq Instances /\ role' \in [Instances -> BOOLEAN]
      /\ \A i \in declared' : role'[i] = TRUE
  BY <1>6, <1>8, <1>9
<1>11. \A i \in Instances : role[i] = TRUE => role'[i] = TRUE
  BY <1>6
<1> QED BY <1>7, <1>10, <1>11, CallStepKeeps

(* broadcast: who is attached is reached, except the sender.               *)
LEMMA BroadcastKeeps ==
  ASSUME DeliveryInv, NEW k \in Calls, NEW f \in Senders, Broadcast(k, f)
  PROVE  DeliveryInv'
<1>1. PICK c : c = Done(Made(f, "broadcast"), "ok")
  OBVIOUS
<1> DEFINE g == [i \in Instances |-> IF i \in Reached(f) THEN 1 ELSE 0]
           m == Cardinality(Reached(f))
           R == Attached \ {f}
<1>2. PICK d : d = [c EXCEPT !.recipients = R, !.delivered = m, !.sent = g]
  OBVIOUS
<1>3. /\ call' = [call EXCEPT ![k] = d]
      /\ UNCHANGED <<waiting, status, wsRef, role, pluginWs, ready, opened, declared, subscribers>>
  BY <1>1, <1>2 DEF Broadcast, connections
<1>4. /\ Reached(f) \subseteq Instances /\ f \notin Reached(f) /\ m \in Nat
      /\ g \in [Instances -> Nat] /\ R \in SUBSET Instances
      /\ \A i \in Instances : g[i] = IF i \in Reached(f) THEN 1 ELSE 0
  BY Constants DEF Reached, Attached
<1>5. R \subseteq Reached(f)
  BY DEF Attached, Reached, DeliveryInv, DeliveryTypeOK, SocketInv
<1>6. PICK e : e = Made(f, "broadcast")
  OBVIOUS
<1>7. /\ e \in CallType /\ e.from = f /\ e.kind = "broadcast" /\ ~Held(e)
      /\ e.todo = {} /\ e.queued = 0 /\ e.copies = Zero /\ e.next = NoOne
  BY <1>6, MadeFields
<1>8. /\ c \in CallType /\ c.from = f /\ c.kind = "broadcast" /\ ~Held(c)
      /\ c.todo = {} /\ c.queued = 0 /\ c.copies = Zero /\ c.step = "done" /\ c.next = NoOne
      /\ c.answer = "ok"
  BY <1>1, <1>6, <1>7, DoneFields DEF Held
<1> HIDE DEF g, m, R
<1>9. /\ d \in CallType /\ d.from = f /\ d.kind = "broadcast" /\ ~Held(d)
      /\ d.todo = {} /\ d.queued = 0 /\ d.copies = Zero /\ d.step = "done" /\ d.next = NoOne
      /\ d.answer = "ok" /\ d.recipients = R /\ d.delivered = m /\ d.sent = g
  BY <1>2, <1>4, <1>8 DEF CallType, Held
<1>10. \A i \in Instances : d.copies[i] = 0 /\ d.sent[i] = IF i \in Reached(f) THEN 1 ELSE 0
  BY <1>4, <1>9, Constants
<1>11. Copied(d)
  BY <1>4, <1>9, <1>10 DEF Copied
<1>12. Live(d) = Reached(f) /\ Queued(d) = {} /\ Cardinality({}) = 0 /\ ~Held(d)
  BY <1>4, <1>9, <1>10, FS_EmptySet DEF Live, Queued
<1>13. \A i \in d.recipients \ d.todo :
         (Held(d) => d.copies[i] = 1) /\ (i \in d.steady => d.sent[i] = 1)
  BY <1>4, <1>5, <1>9, <1>10, <1>12
<1>14. d.delivered = Cardinality(Live(d)) /\ d.queued = Cardinality(Queued(d))
  BY <1>9, <1>12 DEF m
<1>15. Between(d)
  BY <1>9, <1>11, <1>13, <1>14 DEF Between
<1>16. CallStep(k, d)
  BY <1>3, <1>9, <1>15 DEF CallStep, CallOK
<1> QED BY <1>3, <1>16, PlainStepKeeps

(* A role or an address: owed are some of the targets, all of them to do.   *)
LEMMA SendToStep ==
  ASSUME DeliveryInv, NEW k \in Calls, NEW f \in Senders, NEW sort \in {"role", "send"},
         NEW targets \in SUBSET Instances, NEW owed \in SUBSET targets, NEW n,
         sort = "role" => f \notin targets,
         SendTo(k, f, sort, targets, owed, n), UNCHANGED <<connections, subscribers>>
  PROVE  DeliveryInv'
<1>1. PICK b : b = Made(f, sort)
  OBVIOUS
<1>2. /\ b \in CallType /\ b.from = f /\ b.kind = sort /\ b.todo = {} /\ b.next = NoOne
      /\ b.answer = "none" /\ b.steady = Attached /\ b.copies = Zero /\ b.sent = Zero
      /\ b.recipients = {}
  BY <1>1, MadeFields
<1>3. Between(b)
  BY <1>1, MadeOK
<1>4. PICK c : c = [b EXCEPT !.recipients = owed]
  OBVIOUS
<1>5. /\ c \in CallType /\ c.recipients = owed
      /\ c.kind = b.kind /\ c.from = b.from /\ c.step = b.step /\ c.persistent = b.persistent
      /\ c.todo = b.todo /\ c.next = b.next /\ c.refs = b.refs /\ c.delivered = b.delivered
      /\ c.queued = b.queued /\ c.answer = b.answer
      /\ c.copies = b.copies /\ c.sent = b.sent /\ c.steady = b.steady
  BY <1>2, <1>4 DEF CallType
<1>6. UNCHANGED <<status, wsRef, role, pluginWs, ready, opened, declared, subscribers>>
  BY DEF connections
<1>7. CASE targets = {} /\ call' = [call EXCEPT ![k] = Done(c, "error")] /\ UNCHANGED waiting
  <2>1. Live(c) = Live(b) /\ Queued(c) = Queued(b) /\ (Held(c) <=> Held(b))
    BY <1>5 DEF Live, Queued, Held
  <2>2. Between(c)
    BY <1>2, <1>3, <1>5, <1>7, <2>1 DEF Between, Copied
  <2>3. PICK d : d = Done(c, "error")
    OBVIOUS
  <2>4. d \in CallType /\ CallOK(d) /\ d.step = "done"
    BY <1>2, <1>5, <2>2, <2>3, DoneOK, DoneFields
  <2>5. CallStep(k, d)
    BY <1>6, <1>7, <2>3, <2>4 DEF CallStep
  <2> QED BY <1>6, <2>5, PlainStepKeeps
<1>8. CASE /\ n \in targets
           /\ call' = [call EXCEPT ![k] =
                         [c EXCEPT !.step = "push", !.next = n, !.todo = targets \ {n}]]
           /\ Await(<<"call", k, 0>>)
  <2>1. PICK e : e = [c EXCEPT !.todo = targets]
    OBVIOUS
  <2>2. /\ e \in CallType /\ e.recipients = owed /\ e.todo = targets
        /\ e.kind = b.kind /\ e.from = b.from /\ e.step = b.step /\ e.persistent = b.persistent
        /\ e.next = b.next /\ e.refs = b.refs /\ e.delivered = b.delivered
        /\ e.queued = b.queued /\ e.answer = b.answer
        /\ e.copies = b.copies /\ e.sent = b.sent /\ e.steady = b.steady
    BY <1>5, <2>1 DEF CallType
  <2>3. Live(e) = Live(b) /\ Queued(e) = Queued(b) /\ (Held(e) <=> Held(b))
    BY <2>2 DEF Live, Queued, Held
  <2>4. \A i \in Instances : e.copies[i] = 0 /\ e.sent[i] = 0
    BY <1>2, <2>2, Constants
  <2>5. Copied(e)
    BY <1>2, <2>2, <2>4 DEF Copied
  <2>6. Between(e)
    BY <1>3, <2>2, <2>3, <2>5 DEF Between
  <2>7. PICK d : d = [c EXCEPT !.step = "push", !.next = n, !.todo = targets \ {n}]
    OBVIOUS
  <2>8. d = [e EXCEPT !.step = "push", !.next = n, !.todo = @ \ {n}]
    BY <1>5, <2>1, <2>7 DEF CallType
  <2>9. d \in CallType /\ CallOK(d)
    BY <1>2, <1>8, <2>2, <2>6, <2>8, PushOK
  <2>10. d.kind = sort /\ d.step = "push" /\ d.steady = Attached
    BY <1>2, <2>2, <2>8 DEF CallType
  <2>11. SteadyOK(d)'
    <3>1. Attached' = Attached
      BY <1>6 DEF Attached
    <3> QED BY <2>10, <3>1 DEF SteadyOK
  <2>12. CallStep(k, d)
    BY <1>6, <1>8, <2>7, <2>9, <2>11 DEF CallStep, Await
  <2> QED BY <1>6, <2>12, PlainStepKeeps
<1> QED BY <1>1, <1>4, <1>7, <1>8 DEF SendTo

(* The three handlers that push for a role or an address.                   *)
LEMMA SendsKeep ==
  ASSUME DeliveryInv, NEW k \in Calls, NEW f \in Senders,
         RoleSend(k, f) \/ SendPartial(k, f) \/ \E t \in Instances : SendMessage(k, f, t)
  PROVE  DeliveryInv'
<1>1. CASE RoleSend(k, f)
  <2>1. PICK n \in Instances : SendTo(k, f, "role", ByRole \ {f}, declared \ {f}, n)
    BY <1>1 DEF RoleSend
  <2>2. ByRole \ {f} \in SUBSET Instances /\ declared \ {f} \in SUBSET (ByRole \ {f})
        /\ f \notin ByRole \ {f}
    BY DEF ByRole, DeliveryInv, DeliveryTypeOK, SocketInv
  <2> QED BY <1>1, <2>1, <2>2, SendToStep DEF RoleSend
<1>2. CASE SendPartial(k, f)
  <2> DEFINE to == { i \in Namesakes : ResolvesTo(i) }
  <2>1. PICK n \in Instances : SendTo(k, f, "send", to, to, n)
    BY <1>2 DEF SendPartial
  <2>2. to \in SUBSET Instances /\ to \in SUBSET to
    BY DeliveryAssumptions
  <2> HIDE DEF to
  <2> QED BY <1>2, <2>1, <2>2, SendToStep DEF SendPartial
<1>3. ASSUME NEW t \in Instances, SendMessage(k, f, t) PROVE DeliveryInv'
  <2>1. SendTo(k, f, "send", {t}, {t}, t) /\ UNCHANGED <<connections, subscribers>>
    BY <1>3 DEF SendMessage
  <2>2. {t} \in SUBSET Instances /\ {t} \in SUBSET {t}
    OBVIOUS
  <2> QED BY <2>1, <2>2, SendToStep
<1> QED BY <1>1, <1>2, <1>3

(* The next steps of a call that is under way.                             *)
LEMMA PushMessageKeeps ==
  ASSUME DeliveryInv, NEW k \in Calls, PushMessage(k)
  PROVE  DeliveryInv'
<1>1. PICK c : c = call[k]
  OBVIOUS
<1>2. /\ c \in CallType /\ CallOK(c) /\ c.step = "push" /\ SteadyOK(c)
  BY <1>1 DEF PushMessage, DeliveryInv, DeliveryTypeOK, CallsInv, SteadyInv, Idle
<1>3. PICK d : d = [c EXCEPT !.copies = [c.copies EXCEPT ![c.next] = @ + 1], !.step = "stats"]
  OBVIOUS
<1>4. d \in CallType /\ CallOK(d)
  BY <1>2, <1>3, PushedOK
<1>5. d.kind = c.kind /\ d.refs = c.refs /\ d.steady = c.steady /\ d.step = "stats"
  BY <1>2, <1>3 DEF CallType
<1>6. /\ UNCHANGED <<status, wsRef, role, pluginWs, ready, opened, declared, subscribers>>
      /\ waiting # << >> /\ waiting' = Append(Tail(waiting), <<"call", k, 0>>)
  BY DEF PushMessage, connections, Answered, AwaitAgain
<1>7. call' = [call EXCEPT ![k] = d]
  <2>1. call' = [call EXCEPT ![k].copies[call[k].next] = @ + 1, ![k].step = "stats"]
    BY DEF PushMessage
  <2>2. call \in [Calls -> CallType]
    BY DEF DeliveryInv, DeliveryTypeOK
  <2> QED BY <1>1, <1>3, <2>1, <2>2 DEF CallType
<1>8. SteadyOK(d)'
  <2>1. Attached' = Attached
    BY <1>6 DEF Attached
  <2> QED BY <1>2, <1>5, <1>6, <2>1 DEF SteadyOK
<1>9. CallStep(k, d)
  BY <1>4, <1>6, <1>7, <1>8 DEF CallStep
<1> QED BY <1>6, <1>9, PlainStepKeeps

(* Live delivery, then the next recipient or the answer.                    *)
LEMMA SendLiveKeeps ==
  ASSUME DeliveryInv, NEW k \in Calls, SendLive(k)
  PROVE  DeliveryInv'
<1>1. PICK b : b = call[k]
  OBVIOUS
<1>2. /\ b \in CallType /\ CallOK(b) /\ b.step = "stats" /\ b.kind # "publish" /\ SteadyOK(b)
  BY <1>1 DEF SendLive, DeliveryInv, DeliveryTypeOK, CallsInv, SteadyInv, Idle
<1>3. PICK n : n = b.next
  OBVIOUS
<1>4. PICK c : c = IF n \in Attached THEN Counted(Sent(b, n), TRUE) ELSE Counted(b, FALSE)
  OBVIOUS
<1>5. /\ Between(c) /\ c.kind = b.kind /\ c.todo = b.todo /\ c.answer = "none"
      /\ c.steady = b.steady /\ c.from = b.from
  <2>1. CASE n \in Attached
    BY <1>2, <1>3, <1>4, <2>1, SentOK
  <2>2. CASE n \notin Attached
    <3>1. n \notin b.steady
      BY <1>2, <2>2 DEF SteadyOK
    <3> QED BY <1>2, <1>3, <1>4, <2>2, <3>1, NotSentOK
  <2> QED BY <2>1, <2>2
<1>6. /\ UNCHANGED <<status, wsRef, role, pluginWs, ready, opened, declared, subscribers>>
      /\ waiting # << >>
  BY DEF SendLive, connections, Answered
<1>7. \/ /\ c.todo = {} /\ call' = [call EXCEPT ![k] = Done(c, "ok")] /\ waiting' = Tail(waiting)
      \/ \E m \in c.todo :
           /\ call' = [call EXCEPT ![k] = [c EXCEPT !.step = "push", !.next = m, !.todo = @ \ {m}]]
           /\ waiting' = Append(Tail(waiting), <<"call", k, 0>>)
  BY <1>1, <1>3, <1>4 DEF SendLive, Resolved, AwaitAgain
<1>8. CASE c.todo = {} /\ call' = [call EXCEPT ![k] = Done(c, "ok")] /\ waiting' = Tail(waiting)
  <2>1. PICK d : d = Done(c, "ok")
    OBVIOUS
  <2>2. d \in CallType /\ CallOK(d) /\ d.step = "done"
    BY <1>5, <1>8, <2>1, DoneOK, DoneFields DEF Between
  <2>3. CallStep(k, d)
    BY <1>6, <1>8, <2>1, <2>2 DEF CallStep
  <2> QED BY <1>6, <2>3, PlainStepKeeps
<1>9. ASSUME NEW m \in c.todo,
             call' = [call EXCEPT ![k] = [c EXCEPT !.step = "push", !.next = m, !.todo = @ \ {m}]],
             waiting' = Append(Tail(waiting), <<"call", k, 0>>)
      PROVE  DeliveryInv'
  <2>1. PICK d : d = [c EXCEPT !.step = "push", !.next = m, !.todo = @ \ {m}]
    OBVIOUS
  <2>2. c.kind \in {"role", "send"}
    BY <1>2, <1>5 DEF CallOK, Serving
  <2>3. d \in CallType /\ CallOK(d)
    BY <1>5, <2>1, <2>2, PushOK
  <2>4. d.kind = c.kind /\ d.steady = c.steady /\ d.step = "push"
    BY <1>5, <2>1 DEF CallType, Between
  <2>5. SteadyOK(d)'
    <3>1. Attached' = Attached
      BY <1>6 DEF Attached
    <3> QED BY <1>2, <1>5, <2>2, <2>4, <3>1 DEF SteadyOK
  <2>6. CallStep(k, d)
    BY <1>6, <1>9, <2>1, <2>3, <2>5 DEF CallStep
  <2> QED BY <1>6, <2>6, PlainStepKeeps
<1> QED BY <1>7, <1>8, <1>9

(* A topic's message: who is attached is online by the snapshot.            *)
LEMMA PublishKeeps ==
  ASSUME DeliveryInv, NEW k \in Calls, NEW f \in Senders, NEW p \in BOOLEAN, Publish(k, f, p)
  PROVE  DeliveryInv'
<1>1. PICK b : b = Made(f, "publish")
  OBVIOUS
<1>2. /\ b \in CallType /\ b.from = f /\ b.kind = "publish" /\ b.todo = {} /\ b.next = NoOne
      /\ b.answer = "none" /\ b.steady = Attached /\ b.copies = Zero /\ b.sent = Zero
      /\ b.recipients = {}
  BY <1>1, MadeFields
<1>3. Between(b)
  BY <1>1, MadeOK
<1>4. PICK r : r = GetOnlineWsRefs
  OBVIOUS
<1>5. /\ r \in [Instances -> 0..Sockets]
      /\ \A i \in Attached : r[i] = ready[i]
  <2>1. r \in [Instances -> 0..Sockets]
    BY <1>4, DeliveryAssumptions DEF GetOnlineWsRefs, DeliveryInv, DeliveryTypeOK
  <2>2. ASSUME NEW i \in Attached PROVE r[i] = ready[i]
    <3>1. i \in Instances /\ wsRef[i] # 0 /\ wsRef[i] = ready[i]
      BY DEF Attached
    <3>2. status[i] = "online"
      BY <3>1 DEF DeliveryInv, SocketInv
    <3> QED BY <1>4, <3>1, <3>2 DEF GetOnlineWsRefs
  <2> QED BY <2>1, <2>2
<1>6. PICK d : d = [b EXCEPT !.step = "members", !.persistent = p, !.refs = r]
  OBVIOUS
<1>7. /\ d \in CallType /\ d.step = "members" /\ d.refs = r
      /\ d.kind = b.kind /\ d.from = b.from /\ d.todo = b.todo /\ d.next = b.next
      /\ d.delivered = b.delivered /\ d.queued = b.queued /\ d.answer = b.answer
      /\ d.recipients = b.recipients /\ d.copies = b.copies /\ d.sent = b.sent
      /\ d.steady = b.steady
  BY <1>2, <1>5, <1>6 DEF CallType
<1>8. Live(d) = Live(b) /\ Queued(d) = Queued(b)
  BY <1>7 DEF Live, Queued
<1>9. Between(d)
  BY <1>2, <1>3, <1>7, <1>8 DEF Between, Copied
<1>10. CallOK(d)
  BY <1>2, <1>7, <1>9 DEF CallOK
<1>11. /\ UNCHANGED <<status, wsRef, role, pluginWs, ready, opened, declared, subscribers>>
       /\ call' = [call EXCEPT ![k] = d] /\ waiting' = Append(waiting, <<"call", k, 0>>)
  BY <1>1, <1>4, <1>6 DEF Publish, connections, Await
<1>12. SteadyOK(d)'
  <2>1. Attached' = Attached
    BY <1>11 DEF Attached
  <2> QED BY <1>2, <1>5, <1>7, <1>11, <2>1 DEF SteadyOK
<1>13. CallStep(k, d)
  BY <1>7, <1>10, <1>11, <1>12 DEF CallStep
<1> QED BY <1>11, <1>13, PlainStepKeeps

(* P are some of c's recipients still to do: who of them has kept its socket *)
(* is online.  All of them are passed, or one goes to its queue.           *)
Passes(k, c, P) ==
  /\ Between(c) /\ c.kind = "publish" /\ P \subseteq c.todo
  /\ P \cap c.steady \subseteq Online(k, P)
AllPassed(c, d) ==
  /\ Between(d) /\ d.todo = {} /\ d.kind = "publish" /\ d.next = c.next
  /\ d.answer = c.answer /\ d.steady = c.steady /\ d.refs = c.refs
NextPushed(c, d) ==
  /\ d \in CallType /\ CallOK(d)
  /\ d.kind = "publish" /\ d.refs = c.refs /\ d.steady = c.steady /\ d.step = "push"

LEMMA ServedRest ==
  ASSUME NEW k, NEW c, NEW P, Passes(k, c, P), P = c.todo, Held(c) => P = {}
  PROVE  AllPassed(c, Served(k, c, P))
<1>1. /\ Between(c) /\ c.kind = "publish" /\ P \subseteq c.todo
      /\ P \cap c.steady \subseteq Online(k, P)
  BY DEF Passes
<1>2. PICK d : d = Served(k, c, P)
  OBVIOUS
<1>3. Between(d)
  BY <1>1, <1>2, ServedOK
<1>4. PICK L : L = Online(k, P)
  OBVIOUS
<1>5. /\ d.todo = c.todo \ P /\ d.kind = c.kind /\ d.next = c.next /\ d.answer = c.answer
      /\ d.steady = c.steady /\ d.refs = c.refs
  BY <1>1, <1>2, <1>4, ServedFields
<1> QED BY <1>1, <1>2, <1>3, <1>5 DEF AllPassed

LEMMA ServedNext ==
  ASSUME NEW k, NEW c, NEW P, Passes(k, c, P), Held(c), c.answer = "none",
         NEW n \in c.todo, P = {n}
  PROVE  NextPushed(c, Pushing(Served(k, c, P), n))
<1>1. /\ Between(c) /\ c.kind = "publish"
      /\ P \cap c.steady \subseteq Online(k, P)
  BY DEF Passes
<1>2. PICK e : e = Served(k, c, P)
  OBVIOUS
<1>3. PICK d : d = Pushing(e, n)
  OBVIOUS
<1>4. /\ d \in CallType /\ CallOK(d)
      /\ d.kind = "publish" /\ d.refs = c.refs /\ d.steady = c.steady /\ d.step = "push"
  BY <1>1, <1>2, <1>3, ServedPush
<1> QED BY <1>2, <1>3, <1>4 DEF NextPushed

(* From one await of a topic's message to the next.                        *)
LEMMA ContinueKeeps ==
  ASSUME DeliveryInv, NEW k \in Calls, SteadyOK(call[k]), call[k].kind = "publish",
         NEW c, Between(c), c.kind = "publish", c.answer = "none",
         c.refs = call[k].refs, c.steady = call[k].steady, ~Held(c) => c.next = NoOne,
         Continue(k, c), waiting # << >>, UNCHANGED <<connections, subscribers>>
  PROVE  DeliveryInv'
<1>1. UNCHANGED <<status, wsRef, role, pluginWs, ready, opened, declared, subscribers>>
  BY DEF connections
<1>2. Attached' = Attached
  BY <1>1 DEF Attached
<1>3. c \in CallType /\ c.todo \subseteq Instances
  BY DEF Between, CallType
<1>4. \A P : P \cap c.steady \subseteq Online(k, P)
  BY DEF SteadyOK, Attached, Online, IsOnline
<1>5. PICK T : T = { j \in c.todo : Queues(c, IsOnline(k, j)) }
  OBVIOUS
<1>6. (Held(c) => T = c.todo) /\ (~Held(c) => T = {}) /\ T \subseteq c.todo
  BY <1>5 DEF Held, Queues
<1>7. PICK r : r = Served(k, c, c.todo)
  OBVIOUS
<1>8.   \/ /\ T = {} /\ Held(c)
           /\ call' = [call EXCEPT ![k] = Done(r, "ok")] /\ waiting' = Tail(waiting)
        \/ /\ T = {} /\ ~Held(c)
           /\ call' = [call EXCEPT ![k] = [r EXCEPT !.step = "counted"]]
           /\ waiting' = Append(Tail(waiting), <<"call", k, 0>>)
        \/ \E i \in T :
             /\ call' = [call EXCEPT ![k] = [Served(k, c, {i}) EXCEPT !.step = "push", !.next = i]]
             /\ waiting' = Append(Tail(waiting), <<"call", k, 0>>)
  BY <1>5, <1>7 DEF Continue, Resolved, AwaitAgain, Held
<1>9. ASSUME T = {} PROVE Between(r) /\ r.todo = {} /\ r.kind = "publish" /\ r.next = c.next
                          /\ r.answer = "none" /\ r.steady = c.steady /\ r.refs = c.refs
  <2>1. PICK P : P = c.todo
    OBVIOUS
  <2>2. Passes(k, c, P) /\ (Held(c) => P = {}) /\ r = Served(k, c, P)
    BY <1>4, <1>6, <1>7, <1>9, <2>1 DEF Passes
  <2>3. AllPassed(c, r)
    BY <2>1, <2>2, ServedRest
  <2> QED BY <2>3 DEF AllPassed
<1>10. CASE /\ T = {} /\ Held(c)
            /\ call' = [call EXCEPT ![k] = Done(r, "ok")] /\ waiting' = Tail(waiting)
  <2>1. PICK d : d = Done(r, "ok")
    OBVIOUS
  <2>2. d \in CallType /\ CallOK(d) /\ d.step = "done"
    BY <1>9, <1>10, <2>1, DoneOK, DoneFields DEF Between
  <2>3. CallStep(k, d)
    BY <1>1, <1>10, <2>1, <2>2 DEF CallStep
  <2> QED BY <1>1, <2>3, PlainStepKeeps
<1>11. CASE /\ T = {} /\ ~Held(c)
            /\ call' = [call EXCEPT ![k] = [r EXCEPT !.step = "counted"]]
            /\ waiting' = Append(Tail(waiting), <<"call", k, 0>>)
  <2>1. PICK d : d = [r EXCEPT !.step = "counted"]
    OBVIOUS
  <2>2. r \in CallType /\ Between(r) /\ r.todo = {} /\ r.next = NoOne /\ r.kind = "publish"
        /\ r.answer = "none" /\ r.steady = c.steady /\ r.refs = c.refs
    BY <1>9, <1>11 DEF Between
  <2>3. /\ d \in CallType /\ d.step = "counted"
        /\ d.kind = r.kind /\ d.from = r.from /\ d.persistent = r.persistent
        /\ d.todo = r.todo /\ d.next = r.next /\ d.refs = r.refs /\ d.delivered = r.delivered
        /\ d.queued = r.queued /\ d.answer = r.answer /\ d.recipients = r.recipients
        /\ d.copies = r.copies /\ d.sent = r.sent /\ d.steady = r.steady
    BY <2>1, <2>2 DEF CallType
  <2>4. Live(d) = Live(r) /\ Queued(d) = Queued(r) /\ (Held(d) <=> Held(r))
    BY <2>3 DEF Live, Queued, Held
  <2>5. Between(d)
    BY <2>2, <2>3, <2>4 DEF Between, Copied
  <2>6. CallOK(d)
    BY <2>2, <2>3, <2>5 DEF CallOK
  <2>7. SteadyOK(d)'
    BY <1>1, <1>2, <2>2, <2>3 DEF SteadyOK
  <2>8. CallStep(k, d)
    BY <1>1, <1>11, <2>1, <2>3, <2>6, <2>7 DEF CallStep
  <2> QED BY <1>1, <2>8, PlainStepKeeps
<1>12. ASSUME NEW i \in T,
              call' = [call EXCEPT ![k] = [Served(k, c, {i}) EXCEPT !.step = "push", !.next = i]],
              waiting' = Append(Tail(waiting), <<"call", k, 0>>)
       PROVE  DeliveryInv'
  <2>1. i \in c.todo /\ Held(c)
    BY <1>6
  <2>2. PICK P : P = {i}
    OBVIOUS
  <2>3. Passes(k, c, P)
    BY <1>4, <2>1, <2>2 DEF Passes
  <2>4. NextPushed(c, Pushing(Served(k, c, P), i))
    BY <2>1, <2>2, <2>3, ServedNext
  <2>5. PICK d : d = Pushing(Served(k, c, P), i)
    OBVIOUS
  <2>6. /\ d \in CallType /\ CallOK(d)
        /\ d.kind = "publish" /\ d.refs = c.refs /\ d.steady = c.steady /\ d.step = "push"
    BY <2>4, <2>5 DEF NextPushed
  <2>7. SteadyOK(d)'
    BY <1>1, <1>2, <2>6 DEF SteadyOK
  <2>8. CallStep(k, d)
    BY <1>1, <1>12, <2>2, <2>5, <2>6, <2>7 DEF CallStep, Pushing
  <2> QED BY <1>1, <2>8, PlainStepKeeps
<1> QED BY <1>8, <1>10, <1>11, <1>12

(* The members are read, or a copy has been queued.                         *)
LEMMA PublishGoesOn ==
  ASSUME DeliveryInv, NEW k \in Calls, PublishMembers(k) \/ PublishPushed(k)
  PROVE  DeliveryInv'
<1>1. PICK b : b = call[k]
  OBVIOUS
<1>2. b \in CallType /\ CallOK(b) /\ waiting # << >> /\ UNCHANGED <<connections, subscribers>>
  BY <1>1 DEF PublishMembers, PublishPushed, Answered, DeliveryInv, DeliveryTypeOK, CallsInv
<1>3. b.step \in {"members", "stats"} /\ SteadyOK(b)
  BY <1>1 DEF PublishMembers, PublishPushed, DeliveryInv, SteadyInv, Idle
<1>4. CASE PublishMembers(k)
  <2>1. PICK to : to = subscribers \ {b.from}
    OBVIOUS
  <2>2. PICK c : c = Owing(b, to)
    OBVIOUS
  <2>3. b.step = "members" /\ Continue(k, c)
    BY <1>1, <1>4, <2>1, <2>2 DEF PublishMembers, Owing
  <2>4. to \in SUBSET Instances /\ b.from \notin to
    BY <2>1 DEF DeliveryInv, DeliveryTypeOK
  <2>5. /\ Between(c) /\ c.kind = "publish" /\ c.answer = "none" /\ c.next = NoOne
        /\ c.refs = b.refs /\ c.steady = b.steady
    BY <1>2, <2>2, <2>3, <2>4, MembersOK
  <2>6. b.kind = "publish"
    BY <1>2, <2>3 DEF CallOK
  <2> QED BY <1>1, <1>2, <1>3, <2>3, <2>5, <2>6, ContinueKeeps
<1>5. CASE PublishPushed(k)
  <2>1. PICK c : c = [b EXCEPT !.queued = @ + 1]
    OBVIOUS
  <2>2. b.step = "stats" /\ b.kind = "publish" /\ Continue(k, c)
    BY <1>1, <1>5, <2>1 DEF PublishPushed
  <2>3. /\ Between(c) /\ c.kind = "publish" /\ c.answer = "none" /\ Held(c)
        /\ c.refs = b.refs /\ c.steady = b.steady
    BY <1>2, <2>1, <2>2, CountOK
  <2> QED BY <1>1, <1>2, <1>3, <2>2, <2>3, ContinueKeeps
<1> QED BY <1>4, <1>5

(* The counter of the day has been set: the answer.                         *)
LEMMA PublishEndsKeeps ==
  ASSUME DeliveryInv, NEW k \in Calls, PublishEnds(k)
  PROVE  DeliveryInv'
<1>1. PICK c : c = call[k]
  OBVIOUS
<1>2. c \in CallType /\ CallOK(c) /\ c.step = "counted"
  BY <1>1 DEF PublishEnds, DeliveryInv, DeliveryTypeOK, CallsInv
<1>3. Between(c) /\ c.todo = {}
  BY <1>2 DEF CallOK
<1>4. PICK d : d = Done(c, "ok")
  OBVIOUS
<1>5. d \in CallType /\ CallOK(d) /\ d.step = "done"
  BY <1>2, <1>3, <1>4, DoneOK, DoneFields
<1>6. /\ UNCHANGED <<status, wsRef, role, pluginWs, ready, opened, declared, subscribers>>
      /\ call' = [call EXCEPT ![k] = d] /\ waiting # << >> /\ waiting' = Tail(waiting)
  BY <1>1, <1>4 DEF PublishEnds, connections, Answered, Resolved
<1>7. CallStep(k, d)
  BY <1>5, <1>6 DEF CallStep
<1> QED BY <1>6, <1>7, PlainStepKeeps

-----------------------------------------------------------------------------
LEMMA InitDeliveryInv == InitDelivery => DeliveryInv
<1> SUFFICES ASSUME InitDelivery PROVE DeliveryInv
  OBVIOUS
<1>1. DeliveryTypeOK
  BY Constants, BlankType DEF InitDelivery, DeliveryTypeOK
<1>2. SocketInv
  BY Constants DEF InitDelivery, SocketInv
<1>3. OrderInv
  BY DEF InitDelivery, OrderInv, OpenInv, QuietInv, LastInv
<1>4. \A k \in Calls : Idle(k) /\ CallOK(call[k])
  BY DEF InitDelivery, Blank, Idle, CallOK
<1> QED BY <1>1, <1>2, <1>3, <1>4 DEF DeliveryInv, SteadyInv, CallsInv

(* Every step keeps the invariant.                                          *)
LEMMA NextDeliveryInv == DeliveryInv /\ [NextDelivery]_delivery => DeliveryInv'
<1> SUFFICES ASSUME DeliveryInv, [NextDelivery]_delivery PROVE DeliveryInv'
  OBVIOUS
<1>1. ASSUME NEW i \in Instances, OpenRegister(i) PROVE DeliveryInv'
  BY <1>1, OpenRegisterKeeps
<1>2. ASSUME NEW i \in Instances, NEW n \in 1..Sockets, OpenAttach(i, n) PROVE DeliveryInv'
  BY <1>2, OpenAttachKeeps
<1>3. ASSUME NEW i \in Instances, CloseMarkOffline(i) PROVE DeliveryInv'
  BY <1>3, CloseMarkOfflineKeeps
<1>4. ASSUME NEW i \in Instances, CloseDetach(i) PROVE DeliveryInv'
  BY <1>4, CloseDetachKeeps
<1>5. ASSUME NEW i \in Instances, Subscribe(i) \/ Unsubscribe(i) PROVE DeliveryInv'
  BY <1>5, MembersKeep
<1>6. ASSUME NEW k \in Calls, NEW f \in Senders, Limited(k, f) PROVE DeliveryInv'
  BY <1>6, LimitedKeeps
<1>7. ASSUME NEW k \in Calls, NEW f \in Senders, SetRole(k, f) PROVE DeliveryInv'
  BY <1>7, SetRoleKeeps
<1>8. ASSUME NEW k \in Calls, NEW f \in Senders, Broadcast(k, f) PROVE DeliveryInv'
  BY <1>8, BroadcastKeeps
<1>9. ASSUME NEW k \in Calls, NEW f \in Senders,
             RoleSend(k, f) \/ SendPartial(k, f) \/ \E t \in Instances : SendMessage(k, f, t)
      PROVE  DeliveryInv'
  BY <1>9, SendsKeep
<1>10. ASSUME NEW k \in Calls, NEW f \in Senders, NEW p \in BOOLEAN, Publish(k, f, p)
       PROVE  DeliveryInv'
  BY <1>10, PublishKeeps
<1>11. ASSUME NEW k \in Calls, RoleSet(k) PROVE DeliveryInv'
  BY <1>11, RoleSetKeeps
<1>12. ASSUME NEW k \in Calls, PushMessage(k) PROVE DeliveryInv'
  BY <1>12, PushMessageKeeps
<1>13. ASSUME NEW k \in Calls, SendLive(k) PROVE DeliveryInv'
  BY <1>13, SendLiveKeeps
<1>14. ASSUME NEW k \in Calls, PublishMembers(k) \/ PublishPushed(k) PROVE DeliveryInv'
  BY <1>14, PublishGoesOn
<1>15. ASSUME NEW k \in Calls, PublishEnds(k) PROVE DeliveryInv'
  BY <1>15, PublishEndsKeeps
<1>16. CASE UNCHANGED delivery
  BY <1>16 DEF delivery, connections, DeliveryInv, DeliveryTypeOK, SocketInv, OrderInv, OpenInv,
               QuietInv, LastInv, SteadyInv, SteadyOK, CallsInv, Attached, Idle
<1> QED BY <1>1, <1>2, <1>3, <1>4, <1>5, <1>6, <1>7, <1>8, <1>9, <1>10, <1>11, <1>12, <1>13,
           <1>14, <1>15, <1>16 DEF NextDelivery

LEMMA DeliveryCorrect == SpecDelivery => []DeliveryInv
BY InitDeliveryInv, NextDeliveryInv, PTL DEF SpecDelivery

(* The hub's delivery is well typed: registry, map of sockets, members and   *)
(* every call under way or answered.                                       *)
THEOREM DeliveryTypeSafety == SpecDelivery => []DeliveryTypeOK
<1>1. DeliveryInv => DeliveryTypeOK
  BY DEF DeliveryInv
<1> QED BY <1>1, DeliveryCorrect, PTL

(* A call that has answered has served all its recipients.                 *)
LEMMA AnsweredBetween ==
  ASSUME DeliveryInv, NEW k \in Calls, Answers(k)
  PROVE  Between(call[k]) /\ call[k].todo = {}
BY DEF DeliveryInv, CallsInv, CallOK, Answers

(* Whoever is owed the message of a call that has ended (broadcast.ts,      *)
(* ws-handler.ts, topic-manager.ts) has one copy in its queue and, if it    *)
(* kept its socket, one live copy; no one has two, and the sender none.    *)
THEOREM RecipientSafety == SpecDelivery => []EveryRecipientOnce
<1>1. DeliveryInv => EveryRecipientOnce
  <2> SUFFICES ASSUME DeliveryInv, NEW k \in Calls, Answers(k), NEW c, c = call[k]
               PROVE  /\ \A i \in c.recipients :
                           /\ c.kind \in {"role", "send"} \/ c.persistent => c.copies[i] = 1
                           /\ i \in c.steady => c.sent[i] = 1
                      /\ \A i \in Instances :
                           /\ c.copies[i] <= 1 /\ c.sent[i] <= 1
                           /\ i = c.from /\ c.kind # "send" => c.copies[i] = 0 /\ c.sent[i] = 0
    BY DEF EveryRecipientOnce
  <2>1. Between(c) /\ c.todo = {}
    BY AnsweredBetween
  <2>2. \A i \in c.recipients :
          (Held(c) => c.copies[i] = 1) /\ (i \in c.steady => c.sent[i] = 1)
    BY <2>1 DEF Between
  <2>3. c.kind \in {"role", "send"} \/ c.persistent => Held(c)
    BY DEF Held
  <2>4. \A i \in Instances :
          /\ c.copies[i] <= 1 /\ c.sent[i] <= 1
          /\ i = c.from /\ c.kind # "send" => c.copies[i] = 0 /\ c.sent[i] = 0
    BY <2>1 DEF Between, Copied
  <2> QED BY <2>2, <2>3, <2>4
<1> QED BY <1>1, DeliveryCorrect, PTL

(* The counts of the answer (delivered and queued) are those of the copies.  *)
THEOREM CountsSafety == SpecDelivery => []CountsAgree
<1>1. DeliveryInv => CountsAgree
  <2> SUFFICES ASSUME DeliveryInv, NEW k \in Calls, Answers(k), NEW c, c = call[k]
               PROVE  /\ c.delivered = Cardinality({ i \in Instances : c.sent[i] = 1 })
                      /\ c.queued = Cardinality({ i \in Instances : c.copies[i] = 1
                                                   /\ (c.kind = "publish" \/ c.sent[i] = 0) })
    BY DEF CountsAgree
  <2>1. Between(c)
    BY AnsweredBetween
  <2> QED BY <2>1 DEF Between, Live, Queued
<1> QED BY <1>1, DeliveryCorrect, PTL
=============================================================================
