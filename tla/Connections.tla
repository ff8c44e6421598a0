------------------------------ MODULE Connections ------------------------------
(***************************************************************************)
(* Who is connected: the hub's registry, its broadcast map, the Redis      *)
(* presence keys and the instance list of a dashboard, under plugin        *)
(* sockets that open and close, session_update frames, the administrator's *)
(* removal of an instance and the re-hydration of a restarted hub          *)
(* (hub/src/ws-handler.ts, registry.ts, broadcast.ts, api.ts, index.ts).   *)
(*                                                                         *)
(* A run of awaits with no effect here (topics, queues) is any number of   *)
(* turns in the line of the Redis connection.                              *)
(***************************************************************************)
EXTENDS InOrder, FiniteSets

CONSTANTS
  Instances,    \* instance ids
  Sockets,      \* plugin WebSocket connections; each opens at most once
  Updates,      \* session_update frames
  Removals,     \* DELETE /api/instances requests
  None          \* "no socket", "no instance"

ASSUME ConnectionAssumptions == None \notin Instances \cup Sockets

VARIABLES
  status, wsRef,      \* registry entry of an id; "absent" when there is none
  pluginWs,           \* BroadcastManager._pluginWs
  presence,           \* Redis: ids that have an instance:{id} key
  sock, instanceId,   \* socket state; ws.data.instanceId
  opening, openedAs,  \* onPluginOpen: program counter, the id it captured
  closing, closedAs,  \* onPluginClose: likewise
  updating, via, oldId, newId,   \* handleSessionUpdate: program counter, socket, ids
  removing, target,   \* DELETE handler: program counter, id
  toScan,             \* ids the startup scan has still to read
  shown               \* ws-provider: the instance list of a dashboard

registry  == <<status, wsRef>>
sockets   == <<sock, instanceId>>
opens     == <<opening, openedAs>>
closes    == <<closing, closedAs>>
updates   == <<updating, via, oldId, newId>>
removals  == <<removing, target>>
vars      == <<waiting, registry, pluginWs, presence, sockets, opens, closes, updates, removals,
               toScan, shown>>

Handlers == { <<"open", s>> : s \in Sockets } \cup { <<"close", s>> : s \in Sockets }
              \cup { <<"update", u>> : u \in Updates } \cup { <<"remove", r>> : r \in Removals }
              \cup { <<"scan", i>> : i \in Instances }

Registered(i) == status[i] # "absent"

(* registry.register up to its await: a new entry, without a socket.       *)
Register(i) == status' = [status EXCEPT ![i] = "online"] /\ wsRef' = [wsRef EXCEPT ![i] = None]

(* setWsRef(i, s): ignored for an id without an entry.                      *)
Referring_Id(i, s) == IF Registered(i) THEN [wsRef EXCEPT ![i] = i] ELSE wsRef
Referring(i, s)    == IF Registered(i) THEN [wsRef EXCEPT ![i] = s] ELSE wsRef

(* addPluginWs, removePluginWs.                                            *)
Listed_Not(i, s) == pluginWs
Listed(i, s)     == [pluginWs EXCEPT ![i] = s]
Unlisted(i)      == [pluginWs EXCEPT ![i] = None]

(* markOffline, for an id with an entry.                                   *)
MarkedOffline_Not(i) == status
MarkedOffline(i)     == [status EXCEPT ![i] = "offline"]

(* What the events do to a dashboard's list.                               *)
LeftShown(i)         == IF shown[i] = "absent" THEN shown ELSE [shown EXCEPT ![i] = "offline"]
JoinedShown_Not(i)   == shown
JoinedShown(i)       == [shown EXCEPT ![i] = "online"]
SessionShown(i, j)   == [shown EXCEPT ![i] = "absent", ![j] = "online"]

(* deregister deletes the entry, then the presence key.                    *)
Deregistered_Key(i)   == presence
Deregistered(i)       == presence \ {i}

(* The hub has just started: Redis may know instances from before.         *)
Init ==
  /\ waiting = << >>
  /\ status = [i \in Instances |-> "absent"]
  /\ wsRef = [i \in Instances |-> None]
  /\ pluginWs = [i \in Instances |-> None]
  /\ presence \in SUBSET Instances
  /\ sock = [s \in Sockets |-> "free"]
  /\ instanceId = [s \in Sockets |-> None]
  /\ opening = [s \in Sockets |-> "no"] /\ openedAs = [s \in Sockets |-> None]
  /\ closing = [s \in Sockets |-> "no"] /\ closedAs = [s \in Sockets |-> None]
  /\ updating = [u \in Updates |-> "no"] /\ via = [u \in Updates |-> None]
  /\ oldId = [u \in Updates |-> None] /\ newId = [u \in Updates |-> None]
  /\ removing = [r \in Removals |-> "no"] /\ target = [r \in Removals |-> None]
  /\ toScan = presence
  /\ shown = [i \in Instances |-> "absent"]

-----------------------------------------------------------------------------
(* onPluginOpen.                                                           *)

OpenRegister(s, i) ==
  /\ sock[s] = "free"
  /\ sock' = [sock EXCEPT ![s] = "open"]
  /\ instanceId' = [instanceId EXCEPT ![s] = i]
  /\ openedAs' = [openedAs EXCEPT ![s] = i]
  /\ opening' = [opening EXCEPT ![s] = "register"]
  /\ Register(i)
  /\ Await(<<"open", s>>)
  /\ UNCHANGED <<pluginWs, presence, closes, updates, removals, toScan, shown>>

(* The presence key is set: attach the socket, go on to the topics.        *)
OpenAttach(s) ==
  LET i == openedAs[s] IN
  /\ Answered(<<"open", s>>) /\ opening[s] = "register"
  /\ presence' = presence \cup {i}
  /\ wsRef' = Referring(i, s)
  /\ pluginWs' = Listed(i, s)
  /\ opening' = [opening EXCEPT ![s] = "topics"]
  /\ AwaitAgain(<<"open", s>>)
  /\ UNCHANGED <<status, sockets, openedAs, closes, updates, removals, toScan, shown>>

(* The awaits of the topic manager; after the last, instance:joined.       *)
OpenTopics(s) ==
  /\ Answered(<<"open", s>>) /\ opening[s] = "topics"
  /\ \/ AwaitAgain(<<"open", s>>) /\ UNCHANGED <<opening, shown>>
     \/ /\ Resolved
        /\ opening' = [opening EXCEPT ![s] = "done"]
        /\ shown' = JoinedShown(openedAs[s])
  /\ UNCHANGED <<registry, pluginWs, presence, sockets, openedAs, closes, updates, removals, toScan>>

-----------------------------------------------------------------------------
(* The peer is gone and the hub has not noticed.                           *)
PeerDies(s) ==
  /\ sock[s] = "open"
  /\ sock' = [sock EXCEPT ![s] = "dead"]
  /\ UNCHANGED <<waiting, registry, pluginWs, presence, instanceId, opens, closes, updates, removals,
                 toScan, shown>>

(* onPluginClose for the id the socket has by now.  Without an entry there  *)
(* is nothing to await.                                                    *)
CloseMarkOffline(s) ==
  LET i == instanceId[s] IN
  /\ sock[s] \in {"open", "dead"}
  /\ sock' = [sock EXCEPT ![s] = "closed"]
  /\ closedAs' = [closedAs EXCEPT ![s] = i]
  /\ \/ /\ Registered(i)
        /\ status' = MarkedOffline(i)
        /\ closing' = [closing EXCEPT ![s] = "expire"]
        /\ Await(<<"close", s>>)
        /\ UNCHANGED <<pluginWs, shown>>
     \/ /\ ~Registered(i)
        /\ pluginWs' = Unlisted(i)
        /\ shown' = LeftShown(i)
        /\ closing' = [closing EXCEPT ![s] = "done"]
        /\ UNCHANGED <<waiting, status>>
  /\ UNCHANGED <<wsRef, presence, instanceId, opens, updates, removals, toScan>>

(* The rest: whatever socket the id now refers to is forgotten.            *)
CloseDetach(s) ==
  LET i == closedAs[s] IN
  /\ Answered(<<"close", s>>)
  /\ Resolved
  /\ closing' = [closing EXCEPT ![s] = "done"]
  /\ wsRef' = Referring(i, None)
  /\ pluginWs' = Unlisted(i)
  /\ shown' = LeftShown(i)
  /\ UNCHANGED <<status, presence, sockets, opens, closedAs, updates, removals, toScan>>

-----------------------------------------------------------------------------
(* handleSessionUpdate: a frame of socket s asks for the identity j.       *)

SessionUpdate(u, s, j) ==
  /\ updating[u] = "no" /\ sock[s] = "open"
  /\ via' = [via EXCEPT ![u] = s]
  /\ oldId' = [oldId EXCEPT ![u] = instanceId[s]]
  /\ newId' = [newId EXCEPT ![u] = j]
  /\ updating' = [updating EXCEPT ![u] = "migrate"]
  /\ Await(<<"update", u>>)
  /\ UNCHANGED <<registry, pluginWs, presence, sockets, opens, closes, removals, toScan, shown>>

(* The awaits of migrateQueue; after the last, register the new identity.  *)
UpdateRegister(u) ==
  /\ Answered(<<"update", u>>) /\ updating[u] = "migrate"
  /\ \/ UNCHANGED <<updating, registry>>
     \/ updating' = [updating EXCEPT ![u] = "register"] /\ Register(newId[u])
  /\ AwaitAgain(<<"update", u>>)
  /\ UNCHANGED <<pluginWs, presence, sockets, opens, closes, via, oldId, newId, removals, toScan,
                 shown>>

(* Attach the socket under its new id, and mark the old one offline.       *)
UpdateAttach(u) ==
  LET i == oldId[u]
      j == newId[u]
      s == via[u]
      attached == Listed(j, s)
  IN /\ Answered(<<"update", u>>) /\ updating[u] = "register"
     /\ presence' = presence \cup {j}
     /\ instanceId' = [instanceId EXCEPT ![s] = j]
     /\ wsRef' = Referring(j, s)
     /\ \/ /\ Registered(i)
           /\ status' = MarkedOffline(i)
           /\ pluginWs' = attached
           /\ updating' = [updating EXCEPT ![u] = "offline"]
           /\ AwaitAgain(<<"update", u>>)
           /\ UNCHANGED shown
        \/ /\ ~Registered(i)
           /\ pluginWs' = [attached EXCEPT ![i] = None]
           /\ shown' = SessionShown(i, j)
           /\ updating' = [updating EXCEPT ![u] = "done"]
           /\ Resolved
           /\ UNCHANGED status
     /\ UNCHANGED <<sock, opens, closes, via, oldId, newId, removals, toScan>>

(* Forget the old id and tell the dashboards; the topics follow.           *)
UpdateDetach(u) ==
  LET i == oldId[u] IN
  /\ Answered(<<"update", u>>) /\ updating[u] = "offline"
  /\ Resolved
  /\ updating' = [updating EXCEPT ![u] = "done"]
  /\ wsRef' = Referring(i, None)
  /\ pluginWs' = Unlisted(i)
  /\ shown' = SessionShown(i, newId[u])
  /\ UNCHANGED <<status, presence, sockets, opens, closes, via, oldId, newId, removals, toScan>>

-----------------------------------------------------------------------------
(* DELETE /api/instances/:id, past the check that the instance is known    *)
(* and not online.                                                         *)
Remove(r, i) ==
  /\ removing[r] = "no" /\ status[i] = "offline"
  /\ target' = [target EXCEPT ![r] = i]
  /\ removing' = [removing EXCEPT ![r] = "unsubscribe"]
  /\ Await(<<"remove", r>>)
  /\ UNCHANGED <<registry, pluginWs, presence, sockets, opens, closes, updates, toScan, shown>>

(* The awaits of the topic manager and flushQueue; then deregister.        *)
RemoveDeregister(r) ==
  LET i == target[r] IN
  /\ Answered(<<"remove", r>>) /\ removing[r] = "unsubscribe"
  /\ \/ UNCHANGED <<removing, registry>>
     \/ /\ removing' = [removing EXCEPT ![r] = "del"]
        /\ status' = [status EXCEPT ![i] = "absent"]
        /\ wsRef' = [wsRef EXCEPT ![i] = None]
  /\ AwaitAgain(<<"remove", r>>)
  /\ UNCHANGED <<pluginWs, presence, sockets, opens, closes, updates, target, toScan, shown>>

(* The presence key is deleted; instance:removed.                          *)
RemoveDone(r) ==
  LET i == target[r] IN
  /\ Answered(<<"remove", r>>) /\ removing[r] = "del"
  /\ Resolved
  /\ removing' = [removing EXCEPT ![r] = "done"]
  /\ presence' = Deregistered(i)
  /\ shown' = [shown EXCEPT ![i] = "absent"]
  /\ UNCHANGED <<registry, pluginWs, sockets, opens, closes, updates, target, toScan>>

-----------------------------------------------------------------------------
(* The startup scan reads one key at a time, while connections come in.    *)
ScanGet(i) ==
  /\ i \in toScan /\ \A j \in Instances, k \in DOMAIN waiting : waiting[k] # <<"scan", j>>
  /\ Await(<<"scan", i>>)
  /\ UNCHANGED <<registry, pluginWs, presence, sockets, opens, closes, updates, removals, toScan,
                 shown>>

HydrateOffline(i) ==
  /\ Answered(<<"scan", i>>)
  /\ Resolved
  /\ toScan' = toScan \ {i}
  /\ status' = IF i \in presence /\ ~Registered(i) THEN [status EXCEPT ![i] = "offline"] ELSE status
  /\ UNCHANGED <<wsRef, pluginWs, presence, sockets, opens, closes, updates, removals, shown>>

-----------------------------------------------------------------------------
Next ==
  \/ \E s \in Sockets :
       \/ \E i \in Instances : OpenRegister(s, i)
       \/ OpenAttach(s)
       \/ OpenTopics(s)
       \/ PeerDies(s)
       \/ CloseMarkOffline(s)
       \/ CloseDetach(s)
  \/ \E u \in Updates :
       \/ \E s \in Sockets, j \in Instances : SessionUpdate(u, s, j)
       \/ UpdateRegister(u)
       \/ UpdateAttach(u)
       \/ UpdateDetach(u)
  \/ \E r \in Removals :
       \/ \E i \in Instances : Remove(r, i)
       \/ RemoveDeregister(r)
       \/ RemoveDone(r)
  \/ \E i \in Instances : ScanGet(i) \/ HydrateOffline(i)

Spec == Init /\ [][Next]_vars

-----------------------------------------------------------------------------
TypeOK ==
  /\ waiting \in Seq(Handlers)
  /\ status \in [Instances -> {"absent", "offline", "online"}]
  /\ wsRef \in [Instances -> Sockets \cup {None}] /\ pluginWs \in [Instances -> Sockets \cup {None}]
  /\ presence \subseteq Instances /\ toScan \subseteq Instances
  /\ sock \in [Sockets -> {"free", "open", "dead", "closed"}]
  /\ instanceId \in [Sockets -> Instances \cup {None}]
  /\ opening \in [Sockets -> {"no", "register", "topics", "done"}]
  /\ openedAs \in [Sockets -> Instances \cup {None}]
  /\ closing \in [Sockets -> {"no", "expire", "done"}]
  /\ closedAs \in [Sockets -> Instances \cup {None}]
  /\ updating \in [Updates -> {"no", "migrate", "register", "offline", "done"}]
  /\ via \in [Updates -> Sockets \cup {None}]
  /\ oldId \in [Updates -> Instances \cup {None}] /\ newId \in [Updates -> Instances \cup {None}]
  /\ removing \in [Removals -> {"no", "unsubscribe", "del", "done"}]
  /\ target \in [Removals -> Instances \cup {None}]
  /\ shown \in [Instances -> {"absent", "offline", "online"}]

(* When every answered command has been acted on, an online instance has a  *)
(* socket to deliver to, and an instance with a socket is online, unless    *)
(* it was removed while it reconnected.                                    *)
StatusMatchesRef(i) ==
  /\ status[i] = "online" => wsRef[i] # None
  /\ wsRef[i] # None => status[i] = "online" \/ \E r \in Removals : target[r] = i

(* The registry and the broadcast manager name the same socket: what direct *)
(* messages reach, broadcasts reach too.                                   *)
RefMatchesBroadcast(i) == wsRef[i] # None => pluginWs[i] = wsRef[i]

(* Redis and the registry agree on who exists: a restart would re-hydrate   *)
(* every online instance, and nobody the registry does not know.           *)
PresenceMatchesRegistry(i) ==
  (status[i] = "online" => i \in presence) /\ (i \in presence => Registered(i))

(* The three records of who is connected, kept by code that awaits between  *)
(* its changes of one and of another, agree whenever nothing is under way.  *)
RecordsAgree ==
  Rest => \A i \in Instances :
            /\ StatusMatchesRef(i) /\ RefMatchesBroadcast(i)
            /\ toScan = {} => PresenceMatchesRegistry(i)

(* A dashboard that has been connected all along shows an online instance  *)
(* as online: no late event hides it.                                      *)
OnlineIsShown == Rest => \A i \in Instances : status[i] = "online" => shown[i] = "online"

(* docs/REST_API.md: status is the "Current connection status".            *)
ConnectedIsOnline ==
  Rest => \A s \in Sockets : sock[s] = "open" => status[instanceId[s]] = "online"
=============================================================================
