--------------------------- MODULE PluginConnection ---------------------------
(***************************************************************************)
(* A plugin's side of the wire: HubConnection with its reconnection and    *)
(* its requests (plugin/src/connection.ts), the watcher of the session     *)
(* file that asks the hub for a new identity and replaces the connection   *)
(* (session-watcher.ts), the tools (tools.ts, index.ts), and of the hub    *)
(* what an answer, a refusal or silence to a frame does to the identity of *)
(* the socket it came by.                                                  *)
(*                                                                         *)
(* An instance id is known by its session: the other parts never change.   *)
(* Backoff delays, the 2 s poll and the 10 s timeout are "some time later".*)
(***************************************************************************)
EXTENDS Naturals

CONSTANTS
  Sessions,     \* contents of the session file, session ids
  Malformed,    \* session ids whose instance id the hub refuses (INSTANCE_ID_RE)
  Conns,        \* HubConnection objects the process may create
  Requests,     \* requests outstanding at a time
  MaxChanges,   \* changes of the session file
  MaxDrops,     \* sockets lost
  None

ASSUME PluginAssumptions ==
  /\ Malformed \subseteq Sessions /\ None \notin Sessions \cup Requests
  /\ MaxChanges \in Nat /\ MaxDrops \in Nat

VARIABLES
  watching,         \* CC2CC_SESSION_ID is not set: the watcher runs
  file, event,      \* session file; a change fs.watchFile has not reported yet
  session,          \* config.sessionId, config.instanceId, currentSessionId
  conn,             \* the connection that the watcher, index.ts and the tools use
  updating,         \* the watcher's request, while the watcher is "active"
  url,              \* session in the URL of a connection; None before it is created
  socket,           \* "none", "connecting", "open", or "retry": closed, timer set
  kind, via, asked, \* of a request: action, connection, new session
  promise, frame,   \* of a request: its promise, where its frame or answer is
  hubId,            \* ws.data.instanceId of a connection's last socket, at the hub
  home,             \* id whose queue holds what was sent to the plugin
  missed, unheard,  \* history: the file as it is was not followed; an update carried out unheard
  changes, drops

watcher  == <<watching, file, event, updating, missed, changes>>
identity == <<session, conn, url>>
calls    == <<kind, via, asked, promise, frame>>
hub      == <<hubId, home, unheard>>
vars     == <<watcher, identity, socket, calls, hub, drops>>

Unborn(c)       == url[c] = None
Free(r)         == promise[r] = "none" /\ frame[r] = "none"
Renames(r)      == kind[r] = "session_update" /\ asked[r] \notin Malformed

(* destroy: no timer, no socket, and its own close event sets no new timer. *)
Destroyed_Reconnects(c) == [socket EXCEPT ![c] = IF @ = "open" THEN "retry" ELSE "none"]
Destroyed(c)            == [socket EXCEPT ![c] = "none"]

(* The frames a socket carried: the hub may yet handle what it was sent,   *)
(* but nothing that it answers arrives.                                    *)
Abandoned(c) ==
  [r \in Requests |-> IF via[r] # c THEN frame[r]
                      ELSE IF frame[r] \in {"sent", "orphan"} THEN "orphan" ELSE "none"]

(* The decisions of the watcher when its request for session s is answered. *)
NewUrl_Old(s) == session
NewUrl(s)     == s
Current_Stays(s) == session
Current_File(s)  == file
Current(s)       == s

(* loadConfig: CC2CC_SESSION_ID, the session file, or a random id.  A file  *)
(* written or changed between pollSessionFile's last read and the first    *)
(* stat of fs.watchFile is no change to the watcher: it is not reported.   *)
Init ==
  /\ watching \in BOOLEAN
  /\ file \in Sessions \cup {None}
  /\ session \in Sessions
  /\ missed = (watching /\ file \notin {session, None})
  /\ event = FALSE
  /\ \E c \in Conns :
       /\ conn = c
       /\ url = [d \in Conns |-> IF d = c THEN session ELSE None]
       /\ socket = [d \in Conns |-> IF d = c THEN "connecting" ELSE "none"]
  /\ updating = None
  /\ kind = [r \in Requests |-> "none"] /\ via = [r \in Requests |-> None]
  /\ asked = [r \in Requests |-> None]
  /\ promise = [r \in Requests |-> "none"] /\ frame = [r \in Requests |-> "none"]
  /\ hubId = [c \in Conns |-> None] /\ home = session
  /\ unheard = FALSE
  /\ changes = 0 /\ drops = 0

-----------------------------------------------------------------------------
(* HubConnection.                                                          *)

(* request: a new promise; send is a no-op on a socket that is not open.    *)
Request(r, k, c, s, up) ==
  /\ Free(r)
  /\ kind' = [kind EXCEPT ![r] = k]
  /\ via' = [via EXCEPT ![r] = c]
  /\ asked' = [asked EXCEPT ![r] = s]
  /\ promise' = [promise EXCEPT ![r] = "waiting"]
  /\ frame' = [frame EXCEPT ![r] = IF up THEN "sent" ELSE "none"]

(* The hub accepts the socket under the id in its URL; the "open" handler  *)
(* asks for the project topic.                                             *)
SocketOpens(c, r) ==
  /\ socket[c] = "connecting" /\ url[c] \notin Malformed
  /\ socket' = [socket EXCEPT ![c] = "open"]
  /\ hubId' = [hubId EXCEPT ![c] = url[c]]
  /\ Request(r, "subscribe_topic", c, None, TRUE)
  /\ UNCHANGED <<watcher, identity, home, unheard, drops>>

(* "close": without a connection, or with a bad id the hub refuses each.    *)
ConnectFails(c) ==
  /\ socket[c] = "connecting"
  /\ socket' = [socket EXCEPT ![c] = "retry"]
  /\ UNCHANGED <<watcher, identity, calls, hub, drops>>

SocketCloses(c) ==
  /\ socket[c] = "open" /\ drops < MaxDrops
  /\ drops' = drops + 1
  /\ socket' = [socket EXCEPT ![c] = "retry"]
  /\ frame' = Abandoned(c)
  /\ unheard' = (unheard \/ \E r \in Requests : via[r] = c /\ Renames(r) /\ frame[r] = "answered")
  /\ UNCHANGED <<watcher, identity, kind, via, asked, promise, hubId, home>>

Reconnect(c) ==
  /\ socket[c] = "retry"
  /\ socket' = [socket EXCEPT ![c] = "connecting"]
  /\ UNCHANGED <<watcher, identity, calls, hub, drops>>

(* A tool sends its frame by the connection it finds; some ask over REST,   *)
(* with a timeout of their own, whatever the connection's state.           *)
RequestByTool(r) == Request(r, "tool", conn, None, socket[conn] = "open")
RequestByFetch(r) == Request(r, "fetch", None, None, FALSE)

ToolCall(r) ==
  /\ RequestByTool(r) \/ RequestByFetch(r)
  /\ UNCHANGED <<watcher, identity, socket, hub, drops>>

FetchEnds(r) ==
  /\ kind[r] = "fetch" /\ promise[r] = "waiting"
  /\ promise' = [promise EXCEPT ![r] = "none"]
  /\ UNCHANGED <<watcher, identity, socket, kind, via, asked, frame, hub, drops>>

(* An answer to a subscription or a tool settles its promise, in time or   *)
(* not; so does a frame that reports an error and carries the request's id. *)
AnswerArrives(r) ==
  /\ frame[r] = "answered" /\ ~(updating = r /\ promise[r] = "waiting")
  /\ promise' = [promise EXCEPT ![r] = "none"]
  /\ frame' = [frame EXCEPT ![r] = "none"]
  /\ UNCHANGED <<watcher, identity, socket, kind, via, asked, hub, drops>>

(* 10 s after the call of request, whether or not it could send; a timer of *)
(* the process.  The watcher logs the failure and keeps the old identity.    *)
Timeout(r) ==
  /\ promise[r] = "waiting"
  /\ promise' = [promise EXCEPT ![r] = "none"]
  /\ updating' = IF updating = r THEN None ELSE updating
  /\ missed' = (missed \/ updating = r)
  /\ unheard' = (unheard \/ (Renames(r) /\ frame[r] = "answered"))
  /\ UNCHANGED <<watching, file, event, changes, identity, socket, kind, via, asked, frame, hubId,
                 home, drops>>

-----------------------------------------------------------------------------
(* The session watcher.                                                    *)

(* The SessionStart hook writes the file, on /clear, perhaps with what it   *)
(* held; None: absent or empty.                                            *)
SessionFileChanges(s) ==
  /\ changes < MaxChanges
  /\ changes' = changes + 1
  /\ file' = s
  /\ event' = watching
  /\ UNCHANGED <<watching, updating, missed, identity, socket, calls, hub, drops>>

(* The handler, while an earlier run of it awaits its answer, returns.      *)
EventIgnored ==
  /\ event /\ updating # None
  /\ event' = FALSE
  /\ missed' = TRUE
  /\ UNCHANGED <<watching, file, updating, changes, identity, socket, calls, hub, drops>>

NothingNew ==
  /\ event /\ updating = None /\ file \in {session, None}
  /\ event' = FALSE
  /\ missed' = FALSE
  /\ UNCHANGED <<watching, file, updating, changes, identity, socket, calls, hub, drops>>

SessionUpdate(r) ==
  /\ event /\ updating = None /\ file \notin {session, None}
  /\ event' = FALSE
  /\ missed' = FALSE
  /\ updating' = r
  /\ Request(r, "session_update", conn, file, socket[conn] = "open")
  /\ UNCHANGED <<watching, file, changes, identity, socket, hub, drops>>

(* The answer, whatever it says: take the identity, replace the connection, *)
(* connect the new one and destroy the old one.                            *)
SessionUpdated(r, c) ==
  /\ updating = r /\ frame[r] = "answered" /\ Unborn(c)
  /\ promise' = [promise EXCEPT ![r] = "none"]
  /\ frame' = [Abandoned(conn) EXCEPT ![r] = "none"]
  /\ updating' = None
  /\ session' = Current(asked[r])
  /\ url' = [url EXCEPT ![c] = NewUrl(asked[r])]
  /\ conn' = c
  /\ socket' = [Destroyed(conn) EXCEPT ![c] = "connecting"]
  /\ UNCHANGED <<watching, file, event, missed, changes, kind, via, asked, hub, drops>>

-----------------------------------------------------------------------------
(* The hub.                                                                *)

(* A frame is carried out and answered, by the socket it came by: an update *)
(* moves the queue of the id the socket has.                               *)
HubAnswers(r) ==
  LET moves == hubId[via[r]] = home IN
  /\ frame[r] = "sent" /\ frame' = [frame EXCEPT ![r] = "answered"]
  /\ \/ ~Renames(r) /\ UNCHANGED hub
     \/ /\ Renames(r)
        /\ hubId' = [hubId EXCEPT ![via[r]] = asked[r]]
        /\ home' = IF moves THEN asked[r] ELSE home
        /\ unheard' = (promise[r] = "none" \/ (unheard /\ ~moves))
  /\ UNCHANGED <<watcher, identity, socket, kind, via, asked, promise, drops>>

(* One whose socket has closed goes on, under an id that the plugin may no  *)
(* longer have.                                                            *)
HubGoesOn(r) ==
  /\ frame[r] = "orphan" /\ frame' = [frame EXCEPT ![r] = "none"]
  /\ \/ ~Renames(r) /\ UNCHANGED <<home, unheard>>
     \/ Renames(r) /\ home' \in {home, asked[r]} /\ unheard' = TRUE
  /\ UNCHANGED <<watcher, identity, socket, kind, via, asked, promise, hubId, drops>>

(* A frame is lost with its socket, or refused without the request's id:   *)
(* by the frame limiter, the broadcast limiter, and for most bad payloads.  *)
HubSilent(r) ==
  /\ frame[r] \in {"sent", "orphan"}
  /\ frame' = [frame EXCEPT ![r] = "none"]
  /\ UNCHANGED <<watcher, identity, socket, kind, via, asked, promise, hub, drops>>

-----------------------------------------------------------------------------
Next ==
  \/ \E c \in Conns :
       \/ \E r \in Requests : SocketOpens(c, r) \/ SessionUpdated(r, c)
       \/ ConnectFails(c)
       \/ SocketCloses(c)
       \/ Reconnect(c)
  \/ \E r \in Requests :
       \/ ToolCall(r)
       \/ FetchEnds(r)
       \/ AnswerArrives(r)
       \/ Timeout(r)
       \/ SessionUpdate(r)
       \/ HubAnswers(r)
       \/ HubGoesOn(r)
       \/ HubSilent(r)
  \/ \E s \in Sessions \cup {None} : SessionFileChanges(s)
  \/ EventIgnored
  \/ NothingNew

Spec == Init /\ [][Next]_vars

-----------------------------------------------------------------------------
TypeOK ==
  /\ watching \in BOOLEAN /\ event \in BOOLEAN /\ missed \in BOOLEAN /\ unheard \in BOOLEAN
  /\ file \in Sessions \cup {None} /\ session \in Sessions /\ home \in Sessions
  /\ conn \in Conns /\ updating \in Requests \cup {None}
  /\ url \in [Conns -> Sessions \cup {None}] /\ hubId \in [Conns -> Sessions \cup {None}]
  /\ socket \in [Conns -> {"none", "connecting", "open", "retry"}]
  /\ kind \in [Requests -> {"none", "subscribe_topic", "tool", "fetch", "session_update"}]
  /\ via \in [Requests -> Conns \cup {None}] /\ asked \in [Requests -> Sessions \cup {None}]
  /\ promise \in [Requests -> {"none", "waiting"}]
  /\ frame \in [Requests -> {"none", "sent", "orphan", "answered"}]
  /\ changes \in 0..MaxChanges /\ drops \in 0..MaxDrops

(* After any number of session changes, drops and reconnections only the   *)
(* connection in use has a socket or a timer that will open one: destroy   *)
(* leaves nothing that could register the old identity again.              *)
OneLiveConnection == \A c \in Conns : socket[c] # "none" <=> c = conn

(* The plugin has the session of its file unless the last change fell      *)
(* before the watcher's first stat, was reported while the watcher was     *)
(* active, or the request that followed it failed: through any number of   *)
(* changes and failures, the next change reported to an idle watcher makes *)
(* up for what was missed.                                                 *)
SessionFollowsFile ==
  watching /\ ~event /\ updating = None /\ file # None => session = file \/ missed

(* Hub and plugin agree on the identity of a connected plugin, and its     *)
(* queue is the one it reads, unless the hub carried out an update after   *)
(* the plugin had given up on it or lost the socket of the answer, and no   *)
(* update that moved this queue has succeeded since.                       *)
HubKnowsIdentity ==
  socket[conn] = "open" /\ updating = None
    => (hubId[conn] = session /\ home = session) \/ unheard
=============================================================================
