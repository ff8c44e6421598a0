------------------------------- MODULE FeedViews -------------------------------
(***************************************************************************)
(* What the dashboard makes of the messages it is told of: the feed         *)
(* (ws-provider.tsx) and what its pages compute from it, that is the        *)
(* filters of the message feed, the edges of the graph, the conversation of *)
(* two instances with its threads, and the dots of the activity timeline.   *)
(* Also the state of two pages: the two instances picked, the node dragged. *)
(*                                                                         *)
(* What the pages show are functions of the feed.  A message is known by its *)
(* place in the history, which is also the time it was told; a reply is of   *)
(* type result, the others are tasks.                                       *)
(***************************************************************************)
EXTENDS Integers, Sequences, FiniteSets

CONSTANTS
  Peers,         \* instances
  Routes,        \* pairs of instances, from and to, that exchange messages
  MaxFeedSize,   \* MAX_FEED_SIZE
  Window,        \* events within the timeline's window
  MaxMessages,   \* bound: messages the dashboard is told of
  Nobody

ASSUME FeedAssumptions ==
  /\ Routes \subseteq Peers \X Peers /\ Nobody \notin Peers
  /\ MaxFeedSize \in Nat \ {0} /\ Window \in Nat /\ MaxMessages \in Nat

VARIABLES
  told,          \* history: the events received
  feed,
  nowMs,         \* ActivityTimeline: its clock, read when it last re-rendered
  picked,        \* ConversationsPage: the two instances
  graph          \* GraphPage: nodes, pinned nodes, the node dragged; history: buttons

pages == <<told, feed, nowMs, picked, graph>>

(* The events message:sent, broadcast:sent and topic:message, as the n-th.  *)
(* to is an instance, "broadcast" or "topic:x"; reply 0 is none.            *)
Senders == { r[1] : r \in Routes }
MessageEvents(n) ==
  [kind : {"message:sent"}, route : Routes, reply : 0..(n - 1)]
    \cup [kind : {"broadcast:sent", "topic:message"}, route : { <<p, Nobody>> : p \in Senders },
          reply : {0}]

-----------------------------------------------------------------------------
(* The feed.                                                               *)

(* A broadcast comes without its messageId: the view makes one up.          *)
Entry(e, n) ==
  [id          |-> IF e.kind = "broadcast:sent" THEN -n ELSE n,
   from        |-> e.route[1], to |-> e.route[2], reply |-> e.reply,
   type        |-> IF e.reply = 0 THEN "task" ELSE "result",
   isBroadcast |-> e.kind = "broadcast:sent", inTopic |-> e.kind = "topic:message",
   receivedAt  |-> n]

AppendFeed_First(list, entry) ==
  IF Len(list) < MaxFeedSize THEN Append(list, entry) ELSE list
AppendFeed(list, entry) ==
  LET next == Append(list, entry) IN
  IF Len(next) > MaxFeedSize THEN SubSeq(next, Len(next) - MaxFeedSize + 1, Len(next)) ELSE next

(* What a page shows is a set of entries, in the order of the feed: they    *)
(* are filtered and sorted into lists from its first to its last.          *)
Entries(list) == { list[n] : n \in DOMAIN list }

(* MessageFeed: instance, kind and type filter, each of which may be "all". *)
PassesKind(e, kind) ==
  CASE kind = "direct"    -> ~e.isBroadcast /\ ~e.inTopic
    [] kind = "broadcast" -> e.isBroadcast
    [] kind = "topic"     -> e.inTopic
    [] OTHER              -> TRUE

PassesType(e, type) ==
  CASE type = "all" -> TRUE [] type = "broadcast" -> e.isBroadcast
    [] OTHER -> e.type = type /\ ~e.isBroadcast

Filtered(entries, peer, kind, type) ==
  { e \in entries : /\ peer = Nobody \/ peer \in {e.from, e.to}
                    /\ PassesKind(e, kind) /\ PassesType(e, type) }

(* The graph: how many messages went from one instance to another.          *)
Counted_Topics(e) == ~e.isBroadcast
CountedOnEdge(e)  == ~e.isBroadcast /\ ~e.inTopic
OnEdge(entries, edge) == { e \in entries : CountedOnEdge(e) /\ <<e.from, e.to>> = edge }
EdgeCounts(entries) ==
  [edge \in { <<e.from, e.to>> : e \in { d \in entries : CountedOnEdge(d) } } |->
    Cardinality(OnEdge(entries, edge))]

Weight(counts, edge) == IF edge \in DOMAIN counts THEN counts[edge] ELSE 0
(* The sum of the counts, as the size of a set with that many of each edge. *)
Total(counts) == Cardinality(UNION { {edge} \X (1..counts[edge]) : edge \in DOMAIN counts })

(* ConversationsPage, ConversationView: what two instances exchanged, by    *)
(* the message it replies to, or its own.                                   *)
NonTopic(entries) == { e \in entries : ~e.inTopic }
Exchanged(entries, a, b) ==
  { e \in entries : \/ <<e.from, e.to>> \in {<<a, b>>, <<b, a>>}
                    \/ e.isBroadcast /\ e.from \in {a, b} }

RootId_Own(e) == e.id
RootId(e)     == IF e.reply # 0 THEN e.reply ELSE e.id
Threads(messages) ==
  [root \in { RootId(e) : e \in messages } |-> { e \in messages : RootId(e) = root }]

(* ActivityTimeline: an entry is a dot of its recipient or, if that is not  *)
(* listed, of its sender, for as long as the window lasts.  One of negative *)
(* age, received since the clock was read, is skipped.                      *)
DotTarget(e, listed) == IF ~e.isBroadcast /\ e.to \in listed THEN e.to ELSE e.from
Dots_Early(entries, listed, now) ==
  [p \in listed |-> { e \in entries : now - e.receivedAt <= Window /\ DotTarget(e, listed) = p }]
Dots(entries, listed, now) ==
  [p \in listed |->
    { e \in entries : now - e.receivedAt \in 0..Window /\ DotTarget(e, listed) = p }]

-----------------------------------------------------------------------------
(* handleInstanceSelect: a click on an instance, of the two picked.         *)
Picked(p, id) ==
  IF id = p.a THEN [p EXCEPT !.a = Nobody]
  ELSE IF id = p.b THEN [p EXCEPT !.b = Nobody]
  ELSE IF p.a = Nobody THEN [p EXCEPT !.a = id]
  ELSE [p EXCEPT !.b = id]

(* The graph's nodes follow the instances: a node that goes takes its pin   *)
(* along.  pressed, twice: history, a button is down, two were.             *)
Synced(g, ids) == [g EXCEPT !.nodes = ids, !.pinned = @ \cap ids]

MouseDown(g, node) ==
  LET h == [g EXCEPT !.twice = @ \/ g.pressed, !.pressed = TRUE] IN
  IF node \in g.nodes THEN [h EXCEPT !.pinned = @ \cup {node}, !.drag = node] ELSE h

(* onMouseUp, onMouseLeave.                                                *)
MouseUp_Forgets(g) == [g EXCEPT !.drag = Nobody, !.pressed = FALSE]
MouseUp(g) == [g EXCEPT !.pinned = @ \ {g.drag}, !.drag = Nobody, !.pressed = FALSE]

Gestures ==
  [kind : {"sync"}, ids : SUBSET Peers] \cup [kind : {"down"}, node : Peers \cup {Nobody}]
    \cup [kind : {"up"}]

AfterGesture(g, m) ==
  CASE m.kind = "sync" -> Synced(g, m.ids)
    [] m.kind = "down" -> MouseDown(g, m.node)
    [] m.kind = "up"   -> MouseUp(g)

NoNodes == [nodes |-> {}, pinned |-> {}, drag |-> Nobody, pressed |-> FALSE, twice |-> FALSE]

-----------------------------------------------------------------------------
InitFeed ==
  told = << >> /\ feed = << >> /\ nowMs = 0 /\ picked = [a |-> Nobody, b |-> Nobody] /\ graph = NoNodes

MessageTold(e) ==
  /\ Len(told) < MaxMessages
  /\ told' = Append(told, e)
  /\ feed' = AppendFeed(feed, Entry(e, Len(told) + 1))
  /\ UNCHANGED <<nowMs, picked, graph>>

(* setInterval, every 5 s: whatever the feed has received meanwhile.        *)
TimelineRefreshes ==
  /\ nowMs' = Len(told)
  /\ UNCHANGED <<told, feed, picked, graph>>

InstanceSelect(id) ==
  /\ picked' = Picked(picked, id)
  /\ UNCHANGED <<told, feed, nowMs, graph>>

Gesture(m) ==
  /\ graph' = AfterGesture(graph, m)
  /\ UNCHANGED <<told, feed, nowMs, picked>>

NextFeed ==
  \/ \E e \in MessageEvents(Len(told) + 1) : MessageTold(e)
  \/ TimelineRefreshes
  \/ \E p \in Peers : InstanceSelect(p)
  \/ \E m \in Gestures : Gesture(m)

SpecFeed == InitFeed /\ [][NextFeed]_pages

-----------------------------------------------------------------------------
(* The feed holds the latest messages in the order they were told.          *)
FeedIsLatest ==
  LET k == IF Len(told) < MaxFeedSize THEN Len(told) ELSE MaxFeedSize
      n == Len(told) - k
  IN  feed = [m \in 1..k |-> Entry(told[n + m], n + m)]

(* The kinds of the filter part the feed, and so do its types.              *)
FiltersPart ==
  \A e \in Entries(feed) :
    /\ Cardinality({ k \in {"direct", "broadcast", "topic"} : PassesKind(e, k) }) = 1
    /\ Cardinality({ t \in {"broadcast", "task", "result"} : PassesType(e, t) }) = 1

(* The pages agree on what two instances said to each other: the graph, the *)
(* conversation and the feed filtered show the same number of messages.     *)
PagesAgree ==
  LET counts    == EdgeCounts(Entries(feed))
      Number(es) == Cardinality(Filtered(es, Nobody, "direct", "all"))
  IN
  /\ Total(counts) = Number(Entries(feed))
  /\ \A a, b \in Peers : a # b =>
       Number(Exchanged(NonTopic(Entries(feed)), a, b))
         = Weight(counts, <<a, b>>) + Weight(counts, <<b, a>>)

(* A message of a conversation is in one thread, and a reply in that of the *)
(* message it replies to, if that is no reply itself and no broadcast.      *)
RepliesFollow(a, b) ==
  LET said    == Exchanged(NonTopic(Entries(feed)), a, b)
      threads == Threads(said)
      In(e)   == { r \in DOMAIN threads : e \in threads[r] }
  IN \A e \in said :
       /\ Cardinality(In(e)) = 1
       /\ \A d \in said : e.reply = d.id /\ d.reply = 0 => In(e) = In(d)

(* Of the entries that the clock has reached and the window still holds,    *)
(* each has one dot if one of its parties is listed, and of the others,     *)
(* those received since the last refresh included, none has any.            *)
OneDotEach(listed) ==
  \A e \in Entries(feed) :
    Cardinality({ p \in listed : e \in Dots(Entries(feed), listed, nowMs)[p] })
      = IF /\ e.receivedAt <= nowMs /\ nowMs <= e.receivedAt + Window
           /\ {e.from, e.to} \cap listed # {}
        THEN 1 ELSE 0

(* Whatever the dashboard is told and in what order, its pages show the     *)
(* same messages, each in one place, the latest of them; only the timeline  *)
(* lags, by what was received since it last read its clock.                 *)
ViewsAgree ==
  /\ FeedIsLatest /\ FiltersPart /\ PagesAgree
  /\ \A a, b \in Peers : a # b => RepliesFollow(a, b)
  /\ nowMs \in 0..Len(told) /\ \A listed \in SUBSET Peers : OneDotEach(listed)

(* Two different instances are picked; and when no button is down no node   *)
(* is held in its place, although nodes come and go while one is dragged,    *)
(* unless a second button was pressed on another node.                      *)
GesturesEnd ==
  /\ picked.a = picked.b => picked.a = Nobody
  /\ graph.pressed \/ graph.twice \/ graph.pinned = {}
=============================================================================
