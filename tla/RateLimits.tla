------------------------------ MODULE RateLimits ------------------------------
(***************************************************************************)
(* The frame limiter of the hub (hub/src/ws-handler.ts): a map from an     *)
(* instance id to a count and the start of its window.  A Map is walked in *)
(* the order of insertion, which since tells: the number of the frame that *)
(* made the entry.                                                         *)
(***************************************************************************)
EXTENDS Integers, FiniteSets, Sequences

CONSTANTS
  Frames,       \* WS_RATE_LIMIT_MAX
  Window,       \* WS_RATE_LIMIT_WINDOW_MS, in steps of the clock
  MapMax,       \* RATE_LIMIT_MAP_MAX
  Ids,          \* instance ids
  MaxArrivals,  \* bound: frames
  MaxClock      \* bound: the last step of the clock

ASSUME LimiterAssumptions ==
  /\ Frames \in Nat \ {0} /\ Window \in Nat \ {0} /\ MapMax \in Nat \ {0}
  /\ MaxArrivals \in Nat /\ MaxClock \in Nat

VARIABLES
  rateLimitMap,
  clock,
  log,          \* history: the frames that arrived, when, and whether they passed
  dropped       \* history: ids whose entry was dropped: evicted, or the socket closed

limiter == <<rateLimitMap, clock, log, dropped>>

Without(map, ids) == [id \in DOMAIN map \ ids |-> map[id]]
With(map, id, e)  == [i \in DOMAIN map \cup {id} |-> IF i = id THEN e ELSE map[i]]

Stale(e, now)        == now - e.start >= Window
EvictStale(map, now) == Without(map, { id \in DOMAIN map : Stale(map[id], now) })
Oldest(map) == CHOOSE id \in DOMAIN map : \A i \in DOMAIN map : map[id].since <= map[i].since

(* Room for one more entry: at the cap the stale ones go, else the oldest.  *)
Evicted(map, now) ==
  LET kept    == EvictStale(map, now)
      Full(m) == Cardinality(DOMAIN m) >= MapMax
  IN  IF ~Full(map) THEN map ELSE IF ~Full(kept) THEN kept ELSE Without(kept, {Oldest(kept)})

(* entry.count >= WS_RATE_LIMIT_MAX                                        *)
AtLimit_Late(e) == e.count > Frames
AtLimit(e)      == e.count >= Frames

(* checkRateLimit, for the n-th frame: the map it leaves, and whether the   *)
(* frame passes.  A new window of an entry leaves it in its place.         *)
CheckRateLimit(map, id, now, n) ==
  LET e == map[id]
  IN  IF id \notin DOMAIN map
      THEN [map    |-> With(Evicted(map, now), id, [count |-> 1, start |-> now, since |-> n]),
            passes |-> TRUE]
      ELSE IF Stale(e, now)
      THEN [map |-> With(map, id, [e EXCEPT !.count = 1, !.start = now]), passes |-> TRUE]
      ELSE IF AtLimit(e)
      THEN [map |-> map, passes |-> FALSE]
      ELSE [map |-> With(map, id, [e EXCEPT !.count = @ + 1]), passes |-> TRUE]

-----------------------------------------------------------------------------
InitLimiter ==
  rateLimitMap = [id \in {} |-> 0] /\ clock = Window /\ log = << >> /\ dropped = {}

ClockTicks ==
  /\ clock < MaxClock /\ clock' = clock + 1
  /\ UNCHANGED <<rateLimitMap, log, dropped>>

FrameArrives(id) ==
  LET result == CheckRateLimit(rateLimitMap, id, clock, Len(log) + 1) IN
  /\ Len(log) < MaxArrivals
  /\ rateLimitMap' = result.map
  /\ log' = Append(log, [id |-> id, at |-> clock, passes |-> result.passes])
  /\ dropped' = dropped \cup (DOMAIN rateLimitMap \ DOMAIN result.map)
  /\ UNCHANGED clock

(* onPluginClose: a connection of the id has closed.                       *)
ConnectionCloses(id) ==
  /\ id \in DOMAIN rateLimitMap
  /\ rateLimitMap' = Without(rateLimitMap, {id})
  /\ dropped' = dropped \cup {id}
  /\ UNCHANGED <<clock, log>>

NextLimiter ==
  \/ ClockTicks
  \/ \E id \in Ids : FrameArrives(id) \/ ConnectionCloses(id)

SpecLimiter == InitLimiter /\ [][NextLimiter]_limiter

-----------------------------------------------------------------------------
Passed(id, from, to) ==
  Cardinality({ n \in DOMAIN log : log[n].id = id /\ log[n].passes /\ log[n].at \in from..to })

(* Whatever arrives when: within the length of a window an id whose entry   *)
(* was not dropped passes fewer than twice the limit; a frame is turned    *)
(* away only when the limit has passed within the last window; and the map *)
(* stays within its cap.                                                   *)
LimiterBounds ==
  /\ \A id \in Ids \ dropped, t \in 0..clock : Passed(id, t, t + Window - 1) < 2 * Frames
  /\ \A n \in DOMAIN log :
       LET e == log[n] IN ~e.passes => Passed(e.id, e.at - Window + 1, e.at) >= Frames
  /\ Cardinality(DOMAIN rateLimitMap) <= MapMax

-----------------------------------------------------------------------------
(* What comments and documents say of the limiter, and the code does not   *)
(* do: ws-handler.ts speaks of a "sliding window duration" and of "max 60   *)
(* messages per 10 seconds", docs/ARCHITECTURE.md of "60 messages per      *)
(* 10-second sliding window".  No window of that length, wherever it       *)
(* begins, passes more than the limit.                                     *)
AtMostPerWindow ==
  \A id \in Ids \ dropped, t \in 0..clock : Passed(id, t, t + Window - 1) <= Frames
=============================================================================
