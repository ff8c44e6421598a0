---------------------------- MODULE MCDashboardView ----------------------------
EXTENDS DashboardView, FeedViews, TLC

(* A behaviour is about the live view or about one of the pages: they share *)
(* nothing that their properties speak of.                                 *)
VARIABLE about

MCInit ==
  /\ Init /\ InitFeed
  /\ about \in {"view", "feed", "picker", "graph"} /\ (about # "view" => part = "tasks")
MCNext ==
  \/ about = "view" /\ Next /\ UNCHANGED <<pages, about>>
  \/ about = "feed" /\ (TimelineRefreshes \/ \E e \in MessageEvents(Len(told) + 1) : MessageTold(e))
       /\ UNCHANGED <<vars, about>>
  \/ about = "picker" /\ (\E p \in Peers : InstanceSelect(p)) /\ UNCHANGED <<vars, about>>
  \/ about = "graph" /\ (\E m \in Gestures : Gesture(m)) /\ UNCHANGED <<vars, about>>
MCSpec == MCInit /\ [][MCNext]_<<vars, pages, about>>

Symmetric == Permutations(Instances)

(* A third instance takes part, so that a pair's messages are not all.      *)
SomeRoutes == { <<p, q>> \in Peers \X Peers : p # q /\ (p # "c" /\ ~(p = "b" /\ q = "c")) }
=============================================================================
