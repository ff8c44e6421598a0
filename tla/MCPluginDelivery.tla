--------------------------- MODULE MCPluginDelivery ---------------------------
EXTENDS PluginConnection, Delivery, RateLimits, TLC

(* A behaviour is about one of the three modules, which share nothing; the *)
(* others stay in one of their initial states.                             *)
VARIABLE about

MCInit ==
  /\ Init /\ InitDelivery /\ InitLimiter
  /\ about \in {"plugin", "delivery", "limiter"}
  /\ about # "delivery" => subscribers = {}
  /\ about # "plugin" => /\ watching /\ file = session
                         /\ session = CHOOSE s \in Sessions : TRUE
                         /\ conn = CHOOSE c \in Conns : TRUE

MCNext ==
  \/ about = "plugin" /\ Next /\ UNCHANGED <<delivery, limiter, about>>
  \/ about = "delivery" /\ NextDelivery /\ UNCHANGED <<vars, limiter, about>>
  \/ about = "limiter" /\ NextLimiter /\ UNCHANGED <<vars, delivery, about>>

MCSpec == MCInit /\ [][MCNext]_<<vars, delivery, limiter, about>>

(* Instances are interchangeable when all share an address.                *)
Symmetric == Permutations(Instances)
=============================================================================
