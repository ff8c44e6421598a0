--------------------------- MODULE MCMessageQueue ---------------------------
EXTENDS MessageQueue, TLC

(* Messages are interchangeable, and so are requests.                      *)
Symmetric == Permutations(Messages) \cup Permutations(Pulls)

(* The cached depth and what computes it (reply, count), and the history   *)
(* received, enable no action; of the properties of the run that uses this *)
(* view only TypeOK has them, and it is proved for them all.               *)
WithoutDepth ==
  <<redis, presence, status, wsRef, sockets, to, push, pc, via, held, left, batch, admin, startup,
    handed, discarded, replayed, stranded>>
=============================================================================
