--------------------------- MODULE MCConnections ---------------------------
EXTENDS Connections, TLC

(* Sockets are interchangeable, and so are instance ids.                   *)
Symmetric == Permutations(Sockets) \cup Permutations(Instances)
=============================================================================
