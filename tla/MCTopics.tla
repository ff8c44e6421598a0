------------------------------- MODULE MCTopics -------------------------------
EXTENDS Topics, TLC

(* Instances are interchangeable, and so are requests.                     *)
Symmetric == Permutations(Instances) \cup Permutations(Requests)
=============================================================================
