------------------------------ MODULE MCScheduler ------------------------------
EXTENDS Scheduler

(* A schedule that fires at most twice; an update may limit it to one fire, *)
(* or let it expire at minute 1.                                            *)
Twice == { [period |-> 1, max |-> 2, expires |-> None] }
=============================================================================
