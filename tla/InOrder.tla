-------------------------------- MODULE InOrder --------------------------------
(***************************************************************************)
(* The hub's one Redis connection (hub/src/redis.ts), which answers        *)
(* commands in the order they were issued: a handler that awaits a command *)
(* resumes when the commands issued before it have been answered.  A       *)
(* command takes effect in the step in which its handler resumes.          *)
(***************************************************************************)
EXTENDS Sequences

VARIABLE waiting    \* handlers in the order of the commands they await

(* The command h awaits is answered next.                                  *)
Answered(h)   == waiting # << >> /\ Head(waiting) = h
Resolved      == waiting' = Tail(waiting)
AwaitAgain(h) == waiting' = Append(Tail(waiting), h)
Await(h)      == waiting' = Append(waiting, h)

(* No command is unanswered.                                               *)
Rest == waiting = << >>
=============================================================================
