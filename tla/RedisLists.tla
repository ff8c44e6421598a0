----------------------------- MODULE RedisLists -----------------------------
(***************************************************************************)
(* The Redis list commands the hub issues (hub/src/queue.ts), as operators *)
(* on sequences: index 1 is the head, index Len(s) the tail.  Redis runs   *)
(* one command at a time, so a command is one atomic step of the modules   *)
(* that use it.                                                            *)
(***************************************************************************)
EXTENDS Sequences, Integers

Elements(s) == { s[k] : k \in DOMAIN s }

(* No value occurs twice in s.                                             *)
Distinct(s) == \A j, k \in DOMAIN s : s[j] = s[k] => j = k

RPush(s, e) == Append(s, e)
LPush(s, e) == <<e>> \o s

(* LPOP; popping an empty list leaves it empty.                            *)
LPop(s) == IF s = << >> THEN s ELSE Tail(s)

(* The two halves of RPOPLPUSH: the tail of the source leaves it ...       *)
RTail(s) == s[Len(s)]
RPop(s)  == SubSeq(s, 1, Len(s) - 1)

RemoveIndex(s, k) == SubSeq(s, 1, k - 1) \o SubSeq(s, k + 1, Len(s))

(* LREM key 1 e.  The hub's lists hold a message at most once (MessageQueue!SingleCopy *)
(* and SessionMigration's own check), so the occurrence removed is the only one.       *)
LRem(s, e) ==
  IF e \in Elements(s) THEN RemoveIndex(s, CHOOSE k \in DOMAIN s : s[k] = e) ELSE s
=============================================================================
