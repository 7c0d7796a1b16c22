-------------------------- MODULE MCConditionalWrite --------------------------
(* An instance of ConditionalWrite for TLC: a client twice, or once beside   *)
(* one of another make or one that the host refuses.                         *)
EXTENDS ConditionalWrite, TLC

CONSTANTS Again,    \* the client that may come twice
          Beside    \* the clients that come once, one at a time, beside it

MCQuotas ==
  {[c \in Client |-> IF c = Again THEN 2 ELSE 0]}
  \cup {[c \in Client |-> IF c \in {Again, other} THEN 1 ELSE 0] : other \in Beside}

(* A weak tag or a malformed PUT is refused whatever else it says: not every *)
(* combination of the two with If-None-Match is tried.                       *)
MCHeaders ==
  [weak : {FALSE}, ifNoneMatch : {"missing", "star", "other"}, wellFormed : {TRUE}]
  \cup [weak : {TRUE}, ifNoneMatch : {"missing", "star"}, wellFormed : {TRUE}]
  \cup [weak : {FALSE}, ifNoneMatch : {"missing"}, wellFormed : {FALSE}]

(* Slots are interchangeable; clients are not, since some are foreign or    *)
(* refused.                                                                 *)
SlotSymmetry == Permutations(Slot)
===============================================================================
