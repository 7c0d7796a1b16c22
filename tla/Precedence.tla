------------------------------ MODULE Precedence ------------------------------
(***************************************************************************)
(* How internal/itip/identity.rs orders two versions of one component: by   *)
(* SEQUENCE, then by DTSTAMP, and a DTSTAMP nobody can read loses the tie.  *)
(***************************************************************************)
EXTENDS Integers

CONSTANT Nothing   \* Rust's None

Stamp == Nat \cup {Nothing}

(* Revision: the SEQUENCE and the DTSTAMP a component states. *)
Revision == [sequence : Nat, dtstamp : Stamp]

ASSUME NothingAssumption == Nothing \notin Int /\ Nothing \notin Revision

Supersedes(mine, held) ==
  \/ mine.sequence > held.sequence
  \/ /\ mine.sequence = held.sequence
     /\ mine.dtstamp # Nothing
     /\ \/ held.dtstamp = Nothing
        \/ held.dtstamp # Nothing /\ mine.dtstamp > held.dtstamp

IsStaleAgainst(mine, held) == Supersedes(held, mine)
===============================================================================
