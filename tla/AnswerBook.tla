------------------------------ MODULE AnswerBook ------------------------------
(***************************************************************************)
(* What scheduling promises about one meeting, without messages, gates or   *)
(* calendars: for every instance there is the version the organizer last    *)
(* stated and, for every attendee, when the answer on record was given.     *)
(* Only a newer version touches what an organizer stated, and until there   *)
(* is one an attendee's answer is replaced only by a newer answer of the    *)
(* same attendee.                                                           *)
(***************************************************************************)
EXTENDS Precedence

CONSTANTS Instance,   \* the series and its single instances
          Attendee

VARIABLES version,    \* the Revision stated for each instance, or Nothing
          answered    \* when the answer on record was given, or Nothing

book == <<version, answered>>

TypeOK == /\ version \in [Instance -> Revision \cup {Nothing}]
          /\ answered \in [Instance -> [Attendee -> Stamp]]

Init == /\ version \in [Instance -> Revision \cup {Nothing}]
        /\ answered \in [Instance -> [Attendee -> Stamp]]

Advances(i) ==
  /\ version'[i] # Nothing
  /\ version[i] = Nothing \/ Supersedes(version'[i], version[i])

(* The organizer restates some instances, each in a newer version. *)
Update ==
  \A i \in Instance :
    Advances(i) \/ (version'[i] = version[i] /\ answered'[i] = answered[i])

(* One attendee answers for some instances, each answer newer than the one  *)
(* it replaces.                                                             *)
Answer(who) ==
  /\ version' = version
  /\ \A i \in Instance :
       /\ \A other \in Attendee \ {who} : answered'[i][other] = answered[i][other]
       /\ \/ answered'[i][who] = answered[i][who]
          \/ /\ answered'[i][who] # Nothing
             /\ answered[i][who] = Nothing \/ answered'[i][who] > answered[i][who]

Next == TypeOK' /\ (Update \/ \E who \in Attendee : Answer(who))

Spec == Init /\ [][Next]_book
===============================================================================
