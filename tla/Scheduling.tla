------------------------------ MODULE Scheduling ------------------------------
(***************************************************************************)
(* One meeting in a calendar that a host keeps, and the scheduling messages *)
(* that reach it: Message::review, Review::authorize and                    *)
(* AuthorizedChange::apply of scheduling.rs.  The mail carries a message    *)
(* late, twice, out of order or never, so each step hands any message of    *)
(* the exchange to the calendar as it stands.                               *)
(***************************************************************************)
EXTENDS Itip

CONSTANTS Exchanges, \* the sets of messages that may be on their way
          Calendars  \* the calendars the host may start with

VARIABLES mail,      \* the messages that are
          calendar   \* the components of the meeting, in order

vars == <<mail, calendar>>

ASSUME MailAssumption == /\ \A exchange \in Exchanges : exchange \subseteq Message
                         /\ Calendars \subseteq Seq(Component)

(***************************************************************************)
(* Review.                                                                 *)
(***************************************************************************)

(* A reviewed change: write a held component, clone the master for one      *)
(* instance and write that, or take the payload as it is.                   *)
(* Mutant: the change of one instance is written to the master. *)
ReviewedChangeInPlace(kind, item, transition) ==
  [kind |-> IF kind = "detach" THEN "existing" ELSE kind, item |-> item, transition |-> transition]

ReviewedChange(kind, item, transition) ==
  [kind |-> kind, item |-> item, transition |-> transition]

ReviewedChanges ==
  [kind : {"existing", "detach", "create"}, item : Nat, transition : Transition]

(* Rust's None is nothing that a review or a write comes to.                *)
ASSUME RefusalAssumption ==
  Nothing \notin Transition \cup ReviewedChanges \cup Seq(ReviewedChanges) \cup Seq(Component)

Masters(held) == {item \in DOMAIN held : IsMaster(held[item])}
MasterOf(held) == CHOOSE item \in Masters(held) : \A other \in Masters(held) : item <= other

Matches(held, payload, answer) ==
  {item \in DOMAIN held :
     CompareInstances(RecurrenceId(payload), RecurrenceId(held[item])) = answer}

(* The component a payload names, if there is exactly one. *)
Exact(held, payload) == CHOOSE item \in Matches(held, payload, "same") : TRUE

(* The change to the component the payload names. *)
ReviewExact(item, written) ==
  IF written = Nothing THEN Nothing ELSE ReviewedChange("existing", item, written)

(* The change to an occurrence of the master; one that says nothing makes   *)
(* no component.                                                            *)
ReviewDetached(held, payload, master, detached) ==
  IF \/ IsMaster(payload)
     \/ detached = Nothing
     \/ ~RecurrenceSetContains(held[master], payload)
  THEN Nothing
  ELSE ReviewedChange(IF IsEmpty(detached) THEN "existing" ELSE "detach", master, detached)

(* One payload against the calendar; Nothing is a rejection. *)
ReviewPayload(message, held, payload) ==
  LET evaluated(item) == Evaluate(message, payload, held[item], "present")
  IN  CASE Matches(held, payload, "same") # {} ->
             ReviewExact(Exact(held, payload), evaluated(Exact(held, payload)))
        [] Matches(held, payload, "same") = {} /\ Masters(held) # {} ->
             ReviewDetached(held, payload, MasterOf(held), evaluated(MasterOf(held)))
        [] OTHER -> Nothing

(* One payload that is refused refuses the message. *)
AllOrNothing(changes) ==
  IF \E k \in DOMAIN changes : changes[k] = Nothing THEN Nothing ELSE changes

Reviewed(message, held) ==
  AllOrNothing([k \in DOMAIN message.payloads |->
                  ReviewPayload(message, held, message.payloads[k])])

(* Mutant: an address that could be a held one counts as another. *)
ReviewExistingDespiteAmbiguity(message, held) ==
  LET payloads == message.payloads
      same(k) == Matches(held, payloads[k], "same")
  IN  IF /\ Cardinality(Masters(held)) <= 1
         /\ \A k \in DOMAIN payloads : Cardinality(same(k)) <= 1
         /\ \A k, other \in DOMAIN payloads : k # other => same(k) \cap same(other) = {}
      THEN Reviewed(message, held) ELSE Nothing

ReviewExisting(message, held) ==
  LET payloads == message.payloads
      same(k) == Matches(held, payloads[k], "same")
  IN  IF /\ Cardinality(Masters(held)) <= 1
         /\ \A k \in DOMAIN payloads : Matches(held, payloads[k], "ambiguous") = {}
         /\ \A k \in DOMAIN payloads : Cardinality(same(k)) <= 1
         /\ \A k, other \in DOMAIN payloads : k # other => same(k) \cap same(other) = {}
      THEN Reviewed(message, held) ELSE Nothing

Created(k, transition) ==
  IF transition = Nothing THEN Nothing ELSE ReviewedChange("create", k, transition)

ReviewCreation(message) ==
  AllOrNothing([k \in DOMAIN message.payloads |->
                  Created(k, Evaluate(message, message.payloads[k], EmptyComponent, "absent"))])

Review(message, held) ==
  CASE \E k \in DOMAIN message.payloads : ~Inspect(message.method, message.payloads[k]) -> Nothing
    [] OTHER -> IF held = <<>> THEN ReviewCreation(message) ELSE ReviewExisting(message, held)

(***************************************************************************)
(* Application: what is held is written first, then the new components are  *)
(* appended, each a clone of the master as the first phase left it.         *)
(***************************************************************************)

MarkCancelled(component) ==
  [component EXCEPT !.STATUS = IF @ = <<>> THEN <<"CANCELLED">> ELSE [@ EXCEPT ![1] = "CANCELLED"]]

(* What every write of a cancellation does, if the write is not refused. *)
Finished(message, written) ==
  IF message.method = "CANCEL" /\ written # Nothing THEN MarkCancelled(written) ELSE written

CopyRecurrenceId(component, payload) ==
  IF component = Nothing \/ component.RECURRENCE_ID # <<>> THEN component
  ELSE [component EXCEPT !.RECURRENCE_ID = <<payload.RECURRENCE_ID[1]>>]

(* A held component after the first phase; Nothing if a write is refused. *)
WriteExisting(message, held, changes, item) ==
  LET mine == {k \in DOMAIN changes : changes[k].kind = "existing" /\ changes[k].item = item}
      real == {k \in mine : ~IsEmpty(changes[k].transition)}
  IN  IF mine = {} THEN held[item]
      ELSE Finished(message, IF real = {} THEN held[item]
                             ELSE ApplyTo(held[item], changes[CHOOSE k \in real : TRUE].transition))

(* A component the second phase adds. *)
WriteNew(message, updated, change, payload) ==
  IF change.kind = "create" THEN payload
  ELSE Finished(message, CopyRecurrenceId(ApplyTo(updated[change.item], change.transition), payload))

(* The n-th of a set of positions. *)
Nth(positions, n) == CHOOSE k \in positions : Cardinality({l \in positions : l <= k}) = n

Added(message, updated, changes) ==
  LET later == {k \in DOMAIN changes : changes[k].kind # "existing"}
  IN  [j \in 1..Cardinality(later) |->
         WriteNew(message, updated, changes[Nth(later, j)], message.payloads[Nth(later, j)])]

(* The calendar after the message, or Nothing if a write is refused. *)
WriteBack(message, updated, changes) ==
  IF AllOrNothing(updated) = Nothing THEN Nothing
  ELSE AllOrNothing(updated \o Added(message, updated, changes))

Apply(message, held, changes) ==
  IF changes = Nothing THEN Nothing
  ELSE WriteBack(message, [item \in DOMAIN held |-> WriteExisting(message, held, changes, item)], changes)

Result(message, held) == Apply(message, held, Review(message, held))

(***************************************************************************)
(* Behaviour.                                                              *)
(***************************************************************************)

Init == mail \in Exchanges /\ calendar \in Calendars

(* A message is reviewed, authorized and applied, and the host keeps the    *)
(* result; a message rejected or refused leaves the calendar as it was.     *)
Kept(result, held) == IF result = Nothing THEN held ELSE result

Deliver(message) == calendar' = Kept(Result(message, calendar), calendar)

Next == (\E message \in mail : Deliver(message)) /\ UNCHANGED mail

Spec == Init /\ [][Next]_vars
===============================================================================
