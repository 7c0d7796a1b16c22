------------------------- MODULE SchedulingProperties -------------------------
(***************************************************************************)
(* What the calendar of Scheduling owes to the parties of the meeting.      *)
(***************************************************************************)
EXTENDS Scheduling

(***************************************************************************)
(* The calendar as its readers see it: an instance without a component of   *)
(* its own is an occurrence of the master.                                  *)
(***************************************************************************)

Own(held, instance) ==
  {item \in DOMAIN held : CompareInstances(instance, RecurrenceId(held[item])) = "same"}

Effective(held, instance) ==
  CASE Own(held, instance) # {} -> held[CHOOSE item \in Own(held, instance) : TRUE]
    [] Own(held, instance) = {} ->
         IF Masters(held) # {} THEN held[MasterOf(held)] ELSE Nothing

Addressed(message) == {RecurrenceId(message.payloads[k]) : k \in DOMAIN message.payloads}

(* The series and every instance the mail speaks of. *)
Instance ==
  {Nothing} \cup {ref \in UNION {Addressed(message) : message \in UNION Exchanges} :
                    ref # Nothing /\ ref.clock = "utc"}

VersionOf(held, instance) ==
  LET component == Effective(held, instance)
  IN  IF component = Nothing THEN Nothing ELSE RevisionOf(component)

AnsweredAt(held, instance, who) ==
  LET component == Effective(held, instance)
      at == OccurrenceOf(component, who)
  IN  IF component = Nothing \/ at = 0 THEN Nothing ELSE component.ATTENDEE[at].at

Rejected(message, held) == Result(message, held) = Nothing

(* A payload that states a newer version than the one on record. *)
IsNews(held, payload) ==
  LET version == VersionOf(held, RecurrenceId(payload))
  IN  version = Nothing \/ Supersedes(RevisionOf(payload), version)

(* No name but ATTENDEE is stated twice. *)
AtMostOnce(component) == \A name \in Name \ {"ATTENDEE"} : Len(component[name]) <= 1

(* Components, or payloads, no two of which could stand for one instance. *)
ToldApart(components) ==
  \A one, other \in DOMAIN components : one # other =>
    CompareInstances(RecurrenceId(components[one]), RecurrenceId(components[other])) = "different"

Orderly(held) == ToldApart(held) /\ \A item \in DOMAIN held : AtMostOnce(held[item])

(* What the host starts with, and what the parties send.  The code relies   *)
(* on the second: its review compares payloads with what is held, not with  *)
(* each other.                                                              *)
OrderlyStart == \A held \in Calendars : Orderly(held)
DistinctPayloads == \A exchange \in Exchanges : \A message \in exchange : ToldApart(message.payloads)

(* What the attendees send: no answer is dated before the version it is to, *)
(* nor before a counter proposal that dates this version anew, and it is    *)
(* one payload as the message tables allow it.                              *)
NotLater(component, answer) ==
  Sequence(component) = Sequence(answer) /\ component.DTSTAMP # <<>> =>
    component.DTSTAMP[1] <= answer.DTSTAMP[1]

AnswersFollowVersions ==
  \A exchange \in Exchanges : \A message \in exchange : message.method = "REPLY" =>
    \A k \in DOMAIN message.payloads :
      /\ \A other \in exchange : other.method = "COUNTER" =>
           \A l \in DOMAIN other.payloads : NotLater(other.payloads[l], message.payloads[k])
      /\ \A held \in Calendars : \A item \in DOMAIN held : NotLater(held[item], message.payloads[k])

AnswersAreConforming ==
  \A exchange \in Exchanges : \A message \in exchange : message.method = "REPLY" =>
    /\ Len(message.payloads) = 1
    /\ Inspect(message.method, message.payloads[1])
    /\ CheckConformance(message.method, message.payloads[1])

(***************************************************************************)
(* Properties.                                                             *)
(***************************************************************************)

(* Messages late, twice or out of order never turn back what is on record:  *)
(* an instance only moves to newer versions, and between two versions an    *)
(* answer gives way only to a newer answer of the same attendee             *)
(* (check_revision, check_answer, settle, and describe_reply writing        *)
(* X-ICALKIT-ANSWERED-AT).                                                  *)
Book == INSTANCE AnswerBook
  WITH Attendee <- Party,
       version <- [i \in Instance |-> VersionOf(calendar, i)],
       answered <- [i \in Instance |-> [who \in Party |-> AnsweredAt(calendar, i, who)]]

ImplementsAnswerBook == Book!Spec

(* Whatever an attendee sends, no held component changes but in that        *)
(* attendee's own ATTENDEE line and in DTSTAMP, that line still names the   *)
(* attendee, and a component it makes appear differs from the master in     *)
(* nothing else but the instance it stands for (check_fields,               *)
(* keeps_the_actor, describe_reply, Detach).                                *)
DiffersOnlyFor(who, old, new) ==
  /\ \A name \in Name \ {"ATTENDEE", "DTSTAMP", "RECURRENCE_ID"} : new[name] = old[name]
  /\ DOMAIN new.ATTENDEE = DOMAIN old.ATTENDEE
  /\ \A i \in DOMAIN old.ATTENDEE :
       /\ new.ATTENDEE[i].who = old.ATTENDEE[i].who
       /\ i # OccurrenceOf(old, who) => new.ATTENDEE[i] = old.ATTENDEE[i]

AttendeeWritesOwnLineOnly ==
  [][\A message \in mail : message.from # Organizer /\ Deliver(message) =>
       \A item \in DOMAIN calendar' :
         LET old == IF item \in DOMAIN calendar THEN item ELSE MasterOf(calendar) IN
         /\ DiffersOnlyFor(message.from, calendar[old], calendar'[item])
         /\ item = old => RecurrenceId(calendar'[item]) = RecurrenceId(calendar[item])
    ]_vars

(* No instance ever has two components, nor two components whose addresses  *)
(* cannot be told apart: the review refuses every message about a meeting   *)
(* that has, so the calendar would be stuck (review_existing, Detach).  No  *)
(* line but ATTENDEE is ever stated twice, which would name two instances,  *)
(* or two times, at once (CopyRecurrenceId, MarkCancelled, apply_to).       *)
OneComponentPerInstance == Orderly(calendar)

(* A message about some instances leaves every other instance that has a    *)
(* component as it was, and the others unless it is about the series: the   *)
(* item positions reviewed are the ones written (ChangeTarget::phase).      *)
OnlyAddressedInstancesChange ==
  [][\A message \in mail : Deliver(message) =>
       \A i \in Instance \ Addressed(message) :
         (Own(calendar, i) # {} \/ Nothing \notin Addressed(message)) =>
           Effective(calendar', i) = Effective(calendar, i)
    ]_vars

(* A newer invitation is taken whole: afterwards every instance it states   *)
(* reads as the organizer stated it, whatever the calendar had before       *)
(* (describe_payload, apply_to, Create and Detach).                         *)
InvitationLands ==
  \A message \in mail :
    LET stated(k) == message.payloads[k]
        result == Result(message, calendar)
    IN  (/\ message.method = "REQUEST"
         /\ ~Rejected(message, calendar)
         /\ \A k \in DOMAIN message.payloads : IsNews(calendar, stated(k)))
        => \A k \in DOMAIN message.payloads :
             RecurrenceId(stated(k)) \in Instance =>
               Effective(result, RecurrenceId(stated(k))) = stated(k)

(* What the organizer says of a newer version is never refused, whatever    *)
(* was delivered before, if the series is held and no instance named could  *)
(* be one of two.                                                           *)
NewsIsNeverRefused ==
  \A message \in mail :
    (/\ message.from = Organizer
     /\ OrganizerAuthored(message.method)
     /\ Masters(calendar) # {}
     /\ \A k \in DOMAIN message.payloads :
          /\ IsNews(calendar, message.payloads[k])
          /\ Matches(calendar, message.payloads[k], "ambiguous") = {}
          /\ Inspect(message.method, message.payloads[k])
          /\ CheckConformance(message.method, message.payloads[k])
          /\ \/ Own(calendar, RecurrenceId(message.payloads[k])) # {}
             \/ RecurrenceSetContains(calendar[MasterOf(calendar)], message.payloads[k]))
    => ~Rejected(message, calendar)

(* An attendee's newer answer to the version on record is taken, however    *)
(* late it comes and whatever the others have answered meanwhile            *)
(* (attendee_answered_at).                                                  *)
NewerAnswerLands ==
  \A message \in mail :
    LET answer == message.payloads[1]
        line == answer.ATTENDEE[1]
        instance == RecurrenceId(answer)
        component == Effective(calendar, instance)
        at == OccurrenceOf(component, message.from)
        result == Result(message, calendar)
    IN  (/\ message.method = "REPLY" /\ line.who = message.from /\ message.from # Organizer
         /\ instance \in Instance /\ component # Nothing /\ at # 0
         /\ (component.ATTENDEE[at].at = Nothing \/ answer.DTSTAMP[1] > component.ATTENDEE[at].at)
         /\ Sequence(answer) = Sequence(component)
         /\ \A other \in mail : \A k \in DOMAIN other.payloads :
              OrganizerAuthored(other.method) /\ Sequence(other.payloads[k]) = Sequence(answer)
                => other.payloads[k].DTSTAMP[1] <= answer.DTSTAMP[1]
         /\ \/ Own(calendar, instance) # {}
            \/ RecurrenceSetContains(component, answer))
        => /\ ~Rejected(message, calendar)
           /\ AnsweredAt(result, instance, message.from) = answer.DTSTAMP[1]

(* An organizer's message in no newer version changes nothing (settle: two  *)
(* messages at one revision are one version).                               *)
NoNewVersionNoChange ==
  \A message \in mail :
    (/\ message.from = Organizer /\ calendar # <<>>
     /\ \A k \in DOMAIN message.payloads : ~IsNews(calendar, message.payloads[k])
     /\ ~Rejected(message, calendar))
    => Result(message, calendar) = calendar
===============================================================================
