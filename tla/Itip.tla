--------------------------------- MODULE Itip ---------------------------------
(***************************************************************************)
(* How one scheduling message (RFC 5546) is judged against a calendar: the  *)
(* method tables, who may send what, which message is stale, what a         *)
(* message proposes and what an attendee may propose.  internal/itip and    *)
(* the review half of scheduling.rs.                                        *)
(*                                                                         *)
(* A VEVENT is the lines it has under each name that the rules tell apart;  *)
(* all components have the UID and the ORGANIZER of one meeting.            *)
(***************************************************************************)
EXTENDS Precedence, Sequences, FiniteSets

CONSTANTS Organizer,   \* the address of the ORGANIZER line
          Party,       \* all calendar addresses
          Horizon      \* bound: occurrences of a recurrence rule looked at

ASSUME PartyAssumption == /\ Organizer \in Party
                          /\ Nothing \notin Party
                          /\ Horizon \in Nat

(***************************************************************************)
(* Components.                                                             *)
(***************************************************************************)

(* An ATTENDEE line: PARTSTAT, X-ICALKIT-ANSWERED-AT and DELEGATED-TO.      *)
AttendeeLine == [who : Party, answer : STRING, at : Stamp, to : Party \cup {Nothing}]

InstanceRef == [named : Nat, clock : {"utc", "zoned", "floating"},
                range : {"this", "future"}]

(* What a STATUS line states: the text the rules know, or any other.        *)
StatusText == {"CANCELLED"} \cup STRING

(* An RRULE is the distance of two occurrences; a negative SEQUENCE is one  *)
(* the code cannot read.                                                    *)
Component == [ATTENDEE : Seq(AttendeeLine), DTSTAMP : Seq(Nat), DTSTART : Seq(Nat),
              RECURRENCE_ID : Seq(InstanceRef), RRULE : Seq(Nat \ {0}),
              SEQUENCE : Seq(Int), STATUS : Seq(StatusText)]

(* Rust's None is neither a reference nor a component. *)
ASSUME NoneAssumption == Nothing \notin InstanceRef /\ Nothing \notin Component

Name == {"ATTENDEE", "DTSTAMP", "DTSTART", "RECURRENCE_ID", "RRULE", "SEQUENCE", "STATUS"}

EmptyComponent == [name \in Name |-> <<>>]

(* A name stated twice is readable only if the lines agree. *)
Single(component, name) ==
  LET lines == component[name]
  IN  IF lines # <<>> /\ \A i \in DOMAIN lines : lines[i] = lines[1]
      THEN lines[1] ELSE Nothing

RecurrenceId(component) == Single(component, "RECURRENCE_ID")
IsMaster(component) == RecurrenceId(component) = Nothing

(* SequenceRead: absent is zero, unreadable is not a number. *)
Sequence(component) ==
  IF component.SEQUENCE = <<>> THEN 0
  ELSE LET stated == Single(component, "SEQUENCE")
       IN  IF stated # Nothing /\ stated >= 0 THEN stated ELSE Nothing

RevisionOf(component) ==
  IF Sequence(component) = Nothing THEN Nothing
  ELSE [sequence |-> Sequence(component), dtstamp |-> Single(component, "DTSTAMP")]

(* Only a UTC address is resolved to one instant, so any other is ambiguous *)
(* with whatever names the same wall clock.                                 *)
Compare(mine, theirs) ==
  CASE mine.named # theirs.named \/ mine.range # theirs.range -> "different"
    [] mine.named = theirs.named /\ mine.range = theirs.range ->
         IF mine.clock = "utc" /\ theirs.clock = "utc" THEN "same" ELSE "ambiguous"

CompareInstances(left, right) ==
  CASE left = Nothing /\ right = Nothing -> "same"
    [] left # Nothing /\ right # Nothing -> Compare(left, right)
    [] OTHER -> "different"

ReachesForward(component) ==
  RecurrenceId(component) # Nothing /\ RecurrenceId(component).range = "future"

(* The instants a master's DTSTART and RRULE generate, and whether a        *)
(* payload's RECURRENCE-ID is one of them.                                  *)
Occurrences(master) ==
  {master.DTSTART[1] + k * (IF master.RRULE = <<>> THEN 0 ELSE master.RRULE[1]) : k \in 0..Horizon}

RecurrenceSetContains(master, payload) ==
  /\ master.DTSTART # <<>>
  /\ payload.RECURRENCE_ID[1].named \in Occurrences(master)

(***************************************************************************)
(* The method tables: how often a payload may state each name.             *)
(***************************************************************************)

CancelRow == [ATTENDEE |-> "any", DTSTAMP |-> "one", DTSTART |-> "optional",
              RECURRENCE_ID |-> "optional", RRULE |-> "optional",
              SEQUENCE |-> "one", STATUS |-> "optional"]

PublishRow == [CancelRow EXCEPT !.ATTENDEE = "never", !.DTSTART = "one", !.SEQUENCE = "optional"]
RequestRow == [CancelRow EXCEPT !.ATTENDEE = "some", !.DTSTART = "one", !.SEQUENCE = "optional"]
ReplyRow == [CancelRow EXCEPT !.ATTENDEE = "one", !.SEQUENCE = "optional"]
AddRow == [CancelRow EXCEPT !.DTSTART = "one", !.RECURRENCE_ID = "never", !.RRULE = "never"]
RefreshRow == [CancelRow EXCEPT !.ATTENDEE = "one", !.DTSTART = "never", !.RRULE = "never",
                                !.SEQUENCE = "never", !.STATUS = "never"]
CounterRow == [CancelRow EXCEPT !.DTSTART = "one"]
DeclineCounterRow == [CancelRow EXCEPT !.ATTENDEE = "some"]

PresenceOf ==
  [PUBLISH |-> PublishRow, REQUEST |-> RequestRow, REPLY |-> ReplyRow, ADD |-> AddRow,
   CANCEL |-> CancelRow, REFRESH |-> RefreshRow, COUNTER |-> CounterRow,
   DECLINECOUNTER |-> DeclineCounterRow]

Method == DOMAIN PresenceOf

Admits(presence, count) ==
  CASE presence = "one" -> count = 1
    [] presence = "some" -> count >= 1
    [] presence = "optional" -> count <= 1
    [] presence = "any" -> TRUE
    [] presence = "never" -> count = 0

OrganizerAuthored(method) == method \notin {"REPLY", "REFRESH", "COUNTER"}
PermitsAbsent(method) == method \in {"PUBLISH", "REQUEST"}

(* A message: its method, the address it came from and its payloads. *)
Message == [method : Method, from : Party, payloads : Seq(Component)]

(* What every gate says of a cancellation and of RANGE=THISANDFUTURE. *)
CheckCancellation(method, payload) ==
  method = "CANCEL" =>
    /\ payload.STATUS # <<>> => payload.STATUS[1] = "CANCELLED"
    /\ ~(IsMaster(payload) /\ payload.STATUS = <<>> /\ payload.ATTENDEE = <<>>)

CheckRange(method, payload) == ReachesForward(payload) => method \notin {"REPLY", "REFRESH"}

(* inspect_message: a message that fails it is never constructed.  It tests *)
(* what is missing or forbidden, not how often the rest is stated.          *)
Inspect(method, payload) ==
  /\ payload.SEQUENCE = <<>> \/ Sequence(payload) # Nothing
  /\ \A name \in Name :
       LET presence == PresenceOf[method][name] IN
       /\ presence = "never" => payload[name] = <<>>
       /\ presence \in {"one", "some"} => payload[name] # <<>>
  /\ CheckCancellation(method, payload)
  /\ CheckRange(method, payload)

CheckConformance(method, payload) ==
  \A name \in Name : Admits(PresenceOf[method][name], Len(payload[name]))

(***************************************************************************)
(* Transitions: what a message proposes, name by name, as changes to        *)
(* numbered occurrences.                                                    *)
(***************************************************************************)

Change(index, kind, line) == [index |-> index, kind |-> kind, line |-> line]

NoChange == [name \in Name |-> {}]
IsEmpty(transition) == \A name \in Name : transition[name] = {}

(* A change writes a line, or takes one away. *)
Line == AttendeeLine \cup InstanceRef \cup StatusText \cup Int \cup {Nothing}
Transition ==
  [Name -> SUBSET [index : Nat, kind : {"replace", "add", "remove", "parameters"}, line : Line]]

(* The payload as a restatement of the component. *)
Restated(offered, held) ==
  {Change(i, "replace", offered[i]) : i \in {j \in DOMAIN offered \cap DOMAIN held :
                                               offered[j] # held[j]}}
    \cup {Change(i, "add", offered[i]) : i \in DOMAIN offered \ DOMAIN held}
    \cup {Change(i, "remove", Nothing) : i \in DOMAIN held \ DOMAIN offered}

(* The first ATTENDEE line of a party; 0 if it has none. *)
OccurrenceOf(component, who) ==
  LET lines == {i \in DOMAIN component.ATTENDEE : component.ATTENDEE[i].who = who}
  IN  IF lines = {} THEN 0 ELSE CHOOSE i \in lines : \A j \in lines : i <= j

(* A reply changes parameters of the line of the party it answers for: its  *)
(* answer, its delegate, and when it was given.                             *)
DescribeReply(payload, current) ==
  LET answer == payload.ATTENDEE[1]
      at == OccurrenceOf(current, answer.who)
  IN  IF payload.ATTENDEE = <<>> \/ at = 0 THEN NoChange
      ELSE [NoChange EXCEPT !.ATTENDEE =
              {Change(at, "parameters",
                      [current.ATTENDEE[at] EXCEPT !.answer = answer.answer,
                                                   !.to = answer.to,
                                                   !.at = Single(payload, "DTSTAMP")])}]

(* Mutant: a payload changes what it states and keeps the rest. *)
DescribePayloadStated(method, payload, current) ==
  CASE method = "REPLY" -> DescribeReply(payload, current)
    [] method = "REFRESH" -> NoChange
    [] OTHER -> [name \in Name |-> Restated(payload[name], current[name]) \
                   {Change(i, "remove", Nothing) : i \in DOMAIN current[name]}]

DescribePayload(method, payload, current) ==
  CASE method = "REPLY" -> DescribeReply(payload, current)
    [] method = "REFRESH" -> NoChange
    [] OTHER -> [name \in Name |-> Restated(payload[name], current[name])]

(***************************************************************************)
(* The gate.                                                               *)
(***************************************************************************)

ActorRole(component, actor) ==
  CASE actor = Organizer -> "organizer"
    [] actor # Organizer /\ \E i \in DOMAIN component.ATTENDEE :
         actor \in {component.ATTENDEE[i].who, component.ATTENDEE[i].to} -> "attendee"
    [] OTHER -> "stranger"

(* Presence decides who the sender is: the state held, or for an event not  *)
(* held yet the payload itself.                                             *)
SenderPermitted(method, state, actor) ==
  ActorRole(state, actor) = IF OrganizerAuthored(method) THEN "organizer" ELSE "attendee"

(* Mutant: versions are numbered without a gap. *)
CheckRevisionInOrder(payload, current) ==
  /\ RevisionOf(payload) # Nothing
  /\ RevisionOf(current) # Nothing =>
       RevisionOf(payload).sequence - RevisionOf(current).sequence \in 0..1

CheckRevision(payload, current) ==
  /\ RevisionOf(payload) # Nothing
  /\ RevisionOf(current) # Nothing => ~IsStaleAgainst(RevisionOf(payload), RevisionOf(current))

(* Mutant: a reply has to be newer than every answer on record. *)
CheckAnswerOfAnyone(payload, current) ==
  LET stated == Single(payload, "DTSTAMP")
  IN  \A i \in DOMAIN current.ATTENDEE : current.ATTENDEE[i].at # Nothing =>
        stated # Nothing /\ stated > current.ATTENDEE[i].at

(* Mutant: replies are applied in the order they come. *)
CheckAnswerNever(payload, current) == TRUE

(* A reply has to be newer than the answer it replaces. *)
CheckAnswer(payload, current) ==
  LET at == OccurrenceOf(current, payload.ATTENDEE[1].who)
      stated == Single(payload, "DTSTAMP")
  IN  payload.ATTENDEE # <<>> /\ at # 0 /\ current.ATTENDEE[at].at # Nothing =>
        stated # Nothing /\ stated > current.ATTENDEE[at].at

EitherParty == {"DTSTAMP", "RECURRENCE_ID"}

KeepsTheActor(change, actor) ==
  \/ change.kind = "parameters"
  \/ change.kind \in {"add", "replace"} /\ change.line.who = actor

(* Mutant: an attendee may answer for any line. *)
CheckFieldsOfAnyLine(transition, current, actor) ==
  \A name \in Name \ EitherParty : \A change \in transition[name] :
    name = "ATTENDEE" /\ KeepsTheActor(change, actor)

CheckFields(transition, current, actor) ==
  \A name \in Name \ EitherParty : \A change \in transition[name] :
    /\ name = "ATTENDEE"
    /\ change.index = OccurrenceOf(current, actor)
    /\ KeepsTheActor(change, actor)

(* An organizer's message that does not advance the version says nothing. *)
Settle(method, prior, payload, current, described) ==
  LET offered == RevisionOf(payload)
      held == RevisionOf(current)
  IN  IF /\ OrganizerAuthored(method) /\ prior = "present"
         /\ offered # Nothing /\ held # Nothing /\ ~Supersedes(offered, held)
      THEN NoChange ELSE described

(* evaluate_selected: the transition, or Nothing for a denial. *)
Evaluate(message, payload, current, prior) ==
  LET method == message.method
      actor == message.from
      state == IF prior = "present" THEN current ELSE payload
      described == DescribePayload(method, payload, current)
  IN  IF /\ prior = "absent" => PermitsAbsent(method)
         /\ SenderPermitted(method, state, actor)
         /\ CheckConformance(method, payload)
         /\ CheckRange(method, payload)
         /\ CheckCancellation(method, payload)
         /\ PresenceOf[method].SEQUENCE # "never" => CheckRevision(payload, current)
         /\ method = "REPLY" => CheckAnswer(payload, current)
         /\ actor = Organizer \/ CheckFields(described, current, actor)
      THEN Settle(method, prior, payload, current, described)
      ELSE Nothing

(***************************************************************************)
(* Writing a transition onto a component, one occurrence at a time in       *)
(* ascending order.  An addition has to land right behind the last line.  A *)
(* removal moves up what is behind it, so removals numbered first, first+1, *)
(* ... take every second line, and of two removals off the end of a list    *)
(* the second finds nothing.                                                *)
(***************************************************************************)

Of(changes, kind) == {change \in changes : change.kind = kind}

First(changes) ==
  LET indices == {change.index : change \in changes}
  IN  IF indices = {} THEN 0 ELSE CHOOSE i \in indices : \A j \in indices : i <= j

Writable(lines, changes) ==
  LET adds == Of(changes, "add")
      gone == Of(changes, "remove")
  IN  /\ \A change \in changes \ (adds \cup gone) : change.index \in DOMAIN lines
      /\ adds # {} => First(adds) = Len(lines) + 1
      /\ gone # {} => First(gone) + 2 * (Cardinality(gone) - 1) <= Len(lines)

SetParameters(line, edits) ==
  [line EXCEPT !.answer = edits.answer, !.to = edits.to, !.at = edits.at]

WriteLines(lines, changes) ==
  LET gone == Of(changes, "remove")
      removed == Cardinality(gone)
      kept(i) == CASE removed = 0 \/ i < First(gone) -> i
                   [] removed > 0 /\ i >= First(gone) /\ i < First(gone) + removed ->
                        2 * i - First(gone) + 1
                   [] removed > 0 /\ i >= First(gone) + removed -> i + removed
      edit(i) == CHOOSE change \in changes \ gone : change.index = i
  IN  [i \in 1..(Len(lines) + Cardinality(Of(changes, "add")) - removed) |->
         CASE \A change \in changes \ gone : change.index # kept(i) -> lines[kept(i)]
           [] \E change \in changes \ gone : change.index = kept(i) ->
                IF edit(kept(i)).kind = "parameters"
                THEN SetParameters(lines[kept(i)], edit(kept(i)).line)
                ELSE edit(kept(i)).line]

(* The component written, or Nothing if one write is refused. *)
ApplyTo(component, transition) ==
  IF \A name \in Name : Writable(component[name], transition[name])
  THEN [name \in Name |-> WriteLines(component[name], transition[name])]
  ELSE Nothing
===============================================================================
