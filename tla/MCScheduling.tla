----------------------------- MODULE MCScheduling -----------------------------
(***************************************************************************)
(* Meetings and mail for model checking Scheduling.  Occurrences of the     *)
(* series are at 10, 20 and 30; time stamps are 1, 2, ...                   *)
(***************************************************************************)
EXTENDS SchedulingProperties, SequencesExt, TLC

CONSTANTS org, ann, bob, cat

Invited(who) == [who |-> who, answer |-> "NEEDS-ACTION", at |-> Nothing, to |-> Nothing]
Answered(who, answer) == [Invited(who) EXCEPT !.answer = answer]

At(named, range) == [named |-> named, clock |-> "utc", range |-> range]

(* A component of version SEQUENCE, DTSTAMP with these attendees. *)
Stating(sequence, dtstamp, attendees) ==
  [EmptyComponent EXCEPT !.ATTENDEE = attendees, !.DTSTAMP = <<dtstamp>>, !.SEQUENCE = <<sequence>>]

Starting(component, start) == [component EXCEPT !.DTSTART = <<start>>]
Every(component, period) == [component EXCEPT !.RRULE = <<period>>]
Of1(component, ref) == [component EXCEPT !.RECURRENCE_ID = <<ref>>]
Cancelled(component) == [component EXCEPT !.STATUS = <<"CANCELLED">>]

Send(method, from, payloads) == [method |-> method, from |-> from, payloads |-> payloads]

Guests == <<Invited(ann), Invited(bob)>>
Series(sequence, dtstamp, attendees) == Every(Starting(Stating(sequence, dtstamp, attendees), 10), 10)

Reply(from, sequence, dtstamp, line) == Send("REPLY", from, <<Stating(sequence, dtstamp, <<line>>)>>)

(* The closed form of ApplyTo, against the changes written one by one.      *)
WriteOne(lines, change) ==
  CASE lines = Nothing -> Nothing
    [] lines # Nothing /\ change.kind = "add" ->
         IF change.index = Len(lines) + 1 THEN Append(lines, change.line) ELSE Nothing
    [] OTHER ->
         IF change.index \notin DOMAIN lines THEN Nothing
         ELSE IF change.kind = "remove" THEN RemoveAt(lines, change.index)
         ELSE [lines EXCEPT ![change.index] = change.line]

WriteInOrder(lines, changes) ==
  FoldLeft(WriteOne, lines, SetToSortSeq(changes, LAMBDA one, other : one.index < other.index))

ASSUME WritesAgree ==
  \A reviewed, offered, held \in UNION {[1..n -> 1..2] : n \in 0..3} :
    LET changes == Restated(offered, reviewed)
        closed == IF Writable(held, changes) THEN WriteLines(held, changes) ELSE Nothing
    IN  closed = WriteInOrder(held, changes)

(* Answers to two versions of a series and to one instance of it. *)
AnswersMail ==
  {Send("REQUEST", org, <<Series(1, 1, Guests)>>),
   Send("REQUEST", org, <<Series(2, 5, Guests)>>),
   Reply(ann, 1, 2, Answered(ann, "ACCEPTED")),
   Reply(ann, 1, 4, Answered(ann, "DECLINED")),
   Reply(bob, 1, 3, Answered(bob, "ACCEPTED")),
   Reply(ann, 2, 7, Answered(ann, "TENTATIVE")),
   Reply(bob, 2, 6, [Answered(bob, "DELEGATED") EXCEPT !.to = cat]),
   Reply(ann, 2, 9, Answered(ann, "ACCEPTED")),
   Reply(bob, 2, 10, Answered(bob, "ACCEPTED")),
   Reply(cat, 2, 8, Answered(cat, "ACCEPTED")),
   Reply(cat, 2, 9, Answered(bob, "DECLINED")),
   Send("REPLY", ann, <<Of1(Stating(1, 3, <<Answered(ann, "DECLINED")>>), At(20, "this"))>>),
   Send("REPLY", bob, <<Of1(Stating(2, 8, <<Answered(bob, "ACCEPTED")>>), At(20, "this"))>>),
   Send("REFRESH", ann, <<[EmptyComponent EXCEPT !.ATTENDEE = <<Invited(ann)>>, !.DTSTAMP = <<3>>]>>)}

(* The same series, changed in single instances. *)
Guest == <<Invited(ann)>>
Single1(sequence, dtstamp, start, ref) ==
  Of1(Starting(Stating(sequence, dtstamp, Guest), start), ref)

InstancesMail ==
  {Send("REQUEST", org, <<Series(1, 1, Guest)>>),
   Send("REQUEST", org, <<Single1(2, 2, 21, At(20, "this"))>>),
   Send("REQUEST", org, <<Single1(3, 3, 22, At(20, "this")), Single1(2, 3, 31, At(30, "this"))>>),
   Send("REQUEST", org, <<Starting(Stating(4, 4, Guest), 10)>>),
   Send("REQUEST", org, <<Single1(3, 5, 32, At(30, "future"))>>),
   Send("CANCEL", org, <<Of1(Stating(4, 5, Guest), At(20, "this")),
                         Of1(Stating(4, 5, Guest), At(30, "this"))>>),
   Send("CANCEL", org, <<Cancelled(Stating(6, 6, Guest))>>),
   Send("CANCEL", ann, <<Cancelled(Stating(7, 7, Guest))>>),
   Send("REQUEST", org, <<Of1(Starting(Stating(2, 4, Guest), 23),
                              [named |-> 20, clock |-> "zoned", range |-> "this"])>>),
   Send("COUNTER", ann, <<Starting(Stating(4, 8, <<Answered(ann, "TENTATIVE")>>), 10)>>),
   Send("COUNTER", ann, <<Starting(Stating(4, 8, Guest), 11)>>),
   Send("DECLINECOUNTER", org, <<Starting(Stating(5, 9, Guest), 10)>>),
   Send("PUBLISH", org, <<Series(7, 10, <<>>)>>),
   Send("ADD", org, <<Starting(Stating(2, 3, Guest), 25)>>),
   Send("REPLY", ann, <<Of1(Stating(3, 7, <<Answered(ann, "DECLINED")>>), At(20, "this"))>>)}

(* A cancellation of one instance in the version the series already has.    *)
RestatedMail ==
  {Send("REQUEST", org, <<Series(1, 1, Guest)>>),
   Send("CANCEL", org, <<Of1(Cancelled(Stating(1, 1, Guest)), At(20, "this"))>>)}

BothExchanges == {AnswersMail, InstancesMail}
Restatements == {RestatedMail}

NoCalendar == {<<>>}

(* The hypotheses of the theorems about every set of messages.              *)
ASSUME OrderlyStart /\ DistinctPayloads /\ AnswersFollowVersions /\ AnswersAreConforming
===============================================================================
