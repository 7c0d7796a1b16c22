------------------------------ MODULE MCEditor -------------------------------
(***************************************************************************)
(* The calendars TLC opens an editor on, and what it sets.                 *)
(***************************************************************************)
EXTENDS Editor

Line(name, value) ==
  [name |-> <<name>>, parameters |-> << >>, value |-> value, hasSeparator |-> TRUE,
   folds |-> << >>, ending |-> "CRLF", refolded |-> FALSE]
Fold(offset) == [offset |-> offset, tab |-> FALSE, newline |-> "CRLF"]
Folded(line, offsets) == [line EXCEPT !.folds = [i \in DOMAIN offsets |-> Fold(offsets[i])]]
WithParameter(line) ==
  [line EXCEPT !.parameters = <<[name |-> <<"x">>, value |-> <<"x">>, hasValue |-> TRUE]>>]

Component(name, items) ==
  [begin |-> Line("BEGIN", <<name>>), items |-> items, end |-> Line("END", <<name>>)]
Alarm == <<Line("BEGIN", <<"VALARM">>), Line("SUMMARY", <<"x">>), Line("END", <<"VALARM">>)>>
Calendar(events) ==
  [begin |-> Line("BEGIN", <<"VCALENDAR">>), events |-> events, end |-> Line("END", <<"VCALENDAR">>)]

MCCalendars ==
  {Calendar(
     <<Component("VEVENT",
         <<<<Line("UID", <<"u1">>)>>,
           <<Folded(WithParameter(Line("SUMMARY", <<"x">>)), <<3, 6>>)>>,
           <<Folded(Line("x-a", <<"x", "x">>), <<3, 4>>)>> >>),
       Component("VEVENT",
         <<<<Line("x-a", <<"x">>)>>, <<Folded(Line("UID", <<"u2">>), <<2>>)>>, Alarm>>)>>),
   Calendar(
     <<Component("VEVENT", <<Alarm, <<Line("UID", <<"u1">>)>> >>),
       Component("VEVENT", <<<<Line("UID", <<"u1">>)>>,
                             <<Line("SUMMARY", <<"x", "cont">>)>> >>)>>)}

MCUids == {<<"u1">>, <<"u2">>, <<"u3">>}
MCVendorNames == {<<"X-A">>, <<"X-B">>}

MCValues ==
  {<< >>, <<"SP", "x">>, <<"x", "cont", "cont", "cont", "x", "x", "cont", "x">>,
   <<",", "x", ";", "LF", "x">>, <<"x", "TAB">>,
   <<"x", "x", "x", "x", "x", "x", "x", "x", "x">>}
=============================================================================
