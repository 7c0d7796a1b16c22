-------------------------- MODULE MCRecurrenceRules -------------------------
(***************************************************************************)
(* The rules TLC opens, and the values the two readers are compared on.    *)
(***************************************************************************)
EXTENDS TimeRangeFilter

Stamp(y, m, d, h, mi) ==
  [date |-> [year |-> y, month |-> m, day |-> d],
   clock |-> [hour |-> h, minute |-> mi, second |-> 0]]
At(y, m, d, h, mi) == [form |-> "local", stamp |-> Stamp(y, m, d, h, mi)]
Utc(y, m, d, h, mi) == [form |-> "utc", stamp |-> Stamp(y, m, d, h, mi)]
MCStarts == {Stamp(2015, 12, 31, 22, 30), Stamp(2016, 2, 29, 9, 0)}

(* Every text of up to three of these parts, in every order.               *)
Part == {<<"FREQ", "WEEKLY">>, <<"FREQ", Bad>>, <<"BYDAY", {<<0, 0>>}>>, <<"BYDAY", {<<2, 1>>}>>,
         <<"BYSETPOS", {1}>>, <<"COUNT", 2>>, <<"COUNT", 0>>, <<"UNTIL", Utc(2016, 3, 1, 3, 0)>>, <<"INTERVAL", 2>>,
         <<"WKST", Bad>>, <<"X-PART", 1>>}
ReaderTexts == UNION {[1..n -> Part] : n \in 1..3}

Rule(freq, parts) == <<<<"FREQ", freq>>>> \o parts
RuleTexts ==
  {Rule("YEARLY", p) : p \in
     {<< >>, <<<<"BYWEEKNO", {1, -1}>>>>, <<<<"BYWEEKNO", {53}>>, <<"BYDAY", {<<0, 0>>, <<0, 6>>}>>>>,
      <<<<"BYWEEKNO", {1}>>, <<"WKST", 6>>, <<"INTERVAL", 2>>>>,
      <<<<"BYWEEKNO", {20}>>, <<"BYMONTH", {5}>>, <<"BYDAY", {<<1, 0>>}>>>>,
      <<<<"BYMONTH", {2, 11}>>>>, <<<<"BYMONTH", {2}>>, <<"BYDAY", {<<-1, 0>>, <<5, 0>>}>>>>,
      <<<<"BYDAY", {<<20, 0>>, <<-1, 4>>, <<53, 3>>}>>>>, <<<<"BYYEARDAY", {60, -1, 366}>>>>,
      <<<<"BYYEARDAY", {60}>>, <<"BYDAY", {<<0, 0>>}>>>>,
      <<<<"BYMONTHDAY", {13}>>, <<"BYDAY", {<<0, 4>>}>>>>,
      <<<<"BYMONTHDAY", {29, -31}>>, <<"BYMONTH", {2, 3}>>, <<"BYSETPOS", {-1}>>>>}}
  \cup {Rule("MONTHLY", p) : p \in
     {<< >>, <<<<"BYMONTHDAY", {31, -1}>>>>, <<<<"BYDAY", {<<-1, 4>>, <<5, 0>>}>>>>,
      <<<<"BYMONTHDAY", {13, -31}>>, <<"BYDAY", {<<0, 4>>, <<2, 5>>}>>>>,
      <<<<"BYDAY", {<<0, 0>>, <<0, 1>>, <<0, 4>>}>>, <<"BYSETPOS", {-1, 1, 40}>>, <<"BYHOUR", {8, 22}>>>>,
      <<<<"INTERVAL", 3>>, <<"BYMONTH", {2, 6}>>, <<"BYWEEKNO", {1}>>>>}}
  \cup {Rule("WEEKLY", p) : p \in
     {<<<<"WKST", 6>>, <<"INTERVAL", 2>>, <<"BYDAY", {<<0, 6>>, <<0, 1>>}>>>>,
      <<<<"BYMONTHDAY", {3}>>, <<"BYMONTH", {1, 12}>>>>,
      <<<<"BYHOUR", {0, 23}>>, <<"BYMINUTE", {0, 59}>>, <<"BYSETPOS", {-2}>>>>}}
  \cup {Rule("DAILY", p) : p \in
     {<<<<"BYMONTHDAY", {1, -1}>>>>, <<<<"BYDAY", {<<3, 4>>}>>, <<"BYHOUR", {6}>>>>,
      <<<<"BYSECOND", {0, 30}>>>>}}
  \cup {Rule("HOURLY", p) : p \in
     {<<<<"INTERVAL", 5>>>>, <<<<"BYHOUR", {22, 0, 9, 10}>>, <<"BYMINUTE", {0, 45}>>>>,
      <<<<"BYMONTH", {1, 2}>>, <<"BYYEARDAY", {1, 60}>>>>}}
  \cup {Rule("MINUTELY", <<<<"INTERVAL", 15>>, <<"BYHOUR", {22, 9}>>, <<"BYSECOND", {0, 30}>>>>),
        Rule("SECONDLY", <<<<"INTERVAL", 30>>, <<"BYMINUTE", {30, 0, 31}>>>>)}

OnDate(y, m, d) == [form |-> "date", stamp |-> Stamp(y, m, d, 0, 0)]
BoundedTexts ==
  {Rule(freq, <<<<"COUNT", 3>>>>) : freq \in {"DAILY", "WEEKLY", "MONTHLY", "YEARLY"}}
  \cup {Rule("HOURLY", <<<<"INTERVAL", 5>>, <<"COUNT", 4>>>>),
        Rule("DAILY", <<<<"UNTIL", Utc(2016, 3, 3, 10, 0)>>>>),
        Rule("DAILY", <<<<"INTERVAL", 2>>, <<"UNTIL", At(2016, 3, 4, 9, 0)>>>>),
        Rule("WEEKLY", <<<<"UNTIL", OnDate(2016, 1, 14)>>>>),
        Rule("MONTHLY", <<<<"BYMONTHDAY", {1}>>, <<"UNTIL", OnDate(2016, 5, 1)>>>>),
        Rule("YEARLY", <<<<"BYMONTH", {1, 3}>>, <<"COUNT", 2>>>>)}

MCTexts == ReaderTexts \cup RuleTexts \cup BoundedTexts
-----------------------------------------------------------------------------
(* Zones whose clocks move about the two starts: forward and back, by half *)
(* an hour, an hour, a day and from one end of the range of offsets to the *)
(* other, by every form of rule, by dates out of order, cut off, run out,  *)
(* and not at all.                                                         *)
Hours(n) == n * 3600
Component(daylight, from, to, begins, rrules, rdates) ==
  [daylight |-> daylight, from |-> from, to |-> to, dtstart |-> begins,
   rrules |-> rrules, rdates |-> rdates]
Yearly(parts) == <<Rule("YEARLY", parts)>>

LastDays ==
  <<Component(TRUE, Hours(1), Hours(2), At(2014, 2, 24, 9, 15),
      Yearly(<<<<"BYDAY", {<<-1, 0>>}>>, <<"BYMONTH", {2}>>>>), << >>),
    Component(FALSE, Hours(2), Hours(1), At(2014, 12, 31, 23, 0),
      Yearly(<<<<"BYMONTHDAY", {-1}>>, <<"BYMONTH", {12}>>, <<"UNTIL", Utc(2017, 12, 31, 21, 0)>>>>), << >>)>>
FifthMonday ==
  <<Component(FALSE, -Hours(7), -Hours(5), At(2010, 3, 1, 8, 0),
      Yearly(<<<<"BYMONTH", {2}>>, <<"BYDAY", {<<5, 0>>}>>>>), << >>),
    Component(TRUE, -Hours(5), -Hours(7), At(2016, 1, 1, 0, 15), Yearly(<< >>), << >>)>>
Windows ==
  <<Component(FALSE, Hours(11), Hours(10) + 1800, At(2014, 12, 25, 23, 0),
      Yearly(<<<<"BYMONTH", {12}>>, <<"BYDAY", {<<0, 3>>}>>, <<"BYMONTHDAY", 25..31>>>>), << >>),
    Component(TRUE, Hours(10) + 1800, Hours(11), At(2014, 2, 24, 9, 0),
      Yearly(<<<<"BYMONTH", {2}>>, <<"BYDAY", {<<0, 0>>}>>, <<"BYMONTHDAY", 23..29>>>>), << >>)>>
DayLine ==
  <<Component(TRUE, -Hours(10), Hours(14), At(2015, 12, 31, 23, 0), << >>, << >>),
    Component(FALSE, Hours(14), Hours(13), At(2016, 2, 29, 10, 0), << >>,
      <<At(2012, 4, 1, 4, 0), [form |-> "date", stamp |-> Stamp(2013, 1, 1, 0, 0)]>>),
    Component(TRUE, Hours(13), -Hours(10), Utc(2014, 1, 1, 12, 0), << >>, << >>)>>
Crossed ==
  <<Component(TRUE, Hours(2), Hours(1), At(2016, 2, 29, 7, 0), << >>, <<At(2016, 7, 1, 2, 0)>>),
    Component(FALSE, Hours(14), Hours(2), At(2016, 2, 29, 9, 0), << >>, <<At(2015, 12, 31, 22, 0)>>)>>
SecondWeek ==
  <<Component(TRUE, Hours(1), Hours(2), At(2016, 1, 7, 22, 0), << >>, << >>),
    Component(FALSE, Hours(2), Hours(1), At(2016, 3, 1, 9, 15), << >>, << >>)>>
Farthest ==
  <<Component(TRUE, -86399, 86399, At(2015, 12, 31, 22, 0), << >>, << >>),
    Component(FALSE, 86399, -86399, At(2016, 2, 29, 12, 0), << >>, << >>)>>
NoRuleRead ==
  <<Component(FALSE, 0, Hours(1), At(2015, 12, 31, 23, 0),
      <<Rule("YEARLY", <<<<"BYMONTH", {12}>>, <<"BYDAY", {<<-2, 3>>}>>>>)>>, << >>)>>

Zone(definition, limit, gaps, folds) ==
  [definition |-> definition, limit |-> limit, gaps |-> gaps, folds |-> folds]
MCZones ==
  <<Zone(LastDays, 9, "skip", "earlier"), Zone(FifthMonday, 9, "shift", "later"),
    Zone(Windows, 9, "clamp", "earlier"), Zone(DayLine, 9, "shift", "earlier"),
    Zone(DayLine, 3, "skip", "later"), Zone(Crossed, 9, "clamp", "later"),
    Zone(Crossed, 2, "skip", "earlier"), Zone(NoRuleRead, 9, "skip", "earlier"),
    Zone(SecondWeek, 9, "skip", "earlier"), Zone(Farthest, 9, "shift", "later"), Zone(<< >>, 9, "skip", "earlier")>>

(* An event or a journal entry that begins at an instant, at a time in the *)
(* zone or on a date, with each kind of end, and one with a date beside    *)
(* its rule.                                                               *)
Timed(kind, clock, ending, rdates) ==
  [kind |-> kind, clock |-> clock, ending |-> ending, rdates |-> rdates]
Nothing == [says |-> "nothing"]
Lasting(n) == [says |-> "duration", seconds |-> n]
Ending(form, n) == [says |-> "dtend", form |-> form, seconds |-> n]
MCComponents ==
  {Timed("VJOURNAL", "zoned", Nothing, {}), Timed("VEVENT", "utc", Nothing, {}),
   Timed("VEVENT", "utc", Lasting(5400), {}), Timed("VEVENT", "utc", Ending("local", 3600), {}),
   Timed("VEVENT", "zoned", Lasting(86400), {}), Timed("VEVENT", "zoned", Ending("local", 7200), {}),
   Timed("VEVENT", "zoned", Ending("utc", 9000), {}), Timed("VJOURNAL", "date", Nothing, {}),
   Timed("VEVENT", "date", Ending("date", 172800), {}), Timed("VEVENT", "zoned", Lasting(-3600), {}),
   Timed("VEVENT", "zoned", Nothing, {40 * 86400})}
=============================================================================
