----------------------------- MODULE RulePeriods ----------------------------
(***************************************************************************)
(* How a rule expands one period at a time: the period walk, the table of  *)
(* which part expands and which limits, the expansion by parts, and the    *)
(* selection by position (internal/recur: period, table, byparts, setpos). *)
(* A day is its number since the epoch, a candidate a <<day, clock>>.      *)
(***************************************************************************)
EXTENDS Civil, RuleText

DateParts == {"BYMONTH", "BYWEEKNO", "BYYEARDAY", "BYMONTHDAY", "BYDAY"}

-----------------------------------------------------------------------------
(* The table of RFC 5545 section 3.3.10.                                   *)
Limiting(part) ==
  CASE part = "BYMONTH"    -> Freqs \ {"YEARLY"}
    [] part = "BYWEEKNO"   -> {}
    [] part = "BYYEARDAY"  -> {"SECONDLY", "MINUTELY", "HOURLY"}
    [] part = "BYMONTHDAY" -> {"SECONDLY", "MINUTELY", "HOURLY", "DAILY"}
    [] part = "BYDAY"      -> {"SECONDLY", "MINUTELY", "HOURLY", "DAILY"}
    [] part = "BYHOUR"     -> {"SECONDLY", "MINUTELY", "HOURLY"}
    [] part = "BYMINUTE"   -> {"SECONDLY", "MINUTELY"}
    [] part = "BYSECOND"   -> {"SECONDLY"}
    [] part = "BYSETPOS"   -> Freqs
Expanding(part) ==
  CASE part \in {"BYMONTH", "BYWEEKNO", "BYYEARDAY"} -> {"YEARLY"}
    [] part = "BYMONTHDAY" -> {"MONTHLY", "YEARLY"}
    [] part = "BYDAY"      -> {"WEEKLY", "MONTHLY", "YEARLY"}
    [] part = "BYHOUR"     -> {"DAILY", "WEEKLY", "MONTHLY", "YEARLY"}
    [] part = "BYMINUTE"   -> Freqs \ {"SECONDLY", "MINUTELY"}
    [] part = "BYSECOND"   -> Freqs \ {"SECONDLY"}
    [] part = "BYSETPOS"   -> {}

Present(rule) == {part \in ByParts : HasPart(rule, part)}

(* Notes one and two: BYDAY beside a part that already names days limits.  *)
DayLimits(freq, present) ==
  \/ freq = "MONTHLY" /\ "BYMONTHDAY" \in present
  \/ freq = "YEARLY" /\ present \cap {"BYYEARDAY", "BYMONTHDAY"} # {}

Expands(freq, part, present) ==
  freq \in Expanding(part) /\ ~(part = "BYDAY" /\ DayLimits(freq, present))

(* What an ordinal of BYDAY counts within.                                 *)
WeekdayScope(freq, present) ==
  CASE freq = "MONTHLY" -> "month"
    [] freq = "YEARLY" /\ "BYWEEKNO" \in present -> "week"
    [] freq = "YEARLY" /\ "BYWEEKNO" \notin present /\ "BYMONTH" \in present -> "month"
    [] freq = "YEARLY" /\ present \cap {"BYWEEKNO", "BYMONTH"} = {} -> "year"
    [] freq \notin {"MONTHLY", "YEARLY"} -> "none"

-----------------------------------------------------------------------------
(* The walk: anchor of the period so many intervals after the one that     *)
(* holds DTSTART, computed from the origin and never from the last one.    *)
WeekOffset(weekday, wkst) == (weekday - wkst) % 7

WeekOrigin(date, wkst) == AddDays(date, -WeekOffset(WeekdayOf(date), wkst))

Midnight == [hour |-> 0, minute |-> 0, second |-> 0]

PeriodStart(stamp, freq, wkst) ==
  LET d == stamp.date
      c == stamp.clock
      at(date, clock) == [date |-> date, clock |-> clock]
  IN  CASE freq = "SECONDLY" -> at(d, [c EXCEPT !.second = IF @ > 59 THEN 59 ELSE @])
        [] freq = "MINUTELY" -> at(d, [c EXCEPT !.second = 0])
        [] freq = "HOURLY"   -> at(d, [c EXCEPT !.minute = 0, !.second = 0])
        [] freq = "DAILY"    -> at(d, Midnight)
        [] freq = "WEEKLY"   -> at(WeekOrigin(d, wkst), Midnight)
        [] freq = "MONTHLY"  -> at(FromYmd(d.year, d.month, 1), Midnight)
        [] freq = "YEARLY"   -> at(FromYmd(d.year, 1, 1), Midnight)

AnchorOfPeriod(rule, dtstart, index) ==
  LET origin == PeriodStart(dtstart, rule.freq, rule.wkst)
      steps == index * rule.interval
  IN  CASE rule.freq = "SECONDLY" -> AddDuration(origin, 0, steps)
        [] rule.freq = "MINUTELY" -> AddDuration(origin, 0, steps * 60)
        [] rule.freq = "HOURLY"   -> AddDuration(origin, 0, steps * 3600)
        [] rule.freq = "DAILY"    -> AddDuration(origin, steps, 0)
        [] rule.freq = "WEEKLY"   -> AddDuration(origin, steps * 7, 0)
        [] rule.freq = "MONTHLY"  -> [origin EXCEPT !.date = AddMonths(@, steps)]
        [] rule.freq = "YEARLY"   -> [origin EXCEPT !.date = AddMonths(@, steps * 12)]

-----------------------------------------------------------------------------
DaysInYear(y) == IF IsLeapYear(y) THEN 366 ELSE 365
DayOfYear(date) == DaysFromEpoch(date) - DaysFromEpoch(FromYmd(date.year, 1, 1)) + 1

(* The week that holds a date belongs to the year its fourth day is in.    *)
WeekOf(date, wkst) ==
  LET pivot == AddDays(date, 3 - WeekOffset(WeekdayOf(date), wkst))
  IN  [year |-> pivot.year, number |-> (DayOfYear(pivot) - 1) \div 7 + 1]

WeeksInWeekYear(y, wkst) ==
  LET last == FromYmd(y, 12, 31)
      holder == WeekOf(last, wkst)
  IN  IF holder.year = y THEN holder.number ELSE WeekOf(AddDays(last, -7), wkst).number

(* Mutant: week one is the week that holds the first of January.           *)
WeekOneStartHoldingFirst(y, wkst) ==
  LET first == FromYmd(y, 1, 1)
  IN  DaysFromEpoch(first) - WeekOffset(WeekdayOf(first), wkst)

WeekOneStart(y, wkst) ==
  LET fourth == FromYmd(y, 1, 4)
  IN  DaysFromEpoch(fourth) - WeekOffset(WeekdayOf(fourth), wkst)

(* The days a period covers: a year of weeks under an expanding BYWEEKNO.  *)
DayExtent(rule, anchor) ==
  LET first(n, length) == n..(n + length - 1)
  IN  CASE rule.freq = "YEARLY" /\ HasPart(rule, "BYWEEKNO") ->
             first(WeekOneStart(anchor.year, rule.wkst),
                   WeeksInWeekYear(anchor.year, rule.wkst) * 7)
        [] rule.freq = "YEARLY" /\ ~HasPart(rule, "BYWEEKNO") ->
             first(DaysFromEpoch(FromYmd(anchor.year, 1, 1)), DaysInYear(anchor.year))
        [] rule.freq = "MONTHLY" ->
             first(DaysFromEpoch(FromYmd(anchor.year, anchor.month, 1)),
                   DaysInMonth(anchor.year, anchor.month))
        [] rule.freq = "WEEKLY" -> first(DaysFromEpoch(WeekOrigin(anchor, rule.wkst)), 7)
        [] rule.freq \in {"DAILY", "HOURLY", "MINUTELY", "SECONDLY"} ->
             {DaysFromEpoch(anchor)}

(* The position among `length` that a signed value names, 0 for none.      *)
PositionNamed(value, length) ==
  LET position == IF value < 0 THEN length + value + 1 ELSE value
  IN  IF position \in 1..length THEN position ELSE 0

Names(values, position, length) == \E v \in values : PositionNamed(v, length) = position

(* The how-manieth of its weekday a date is within the scope, and of how   *)
(* many.                                                                   *)
WeekdayPosition(date, scope, wkst) ==
  LET offset == CASE scope = "week"  -> WeekOffset(WeekdayOf(date), wkst)
                  [] scope = "month" -> date.day - 1
                  [] scope = "year"  -> DayOfYear(date) - 1
      length == CASE scope = "week"  -> 7
                  [] scope = "month" -> DaysInMonth(date.year, date.month)
                  [] scope = "year"  -> DaysInYear(date.year)
  IN  <<offset \div 7 + 1, (length - (offset % 7) - 1) \div 7 + 1>>

(* BYDAY lists <<ordinal, weekday>>, the ordinal 0 when none is written.   *)
WeekdayMatches(date, rule) ==
  LET scope == WeekdayScope(rule.freq, Present(rule))
  IN  \E day \in rule.by["BYDAY"] :
        /\ day[2] = WeekdayOf(date)
        /\ day[1] # 0 /\ scope # "none" =>
             LET at == WeekdayPosition(date, scope, rule.wkst)
             IN  PositionNamed(day[1], at[2]) = at[1]

DatePartMatches(part, date, rule) ==
  CASE part = "BYMONTH"    -> date.month \in rule.by[part]
    [] part = "BYWEEKNO"   ->
         LET week == WeekOf(date, rule.wkst)
         IN  Names(rule.by[part], week.number, WeeksInWeekYear(week.year, rule.wkst))
    [] part = "BYYEARDAY"  -> Names(rule.by[part], DayOfYear(date), DaysInYear(date.year))
    [] part = "BYMONTHDAY" ->
         Names(rule.by[part], date.day, DaysInMonth(date.year, date.month))
    [] part = "BYDAY"      -> WeekdayMatches(date, rule)

(* A part the table marks N/A for the frequency does nothing.              *)
Applies(rule) ==
  {part \in DateParts : HasPart(rule, part)
     /\ rule.freq \in Limiting(part) \cup Expanding(part)}

(* The narrowest span a part that expands leaves to DTSTART's day.         *)
DefaultDayMatches(rule, date, start) ==
  CASE rule.freq = "YEARLY" /\ HasPart(rule, "BYWEEKNO") -> WeekdayOf(date) = WeekdayOf(start)
    [] rule.freq = "YEARLY" /\ ~HasPart(rule, "BYWEEKNO") /\ HasPart(rule, "BYMONTH") ->
         date.day = start.day
    [] rule.freq = "YEARLY" /\ ~HasPart(rule, "BYWEEKNO") /\ ~HasPart(rule, "BYMONTH") ->
         date.month = start.month /\ date.day = start.day
    [] rule.freq = "MONTHLY" -> date.day = start.day
    [] rule.freq = "WEEKLY"  -> WeekdayOf(date) = WeekdayOf(start)
    [] rule.freq \in {"DAILY", "HOURLY", "MINUTELY", "SECONDLY"} -> TRUE

NamesDays(rule) ==
  \E part \in {"BYYEARDAY", "BYMONTHDAY", "BYDAY"} :
    HasPart(rule, part) /\ Expands(rule.freq, part, Present(rule))

PeriodDays(rule, anchor, start) ==
  {n \in DayExtent(rule, anchor) :
     LET date == FromDays(n)
     IN  /\ \A part \in Applies(rule) : DatePartMatches(part, date, rule)
         /\ ~NamesDays(rule) => DefaultDayMatches(rule, date, start)}

-----------------------------------------------------------------------------
(* The clock a period starts from: its anchor's as far as the frequency    *)
(* reaches, DTSTART's below that.                                          *)
SeedTime(freq, anchor, start) ==
  [hour   |-> IF freq \in {"SECONDLY", "MINUTELY", "HOURLY"} THEN anchor.hour ELSE start.hour,
   minute |-> IF freq \in {"SECONDLY", "MINUTELY"} THEN anchor.minute ELSE start.minute,
   second |-> IF freq = "SECONDLY" THEN anchor.second ELSE start.second]

(* One time part: the clocks it leaves, or the ones it spreads into.       *)
WithPart(rule, part, field, clocks) ==
  IF ~HasPart(rule, part) THEN clocks
  ELSE IF rule.freq \in Limiting(part) THEN {c \in clocks : c[field] \in rule.by[part]}
  ELSE {[c EXCEPT ![field] = v] : c \in clocks, v \in rule.by[part]}

PeriodTimes(rule, anchor, start) ==
  LET hours   == WithPart(rule, "BYHOUR", "hour", {SeedTime(rule.freq, anchor, start)})
      minutes == WithPart(rule, "BYMINUTE", "minute", hours)
  IN  WithPart(rule, "BYSECOND", "second", minutes)

ExpandPeriod(rule, dtstart, index) ==
  LET anchor == AnchorOfPeriod(rule, dtstart, index)
  IN  PeriodDays(rule, anchor.date, dtstart.date)
        \X PeriodTimes(rule, anchor.clock, dtstart.clock)

(* Stamps in the order of the calendar; a leap second comes after :59.     *)
Rank(stamp) ==
  ((stamp[1] * 24 + stamp[2].hour) * 60 + stamp[2].minute) * 61 + stamp[2].second

(* The candidate at an index of the ascending period.                      *)
CandidateAt(set, index) ==
  CHOOSE s \in set : Cardinality({t \in set : Rank(t) < Rank(s)}) = index - 1

(* setpos::resolve: from the front, or from the back, or nothing.          *)
Resolve(nth, extent) ==
  IF nth > 0 /\ nth <= extent THEN nth
  ELSE IF nth < 0 /\ -nth <= extent THEN extent + nth + 1 ELSE 0

Select(set, positions) ==
  IF positions = {} THEN set
  ELSE {CandidateAt(set, i) :
          i \in {Resolve(nth, Cardinality(set)) : nth \in positions} \ {0}}
=============================================================================
