--------------------------- MODULE RecurrenceRules --------------------------
(***************************************************************************)
(* A RECUR value read into a rule and opened one period after another, set *)
(* against the recurrence rule as RFC 5545 words it: which days, which     *)
(* clocks, counted one by one and without any notion of a period's extent. *)
(***************************************************************************)
EXTENDS RulePeriods

CONSTANTS Texts, Starts, MaxPeriods

ASSUME PeriodsAssumption == MaxPeriods \in Nat

VARIABLES recur, startStamp, series, turn, found

vars == <<recur, startStamp, series, turn, found>>

Unread == [freq |-> "unread"]

Init ==
  /\ recur \in Texts /\ startStamp \in Starts
  /\ series = Unread /\ turn = 0 /\ found = {}

Read ==
  /\ series = Unread
  /\ series' = LenientRead(recur)
  /\ UNCHANGED <<recur, startStamp, turn, found>>

(* PeriodWalk::next and expand_period.                                     *)
OpenPeriod ==
  /\ series.freq \in Freqs /\ turn < MaxPeriods
  /\ found' = ExpandPeriod(series, startStamp, turn)
  /\ turn' = turn + 1
  /\ UNCHANGED <<recur, startStamp, series>>

Next == Read \/ OpenPeriod

Spec == Init /\ [][Next]_vars

Opened == series.freq \in Freqs /\ turn > 0

-----------------------------------------------------------------------------
(* The definition by counting.  A week belongs to the year that has at     *)
(* least four of its days; an ordinal counts the weekdays of its scope.    *)
Day0 == DaysFromEpoch(startStamp.date)
Years == 2012..2030
NewYear == [y \in Years |-> DaysFromEpoch(FromYmd(y, 1, 1))]
WeekStarts ==
  [y \in 2013..2029, w \in 0..6 |->
     {n \in (NewYear[y] - 7)..(NewYear[y + 1] + 7) :
        /\ (n + 3) % 7 = w
        /\ Cardinality({d \in n..(n + 6) : d >= NewYear[y] /\ d < NewYear[y + 1]}) >= 4}]

WeekStartOf(n) == CHOOSE s \in (n - 6)..n : (s + 3) % 7 = series.wkst
WeekYearOf(n) ==
  LET s == WeekStartOf(n)
      y == FromDays(n).year
  IN  CHOOSE z \in (y - 1)..(y + 1) : s \in WeekStarts[z, series.wkst]

UsesWeeks == series.freq = "YEARLY" /\ HasPart(series, "BYWEEKNO")

(* In which period, counted from DTSTART's, a day is (a part of a day for  *)
(* the frequencies below it).                                              *)
DayPeriod(n) ==
  LET d == FromDays(n)
  IN  CASE series.freq = "YEARLY" /\ UsesWeeks -> WeekYearOf(n) - startStamp.date.year
        [] series.freq = "YEARLY" /\ ~UsesWeeks -> d.year - startStamp.date.year
        [] series.freq = "MONTHLY" ->
             (d.year - startStamp.date.year) * 12 + d.month - startStamp.date.month
        [] series.freq = "WEEKLY" -> (WeekStartOf(n) - WeekStartOf(Day0)) \div 7
        [] series.freq = "DAILY" -> n - Day0
ClockPeriod(n, c) ==
  LET hours == (n - Day0) * 24 + c.hour - startStamp.clock.hour
      minutes == hours * 60 + c.minute - startStamp.clock.minute
  IN  CASE series.freq = "HOURLY" -> hours
        [] series.freq = "MINUTELY" -> minutes
        [] series.freq = "SECONDLY" -> minutes * 60 + c.second - startStamp.clock.second
SubDaily == series.freq \in {"HOURLY", "MINUTELY", "SECONDLY"}
InPeriod(n, c) ==
  (IF SubDaily THEN ClockPeriod(n, c) ELSE DayPeriod(n)) = (turn - 1) * series.interval

(* A position counted from the front, or, when negative, from the back.    *)
Listed(values, before, after) == before + 1 \in values \/ -(after + 1) \in values

CountsIn(scope, n, weekday) == {m \in scope : (m + 3) % 7 = weekday}
ScopeDays(n) ==
  LET d == FromDays(n)
      present == Present(series)
  IN  IF UsesWeeks THEN WeekStartOf(n)..(WeekStartOf(n) + 6)
      ELSE IF series.freq = "MONTHLY" \/ "BYMONTH" \in present
        THEN (n - d.day + 1)..(n - d.day + DaysInMonth(d.year, d.month))
      ELSE NewYear[d.year]..(NewYear[d.year + 1] - 1)
WeekdayListed(n) ==
  \E day \in series.by["BYDAY"] :
    /\ (n + 3) % 7 = day[2]
    /\ \/ day[1] = 0 \/ series.freq \notin {"MONTHLY", "YEARLY"}
       \/ LET same == CountsIn(ScopeDays(n), n, day[2])
          IN  Listed({day[1]}, Cardinality({m \in same : m < n}),
                               Cardinality({m \in same : m > n}))

(* What the rule leaves open is DTSTART's.                                 *)
LeftToStart(n) ==
  LET d == FromDays(n)
      s == startStamp.date
      present == Present(series)
  IN  CASE series.freq = "YEARLY" ->
             present \cap {"BYYEARDAY", "BYMONTHDAY", "BYDAY"} = {} =>
               IF UsesWeeks THEN (n + 3) % 7 = (Day0 + 3) % 7
               ELSE d.day = s.day /\ ("BYMONTH" \in present \/ d.month = s.month)
        [] series.freq = "MONTHLY" ->
             present \cap {"BYMONTHDAY", "BYDAY"} = {} => d.day = s.day
        [] series.freq = "WEEKLY" -> "BYDAY" \notin present => (n + 3) % 7 = (Day0 + 3) % 7
        [] series.freq \notin {"YEARLY", "MONTHLY", "WEEKLY"} -> TRUE

DayOfRule(n) ==
  LET d == FromDays(n)
      has(part) == HasPart(series, part)
  IN  /\ has("BYMONTH") => d.month \in series.by["BYMONTH"]
      /\ UsesWeeks =>
           LET weeks == WeekStarts[WeekYearOf(n), series.wkst]
           IN  Listed(series.by["BYWEEKNO"], Cardinality({w \in weeks : w < WeekStartOf(n)}),
                      Cardinality({w \in weeks : w > WeekStartOf(n)}))
      /\ has("BYYEARDAY") /\ series.freq \notin {"DAILY", "WEEKLY", "MONTHLY"} =>
           Listed(series.by["BYYEARDAY"], n - NewYear[d.year], NewYear[d.year + 1] - 1 - n)
      /\ has("BYMONTHDAY") /\ series.freq # "WEEKLY" =>
           Listed(series.by["BYMONTHDAY"], d.day - 1, DaysInMonth(d.year, d.month) - d.day)
      /\ has("BYDAY") => WeekdayListed(n)
      /\ LeftToStart(n)

(* The clocks of a day: each field listed, or the start's, or, for a       *)
(* frequency that walks the field, any.                                    *)
FieldOfRule(part, field, walking, value) ==
  IF HasPart(series, part) THEN value \in series.by[part]
  ELSE series.freq \in walking \/ value = startStamp.clock[field]
Minutes == {0, 15, 30, 31, 45, 59}
Seconds == {0, 30}
ClocksOfRule ==
  {c \in [hour : 0..23, minute : Minutes, second : Seconds] :
     /\ FieldOfRule("BYHOUR", "hour", {"HOURLY", "MINUTELY", "SECONDLY"}, c.hour)
     /\ FieldOfRule("BYMINUTE", "minute", {"MINUTELY", "SECONDLY"}, c.minute)
     /\ FieldOfRule("BYSECOND", "second", {"SECONDLY"}, c.second)}

Reach == CASE series.freq = "YEARLY" -> 374 [] series.freq = "MONTHLY" -> 32
           [] series.freq = "WEEKLY" -> 8 [] OTHER -> 2
DaysAround ==
  LET anchor == DaysFromEpoch(AnchorOfPeriod(series, startStamp, turn - 1).date)
  IN  (anchor - 8)..(anchor + Reach)

RuleStamps ==
  IF SubDaily
  THEN {s \in {n \in DaysAround : DayOfRule(n)} \X ClocksOfRule : InPeriod(s[1], s[2])}
  ELSE {n \in DaysAround : InPeriod(n, Midnight) /\ DayOfRule(n)} \X ClocksOfRule

-----------------------------------------------------------------------------
(* A period holds exactly the days and clocks the rule's words give it:    *)
(* ordinals and negative positions from either end, years of 52 and 53     *)
(* weeks beginning on any weekday, leap days, and everything left open     *)
(* taken from DTSTART (byparts::expand_period, table::effect); and of      *)
(* these BYSETPOS keeps the n-th from the front, or for -n from the back,  *)
(* and nothing when there are fewer (setpos::select).                      *)
PeriodIsRuleSet ==
  Opened =>
    /\ found = RuleStamps
    /\ HasPart(series, "BYSETPOS") =>
         Select(found, series.by["BYSETPOS"]) =
           {s \in found : Listed(series.by["BYSETPOS"],
                                 Cardinality({t \in found : Rank(t) < Rank(s)}),
                                 Cardinality({t \in found : Rank(t) > Rank(s)}))}

(* The two readers agree: what the strict one accepts the lenient one      *)
(* reads the same, and what Rule::parse has nothing against the strict one *)
(* accepts too, once FREQ comes first and every part is known.             *)
ReadersAgree ==
  LET known(part) == part[1] \in ByParts \cup Scalars \cup {"FREQ"}
      strict == StrictRead(recur)
      parsed == RuleParse(recur)
  IN  /\ strict # Refused => strict = LenientRead(recur)
      /\ parsed # Refused /\ recur[1][1] = "FREQ" /\ (\A i \in DOMAIN recur : known(recur[i])) =>
           strict = parsed
=============================================================================
