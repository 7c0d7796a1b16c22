------------------------------- MODULE Civil --------------------------------
(***************************************************************************)
(* Calendar arithmetic of internal/core (gregorian, arith).  A date is a   *)
(* record of year, month and day, a clock a record of hour, minute and     *)
(* second; an operation that answers None answers NoDate.                  *)
(***************************************************************************)
EXTENDS Integers

MaxYear == 9999
NoDate  == [year |-> -1, month |-> 0, day |-> 0]

IsLeapYear(y) == y % 4 = 0 /\ (y % 100 # 0 \/ y % 400 = 0)

DaysInMonth(y, m) ==
  CASE m \in {1, 3, 5, 7, 8, 10, 12} -> 31
    [] m \in {4, 6, 9, 11}           -> 30
    [] m = 2 -> IF IsLeapYear(y) THEN 29 ELSE 28

FromYmd(y, m, d) ==
  IF y \in 0..MaxYear /\ m \in 1..12 /\ d >= 1 /\ d <= DaysInMonth(y, m)
  THEN [year |-> y, month |-> m, day |-> d] ELSE NoDate

(* The days of a year that begins in March before month m's day d.         *)
DayOfYearFromMarch(m, d) == (((m + 9) % 12) * 153 + 2) \div 5 + d - 1

(* Days since 1970-01-01.                                                  *)
DaysFromMarchYear(shifted, doy) ==
  LET yoe == shifted % 400
  IN  (shifted \div 400) * 146097 + yoe * 365 + yoe \div 4 - yoe \div 100 + doy - 719468

DaysFromEpoch(date) ==
  DaysFromMarchYear(IF date.month <= 2 THEN date.year - 1 ELSE date.year,
                    DayOfYearFromMarch(date.month, date.day))

YearOfEraHolding(doe) ==
  (doe - doe \div 1460 + doe \div 36524 - doe \div 146096) \div 365

FromMarchMonth(shifted, index, doy) ==
  FromYmd(IF index < 10 THEN shifted ELSE shifted + 1,
          IF index < 10 THEN index + 3 ELSE index - 9, doy - (index * 153 + 2) \div 5 + 1)

FromMarchYear(shifted, doy) == FromMarchMonth(shifted, (doy * 5 + 2) \div 153, doy)

FromYearOfEra(era, doe, yoe) ==
  FromMarchYear(era * 400 + yoe, doe - yoe * 365 - yoe \div 4 + yoe \div 100)

FromDayOfEra(era, doe) == FromYearOfEra(era, doe, YearOfEraHolding(doe))

FromDays(days) == FromDayOfEra((days + 719468) \div 146097, (days + 719468) % 146097)

(* Monday is 0; the epoch was a Thursday.                                  *)
WeekdayOf(date) == (DaysFromEpoch(date) + 3) % 7

AddDays(date, n) == FromDays(DaysFromEpoch(date) + n)

(* The day of the month, clamped to the length of the month it lands in.   *)
AddMonths(date, n) ==
  LET total == date.year * 12 + date.month - 1 + n
      year == total \div 12
      month == (total % 12) + 1
  IN  IF year \notin 0..MaxYear THEN NoDate
      ELSE IF date.day <= DaysInMonth(year, month) THEN FromYmd(year, month, date.day)
           ELSE FromYmd(year, month, DaysInMonth(year, month))

(* A leap second counts as the second before it.                           *)
SecondsOfDay(clock) ==
  clock.hour * 3600 + clock.minute * 60 + (IF clock.second > 59 THEN 59 ELSE clock.second)

TimeOfDay(n) == [hour |-> n \div 3600, minute |-> (n \div 60) % 60, second |-> n % 60]

(* Instants on a stamp's own clock, and the stamp that is so many seconds on. *)
AtOffset(stamp, offset) ==
  DaysFromEpoch(stamp.date) * 86400 + SecondsOfDay(stamp.clock) - offset

FromInstant(at, offset) ==
  [date |-> FromDays((at + offset) \div 86400), clock |-> TimeOfDay((at + offset) % 86400)]

AddDuration(stamp, days, seconds) ==
  LET second == SecondsOfDay(stamp.clock) + seconds
  IN  [date  |-> FromDays(DaysFromEpoch(stamp.date) + days + second \div 86400),
       clock |-> TimeOfDay(second % 86400)]
=============================================================================
