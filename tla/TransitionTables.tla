--------------------------- MODULE TransitionTables -------------------------
(***************************************************************************)
(* A VTIMEZONE read into a table of observances, and what the table says   *)
(* of a wall clock and of an instant (internal/tz: reader, model, rules,   *)
(* resolve, answer, seam).  A definition is the sequence of its STANDARD   *)
(* and DAYLIGHT subcomponents, each with its DTSTART, its RRULEs (texts of *)
(* RuleText) and its RDATEs; a value that does not decode is NoValue.      *)
(***************************************************************************)
EXTENDS RulePeriods
LOCAL INSTANCE SequencesExt
LOCAL INSTANCE FiniteSetsExt

NoValue == [form |-> "none"]
NoRule  == [month |-> 0]
Endless == 10000000    \* later than every day number

Nominal(local) == AtOffset(local, 0)
WallClock(at) == FromInstant(at, 0)

-----------------------------------------------------------------------------
(* The reader of an observance.  A value is local, in UTC or a whole day.  *)
ClockBefore(value, from) ==
  CASE value.form = "local" -> value.stamp
    [] value.form = "utc"   -> FromInstant(Nominal(value.stamp), from)
    [] value.form \in {"date", "none"} -> NoValue

UntilDay(value, from) ==
  DaysFromEpoch((IF value.form = "date" THEN value.stamp ELSE ClockBefore(value, from)).date)

(* take_part: what the closed form can say.                                *)
Understood(part) ==
  LET value == part[2]
  IN  CASE part[1] = "FREQ"     -> value = "YEARLY"
        [] part[1] = "INTERVAL" -> value = 1
        [] part[1] = "WKST"     -> TRUE
        [] part[1] \in {"BYMONTH", "BYDAY"} -> Cardinality(value) = 1
        [] part[1] = "BYMONTHDAY" -> value # {}
        [] part[1] = "UNTIL"    -> value # NoValue
        [] OTHER -> FALSE

(* The form a rule's day takes: nth_form, window_form and fixed_form.      *)
WindowForm(weekday, low, highest) ==
  IF highest = -1 THEN [form |-> "nth", weekday |-> weekday, week |-> -1]
  ELSE IF low < 1 THEN NoValue
  ELSE IF highest = 31 THEN [form |-> "before", weekday |-> weekday, day |-> 31]
  ELSE [form |-> "after", weekday |-> weekday, day |-> low]

IsWeekOfDays(days) == Cardinality(days) = 7 /\ days = Min(days)..Max(days)

NthForm(term) ==
  IF term[1] \in {1, 2, 3, 4, 5, -1}
  THEN [form |-> "nth", weekday |-> term[2], week |-> term[1]] ELSE NoValue

FixedForm(day) ==
  IF day = -1 THEN [form |-> "last"]
  ELSE IF day < 0 THEN NoValue ELSE [form |-> "day", day |-> day]

DayFormOf(days, term, start) ==
  CASE term # NoValue /\ days = {} -> NthForm(term)
    [] term # NoValue /\ days # {} ->
         IF term[1] = 0 /\ IsWeekOfDays(days) THEN WindowForm(term[2], Min(days), Max(days))
         ELSE NoValue
    [] term = NoValue /\ days = {} -> [form |-> "day", day |-> start.date.day]
    [] term = NoValue /\ days # {} ->
         IF Cardinality(days) = 1 THEN FixedForm(Min(days)) ELSE NoValue

DayForm(text, start) ==
  DayFormOf(UNION {text[i][2] : i \in Written(text, "BYMONTHDAY")},
            IF Written(text, "BYDAY") = {} THEN NoValue
            ELSE CHOOSE t \in ValueOf(text, "BYDAY") : TRUE, start)

(* read_rule and parse_rule: one rule, of parts all understood, or none.   *)
ParseRule(text, day, start, from) ==
  IF day = NoValue THEN NoRule
  ELSE [month |-> IF Written(text, "BYMONTH") = {} THEN start.date.month
                  ELSE Min(ValueOf(text, "BYMONTH")),
        day |-> day, at |-> start.clock,
        through |-> IF Written(text, "UNTIL") = {} THEN Endless
                    ELSE UntilDay(ValueOf(text, "UNTIL"), from)]

ReadZoneRule(rrules, start, from) ==
  IF \/ Len(rrules) # 1
     \/ \E i \in DOMAIN rrules[1] : ~Understood(rrules[1][i])
     \/ Written(rrules[1], "FREQ") = {}
  THEN NoRule ELSE ParseRule(rrules[1], DayForm(rrules[1], start), start, from)

Observance(component, start, rule) ==
  [start |-> start, from |-> component.from, to |-> component.to,
   daylight |-> component.daylight, rule |-> rule]

RuledObservance(component, start) ==
  Observance(component, start, ReadZoneRule(component.rrules, start, component.from))

(* The clocks a component states; a value that names none is passed over.  *)
ClocksStated(component, values) ==
  SelectSeq([i \in DOMAIN values |-> ClockBefore(values[i], component.from)],
            LAMBDA stamp : stamp # NoValue)

(* read_transitions: DTSTART with the rule, then every RDATE without it.   *)
ReadTransitions(component) ==
  LET starts == ClocksStated(component, <<component.dtstart>>)
      dated == ClocksStated(component, component.rdates)
  IN  [i \in DOMAIN starts |-> RuledObservance(component, starts[i])]
      \o [i \in DOMAIN dated |-> Observance(component, dated[i], NoRule)]

ReadDefinition(definition) ==
  FlattenSeq([i \in DOMAIN definition |-> ReadTransitions(definition[i])])

-----------------------------------------------------------------------------
(* A rule evaluated in one year; NoDate where it names no day.             *)
DaysOn(date, n) == IF date = NoDate THEN NoDate ELSE FromYmd(date.year, date.month, date.day + n)

OnOrAfterDate(date, weekday) == DaysOn(date, (weekday - WeekdayOf(date)) % 7)
OnOrBeforeDate(date, weekday) == DaysOn(date, -((WeekdayOf(date) - weekday) % 7))

OnOrAfter(y, m, weekday, day) == OnOrAfterDate(FromYmd(y, m, day), weekday)
OnOrBefore(y, m, weekday, day) == OnOrBeforeDate(FromYmd(y, m, Min({day, DaysInMonth(y, m)})), weekday)

DayInMonth(y, m, form) ==
  CASE form.form = "day"    -> FromYmd(y, m, form.day)
    [] form.form = "last"   -> FromYmd(y, m, DaysInMonth(y, m))
    [] form.form = "nth"    ->
         IF form.week = -1 THEN OnOrBefore(y, m, form.weekday, DaysInMonth(y, m))
         ELSE OnOrAfter(y, m, form.weekday, 7 * form.week - 6)
    [] form.form = "after"  -> OnOrAfter(y, m, form.weekday, form.day)
    [] form.form = "before" -> OnOrBefore(y, m, form.weekday, form.day)

(* occurrence_in: UNTIL is a date and not a year.                          *)
NoLaterThan(date, through) == IF DaysFromEpoch(date) <= through THEN date ELSE NoDate

OccurrenceIn(rule, y) == NoLaterThan(DayInMonth(y, rule.month, rule.day), rule.through)

(* transition_in, for an observance with a rule: its DTSTART stands where  *)
(* the rule names nothing, or something earlier.                           *)
NotBeforeStart(start, y, onset) ==
  IF onset.date # NoDate /\ Nominal(onset) >= Nominal(start) THEN onset
  ELSE IF start.date.year = y THEN start ELSE NoValue

TransitionIn(observance, y) ==
  NotBeforeStart(observance.start, y,
                 [date |-> OccurrenceIn(observance.rule, y), clock |-> observance.rule.at])

OnsetOf(observance) == AtOffset(observance.start, observance.from)

(* The rule's onset of a year, as a set of none or one.                    *)
InstantOf(local, from) == IF local = NoValue THEN {} ELSE {AtOffset(local, from)}

RuleOnset(observance, y) ==
  IF y < observance.start.date.year THEN {}
  ELSE InstantOf(TransitionIn(observance, y), observance.from)

-----------------------------------------------------------------------------
(* The table: sorted by the instants observances begin, cut off at the     *)
(* caller's bound.  (Two that begin at one instant are told apart by what  *)
(* else they say; no definition here has such a pair.)                     *)
IsRuled(observance) == observance.rule # NoRule

CoveredThrough(observance) ==
  IF IsRuled(observance) THEN observance.rule.through ELSE DaysFromEpoch(observance.start.date)

(* A zone knows its future when each side it has goes on forever.          *)
CoverageEnd(observances) ==
  LET covered(daylight) ==
        {CoveredThrough(o) : o \in {p \in ToSet(observances) : p.daylight = daylight}}
      dates == (covered(TRUE) \cup covered(FALSE)) \ {Endless}
  IN  IF \A daylight \in BOOLEAN : covered(daylight) # {} => Endless \in covered(daylight)
      THEN Endless ELSE Max(dates)

Sorted(observances) == SortSeq(observances, LAMBDA one, other : OnsetOf(one) < OnsetOf(other))
UpTo(observances, limit) == SubSeq(observances, 1, Min({limit, Len(observances)}))

TableOf(kept) ==
  [observances |-> kept, rules |-> SelectSeq(kept, IsRuled),
   coverageEnd |-> CoverageEnd(kept),
   coverageStart |-> IF kept = << >> THEN 0 ELSE DaysFromEpoch(kept[1].start.date)]

(* Mutant: cut off before it is sorted.                                    *)
TransitionTableOfFirst(observances, limit) == TableOf(Sorted(UpTo(observances, limit)))

TransitionTable(observances, limit) == TableOf(UpTo(Sorted(observances), limit))

-----------------------------------------------------------------------------
(* latest_onset_at_or_before: the dated onset found by the search, then    *)
(* every rule; a rule wins a tie, the later rule over the earlier.         *)
RuleProbeYears == 64

YearAt(at) == WallClock(at).date.year

LastProbe(through, reachable) ==
  IF through = Endless THEN reachable ELSE Min({FromDays(through).year, reachable})

ProbedYears(first, last) == Max({first, last - RuleProbeYears + 1})..last

OnlyLatest(onsets) == IF onsets = {} THEN {} ELSE {Max(onsets)}

LatestRuleOnset(observance, at) ==
  OnlyLatest({o \in UNION {RuleOnset(observance, y) :
                y \in ProbedYears(observance.start.date.year,
                                  LastProbe(observance.rule.through, YearAt(at) + 1))} : o <= at})

BegunBy(table, at) ==
  LET dated == {i \in DOMAIN table.observances : OnsetOf(table.observances[i]) <= at}
  IN  {[onset |-> OnsetOf(table.observances[i]), place |-> 0, by |-> table.observances[i]] :
         i \in IF dated = {} THEN {} ELSE {Max(dated)}}
      \cup UNION {{[onset |-> o, place |-> i, by |-> table.rules[i]] :
                     o \in LatestRuleOnset(table.rules[i], at)} : i \in DOMAIN table.rules}

(* era_at: before the first onset, what the first observance replaced.     *)
EraBegun(begun, first) ==
  LET latest == CHOOSE e \in begun :
                  \A f \in begun : f.onset < e.onset \/ (f.onset = e.onset /\ f.place <= e.place)
  IN  IF begun = {} THEN [offset |-> first.from, daylight |-> FALSE]
      ELSE [offset |-> latest.by.to, daylight |-> latest.by.daylight]

EraAt(table, at) == EraBegun(BegunBy(table, at), table.observances[1])

(* Mutant: the rules are asked about the year the window opens in alone.    *)
OnsetsBetweenItsYears(table, from, to) ==
  {o \in {OnsetOf(e) : e \in ToSet(table.observances)}
         \cup UNION {RuleOnset(e, y) : e \in ToSet(table.rules), y \in {YearAt(from)}} :
     o > from /\ o <= to}

OnsetsBetween(table, from, to) ==
  {o \in {OnsetOf(e) : e \in ToSet(table.observances)}
         \cup UNION {RuleOnset(e, y) :
                       e \in ToSet(table.rules), y \in (YearAt(from) - 1)..(YearAt(to) + 1)} :
     o > from /\ o <= to}

-----------------------------------------------------------------------------
(* resolution_of: the readings of a wall clock that govern themselves,     *)
(* within a day either side, or the transition that sprang over it.        *)
Undetermined == [kind |-> "undetermined"]
Reading(at, offset, daylight) == [instant |-> at, offset |-> offset, daylight |-> daylight]

(* The eras of the window: in force where it opens and from each onset on.  *)
ErasOf(table, opens, onsets) == [at \in {opens} \cup onsets |-> EraAt(table, at)]

EraBefore(eras, onset) == eras[Max({at \in DOMAIN eras : at < onset})]

SelfConsistent(at, era, landed) ==
  IF landed.offset = era.offset THEN {Reading(at, era.offset, landed.daylight)} ELSE {}

ReadingsOf(table, local, eras) ==
  UNION {SelfConsistent(AtOffset(local, era.offset), era, EraAt(table, AtOffset(local, era.offset))) :
           era \in {eras[at] : at \in DOMAIN eras}}

(* The transitions, of those of the window, that sprang over the clock.    *)
SprangOver(local, opens, eras) ==
  {o \in DOMAIN eras \ {opens} :
     Nominal(local) \in (o + EraBefore(eras, o).offset)..(o + eras[o].offset - 1)}

Nonexistent(local, before, after, o) ==
  [kind |-> "nonexistent", gapStart |-> o - 1, gapEnd |-> o,
   before |-> before.offset, after |-> after.offset, shifted |-> AtOffset(local, before.offset)]

ReadAs(readings) ==
  LET earliest == CHOOSE r \in readings : \A s \in readings : r.instant <= s.instant
      latest == CHOOSE r \in readings : \A s \in readings : r.instant >= s.instant
  IN  IF Cardinality(readings) = 1 THEN [kind |-> "unique", reading |-> earliest]
      ELSE [kind |-> "ambiguous", earlier |-> earliest, later |-> latest]

SkippedBy(local, eras, o) == Nonexistent(local, EraBefore(eras, o), eras[o], o)

ReadBy(local, era) ==
  [kind |-> "unique",
   reading |-> Reading(AtOffset(local, era.offset), era.offset, era.daylight)]

ResolvedIn(local, opens, eras, readings, over) ==
  IF readings # {} THEN ReadAs(readings)
  ELSE IF over # {} THEN SkippedBy(local, eras, Min(over))
  ELSE ReadBy(local, eras[opens])

ResolutionThrough(table, local, opens, eras) ==
  ResolvedIn(local, opens, eras, ReadingsOf(table, local, eras), SprangOver(local, opens, eras))

ResolutionAround(table, local, opens) ==
  ResolutionThrough(table, local, opens,
                    ErasOf(table, opens, OnsetsBetween(table, opens, opens + 172800)))

ResolutionOf(table, local) ==
  IF table.observances = << >> THEN Undetermined
  ELSE ResolutionAround(table, local, Nominal(local) - 86400)

(* basis_for *)
BasisFor(table, day) ==
  IF table.observances # << >> /\ day < table.coverageStart THEN "before"
  ELSE IF day > table.coverageEnd THEN "beyond" ELSE "computed"

(* LocalResolution::pick, as a set of none or one.                         *)
Pick(resolution, gaps, folds) ==
  CASE resolution.kind = "unique" -> {resolution.reading.instant}
    [] resolution.kind = "ambiguous" ->
         {(IF folds = "earlier" THEN resolution.earlier ELSE resolution.later).instant}
    [] resolution.kind = "nonexistent" /\ gaps = "shift" -> {resolution.shifted}
    [] resolution.kind = "nonexistent" /\ gaps = "clamp" -> {resolution.gapEnd}
    [] resolution.kind = "nonexistent" /\ gaps = "skip"  -> {}
    [] resolution.kind = "undetermined" -> {}
=============================================================================
