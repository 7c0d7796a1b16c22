--------------------------- MODULE TimeRangeFilter --------------------------
(***************************************************************************)
(* A CALDAV:time-range asked of a recurring component (internal/query):    *)
(* the prefilter, which bounds where the series may lie without expanding  *)
(* it, beside the walk, which expands it, places every occurrence in the   *)
(* zone and compares each with the range.                                  *)
(***************************************************************************)
EXTENDS ZonedSeries
LOCAL INSTANCE FiniteSetsExt

(* What a component says beside its DTSTART and its RRULE:                 *)
(* [kind, clock, ending, rdates].  The clock is that of DTSTART: "utc",    *)
(* "zoned", or "date" for a DATE, which is read in the same zone.  The     *)
(* ending is [says |-> "nothing"], a "duration" of so many seconds, or a   *)
(* "dtend" so many seconds behind DTSTART's stamp, written as the form     *)
(* says.  The rdates are seconds behind DTSTART.                           *)
CONSTANT Components

(* nominal_of: a DATE begins at midnight.                                  *)
OpeningOf(component) ==
  IF component.clock = "date" THEN [startStamp EXCEPT !.clock = Midnight] ELSE startStamp

Opens(component) == Nominal(OpeningOf(component))

(* bare_seconds: without a stated end, a DATE lasts its day.               *)
BareSeconds(component) == IF component.clock = "date" THEN 86400 ELSE 0

-----------------------------------------------------------------------------
(* The prefilter.  What it cannot say is the empty set.                    *)
SlackSeconds == 172800

Earliest(resolution) ==
  CASE resolution.kind = "unique"    -> {resolution.reading.instant}
    [] resolution.kind = "ambiguous" -> {resolution.earlier.instant}
    [] resolution.kind \in {"nonexistent", "undetermined"} -> {}

PlacedFirst(component) ==
  IF component.clock = "utc" THEN {Opens(component)}
  ELSE Earliest(ResolutionOf(zoneTable, OpeningOf(component)))

(* How long one instance lasts, every stamp read at UTC, and whether that  *)
(* is what it lasts.                                                       *)
Extent(component) ==
  CASE component.kind = "VEVENT" /\ component.ending.says = "dtend" ->
         [seconds |-> Max({component.ending.seconds, 0}), exact |-> component.ending.form = "utc"]
    [] component.kind = "VEVENT" /\ component.ending.says = "duration" ->
         [seconds |-> Max({component.ending.seconds, 0}), exact |-> TRUE]
    [] component.kind = "VJOURNAL" \/ component.ending.says = "nothing" ->
         [seconds |-> BareSeconds(component), exact |-> TRUE]

(* Mutant: every month is taken to have the day the series began on.       *)
CadenceSecondsOfEvery(freq, date) ==
  {CASE freq = "SECONDLY" -> 1       [] freq = "MINUTELY" -> 60
     [] freq = "HOURLY"   -> 3600    [] freq = "DAILY"    -> 86400
     [] freq = "WEEKLY"   -> 604800  [] freq = "MONTHLY"  -> 2678400
     [] freq = "YEARLY"   -> 31622400}

(* The most a period advances; nothing where one may pass without a day.   *)
CadenceSeconds(freq, date) ==
  CASE freq = "SECONDLY" -> {1}
    [] freq = "MINUTELY" -> {60}
    [] freq = "HOURLY"   -> {3600}
    [] freq = "DAILY"    -> {86400}
    [] freq = "WEEKLY"   -> {604800}
    [] freq = "MONTHLY"  -> IF date.day <= 28 THEN {2678400} ELSE {}
    [] freq = "YEARLY"   -> IF date.month = 2 /\ date.day = 29 THEN {} ELSE {31622400}

CountReach(rule, count, first) ==
  IF Present(rule) # {} THEN {}
  ELSE {first + (count - 1) * rule.interval * step :
          step \in CadenceSeconds(rule.freq, startStamp.date)}

RuleReach(rule, first) ==
  CASE rule.limit[1] = "none"  -> {}
    [] rule.limit[1] = "until" -> {Max({Nominal(rule.limit[2].stamp), first})}
    [] rule.limit[1] = "count" -> CountReach(rule, rule.limit[2], first)

UntilIsAnchored(rule) == rule.limit[1] = "until" => rule.limit[2].form = "utc"

Slack(component, extent) ==
  IF component.clock = "utc" /\ extent.exact /\ UntilIsAnchored(series) THEN 0 ELSE SlackSeconds

OccupancyFrom(component, first, extent) ==
  [earliestStart |-> first,
   latestEnd |-> {last + extent.seconds + Slack(component, extent) :
                    last \in RuleReach(series, Opens(component))},
   punctual |-> extent.seconds = 0]

Occupancy(component) ==
  IF component.rdates # {} THEN {}
  ELSE {OccupancyFrom(component, first, Extent(component)) : first \in PlacedFirst(component)}

(* A range is [start, end], each the set of the one instant it states.     *)
Outside(occupied, range) ==
  \/ \E edge \in range.end : occupied.earliestStart >= edge
  \/ \E edge \in range.start, last \in occupied.latestEnd :
       IF occupied.punctual THEN last < edge ELSE last <= edge

-----------------------------------------------------------------------------
(* The walk.  SeriesClock::place and admits: a key without an instant is   *)
(* no occurrence, and COUNT does not count it.                             *)
Place(component, at) ==
  IF component.clock = "utc" THEN {at}
  ELSE Pick(ResolutionOf(zoneTable, WallClock(at)), Zones[zone].gaps, Zones[zone].folds)

(* nominal_value: a stamp of the series' own clock, or an instant put on it. *)
OnClock(component, form, at) ==
  IF form = "utc" /\ component.clock # "utc" THEN ToNominal(at) ELSE at

(* instance_span; a component that ends before it begins is not decided.   *)
StatedSpan(component) ==
  LET opens == Opens(component)
  IN  CASE component.kind = "VEVENT" /\ component.ending.says = "dtend" ->
             OnClock(component, component.ending.form, opens + component.ending.seconds) - opens
        [] component.kind = "VEVENT" /\ component.ending.says = "duration" ->
             component.ending.seconds
        [] component.kind = "VJOURNAL" \/ component.ending.says = "nothing" ->
             BareSeconds(component)

Span(component) == {n \in {StatedSpan(component)} : n >= 0}

(* The keys of the periods in reach, from DTSTART on (weigh).              *)
KeysInReach(opening) ==
  {key \in {Nominal(Local(c)) :
              c \in UNION {Select(ExpandPeriod(series, opening, i), series.by["BYSETPOS"]) :
                             i \in 0..(MaxPeriods - 1)}} : key >= Nominal(opening)}

(* project_rule_limit: a bound in UTC is put on the series' own clock.     *)
ProjectedUntil(component, until) == OnClock(component, until.form, Nominal(until.stamp))

(* has_ended_at, by the keys admitted so far.                              *)
NotEnded(component, admitted, key) ==
  CASE series.limit[1] = "none"  -> TRUE
    [] series.limit[1] = "until" -> key <= ProjectedUntil(component, series.limit[2])
    [] series.limit[1] = "count" -> Cardinality({k \in admitted : k < key}) < series.limit[2]

RuleKeys(component, admitted) == {key \in admitted : NotEnded(component, admitted, key)}

Admitted(component, keys) == {key \in keys : Place(component, key) # {}}

InstancesAt(component, keys, span) ==
  UNION {{[key |-> key, start |-> s, end |-> e, span |-> span] :
            s \in Place(component, key), e \in Place(component, key + span)} : key \in keys}

(* A zone that says nothing leaves a series of its clock undecided.        *)
Instances(component, keys) ==
  IF component.clock # "utc" /\ zoneTable.observances = << >> THEN {}
  ELSE UNION {InstancesAt(component,
                          RuleKeys(component, Admitted(component, keys))
                            \cup {Opens(component) + n : n \in component.rdates}, span) :
                span \in Span(component)}

(* Mutant: room for the offsets that zones in use have.                    *)
ZoneSlackOfZonesInUse == 50400

(* How far a key lies from its instant: an offset is less than a day.      *)
ZoneSlackSeconds == 86399

WindowSlack(component) == IF component.clock = "utc" THEN 0 ELSE ZoneSlackSeconds

(* Mutant: a window that lets an instance begin no earlier than the range. *)
StartWindowUnspanned(component, instance, range) ==
  LET slack == WindowSlack(component)
  IN  /\ \A from \in range.start : instance.key >= from - slack
      /\ \A until \in range.end : instance.key < until + slack

(* start_window: the search is asked for no key outside of it.             *)
StartWindow(component, instance, range) ==
  LET slack == WindowSlack(component)
  IN  /\ \A from \in range.start : instance.key >= from - Max({instance.span - 1, 0}) - slack
      /\ \A until \in range.end : instance.key < until + slack

(* overlaps_range *)
Overlaps(instance, range) ==
  /\ \A from \in range.start : IF instance.span > 0 THEN from < instance.end ELSE from <= instance.start
  /\ \A until \in range.end : until > instance.start

-----------------------------------------------------------------------------
(* The ranges that begin and end where an instance does, or next to it.    *)
EdgesOf(instance) ==
  {{}} \cup {{at} : at \in {instance.start, instance.start + 1, instance.end - 1, instance.end}}

RangesAbout(instance) == [start : EdgesOf(instance), end : EdgesOf(instance)]

(* Every key of the series has an instant, or the rule counts none.        *)
LosesNoKey(component, keys) ==
  series.limit[1] = "count" => Admitted(component, keys) = keys

(* Neither the prefilter nor the window of the search keeps a match away.  *)
IsFound(component, occupancy, instance, range) ==
  /\ StartWindow(component, instance, range)
  /\ \A occupied \in occupancy : ~Outside(occupied, range)

IsSound(component, occupancy, instances) ==
  \A instance \in instances : \A range \in RangesAbout(instance) :
    Overlaps(instance, range) => IsFound(component, occupancy, instance, range)

IsSoundFor(component, keys) ==
  IsSound(component, IF LosesNoKey(component, keys) THEN Occupancy(component) ELSE {},
          Instances(component, keys))

(* The rule as the query reads it, one that ends.                          *)
IsStored == series = StrictRead(recur) /\ series.limit[1] # "none"

(* No match is missed: what overlaps the range lies inside the window the  *)
(* search is given and is not dropped by the prefilter, in any zone up to  *)
(* the widest offset there is, under either reading of a fold and every    *)
(* reading of a gap, for every form of start, end and bound and at the     *)
(* very edge of the range.  The one case in which the prefilter does drop  *)
(* one is left out: a COUNT goes on for every key a gap took, and the      *)
(* bound does not (prefilter.rs: excludes; expand.rs: start_window,        *)
(* overlaps).                                                              *)
NoMatchIsMissed ==
  LET keysFrom == [opening \in {OpeningOf(c) : c \in Components} |-> KeysInReach(opening)]
  IN  turn = 0 /\ series.freq \in Freqs /\ IsStored =>
        \A component \in Components : IsSoundFor(component, keysFrom[OpeningOf(component)])
=============================================================================
