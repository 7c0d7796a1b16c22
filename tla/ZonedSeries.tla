----------------------------- MODULE ZonedSeries ----------------------------
(***************************************************************************)
(* A series in a zone (internal/tz/series): the rule is walked on the wall *)
(* clock, and every key it names is resolved in the zone on its own day,   *)
(* under what the caller decided about gaps and folds.  The zone is a      *)
(* VTIMEZONE of the file, read and cut off at the caller's bound.          *)
(***************************************************************************)
EXTENDS RecurrenceRules, TransitionTables
LOCAL INSTANCE FiniteSetsExt

CONSTANT Zones   \* a sequence of [definition, limit, gaps, folds]

VARIABLES zone,    \* which of them
          zoneTable,   \* the TransitionTable read from it
          answers  \* what the keys of the open period resolve to, by key

seriesVars == <<vars, zone, zoneTable, answers>>

Local(key) == [date |-> FromDays(key[1]), clock |-> key[2]]

(* ZonedSeries::resolved: no instant, no occurrence (admits).              *)
Resolved(key) == Pick(answers[key], Zones[zone].gaps, Zones[zone].folds)

(* Mutant: a real instant is taken for a key as it is.                     *)
ToNominalUnprojected(at) == at

(* ZonedSeries::to_nominal, and with it project_until of a value in UTC.   *)
ToNominal(at) == Nominal(FromInstant(at, EraAt(zoneTable, at).offset))

SeriesInit ==
  /\ Init
  /\ zone \in DOMAIN Zones
  /\ zoneTable = TransitionTable(ReadDefinition(Zones[zone].definition), Zones[zone].limit)
  /\ answers = << >>

SeriesRead == Read /\ UNCHANGED <<zone, zoneTable, answers>>

SeriesOpenPeriod ==
  /\ OpenPeriod
  /\ answers' = [key \in found' |-> ResolutionOf(zoneTable, Local(key))]
  /\ UNCHANGED <<zone, zoneTable>>

SeriesNext == SeriesRead \/ SeriesOpenPeriod

SeriesSpec == SeriesInit /\ [][SeriesNext]_seriesVars

-----------------------------------------------------------------------------
(* The zone by counting: every transition there is, its rules expanded by  *)
(* the recurrence engine, and the offset in force from one to the next.    *)
LastYear == 2028
LastInstant == Nominal([date |-> FromYmd(LastYear, 12, 31), clock |-> Midnight])

UntilOf(component, rrule) ==
  IF Written(rrule, "UNTIL") = {} THEN LastInstant
  ELSE LET until == ValueOf(rrule, "UNTIL")
       IN  IF until.form = "date" THEN Nominal(until.stamp) + 86399
           ELSE Nominal(ClockBefore(until, component.from))

ClocksFrom(start, rule, until) ==
  {c \in UNION {{Local(key) : key \in ExpandPeriod(rule, start, i)} :
                  i \in 0..(LastYear - start.date.year)} : Nominal(c) \in Nominal(start)..until}

RuleClocks(component, rrule) ==
  ClocksFrom(ClockBefore(component.dtstart, component.from), LenientRead(rrule),
             UntilOf(component, rrule))

ClocksOf(component) ==
  {ClockBefore(value, component.from) :
     value \in {v \in {component.dtstart} \cup {component.rdates[i] : i \in DOMAIN component.rdates} :
                 v.form # "date"}}
  \cup UNION {RuleClocks(component, component.rrules[i]) : i \in DOMAIN component.rrules}

Transitions(definition) ==
  UNION {{[at |-> AtOffset(clock, c.from), from |-> c.from, to |-> c.to, daylight |-> c.daylight] :
            clock \in ClocksOf(c)} : c \in {definition[i] : i \in DOMAIN definition}}

(* Each with the instants its offset is in force: from its own transition  *)
(* to the next, the first of all since ever and by what it replaced.       *)
Spans(transitions) ==
  LET next(t) == {u.at : u \in {v \in transitions : v.at > t.at}}
      end(t) == IF next(t) = {} THEN LastInstant ELSE Min(next(t))
      first == CHOOSE t \in transitions : \A u \in transitions : t.at <= u.at
  IN  {[at |-> 0, end |-> first.at, offset |-> first.from, daylight |-> FALSE]}
      \cup {[at |-> t.at, end |-> end(t), offset |-> t.to, daylight |-> t.daylight] :
              t \in transitions}

ErasCounted(transitions) == IF transitions = {} THEN {} ELSE Spans(transitions)

Eras == [z \in DOMAIN Zones |-> ErasCounted(Transitions(Zones[z].definition))]

InForce(eras, at) == CHOOSE e \in eras : e.at <= at /\ at < e.end

(* The instants at which the zone's clock shows a stamp.                   *)
InstantsShowing(eras, local) ==
  {at \in {Nominal(local) - e.offset : e \in eras} :
     at + InForce(eras, at).offset = Nominal(local)}

(* Between the last instant of a gap and the first after it the clock goes *)
(* from before the stamp to past it.                                       *)
IsGapOf(eras, r, local) ==
  /\ r.kind = "nonexistent" /\ r.gapStart = r.gapEnd - 1
  /\ r.before = InForce(eras, r.gapStart).offset /\ r.after = InForce(eras, r.gapEnd).offset
  /\ r.gapStart + r.before < Nominal(local) /\ Nominal(local) < r.gapEnd + r.after
  /\ r.shifted + r.before = Nominal(local)

IsReadingOf(eras, reading, at) ==
  /\ reading.instant = at
  /\ reading.offset = InForce(eras, at).offset /\ reading.daylight = InForce(eras, at).daylight

IsCounted(eras, r, shown, local) ==
  CASE eras = {} -> r = Undetermined
    [] eras # {} /\ shown = {} -> IsGapOf(eras, r, local)
    [] Cardinality(shown) = 1 -> r.kind = "unique" /\ IsReadingOf(eras, r.reading, Max(shown))
    [] Cardinality(shown) > 1 ->
         /\ r.kind = "ambiguous"
         /\ IsReadingOf(eras, r.earlier, Min(shown)) /\ IsReadingOf(eras, r.later, Max(shown))

KeysAreCounted(eras) ==
  \A key \in found :
    IsCounted(eras, answers[key], InstantsShowing(eras, Local(key)), Local(key))

WholeTables ==
  [z \in DOMAIN Zones |-> TransitionTable(ReadDefinition(Zones[z].definition), 100)]

-----------------------------------------------------------------------------
(* A wall clock is resolved to every instant the zone's clock shows it at, *)
(* with the offset and the season in force there; to the earliest and the  *)
(* latest of several; and to the gap that skipped it when there is none.   *)
(* A zone whose definition holds nothing resolves to nothing, never to UTC *)
(* (resolve.rs: resolution_of; rules.rs; model.rs: TransitionTable::new).  *)
ResolutionIsCounted ==
  Opened /\ zoneTable = WholeTables[zone] => KeysAreCounted(Eras[zone])

(* A bound given as an instant cuts a series at that instant, in either    *)
(* season and on the day of a transition: an occurrence whose clock is     *)
(* shown once is kept exactly when it happens no later than the bound,     *)
(* although keys are compared and not instants (project_until).            *)
UntilCutsAtTheInstant ==
  \A key \in DOMAIN answers : \A at \in Resolved(key) :
    answers[key].kind = "unique" =>
      \A d \in {-7200, -1800, -1, 0, 1, 1800, 7200} :
        Nominal(Local(key)) <= ToNominal(at + d) <=> at <= at + d

(* Cutting a table of dates off at the caller's bound ends its coverage    *)
(* earlier and leaves no hole: what it still calls computed, up to the     *)
(* last day it has data for, is what the whole definition says.            *)
TruncationLeavesNoHole ==
  Opened /\ zoneTable.rules = << >> /\ zoneTable # WholeTables[zone] =>
    \A key \in found :
      BasisFor(zoneTable, key[1]) = "computed" /\ key[1] < zoneTable.coverageEnd =>
        answers[key] = ResolutionOf(WholeTables[zone], Local(key))
=============================================================================
