# icalkit, verified in parts

TLA+ models of icalkit (`src/crates/icalkit`), the runs that check them with TLC, and theorems about
them checked with the TLA+ proof system. `PROJECT.json` maps every definition to the lines it
stands for.

## The system

icalkit is a library of sans-I/O pieces. Nothing in it has a thread, a socket or a file: an
application calls it, and carries bytes, answers and time between its calls. What is hard about it
is therefore not concurrency inside the library, but the order, the repetition and the failure of the
calls around it, and state that outlives one of them: a ledger shared by every operation of a
session, an operation waiting for an answer, a transaction over a copy, a cursor.

| Component | State it keeps | Operations | Talks to |
|---|---|---|---|
| Resource ledger (`grammar/budget.rs`) | octets spent, one counter per bound, `exhausted` | charge, count, enter / leave, open a period | every reader and search is handed it |
| Content lines (`lexer.rs`, `emit.rs`) | cursor, header scratch, folds of the line | next token; write a line, refold it | feeds the tree builder; writes what it holds |
| Calendar tree (`parse.rs`, `calendar.rs`) | open components, the line being read, the tree | take a token, close what is open, accept or reject | charges the ledger, reports diagnostics |
| Editor (`mutate.rs`, `calendar.rs`) | a private copy of the tree | set, add, remove, commit | re-parses the copy on commit |
| Import (`interop.rs`) | the octets as they came | read, normalize, validate | charges the ledger |
| Session (`engine.rs`) | one ledger for all its operations | parse, import, validate, query | all of the above |
| XML reader and DAV bodies (`internal/dav`) | open elements, prefixes in scope | pull an event, decode a body | charges the ledger |
| CalDAV client (`caldav.rs`) | an `Operation`: one request, one decoder, one result | discover, sync, create, write, schedule | the application's HTTP client |
| CalDAV server (`caldav.rs`) | a `ServerOperation`: one need, one responder, one response | handle, next need, supply, finish | the application's access control and store |
| Freshness (`dav/freshness.rs`) | none: entity tags and tokens compared | compare, decide | client and server |
| iTIP scheduling (`internal/itip`, `scheduling.rs`) | a review: message, calendar, the proposed change | read, review, authorize, apply | calendar tree, zones |
| Recurrence (`internal/recur`) | a search: period, candidates, merge heads, `Charges` | next, cursor, resume | charges the ledger, zones |
| Time zones (`internal/tz`) | a transition table | resolve a local time, offset at an instant | recurrence, queries, scheduling |
| Query evaluation (`internal/query`) | none beyond a walk | prefilter, match, expand, free-busy | calendar tree, recurrence, zones |
| Values and codecs (`internal/core`) | none | decode, encode, calendar arithmetic | everything |

### What makes each of them correct

* **Ledger.** A budget admits no more than it says, whatever is asked of it and in what order; a
  refused charge cannot be undone by asking again; a scope given back is given back whole; a search
  cut short is on record.
* **Content lines, calendar tree.** What is read is what is written. Damage is reported and kept,
  never repaired, and nothing damaged is accepted. The limits hold of what is retained.
* **Editor.** All of an edit or none of it, and only the lines addressed.
* **CalDAV write.** No client overwrites what it has not seen; a success means one's own write;
  nothing is stored for a client that was not authorized. Requests may be repeated, late or lost.
* **Other CalDAV operations.** A sync token advances only with its changes; 404 and 410 mean gone.
* **Scheduling.** An older message never replaces a newer one; what was reviewed is what is applied;
  an attendee changes only his own answer.
* **Recurrence, zones, queries.** Occurrences in order, none twice, a resumed search continuing
  where it stopped; each local time resolved to all the instants it names; a prefilter that only
  drops what the full evaluation would reject.

`PROJECT.json` lists the hazards, each at the line where it bites.

## Modules

| Part | Abstract specification | Detailed model | Properties and proofs |
|---|---|---|---|
| Conditional write | `VersionChain` | `ConditionalWrite` | `ConditionalWriteProofs` |
| Ledger, tree, session | | `Ledger`, `CalendarTree`, `Session` (composes both with imports, queries and searches) | `CalendarTreeShape`, `CalendarTreeProofs`, `SessionProofs` |
| Content lines | `LineReading` (a text by its positions) | `LineWriter`, `ContentLine` | `ContentLineProperties`, `LineWriterProofs`, `ContentLineProofs` |
| Editor | `Draft` | `Editor` (over `LineWriter` and `LineReading`) | in `Editor` |
| Scheduling | `AnswerBook` | `Precedence`, `Itip`, `Scheduling` | `SchedulingProperties`, `AnswerBookProofs`, `SchedulingProofs` |
| Recurrence search | `OccurrenceFeed` | `RecurrenceSearch` | `RecurrenceAnswer`, `RecurrenceSearchProofs` |
| Recurrence rules | the rule counted day by day, in `RecurrenceRules` | `Civil`, `RuleText`, `RulePeriods` | `RecurrenceRules` |
| Time zones | the transitions counted, in `ZonedSeries` | `TransitionTables`, `ZonedSeries` (composed with `RecurrenceRules`) | `ZonedSeries` |
| Query prefilter | the walk, in the same module | `TimeRangeFilter` (composes rules, zones and series) | `TimeRangeFilter` |

What is left, in order of worth: the other CalDAV operations on the same `Operation` and
`ServerOperation`; the filter walk of a query against a reference definition; exclusions and
overrides of zoned series.

## CalDAV conditional write

`ConditionalWrite` models one resource, its clients, the wire between them and a host that drives
several server operations at once.

| In the model | In the code |
|---|---|
| `ConditionalWrite`, `PutFor`, `Transmit`, `Accept`, `Decode`, `Finish` | `Client::conditional_write` and `Operation` (`caldav.rs` 1439–1642) |
| `ForeignWrite` | a PUT of a client icalkit did not write, with any preconditions |
| `StatedRevision`, `Handle` | `PutRequest::parse`, `Server::handle_put` |
| `SupplyAuthorized`, `SupplyWritten`, `SupplyMismatch`, `FinishServer` | `ServerOperation::supply`, the two responders, `finish` |
| `HostStore`, `Answer`, `Crash`, `Read` | the application: its conditional store, its replies, restarts |

A request stays on the wire once sent: it may be delivered late, twice or never. Version *n* of the
resource carries entity tag *n*. `VersionChain` is the abstract specification: a register whose every
version was written by somebody who had seen the one before it.

Properties: `NoLostUpdate`, `OkIsMine` (a success names the version that holds the client's own
write), `OnlyAuthorizedStores`, and `ImplementsVersionChain` (refinement).

## Ledger, calendar tree and session

`Ledger` is `Meter` as operators on a record: the octet budget is charged before it is compared and
its refusal latches; counters are compared before they are changed, and only those of a search latch.
`count` holds all counters of the struct under one name each.

`CalendarTree` reads documents on one ledger, token by token.

| In the model | In the code |
|---|---|
| `pending`, `open`, `root` | the fields of `TreeBuilder` |
| `faulty` | whether any diagnostic reported so far is an error or a warning |
| `TakeName`, `TakeParameter`, `TakeValue`, `EndOfLine` | the arms of `TreeBuilder::take` |
| `ChargeFolds`, `Classify`, `StoreProperty`, `OpenComponent`, `CloseComponent` | the functions of those names |
| `Refuse` | the `?` of `TreeBuilder::read`: builder dropped, ledger kept |
| `EndOfInput`, `CloseUnclosed` | `into_items` |
| `Judge` | the rest of `parse_calendar`; `schema` stands for the audit of known properties |
| `abandoned`, `dropped`, `lines`, `kept` | history: what the properties compare the state with |

A name, a parameter's name or value and a chunk of a value are words of one octet each, so octets of
the budget are counted exactly as the code counts them, fold octets included (`FoldOctets` is 2 for
LF, 3 for CRLF; a line does not mix them in the model). Defects of a line's octets, width and
terminators are one Boolean, `clean`: the tree does not tell them apart. The branch of `into_items`
for a pending line is not modelled: its comment (`parse.rs` 892–895) says that the reader ends every
line with an `EndOfLine`, and the lexer does.

`CalendarTreeShape` adds what needs recursion over trees: the lines a tree writes, and a grammar of
calendars stated over lines, without a stack, to compare the builder's verdict with.

`Session` runs parses, imports, query bodies and recurrence searches one after another on one ledger.
Of the XML reader it keeps what is charged: elements, prefixes, attributes as scanned and again as resolved,
spans and text, and the octets that are no event (`Aside`: the prolog, comments, what follows the root). A body
may turn out malformed at any point of this (`BrokenBody`). Of a search it keeps
`Charges`: its terminal state, periods, candidates and occurrences. A rule's actual occurrences do
not matter to the ledger; candidates and occurrences come in any order.

## Content lines

`ContentLine` is the reader of `grammar/lexer.rs` one octet at a time, with what `TreeBuilder` keeps of
a line. An octet is one of eleven kinds, those the reader or the writer tells apart; `cont` is an octet
inside a UTF-8 character.

| In the model | In the code |
|---|---|
| `cursor`, `stage`, `scratch`, `parameters`, `pending`, `header`, `lineOffset`, `folds` | the fields of `ContentLineReader` |
| `TakeFold`, `RefuseFold` | `take_fold` and its bound |
| `ScanHeader` and its disjuncts | `scan_header`, `step_header_state`, `open_parameter`, `close_header` |
| `ReadValue` | `next_value_chunk`; a chunk is modelled octet by octet, its length is the budget's business (`CalendarTree`) |
| `Held`, `EndOfLine` | the tokens of a line, put together by `parse.rs`; `measure` |
| `WriteLine`, `PushRecorded`, `PushRefolded`, `FoldAt` (`LineWriter`) | `LineWriter` of `emit.rs` |
| `ExtentOf`, `PhysicalLines`, `TerminatorMarks` | `FoldWalk`, `report_widths`, `report_terminators` |
| `Normalize` | `normalize_line_endings` |

`LineReading` says what a text means without a scanner: which of its positions are terminators, folds,
kept octets, quotes and separators. The properties compare the two, and the writer with the input.
`RefoldWidth` is 4 where the code has 74, so that a line of nine octets is folded in several places;
`MaxContinuation` is 3 as in the code.

## Editor

`Editor` keeps a calendar as its events and their lines. `Changes` is the whole of
`set_summary` / `set_vendor_property`: find the first event with the UID, refuse what `mutate.rs`
refuses, set the first property of that name or insert one before the first component inside. `Commit`
writes all lines out with `LineWriter`, reads them back with `LineReading`, and takes the result only
when it is accepted; `outcome` says how it ended. `Draft` is the abstract specification: a register
whose draft is committed as a whole or not at all, and that says which.

## Recurrence search

`RecurrenceSearch` models one search and its continuations. Instants are integers, a period is a slot
of `Span` of them, and the candidates of each period are any set of its instants; the ascending lists
of the code, with the position they are at, are the sets of what is left of them. An override has its
`place` in the caller's list, since two may name one key: `Exact` is the first of them, as `exact_match`
answers, and `LastOf` the last the merge has passed. In the reference the others are `Shadowed` and say
nothing; where the merge differs is a finding. Dates and overrides may name instants before the
first period (`Origin` is the instant it begins at).

| In the model | In the code |
|---|---|
| `NextKey` and its disjuncts | `RuleStream::next_key`, `weigh`, `open_next_period`, `expand` and the end of `fill_offer` (`engine.rs`) |
| `Consume`, `NearestAfter`, `ShiftAfter`, `EffectiveStart`, `Provenance` | `Merge::step` and what it calls (`merge.rs`) |
| `Drained`, `Retry`, `StopAtWindow`, `Refuse`, `Deliver` | `RecurrenceSearch::advance`, `deliver`, `admits` |
| `Resume` | `cursor()` and `resume`, under a new budget; a series with dates or moves is refused a cursor by the facade (`recurrence.rs`) |
| `input.admitted` | the caller's gate, `RecurrenceInput::admits` |
| `meter` | what `Charges` asks the ledger: candidates of a period and of the session, occurrences |

`OccurrenceFeed` is the abstract specification: one answer, defined from the series as sets in
`RecurrenceAnswer`, handed over one by one; `complete` only when all of it has been; and a resumed
search goes on with the very next occurrence. `ResumeAnywhere` is FALSE in the passing run: the cursors
it takes name an occurrence that was delivered. The other cursors are a finding.

**Fairness.** `Fairness` is `WF(NextKey) /\ WF(Advance)`: `next()` is one synchronous call, so once it
is entered its loop keeps turning. Nothing is assumed of the caller, who may never call again.
`NextReturns` then says that every call ends. It is the one liveness property: elsewhere the library
never acts of its own accord.

`RuleText`, `RulePeriods` and `RecurrenceRules` are about what a period of a rule holds: both readers of
a RECUR value, the table of parts, the walk from period to period, the expansion by parts and the
selection by position, over the civil calendar of `Civil`. They are compared with the rule counted day
by day in the words of RFC 5545 section 3.3.10, without the notion of an extent. Since a period then holds
only what lies in its own year (of months or of weeks), month, week or less, each lies behind the one before
it, which is what the search model assumes of its candidates.

## Time zones

`TransitionTables` reads a VTIMEZONE into a table and answers from it; `ZonedSeries` resolves every
candidate of the rules above in a zone, as a series does.

| In the model | In the code |
|---|---|
| `ReadDefinition`, `ReadTransitions`, `ReadZoneRule`, `DayForm`, `WindowForm` | `reader.rs`: each DTSTART, RDATE and RRULE of an observance, a rule in closed form or not at all |
| `DayInMonth`, `OccurrenceIn`, `TransitionIn` | `rules.rs` |
| `TransitionTable`, `CoverageEnd` | `TransitionTable::new` (`model.rs`): sorted, then cut off at the caller's bound |
| `EraAt`, `BegunBy`, `LatestRuleOnset`, `OnsetsBetween` | what is in force at an instant, and what changes near it (`resolve.rs`) |
| `ResolutionOf`, `ReadingsOf`, `SprangOver`, `BasisFor` | the readings of a wall clock, the gap it fell into, and whether the table knows (`resolve.rs`) |
| `Resolved`, `Pick`, `ToNominal` | `resolved`, `pick` under the caller's policy, `to_nominal` and `project_until` (`series.rs`, `answer.rs`) |

An observance is read as the closed form of its yearly rule and found by probing years; the reference
has none of that. It expands the same RRULE text with the recurrence engine, which `PeriodIsRuleSet` in turn
compares with RFC 5545, lays the transitions end to end and asks at which instants the clock shows a
stamp (`InstantsShowing`). `ResolutionIsCounted` says that the two agree, gaps and folds and whole days
skipped or repeated included; `UntilCutsAtTheInstant` that the projection of a UTC bound onto
the keys loses nothing; `TruncationLeavesNoHole` that a bound on the table costs its end and nothing else.
Observances that begin at one instant are not ordered further, and no definition checked has two. A
source that does not know an identifier, sets of definitions, combined sources, exclusions and
overrides are left out.

## Query prefilter

`TimeRangeFilter` puts two answers to one question beside each other: may an instance of a stored event or
journal entry overlap a time-range?

| In the model | In the code |
|---|---|
| `Occupancy`, `OpeningOf`, `Extent`, `BareSeconds`, `RuleReach`, `CountReach`, `CadenceSeconds`, `Slack`, `Outside` | `prefilter.rs`: where the series may lie, by arithmetic on DTSTART, its length, COUNT or UNTIL, and two days of slack |
| `KeysInReach`, `RuleKeys`, `NotEnded`, `Admitted` | the keys of the rule in order, those the zone admits, up to the rule's end (`expand.rs`, `weigh` and `has_ended_at` of `engine.rs`) |
| `OnClock`, `ProjectedUntil`, `StatedSpan`, `Place`, `InstancesAt`, `Overlaps` | stamps put on the series' clock, the length of an instance, both ends placed in the zone, the comparison with the range (`expand.rs`) |
| `StartWindow`, `ZoneSlackSeconds` | the window of keys the search is given, with its own slack of 86,399 seconds (`expand.rs` 143, 1498) |

`NoMatchIsMissed` asks about the ranges that begin and end where an instance does, or a second beside it:
neither the prefilter nor the search's own window may keep an instance away that overlaps one. The first half
is the invariant `prefilter.rs` 36 states for reviewers, less one case in which the code does not keep it
(`LosesNoKey`; see Observations). The second half is what makes `ZONE_SLACK_SECONDS` of `expand.rs` "an exact
bound": one of the zones goes from one end of the range of offsets to the other, and with 86,398 seconds, as
with the 14 hours that zones in use need (`ZoneSlackOfZonesInUse`), TLC finds an occurrence the window misses.
The walk is taken without its budget.

The components (`MCComponents`) are events and journal entries that begin at an instant, at a time in the zone
or on a DATE, which lasts a day unless it says otherwise. The events state no end, a DTEND in the form of their
start or in UTC, or a DURATION, one of them negative: it occupies nothing in the prefilter and is not decided by
the walk. Floating times are read in one zone and are the zoned case here.

## Scheduling

`Scheduling` is one meeting in the calendar a host keeps: a sequence of components, the series and
the instances that have one of their own. One step, `Deliver`, hands any message of the mail to the
calendar as it then stands, so messages come late, twice, out of order or never.

| In the model | In the code |
|---|---|
| `Supersedes`, `IsStaleAgainst` (`Precedence`) | `Revision` (`identity.rs` 347–415) |
| `PresenceOf`, `Admits`, `Inspect` (`Itip`) | the method tables (`table.rs`), `inspect_message` (`report.rs`) |
| `DescribePayload`, `Restated`, `DescribeReply` | `describe_payload` (`diff.rs`) |
| `Evaluate` and the `Check…` operators | `evaluate_selected` and its checks (`authorize.rs`) |
| `Writable`, `WriteLines`, `ApplyTo` | `apply_to`, `apply_to_occurrence` (`mutate.rs` 578) |
| `ReviewExisting`, `ReviewCreation`, `ReviewPayload` | `Message::review` (`scheduling.rs` 157–327) |
| `WriteExisting`, `WriteNew`, `Apply` | `AuthorizedChange::apply` (`scheduling.rs` 472–525) |

A component is the sequence of its lines under each name the rules treat differently; the UID and the
ORGANIZER are those of the meeting throughout. Changes are numbered by the lines they were described
against and written in ascending order, which `WriteLines` states in closed form; `WritesAgree`, an
assumption TLC evaluates, compares it with a fold over the changes for all lists of up to three
lines. A message's authorization is not a step of its own: `Review` borrows the calendar, so nothing
can change between review and application.

`AnswerBook` is the abstract specification: per instance the newest version, per attendee the newest
answer to it. `ImplementsAnswerBook` reads an instance without a component as an occurrence of the
master. The remaining properties say what a message leaves alone (`AttendeeWritesOwnLineOnly`,
`OnlyAddressedInstancesChange`), what it must bring about (`InvitationLands`, `NewsIsNeverRefused`,
`NewerAnswerLands`) and that the calendar stays one every later message can be reviewed against
(`OneComponentPerInstance`). `OrderlyStart` and `DistinctPayloads` say what that stands on: the calendar
the host begins with, and messages of which no two payloads state one instance (see the observations
for what happens otherwise). Where the code departs from one of them is listed under Findings; the mail of the
passing run stays clear of those exchanges.

Left out: the tables of VTODO, VJOURNAL and VFREEBUSY, SENT-BY agents, ORGANIZER lines that differ,
nested alarms, replies without a PARTSTAT, the iMIP envelope and the outbound constructors. A
RECURRENCE-ID names a UTC time, a time in a zone or a floating time; the facade resolves no fold
sides, so none are modelled.

## Runs

| Run | Shows | Bounds |
|---|---|---|
| `conditional_write_clients` | a success is always one's own write, though copies of earlier writes are still under way; two racing clients lose no update, also when one of them sends weak, missing and combined preconditions; nothing of a refused client is stored; the inductive invariant of the proofs; the whole implements the versioned register | one client with two operations, or one each of it and of a client of another make or a refused one (`MCQuotas`); two slots |
| `calendar_tree_structure` | the tree writes the lines it read; it is accepted exactly when its lines are a calendar | 5 lines, 2 component names, at most 1 line (`MaxOdd`) with a parameter or without a separator |
| `calendar_tree_depth` (violated) | a refused document makes a later, shallower one be refused as too deep | 3 documents |
| `session_shared` | limits hold of what is kept, scopes are given back, the budget bounds all operations together, a cut search is on record, exhaustion is final | 3 lines of one document, one fold, 3 steps of other operations; depth 1, items 2, candidates 1 |
| `scheduling_mail` | versions of a series and its instances and the answers of two attendees, a delegate and an impostor, in any order, implement the answer book; a newer answer lands; instances are split off once; nobody writes another's line | two exchanges (`Exchanges`) of 14 and 15 messages, any number of deliveries |
| `scheduling_restated` (violated) | a cancellation that says nothing cancels the series | 2 messages |
| `recurrence_answers` | merged, excluded, moved, limited, cut off and resumed, a search gives the recurrence set in order, each occurrence once; every call returns | 3 periods of 3 instants, 2 windows, 2 budgets, 1 resumption |
| `recurrence_cursor` (violated) | a cursor passes over an occurrence that was never given | as above, rules only, `ResumeAnywhere` |
| `recurrence_collisions` (violated) | of two overrides on one key the second, a THISANDFUTURE entry, names and shifts what is behind it | one rule with three lists of two overrides on one key |
| `recurrence_rules` | a period holds what the rule says, positions count from both ends, the two readers agree; every candidate is resolved in each zone to the instants a count gives, a UTC bound cuts at its instant, a cut table has no hole; neither the prefilter nor the window of the search drops what the walk matches | 6 periods of 41 rules from 2 starts (a leap day, the last evening of a 53-week year), in 11 zones; texts of up to 3 parts of 11; 11 components |
| `content_lines` | reading, writing, extents, refolding and normalizing agree with the text and with each other | texts of up to 5 octets of header kinds, up to 6 of break kinds, and 6 long ones broken at every place in 5 ways |
| `editor` | a commit lands whole or not at all, touches no other line, and fails for limits only | 2 calendars, 2 edits per run of 6 values under 3 names, 2 commits |

The bounds are enough in this sense: two slots, and two operations of one client, give every overlap of an old
request with a new one that the structs can tell apart, since an `Operation` and a `ServerOperation`
hold one request each; five lines hold two nested components, a mismatched END and a line between
them; all limits of the limit runs are within reach of the input, so that every refusal happens at
every point of a line. A third document or a third client adds histories, but no new pair of
neighbouring steps. Each scheduling run reaches every state its mail can
lead to, so its only bound is the mail: two versions of each thing stated, one answer too many of each
attendee, and messages of all eight methods. Three periods are the one a cursor is inside, the one
before and the one after; eight candidates put a gap, a pair and an empty period into them. A text of
five header octets holds a parameter with a quoted value and a separator; one of six holds two
terminators with whitespace behind them. Deadlock is not checked in the runs on writes,
documents, sessions, texts, drafts and searches, which stop when their input or their bounds are used up; in the
others it is. `WithinQuota` also bounds reading: a client reads what it may yet write. Of the PUTs of other makes,
`MCHeaders` tries every single defect of a precondition and two at once, not every combination of a weak tag or a
malformed request with the rest.

The eleven zones (`MCZones`) move their clocks within hours of the two starts: rules by last weekday, fifth
weekday, both kinds of week-long window, last day of a month and DTSTART's own day, with and without
UNTIL, across a new year and across the date line, dates out of order, two transitions a few hours apart,
a table cut off twice, one whose rule is not read, one whose gap swallows a weekly occurrence, one that goes
from one end of the range of offsets to the other, and an empty one. The reference counts transitions up to
2028, past the last candidate.

What the runs do not reach: defects of a line's octets (`clean`) in the tree run, lines with more than
`MaxOdd` irregularities, and searches of series with moves and more than three periods.

## Proofs

For all values of the constants, under the named assumptions of the modules (which TLC evaluates):

`ConditionalWriteProofs` proves `TypeOK`, `NoLostUpdate`, `OkIsMine`, `OnlyAuthorizedStores` and the
refinement of `VersionChain`, for any number of clients, slots and operations. `Inv` is the inductive
invariant. `NoLostUpdate` speaks of the store alone, and is not inductive: a step that stores relies
on the request it stores having stated a revision its author derived from a version he had read, so
`Inv` follows revisions from `Read` through operations, requests and slots (`RevisionDerives`,
`RequestsKnown`), and successes from the store through slots and replies back to the operation
(`AnswersKnown`).

`CalendarTreeProofs` proves `TreeTypeOK`, `RetainedWithinBudget`, `NestingWithinLimit` and
`DepthAccounted` for any policy, any budget, and any number of documents of any length. A bound on
what is kept is not inductive, because a refusal leaves the ledger past its budget: `Ledgered` adds
that what is kept never exceeds what was spent, that a ledger which still admits octets has spent no
more than its budget, and that a line can only be under way on such a ledger. The nesting limit
follows from the depth counter, which the ledger bounds, and from `DepthAccounted`, which ties it to
the stack. The lemmas about the ledger (`ChargeKeeps`, `CountKeeps`, `LeaveKeeps`, `FoldsPaid`) say
what one operation leaves unchanged; `FoldsPaid` needs the arithmetic of the fold at which the budget
gives out. Assumed of the constants: limits and budget lie below the maximum of their integer types
(`LedgerAssumption`), so that saturation is never what makes a charge fit.

`AnswerBookProofs` proves of the abstract specification, for any instances and attendees, that a
version once on record is never left for an older one (`VersionsNeverReturn`) and that while it
stands no answer to it is replaced by an earlier one or lost (`AnswersNeverReturn`). Both speak of any
number of steps and rest on precedence being a strict order, unreadable DTSTAMPs included
(`SupersedesTransitive`): a version that had been left for a newer one could otherwise come round
again and take an old answer with it. `SchedulingProofs` proves that `Scheduling` implements the answer
book, so both hold of its calendars as long as the hypothesis named there does.

`RecurrenceSearchProofs` proves `KeysAscend` for any set of series, windows and budgets and any number of
resumptions: no occurrence is handed over twice or out of order. The property alone is not inductive,
because there are two reasons why the next key lies behind the last one. Within a search, whatever may
still come (`Pending`: the offer, the dates, the rest of the period and the periods not yet opened)
lies behind what has been given. A resumption opens a period it has seen and breaks that; but then all
that was given lies at or before `resumeAfter`, which the stream passes over and the merge refuses.
`GivenIsPast` is the disjunction of the two, `OfferIsFirst` and `PeriodIsFirst` carry the order from the
periods to the offer, and `ConsumesKeeps` disposes of the eleven steps that only use up what is
pending. Assumed of the series (`SeriesAssumption`): its candidates are instants and one period's lie
before the next one's, which `PeriodIsRuleSet` shows of the expansion.

`ContentLineProofs` proves `FoldsInsideLine`, `ReaderKeepsBounds` and `SpansTileHeader` for texts of any
length and any limits. They need what the parser state says of the span still open (`OpenSpan`): it
begins one octet behind the tiled part of the header and reaches into it, a header in its parameters
always has one open, and a closed header has none. `ClosingTiles` is the lemma about `close_pending`
that the end of a line, the separator and the next `;` share. That the spans are the right ones, the
same that the positions of the text say, is model-checked (`ReadsTheText`).

`WritesItsInput` is proved for texts of any length, however folded, quoted and terminated: what was read is
written back octet for octet. The invariant (`WriterInv`) says at every octet, not only at the end of a line,
what would be written: the lines held so far followed by the text of the line under way with its folds woven in
are the input up to the cursor (`Written`). Two things carry it to a line that is complete. The writer gets the
line in pieces (name, separators, parameters, value), and these are its text cut in order, which needs the
octets that stand between two spans (`SeparatorsKept`) and that the spans tile the header. And
`LineWriterProofs` shows what `LineWriter` makes of pieces: whichever way a text is cut, and wherever its folds
stand, inside a piece, between two or several at one place, it comes out as the text with the folds woven in
(`WriteLineWoven`), which is the loop of `push_recorded`, fold by fold, against the loop over the pieces. The
writer owes a terminator to a line without one only if another follows, and only the last has none
(`Terminated`). All of these are recursive functions over lines, pieces and folds; a
recursive function is chosen by its equations, so `WalkExists` first shows that one exists, and induction is
by least elements (`UpToInduction`).

`NormalizingKeepsLines` is proved for any text the reader is given: the import normalization changes terminators
and nothing else. Every octet of the text has its place in the normalized one (`Places`), where it stands as it
was, or as LF with a CR put before it if it was a lone terminator (`WrittenInPlaces`). The places keep the order
of the octets, and terminators, folds and kept octets have theirs where the text has them (`TerminatorsInPlace`,
`FoldsInPlace`, `KeptInPlace`); so there are as many lines (`LinesInPlace`), each holds the places of the octets
it held (`ListsInPlace`) and reads the same (`PlacesReadAlike`). No lone terminator is left (`PlacesAreNormal`),
and the changes recorded name exactly those there were (`ChangesNameTerminators`).

`SessionProofs` carries the bounds of `CalendarTreeProofs` over to a session, in which imports, query
bodies and searches use the ledger between and after the documents, and proves `ScopesAreLeft`,
`CutSearchIsReported` and `ExhaustionIsFinal`. `SessionInv` says for each phase what the operation under
way has on the ledger: nothing but what refused documents abandoned (`AtRest`), the elements and prefixes
of a query body that is being read, or a search whose terminal state and the ledger's latch go together.
What one operation of the ledger does to all of this is said once: `Follows` (no octet comes back, no
component's depth is touched, an exhausted ledger spends nothing more) and `KeepsScopes`.

`SchedulingProofs` proves `OneComponentPerInstance` and `AttendeeWritesOwnLineOnly` for any mail of
messages that do not state an instance twice (`DistinctPayloads`) and any calendar that is in order to
begin with (`OrderlyStart`), both an `ASSUME` of `MCScheduling`. The first is inductive once the calendar
consists of components (`SchedulingInvariant`): a component that is written keeps its address
(`HeldStaysItsInstance`), one that is split off takes that of its payload (`DetachedIsItsInstance`), and the
review lets a payload through only when no held address is, or could be, the same (`ReviewFindsComponents`);
two new ones are apart because their payloads are (`GrownStaysOrderly`). Behind the second is the closed form
of `WriteLines`: a restatement written in order yields what was offered (`RestatementLands`), an edit in place
changes that line (`EditInPlace`), and whatever `CheckFields` and `KeepsTheActor` let pass of an attendee is an
edit of the attendee's own line (`AttendeeChanges`).

`InvitationLands` and `OnlyAddressedInstancesChange` hold for all mail but the kinds of exchange in which
the code departs from them, and the theorems name these as conditions on the states a behaviour goes
through. `SeriesStatedAlone`: a REQUEST does not both update a series that is held and split off one of its
instances (the clone is taken after the update, the changes were described before it).
`CancellationsAreVersions`: no cancellation of an instance without a component repeats the version on record
(`scheduling_restated` shows what comes of one). Both hold in every state of `scheduling_mail`.

`NewsIsAccepted` is the other side of it (`NewsIsNeverRefused`): the first two theorems would hold of a calendar
that refuses everything. A newer version from the organizer passes every gate (`NewsIsEvaluated`), the payloads
name different components (`PayloadsNameComponents`), and what is proposed can be written, where it leaves the
payload (`ProposedIsApplied`). The hypothesis is `NewsIsWritable`: such a message does not restate the series
and split off an instance, and takes at most one ATTENDEE line off a component. Without either half TLC finds a
refusal in two deliveries; both hold in every state of `scheduling_mail`. That a refusal is none of the values a
review comes to is an `ASSUME` of `Scheduling` (`RefusalAssumption`, Rust's `None`).

`NewerAnswersLand` is the attendee's side (`NewerAnswerLands`). The property compares an answer with the
version on record; the gate compares DTSTAMPs, and the DTSTAMP on record need not be one that the organizer
gave this version. So the invariant is `VersionsAreStated`: what a component says of its version, SEQUENCE and
DTSTAMP together, stood in a calendar the host began with or in one payload of the mail. Then the answer
passes the gate (`AnswerIsEvaluated`) and the review (`AnswerIsReviewed`), and what is written, onto the
instance or onto a clone of the series, is read back where the answer was given (`AnswerIsTaken`). The
hypotheses on the mail are an `ASSUME` of `MCScheduling`: a REPLY is one payload that the message tables allow
(`AnswersAreConforming`), and no COUNTER or initial calendar dates the version it answers later than the answer
(`AnswersFollowVersions`; a COUNTER may give a version on record a new DTSTAMP, and answers dated before that
are refused as stale). Two are conditions on the states and hold in every state of `scheduling_mail`:
`SeriesComesAlone`, without which a component split off could mix two payloads' versions, and
`AnswersNameOne`, no instance answered could be one of two.

`CalendarImplementsAnswerBook` is the refinement. `Moves` says what one message may make of one component: an
organizer's restates it in a newer version or leaves its version and the times of its answers, a REPLY leaves
the version and all answers but the sender's, which only becomes later. It is shown of the change as it was
reviewed, written onto the component it was reviewed against (`HeldMoves`) or onto a clone of the series that
the same message has written before (`DetachedMoves`). The clone is where it is hard: SEQUENCE and DTSTAMP of
the result may come from two payloads, and `OrganizerMoves` shows that the mixture still supersedes the version
on record. Then the instances are read off the components (`BookFollowed`): one that had none of its own moves
from what the series said of it. The hypothesis is `CountersTakeNoAnswerBack`: a COUNTER at the version on
record states the times of the answers as they are on record. The code does not see to that (see the
observation on a counter-proposal delivered again); in `scheduling_mail` every COUNTER that repeats a version
meets it.

`RecurrenceSearchProofs` also proves that the search implements `OccurrenceFeed`, and `NamesNearestAnchor`, for any
series, windows, budgets and number of resumptions. Order (`KeysAscend`) does not say that nothing is left
out. `FeedInv` does, in four parts. The instances the stream has counted are the first of the rule, and the
others are still to be weighed or lie past the window (`Counted`), so COUNT cuts where the series says it
does. What belongs to the answer has been given, or waits in the merge, or is not counted yet (`Covered`).
What the merge remembers of the overrides behind it is what the series says of the key it has come to
(`Remembered`). What has been given is the beginning of the answer (`Begun`). Then the key that is delivered
is the least of the answer not yet given, and when the search ends complete none is left. A resumption forgets
the merge; only a rule alone gets a cursor, and for it the counted instances are those up to `reached`. The
two theorems have hypotheses, `Claims`, all of which the findings explain: the caller resumes only a search
that has handed something over and was not refused (`~ResumeAnywhere`, without which `recurrence_cursor` shows
a gap); no period holds a candidate before its anchor (`CandidatesAnchored`, which all rules keep but
those of FREQ=YEARLY with BYWEEKNO; see "A year of weeks may begin before its anchor"); and no override that an
earlier one shadows is an anchor (`AnchorsUnshadowed`, without which `recurrence_collisions` shows what happens).
Under the last the anchors the merge goes past are those in force (`AnchorsAreInForce`). The inputs of
`recurrence_answers` have overrides of one key, of which only the first is an anchor.

Only model-checked: everything in `CalendarTreeShape`, whose definitions recurse over trees, the properties of `Editor`, `RecurrenceRules`,
`ZonedSeries` and `TimeRangeFilter`, the other properties of the content lines (`ReadsTheText`,
`ExtentsAddressInput`, `RefoldKeepsLines`), the refinement of `Draft`, and liveness (`NextReturns`).

## Findings

* **A refused document leaves its components on the session's ledger.** `open_component` enters the
  depth (`parse.rs` 813); every `?` after it drops the builder, and nothing leaves what was entered.
  `Session::parse` reads the next document on the same ledger and may refuse it as `TooDeep`, though
  it is not (`failure.rs` 72: "Components nested deeper than `limit`."). The comment at `budget.rs`
  870 accepts the leak for the reader that was told; the session outlives that reader. Run
  `calendar_tree_depth`. Query bodies leave elements and prefixes in the same way.
* **CANCEL writes outside its transition.** `apply` marks a component cancelled even when the
  transition was empty (`scheduling.rs` 499), and an empty transition about an instance without a
  component is filed under the master (277). A cancellation of one instance at the revision on record,
  said to describe nothing (`SECURITY.md` 86), cancels the series. Run `scheduling_restated`.

* **A cursor may name a key that was not given.** `cursor()` (`engine.rs` 560) answers `reached`: before
  the first key that is DTSTART itself, and after an occurrence was refused for the budget it is the
  refused one. The search resumed from it takes every key up to there for given (125: "Cadence keys at
  or before this one belong to the search that produced this cursor") and never hands it over. Run
  `recurrence_cursor`.
* **A shadowed override is not always inert.** The two halves of a repeated hour are one key, and of two overrides
  on it "the later one is inert" (`input.rs` 257); those counted as collisions "modify nothing" (283).
  `exact_match` keeps to that; `pass_overrides` (`merge.rs` 297) does not ask, and a later one that is
  THISANDFUTURE names and shifts all occurrences behind it. `RecurrenceAnswer` follows the comment
  (`OverridesInForce`). Run `recurrence_collisions`.

Observations that have no run of their own:

* **Not every bound latches.** `budget.rs` 702-704 and 1151 and ADR 0010 say that any refusal
  exhausts the ledger; only the octet budget, the candidates, the occurrences and the busy periods do
  (`Latching` in `Ledger`).
* **A COUNT outlives the prefilter's bound.** Under `GapPolicy::Skip` a key the zone never shows is not
  admitted and not counted (`engine.rs` 335), so a series runs one period longer for each; `count_reach`
  (`prefilter.rs` 568) multiplies COUNT - 1 periods all the same and adds two days. A weekly series of three
  that loses one to a gap has its last occurrence a week later than expected, five days past the bound, and a
  query about that week drops it, against `prefilter.rs` 36: "if this unit says "excluded" then the walk would
  have answered `Match::Unmatched`". Without `LosesNoKey` TLC finds this in `recurrence_rules` (zone
  `SecondWeek`, FREQ=WEEKLY;COUNT=3).
* **Excluded is not always Unmatched.** Where the end of an instance falls in a gap the walk answers
  `Undecided`, and the prefilter may have excluded the resource by then. No match is lost.
* **A year of weeks may begin before its anchor.** A period of FREQ=YEARLY;BYWEEKNO is anchored at
  January 1 and holds the days of its week year (`byparts.rs` 312), up to three of which lie in December.
  `open_next_period` stops the stream at the first anchor past the window, "every candidate of a
  period falls inside it" (`engine.rs` 369): a window that ends in the last days of December misses
  them. The search model takes candidates at or behind their anchor.
* **BYSECOND=59,60.** The two are different civil stamps (`byparts.rs` 951) and one instant
  (`arith.rs` 333), so the stream may offer one key twice. Leap seconds are left out of the rules of
  the run.

* **Two forms of a window.** `window_form` reads a week of month days that ends at the 31st as on or before
  the 31st: "the two agree in every month" (`reader.rs` 629). In a month of fewer than 31 days
  `OnOrBefore` names a day before the window (Sunday of 25..31 in February 2015 is the 22nd) where
  `OnOrAfter`, and the RRULE, name none.
* **Where a cut table ends.** Observances past the bound are dropped, "which leaves the table's coverage
  ending earlier" (`model.rs` 325). A rule that is kept has its own end or none: the coverage stays, and
  answers past what was dropped read as computed. `TruncationLeavesNoHole` is about tables of dates.

Other departures of scheduling from its comments, which have no run of their own; each is a pair of
messages that the mail of the runs leaves out:

* An instance is described against the master as reviewed and written onto a clone of the master as
  the same message has already updated it (`scheduling.rs` 503).
* Two removals off the end of a list are applied in ascending order, and the second finds nothing, so
  a cancellation that drops both attendees is refused (`mutate.rs` 613).
* A COUNTER takes over the DTSTAMP (`transition.rs` 200): answers given before it are then stale, which
  ADR 0005 (264) sets out to avoid.
* A reply to an instance without a component makes one with the DTSTART of the master, and so moves it
  to the time of the first occurrence (`scheduling.rs` 509).
* Two payloads of one message that split off, or create, the same instance make two components of it:
  `review_existing` compares payloads by the items they match exactly (`scheduling.rs` 236), and a payload
  that is split off, or filed in an empty calendar, matches none. Every later message about the meeting is refused.
* A COUNTER at the revision on record replaces the attendee's line, so a counter-proposal delivered again
  after a later answer turns that answer back (`diff.rs` 69).
* ADD is diffed as a restatement: it removes the RRULE and replaces the DTSTART (`diff.rs` 69).
* A reply that moves the meeting is trimmed to its answer, where `ROADMAP.md` 251 and ADR 0005
  amendment 12 say it is refused (`transition.rs` 193).

## Not modelled

Listed with reasons in `PROJECT.json`. In short: the CalDAV operations other than the conditional write
and the freshness decisions, whose protocol is that of `Operation` and `ServerOperation` and whose
content is the decoding of one body; of queries, all but the prefilter and the walk of one series (the
filter walk, overrides, property filters, data subsets, free-busy); of time zones, sets of
definitions, combined sources, exclusions and overrides; codecs of single values, which tests over strings serve well; wording of diagnostics; the
conformance corpus and the tooling.
