-------------------------- MODULE RecurrenceSearch --------------------------
(***************************************************************************)
(* The recurrence search of internal/recur: the rule stream that opens one *)
(* period after another and weighs its candidates, the merge of that       *)
(* stream with RDATE, EXDATE and the overrides, the iterator that emits    *)
(* what belongs to the window, and the cursor that resumes it.             *)
(*                                                                         *)
(* Instants are integers.  An ascending list that its constructor checked  *)
(* (candidates, RDATE, EXDATE, overrides) is the set of what is left of    *)
(* it; the position in the list is what has been taken out.                *)
(***************************************************************************)
EXTENDS Integers, FiniteSets, Sequences

CONSTANTS
  Inputs,             \* the series a search may be asked about
  Windows,            \* the windows a caller asks for: [start, end]
  Meters,             \* the budgets a session opens: [period, ledger, occurrences]
  Origin,             \* the anchor of the period that holds DTSTART
  Span,               \* instants from one period's anchor to the next one's
  LastIndex,          \* the last period the calendar can represent

  MaxResumes,         \* bound: how often a cursor is handed back
  ResumeAnywhere      \* FALSE: only a cursor whose key was handed over is used

AnchorOf(i) == Origin + i * Span
Latest      == AnchorOf(LastIndex + 1) - 1
Instants    == 0..Latest

ASSUME SearchAssumption ==
  /\ Origin \in Nat
  /\ Span \in Nat \ {0}
  /\ LastIndex \in Nat
  /\ MaxResumes \in Nat
  /\ \A w \in Windows : w.start \in Int /\ w.end \in Int

IsLimit(limit) ==
  \/ limit[1] = "none"
  \/ limit[1] \in {"count", "until"} /\ limit[2] \in Nat

(* The overrides are a list that ascends by id, equal ids admitted: place  *)
(* is the position in it.                                                  *)
IsOverrideList(overs) ==
  /\ IsFiniteSet(overs)
  /\ \A o \in overs :
       /\ o.id \in Instants /\ o.place \in 1..Cardinality(overs)
       /\ o.moved \subseteq Instants /\ \A m, n \in o.moved : m = n
  /\ \A o, p \in overs :
       /\ o.place = p.place => o = p
       /\ o.id < p.id => o.place < p.place

(* What the constructors of the input check, and what the expansion of a   *)
(* rule shows (PeriodIsRuleSet): one period lies before the next.          *)
ASSUME SeriesAssumption ==
  \A in \in Inputs :
    /\ in.dtstart \in Nat /\ in.rdates \subseteq Nat /\ in.exdates \subseteq Nat
    /\ IsFiniteSet(in.rdates) /\ IsLimit(in.limit) /\ IsOverrideList(in.overrides)
    /\ DOMAIN in.candidates \subseteq 0..LastIndex
    /\ \A i \in DOMAIN in.candidates :
         in.candidates[i] \subseteq Nat /\ IsFiniteSet(in.candidates[i])
    /\ \A i, j \in DOMAIN in.candidates :
         i < j => \A c \in in.candidates[i], d \in in.candidates[j] : c < d

VARIABLES
  input, window, meter,
  calling,       \* the caller is inside next()
  index,         \* PeriodWalk.index: the period the walk opens next
  left,          \* SelectedCandidates from `position` on
  produced,      \* what COUNT counts
  ended,         \* RuleStream.ended
  resumeAfter,   \* -1 when the search has no cursor
  offered,       \* {} or the rule key the merge has not consumed
  streamDone,
  reached,
  rdates,        \* RDATE from Merge.rdates_merged on
  exdates,       \* EXDATE from Merge.exdates_passed on
  overrides,     \* overrides from Merge.overrides_passed on
  nearest,       \* {} or the nearest THISANDFUTURE anchor passed
  shift,         \* {} or the last stated move
  outcome, finished,
  resumes,       \* how often a cursor has been handed back (bound)
  emitted        \* every occurrence handed to the caller, over all resumes

walkVars  == <<index, left, produced, ended>>
mergeVars == <<rdates, exdates, overrides, nearest, shift>>
askedVars == <<input, window, resumeAfter, resumes>>
vars == <<walkVars, mergeVars, askedVars, meter, calling, offered, streamDone,
          reached, outcome, finished, emitted>>

Least(S)    == CHOOSE x \in S : \A y \in S : x <= y
Greatest(S) == CHOOSE x \in S : \A y \in S : y <= x
Contains(w, at) == w.start <= at /\ at < w.end

(* Override::shift_seconds: a move by zero states nothing.                 *)
ShiftOf(o) == IF o.moved = {} THEN {} ELSE {m - o.id : m \in o.moved} \ {0}

(* The largest absolute move any override states.                          *)
Widest(over) ==
  LET moves == UNION {ShiftOf(o) : o \in over}
  IN  Greatest({0} \cup moves \cup {0 - m : m \in moves})

(* The window keys are generated over: moves reach in and out of the one   *)
(* that was asked about.                                                   *)
Generation ==
  [start |-> window.start - Widest(input.overrides),
   end   |-> window.end + Widest(input.overrides)]

(* expand_period and select: what period i holds, in order.                *)
CandidatesOf(i) == IF i \in DOMAIN input.candidates THEN input.candidates[i] ELSE {}
(* One charge for the clock of the period and one per stamp it assembles.  *)
CostOf(i) == 1 + Cardinality(CandidatesOf(i))

HasEndedAt(key) ==
  \/ input.limit[1] = "count" /\ produced >= input.limit[2]
  \/ input.limit[1] = "until" /\ key > input.limit[2]

(* A search of `in` over `w` from the given position, on a fresh ledger.   *)
Start(in, after, count, period, m) ==
  /\ index = period /\ left = {} /\ produced = count /\ ended = FALSE
  /\ resumeAfter = after
  /\ offered = {} /\ streamDone = FALSE
  /\ rdates = in.rdates /\ exdates = in.exdates /\ overrides = in.overrides
  /\ nearest = {} /\ shift = {}
  /\ reached = (IF after = -1 THEN in.dtstart ELSE after)
  /\ outcome = "Pending" /\ finished = FALSE /\ calling = FALSE
  /\ meter = m

Init ==
  /\ input \in Inputs /\ window \in Windows
  /\ \E m \in Meters : Start(input, -1, 0, 0, m)
  /\ resumes = 0 /\ emitted = << >>

(* SearchCursor::cursor_state: the period the walk was inside.             *)
CursorPeriod == IF index = 0 THEN 0 ELSE index - 1

(* Only a series that is a rule alone is resumed by its keys.              *)
RuleAlone(in) == in.rdates = {} /\ in.exdates = {} /\ in.overrides = {}

(* The caller keeps cursor() and hands it to resume(), under a new budget. *)
Resume ==
  /\ ~calling /\ resumes < MaxResumes /\ RuleAlone(input)
  /\ emitted = << >> \/ outcome = "OccurrencesSpent" => ResumeAnywhere
  /\ resumes' = resumes + 1
  /\ \E m \in Meters : meter' = m
  /\ index' = CursorPeriod /\ left' = {} /\ ended' = FALSE
  /\ resumeAfter' = reached
  /\ offered' = {} /\ streamDone' = FALSE
  /\ rdates' = input.rdates /\ exdates' = input.exdates
  /\ overrides' = input.overrides /\ nearest' = {} /\ shift' = {}
  /\ outcome' = "Pending" /\ finished' = FALSE
  /\ UNCHANGED <<input, window, calling, produced, reached, emitted>>

CallNext ==
  /\ ~calling /\ ~finished
  /\ calling' = TRUE
  /\ UNCHANGED <<walkVars, mergeVars, askedVars, meter, offered, streamDone,
                 reached, outcome, finished, emitted>>

-----------------------------------------------------------------------------
(* RuleStream::next_key, one candidate or one period at a time.            *)

Filling == calling /\ offered = {} /\ ~streamDone
Weighing(key) == Filling /\ ~ended /\ \A other \in left : key <= other
Opening == Filling /\ ~ended /\ left = {}

(* fill_offer on an end of the stream: record() keeps the first outcome.   *)
StreamStops(why) ==
  /\ streamDone' = TRUE
  /\ outcome' = IF outcome = "Pending" THEN why ELSE outcome
  /\ UNCHANGED <<offered, reached, finished, calling, emitted, produced>>

(* Mutant: the key the cursor names is delivered once more.                *)
BeforeTheSearchAgain(key) == key < input.dtstart \/ key < resumeAfter

BeforeTheSearch(key) == key < input.dtstart \/ key <= resumeAfter

(* The candidate is not an instance of this search.                        *)
PassOver ==
  \E key \in left :
    /\ Weighing(key)
    /\ \/ BeforeTheSearch(key)
       \/ ~HasEndedAt(key) /\ key < Generation.end /\ key \notin input.admitted
    /\ left' = left \ {key}
    /\ UNCHANGED <<index, produced, ended, mergeVars, askedVars, meter, calling,
                   offered, streamDone, reached, outcome, finished, emitted>>

(* The first candidate past the limit ends the rule.                       *)
EndRule ==
  \E key \in left :
    /\ Weighing(key) /\ ~BeforeTheSearch(key) /\ HasEndedAt(key)
    /\ left' = left \ {key} /\ ended' = TRUE
    /\ StreamStops("RuleEnded")
    /\ UNCHANGED <<index, mergeVars, askedVars, meter>>

(* The first candidate past the window ends the stream, not the rule.      *)
LeaveWindow ==
  \E key \in left :
    /\ Weighing(key) /\ ~BeforeTheSearch(key) /\ ~HasEndedAt(key)
    /\ key >= Generation.end
    /\ left' = left \ {key}
    /\ StreamStops("WindowEnded")
    /\ UNCHANGED <<index, ended, mergeVars, askedVars, meter>>

(* An instance: counted, and offered to the merge.                         *)
Offer ==
  \E key \in left :
    /\ Weighing(key) /\ ~BeforeTheSearch(key) /\ ~HasEndedAt(key)
    /\ key < Generation.end /\ key \in input.admitted
    /\ left' = left \ {key} /\ produced' = produced + 1
    /\ offered' = {key} /\ reached' = key
    /\ UNCHANGED <<index, ended, mergeVars, askedVars, meter, calling,
                   streamDone, outcome, finished, emitted>>

(* Mutant: nothing ends a walk that has left the calendar.                 *)
EndWalkInCalendar ==
  /\ Filling /\ (ended \/ left = {})
  /\ ended \/ input.candidates = << >>
  /\ StreamStops("RuleEnded") /\ ended' = TRUE
  /\ UNCHANGED <<index, left, mergeVars, askedVars, meter>>

(* No cadence, a walk past the calendar, or a stream already over.         *)
EndWalk ==
  /\ Filling /\ (ended \/ left = {})
  /\ \/ ~ended /\ input.candidates = << >> /\ StreamStops("RuleEnded")
     \/ ~ended /\ input.candidates # << >> /\ index > LastIndex
          /\ StreamStops("CalendarEnded")
     \/ ended /\ StreamStops("RuleEnded")
  /\ ended' = TRUE
  /\ UNCHANGED <<index, left, mergeVars, askedVars, meter>>

Walks == Opening /\ input.candidates # << >> /\ index <= LastIndex

(* The period begins past the window: nothing of it is expanded.           *)
PeriodPastWindow ==
  /\ Walks /\ AnchorOf(index) >= Generation.end
  /\ index' = index + 1
  /\ StreamStops("WindowEnded")
  /\ UNCHANGED <<left, ended, mergeVars, askedVars, meter>>

Affords(cost) == cost <= meter.period /\ cost <= meter.ledger

ExpandPeriod ==
  /\ Walks /\ AnchorOf(index) < Generation.end /\ Affords(CostOf(index))
  /\ index' = index + 1 /\ left' = CandidatesOf(index)
  /\ meter' = [meter EXCEPT !.ledger = @ - CostOf(index)]
  /\ UNCHANGED <<produced, ended, mergeVars, askedVars, calling, offered,
                 streamDone, reached, outcome, finished, emitted>>

(* The expansion was refused half way: the walk has moved, the candidates  *)
(* have not been kept, and the search is over.                             *)
ExhaustPeriod ==
  /\ Walks /\ AnchorOf(index) < Generation.end /\ ~Affords(CostOf(index))
  /\ index' = index + 1
  /\ outcome' = "CandidatesSpent" /\ finished' = TRUE /\ calling' = FALSE
  /\ UNCHANGED <<left, produced, ended, mergeVars, askedVars, meter, offered,
                 streamDone, reached, emitted>>

NextKey == PassOver \/ EndRule \/ LeaveWindow \/ Offer \/ EndWalk
             \/ PeriodPastWindow \/ ExpandPeriod \/ ExhaustPeriod

-----------------------------------------------------------------------------
(* RecurrenceSearch::advance once the offer is filled.                     *)

Merging == calling /\ (offered # {} \/ streamDone)

Drained ==
  /\ Merging /\ offered = {} /\ rdates = {}
  /\ finished' = TRUE /\ calling' = FALSE
  /\ UNCHANGED <<walkVars, mergeVars, askedVars, meter, offered, streamDone,
                 reached, outcome, emitted>>

Merges(key) == Merging /\ \A other \in offered \cup rdates : key <= other

Passed(key)  == {o \in overrides : o.id <= key}
Anchors(key) == {o \in Passed(key) : o.future}
(* The last anchor of the list, and the last one that states a move.       *)
LastOf(over) == {o \in over : \A p \in over : p.place <= o.place}

(* Mutant: the first anchor passed stays the nearest.                      *)
NearestAfterFirst(key) ==
  IF Anchors(key) = {} \/ nearest # {} THEN nearest ELSE {o.id : o \in LastOf(Anchors(key))}

NearestAfter(key) ==
  IF Anchors(key) = {} THEN nearest ELSE {o.id : o \in LastOf(Anchors(key))}
ShiftAfter(key) ==
  LET stated == {o \in Anchors(key) : ShiftOf(o) # {}}
  IN  IF stated = {} THEN shift ELSE UNION {ShiftOf(o) : o \in LastOf(stated)}

(* OverrideSet::exact_match: the first of those that name the key.         *)
Exact(key) ==
  {o \in input.overrides :
     o.id = key /\ \A p \in input.overrides : p.id = key => o.place <= p.place}
Moved(key) == UNION {o.moved : o \in Exact(key)}

(* An exact move, else an addition stays put, else the nearest stated move.*)
EffectiveStart(key) ==
  IF Moved(key) # {} THEN Least(Moved(key))
  ELSE IF key \notin offered \/ ShiftAfter(key) = {} THEN key
  ELSE key + Least(ShiftAfter(key))

Provenance(key) ==
  IF Exact(key) # {} THEN <<"ExactMatch">>
  ELSE IF NearestAfter(key) # {} THEN <<"ThisAndFuture", Least(NearestAfter(key))>>
  ELSE IF key \notin offered THEN <<"AddedByRdate">>
  ELSE <<"None">>

OccurrenceAt(key) ==
  [key |-> key, start |-> EffectiveStart(key), by |-> Provenance(key)]

(* Mutant: a date the rule gives as well comes round a second time.        *)
ConsumeOneHead(key) ==
  /\ offered' = offered \ {key}
  /\ rdates' = IF key \in offered THEN rdates ELSE rdates \ {key}
  /\ exdates' = {e \in exdates : e >= key}
  /\ overrides' = overrides \ Passed(key)
  /\ nearest' = NearestAfter(key) /\ shift' = ShiftAfter(key)
  /\ UNCHANGED <<walkVars, askedVars, streamDone>>

(* Merge::step consumes the earlier head, or both when they coincide, and  *)
(* moves the cursors of the exclusions and the overrides up to its key.    *)
Consume(key) ==
  /\ offered' = offered \ {key} /\ rdates' = rdates \ {key}
  /\ exdates' = {e \in exdates : e >= key}
  /\ overrides' = overrides \ Passed(key)
  /\ nearest' = NearestAfter(key) /\ shift' = ShiftAfter(key)
  /\ UNCHANGED <<walkVars, askedVars, streamDone>>

(* RecurrenceSearch::admits.                                               *)
AdmitsToWindow(key) ==
  /\ key > resumeAfter
  /\ Contains(window, key) \/ Contains(window, EffectiveStart(key))

Suppressed(key) ==
  \/ key \in exdates
  \/ key < Generation.end /\ ~AdmitsToWindow(key)

(* An exclusion, or an occurrence outside the window: turn again.          *)
Retry ==
  \E key \in offered \cup rdates :
    /\ Merges(key) /\ Suppressed(key)
    /\ Consume(key)
    /\ UNCHANGED <<meter, calling, reached, outcome, finished, emitted>>

(* The merge is ordered: the first key past the window ends the search.    *)
StopAtWindow ==
  \E key \in offered \cup rdates :
    /\ Merges(key) /\ key \notin exdates /\ key >= Generation.end
    /\ Consume(key)
    /\ outcome' = IF outcome = "Pending" THEN "WindowEnded" ELSE outcome
    /\ finished' = TRUE /\ calling' = FALSE
    /\ UNCHANGED <<meter, reached, emitted>>

Delivers(key) == Merges(key) /\ ~Suppressed(key) /\ key < Generation.end

Refuse ==
  \E key \in offered \cup rdates :
    /\ Delivers(key) /\ meter.occurrences = 0
    /\ Consume(key)
    /\ outcome' = "OccurrencesSpent" /\ finished' = TRUE /\ calling' = FALSE
    /\ UNCHANGED <<meter, reached, emitted>>

Deliver ==
  \E key \in offered \cup rdates :
    /\ Delivers(key) /\ meter.occurrences > 0
    /\ Consume(key)
    /\ meter' = [meter EXCEPT !.occurrences = @ - 1]
    /\ reached' = Greatest({reached, key})
    /\ emitted' = Append(emitted, OccurrenceAt(key))
    /\ calling' = FALSE
    /\ UNCHANGED <<outcome, finished>>

Advance == Drained \/ Retry \/ StopAtWindow \/ Refuse \/ Deliver

Next == Resume \/ CallNext \/ NextKey \/ Advance

(* next() is one synchronous call: once entered, its loop keeps turning.   *)
Fairness == WF_vars(NextKey) /\ WF_vars(Advance)

Spec == Init /\ [][Next]_vars /\ Fairness
=============================================================================
