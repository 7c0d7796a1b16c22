-------------------------- MODULE RecurrenceAnswer --------------------------
(***************************************************************************)
(* The recurrence set a search must hand over, defined from the series as  *)
(* sets, and the properties of the search that are about it.               *)
(***************************************************************************)
EXTENDS RecurrenceSearch

(* The instances of the rule: its candidates from DTSTART on that are      *)
(* admitted, cut by COUNT or UNTIL.                                        *)
Admitted ==
  {c \in (UNION {CandidatesOf(i) : i \in 0..LastIndex}) \cap input.admitted : c >= input.dtstart}
RuleKeys ==
  CASE input.limit[1] = "none"  -> Admitted
    [] input.limit[1] = "until" -> {c \in Admitted : c <= input.limit[2]}
    [] input.limit[1] = "count" ->
         {c \in Admitted : Cardinality({d \in Admitted : d < c}) < input.limit[2]}

SeriesKeys == (RuleKeys \cup input.rdates) \ input.exdates

(* Of several overrides of one key the first is in force and "the later    *)
(* one is inert" (OverrideSet::new).                                       *)
Shadowed(o) == \E p \in input.overrides : p.id = o.id /\ p.place < o.place
OverridesInForce == {o \in input.overrides : ~Shadowed(o)}

(* Where an instance happens: where its own override puts it; an added one *)
(* where it was added; otherwise moved as the last anchor that states a    *)
(* move says.                                                              *)
The(S) == CHOOSE x \in S : TRUE
FirstOwn(k) == {o \in OverridesInForce : o.id = k}
OwnMoves(k) == UNION {o.moved : o \in FirstOwn(k)}
AnchorsUpTo(k) == {o \in OverridesInForce : o.future /\ o.id <= k}
AnchorsThatMove(k) == {o \in AnchorsUpTo(k) : ShiftOf(o) # {}}
StartOf(k) ==
  IF OwnMoves(k) # {} THEN The(OwnMoves(k))
  ELSE IF k \notin RuleKeys \/ AnchorsThatMove(k) = {} THEN k
  ELSE k + The(UNION {ShiftOf(o) : o \in LastOf(AnchorsThatMove(k))})

(* What an instance names: its own override, or else the nearest anchor.   *)
NamedBy(k) ==
  IF FirstOwn(k) # {} THEN <<"ExactMatch">>
  ELSE IF AnchorsUpTo(k) # {} THEN <<"ThisAndFuture", Greatest({o.id : o \in AnchorsUpTo(k)})>>
  ELSE IF k \notin RuleKeys THEN <<"AddedByRdate">> ELSE <<"None">>

AnswerKeys ==
  {k \in SeriesKeys : Contains(window, k) \/ Contains(window, StartOf(k))}

Answer ==
  LET keys == AnswerKeys
      nth(i) == CHOOSE k \in keys : Cardinality({j \in keys : j < k}) = i - 1
  IN  [i \in 1..Cardinality(keys) |-> <<nth(i), StartOf(nth(i))>>]

Given == [i \in DOMAIN emitted |-> <<emitted[i].key, emitted[i].start>>]

Feed == INSTANCE OccurrenceFeed WITH
          answer <- Answer, given <- Given,
          ended  <- IF ~finished THEN "no"
                    ELSE IF outcome \in {"CandidatesSpent", "OccurrencesSpent"}
                         THEN "exhausted" ELSE "complete"

(* Whatever is merged, excluded, moved, limited, cut off by a budget and   *)
(* resumed, the caller is given the occurrences of the series that belong  *)
(* to the window, each once, in key order, with nothing left out before    *)
(* the one it was given last; and a search that claims a complete outcome  *)
(* has given them all (RecurrenceSearch::next, cursor, SearchOutcome).     *)
ImplementsOccurrenceFeed == Feed!FeedSpec

(* The keys handed to the caller ascend, over every resumption: nothing is *)
(* given twice or out of order, whichever of two merged lists, and which   *)
(* of the two searches, it came from (RecurrenceSearch::next, cursor).     *)
KeysAscend ==
  \A i, j \in DOMAIN emitted : i < j => emitted[i].key < emitted[j].key

(* An emitted occurrence names the nearest THISANDFUTURE anchor at or      *)
(* before it unless an override is its own, whatever windows, exclusions   *)
(* and earlier additions the merge went past (Merge::provenance_of).       *)
NamesNearestAnchor ==
  \A i \in DOMAIN emitted : emitted[i].by = NamedBy(emitted[i].key)

(* Of two overrides of one key "the later one is inert" and modifies       *)
(* nothing (OverrideSet::new, collisions): what is handed over happens     *)
(* where, and names the override, that the entries in force say.           *)
ShadowedOverridesAreInert ==
  \A i \in DOMAIN emitted :
    /\ emitted[i].start = StartOf(emitted[i].key)
    /\ emitted[i].by = NamedBy(emitted[i].key)

(* "Cadence keys at or before this one belong to the search that produced  *)
(* this cursor" (SearchCursor.resume_after): what a resumed search passes  *)
(* over has been handed to the caller.                                     *)
CursorKeysWereGiven ==
  \A k \in AnswerKeys : k <= resumeAfter => \E i \in DOMAIN emitted : emitted[i].key = k

(* Every call of next() returns: a rule whose periods hold nothing, an     *)
(* excluded tail or a series outside the window ends in the window, the    *)
(* calendar or the budget and never spins (RecurrenceSearch::next).        *)
NextReturns == calling ~> ~calling
=============================================================================
