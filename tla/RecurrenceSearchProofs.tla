----------------------- MODULE RecurrenceSearchProofs -----------------------
(***************************************************************************)
(* What a search hands over ascends by key, over every resumption.         *)
(*                                                                         *)
(* KeysAscend is not inductive: why the next key lies behind the last one  *)
(* has two reasons.  Within one search, whatever the merge can still       *)
(* produce (Pending) lies behind what it has produced.  After a resumption *)
(* that is no longer so, the walk opens a period it has seen; but then     *)
(* everything given lies at or before resumeAfter, which is passed over.   *)
(***************************************************************************)
EXTENDS RecurrenceAnswer, FiniteSetTheorems, WellFoundedInduction, TLAPS

(* The candidates of the periods not yet opened.                           *)
Unopened == UNION {CandidatesOf(j) : j \in {n \in Nat : index <= n}}
(* What the rule stream may still offer, and the merge still produce.      *)
Stream   == IF streamDone THEN {} ELSE left \cup Unopened
Pending  == offered \cup rdates \cup Stream

KeyOf(i) == emitted[i].key

Shaped ==
  /\ input \in Inputs /\ index \in Nat
  /\ left \subseteq Int /\ offered \subseteq Int /\ rdates \subseteq Int
  /\ reached \in Int /\ resumeAfter \in Int
  /\ \E S : emitted \in Seq(S)
  /\ \A i \in DOMAIN emitted : KeyOf(i) \in Int

(* The cursor's position is never before what has been given.              *)
GivenIsReached == \A i \in DOMAIN emitted : KeyOf(i) <= reached

(* A key that could come next is behind what was given, or passed over.    *)
GivenIsPast ==
  \A i \in DOMAIN emitted :
    KeyOf(i) <= resumeAfter \/ \A k \in Pending : KeyOf(i) < k

(* The rule key on offer is before all the others of the stream, and the   *)
(* period being weighed before the periods still to open.                  *)
OfferIsFirst  == \A o \in offered, k \in Stream : o < k
PeriodIsFirst == \A l \in left, k \in Unopened : l < k

SearchInv ==
  /\ Shaped /\ GivenIsReached /\ GivenIsPast /\ OfferIsFirst /\ PeriodIsFirst
  /\ KeysAscend

-----------------------------------------------------------------------------
(* A sequence keeps its elements when one is appended, whatever they are   *)
(* (the occurrences handed to the caller).                                 *)
LEMMA AppendKeeps ==
  ASSUME NEW s, NEW e, \E S : s \in Seq(S)
  PROVE  /\ \E S : Append(s, e) \in Seq(S)
         /\ Len(s) \in Nat /\ DOMAIN s = 1..Len(s)
         /\ DOMAIN Append(s, e) = 1..(Len(s) + 1)
         /\ \A i \in 1..Len(s) : Append(s, e)[i] = s[i]
         /\ Append(s, e)[Len(s) + 1] = e
<1>1. PICK S : s \in Seq(S)
  OBVIOUS
<1>2. s \in Seq(S \cup {e})
  BY <1>1
<1>3. Append(s, e) \in Seq(S \cup {e})
  BY <1>2
<1>4. QED
  BY <1>2, <1>3

(* The later of two instants is at or after both (reached.max(key)).       *)
LEMMA GreatestOfTwo ==
  ASSUME NEW a \in Int, NEW b \in Int
  PROVE  /\ Greatest({a, b}) \in Int
         /\ a <= Greatest({a, b}) /\ b <= Greatest({a, b})
<1>1. \E x \in {a, b} : \A y \in {a, b} : y <= x
  OBVIOUS
<1>2. QED
  BY <1>1 DEF Greatest

(* The candidates of a period are instants.                                *)
LEMMA CandidatesAreInstants ==
  ASSUME input \in Inputs
  PROVE  \A j \in Nat : CandidatesOf(j) \subseteq Int
BY SeriesAssumption DEF SeriesAssumption, CandidatesOf

(* The stream and what is pending are instants (RuleStream, Merge).        *)
LEMMA PendingAreInstants ==
  ASSUME Shaped
  PROVE  Unopened \subseteq Int /\ Stream \subseteq Int /\ Pending \subseteq Int
<1>1. Unopened \subseteq Int
  BY CandidatesAreInstants DEF Shaped, Unopened
<1>2. QED
  BY <1>1 DEF Shaped, Stream, Pending

(* A step that gives nothing and only consumes what was pending keeps the  *)
(* invariant: most turns of next() (RuleStream::next_key, Merge::step).    *)
Consumes ==
  /\ UNCHANGED <<input, resumeAfter, reached, emitted>>
  /\ index' = index \/ index' = index + 1
  /\ left' \subseteq left /\ offered' \subseteq offered /\ rdates' \subseteq rdates
  /\ streamDone' = streamDone \/ streamDone' = TRUE

LEMMA ConsumesKeeps ==
  ASSUME SearchInv, Consumes
  PROVE  SearchInv'
<1>1. \A j : CandidatesOf(j)' = CandidatesOf(j)
  BY DEF Consumes, CandidatesOf
<1>2. Unopened' \subseteq Unopened
  BY <1>1 DEF Consumes, Unopened, SearchInv, Shaped
<1>3. Stream' \subseteq Stream
  BY <1>2 DEF Consumes, Stream
<1>4. Pending' \subseteq Pending
  BY <1>3 DEF Consumes, Pending
<1>5. Shaped'
  BY DEF SearchInv, Shaped, Consumes, KeyOf
<1>6. GivenIsReached' /\ KeysAscend'
  BY DEF SearchInv, Consumes, GivenIsReached, KeysAscend, KeyOf
<1>7. GivenIsPast'
  BY <1>4 DEF SearchInv, Consumes, GivenIsPast, KeyOf
<1>8. OfferIsFirst'
  BY <1>3 DEF SearchInv, Consumes, OfferIsFirst
<1>9. PeriodIsFirst'
  BY <1>2 DEF SearchInv, Consumes, PeriodIsFirst
<1>10. QED
  BY <1>5, <1>6, <1>7, <1>8, <1>9 DEF SearchInv

(* A cursor handed back: everything given is at or before resume_after.    *)
LEMMA ResumeKeeps ==
  ASSUME SearchInv, Resume
  PROVE  SearchInv'
<1>1. /\ UNCHANGED <<input, reached, emitted>>
      /\ left' = {} /\ offered' = {} /\ resumeAfter' = reached
      /\ rdates' = input.rdates
      /\ index' = IF index = 0 THEN 0 ELSE index - 1
  BY DEF Resume, CursorPeriod
<1>2. Shaped'
  BY <1>1, SeriesAssumption DEF SeriesAssumption, SearchInv, Shaped, KeyOf
<1>3. GivenIsReached' /\ KeysAscend'
  BY <1>1 DEF SearchInv, GivenIsReached, KeysAscend, KeyOf
<1>4. GivenIsPast'
  BY <1>1 DEF SearchInv, GivenIsReached, GivenIsPast, KeyOf
<1>5. OfferIsFirst' /\ PeriodIsFirst'
  BY <1>1 DEF OfferIsFirst, PeriodIsFirst
<1>6. QED
  BY <1>2, <1>3, <1>4, <1>5 DEF SearchInv

(* A period is opened: its candidates lie before those of the periods      *)
(* after it (expand_period).                                               *)
LEMMA ExpandPeriodKeeps ==
  ASSUME SearchInv, ExpandPeriod
  PROVE  SearchInv'
<1>1. /\ UNCHANGED <<input, resumeAfter, reached, emitted, offered, rdates, streamDone>>
      /\ index' = index + 1 /\ left' = CandidatesOf(index)
      /\ index \in Nat /\ input \in Inputs /\ left = {}
  BY DEF ExpandPeriod, Walks, Opening, mergeVars, askedVars, SearchInv, Shaped
<1>2. \A j : CandidatesOf(j)' = CandidatesOf(j)
  BY <1>1 DEF CandidatesOf
<1>3. Unopened' = UNION {CandidatesOf(j) : j \in {n \in Nat : index + 1 <= n}}
  BY <1>1, <1>2 DEF Unopened
<1>4. left' \cup Unopened' \subseteq Unopened
  BY <1>1, <1>3 DEF Unopened
<1>5. Stream' \subseteq Stream
  BY <1>1, <1>4 DEF Stream
<1>6. Pending' \subseteq Pending
  BY <1>1, <1>5 DEF Pending
<1>7. Shaped'
  BY <1>1, CandidatesAreInstants DEF SearchInv, Shaped, KeyOf
<1>8. GivenIsReached' /\ KeysAscend'
  BY <1>1 DEF SearchInv, GivenIsReached, KeysAscend, KeyOf
<1>9. GivenIsPast'
  BY <1>1, <1>6 DEF SearchInv, GivenIsPast, KeyOf
<1>10. OfferIsFirst'
  BY <1>1, <1>5 DEF SearchInv, OfferIsFirst
<1>11. PeriodIsFirst'
  <2>1. SUFFICES ASSUME NEW l \in CandidatesOf(index), NEW j \in Nat, index + 1 <= j,
                        NEW k \in CandidatesOf(j)
                 PROVE  l < k
    BY <1>1, <1>3 DEF PeriodIsFirst
  <2>2. index < j /\ index \in DOMAIN input.candidates /\ j \in DOMAIN input.candidates
    BY <1>1, <2>1 DEF CandidatesOf
  <2>3. QED
    BY <1>1, <2>1, <2>2, SeriesAssumption DEF SeriesAssumption, CandidatesOf
<1>12. QED
  BY <1>7, <1>8, <1>9, <1>10, <1>11 DEF SearchInv

(* A candidate is offered: it is past everything given, and before what is *)
(* left of the stream (RuleStream::next_key).                              *)
LEMMA OfferKeeps ==
  ASSUME SearchInv, Offer
  PROVE  SearchInv'
<1>1. PICK key \in left :
        /\ Weighing(key) /\ ~BeforeTheSearch(key)
        /\ left' = left \ {key} /\ offered' = {key} /\ reached' = key
        /\ UNCHANGED <<input, index, resumeAfter, rdates, streamDone, emitted>>
  BY DEF Offer, mergeVars, askedVars
<1>2. /\ ~streamDone /\ key \in Int /\ resumeAfter \in Int /\ left \subseteq Int
      /\ \A other \in left : key <= other
      /\ ~(key <= resumeAfter)
  BY <1>1 DEF Weighing, Filling, BeforeTheSearch, SearchInv, Shaped
<1>3. Unopened' = Unopened
  BY <1>1 DEF Unopened, CandidatesOf
<1>4. Stream' = (left \ {key}) \cup Unopened /\ key \in Stream
  BY <1>1, <1>2, <1>3 DEF Stream
<1>5. Pending' \subseteq Pending /\ key \in Pending
  BY <1>1, <1>2, <1>4 DEF Pending, Stream
<1>6. Shaped'
  BY <1>1, <1>2 DEF SearchInv, Shaped, KeyOf
<1>7. GivenIsReached'
  <2>1. SUFFICES ASSUME NEW i \in DOMAIN emitted PROVE KeyOf(i) <= key
    BY <1>1 DEF GivenIsReached, KeyOf
  <2>2. KeyOf(i) \in Int /\ (KeyOf(i) <= resumeAfter \/ KeyOf(i) < key)
    BY <1>5 DEF SearchInv, Shaped, GivenIsPast
  <2>3. QED
    BY <1>2, <2>2
<1>8. KeysAscend'
  BY <1>1 DEF SearchInv, KeysAscend
<1>9. GivenIsPast'
  BY <1>1, <1>5 DEF SearchInv, GivenIsPast, KeyOf
<1>10. OfferIsFirst'
  <2>1. \A k \in left \ {key} : key < k
    BY <1>2
  <2>2. \A k \in Unopened : key < k
    BY <1>1 DEF SearchInv, PeriodIsFirst
  <2>3. QED
    BY <1>1, <1>4, <2>1, <2>2 DEF OfferIsFirst
<1>11. PeriodIsFirst'
  BY <1>1, <1>3 DEF SearchInv, PeriodIsFirst
<1>12. QED
  BY <1>6, <1>7, <1>8, <1>9, <1>10, <1>11 DEF SearchInv

(* An occurrence is given: it is past resume_after and past everything     *)
(* given, and before all that is pending (RecurrenceSearch::advance).      *)
LEMMA DeliverKeeps ==
  ASSUME SearchInv, Deliver
  PROVE  SearchInv'
<1>1. PICK key \in offered \cup rdates :
        /\ Delivers(key) /\ Consume(key)
        /\ reached' = Greatest({reached, key})
        /\ emitted' = Append(emitted, OccurrenceAt(key))
  BY DEF Deliver
<1>2. /\ offered' = offered \ {key} /\ rdates' = rdates \ {key}
      /\ UNCHANGED <<input, index, left, resumeAfter, streamDone>>
  BY <1>1 DEF Consume, walkVars, askedVars
<1>3. /\ key \in Int /\ resumeAfter \in Int /\ reached \in Int
      /\ offered \subseteq Int /\ rdates \subseteq Int
  BY <1>1 DEF SearchInv, Shaped
<1>4. /\ resumeAfter < key
      /\ \A other \in offered \cup rdates : key <= other
      /\ offered # {} \/ streamDone
  BY <1>1, <1>3 DEF Delivers, Merges, Merging, Suppressed, AdmitsToWindow
<1>5. Unopened' = Unopened /\ Stream' = Stream
  BY <1>2 DEF Unopened, CandidatesOf, Stream
<1>6. \A k \in Pending' : key < k /\ k \in Pending
  <2>1. \A k \in offered' \cup rdates' : key < k
    BY <1>2, <1>3, <1>4
  <2>2. \A k \in Stream : key < k
    <3>1. CASE streamDone
      BY <3>1 DEF Stream
    <3>2. CASE offered # {}
      <4>1. PICK o \in offered : key <= o /\ o \in Int /\ \A k \in Stream : o < k
        BY <1>3, <1>4, <3>2 DEF SearchInv, OfferIsFirst
      <4>2. Stream \subseteq Int
        BY PendingAreInstants DEF SearchInv
      <4>3. QED
        BY <1>3, <4>1, <4>2
    <3>3. QED
      BY <1>4, <3>1, <3>2
  <2>3. QED
    BY <1>2, <1>5, <2>1, <2>2 DEF Pending
<1>7. \A i \in DOMAIN emitted : KeyOf(i) \in Int /\ KeyOf(i) < key
  <2>1. SUFFICES ASSUME NEW i \in DOMAIN emitted PROVE KeyOf(i) \in Int /\ KeyOf(i) < key
    OBVIOUS
  <2>2. KeyOf(i) \in Int /\ (KeyOf(i) <= resumeAfter \/ KeyOf(i) < key)
    BY <1>1 DEF SearchInv, Shaped, GivenIsPast, Pending
  <2>3. QED
    BY <1>3, <1>4, <2>2
<1>8. /\ \E S : emitted' \in Seq(S)
      /\ Len(emitted) \in Nat /\ DOMAIN emitted = 1..Len(emitted)
      /\ DOMAIN emitted' = 1..(Len(emitted) + 1)
      /\ \A i \in 1..Len(emitted) : emitted'[i] = emitted[i]
      /\ emitted'[Len(emitted) + 1].key = key
  <2>1. \E S : emitted \in Seq(S)
    BY DEF SearchInv, Shaped
  <2>2. OccurrenceAt(key).key = key
    BY DEF OccurrenceAt
  <2>3. \A e : /\ \E S : Append(emitted, e) \in Seq(S)
               /\ Len(emitted) \in Nat /\ DOMAIN emitted = 1..Len(emitted)
               /\ DOMAIN Append(emitted, e) = 1..(Len(emitted) + 1)
               /\ \A i \in 1..Len(emitted) : Append(emitted, e)[i] = emitted[i]
               /\ Append(emitted, e)[Len(emitted) + 1] = e
    BY <2>1, AppendKeeps
  <2>4. QED
    BY <1>1, <2>2, <2>3, Zenon
<1>9. \A i \in DOMAIN emitted' :
        \/ i \in DOMAIN emitted /\ emitted'[i].key = KeyOf(i)
        \/ i = Len(emitted) + 1 /\ emitted'[i].key = key
  BY <1>8 DEF KeyOf
<1>10. /\ reached' \in Int /\ reached <= reached' /\ key <= reached'
  BY <1>1, <1>3, GreatestOfTwo
<1>11. Shaped'
  BY <1>2, <1>3, <1>7, <1>8, <1>9, <1>10 DEF SearchInv, Shaped, KeyOf
<1>12. GivenIsReached'
  BY <1>3, <1>7, <1>9, <1>10 DEF GivenIsReached, KeyOf
<1>13. KeysAscend'
  <2>1. SUFFICES ASSUME NEW i \in DOMAIN emitted', NEW j \in DOMAIN emitted', i < j
                 PROVE  emitted'[i].key < emitted'[j].key
    BY DEF KeysAscend
  <2>2. i \in DOMAIN emitted /\ emitted'[i].key = KeyOf(i)
    BY <1>8, <1>9, <2>1
  <2>3. CASE j \in DOMAIN emitted /\ emitted'[j].key = KeyOf(j)
    BY <2>1, <2>2, <2>3 DEF SearchInv, KeysAscend, KeyOf
  <2>4. CASE emitted'[j].key = key
    BY <1>7, <2>2, <2>4
  <2>5. QED
    BY <1>9, <2>3, <2>4
<1>14. GivenIsPast'
  <2>1. SUFFICES ASSUME NEW i \in DOMAIN emitted'
                 PROVE  emitted'[i].key <= resumeAfter \/ \A k \in Pending' : emitted'[i].key < k
    BY <1>2 DEF GivenIsPast, KeyOf
  <2>2. CASE i \in DOMAIN emitted /\ emitted'[i].key = KeyOf(i)
    BY <1>6, <2>2 DEF SearchInv, GivenIsPast
  <2>3. CASE emitted'[i].key = key
    BY <1>6, <2>3
  <2>4. QED
    BY <1>9, <2>2, <2>3
<1>15. OfferIsFirst' /\ PeriodIsFirst'
  BY <1>2, <1>5 DEF SearchInv, OfferIsFirst, PeriodIsFirst
<1>16. QED
  BY <1>11, <1>12, <1>13, <1>14, <1>15 DEF SearchInv

-----------------------------------------------------------------------------
(* A search that has given nothing satisfies the invariant.                *)
LEMMA InitKeeps == Init => SearchInv
<1>1. SUFFICES ASSUME Init PROVE SearchInv
  OBVIOUS
<1>2. /\ input \in Inputs /\ index = 0 /\ left = {} /\ offered = {}
      /\ rdates = input.rdates /\ resumeAfter = -1 /\ reached = input.dtstart
      /\ emitted = << >>
  BY <1>1 DEF Init, Start
<1>3. emitted \in Seq({}) /\ DOMAIN emitted = {}
  BY <1>2
<1>4. Shaped
  BY <1>2, <1>3, SeriesAssumption DEF SeriesAssumption, Shaped
<1>5. QED
  BY <1>2, <1>3, <1>4
  DEF SearchInv, GivenIsReached, GivenIsPast, OfferIsFirst, PeriodIsFirst, KeysAscend

(* Every step of the search keeps it.                                      *)
LEMMA StepKeeps == SearchInv /\ [Next]_vars => SearchInv'
<1>1. SUFFICES ASSUME SearchInv, [Next]_vars PROVE SearchInv'
  OBVIOUS
<1>2. CASE Resume
  BY <1>1, <1>2, ResumeKeeps
<1>3. CASE ExpandPeriod
  BY <1>1, <1>3, ExpandPeriodKeeps
<1>4. CASE Offer
  BY <1>1, <1>4, OfferKeeps
<1>5. CASE Deliver
  BY <1>1, <1>5, DeliverKeeps
<1>6. CASE CallNext
  <2>1. Consumes
    BY <1>6 DEF CallNext, Consumes, walkVars, mergeVars, askedVars
  <2>2. QED
    BY <1>1, <2>1, ConsumesKeeps
<1>7. CASE PassOver
  <2>1. Consumes
    BY <1>7 DEF PassOver, Consumes, mergeVars, askedVars
  <2>2. QED
    BY <1>1, <2>1, ConsumesKeeps
<1>8. CASE EndRule
  <2>1. Consumes
    BY <1>8 DEF EndRule, StreamStops, Consumes, mergeVars, askedVars
  <2>2. QED
    BY <1>1, <2>1, ConsumesKeeps
<1>9. CASE LeaveWindow
  <2>1. Consumes
    BY <1>9 DEF LeaveWindow, StreamStops, Consumes, mergeVars, askedVars
  <2>2. QED
    BY <1>1, <2>1, ConsumesKeeps
<1>10. CASE EndWalk
  <2>1. Consumes
    BY <1>10 DEF EndWalk, StreamStops, Consumes, mergeVars, askedVars
  <2>2. QED
    BY <1>1, <2>1, ConsumesKeeps
<1>11. CASE PeriodPastWindow
  <2>1. Consumes
    BY <1>11 DEF PeriodPastWindow, StreamStops, Consumes, mergeVars, askedVars
  <2>2. QED
    BY <1>1, <2>1, ConsumesKeeps
<1>12. CASE ExhaustPeriod
  <2>1. Consumes
    BY <1>12 DEF ExhaustPeriod, Consumes, mergeVars, askedVars
  <2>2. QED
    BY <1>1, <2>1, ConsumesKeeps
<1>13. CASE Drained
  <2>1. Consumes
    BY <1>13 DEF Drained, Consumes, walkVars, mergeVars, askedVars
  <2>2. QED
    BY <1>1, <2>1, ConsumesKeeps
<1>14. CASE Retry
  <2>1. Consumes
    BY <1>14 DEF Retry, Consume, Consumes, walkVars, askedVars
  <2>2. QED
    BY <1>1, <2>1, ConsumesKeeps
<1>15. CASE StopAtWindow
  <2>1. Consumes
    BY <1>15 DEF StopAtWindow, Consume, Consumes, walkVars, askedVars
  <2>2. QED
    BY <1>1, <2>1, ConsumesKeeps
<1>16. CASE Refuse
  <2>1. Consumes
    BY <1>16 DEF Refuse, Consume, Consumes, walkVars, askedVars
  <2>2. QED
    BY <1>1, <2>1, ConsumesKeeps
<1>17. CASE UNCHANGED vars
  <2>1. Consumes
    BY <1>17 DEF vars, Consumes, walkVars, mergeVars, askedVars
  <2>2. QED
    BY <1>1, <2>1, ConsumesKeeps
<1>18. QED
  BY <1>1, <1>2, <1>3, <1>4, <1>5, <1>6, <1>7, <1>8, <1>9, <1>10, <1>11, <1>12,
     <1>13, <1>14, <1>15, <1>16, <1>17 DEF Next, NextKey, Advance

(* Whatever the series, the windows, the budgets and the number of         *)
(* resumptions, the keys handed to the caller ascend (next, resume).       *)
THEOREM KeysAscendHolds == Spec => []KeysAscend
<1>1. SearchInv => KeysAscend
  BY DEF SearchInv
<1>2. QED
  BY <1>1, InitKeeps, StepKeeps, PTL DEF Spec
---------------------------------------------------------------------------
(***************************************************************************)
(* What a search hands over is the answer: the occurrences of the series   *)
(* that belong to the window, each once, in key order, none left out, all  *)
(* of them when the search ends complete, and the next one after a         *)
(* resumption; and each names the override it was given by.                *)
(*                                                                         *)
(* The argument.  The instances the stream has counted are the first of    *)
(* the rule (Counted), so COUNT cuts where the series says; the others are *)
(* still to be weighed, or lie past the window.  What belongs to the       *)
(* window has been given, or waits in the merge, or is not counted yet     *)
(* (Covered).  What the merge remembers of the overrides it has passed is  *)
(* what the series says of the key it turns to (Remembered).  So the key   *)
(* it delivers is the least of the answer not yet given (Begun), and at    *)
(* the end nothing is left.                                                *)
(*                                                                         *)
(* It rests on Claims: the caller resumes only a search that has handed    *)
(* something over and was not refused (CursorKeysWereGiven fails without), *)
(* no period holds a candidate before its anchor, and no anchor is a       *)
(* shadowed override (ShadowedOverridesAreInert fails without).            *)
(***************************************************************************)

(* The candidates not yet weighed, and the keys handed to the caller.      *)
Rest        == left \cup Unopened
EmittedKeys == {KeyOf(i) : i \in DOMAIN emitted}

(* A period holds no candidate before its anchor: true of every rule but   *)
(* those of FREQ=YEARLY with BYWEEKNO, whose year of weeks may begin in    *)
(* the December before.                                                    *)
CandidatesAnchored ==
  \A in \in Inputs : \A i \in DOMAIN in.candidates :
    \A c \in in.candidates[i] : AnchorOf(i) <= c

(* Of the overrides of one key only the first may be an anchor: true of    *)
(* every list whose RECURRENCE-IDs are apart, which a zone that repeats an *)
(* hour may map to one key.                                                *)
AnchorsUnshadowed ==
  \A in \in Inputs : \A o, p \in in.overrides : o.future /\ p.id = o.id => o.place <= p.place

Claims ==
  /\ ~ResumeAnywhere
  /\ CandidatesAnchored
  /\ AnchorsUnshadowed

(* Where next() stands.                                                    *)
Controlled ==
  /\ window \in Windows /\ produced \in Nat /\ reached \in Nat
  /\ finished => ~calling
  /\ outcome \in {"OccurrencesSpent", "CandidatesSpent"} => finished
  /\ ended => streamDone
  /\ resumeAfter >= -1 /\ (resumeAfter = -1 \/ RuleAlone(input))
  /\ rdates \subseteq input.rdates
  /\ \A c \in left : index > 0 /\ c \in CandidatesOf(index - 1)
  /\ \A o, p \in offered : o = p
  /\ \A o \in offered : resumeAfter < o /\ o < Generation.end
  /\ RuleAlone(input) /\ ~calling => offered = {}

(* The instances counted so far are the first of the rule; while the       *)
(* stream runs, the others are still to be weighed; and once it has ended, *)
(* no other instance lies inside the window.                               *)
Counted(X) ==
  /\ X \subseteq Admitted /\ produced = Cardinality(X)
  /\ \A x \in X, a \in Admitted \ X : x < a
  /\ \A a \in Admitted \ X : resumeAfter < a
  /\ \A a \in Admitted \ X : \A i \in Nat : a \in CandidatesOf(i) => CursorPeriod <= i
  /\ ~streamDone /\ ~finished =>
       /\ Admitted \ X \subseteq Rest
       /\ \A x \in X : x \notin Rest \/ x <= resumeAfter
  /\ streamDone => \A a \in RuleKeys \ X : Generation.end <= a
  /\ offered \subseteq X \cap RuleKeys
  /\ \A x \in X \ offered, r \in rdates : x < r
  /\ RuleAlone(input) /\ X # {} => X = {a \in Admitted : a <= reached}
  /\ RuleAlone(input) => EmittedKeys \subseteq X

(* Nothing that belongs to the window is lost on the way.                  *)
Covered(X) ==
  outcome # "OccurrencesSpent" =>
    AnswerKeys \subseteq EmittedKeys \cup offered \cup rdates \cup (RuleKeys \ X)

(* What the merge has gone past, and what it remembers of it.              *)
Gone == input.overrides \ overrides
MoveStated(over) == {o \in over : o.future /\ ShiftOf(o) # {}}
Futures(over) == {o \in over : o.future}
Remembered ==
  /\ overrides \subseteq input.overrides /\ exdates \subseteq input.exdates
  /\ \A g \in Gone : (\A k \in Pending : g.id < k) /\ (\A o \in overrides : g.id < o.id)
  /\ \A e \in input.exdates \ exdates, k \in Pending : e < k
  /\ nearest = {o.id : o \in LastOf(Futures(Gone))}
  /\ shift = UNION {ShiftOf(o) : o \in LastOf(MoveStated(Gone))}

(* What has been given is the beginning of the answer.                     *)
Begun ==
  /\ \A i \in DOMAIN emitted :
       /\ KeyOf(i) \in AnswerKeys
       /\ emitted[i].start = StartOf(KeyOf(i))
       /\ emitted[i].by = NamedBy(KeyOf(i))
       /\ Cardinality({k \in AnswerKeys : k < KeyOf(i)}) = i - 1
  /\ Cardinality(EmittedKeys) = Len(emitted)

FeedInv ==
  /\ Claims /\ SearchInv
  /\ Controlled /\ Remembered /\ Begun
  /\ \E X \in SUBSET Admitted : Counted(X) /\ Covered(X)

-----------------------------------------------------------------------------
(* Every nonempty set of naturals has a least element: the intervals that  *)
(* end in it are well founded by inclusion (Least of what is merged).      *)
LEMMA LeastExists ==
  ASSUME NEW S, S \subseteq Nat, S # {}
  PROVE  \E x \in S : \A y \in S : x <= y
<1>1. PICK top \in S : TRUE
  OBVIOUS
<1> DEFINE U == 0..top
           F == {0..y : y \in S \cap U}
           R == StrictSubsetOrdering(U)
<1>2. top \in Nat /\ IsFiniteSet(U) /\ top \in U
  BY <1>1, FS_Interval
<1>3. IsWellFoundedOn(R, SUBSET U)
  BY <1>2, FS_StrictSubsetOrderingWellFounded, FS_FiniteSubsetsOfFinite
<1>4. F \subseteq SUBSET U
  BY <1>2
<1>4a. 0..top \in F
  BY <1>1, <1>2
<1>5. \E T \in F : \A V \in F : ~(<<V, T>> \in R)
  <2> HIDE DEF F, R, U
  <2>1. QED
    BY <1>3, <1>4, <1>4a, WFMin
<1>6. PICK x \in S \cap U : \A V \in F : ~(<<V, 0..x>> \in R)
  BY <1>5
<1>7. \A y \in S : x <= y
  <2>1. SUFFICES ASSUME NEW y \in S, y < x PROVE FALSE
    BY <1>2
  <2>2. y \in U /\ 0..y \in F /\ 0..x \in F
    BY <1>2, <2>1
  <2>3. 0..y \subseteq 0..x /\ 0..y # 0..x
    BY <1>2, <2>1
  <2>4. <<0..y, 0..x>> \in R
    BY <1>4, <2>2, <2>3 DEF StrictSubsetOrdering
  <2>5. QED
    BY <1>6, <2>2, <2>4
<1>8. QED
  BY <1>7

(* Every nonempty bounded set of integers has a greatest element (the      *)
(* nearest anchor, the widest move).                                       *)
LEMMA GreatestExists ==
  ASSUME NEW S, NEW n \in Int, S \subseteq Int, S # {}, \A x \in S : x <= n
  PROVE  \E x \in S : \A y \in S : y <= x
<1> DEFINE T == {n - x : x \in S}
<1>1. T \subseteq Nat
  OBVIOUS
<1>1a. T # {}
  OBVIOUS
<1>2. \E t \in T : \A u \in T : t <= u
  <2> HIDE DEF T
  <2>1. QED BY <1>1, <1>1a, LeastExists
<1>3. PICK x \in S : \A u \in T : n - x <= u
  BY <1>2
<1>4. \A y \in S : y <= x
  BY <1>3
<1>5. QED
  BY <1>4
(* Greatest is what its name says on such a set.                           *)
LEMMA GreatestIs ==
  ASSUME NEW S, NEW n \in Int, S \subseteq Int, S # {}, \A x \in S : x <= n
  PROVE  Greatest(S) \in S /\ \A y \in S : y <= Greatest(S)
<1>1. \E x \in S : \A y \in S : y <= x
  BY GreatestExists
<1>2. QED
  BY <1>1 DEF Greatest

(* A nonempty part of an override list has exactly one last entry          *)
(* (pass_overrides keeps the last one it has gone past).                   *)
LEMMA LastExists ==
  ASSUME NEW list, IsOverrideList(list), NEW over, over \subseteq list, over # {}
  PROVE  \E o \in over : LastOf(over) = {o}
<1> DEFINE P == {o.place : o \in over}
<1>1. PICK n \in Int : n = Cardinality(list)
  BY FS_CardinalityType DEF IsOverrideList
<1>2. /\ \A o \in over : o.place \in Int /\ o.place <= n
      /\ \A o, p \in over : o.place = p.place => o = p
  BY <1>1 DEF IsOverrideList
<1>3. P \subseteq Int /\ \A x \in P : x <= n
  BY <1>2
<1>4. P # {}
  OBVIOUS
<1>5. \E x \in P : \A y \in P : y <= x
  <2> HIDE DEF P
  <2>1. QED
    BY <1>1, <1>3, <1>4, GreatestExists
<1>6. PICK o \in over : \A p \in over : p.place <= o.place
  BY <1>5
<1>7. \A p \in LastOf(over) : p = o
  BY <1>2, <1>6 DEF LastOf
<1>8. o \in LastOf(over)
  BY <1>6 DEF LastOf
<1>9. QED
  BY <1>6, <1>7, <1>8

-----------------------------------------------------------------------------
(* The calendar of the walk: an anchor is an integer, a later period's is  *)
(* later, and the last instant is not before the first (PeriodWalk).       *)
LEMMA AnchorsAscend ==
  /\ \A i \in Nat : AnchorOf(i) \in Int
  /\ \A i, j \in Nat : i <= j => AnchorOf(i) <= AnchorOf(j)
  /\ Latest \in Nat
<1>1. Origin \in Nat /\ Span \in Nat /\ Span > 0 /\ LastIndex \in Nat
  BY SearchAssumption DEF SearchAssumption
<1>2. \A i \in Nat : i * Span \in Int
  BY <1>1
<1>3. \A i, j \in Nat : i <= j => i * Span <= j * Span
  BY <1>1
<1>4. 1 * Span <= (LastIndex + 1) * Span
  BY <1>1, <1>3
<1>5. QED
  BY <1>1, <1>2, <1>3, <1>4 DEF AnchorOf, Latest

(* The instances of the rule are finitely many instants, and none of them  *)
(* is in a period the calendar cannot represent (RuleStream).              *)
LEMMA InstancesAreInstants ==
  ASSUME input \in Inputs
  PROVE  /\ Admitted \subseteq Nat /\ IsFiniteSet(Admitted)
         /\ RuleKeys \subseteq Admitted
         /\ \A i \in Nat : CandidatesOf(i) \subseteq Nat
         /\ \A i \in Nat : CandidatesOf(i) # {} => i \in 0..LastIndex
         /\ \A a \in Admitted :
              /\ a \in input.admitted /\ input.dtstart <= a
              /\ \E i \in 0..LastIndex : a \in CandidatesOf(i)
<1>1. /\ \A i \in Nat : CandidatesOf(i) \subseteq Nat /\ IsFiniteSet(CandidatesOf(i))
      /\ \A i \in Nat : CandidatesOf(i) # {} => i \in 0..LastIndex
      /\ IsLimit(input.limit) /\ LastIndex \in Nat /\ input.dtstart \in Nat
  BY FS_EmptySet, SeriesAssumption, SearchAssumption
  DEF SeriesAssumption, SearchAssumption, CandidatesOf
<1> DEFINE C == {CandidatesOf(i) : i \in 0..LastIndex}
<1>2. IsFiniteSet(C)
  <2> DEFINE f == [i \in 0..LastIndex |-> CandidatesOf(i)]
  <2>1. f \in Surjection(0..LastIndex, C)
    BY DEF Surjection
  <2>2. IsFiniteSet(0..LastIndex)
    BY <1>1, FS_Interval
  <2>3. QED
    BY <2>1, <2>2, FS_Surjection
<1>3. IsFiniteSet(UNION C)
  <2>1. \A T \in C : IsFiniteSet(T)
    BY <1>1
  <2> HIDE DEF C
  <2>2. QED
    BY <1>2, <2>1, FS_UNION
<1>4. Admitted \subseteq UNION C
  BY DEF Admitted
<1>5. IsFiniteSet(Admitted)
  BY <1>3, <1>4, FS_Subset
<1>6. \A a \in Admitted :
        /\ a \in input.admitted /\ input.dtstart <= a
        /\ \E i \in 0..LastIndex : a \in CandidatesOf(i)
  <2>1. SUFFICES ASSUME NEW a \in Admitted
                 PROVE  /\ a \in input.admitted /\ a >= input.dtstart
                        /\ a \in UNION C
    BY <1>1
  <2>2. QED
    BY DEF Admitted
<1>7. Admitted \subseteq Nat
  BY <1>1, <1>6
<1>8. RuleKeys \subseteq Admitted
  BY <1>1 DEF RuleKeys, IsLimit
<1>9. QED
  BY <1>1, <1>5, <1>6, <1>7, <1>8

(* What has_ended_at asks, said of the keys of the rule.                   *)
LEMMA LimitOfRule ==
  ASSUME input \in Inputs
  PROVE  /\ input.limit[1] = "none" => RuleKeys = Admitted
         /\ input.limit[1] = "until" =>
              /\ input.limit[2] \in Nat
              /\ \A a \in Admitted : a \in RuleKeys <=> a <= input.limit[2]
         /\ input.limit[1] = "count" =>
              /\ input.limit[2] \in Nat
              /\ \A a \in Admitted :
                   a \in RuleKeys <=> Cardinality({d \in Admitted : d < a}) < input.limit[2]
         /\ input.limit[1] \in {"none", "until", "count"}
<1>1. IsLimit(input.limit)
  BY SeriesAssumption DEF SeriesAssumption
<1>2. QED
  BY <1>1 DEF IsLimit, RuleKeys

(* No override moves its instance, or those after it, further than Widest, *)
(* by which the window is widened (generation_window).                     *)
LEMMA MovesAreBounded ==
  ASSUME input \in Inputs
  PROVE  /\ Widest(input.overrides) \in Nat
         /\ \A o \in input.overrides : \A d \in ShiftOf(o) :
              /\ d \in -Latest..Latest
              /\ d <= Widest(input.overrides) /\ -Widest(input.overrides) <= d
<1> DEFINE moves == UNION {ShiftOf(o) : o \in input.overrides}
           S == {0} \cup moves \cup {0 - m : m \in moves}
<1>1. IsOverrideList(input.overrides) /\ Latest \in Nat
  BY SeriesAssumption, AnchorsAscend DEF SeriesAssumption
<1>2. \A o \in input.overrides : \A d \in ShiftOf(o) : d \in -Latest..Latest
  <2>1. SUFFICES ASSUME NEW o \in input.overrides, NEW d \in ShiftOf(o)
                 PROVE  d \in -Latest..Latest
    OBVIOUS
  <2>2. o.id \in 0..Latest /\ o.moved \subseteq 0..Latest
    BY <1>1 DEF IsOverrideList, Instants
  <2>3. \E m \in o.moved : d = m - o.id
    BY DEF ShiftOf
  <2>4. QED
    BY <1>1, <2>2, <2>3
<1>3. S \subseteq -Latest..Latest
  BY <1>1, <1>2
<1>4. Greatest(S) \in S /\ \A y \in S : y <= Greatest(S)
  <2>1. S \subseteq Int /\ (\A x \in S : x <= Latest) /\ Latest \in Int
    BY <1>1, <1>3
  <2>2. S # {}
    OBVIOUS
  <2> HIDE DEF S
  <2>3. QED
    BY <2>1, <2>2, GreatestIs
<1>5. Widest(input.overrides) = Greatest(S)
  BY DEF Widest
<1>6. 0 <= Greatest(S) /\ Greatest(S) \in Int
  BY <1>1, <1>3, <1>4
<1>7. \A o \in input.overrides : \A d \in ShiftOf(o) : d \in S /\ 0 - d \in S
  OBVIOUS
<1> HIDE DEF S, moves
<1>8. QED
  BY <1>1, <1>2, <1>4, <1>5, <1>6, <1>7

(* An occurrence is never further from its key than the widest move.       *)
LEMMA StartIsNear ==
  ASSUME input \in Inputs, NEW k \in Nat
  PROVE  /\ StartOf(k) \in Int
         /\ StartOf(k) <= k + Widest(input.overrides)
         /\ k - Widest(input.overrides) <= StartOf(k)
<1> DEFINE W == Widest(input.overrides)
<1>1. /\ IsOverrideList(input.overrides) /\ W \in Nat
      /\ \A o \in input.overrides : \A d \in ShiftOf(o) :
           d \in -Latest..Latest /\ d <= W /\ -W <= d
  BY SeriesAssumption, MovesAreBounded DEF SeriesAssumption
<1> HIDE DEF W
<1>2. CASE OwnMoves(k) # {}
  <2>1. StartOf(k) \in OwnMoves(k)
    BY <1>2 DEF StartOf, The
  <2>2. PICK o \in input.overrides : o.id = k /\ StartOf(k) \in o.moved
    BY <2>1 DEF OwnMoves, FirstOwn, OverridesInForce
  <2>3. StartOf(k) \in Int
    BY <1>1, <2>2, AnchorsAscend DEF IsOverrideList, Instants
  <2>4. StartOf(k) - k = 0 \/ StartOf(k) - k \in ShiftOf(o)
    BY <2>2 DEF ShiftOf
  <2>5. StartOf(k) - k <= W /\ -W <= StartOf(k) - k
    BY <1>1, <2>3, <2>4
  <2>6. QED
    BY <1>1, <2>3, <2>5 DEF W
<1>3. CASE OwnMoves(k) = {} /\ ~(k \notin RuleKeys \/ AnchorsThatMove(k) = {})
  <2> DEFINE Stated == UNION {ShiftOf(o) : o \in LastOf(AnchorsThatMove(k))}
  <2>1. StartOf(k) = k + The(Stated)
    BY <1>3 DEF StartOf
  <2>2. AnchorsThatMove(k) \subseteq input.overrides
    BY DEF AnchorsThatMove, AnchorsUpTo, OverridesInForce
  <2>3. PICK o \in AnchorsThatMove(k) : LastOf(AnchorsThatMove(k)) = {o}
    BY <1>1, <1>3, <2>2, LastExists
  <2>4. Stated = ShiftOf(o) /\ Stated # {}
    BY <2>3 DEF AnchorsThatMove
  <2>5. The(Stated) \in ShiftOf(o)
    BY <2>4 DEF The
  <2>6. The(Stated) \in Int /\ The(Stated) <= W /\ -W <= The(Stated)
    BY <1>1, <2>2, <2>3, <2>5, AnchorsAscend
  <2>7. QED
    BY <1>1, <2>1, <2>6 DEF W
<1>4. CASE OwnMoves(k) = {} /\ (k \notin RuleKeys \/ AnchorsThatMove(k) = {})
  <2>1. StartOf(k) = k
    BY <1>4 DEF StartOf
  <2>2. QED
    BY <1>1, <2>1 DEF W
<1>5. QED
  BY <1>2, <1>3, <1>4

(* What belongs to the window lies before the end of generation, and is    *)
(* finite (generation_window, admits).                                     *)
LEMMA AnswerIsAhead ==
  ASSUME input \in Inputs, window \in Windows
  PROVE  /\ AnswerKeys \subseteq Nat /\ IsFiniteSet(AnswerKeys)
         /\ Generation.end \in Int
         /\ \A k \in AnswerKeys : k < Generation.end
<1>1. /\ input.rdates \subseteq Nat /\ IsFiniteSet(input.rdates)
      /\ RuleKeys \subseteq Nat /\ IsFiniteSet(RuleKeys)
  BY InstancesAreInstants, SeriesAssumption, FS_Subset DEF SeriesAssumption
<1>2. IsFiniteSet(RuleKeys \cup input.rdates)
  BY <1>1, FS_Union
<1>3. AnswerKeys \subseteq RuleKeys \cup input.rdates
  BY DEF AnswerKeys, SeriesKeys
<1>4. AnswerKeys \subseteq Nat /\ IsFiniteSet(AnswerKeys)
  BY <1>1, <1>2, <1>3, FS_Subset
<1>5. /\ window.start \in Int /\ window.end \in Int /\ Widest(input.overrides) \in Nat
      /\ Generation.end = window.end + Widest(input.overrides)
  BY SearchAssumption, MovesAreBounded DEF SearchAssumption, Generation
<1>6. ASSUME NEW k \in AnswerKeys PROVE k < Generation.end
  <2>1. k \in Nat /\ (Contains(window, k) \/ Contains(window, StartOf(k)))
    BY <1>4 DEF AnswerKeys
  <2>2. StartOf(k) \in Int /\ k - Widest(input.overrides) <= StartOf(k)
    BY <2>1, StartIsNear
  <2>3. QED
    BY <1>5, <2>1, <2>2 DEF Contains
<1>7. QED
  BY <1>4, <1>5, <1>6

(* No step changes what was asked, so the answer never changes.            *)
LEMMA AskedIsFixed ==
  ASSUME [Next]_vars
  PROVE  UNCHANGED <<input, window>>
<1>1. CASE Resume
  BY <1>1 DEF Resume
<1>2. CASE CallNext
  BY <1>2 DEF CallNext, askedVars
<1>3. CASE NextKey
  BY <1>3 DEF NextKey, PassOver, EndRule, LeaveWindow, Offer, EndWalk, PeriodPastWindow,
              ExpandPeriod, ExhaustPeriod, askedVars
<1>4. CASE Advance
  BY <1>4 DEF Advance, Drained, Retry, StopAtWindow, Refuse, Deliver, Consume, askedVars
<1>5. CASE UNCHANGED vars
  BY <1>5 DEF vars, askedVars
<1>6. QED
  BY <1>1, <1>2, <1>3, <1>4, <1>5 DEF Next

(* What is defined from the question alone stays what it is.               *)
LEMMA AnswerIsFixed ==
  ASSUME UNCHANGED <<input, window>>
  PROVE  /\ Admitted' = Admitted /\ RuleKeys' = RuleKeys
         /\ Generation' = Generation /\ AnswerKeys' = AnswerKeys
         /\ \A i : CandidatesOf(i)' = CandidatesOf(i)
         /\ \A k : StartOf(k)' = StartOf(k)
         /\ \A k : NamedBy(k)' = NamedBy(k)
<1>1. \A i : CandidatesOf(i)' = CandidatesOf(i)
  BY DEF CandidatesOf
<1>2. Admitted' = Admitted
  BY <1>1 DEF Admitted
<1>3. RuleKeys' = RuleKeys
  BY <1>2 DEF RuleKeys
<1>4. Generation' = Generation
  BY DEF Generation
<1>5. \A k : /\ FirstOwn(k)' = FirstOwn(k) /\ OwnMoves(k)' = OwnMoves(k)
            /\ AnchorsUpTo(k)' = AnchorsUpTo(k) /\ AnchorsThatMove(k)' = AnchorsThatMove(k)
  <2>1. OverridesInForce' = OverridesInForce
    BY DEF OverridesInForce, Shadowed
  <2>2. QED
    BY <2>1 DEF FirstOwn, OwnMoves, AnchorsUpTo, AnchorsThatMove
<1>6. \A k : StartOf(k)' = StartOf(k)
  BY <1>3, <1>5 DEF StartOf
<1>7. SeriesKeys' = SeriesKeys
  BY <1>3 DEF SeriesKeys
<1>8. AnswerKeys' = AnswerKeys
  BY <1>6, <1>7 DEF AnswerKeys
<1>9. \A k : NamedBy(k)' = NamedBy(k)
  BY <1>3, <1>5 DEF NamedBy
<1>10. QED
  BY <1>1, <1>2, <1>3, <1>4, <1>6, <1>8, <1>9

-----------------------------------------------------------------------------
(* The rule stream: what it does to the instances counted and uncounted.   *)

(* No instant is a candidate of two periods (expand_period).               *)
LEMMA PeriodsAreApart ==
  ASSUME input \in Inputs, NEW i \in Nat, NEW j \in Nat,
         NEW a \in CandidatesOf(i), a \in CandidatesOf(j)
  PROVE  i = j
<1>1. /\ i \in DOMAIN input.candidates /\ j \in DOMAIN input.candidates
      /\ a \in input.candidates[i] /\ a \in input.candidates[j]
  BY DEF CandidatesOf
<1>2. ~(i < j) /\ ~(j < i)
  BY <1>1, InstancesAreInstants, SeriesAssumption DEF SeriesAssumption
<1>3. QED
  BY <1>2

(* A step of next() that touches neither the merge nor what was given.     *)
Quiet ==
  /\ UNCHANGED <<mergeVars, askedVars, emitted>>
  /\ outcome' = outcome \/ outcome = "Pending"
  /\ finished' = finished \/ finished' = TRUE

LEMMA IdleKeepsCounted ==
  ASSUME NEW X, Counted(X), Quiet,
         UNCHANGED <<index, left, produced, offered, streamDone, reached>>
  PROVE  Counted(X)'
<1>1. UNCHANGED <<input, window, resumeAfter, rdates, emitted>>
  BY DEF Quiet, mergeVars, askedVars
<1>2. UNCHANGED <<Admitted, RuleKeys, Generation>> /\ \A i : CandidatesOf(i)' = CandidatesOf(i)
  BY <1>1, AnswerIsFixed
<1>3. UNCHANGED <<CursorPeriod, Rest, EmittedKeys>>
  BY <1>1, <1>2 DEF CursorPeriod, Rest, Unopened, EmittedKeys, KeyOf
<1>4. finished' \/ finished' = finished
  BY DEF Quiet
<1>5. QED
  BY <1>1, <1>2, <1>3, <1>4 DEF Counted, RuleAlone

(* While the stream runs, what is not counted is still to be weighed.      *)
LEMMA Uncounted ==
  ASSUME SearchInv, Controlled, NEW X, Counted(X), Filling
  PROVE  /\ Admitted \ X \subseteq left \cup Unopened
         /\ \A x \in X : x \notin left \/ x <= resumeAfter
         /\ X \subseteq Nat /\ RuleKeys \subseteq Admitted /\ Admitted \subseteq Nat
         /\ left \subseteq Int /\ Unopened \subseteq Int
         /\ left = {} => \A a \in Admitted \ X, i \in Nat : a \in CandidatesOf(i) => index <= i
<1>1. ~streamDone /\ ~finished
  BY DEF Controlled, Filling
<1>2. input \in Inputs /\ index \in Nat /\ left \subseteq Int /\ Unopened \subseteq Int
  BY PendingAreInstants DEF SearchInv, Shaped
<1>3. RuleKeys \subseteq Admitted /\ Admitted \subseteq Nat
  BY <1>2, InstancesAreInstants
<1>4. /\ Admitted \ X \subseteq left \cup Unopened
      /\ \A x \in X : x \notin left \/ x <= resumeAfter
      /\ X \subseteq Admitted
  BY <1>1 DEF Counted, Rest
<1>5. ASSUME left = {}, NEW a \in Admitted \ X, NEW i \in Nat, a \in CandidatesOf(i)
      PROVE  index <= i
  <2>1. a \in Unopened
    BY <1>4, <1>5
  <2>2. PICK j \in Nat : index <= j /\ a \in CandidatesOf(j)
    BY <2>1 DEF Unopened
  <2>3. i = j
    BY <1>2, <1>5, <2>2, PeriodsAreApart
  <2>4. QED
    BY <2>2, <2>3
<1>6. QED
  BY <1>2, <1>3, <1>4, <1>5

(* A candidate weighed and not offered was no instance, or is not yet the  *)
(* search's (weigh).                                                       *)
LEMMA PassOverKeepsCounted ==
  ASSUME SearchInv, Controlled, NEW X, Counted(X), PassOver
  PROVE  Counted(X)'
<1>1. PICK key \in left :
        /\ BeforeTheSearch(key) \/ key \notin input.admitted
        /\ left' = left \ {key}
        /\ UNCHANGED <<index, produced, mergeVars, askedVars, offered, streamDone, reached,
                       finished, emitted>>
  BY DEF PassOver, Weighing
<1>2. Filling
  BY DEF PassOver, Weighing
<1>3. UNCHANGED <<input, window, resumeAfter, rdates, emitted>>
  BY <1>1 DEF mergeVars, askedVars
<1>4. UNCHANGED <<Admitted, RuleKeys, Generation>> /\ \A i : CandidatesOf(i)' = CandidatesOf(i)
  BY <1>3, AnswerIsFixed
<1>5. UNCHANGED <<CursorPeriod, Unopened, EmittedKeys>>
  BY <1>1, <1>3, <1>4 DEF CursorPeriod, Unopened, EmittedKeys, KeyOf
<1>6. key \notin Admitted \ X
  <2>1. input \in Inputs /\ key \in Int /\ resumeAfter \in Int
    BY <1>1 DEF SearchInv, Shaped
  <2>2. SUFFICES ASSUME key \in Admitted, key \notin X PROVE FALSE
    OBVIOUS
  <2>3. key \in input.admitted /\ input.dtstart <= key /\ resumeAfter < key
    BY <2>1, <2>2, InstancesAreInstants DEF Counted
  <2>4. input.dtstart \in Int
    BY <2>1, SeriesAssumption DEF SeriesAssumption
  <2>5. QED
    BY <1>1, <2>1, <2>3, <2>4 DEF BeforeTheSearch
<1>7. Admitted \ X \subseteq Rest' /\ \A x \in X : x \notin Rest' \/ x <= resumeAfter
  <2>1. Rest' = (left \ {key}) \cup Unopened /\ Rest = left \cup Unopened
    BY <1>1, <1>5 DEF Rest
  <2>2. ~streamDone /\ ~finished
    BY <1>2 DEF Controlled, Filling
  <2>3. QED
    BY <1>6, <2>1, <2>2 DEF Counted
<1>8. QED
  BY <1>1, <1>3, <1>4, <1>5, <1>7 DEF Counted, RuleAlone

(* The stream ends, and no instance that is left lies inside the window.   *)
LEMMA StopKeepsCounted ==
  ASSUME SearchInv, Controlled, NEW X, Counted(X), Filling, streamDone',
         UNCHANGED <<produced, mergeVars, askedVars, offered, reached, emitted>>,
         index' = index \/ (index' = index + 1 /\ left = {}),
         \A a \in RuleKeys \ X : Generation.end <= a
  PROVE  Counted(X)'
<1>1. UNCHANGED <<input, window, resumeAfter, rdates, emitted>>
  BY DEF mergeVars, askedVars
<1>2. UNCHANGED <<Admitted, RuleKeys, Generation>> /\ \A i : CandidatesOf(i)' = CandidatesOf(i)
  BY <1>1, AnswerIsFixed
<1>3. UNCHANGED EmittedKeys
  BY <1>1 DEF EmittedKeys, KeyOf
<1>4. \A a \in Admitted \ X, i \in Nat : a \in CandidatesOf(i) => CursorPeriod' <= i
  <2>1. CASE index' = index
    BY <2>1 DEF Counted, CursorPeriod
  <2>2. CASE index' = index + 1 /\ left = {}
    <3>1. CursorPeriod' = index
      BY <2>2 DEF CursorPeriod, SearchInv, Shaped
    <3>2. QED
      BY <2>2, <3>1, Uncounted
  <2>3. QED
    BY <2>1, <2>2
<1>5. QED
  BY <1>1, <1>2, <1>3, <1>4 DEF Counted, RuleAlone

(* Why the stream may end: the rule's own limit has been reached, or every *)
(* candidate that is left is past the window (weigh, open_next_period).    *)
LEMMA WeighedIsFirst ==
  ASSUME SearchInv, Controlled, NEW X, Counted(X), NEW key \in left, Weighing(key)
  PROVE  /\ Filling /\ key \in Int
         /\ \A a \in Admitted \ X : key <= a
<1>1. Filling /\ \A other \in left : key <= other
  BY DEF Weighing
<1>2. left \subseteq Int /\ Unopened \subseteq Int /\ Admitted \ X \subseteq left \cup Unopened
  BY <1>1, Uncounted
<1>3. \A k \in Unopened : key <= k
  BY <1>2 DEF SearchInv, PeriodIsFirst
<1>4. \A a \in Admitted \ X : key <= a
  <2>1. \A a \in Admitted \ X : a \in left \/ a \in Unopened
    BY <1>2
  <2>2. QED
    BY <1>1, <1>3, <2>1
<1>5. QED
  BY <1>1, <1>2, <1>4

LEMMA EndRuleIsEarned ==
  ASSUME SearchInv, Controlled, NEW X, Counted(X), EndRule
  PROVE  RuleKeys \subseteq X
<1>1. PICK key \in left : Weighing(key) /\ HasEndedAt(key)
  BY DEF EndRule
<1>2. /\ Filling /\ key \in Int
      /\ \A a \in Admitted \ X : key <= a
  BY <1>1, WeighedIsFirst
<1>3. SUFFICES ASSUME NEW a \in RuleKeys, a \notin X PROVE FALSE
  OBVIOUS
<1>4. input \in Inputs /\ a \in Admitted \ X /\ a \in Nat /\ IsFiniteSet(Admitted)
  BY <1>3, InstancesAreInstants DEF SearchInv, Shaped
<1>5. CASE input.limit[1] = "count" /\ produced >= input.limit[2]
  <2> DEFINE D == {d \in Admitted : d < a}
  <2>1. X \subseteq D /\ D \subseteq Admitted
    BY <1>3, <1>4 DEF Counted
  <2>2. IsFiniteSet(D)
    BY <1>4, <2>1, FS_Subset
  <2>3. Cardinality(X) <= Cardinality(D) /\ Cardinality(D) \in Nat /\ Cardinality(X) \in Nat
    BY <2>1, <2>2, FS_Subset, FS_CardinalityType
  <2>4. Cardinality(D) < input.limit[2] /\ input.limit[2] \in Nat
    BY <1>3, <1>4, <1>5, LimitOfRule
  <2>5. produced = Cardinality(X)
    BY DEF Counted
  <2>6. QED
    BY <1>5, <2>3, <2>4, <2>5
<1>6. CASE input.limit[1] = "until" /\ key > input.limit[2]
  <2>1. a <= input.limit[2] /\ input.limit[2] \in Nat
    BY <1>3, <1>4, <1>6, LimitOfRule
  <2>2. QED
    BY <1>2, <1>4, <1>6, <2>1
<1>7. QED
  BY <1>1, <1>5, <1>6 DEF HasEndedAt

LEMMA LeaveWindowIsEarned ==
  ASSUME SearchInv, Controlled, NEW X, Counted(X), LeaveWindow
  PROVE  \A a \in RuleKeys \ X : Generation.end <= a
<1>1. PICK key \in left : Weighing(key) /\ key >= Generation.end
  BY DEF LeaveWindow
<1>2. /\ Filling /\ key \in Int
      /\ \A a \in Admitted \ X : key <= a
  BY <1>1, WeighedIsFirst
<1>3. /\ Generation.end \in Int /\ RuleKeys \subseteq Admitted /\ Admitted \subseteq Nat
  BY <1>2, AnswerIsAhead, Uncounted DEF SearchInv, Shaped, Controlled
<1>4. QED
  BY <1>1, <1>2, <1>3

LEMMA EndWalkIsEarned ==
  ASSUME SearchInv, Controlled, NEW X, Counted(X), EndWalk
  PROVE  RuleKeys \subseteq X
<1>1. Filling /\ left = {} /\ (input.candidates = << >> \/ index > LastIndex)
  BY DEF EndWalk, Controlled, Filling
<1>2. Admitted \ X \subseteq Unopened /\ RuleKeys \subseteq Admitted
  BY <1>1, Uncounted
<1>3. Unopened = {}
  <2>1. SUFFICES ASSUME NEW j \in Nat, index <= j, CandidatesOf(j) # {} PROVE FALSE
    BY DEF Unopened
  <2>2. j \in DOMAIN input.candidates /\ j \in 0..LastIndex /\ index \in Nat /\ LastIndex \in Nat
    BY <2>1, InstancesAreInstants, SearchAssumption
    DEF CandidatesOf, SearchInv, Shaped, SearchAssumption
  <2>3. input.candidates # << >>
    BY <2>2
  <2>4. QED
    BY <1>1, <2>1, <2>2, <2>3
<1>4. QED
  BY <1>2, <1>3

LEMMA PeriodPastWindowIsEarned ==
  ASSUME CandidatesAnchored, SearchInv, Controlled, NEW X, Counted(X), PeriodPastWindow
  PROVE  \A a \in RuleKeys \ X : Generation.end <= a
<1>1. Filling /\ left = {} /\ AnchorOf(index) >= Generation.end
  BY DEF PeriodPastWindow, Walks, Opening
<1>2. /\ Admitted \ X \subseteq Unopened /\ RuleKeys \subseteq Admitted /\ Admitted \subseteq Nat
      /\ input \in Inputs /\ index \in Nat /\ Generation.end \in Int
  BY <1>1, Uncounted, AnswerIsAhead DEF SearchInv, Shaped, Controlled
<1>3. SUFFICES ASSUME NEW a \in RuleKeys \ X PROVE Generation.end <= a
  OBVIOUS
<1>4. PICK j \in Nat : index <= j /\ a \in CandidatesOf(j)
  BY <1>2 DEF Unopened
<1>5. AnchorOf(j) <= a
  BY <1>2, <1>4 DEF CandidatesAnchored, CandidatesOf
<1>6. AnchorOf(index) <= AnchorOf(j) /\ AnchorOf(index) \in Int /\ AnchorOf(j) \in Int
  BY <1>2, <1>4, AnchorsAscend
<1>7. QED
  BY <1>1, <1>2, <1>5, <1>6

(* Opening a period moves nothing between counted and uncounted; an        *)
(* exhausted one is opened again by the search that resumes this one.      *)
LEMMA ExpandPeriodKeepsCounted ==
  ASSUME SearchInv, Controlled, NEW X, Counted(X), ExpandPeriod \/ ExhaustPeriod
  PROVE  Counted(X)'
<1>1. /\ Filling /\ left = {} /\ index' = index + 1
      /\ UNCHANGED <<produced, mergeVars, askedVars, offered, streamDone, reached, emitted>>
      /\ (left' = CandidatesOf(index) /\ finished' = finished) \/ finished'
  BY DEF ExpandPeriod, ExhaustPeriod, Walks, Opening
<1>2. UNCHANGED <<input, window, resumeAfter, rdates, emitted>>
  BY <1>1 DEF mergeVars, askedVars
<1>3. UNCHANGED <<Admitted, RuleKeys, Generation>> /\ \A i : CandidatesOf(i)' = CandidatesOf(i)
  BY <1>2, AnswerIsFixed
<1>4. UNCHANGED EmittedKeys
  BY <1>2 DEF EmittedKeys, KeyOf
<1>5. index \in Nat
  BY DEF SearchInv, Shaped
<1>6. CursorPeriod' = index
  BY <1>1, <1>5 DEF CursorPeriod
<1>7. \A a \in Admitted \ X, i \in Nat : a \in CandidatesOf(i) => CursorPeriod' <= i
  BY <1>1, <1>6, Uncounted
<1>8. ~finished' => /\ Admitted \ X \subseteq Rest'
                    /\ \A x \in X : x \notin Rest' \/ x <= resumeAfter
  <2>1. SUFFICES ASSUME ~finished' PROVE Rest' = Rest /\ ~finished
    BY <1>1 DEF Counted, Filling
  <2>2. Unopened' = UNION {CandidatesOf(j) : j \in {n \in Nat : index + 1 <= n}}
    BY <1>1, <1>3 DEF Unopened
  <2>3. Unopened = CandidatesOf(index) \cup Unopened'
    <3>1. \A n \in Nat : index <= n <=> n = index \/ index + 1 <= n
      BY <1>5
    <3>2. QED
      BY <1>5, <2>2, <3>1 DEF Unopened
  <2>4. QED
    BY <1>1, <2>1, <2>3 DEF Rest
<1>9. QED
  BY <1>1, <1>2, <1>3, <1>4, <1>7, <1>8 DEF Counted, RuleAlone

(* The least candidate that is left, admitted and within the limit, is the *)
(* next instance of the rule.                                              *)
LEMMA OfferIsInstance ==
  ASSUME SearchInv, Controlled, NEW X, Counted(X), NEW key \in left,
         Weighing(key), ~BeforeTheSearch(key), ~HasEndedAt(key), key \in input.admitted
  PROVE  /\ key \in RuleKeys /\ key \in Admitted \ X
         /\ X = {d \in Admitted : d < key}
         /\ IsFiniteSet(X) /\ key \in Nat
<1>1. /\ Filling /\ key \in Int /\ \A a \in Admitted \ X : key <= a
  BY WeighedIsFirst
<1>2. /\ input \in Inputs /\ index \in Nat /\ resumeAfter \in Int /\ LastIndex \in Nat
      /\ input.dtstart \in Nat
  BY SeriesAssumption, SearchAssumption DEF SearchInv, Shaped, SeriesAssumption, SearchAssumption
<1>3. key >= input.dtstart /\ resumeAfter < key
  BY <1>1, <1>2 DEF BeforeTheSearch
<1>4. key \in Admitted
  <2>1. index > 0 /\ key \in CandidatesOf(index - 1)
    BY DEF Controlled
  <2>2. index - 1 \in 0..LastIndex
    BY <1>2, <2>1, InstancesAreInstants
  <2>3. QED
    BY <1>3, <2>1, <2>2 DEF Admitted
<1>5. key \notin X
  BY <1>1, <1>2, <1>3, Uncounted
<1>6. Admitted \subseteq Nat /\ IsFiniteSet(Admitted) /\ X \subseteq Admitted
  BY <1>2, InstancesAreInstants DEF Counted
<1>7. X = {d \in Admitted : d < key}
  <2>1. \A x \in X : x < key
    BY <1>4, <1>5 DEF Counted
  <2>2. \A d \in Admitted : d < key => d \in X
    BY <1>1, <1>6
  <2>3. QED
    BY <1>6, <2>1, <2>2
<1>8. IsFiniteSet(X)
  BY <1>6, FS_Subset
<1>9. produced = Cardinality({d \in Admitted : d < key}) /\ produced \in Nat
  BY <1>7 DEF Counted, Controlled
<1>10. key \in RuleKeys
  BY <1>1, <1>2, <1>4, <1>9, LimitOfRule DEF HasEndedAt
<1>11. QED
  BY <1>4, <1>5, <1>6, <1>7, <1>8, <1>10

LEMMA OfferKeepsCounted ==
  ASSUME SearchInv, Controlled, NEW X, Counted(X), Covered(X), Offer
  PROVE  \E Y \in SUBSET Admitted : Counted(Y)' /\ Covered(Y)'
<1>1. PICK key \in left :
        /\ Weighing(key) /\ ~BeforeTheSearch(key) /\ ~HasEndedAt(key)
        /\ key < Generation.end /\ key \in input.admitted
        /\ left' = left \ {key} /\ produced' = produced + 1
        /\ offered' = {key} /\ reached' = key
        /\ UNCHANGED <<index, mergeVars, askedVars, streamDone, outcome, finished, emitted>>
  BY DEF Offer
<1>2. /\ Filling /\ key \in Int /\ \A a \in Admitted \ X : key <= a
      /\ offered = {} /\ ~streamDone /\ ~finished
  BY <1>1, WeighedIsFirst DEF Filling, Controlled
<1>3. /\ key \in RuleKeys /\ key \in Admitted \ X
      /\ X = {d \in Admitted : d < key}
      /\ IsFiniteSet(X) /\ key \in Nat
  BY <1>1, OfferIsInstance
<1>4. UNCHANGED <<input, window, resumeAfter, rdates, emitted>>
  BY <1>1 DEF mergeVars, askedVars
<1>5. /\ UNCHANGED <<Admitted, RuleKeys, Generation, AnswerKeys>>
      /\ \A i : CandidatesOf(i)' = CandidatesOf(i)
  BY <1>4, AnswerIsFixed
<1>6. UNCHANGED <<CursorPeriod, Unopened, EmittedKeys>>
  BY <1>1, <1>4, <1>5 DEF CursorPeriod, Unopened, EmittedKeys, KeyOf
<1> DEFINE Y == X \cup {key}
<1>7. Y \subseteq Admitted /\ produced' = Cardinality(Y)
  BY <1>1, <1>3, FS_AddElement DEF Counted
<1>8. \A x \in Y, a \in Admitted \ Y : x < a
  <2>1. input \in Inputs
    BY DEF SearchInv, Shaped
  <2>2. \A a \in Admitted \ Y : key < a
    BY <1>2, <1>3, <2>1, InstancesAreInstants
  <2>3. QED
    BY <2>2 DEF Counted
<1>9. Admitted \ Y \subseteq Rest' /\ \A x \in Y : x \notin Rest' \/ x <= resumeAfter
  <2>1. Rest' = (left \ {key}) \cup Unopened /\ Rest = left \cup Unopened
    BY <1>1, <1>6 DEF Rest
  <2>2. key \notin Unopened
    BY <1>2 DEF SearchInv, PeriodIsFirst
  <2>3. QED
    BY <1>2, <2>1, <2>2 DEF Counted
<1>10. \A x \in Y \ {key}, r \in rdates : x < r
  BY <1>2 DEF Counted
<1>11. Y = {a \in Admitted : a <= key}
  <2>1. input \in Inputs
    BY DEF SearchInv, Shaped
  <2>2. \A a \in Admitted : a <= key <=> a < key \/ a = key
    BY <1>3, <2>1, InstancesAreInstants
  <2>3. QED
    BY <1>3, <2>2
<1>12. Counted(Y)'
  BY <1>1, <1>2, <1>3, <1>4, <1>5, <1>6, <1>7, <1>8, <1>9, <1>10, <1>11 DEF Counted, RuleAlone
<1>13. Covered(Y)'
  BY <1>1, <1>2, <1>4, <1>5, <1>6 DEF Covered
<1>14. QED
  BY <1>7, <1>12, <1>13

-----------------------------------------------------------------------------
(* The merge: what it remembers of the overrides it has gone past is what  *)
(* the series says of the key.                                             *)

(* A set of one element has no other least one (an override states one     *)
(* move, Override::moved_to).                                              *)
LEMMA OnlyElement ==
  ASSUME NEW S, NEW m \in S, m \in Int, \A n \in S : n = m
  PROVE  The(S) = m /\ Least(S) = m
<1>1. The(S) \in S
  BY DEF The
<1>2. m \in S /\ \A y \in S : m <= y
  OBVIOUS
<1>3. Least(S) \in S
  BY <1>2 DEF Least
<1>4. QED
  BY <1>1, <1>3

(* Of two parts of an override list, one behind the other, the second has  *)
(* the last entry (pass_overrides goes on where it stopped).               *)
Behind(A, B) == \A a \in A, b \in B : a.id < b.id

LEMMA LastOfUnion ==
  ASSUME NEW list, IsOverrideList(list), NEW A \in SUBSET list, NEW B \in SUBSET list,
         B # {}, Behind(A, B)
  PROVE  LastOf(A \cup B) = LastOf(B)
<1>1. \A o, p \in list : o.id < p.id => o.place < p.place
  BY DEF IsOverrideList
<1>2. \A o \in list : o.place \in Int
  BY FS_CardinalityType DEF IsOverrideList
<1>3. PICK o \in B : LastOf(B) = {o}
  BY LastExists
<1>4. \A p \in B : p.place <= o.place
  BY <1>3 DEF LastOf
<1>5. \A p \in A : p.place < o.place
  BY <1>1 DEF Behind
<1>6. o \in LastOf(A \cup B)
  BY <1>2, <1>4, <1>5 DEF LastOf
<1>7. \A p \in LastOf(A \cup B) : p \in B /\ p \in LastOf(B)
  BY <1>2, <1>5 DEF LastOf
<1>8. QED
  BY <1>3, <1>6, <1>7

(* A key the merge turns to is before everything that can follow it        *)
(* (Merge::take_candidate).                                                *)
LEMMA MergeOrder ==
  ASSUME SearchInv, NEW key \in offered \cup rdates, Merges(key), Consume(key)
  PROVE  /\ key \in Int /\ key \in Pending
         /\ offered' = offered \ {key} /\ rdates' = rdates \ {key}
         /\ UNCHANGED <<input, window, index, left, produced, ended, resumeAfter, streamDone>>
         /\ Pending' \subseteq Pending /\ \A k \in Pending' : key < k
<1>1. /\ offered' = offered \ {key} /\ rdates' = rdates \ {key}
      /\ UNCHANGED <<input, window, index, left, produced, ended, resumeAfter, streamDone>>
  BY DEF Consume, walkVars, askedVars
<1>2. /\ key \in Int /\ offered \subseteq Int /\ rdates \subseteq Int
      /\ \A other \in offered \cup rdates : key <= other
      /\ offered # {} \/ streamDone
  BY DEF SearchInv, Shaped, Merges, Merging
<1>3. Stream' = Stream
  BY <1>1 DEF Stream, Unopened, CandidatesOf
<1>4. Pending' \subseteq Pending /\ key \in Pending
  BY <1>1, <1>3 DEF Pending
<1>5. \A k \in Stream : key < k
  <2>1. CASE streamDone
    BY <2>1 DEF Stream
  <2>2. CASE offered # {}
    <3>1. PICK o \in offered : key <= o /\ o \in Int /\ \A k \in Stream : o < k
      BY <1>2, <2>2 DEF SearchInv, OfferIsFirst
    <3>2. Stream \subseteq Int
      BY PendingAreInstants DEF SearchInv
    <3>3. QED
      BY <1>2, <3>1, <3>2
  <2>3. QED
    BY <1>2, <2>1, <2>2
<1>6. \A k \in offered' \cup rdates' : key < k
  BY <1>1, <1>2
<1>7. QED
  BY <1>1, <1>2, <1>3, <1>4, <1>5, <1>6 DEF Pending

(* Going past the overrides up to a key (Merge::pass_overrides).           *)
Reaching(key) == {o \in input.overrides : o.id <= key}

LEMMA PassedIsReached ==
  ASSUME SearchInv, Remembered, NEW key \in Pending
  PROVE  /\ Gone \cup Passed(key) = Reaching(key)
         /\ NearestAfter(key) = {o.id : o \in LastOf(Futures(Reaching(key)))}
         /\ ShiftAfter(key) = UNION {ShiftOf(o) : o \in LastOf(MoveStated(Reaching(key)))}
<1>1. input \in Inputs /\ key \in Int
  BY PendingAreInstants DEF SearchInv, Shaped
<1>2. IsOverrideList(input.overrides)
  BY <1>1, SeriesAssumption DEF SeriesAssumption
<1>3. /\ overrides \subseteq input.overrides
      /\ \A g \in Gone : g.id < key /\ \A o \in overrides : g.id < o.id
  BY DEF Remembered
<1>4. \A o \in input.overrides : o.id \in Int
  BY <1>2, AnchorsAscend DEF IsOverrideList, Instants
<1>5. Gone \cup Passed(key) = Reaching(key)
  <2>1. \A g \in Gone : g.id <= key
    BY <1>1, <1>3, <1>4 DEF Gone
  <2>2. QED
    BY <1>3, <2>1 DEF Gone, Passed, Reaching
<1>6. NearestAfter(key) = {o.id : o \in LastOf(Futures(Reaching(key)))}
  <2>1. Futures(Reaching(key)) = Futures(Gone) \cup Anchors(key)
    BY <1>5 DEF Futures, Anchors
  <2>2. CASE Anchors(key) = {}
    BY <2>1, <2>2 DEF NearestAfter, Remembered
  <2>3. CASE Anchors(key) # {}
    <3>1. LastOf(Futures(Reaching(key))) = LastOf(Anchors(key))
      <4>1. /\ Futures(Gone) \in SUBSET input.overrides
            /\ Anchors(key) \in SUBSET input.overrides
            /\ Behind(Futures(Gone), Anchors(key))
        BY <1>3 DEF Behind, Futures, Gone, Anchors, Passed
      <4>2. LastOf(Futures(Gone) \cup Anchors(key)) = LastOf(Anchors(key))
        BY <1>2, <2>3, <4>1, LastOfUnion
      <4>3. QED
        BY <2>1, <4>2
    <3>2. QED
      BY <2>3, <3>1 DEF NearestAfter
  <2>4. QED
    BY <2>2, <2>3
<1>7. ShiftAfter(key) = UNION {ShiftOf(o) : o \in LastOf(MoveStated(Reaching(key)))}
  <2> DEFINE stated == MoveStated(Passed(key))
  <2>1. /\ MoveStated(Reaching(key)) = MoveStated(Gone) \cup stated
        /\ stated = {o \in Anchors(key) : ShiftOf(o) # {}}
    BY <1>5 DEF MoveStated, Anchors
  <2>2. CASE stated = {}
    BY <2>1, <2>2 DEF ShiftAfter, Remembered
  <2>3. CASE stated # {}
    <3>1. LastOf(MoveStated(Reaching(key))) = LastOf(stated)
      <4>1. /\ MoveStated(Gone) \in SUBSET input.overrides
            /\ stated \in SUBSET input.overrides
            /\ Behind(MoveStated(Gone), stated)
        BY <1>3 DEF Behind, MoveStated, Gone, Passed
      <4> HIDE DEF stated
      <4>2. LastOf(MoveStated(Gone) \cup stated) = LastOf(stated)
        BY <1>2, <2>3, <4>1, LastOfUnion
      <4>3. QED
        BY <2>1, <4>2
    <3>2. ShiftAfter(key) = UNION {ShiftOf(o) : o \in LastOf(stated)}
      BY <2>1, <2>3 DEF ShiftAfter
    <3>3. QED
      BY <3>1, <3>2
  <2>4. QED
    BY <2>2, <2>3
<1>8. QED
  BY <1>5, <1>6, <1>7

(* Before the end of generation, a key the merge turns to is offered by    *)
(* the stream exactly when it is one of the rule's (RecurrenceSet::Both).  *)
LEMMA KeyIsOfRule ==
  ASSUME SearchInv, Controlled, NEW X, Counted(X),
         NEW key \in offered \cup rdates, Merges(key), key < Generation.end
  PROVE  key \in offered <=> key \in RuleKeys
<1>1. SUFFICES ASSUME key \in RuleKeys, key \notin offered PROVE FALSE
  BY DEF Counted
<1>2. /\ key \in rdates /\ key \in Int /\ offered \subseteq Int
      /\ RuleKeys \subseteq Admitted /\ Generation.end \in Int
  BY <1>1, InstancesAreInstants, AnswerIsAhead DEF SearchInv, Shaped, Controlled
<1>3. CASE key \in X
  BY <1>1, <1>2, <1>3 DEF Counted
<1>4. CASE key \notin X /\ streamDone
  BY <1>1, <1>2, <1>4 DEF Counted
<1>5. CASE key \notin X /\ ~streamDone
  <2>1. PICK o \in offered : key <= o
    BY <1>5 DEF Merges, Merging
  <2>2. o \in X /\ key \in Admitted \ X
    BY <1>1, <1>2, <1>5, <2>1 DEF Counted
  <2>3. o < key
    BY <2>2 DEF Counted
  <2>4. QED
    BY <1>2, <2>1, <2>3
<1>6. QED
  BY <1>3, <1>4, <1>5

(* The first override of a key is one, and it states one move              *)
(* (OverrideSet::exact_match, Override::moved_to).                         *)
LEMMA OwnIsExact ==
  ASSUME input \in Inputs, NEW key \in Int
  PROVE  /\ Exact(key) = FirstOwn(key) /\ Moved(key) = OwnMoves(key)
         /\ Moved(key) # {} => Least(Moved(key)) = The(OwnMoves(key))
<1>1. IsOverrideList(input.overrides)
  BY SeriesAssumption DEF SeriesAssumption
<1>2. /\ \A o \in input.overrides : o.place \in Nat
      /\ \A o, p \in input.overrides : o.place = p.place => o = p
      /\ \A o \in input.overrides : o.moved \subseteq Int /\ \A m, n \in o.moved : m = n
  BY <1>1, FS_CardinalityType, AnchorsAscend DEF IsOverrideList, Instants
<1>3. Exact(key) = FirstOwn(key)
  BY <1>2 DEF Exact, FirstOwn, OverridesInForce, Shadowed
<1>4. Moved(key) = OwnMoves(key)
  BY <1>3 DEF Moved, OwnMoves
<1>5. ASSUME Moved(key) # {} PROVE Least(Moved(key)) = The(OwnMoves(key))
  <2>1. \A o, p \in Exact(key) : o = p
    <3>1. \A o, p \in Exact(key) : o.place <= p.place /\ p.place <= o.place
      BY DEF Exact
    <3>2. QED
      BY <1>2, <3>1 DEF Exact
  <2>2. PICK m \in Moved(key) : m \in Int
    BY <1>2, <1>5 DEF Moved, Exact
  <2>3. \A n \in Moved(key) : n = m
    BY <1>2, <2>1 DEF Moved, Exact
  <2>4. Least(Moved(key)) = m /\ The(Moved(key)) = m
    BY <2>2, <2>3, OnlyElement
  <2>5. QED
    BY <1>4, <2>4
<1>6. QED
  BY <1>3, <1>4, <1>5

(* What the merge goes past are the anchors in force, and no others.       *)
LEMMA AnchorsAreInForce ==
  ASSUME AnchorsUnshadowed, input \in Inputs, NEW key
  PROVE  /\ AnchorsUpTo(key) = Futures(Reaching(key))
         /\ AnchorsThatMove(key) = MoveStated(Reaching(key))
<1>1. IsOverrideList(input.overrides)
  BY SeriesAssumption DEF SeriesAssumption
<1>2. \A o \in input.overrides : o.place \in Int
  BY <1>1, FS_CardinalityType DEF IsOverrideList
<1>3. \A o \in input.overrides : o.future => ~Shadowed(o)
  BY <1>2 DEF AnchorsUnshadowed, Shadowed
<1>4. AnchorsUpTo(key) = Futures(Reaching(key))
  BY <1>3 DEF AnchorsUpTo, OverridesInForce, Futures, Reaching
<1>5. QED
  BY <1>4 DEF AnchorsThatMove, Futures, MoveStated

(* What the merge says of a key it turns to is what the series says of it: *)
(* where it happens, and by whose leave (Merge::resolve, provenance_of).   *)
LEMMA MergeSaysWhatIsSo ==
  ASSUME AnchorsUnshadowed, SearchInv, Controlled, Remembered, NEW X, Counted(X),
         NEW key \in offered \cup rdates, Merges(key), key < Generation.end
  PROVE  /\ EffectiveStart(key) = StartOf(key)
         /\ Provenance(key) = NamedBy(key)
<1>1. /\ input \in Inputs /\ key \in Int /\ key \in Pending
      /\ IsOverrideList(input.overrides)
  BY SeriesAssumption DEF SearchInv, Shaped, Pending, SeriesAssumption
<1>2. \A o \in input.overrides :
        o.id \in Int /\ o.moved \subseteq Int /\ \A m, n \in o.moved : m = n
  BY <1>1, AnchorsAscend DEF IsOverrideList, Instants
<1>3. key \in offered <=> key \in RuleKeys
  BY KeyIsOfRule
<1>4. /\ Exact(key) = FirstOwn(key) /\ Moved(key) = OwnMoves(key)
      /\ Moved(key) # {} => Least(Moved(key)) = The(OwnMoves(key))
  BY <1>1, OwnIsExact
<1>5. /\ NearestAfter(key) = {o.id : o \in LastOf(Futures(Reaching(key)))}
      /\ ShiftAfter(key) = UNION {ShiftOf(o) : o \in LastOf(MoveStated(Reaching(key)))}
  BY <1>1, PassedIsReached
<1>6. /\ AnchorsUpTo(key) = Futures(Reaching(key))
      /\ AnchorsThatMove(key) = MoveStated(Reaching(key))
  BY <1>1, AnchorsAreInForce
<1> DEFINE stated == UNION {ShiftOf(o) : o \in LastOf(AnchorsThatMove(key))}
<1>7. /\ stated = {} <=> AnchorsThatMove(key) = {}
      /\ stated # {} => Least(stated) = The(stated)
  <2>1. CASE AnchorsThatMove(key) = {}
    BY <2>1 DEF LastOf
  <2>2. CASE AnchorsThatMove(key) # {}
    <3>1. AnchorsThatMove(key) \subseteq input.overrides
      BY DEF AnchorsThatMove, AnchorsUpTo, OverridesInForce
    <3>2. PICK o \in AnchorsThatMove(key) : LastOf(AnchorsThatMove(key)) = {o}
      BY <1>1, <2>2, <3>1, LastExists
    <3>3. stated = ShiftOf(o) /\ ShiftOf(o) # {} /\ o \in input.overrides
      BY <3>1, <3>2 DEF AnchorsThatMove
    <3>4. PICK d \in ShiftOf(o) : TRUE
      BY <3>3
    <3>5. d \in Int /\ \A e \in ShiftOf(o) : e = d
      BY <1>2, <3>3, <3>4 DEF ShiftOf
    <3>6. Least(ShiftOf(o)) = The(ShiftOf(o))
      BY <3>4, <3>5, OnlyElement
    <3>7. QED
      BY <2>2, <3>3, <3>6
  <2>3. QED
    BY <2>1, <2>2
<1>8. EffectiveStart(key) = StartOf(key)
  <2> HIDE DEF stated
  <2>1. ShiftAfter(key) = stated
    BY <1>5, <1>6 DEF stated
  <2>2. QED
    BY <1>3, <1>4, <1>7, <2>1 DEF EffectiveStart, StartOf, stated
<1>9. Provenance(key) = NamedBy(key)
  <2> DEFINE before == AnchorsUpTo(key)
             ids    == {o.id : o \in before}
  <2>1. before = Futures(Reaching(key)) /\ before \subseteq input.overrides
    BY <1>6 DEF Futures, Reaching
  <2>2. before = {} => NearestAfter(key) = {}
    BY <1>5, <2>1 DEF LastOf
  <2>3. ASSUME before # {}
        PROVE  NearestAfter(key) # {} /\ Least(NearestAfter(key)) = Greatest(ids)
    <3>1. PICK o \in before : LastOf(before) = {o}
      <4> HIDE DEF before
      <4>1. QED BY <1>1, <2>1, <2>3, LastExists
    <3>2. NearestAfter(key) = {o.id} /\ o.id \in Int
      BY <1>2, <1>5, <2>1, <3>1
    <3>3. \A b \in before : b.id <= o.id
      <4>1. SUFFICES ASSUME NEW b \in before, o.id < b.id PROVE FALSE
        BY <1>2, <2>1
      <4>2. o.place < b.place /\ o.place \in Int /\ b.place \in Int
        BY <1>1, <2>1, <4>1, FS_CardinalityType DEF IsOverrideList
      <4>3. b.place <= o.place
        BY <3>1 DEF LastOf
      <4>4. QED
        BY <4>2, <4>3
    <3>4. Greatest(ids) = o.id
      <4>1. ids \subseteq Int /\ ids # {} /\ o.id \in ids /\ \A x \in ids : x <= o.id
        BY <1>2, <2>1, <2>3, <3>3
      <4> HIDE DEF ids
      <4>2. Greatest(ids) \in ids /\ \A y \in ids : y <= Greatest(ids)
        BY <3>2, <4>1, GreatestIs
      <4>3. PICK g \in ids : g = Greatest(ids) /\ o.id <= g
        BY <4>1, <4>2
      <4>4. g \in Int /\ g <= o.id
        BY <4>1
      <4>5. QED
        BY <3>2, <4>3, <4>4
    <3>5. Least(NearestAfter(key)) = o.id
      BY <3>2, OnlyElement
    <3>6. QED
      BY <3>2, <3>4, <3>5
  <2> HIDE DEF ids
  <2>4. NamedBy(key) =
          IF FirstOwn(key) # {} THEN <<"ExactMatch">>
          ELSE IF before # {} THEN <<"ThisAndFuture", Greatest(ids)>>
          ELSE IF key \notin RuleKeys THEN <<"AddedByRdate">> ELSE <<"None">>
    BY DEF NamedBy, ids
  <2> HIDE DEF before
  <2>5. QED
    BY <1>3, <1>4, <2>2, <2>3, <2>4 DEF Provenance
<1>10. QED
  BY <1>8, <1>9

(* A turn of the merge moves what it remembers up to its key               *)
(* (Merge::pass_exclusions, pass_overrides).                               *)
LEMMA ConsumeKeepsRemembered ==
  ASSUME SearchInv, Remembered, NEW key \in offered \cup rdates, Merges(key), Consume(key)
  PROVE  Remembered'
<1>1. /\ key \in Int /\ key \in Pending
      /\ UNCHANGED <<input, window>>
      /\ Pending' \subseteq Pending /\ \A k \in Pending' : key < k
  BY MergeOrder
<1>2. /\ exdates' = {e \in exdates : e >= key} /\ overrides' = overrides \ Passed(key)
      /\ nearest' = NearestAfter(key) /\ shift' = ShiftAfter(key)
  BY DEF Consume
<1>3. /\ IsOverrideList(input.overrides) /\ input.exdates \subseteq Int /\ Pending \subseteq Int
  BY SeriesAssumption, PendingAreInstants DEF SearchInv, Shaped, SeriesAssumption
<1>4. \A o \in input.overrides : o.id \in Int
  BY <1>3, AnchorsAscend DEF IsOverrideList, Instants
<1>5. /\ overrides \subseteq input.overrides /\ exdates \subseteq input.exdates
      /\ \A e \in input.exdates \ exdates : e < key
  BY <1>1 DEF Remembered
<1>6. /\ Gone \cup Passed(key) = Reaching(key)
      /\ NearestAfter(key) = {o.id : o \in LastOf(Futures(Reaching(key)))}
      /\ ShiftAfter(key) = UNION {ShiftOf(o) : o \in LastOf(MoveStated(Reaching(key)))}
  BY <1>1, PassedIsReached
<1>7. Gone' = Reaching(key)
  BY <1>1, <1>2, <1>5, <1>6 DEF Gone, Passed
<1>8. overrides' \subseteq input'.overrides /\ exdates' \subseteq input'.exdates
  BY <1>1, <1>2, <1>5
<1>9. \A g \in Gone' : (\A k \in Pending' : g.id < k) /\ (\A o \in overrides' : g.id < o.id)
  <2>1. \A g \in Gone' : g.id <= key /\ g.id \in Int
    BY <1>4, <1>7 DEF Reaching
  <2>2. \A o \in overrides' : key < o.id /\ o.id \in Int
    BY <1>1, <1>2, <1>4, <1>5 DEF Passed
  <2>3. QED
    BY <1>1, <1>3, <2>1, <2>2
<1>10. \A e \in input'.exdates \ exdates', k \in Pending' : e < k
  <2>1. \A e \in input'.exdates \ exdates' : e < key /\ e \in Int
    BY <1>1, <1>2, <1>3, <1>5
  <2>2. QED
    BY <1>1, <1>3, <2>1
<1>11. /\ nearest' = {o.id : o \in LastOf(Futures(Gone'))}
       /\ shift' = UNION {ShiftOf(o) : o \in LastOf(MoveStated(Gone'))}
  BY <1>2, <1>6, <1>7
<1>12. QED
  BY <1>8, <1>9, <1>10, <1>11 DEF Remembered, Gone

(* The key of a resumed search lies behind the cursor it was given.        *)
LEMMA MergedIsAhead ==
  ASSUME SearchInv, Controlled, NEW key \in offered \cup rdates
  PROVE  resumeAfter < key /\ key \in Nat /\ (RuleAlone(input) => key \in offered)
<1>1. input.rdates \subseteq Nat /\ rdates \subseteq input.rdates /\ offered \subseteq Int
  BY SeriesAssumption DEF SearchInv, Shaped, SeriesAssumption, Controlled
<1>2. CASE key \in offered
  BY <1>1, <1>2 DEF Controlled, SearchInv, Shaped
<1>3. CASE key \notin offered
  <2>1. key \in input.rdates /\ ~RuleAlone(input)
    BY <1>1, <1>3 DEF RuleAlone
  <2>2. resumeAfter = -1
    BY <2>1 DEF Controlled
  <2>3. QED
    BY <1>1, <2>1, <2>2
<1>4. QED
  BY <1>2, <1>3

(* The merge counts nothing: what it consumes stays counted.               *)
LEMMA ConsumeKeepsCounted ==
  ASSUME SearchInv, Controlled, NEW X, Counted(X),
         NEW key \in offered \cup rdates, Merges(key), Consume(key),
         finished' \in {finished, TRUE},
         RuleAlone(input) => reached' = reached /\ EmittedKeys' \subseteq X
  PROVE  Counted(X)'
<1>1. /\ key \in Int
      /\ offered' = offered \ {key} /\ rdates' = rdates \ {key}
      /\ UNCHANGED <<input, window, index, left, produced, resumeAfter, streamDone>>
      /\ \A k \in Pending' : key < k
  BY MergeOrder
<1>2. UNCHANGED <<Admitted, RuleKeys, Generation>> /\ \A i : CandidatesOf(i)' = CandidatesOf(i)
  BY <1>1, AnswerIsFixed
<1>3. UNCHANGED <<CursorPeriod, Rest>>
  BY <1>1, <1>2 DEF CursorPeriod, Rest, Unopened
<1>4. \A x \in X \ offered', r \in rdates' : x < r
  <2>1. \A r \in rdates' : key < r
    BY <1>1 DEF Pending
  <2>2. QED
    BY <1>1, <2>1 DEF Counted
<1>5. RuleAlone(input)' <=> RuleAlone(input)
  BY <1>1 DEF RuleAlone
<1>6. QED
  BY <1>1, <1>2, <1>3, <1>4, <1>5 DEF Counted

(* What an ending turn leaves behind of a rule alone: nothing on offer.    *)
LEMMA ConsumeKeepsControlled ==
  ASSUME SearchInv, Controlled, NEW key \in offered \cup rdates, Merges(key), Consume(key),
         reached' \in Nat, finished' => ~calling', 
         outcome' \in {"OccurrencesSpent", "CandidatesSpent"} => finished'
  PROVE  Controlled'
<1>1. /\ key \in Int
      /\ offered' = offered \ {key} /\ rdates' = rdates \ {key}
      /\ UNCHANGED <<input, window, index, left, produced, ended, resumeAfter, streamDone>>
  BY MergeOrder
<1>2. UNCHANGED Generation /\ \A i : CandidatesOf(i)' = CandidatesOf(i)
  BY <1>1, AnswerIsFixed
<1>3. RuleAlone(input) => offered' = {}
  BY <1>1, MergedIsAhead DEF Controlled
<1>4. RuleAlone(input)' <=> RuleAlone(input)
  BY <1>1 DEF RuleAlone
<1>5. QED
  BY <1>1, <1>2, <1>3, <1>4 DEF Controlled

(* While nothing is handed over, what has been is the beginning it was.    *)
LEMMA NothingGiven ==
  ASSUME Begun, UNCHANGED <<input, window, emitted>>
  PROVE  Begun' /\ EmittedKeys' = EmittedKeys
<1>1. /\ AnswerKeys' = AnswerKeys /\ \A k : StartOf(k)' = StartOf(k)
      /\ \A k : NamedBy(k)' = NamedBy(k)
  BY AnswerIsFixed
<1>2. EmittedKeys' = EmittedKeys
  BY DEF EmittedKeys, KeyOf
<1>3. QED
  BY <1>1, <1>2 DEF Begun, KeyOf

(* What no turn of the merge that hands nothing over may lose: its key is  *)
(* excluded or lies outside the window (RecurrenceSearch::admits).         *)
LEMMA SuppressedIsNoAnswer ==
  ASSUME AnchorsUnshadowed, SearchInv, Controlled, Remembered, NEW X, Counted(X),
         NEW key \in offered \cup rdates, Merges(key), Suppressed(key)
  PROVE  key \notin AnswerKeys
<1>1. CASE key \in exdates
  BY <1>1 DEF Remembered, AnswerKeys, SeriesKeys
<1>2. CASE key < Generation.end /\ ~AdmitsToWindow(key)
  <2>1. EffectiveStart(key) = StartOf(key)
    BY <1>2, MergeSaysWhatIsSo
  <2>2. resumeAfter < key /\ key \in Nat /\ resumeAfter \in Int
    BY MergedIsAhead DEF SearchInv, Shaped
  <2>3. ~(Contains(window, key) \/ Contains(window, StartOf(key)))
    BY <1>2, <2>1, <2>2 DEF AdmitsToWindow
  <2>4. QED
    BY <2>3 DEF AnswerKeys
<1>3. QED
  BY <1>1, <1>2 DEF Suppressed

LEMMA DroppedKeyKeepsCovered ==
  ASSUME SearchInv, Controlled, Begun, NEW X, Covered(X),
         NEW key \in offered \cup rdates, Merges(key), Consume(key),
         key \notin AnswerKeys, emitted' = emitted,
         outcome = "OccurrencesSpent" => outcome' = outcome
  PROVE  Covered(X)'
<1>1. /\ offered' = offered \ {key} /\ rdates' = rdates \ {key}
      /\ UNCHANGED <<input, window>>
  BY MergeOrder
<1>2. UNCHANGED <<RuleKeys, AnswerKeys, EmittedKeys>>
  BY <1>1, AnswerIsFixed, NothingGiven
<1>3. QED
  BY <1>1, <1>2 DEF Covered

(* A turn that hands nothing over.                                         *)
LEMMA DroppingTurnKeeps ==
  ASSUME AnchorsUnshadowed, SearchInv, Controlled, Remembered, Begun, NEW X, Counted(X),
         Covered(X), Retry \/ StopAtWindow \/ Refuse
  PROVE  Controlled' /\ Remembered' /\ Begun' /\ Counted(X)' /\ Covered(X)'
<1>1. PICK key \in offered \cup rdates :
        /\ Merges(key) /\ Consume(key)
        /\ UNCHANGED <<reached, emitted>>
        /\ \/ Suppressed(key) /\ UNCHANGED <<outcome, finished, calling>>
           \/ key >= Generation.end /\ finished' = TRUE /\ calling' = FALSE
                /\ outcome' \in {outcome, "WindowEnded"}
           \/ outcome' = "OccurrencesSpent" /\ finished' = TRUE /\ calling' = FALSE
  BY DEF Retry, StopAtWindow, Refuse, Delivers
<1>2. /\ UNCHANGED <<input, window, reached, emitted>>
      /\ calling /\ ~finished /\ outcome # "OccurrencesSpent"
  BY <1>1, MergeOrder DEF Controlled, Merges, Merging
<1>3. Begun' /\ EmittedKeys' = EmittedKeys
  BY <1>2, NothingGiven
<1>4. Remembered'
  BY <1>1, ConsumeKeepsRemembered
<1>5. Controlled'
  <2>1. finished' => ~calling'
    BY <1>1, <1>2
  <2>2. outcome' \in {"OccurrencesSpent", "CandidatesSpent"} => finished'
    BY <1>1, <1>2 DEF Controlled
  <2>3. QED
    BY <1>1, <1>2, <2>1, <2>2, ConsumeKeepsControlled DEF Controlled
<1>6. Counted(X)'
  <2>1. RuleAlone(input) => reached' = reached /\ EmittedKeys' \subseteq X
    BY <1>2, <1>3 DEF Counted
  <2>2. finished' \in {finished, TRUE}
    BY <1>1
  <2>3. QED
    BY <1>1, <2>1, <2>2, ConsumeKeepsCounted
<1>7. Covered(X)'
  <2>1. CASE outcome' = "OccurrencesSpent"
    BY <2>1 DEF Covered
  <2>2. CASE outcome' # "OccurrencesSpent"
    <3>1. key \notin AnswerKeys
      <4>1. CASE Suppressed(key)
        BY <1>1, <4>1, SuppressedIsNoAnswer
      <4>2. CASE key >= Generation.end
        <5>1. key \in Int /\ Generation.end \in Int /\ \A k \in AnswerKeys : k < Generation.end
          BY <1>1, AnswerIsAhead, MergeOrder DEF SearchInv, Shaped, Controlled
        <5>2. QED
          BY <4>2, <5>1
      <4>3. QED
        BY <1>1, <2>2, <4>1, <4>2
    <3>2. QED
      BY <1>1, <1>2, <3>1, DroppedKeyKeepsCovered
  <2>3. QED
    BY <2>1, <2>2
<1>8. QED
  BY <1>3, <1>4, <1>5, <1>6, <1>7

(* The key handed over is the first of the answer that has not been: all   *)
(* before it were given, and everything given lies before it.              *)
LEMMA DeliveredIsNext ==
  ASSUME AnchorsUnshadowed, SearchInv, Controlled, Remembered, Begun, NEW X, Counted(X), Covered(X),
         NEW key \in offered \cup rdates, Delivers(key)
  PROVE  /\ key \in AnswerKeys
         /\ EmittedKeys = {k \in AnswerKeys : k < key}
         /\ EffectiveStart(key) = StartOf(key)
         /\ Provenance(key) = NamedBy(key)
<1>1. /\ Merges(key) /\ ~Suppressed(key) /\ key < Generation.end
      /\ calling /\ ~finished /\ outcome # "OccurrencesSpent"
  BY DEF Delivers, Merges, Merging, Controlled
<1>2. /\ EffectiveStart(key) = StartOf(key)
      /\ Provenance(key) = NamedBy(key)
  BY <1>1, MergeSaysWhatIsSo
<1>3. /\ resumeAfter < key /\ key \in Nat /\ resumeAfter \in Int /\ key \in Pending
      /\ offered \subseteq Int /\ rdates \subseteq Int /\ Pending \subseteq Int
      /\ \A other \in offered \cup rdates : key <= other
  BY <1>1, MergedIsAhead, PendingAreInstants DEF SearchInv, Shaped, Pending, Merges
<1>4. /\ AnswerKeys \subseteq Nat /\ Generation.end \in Int
      /\ \A k \in AnswerKeys : k < Generation.end
      /\ RuleKeys \subseteq Admitted
  BY AnswerIsAhead, InstancesAreInstants DEF SearchInv, Shaped, Controlled
<1>5. key \in AnswerKeys
  <2>1. Contains(window, key) \/ Contains(window, StartOf(key))
    BY <1>1, <1>2 DEF Suppressed, AdmitsToWindow
  <2>2. key \in RuleKeys \cup input.rdates
    BY DEF Counted, Controlled
  <2>3. key \notin input.exdates
    <3>1. key \notin exdates
      BY <1>1 DEF Suppressed
    <3>2. \A e \in input.exdates \ exdates : e < key
      BY <1>3 DEF Remembered
    <3>3. QED
      BY <1>3, <3>1, <3>2
  <2>4. QED
    BY <2>1, <2>2, <2>3 DEF AnswerKeys, SeriesKeys
<1>6. ASSUME NEW k \in AnswerKeys, k < key PROVE k \in EmittedKeys
  <2>1. k \in EmittedKeys \cup offered \cup rdates \cup (RuleKeys \ X)
    BY <1>1 DEF Covered
  <2>2. k \notin offered \cup rdates
    BY <1>3, <1>4, <1>6
  <2>3. k \notin RuleKeys \ X
    <3>1. SUFFICES ASSUME k \in RuleKeys, k \notin X PROVE FALSE
      OBVIOUS
    <3>2. CASE streamDone
      BY <1>4, <3>1, <3>2 DEF Counted
    <3>3. CASE ~streamDone
      <4>1. PICK o \in offered : key <= o /\ o \in Int
        BY <1>1, <1>3, <3>3 DEF Merges, Merging
      <4>2. o < k
        BY <1>4, <3>1, <4>1 DEF Counted
      <4>3. QED
        BY <1>3, <1>4, <1>6, <4>1, <4>2
    <3>4. QED
      BY <3>2, <3>3
  <2>4. QED
    BY <2>1, <2>2, <2>3
<1>7. ASSUME NEW i \in DOMAIN emitted PROVE KeyOf(i) \in AnswerKeys /\ KeyOf(i) < key
  <2>1. PICK k \in AnswerKeys : k = KeyOf(i)
    BY DEF Begun
  <2>2. k <= resumeAfter \/ k < key
    BY <1>3, <2>1 DEF SearchInv, GivenIsPast
  <2>3. QED
    BY <1>3, <1>4, <2>1, <2>2
<1>8. EmittedKeys = {k \in AnswerKeys : k < key}
  BY <1>6, <1>7 DEF EmittedKeys
<1>9. QED
  BY <1>2, <1>5, <1>8

(* A turn that hands an occurrence over.                                   *)
LEMMA DeliveringTurnKeeps ==
  ASSUME AnchorsUnshadowed, SearchInv, Controlled, Remembered, Begun, NEW X, Counted(X),
         Covered(X), Deliver
  PROVE  Controlled' /\ Remembered' /\ Begun' /\ Counted(X)' /\ Covered(X)'
<1>1. PICK key \in offered \cup rdates :
        /\ Delivers(key) /\ Consume(key)
        /\ reached' = Greatest({reached, key})
        /\ emitted' = Append(emitted, OccurrenceAt(key))
        /\ calling' = FALSE /\ UNCHANGED <<outcome, finished>>
  BY DEF Deliver
<1>2. /\ key \in AnswerKeys
      /\ EmittedKeys = {k \in AnswerKeys : k < key}
      /\ EffectiveStart(key) = StartOf(key)
      /\ Provenance(key) = NamedBy(key)
  BY <1>1, DeliveredIsNext
<1>3. /\ UNCHANGED <<input, window>>
      /\ offered' = offered \ {key} /\ rdates' = rdates \ {key}
      /\ key \in Nat /\ (RuleAlone(input) => key \in offered)
      /\ Merges(key) /\ ~finished
  BY <1>1, MergeOrder, MergedIsAhead DEF Delivers, Merges, Merging, Controlled
<1>4. /\ UNCHANGED <<AnswerKeys, RuleKeys>> /\ \A k : StartOf(k)' = StartOf(k)
      /\ \A k : NamedBy(k)' = NamedBy(k)
      /\ AnswerKeys \subseteq Nat /\ IsFiniteSet(AnswerKeys)
  BY <1>3, AnswerIsFixed, AnswerIsAhead DEF SearchInv, Shaped, Controlled
<1>5. /\ Len(emitted) \in Nat /\ DOMAIN emitted = 1..Len(emitted)
      /\ DOMAIN emitted' = 1..(Len(emitted) + 1)
      /\ \A i \in 1..Len(emitted) : emitted'[i] = emitted[i]
      /\ emitted'[Len(emitted) + 1] = OccurrenceAt(key)
      /\ Len(emitted') = Len(emitted) + 1
  <2>1. \E S : emitted \in Seq(S)
    BY DEF SearchInv, Shaped
  <2>2. \E S : emitted' \in Seq(S)
    BY <1>1, <2>1, AppendKeeps
  <2>3. /\ Len(emitted) \in Nat /\ DOMAIN emitted = 1..Len(emitted)
        /\ DOMAIN emitted' = 1..(Len(emitted) + 1)
        /\ \A i \in 1..Len(emitted) : emitted'[i] = emitted[i]
        /\ emitted'[Len(emitted) + 1] = OccurrenceAt(key)
    BY <1>1, <2>1, AppendKeeps
  <2>4. Len(emitted') = Len(emitted) + 1
    BY <2>2, <2>3
  <2>5. QED
    BY <2>3, <2>4
<1>6. /\ \A i \in 1..Len(emitted) : KeyOf(i)' = KeyOf(i)
      /\ emitted'[Len(emitted) + 1].key = key
      /\ emitted'[Len(emitted) + 1].start = StartOf(key)
      /\ emitted'[Len(emitted) + 1].by = NamedBy(key)
  BY <1>2, <1>5 DEF KeyOf, OccurrenceAt
<1>7. EmittedKeys' = EmittedKeys \cup {key}
  BY <1>5, <1>6 DEF EmittedKeys, KeyOf
<1>8. Begun'
  <2>1. Cardinality(EmittedKeys) = Len(emitted)
    BY DEF Begun
  <2>2. Cardinality(EmittedKeys') = Len(emitted')
    <3>1. key \notin EmittedKeys
      BY <1>2, <1>3
    <3>2. IsFiniteSet(EmittedKeys)
      BY <1>2, <1>4, FS_Subset
    <3>3. QED
      BY <1>5, <1>7, <2>1, <3>1, <3>2, FS_AddElement
  <2>3. ASSUME NEW i \in DOMAIN emitted'
        PROVE  /\ KeyOf(i)' \in AnswerKeys
               /\ emitted'[i].start = StartOf(KeyOf(i)')
               /\ emitted'[i].by = NamedBy(KeyOf(i)')
               /\ Cardinality({k \in AnswerKeys : k < KeyOf(i)'}) = i - 1
    <3>1. CASE i \in 1..Len(emitted)
      BY <1>5, <1>6, <3>1 DEF Begun
    <3>2. CASE i = Len(emitted) + 1
      <4>1. KeyOf(i)' = key
        BY <1>6, <3>2 DEF KeyOf
      <4>2. Cardinality({k \in AnswerKeys : k < key}) = i - 1
        BY <1>2, <1>5, <2>1, <3>2
      <4>3. QED
        BY <1>2, <1>6, <3>2, <4>1, <4>2
    <3>3. QED
      BY <1>5, <2>3, <3>1, <3>2
  <2>4. QED
    BY <1>4, <2>2, <2>3 DEF Begun
<1>9. Remembered'
  BY <1>1, <1>3, ConsumeKeepsRemembered
<1>10. reached \in Nat /\ reached' \in Nat
  <2>1. reached \in Nat
    BY DEF Controlled
  <2>2. Greatest({reached, key}) \in Int /\ key <= Greatest({reached, key})
    BY <1>3, <2>1, GreatestOfTwo
  <2>3. QED
    BY <1>1, <1>3, <2>1, <2>2
<1>11. Controlled'
  <2>1. finished' => ~calling'
    BY <1>1
  <2>2. outcome' \in {"OccurrencesSpent", "CandidatesSpent"} => finished'
    BY <1>1 DEF Controlled
  <2>3. QED
    BY <1>1, <1>3, <1>10, <2>1, <2>2, ConsumeKeepsControlled
<1>12. RuleAlone(input) => reached' = reached /\ EmittedKeys' \subseteq X
  <2>1. SUFFICES ASSUME RuleAlone(input) PROVE reached' = reached /\ EmittedKeys' \subseteq X
    OBVIOUS
  <2>2. key \in X /\ X = {a \in Admitted : a <= reached} /\ EmittedKeys \subseteq X
    BY <1>3, <2>1 DEF Counted
  <2>3. key <= reached
    BY <2>2
  <2>4. Greatest({reached, key}) = reached
    <3>1. \A y \in {reached, key} : y <= reached
      BY <1>10, <2>3
    <3>2. /\ Greatest({reached, key}) \in {reached, key}
          /\ \A y \in {reached, key} : y <= Greatest({reached, key})
      BY <3>1 DEF Greatest
    <3>3. QED
      BY <1>3, <1>10, <2>3, <3>2
  <2>5. QED
    BY <1>1, <1>7, <2>2, <2>4
<1>13. Counted(X)'
  BY <1>1, <1>3, <1>12, ConsumeKeepsCounted
<1>14. Covered(X)'
  BY <1>1, <1>3, <1>4, <1>7 DEF Covered
<1>15. QED
  BY <1>8, <1>9, <1>11, <1>13, <1>14

(* A call begins, or the search is over with nothing left to merge.        *)
LEMMA CallKeeps ==
  ASSUME SearchInv, Controlled, Remembered, Begun, NEW X, Counted(X), Covered(X),
         CallNext \/ Drained \/ UNCHANGED vars
  PROVE  Controlled' /\ Remembered' /\ Begun' /\ Counted(X)' /\ Covered(X)'
<1>1. /\ UNCHANGED <<input, window, index, left, produced, ended, resumeAfter, offered,
                     streamDone, reached, rdates, exdates, overrides, nearest, shift,
                     outcome, emitted>>
      /\ UNCHANGED <<mergeVars, askedVars>>
  BY DEF CallNext, Drained, vars, walkVars, mergeVars, askedVars
<1>1a. /\ finished' = finished \/ finished' = TRUE
       /\ finished => finished'
       /\ finished' => ~calling'
       /\ ~calling' => ~calling \/ offered = {}
  <2>1. CASE CallNext
    BY <2>1 DEF CallNext
  <2>2. CASE Drained
    BY <2>2 DEF Drained
  <2>3. CASE UNCHANGED vars
    BY <2>3 DEF vars, Controlled
  <2>4. QED
    BY <2>1, <2>2, <2>3
<1>2. /\ UNCHANGED <<Generation, AnswerKeys, RuleKeys>>
      /\ \A i : CandidatesOf(i)' = CandidatesOf(i)
  BY <1>1, AnswerIsFixed
<1>3. UNCHANGED <<Stream, Pending, Gone>>
  BY <1>1, <1>2 DEF Stream, Unopened, Pending, Gone
<1>4. Begun' /\ EmittedKeys' = EmittedKeys
  BY <1>1, NothingGiven
<1>5. Quiet
  BY <1>1, <1>1a DEF Quiet
<1>6. Counted(X)'
  BY <1>1, <1>5, IdleKeepsCounted
<1>7. Controlled'
  <2>1. RuleAlone(input) /\ ~calling' => offered = {}
    BY <1>1a DEF Controlled
  <2>2. outcome \in {"OccurrencesSpent", "CandidatesSpent"} => finished'
    BY <1>1a DEF Controlled
  <2>3. QED
    BY <1>1, <1>1a, <1>2, <2>1, <2>2 DEF Controlled, RuleAlone
<1>8. Remembered'
  BY <1>1, <1>3 DEF Remembered
<1>9. Covered(X)'
  BY <1>1, <1>2, <1>4 DEF Covered
<1>10. QED
  BY <1>4, <1>6, <1>7, <1>8, <1>9

-----------------------------------------------------------------------------
(* The steps of the stream and the invariant of the merge.                 *)

(* The stream only hands the merge what was still to come.                 *)
LEMMA StreamBringsPending ==
  ASSUME SearchInv, NextKey
  PROVE  Pending' \subseteq Pending
<1>1. /\ UNCHANGED <<input, rdates>> /\ offered = {} /\ ~streamDone
      /\ streamDone' = streamDone \/ streamDone' = TRUE
      /\ offered' \subseteq left
      /\ index' = index \/ index' = index + 1
      /\ left' \subseteq left \/ (left' = CandidatesOf(index) /\ index' = index + 1)
  BY DEF NextKey, PassOver, EndRule, LeaveWindow, Offer, EndWalk, PeriodPastWindow, ExpandPeriod,
         ExhaustPeriod, StreamStops, Weighing, Walks, Opening, Filling, mergeVars, askedVars
<1>2. \A i : CandidatesOf(i)' = CandidatesOf(i)
  BY <1>1 DEF CandidatesOf
<1>3. index \in Nat
  BY DEF SearchInv, Shaped
<1>4. Unopened' \subseteq Unopened /\ CandidatesOf(index) \subseteq Unopened
  BY <1>1, <1>2, <1>3 DEF Unopened
<1>5. Stream' \subseteq left \cup Unopened /\ Stream = left \cup Unopened
  BY <1>1, <1>4 DEF Stream
<1>6. QED
  BY <1>1, <1>5 DEF Pending

LEMMA StreamKeepsRemembered ==
  ASSUME SearchInv, Remembered, NextKey
  PROVE  Remembered'
<1>1. UNCHANGED <<input, exdates, overrides, nearest, shift>>
  BY DEF NextKey, PassOver, EndRule, LeaveWindow, Offer, EndWalk, PeriodPastWindow, ExpandPeriod,
         ExhaustPeriod, mergeVars, askedVars
<1>2. Pending' \subseteq Pending
  BY StreamBringsPending
<1>3. Gone' = Gone
  BY <1>1 DEF Gone
<1>4. QED
  BY <1>1, <1>2, <1>3 DEF Remembered

(* Every step of the stream leaves next() in order.                        *)
LEMMA StreamKeepsControlled ==
  ASSUME SearchInv, Controlled, NextKey
  PROVE  Controlled'
<1>1. /\ UNCHANGED <<input, window, resumeAfter, rdates>>
      /\ \/ offered = {} /\ ~streamDone /\ ~ended
         \/ EndWalk
      /\ calling /\ ~finished
  BY DEF NextKey, PassOver, EndRule, LeaveWindow, Offer, EndWalk, PeriodPastWindow, ExpandPeriod,
         ExhaustPeriod, StreamStops, Weighing, Walks, Opening, Filling, mergeVars, askedVars,
         Controlled
<1>2. UNCHANGED Generation /\ \A i : CandidatesOf(i)' = CandidatesOf(i)
  BY <1>1, AnswerIsFixed
<1>3. RuleAlone(input)' <=> RuleAlone(input)
  BY <1>1 DEF RuleAlone
<1>4. index \in Nat /\ resumeAfter \in Int /\ left \subseteq Int /\ calling /\ offered = {}
      /\ ~finished /\ outcome \notin {"OccurrencesSpent", "CandidatesSpent"}
  BY DEF SearchInv, Shaped, NextKey, PassOver, EndRule, LeaveWindow, Offer, EndWalk,
         PeriodPastWindow, ExpandPeriod, ExhaustPeriod, Weighing, Walks, Opening, Filling, Controlled
<1>5. CASE PassOver \/ EndRule \/ LeaveWindow
  <2>1. /\ left' \subseteq left /\ UNCHANGED <<index, produced, reached, finished, calling, offered>>
        /\ ended' => streamDone'
        /\ outcome' \in {outcome, "RuleEnded", "WindowEnded"}
    BY <1>5 DEF PassOver, EndRule, LeaveWindow, StreamStops, Controlled
  <2>2. outcome' \notin {"OccurrencesSpent", "CandidatesSpent"}
    BY <1>4, <2>1
  <2>3. QED
    BY <1>1, <1>2, <1>3, <1>4, <2>1, <2>2 DEF Controlled
<1>6. CASE Offer
  <2>1. PICK key \in left :
          /\ ~BeforeTheSearch(key) /\ key < Generation.end /\ left' = left \ {key}
          /\ produced' = produced + 1 /\ offered' = {key} /\ reached' = key
          /\ UNCHANGED <<index, ended, calling, streamDone, outcome, finished>>
    BY <1>6 DEF Offer
  <2>2. input.dtstart \in Nat
    BY SeriesAssumption DEF SearchInv, Shaped, SeriesAssumption
  <2>3. key \in Nat /\ resumeAfter < key
    BY <1>4, <2>1, <2>2 DEF BeforeTheSearch
  <2>4. QED
    BY <1>1, <1>2, <1>3, <1>4, <2>1, <2>3 DEF Controlled
<1>7. CASE EndWalk \/ PeriodPastWindow
  <2>1. /\ UNCHANGED <<left, produced, reached, finished, calling, offered>>
        /\ left = {} \/ index' = index
        /\ streamDone' /\ outcome' \in {outcome, "RuleEnded", "CalendarEnded", "WindowEnded"}
    BY <1>7 DEF EndWalk, PeriodPastWindow, StreamStops, Walks, Opening
  <2>2. outcome' \notin {"OccurrencesSpent", "CandidatesSpent"}
    BY <1>4, <2>1
  <2>3. QED
    BY <1>1, <1>2, <1>3, <1>4, <2>1, <2>2 DEF Controlled
<1>8. CASE ExpandPeriod
  <2>1. /\ left' = CandidatesOf(index) /\ index' = index + 1
        /\ UNCHANGED <<produced, reached, finished, calling, offered, ended, streamDone, outcome>>
    BY <1>8 DEF ExpandPeriod
  <2>2. index' > 0 /\ index' - 1 = index
    BY <1>4, <2>1
  <2>3. QED
    BY <1>1, <1>2, <1>3, <1>4, <2>1, <2>2 DEF Controlled
<1>9. CASE ExhaustPeriod
  <2>1. /\ left = {} /\ left' = left /\ finished' = TRUE /\ calling' = FALSE
        /\ UNCHANGED <<produced, reached, offered, ended, streamDone>>
    BY <1>9 DEF ExhaustPeriod, Walks, Opening
  <2>2. QED
    BY <1>1, <1>2, <1>3, <1>4, <2>1 DEF Controlled
<1>10. QED
  BY <1>5, <1>6, <1>7, <1>8, <1>9 DEF NextKey

(* A step of the stream that offers nothing loses nothing.                 *)
LEMMA IdleKeepsCovered ==
  ASSUME NEW X, Covered(X), UNCHANGED <<input, window, offered, rdates, emitted>>,
         outcome = "OccurrencesSpent" => outcome' = outcome
  PROVE  Covered(X)'
<1>1. UNCHANGED <<AnswerKeys, RuleKeys>>
  BY AnswerIsFixed
<1>2. EmittedKeys' = EmittedKeys
  BY DEF EmittedKeys, KeyOf
<1>3. QED
  BY <1>1, <1>2 DEF Covered

LEMMA StreamKeeps ==
  ASSUME CandidatesAnchored, SearchInv, Controlled, Remembered, Begun,
         NEW X \in SUBSET Admitted, Counted(X), Covered(X), NextKey
  PROVE  /\ Controlled' /\ Remembered' /\ Begun'
         /\ \E Y \in SUBSET Admitted : Counted(Y)' /\ Covered(Y)'
<1>1. Controlled' /\ Remembered'
  BY StreamKeepsControlled, StreamKeepsRemembered
<1>2. UNCHANGED <<input, window, mergeVars, askedVars, rdates, emitted>>
  BY DEF NextKey, PassOver, EndRule, LeaveWindow, Offer, EndWalk, PeriodPastWindow, ExpandPeriod,
         ExhaustPeriod, StreamStops, mergeVars, askedVars
<1>3. Begun'
  BY <1>2, NothingGiven
<1>4. ASSUME UNCHANGED offered PROVE Covered(X)'
  <2>1. outcome = "OccurrencesSpent" => outcome' = outcome
    BY DEF NextKey, PassOver, EndRule, LeaveWindow, Offer, EndWalk, PeriodPastWindow,
           ExpandPeriod, ExhaustPeriod, StreamStops, Weighing, Walks, Opening, Filling, Controlled
  <2>2. QED
    BY <1>2, <1>4, <2>1, IdleKeepsCovered
<1>5. CASE Offer
  BY <1>1, <1>3, <1>5, OfferKeepsCounted
<1>6. CASE PassOver
  <2>1. Counted(X)'
    BY <1>6, PassOverKeepsCounted
  <2>2. UNCHANGED offered
    BY <1>6 DEF PassOver
  <2>3. QED
    BY <1>1, <1>3, <1>4, <2>1, <2>2
<1>7. CASE ExpandPeriod \/ ExhaustPeriod
  <2>1. Counted(X)'
    BY <1>7, ExpandPeriodKeepsCounted
  <2>2. UNCHANGED offered
    BY <1>7 DEF ExpandPeriod, ExhaustPeriod
  <2>3. QED
    BY <1>1, <1>3, <1>4, <2>1, <2>2
<1>8. CASE EndRule \/ LeaveWindow \/ EndWalk \/ PeriodPastWindow
  <2>1. \A a \in RuleKeys \ X : Generation.end <= a
    BY <1>8, EndRuleIsEarned, LeaveWindowIsEarned, EndWalkIsEarned, PeriodPastWindowIsEarned
  <2>2. /\ Filling /\ streamDone' /\ UNCHANGED <<produced, offered, reached>>
        /\ index' = index \/ (index' = index + 1 /\ left = {})
    BY <1>8 DEF EndRule, LeaveWindow, EndWalk, PeriodPastWindow, StreamStops, Weighing, Walks, Opening
  <2>3. Counted(X)'
    BY <1>2, <2>1, <2>2, StopKeepsCounted
  <2>4. QED
    BY <1>1, <1>3, <1>4, <2>2, <2>3
<1>9. QED
  BY <1>5, <1>6, <1>7, <1>8 DEF NextKey

(* A cursor handed back: of a rule alone, what was counted is what lies at *)
(* or before the cursor, and the period it names holds all the rest        *)
(* (SearchCursor, RecurrenceSearch::resume).                               *)
LEMMA ResumeKeepsFeed ==
  ASSUME ~ResumeAnywhere, SearchInv, Controlled, Remembered, Begun,
         NEW X, Counted(X), Covered(X), Resume
  PROVE  Controlled' /\ Remembered' /\ Begun' /\ Counted(X)' /\ Covered(X)'
<1>1. /\ UNCHANGED <<input, window, produced, reached, emitted>>
      /\ ~calling /\ RuleAlone(input) /\ emitted # << >> /\ outcome # "OccurrencesSpent"
      /\ index' = CursorPeriod /\ left' = {} /\ resumeAfter' = reached /\ offered' = {}
      /\ rdates' = {} /\ exdates' = {} /\ overrides' = {} /\ nearest' = {} /\ shift' = {}
      /\ ended' = FALSE /\ streamDone' = FALSE /\ finished' = FALSE /\ outcome' = "Pending"
      /\ calling' = calling /\ rdates = {}
  BY DEF Resume, RuleAlone, Controlled
<1>2. /\ UNCHANGED <<Admitted, RuleKeys, Generation, AnswerKeys>>
      /\ \A i : CandidatesOf(i)' = CandidatesOf(i)
  BY <1>1, AnswerIsFixed
<1>3. Begun' /\ EmittedKeys' = EmittedKeys
  BY <1>1, NothingGiven
<1>4. offered = {} /\ reached \in Nat
  BY <1>1 DEF Controlled
<1>5. input.overrides = {} /\ input.exdates = {} /\ RuleAlone(input)'
  BY <1>1 DEF RuleAlone
<1>6. Controlled'
  BY <1>1, <1>2, <1>4, <1>5 DEF Controlled
<1>7. Remembered'
  <2>1. Gone' = {}
    BY <1>1, <1>5 DEF Gone
  <2>2. QED
    BY <1>1, <1>5, <2>1 DEF Remembered, LastOf, Futures, MoveStated
<1>8. Covered(X)'
  BY <1>1, <1>2, <1>3, <1>4 DEF Covered
<1>9. X = {a \in Admitted : a <= reached}
  <2>1. EmittedKeys # {}
    <3>1. PICK S : emitted \in Seq(S)
      BY DEF SearchInv, Shaped
    <3>2. 1 \in DOMAIN emitted
      BY <1>1, <3>1
    <3>3. QED
      BY <3>2 DEF EmittedKeys
  <2>2. QED
    BY <1>1, <2>1 DEF Counted
<1>10. index \in Nat /\ CursorPeriod \in Nat /\ CursorPeriod' \in Nat /\ CursorPeriod' <= CursorPeriod
  BY <1>1 DEF SearchInv, Shaped, CursorPeriod
<1>11. \A a \in Admitted \ X : resumeAfter' < a
  <2>1. Admitted \subseteq Nat
    BY InstancesAreInstants DEF SearchInv, Shaped
  <2>2. QED
    BY <1>1, <1>4, <1>9, <2>1
<1>12. \A a \in Admitted \ X, i \in Nat : a \in CandidatesOf(i) => CursorPeriod' <= i
  <2>1. \A a \in Admitted \ X, i \in Nat : a \in CandidatesOf(i) => CursorPeriod <= i
    BY DEF Counted
  <2>2. QED
    BY <1>10, <2>1
<1>13. Admitted \ X \subseteq Rest'
  <2>1. SUFFICES ASSUME NEW a \in Admitted \ X PROVE a \in Rest'
    OBVIOUS
  <2>2. PICK i \in 0..LastIndex : a \in CandidatesOf(i)
    BY InstancesAreInstants DEF SearchInv, Shaped
  <2>3. i \in Nat /\ CursorPeriod <= i
    BY <2>1, <2>2 DEF Counted
  <2>4. a \in Unopened'
    BY <1>1, <1>2, <2>2, <2>3 DEF Unopened
  <2>5. QED
    BY <2>4 DEF Rest
<1>14. Counted(X)'
  <2>1. \A x \in X : x <= resumeAfter'
    BY <1>1, <1>9
  <2>2. QED
    BY <1>1, <1>2, <1>3, <1>4, <1>5, <1>9, <1>11, <1>12, <1>13, <2>1 DEF Counted
<1>15. QED
  BY <1>3, <1>6, <1>7, <1>8, <1>14

-----------------------------------------------------------------------------
(* The invariant.                                                          *)
LEMMA FeedInit ==
  ASSUME Claims, Init
  PROVE  FeedInv
<1>1. /\ input \in Inputs /\ window \in Windows
      /\ index = 0 /\ left = {} /\ produced = 0 /\ ended = FALSE
      /\ resumeAfter = -1 /\ offered = {} /\ streamDone = FALSE
      /\ rdates = input.rdates /\ exdates = input.exdates /\ overrides = input.overrides
      /\ nearest = {} /\ shift = {} /\ reached = input.dtstart
      /\ outcome = "Pending" /\ finished = FALSE /\ calling = FALSE
      /\ emitted = << >>
  BY DEF Init, Start
<1>2. SearchInv
  BY InitKeeps
<1>3. /\ Admitted \subseteq Nat /\ RuleKeys \subseteq Admitted
      /\ \A a \in Admitted : \E i \in 0..LastIndex : a \in CandidatesOf(i)
      /\ input.dtstart \in Nat
  BY <1>1, InstancesAreInstants, SeriesAssumption DEF SeriesAssumption
<1>4. Controlled
  BY <1>1, <1>3 DEF Controlled
<1>5. EmittedKeys = {} /\ Begun
  <2>1. DOMAIN emitted = {} /\ Len(emitted) = 0
    BY <1>1
  <2>2. EmittedKeys = {}
    BY <2>1 DEF EmittedKeys
  <2>3. Cardinality(EmittedKeys) = 0
    BY <2>2, FS_EmptySet
  <2>4. QED
    BY <2>1, <2>2, <2>3 DEF Begun
<1>6. Remembered
  BY <1>1 DEF Remembered, Gone, LastOf, Futures, MoveStated
<1>7. CursorPeriod = 0 /\ Admitted \subseteq Rest
  BY <1>1, <1>3 DEF CursorPeriod, Rest, Unopened
<1>8. Counted({})
  BY <1>1, <1>3, <1>5, <1>7, FS_EmptySet DEF Counted
<1>9. Covered({})
  BY <1>1 DEF Covered, AnswerKeys, SeriesKeys
<1>10. QED
  BY <1>2, <1>4, <1>5, <1>6, <1>8, <1>9 DEF FeedInv

LEMMA FeedStep ==
  ASSUME FeedInv, [Next]_vars
  PROVE  FeedInv'
<1>1. /\ Claims /\ CandidatesAnchored /\ AnchorsUnshadowed /\ ~ResumeAnywhere
      /\ SearchInv /\ Controlled /\ Remembered /\ Begun
  BY DEF FeedInv, Claims
<1>2. PICK X \in SUBSET Admitted : Counted(X) /\ Covered(X)
  BY DEF FeedInv
<1>3. SearchInv' /\ UNCHANGED Admitted
  BY <1>1, StepKeeps, AskedIsFixed, AnswerIsFixed
<1>4. Claims'
  BY <1>1 DEF Claims, CandidatesAnchored, AnchorsUnshadowed
<1>5. /\ Controlled' /\ Remembered' /\ Begun'
      /\ \E Y \in SUBSET Admitted : Counted(Y)' /\ Covered(Y)'
  <2>1. CASE Resume
    BY <1>1, <1>2, <2>1, ResumeKeepsFeed
  <2>2. CASE CallNext \/ Drained \/ UNCHANGED vars
    BY <1>1, <1>2, <2>2, CallKeeps
  <2>3. CASE NextKey
    BY <1>1, <1>2, <2>3, StreamKeeps
  <2>4. CASE Retry \/ StopAtWindow \/ Refuse
    BY <1>1, <1>2, <2>4, DroppingTurnKeeps
  <2>5. CASE Deliver
    BY <1>1, <1>2, <2>5, DeliveringTurnKeeps
  <2>6. QED
    BY <2>1, <2>2, <2>3, <2>4, <2>5 DEF Next, Advance
<1>6. QED
  BY <1>3, <1>4, <1>5 DEF FeedInv

LEMMA FeedInvHolds == Claims /\ Spec => []FeedInv
<1>1. Claims /\ Init => FeedInv
  BY FeedInit
<1>2. FeedInv /\ [Next]_vars => FeedInv'
  BY FeedStep
<1>3. QED
  BY <1>1, <1>2, PTL DEF Spec

(* An occurrence names the nearest THISANDFUTURE anchor at or before it    *)
(* unless an override is its own, whatever the merge went past on the way. *)
THEOREM NamesNearestAnchorHolds == Claims /\ Spec => []NamesNearestAnchor
<1>1. FeedInv => NamesNearestAnchor
  BY DEF NamesNearestAnchor, FeedInv, Begun, KeyOf
<1>2. QED
  BY <1>1, FeedInvHolds, PTL

-----------------------------------------------------------------------------
(* The search implements OccurrenceFeed.                                   *)

(* What stands before an element of a finite set of instants tells which   *)
(* one it is.                                                              *)
LEMMA PlaceIsUnique ==
  ASSUME NEW S \in SUBSET Nat, IsFiniteSet(S), NEW a \in S, NEW b \in S,
         Cardinality({j \in S : j < a}) = Cardinality({j \in S : j < b})
  PROVE  a = b
<1>1. ASSUME NEW c \in S, NEW d \in S, c < d
      PROVE  Cardinality({j \in S : j < c}) < Cardinality({j \in S : j < d})
  <2> DEFINE C == {j \in S : j < c}
             D == {j \in S : j < d}
  <2>1. IsFiniteSet(D) /\ C \subseteq D /\ c \in D /\ c \notin C
    <3>1. D \subseteq S /\ c \in D
      BY <1>1
    <3>1a. C \subseteq D
      <4>1. \A j \in S : j < c => j < d
        BY <1>1
      <4>2. QED
        BY <4>1
    <3>1b. c \notin C
      BY <1>1
    <3> HIDE DEF C, D
    <3>2. QED
      BY <3>1, <3>1a, <3>1b, FS_Subset
  <2>2. Cardinality(C) < Cardinality(D)
    <3> HIDE DEF C, D
    <3>1. C # D
      BY <2>1
    <3>2. Cardinality(C) <= Cardinality(D) /\ (Cardinality(C) = Cardinality(D) => C = D)
      BY <2>1, FS_Subset
    <3>3. Cardinality(C) \in Nat /\ Cardinality(D) \in Nat
      BY <2>1, FS_Subset, FS_CardinalityType
    <3>4. QED
      BY <3>1, <3>2, <3>3
  <2>3. QED
    BY <2>2
<1>2. /\ Cardinality({j \in S : j < a}) \in Nat /\ Cardinality({j \in S : j < b}) \in Nat
  BY FS_Subset, FS_CardinalityType
<1>3. ~(a < b) /\ ~(b < a)
  BY <1>1, <1>2
<1>4. QED
  BY <1>3

(* An occurrence of the answer stands where its key says.                  *)
LEMMA AnswerAt ==
  ASSUME input \in Inputs, window \in Windows
  PROVE  /\ Cardinality(AnswerKeys) \in Nat /\ Len(Answer) = Cardinality(AnswerKeys)
         /\ DOMAIN Answer = 1..Cardinality(AnswerKeys)
         /\ \A k \in AnswerKeys, i \in Nat : Cardinality({j \in AnswerKeys : j < k}) = i - 1 =>
              /\ i \in 1..Cardinality(AnswerKeys)
              /\ Answer[i] = <<k, StartOf(k)>>
<1>1. AnswerKeys \in SUBSET Nat /\ IsFiniteSet(AnswerKeys) /\ Cardinality(AnswerKeys) \in Nat
  BY AnswerIsAhead, FS_CardinalityType
<1> DEFINE nth(i) == CHOOSE k \in AnswerKeys : Cardinality({j \in AnswerKeys : j < k}) = i - 1
           n == Cardinality(AnswerKeys)
<1>2. Answer = [i \in 1..n |-> <<nth(i), StartOf(nth(i))>>]
  BY DEF Answer
<1>3. Len(Answer) = n /\ DOMAIN Answer = 1..n
  <2> HIDE DEF nth
  <2> DEFINE S == {Answer[i] : i \in 1..n}
  <2>1. n \in Nat /\ DOMAIN Answer = 1..n /\ \A i \in 1..n : Answer[i] \in S
    BY <1>1, <1>2
  <2>2. Answer = [i \in 1..n |-> Answer[i]]
    BY <1>2
  <2> HIDE DEF S, n
  <2>3. Answer \in [1..n -> S]
    BY <2>1, <2>2, Zenon
  <2>4. Answer \in Seq(S)
    BY <2>1, <2>3
  <2>5. QED
    BY <2>1, <2>4
<1>4. ASSUME NEW k \in AnswerKeys, NEW i \in Nat,
             Cardinality({j \in AnswerKeys : j < k}) = i - 1
      PROVE  i \in 1..n /\ Answer[i] = <<k, StartOf(k)>>
  <2> DEFINE B == {j \in AnswerKeys : j < k}
  <2>1. k \notin B /\ B \cup {k} \subseteq AnswerKeys /\ IsFiniteSet(B)
    BY <1>1, FS_Subset
  <2>2. Cardinality(B \cup {k}) = i
    <3>1. Cardinality(B) = i - 1
      BY <1>4
    <3> HIDE DEF B
    <3>2. QED
      BY <2>1, <3>1, FS_AddElement
  <2>3. Cardinality(B \cup {k}) <= n /\ Cardinality(B) \in Nat
    <3> HIDE DEF B
    <3>1. QED
      BY <1>1, <2>1, FS_Subset, FS_CardinalityType
  <2>4. i \in 1..n
    BY <1>1, <1>4, <2>2, <2>3
  <2>5. nth(i) \in AnswerKeys /\ Cardinality({j \in AnswerKeys : j < nth(i)}) = i - 1
    BY <1>4
  <2>6. nth(i) = k
    <3> HIDE DEF nth
    <3>1. PICK m \in AnswerKeys :
            m = nth(i) /\ Cardinality({j \in AnswerKeys : j < m}) = i - 1
      BY <2>5
    <3>2. m = k
      BY <1>1, <1>4, <3>1, PlaceIsUnique
    <3>3. QED
      BY <3>1, <3>2
  <2>7. QED
    <3> HIDE DEF nth
    <3>1. QED
      BY <1>2, <2>4, <2>6
<1>5. QED
  BY <1>1, <1>3, <1>4

(* What has been given is the beginning of the answer.                     *)
GivenBegins ==
  /\ Len(emitted) \in Nat /\ DOMAIN emitted = 1..Len(emitted)
  /\ Len(Given) = Len(emitted) /\ DOMAIN Given = 1..Len(emitted)
  /\ Given \in Seq({Given[i] : i \in 1..Len(emitted)})
  /\ Len(emitted) <= Len(Answer) /\ DOMAIN Answer = 1..Len(Answer)
  /\ Len(Answer) = Cardinality(AnswerKeys) /\ Len(Answer) \in Nat
  /\ \A i \in 1..Len(emitted) : Given[i] = Answer[i]

LEMMA GivenIsPrefix == FeedInv => GivenBegins
<1> SUFFICES ASSUME FeedInv PROVE GivenBegins
  OBVIOUS
<1>1. /\ input \in Inputs /\ window \in Windows /\ (\E S : emitted \in Seq(S)) /\ Begun
  BY DEF FeedInv, SearchInv, Shaped, Controlled
<1>2. Len(emitted) \in Nat /\ DOMAIN emitted = 1..Len(emitted)
  BY <1>1
<1>3. Given = [i \in 1..Len(emitted) |-> <<emitted[i].key, emitted[i].start>>]
  BY <1>2 DEF Given
<1>4. DOMAIN Given = 1..Len(emitted) /\ Given \in Seq({Given[i] : i \in 1..Len(emitted)})
  BY <1>2, <1>3
<1>5. Len(Given) = Len(emitted)
  BY <1>2, <1>4
<1>6. /\ Len(Answer) = Cardinality(AnswerKeys) /\ Len(Answer) \in Nat
      /\ DOMAIN Answer = 1..Len(Answer)
  BY <1>1, AnswerAt
<1>7. \A i \in 1..Len(emitted) : i \in 1..Len(Answer) /\ Given[i] = Answer[i]
  <2>1. SUFFICES ASSUME NEW i \in 1..Len(emitted)
                 PROVE  i \in 1..Len(Answer) /\ Given[i] = Answer[i]
    OBVIOUS
  <2>2. PICK k \in AnswerKeys :
          /\ k = KeyOf(i) /\ emitted[i].start = StartOf(k)
          /\ Cardinality({j \in AnswerKeys : j < k}) = i - 1
    BY <1>1, <1>2 DEF Begun
  <2>3. i \in Nat
    BY <1>2
  <2>4. i \in 1..Cardinality(AnswerKeys) /\ Answer[i] = <<k, StartOf(k)>>
    BY <1>1, <2>2, <2>3, AnswerAt
  <2>5. QED
    BY <1>3, <1>6, <2>2, <2>4 DEF KeyOf
<1>8. Len(emitted) <= Len(Answer)
  <2>1. SUFFICES ASSUME Len(emitted) > Len(Answer) PROVE FALSE
    BY <1>2, <1>6
  <2>2. Len(emitted) \in 1..Len(emitted)
    BY <1>2, <1>6, <2>1
  <2>3. QED
    BY <1>6, <1>7, <2>1, <2>2
<1>9. QED
  BY <1>2, <1>4, <1>5, <1>6, <1>7, <1>8 DEF GivenBegins

LEMMA GivenStaysPrefix == FeedInv' => GivenBegins'
BY GivenIsPrefix, PTL

(* The key of an occurrence is given only as one of the answer's; when     *)
(* nothing is pending inside the window, all of the answer has been given  *)
(* (RecurrenceSearch::advance).                                            *)
LEMMA CompleteIsAll ==
  ASSUME FeedInv, Merging, outcome # "OccurrencesSpent",
         \A o \in offered \cup rdates : Generation.end <= o
  PROVE  Given = Answer
<1>1. /\ input \in Inputs /\ window \in Windows /\ Begun /\ offered \subseteq Int /\ Controlled
  BY DEF FeedInv, SearchInv, Shaped, Controlled
<1>2. PICK X \in SUBSET Admitted : Counted(X) /\ Covered(X)
  BY DEF FeedInv
<1>3. /\ AnswerKeys \subseteq Nat /\ Generation.end \in Int /\ RuleKeys \subseteq Admitted
      /\ \A k \in AnswerKeys : k < Generation.end
  BY <1>1, AnswerIsAhead, InstancesAreInstants
<1>4. ASSUME NEW k \in AnswerKeys PROVE k \in EmittedKeys
  <2>1. k \in EmittedKeys \cup offered \cup rdates \cup (RuleKeys \ X)
    BY <1>2 DEF Covered
  <2>2. k \in Nat /\ k < Generation.end
    BY <1>3
  <2>3. k \notin offered \cup rdates
    BY <1>3, <2>2
  <2>4. k \notin RuleKeys \ X
    <3>1. SUFFICES ASSUME k \in RuleKeys, k \notin X PROVE FALSE
      OBVIOUS
    <3>2. CASE streamDone
      BY <1>2, <1>3, <2>2, <3>1, <3>2 DEF Counted
    <3>3. CASE ~streamDone
      <4>1. PICK o \in offered : o \in Int /\ Generation.end <= o
        BY <1>1, <3>3 DEF Merging
      <4>2. o < k
        BY <1>2, <1>3, <3>1, <4>1 DEF Counted
      <4>3. QED
        BY <1>3, <2>2, <4>1, <4>2
    <3>4. QED
      BY <3>2, <3>3
  <2>5. QED
    BY <2>1, <2>3, <2>4
<1>5. EmittedKeys = AnswerKeys
  <2>1. EmittedKeys \subseteq AnswerKeys
    BY <1>1 DEF Begun, EmittedKeys
  <2>2. QED
    BY <1>4, <2>1
<1>6. Len(emitted) = Len(Answer)
  BY <1>1, <1>5, GivenIsPrefix DEF Begun, GivenBegins
<1>7. /\ Given = [i \in 1..Len(emitted) |-> Given[i]]
      /\ Answer = [i \in 1..Len(emitted) |-> Answer[i]]
      /\ \A i \in 1..Len(emitted) : Given[i] = Answer[i]
  BY <1>6, GivenIsPrefix DEF Given, Answer, GivenBegins
<1>8. QED
  BY <1>7

(* How a search has ended, as OccurrenceFeed says it.                      *)
Phase ==
  IF ~finished THEN "no"
  ELSE IF outcome \in {"CandidatesSpent", "OccurrencesSpent"} THEN "exhausted" ELSE "complete"

LEMMA StepImplements ==
  ASSUME FeedInv, [Next]_vars
  PROVE  [Feed!FeedNext]_(Feed!feedVars)
<1>1. /\ Controlled /\ Claims /\ SearchInv /\ Remembered /\ Begun
  BY DEF FeedInv
<1>2. Answer' = Answer
  <2>1. UNCHANGED AnswerKeys /\ \A k : StartOf(k)' = StartOf(k)
    BY AskedIsFixed, AnswerIsFixed
  <2>2. QED
    BY <2>1 DEF Answer
<1>3. ASSUME UNCHANGED emitted PROVE Given' = Given
  BY <1>3 DEF Given
<1>4. ASSUME UNCHANGED <<emitted, Phase>> PROVE [Feed!FeedNext]_(Feed!feedVars)
  BY <1>2, <1>3, <1>4 DEF Feed!feedVars, Phase
<1>5. ASSUME UNCHANGED emitted, Phase = "no", Phase' = "exhausted"
      PROVE  [Feed!FeedNext]_(Feed!feedVars)
  <2>1. Feed!GiveUp
    BY <1>2, <1>3, <1>5 DEF Feed!GiveUp, Phase
  <2>2. QED
    BY <2>1 DEF Feed!FeedNext
<1>6. CASE Resume
  <2>1. UNCHANGED emitted /\ Phase' = "no"
    BY <1>6 DEF Resume, Phase
  <2>2. Feed!Resume
    BY <1>2, <1>3, <2>1 DEF Feed!Resume, Phase
  <2>3. QED
    BY <2>2 DEF Feed!FeedNext
<1>7. CASE CallNext \/ UNCHANGED vars
  <2>1. UNCHANGED <<emitted, finished, outcome>>
    BY <1>7 DEF CallNext, vars
  <2>2. QED
    BY <1>4, <2>1 DEF Phase
<1>8. CASE NextKey
  <2>1. CASE ExhaustPeriod
    <3>1. UNCHANGED emitted /\ ~finished /\ finished' /\ outcome' = "CandidatesSpent"
      BY <1>1, <2>1 DEF ExhaustPeriod, Walks, Opening, Filling, Controlled
    <3>2. QED
      BY <1>5, <3>1 DEF Phase
  <2>2. CASE ~ExhaustPeriod
    <3>1. UNCHANGED <<emitted, finished>> /\ ~finished
      BY <1>1, <1>8, <2>2 DEF NextKey, PassOver, EndRule, LeaveWindow, Offer, EndWalk,
        PeriodPastWindow, ExpandPeriod, StreamStops, Weighing, Walks, Opening, Filling, Controlled
    <3>2. QED
      BY <1>4, <3>1 DEF Phase
  <2>3. QED
    BY <2>1, <2>2
<1>9. CASE Retry
  <2>1. UNCHANGED <<emitted, finished, outcome>>
    BY <1>9 DEF Retry
  <2>2. QED
    BY <1>4, <2>1 DEF Phase
<1>10. CASE Refuse
  <2>1. UNCHANGED emitted /\ ~finished /\ finished' /\ outcome' = "OccurrencesSpent"
    BY <1>1, <1>10 DEF Refuse, Delivers, Merges, Merging, Controlled
  <2>2. QED
    BY <1>5, <2>1 DEF Phase
<1>11. CASE Drained \/ StopAtWindow
  <2>1. /\ UNCHANGED emitted /\ calling /\ ~finished /\ finished' /\ Merging
        /\ outcome \notin {"OccurrencesSpent", "CandidatesSpent"}
        /\ outcome' \in {outcome, "WindowEnded"}
    BY <1>1, <1>11 DEF Drained, StopAtWindow, Merges, Merging, Controlled
  <2>2. \A o \in offered \cup rdates : Generation.end <= o
    <3>1. CASE Drained
      BY <3>1 DEF Drained
    <3>2. CASE StopAtWindow
      <4>1. PICK key \in offered \cup rdates :
              key >= Generation.end /\ \A o \in offered \cup rdates : key <= o
        BY <3>2 DEF StopAtWindow, Merges
      <4>2. offered \subseteq Int /\ rdates \subseteq Int /\ Generation.end \in Int
        BY <1>1, AnswerIsAhead DEF SearchInv, Shaped, Controlled
      <4>3. QED
        BY <4>1, <4>2
    <3>3. QED
      BY <1>11, <3>1, <3>2
  <2>3. Given = Answer
    BY <2>1, <2>2, CompleteIsAll
  <2>4. Phase = "no" /\ Phase' = "complete"
    BY <2>1 DEF Phase
  <2>5. Feed!Finish
    BY <1>2, <1>3, <2>1, <2>3, <2>4 DEF Feed!Finish, Phase
  <2>6. QED
    BY <2>5 DEF Feed!FeedNext
<1>12. CASE Deliver
  <2>1. ~finished /\ finished' = finished
    BY <1>1, <1>12 DEF Deliver, Delivers, Merges, Merging, Controlled
  <2>2. FeedInv'
    BY FeedStep
  <2> DEFINE n == Len(emitted)
  <2>3. /\ n \in Nat /\ Len(Given) = n /\ DOMAIN Given = 1..n
        /\ Given \in Seq({Given[i] : i \in 1..n})
        /\ \A i \in 1..n : Given[i] = Answer[i]
    BY GivenIsPrefix DEF GivenBegins
  <2>4. /\ DOMAIN Given' = 1..Len(emitted') /\ Len(emitted') <= Len(Answer')
        /\ \A i \in 1..Len(emitted') : Given'[i] = Answer'[i]
        /\ Len(Answer') \in Nat
    BY <2>2, GivenStaysPrefix DEF GivenBegins
  <2>5. Len(emitted') = n + 1
    <3>1. \E S : emitted \in Seq(S)
      BY <1>1 DEF SearchInv, Shaped
    <3>2. QED
      BY <1>12, <3>1 DEF Deliver
  <2>6. Given' = Append(Given, Answer[n + 1])
    <3>1. Given' = [i \in 1..(n + 1) |-> Given'[i]]
      BY <2>4, <2>5 DEF Given
    <3>2. /\ DOMAIN Append(Given, Answer[n + 1]) = 1..(n + 1)
          /\ \A i \in 1..n : Append(Given, Answer[n + 1])[i] = Given[i]
          /\ Append(Given, Answer[n + 1])[n + 1] = Answer[n + 1]
      <4>1. \E S : Given \in Seq(S)
        BY <2>3
      <4>2. QED
        BY <2>3, <4>1, AppendKeeps
    <3>3. \A i \in 1..(n + 1) : Given'[i] = Append(Given, Answer[n + 1])[i]
      BY <1>2, <2>3, <2>4, <2>5, <3>2
    <3>4. Append(Given, Answer[n + 1]) = [i \in 1..(n + 1) |-> Append(Given, Answer[n + 1])[i]]
      <4>1. \E S : Append(Given, Answer[n + 1]) \in Seq(S)
        BY <2>3, AppendKeeps
      <4>2. QED
        BY <3>2, <4>1
    <3>5. QED
      BY <3>1, <3>3, <3>4
  <2>7. Feed!Emit
    <3>1. Len(Given) < Len(Answer)
      BY <1>2, <2>3, <2>4, <2>5
    <3>2. Phase = "no" /\ Phase' = "no"
      BY <2>1 DEF Phase
    <3>3. QED
      BY <1>2, <2>3, <2>6, <3>1, <3>2 DEF Feed!Emit, Phase
  <2>8. QED
    BY <2>7 DEF Feed!FeedNext
<1>13. QED
  BY <1>6, <1>7, <1>8, <1>9, <1>10, <1>11, <1>12 DEF Next, Advance

(* Merged, excluded, moved, limited, cut off by a budget and resumed, the  *)
(* search hands over the occurrences of the series that belong to the      *)
(* window, each once and in order, and claims to be complete only when it  *)
(* has handed over all of them.                                            *)
THEOREM ImplementsOccurrenceFeedHolds == Claims /\ Spec => ImplementsOccurrenceFeed
<1>1. Init => Feed!FeedInit
  <2>1. SUFFICES ASSUME Init PROVE Feed!FeedInit
    OBVIOUS
  <2>2. emitted = << >> /\ finished = FALSE
    BY <2>1 DEF Init, Start
  <2>3. Given = << >>
    BY <2>2 DEF Given
  <2>4. QED
    BY <2>2, <2>3 DEF Feed!FeedInit
<1>2. FeedInv /\ [Next]_vars => [Feed!FeedNext]_(Feed!feedVars)
  BY StepImplements
<1>3. QED
  BY <1>1, <1>2, FeedInvHolds, PTL DEF Spec, ImplementsOccurrenceFeed, Feed!FeedSpec
=============================================================================
