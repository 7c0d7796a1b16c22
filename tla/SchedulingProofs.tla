--------------------------- MODULE SchedulingProofs ---------------------------
(***************************************************************************)
(* Proofs about Scheduling, for any mail and any number of deliveries: the  *)
(* calendar stays in order, attendees write their own line, a newer         *)
(* invitation is taken whole, nothing else is touched, neither what the     *)
(* organizer says of a newer version nor a newer answer is refused, and the *)
(* record of versions and answers is an AnswerBook.  They rest on how a     *)
(* list of changes is written (RestatementLands, EditInPlace,               *)
(* OneLineWritten), on what each review lets through (AttendeeChanges,      *)
(* ReviewFindsComponents) and on the order of the two phases of a write     *)
(* (AppliedInPhases).                                                       *)
(*                                                                         *)
(* OrderlyStart and DistinctPayloads are assumed throughout: the review     *)
(* compares a message with the calendar, not its payloads with each other.  *)
(***************************************************************************)
EXTENDS SchedulingProperties, TLAPS, FiniteSetTheorems, FunctionTheorems

-------------------------------------------------------------------------------
(* Writing a transition                                                     *)

(* What a line of each name is.                                             *)
LineOf ==
  [ATTENDEE |-> AttendeeLine, DTSTAMP |-> Nat, DTSTART |-> Nat, RECURRENCE_ID |-> InstanceRef,
   RRULE |-> Nat \ {0}, SEQUENCE |-> Int, STATUS |-> StatusText]

(* A component is the lines it has under each name.                         *)
LEMMA ComponentIsLines ==
  ASSUME NEW c
  PROVE  c \in Component <=> /\ c = [name \in Name |-> c[name]]
                             /\ \A name \in Name : c[name] \in Seq(LineOf[name])
<1>1. ASSUME c \in Component
      PROVE  /\ c = [name \in Name |-> c[name]]
             /\ \A name \in Name : c[name] \in Seq(LineOf[name])
  BY <1>1 DEF Component, Name, LineOf
<1>2. ASSUME c = [name \in Name |-> c[name]],
             \A name \in Name : c[name] \in Seq(LineOf[name])
      PROVE  c \in Component
  <2>1. /\ c["ATTENDEE"] \in Seq(AttendeeLine) /\ c["DTSTAMP"] \in Seq(Nat)
        /\ c["DTSTART"] \in Seq(Nat) /\ c["RECURRENCE_ID"] \in Seq(InstanceRef)
        /\ c["RRULE"] \in Seq(Nat \ {0}) /\ c["SEQUENCE"] \in Seq(Int)
        /\ c["STATUS"] \in Seq(StatusText)
    BY <1>2 DEF Name, LineOf
  <2>2. QED
    BY <1>2, <2>1 DEF Name, Component
<1>3. QED
  BY <1>1, <1>2

(* The changes of a restatement, kind by kind.                              *)
LEMMA RestatementParts ==
  ASSUME NEW S, NEW offered \in Seq(S), NEW held \in Seq(S)
  PROVE  /\ Of(Restated(offered, held), "add")
              = {Change(i, "add", offered[i]) : i \in (Len(held) + 1)..Len(offered)}
         /\ Of(Restated(offered, held), "remove")
              = {Change(i, "remove", Nothing) : i \in (Len(offered) + 1)..Len(held)}
         /\ \A change \in Restated(offered, held) :
              /\ change.index \in Nat \ {0}
              /\ change.kind \in {"replace", "add"} =>
                   change.index \in 1..Len(offered) /\ change.line = offered[change.index]
              /\ change.kind = "replace" => change.index \in 1..Len(held)
              /\ change.kind = "add" => change.index > Len(held)
              /\ change.kind \in {"replace", "add", "remove"}
         /\ \A i \in 1..Len(offered) : i \in 1..Len(held) /\ offered[i] # held[i] =>
              Change(i, "replace", offered[i]) \in Restated(offered, held)
<1>1. DOMAIN offered = 1..Len(offered) /\ DOMAIN held = 1..Len(held)
      /\ Len(offered) \in Nat /\ Len(held) \in Nat
  OBVIOUS
<1>2. /\ DOMAIN offered \ DOMAIN held = (Len(held) + 1)..Len(offered)
      /\ DOMAIN held \ DOMAIN offered = (Len(offered) + 1)..Len(held)
  BY <1>1
<1>3. \A i, kind, line : /\ Change(i, kind, line).index = i
                         /\ Change(i, kind, line).kind = kind
                         /\ Change(i, kind, line).line = line
  BY DEF Change
<1>4. Of(Restated(offered, held), "add")
              = {Change(i, "add", offered[i]) : i \in DOMAIN offered \ DOMAIN held}
  BY <1>3 DEF Of, Restated
<1>5. Of(Restated(offered, held), "remove")
              = {Change(i, "remove", Nothing) : i \in DOMAIN held \ DOMAIN offered}
  BY <1>3 DEF Of, Restated
<1>6. \A change \in Restated(offered, held) :
              /\ change.index \in Nat \ {0}
              /\ change.kind \in {"replace", "add"} =>
                   change.index \in 1..Len(offered) /\ change.line = offered[change.index]
              /\ change.kind = "replace" => change.index \in 1..Len(held)
              /\ change.kind = "add" => change.index > Len(held)
              /\ change.kind \in {"replace", "add", "remove"}
  BY <1>1, <1>3 DEF Restated
<1>7. \A i \in 1..Len(offered) : i \in 1..Len(held) /\ offered[i] # held[i] =>
              Change(i, "replace", offered[i]) \in Restated(offered, held)
  BY <1>1 DEF Restated
<1>8. QED
  BY <1>2, <1>4, <1>5, <1>6, <1>7

(* As many changes as positions, and the first of them at the first.        *)
LEMMA NumberedChanges ==
  ASSUME NEW a \in Nat, NEW b \in Nat, NEW changes,
         {change.index : change \in changes} = a..b,
         \A one, other \in changes : one.index = other.index => one = other
  PROVE  /\ IsFiniteSet(changes)
         /\ Cardinality(changes) = IF a > b THEN 0 ELSE b - a + 1
         /\ changes # {} <=> a <= b
         /\ a <= b => First(changes) = a
<1> DEFINE f == [change \in changes |-> change.index]
<1>1. f \in Bijection(changes, a..b)
  <2>1. f \in [changes -> a..b]
    OBVIOUS
  <2>2. \A one, other \in changes : f[one] = f[other] => one = other
    OBVIOUS
  <2>3. \A i \in a..b : \E change \in changes : f[change] = i
    OBVIOUS
  <2> HIDE DEF f
  <2>4. f \in Injection(changes, a..b)
    BY <2>1, <2>2 DEF Injection, IsInjective
  <2>5. f \in Surjection(changes, a..b)
    BY <2>1, <2>3 DEF Surjection
  <2>6. QED
    BY <2>4, <2>5 DEF Bijection
<1>2. ExistsBijection(a..b, changes)
  BY <1>1, Fun_ExistsBijSymmetric DEF ExistsBijection
<1>3. IsFiniteSet(changes) /\ Cardinality(changes) = Cardinality(a..b)
  BY <1>2, FS_Bijection, FS_Interval
<1>4. Cardinality(a..b) = IF a > b THEN 0 ELSE b - a + 1
  BY FS_Interval
<1>5. changes # {} <=> a <= b
  OBVIOUS
<1>6. ASSUME a <= b PROVE First(changes) = a
  <2>1. First(changes) = CHOOSE i \in a..b : \A j \in a..b : i <= j
    <3>1. a..b # {}
      BY <1>6
    <3>2. QED
      BY <3>1, Zenon DEF First
  <2>2. a \in a..b /\ \A j \in a..b : a <= j
    BY <1>6
  <2>3. \A i \in a..b : (\A j \in a..b : i <= j) => i = a
    BY <2>2
  <2>4. QED
    BY <2>1, <2>2, <2>3
<1>7. QED
  BY <1>3, <1>4, <1>5, <1>6

(* The additions and the removals of a restatement are those of an interval *)
(* of positions each, behind what both sides have.                          *)
LEMMA RestatementCounts ==
  ASSUME NEW S, NEW offered \in Seq(S), NEW held \in Seq(S),
         NEW changes, changes = Restated(offered, held)
  PROVE  LET o == Len(offered)
             h == Len(held)
             adds == Of(changes, "add")
             gone == Of(changes, "remove")
         IN  /\ o \in Nat /\ h \in Nat
             /\ adds # {} <=> h < o
             /\ adds # {} => First(adds) = h + 1
             /\ Cardinality(adds) = IF h < o THEN o - h ELSE 0
             /\ gone # {} <=> o < h
             /\ gone # {} => First(gone) = o + 1
             /\ Cardinality(gone) = IF o < h THEN h - o ELSE 0
<1> DEFINE o == Len(offered)
           h == Len(held)
           adds == Of(changes, "add")
           gone == Of(changes, "remove")
<1>1. o \in Nat /\ h \in Nat
  OBVIOUS
<1>2. /\ adds = {Change(i, "add", offered[i]) : i \in (h + 1)..o}
      /\ gone = {Change(i, "remove", Nothing) : i \in (o + 1)..h}
  BY RestatementParts
<1>3. \A i, kind, line : Change(i, kind, line).index = i
  BY DEF Change
<1>4. /\ {change.index : change \in adds} = (h + 1)..o
      /\ \A one, other \in adds : one.index = other.index => one = other
  BY <1>2, <1>3
<1>5. /\ {change.index : change \in gone} = (o + 1)..h
      /\ \A one, other \in gone : one.index = other.index => one = other
  BY <1>2, <1>3
<1> HIDE DEF o, h, adds, gone
<1>5a. h + 1 \in Nat /\ o + 1 \in Nat
  BY <1>1
<1>6. /\ Cardinality(adds) = IF h + 1 > o THEN 0 ELSE o - (h + 1) + 1
      /\ adds # {} <=> h + 1 <= o
      /\ h + 1 <= o => First(adds) = h + 1
  BY <1>1, <1>4, <1>5a, NumberedChanges, Zenon
<1>7. /\ Cardinality(gone) = IF o + 1 > h THEN 0 ELSE h - (o + 1) + 1
      /\ gone # {} <=> o + 1 <= h
      /\ o + 1 <= h => First(gone) = o + 1
  BY <1>1, <1>5, <1>5a, NumberedChanges, Zenon
<1>8. /\ o \in Nat /\ h \in Nat
      /\ adds # {} <=> h < o
      /\ adds # {} => First(adds) = h + 1
      /\ Cardinality(adds) = IF h < o THEN o - h ELSE 0
      /\ gone # {} <=> o < h
      /\ gone # {} => First(gone) = o + 1
      /\ Cardinality(gone) = IF o < h THEN h - o ELSE 0
  BY <1>1, <1>6, <1>7
<1>9. QED
  BY <1>8 DEF o, h, adds, gone

(* The change of a restatement at one position, if it writes a line there.  *)
LEMMA RestatementEdit ==
  ASSUME NEW S, NEW offered \in Seq(S), NEW held \in Seq(S),
         NEW changes, changes = Restated(offered, held),
         NEW i, \E change \in changes \ Of(changes, "remove") : change.index = i
  PROVE  LET edit == CHOOSE change \in changes \ Of(changes, "remove") : change.index = i
         IN  /\ i \in 1..Len(offered)
             /\ edit.line = offered[i]
             /\ edit.kind # "parameters"
<1> DEFINE edit == CHOOSE change \in changes \ Of(changes, "remove") : change.index = i
<1>1. edit \in changes /\ edit \notin Of(changes, "remove") /\ edit.index = i
  OBVIOUS
<1>2. edit.kind # "remove"
  BY <1>1 DEF Of
<1>3. \A change \in changes :
              /\ change.kind \in {"replace", "add"} =>
                   change.index \in 1..Len(offered) /\ change.line = offered[change.index]
              /\ change.kind \in {"replace", "add", "remove"}
  BY RestatementParts
<1> HIDE DEF edit
<1>4. edit.kind \in {"replace", "add"}
  BY <1>1, <1>2, <1>3
<1>5. i \in 1..Len(offered) /\ edit.line = offered[i] /\ edit.kind # "parameters"
  BY <1>1, <1>3, <1>4
<1>6. QED
  BY <1>5 DEF edit

LEMMA OneLine ==
  ASSUME NEW S, NEW list \in Seq(S), Len(list) = 1
  PROVE  list # << >> /\ list[1] \in S /\ DOMAIN list = {1}
<1>1. DOMAIN list = 1..Len(list) /\ 1..1 = {1}
  OBVIOUS
<1>2. DOMAIN list = {1}
  BY <1>1
<1>3. list # << >>
  BY <1>2
<1>4. QED
  BY <1>2, <1>3

(* A list of n entries.                                                     *)
ListsUpTo(list, n) == DOMAIN list = 1..n /\ list = [i \in 1..n |-> list[i]]

(* The position that comes to stand at i when positions are removed.        *)
KeptAt(i, first, removed) ==
  CASE removed = 0 \/ i < first -> i
    [] removed > 0 /\ i >= first /\ i < first + removed -> 2 * i - first + 1
    [] removed > 0 /\ i >= first + removed -> i + removed

LEMMA PositionsKept ==
  ASSUME NEW l \in Nat, NEW first \in Nat \ {0}, NEW removed \in Nat \ {0},
         first + 2 * (removed - 1) <= l, NEW i \in 1..(l - removed)
  PROVE  KeptAt(i, first, removed) \in 1..l /\ (i < first => KeptAt(i, first, removed) = i)
<1>1. CASE i < first
  <2>1. KeptAt(i, first, removed) = i
    BY <1>1 DEF KeptAt
  <2>2. QED
    BY <1>1, <2>1
<1>2. CASE i >= first /\ i < first + removed
  <2>1. KeptAt(i, first, removed) = 2 * i - first + 1
    BY <1>2 DEF KeptAt
  <2>2. QED
    BY <1>2, <2>1
<1>3. CASE i >= first + removed
  <2>1. KeptAt(i, first, removed) = i + removed
    BY <1>3 DEF KeptAt
  <2>2. QED
    BY <1>3, <2>1
<1>4. QED
  BY <1>1, <1>2, <1>3

(* What is written for a restatement, position by position: every position  *)
(* of the result comes from the restatement or from a line there was.       *)
Restating(result, offered, held, lines, n) ==
  /\ ListsUpTo(result, n)
  /\ Len(held) < Len(offered) => Len(lines) = Len(held) /\ n = Len(offered)
  /\ Len(held) >= Len(offered) => n <= Len(lines)
  /\ lines = held => n = Len(offered)
  /\ \A i \in 1..n :
       /\ \/ \E j \in 1..Len(offered) : result[i] = offered[j]
          \/ \E j \in 1..Len(lines) : result[i] = lines[j]
       /\ lines = held => result[i] = offered[i]

LEMMA RestatementLines ==
  ASSUME NEW S, NEW offered \in Seq(S), NEW held \in Seq(S), NEW lines \in Seq(S),
         NEW changes, changes = Restated(offered, held), Writable(lines, changes)
  PROVE  \E n \in Nat : Restating(WriteLines(lines, changes), offered, held, lines, n)
<1> DEFINE o == Len(offered)
           h == Len(held)
           l == Len(lines)
           adds == Of(changes, "add")
           gone == Of(changes, "remove")
           removed == Cardinality(gone)
           n == l + Cardinality(adds) - removed
           kept(i) == KeptAt(i, First(gone), removed)
           edit(p) == CHOOSE change \in changes \ gone : change.index = p
           line(p) == CASE \A change \in changes \ gone : change.index # p -> lines[p]
                        [] \E change \in changes \ gone : change.index = p ->
                             IF edit(p).kind = "parameters" THEN SetParameters(lines[p], edit(p).line)
                             ELSE edit(p).line
           result == WriteLines(lines, changes)
<1>1. result = [i \in 1..n |-> line(kept(i))]
  BY DEF WriteLines, KeptAt
<1>2. /\ o \in Nat /\ h \in Nat /\ l \in Nat
      /\ adds # {} <=> h < o
      /\ adds # {} => First(adds) = h + 1
      /\ Cardinality(adds) = IF h < o THEN o - h ELSE 0
      /\ gone # {} <=> o < h
      /\ gone # {} => First(gone) = o + 1
      /\ removed = IF o < h THEN h - o ELSE 0
  BY RestatementCounts
<1>3. /\ adds # {} => First(adds) = l + 1
      /\ gone # {} => First(gone) + 2 * (removed - 1) <= l
  BY DEF Writable
<1>4. \A p : (\E change \in changes \ gone : change.index = p) =>
               p \in 1..o /\ line(p) = offered[p]
  <2>1. SUFFICES ASSUME NEW p, \E change \in changes \ gone : change.index = p
                 PROVE  p \in 1..o /\ line(p) = offered[p]
    OBVIOUS
  <2>2. p \in 1..o /\ edit(p).line = offered[p] /\ edit(p).kind # "parameters"
    BY <2>1, RestatementEdit
  <2>3. line(p) = IF edit(p).kind = "parameters" THEN SetParameters(lines[p], edit(p).line)
                  ELSE edit(p).line
    BY <2>1
  <2>4. QED
    BY <2>2, <2>3
<1>5. \A p : ~(\E change \in changes \ gone : change.index = p) => line(p) = lines[p]
  OBVIOUS
<1>6. \A p \in (h + 1)..o : \E change \in changes \ gone : change.index = p
  <2>1. SUFFICES ASSUME NEW p \in (h + 1)..o
                 PROVE  \E change \in changes \ gone : change.index = p
    OBVIOUS
  <2>2. Change(p, "add", offered[p]) \in adds
    BY RestatementParts
  <2>3. Change(p, "add", offered[p]).kind = "add" /\ Change(p, "add", offered[p]).index = p
    BY DEF Change
  <2>4. QED
    BY <2>2, <2>3 DEF Of
<1>7. \A p \in 1..o : p \in 1..h /\ offered[p] # held[p] =>
        \E change \in changes \ gone : change.index = p
  <2>1. SUFFICES ASSUME NEW p \in 1..o, p \in 1..h, offered[p] # held[p]
                 PROVE  \E change \in changes \ gone : change.index = p
    OBVIOUS
  <2>2. Change(p, "replace", offered[p]) \in changes
    BY <2>1, RestatementParts
  <2>3. Change(p, "replace", offered[p]).kind = "replace" /\ Change(p, "replace", offered[p]).index = p
    BY DEF Change
  <2>4. QED
    BY <2>2, <2>3 DEF Of
<1> HIDE DEF o, h, l, adds, gone, removed, line, result
<1>8. /\ n \in Nat
      /\ h < o => l = h /\ n = o
      /\ h >= o => n <= l
      /\ lines = held => n = o
  <2>1. lines = held => l = h
    BY DEF l, h
  <2>2. CASE o < h
    <3>1. /\ First(gone) = o + 1 /\ removed = h - o /\ Cardinality(adds) = 0
          /\ o + 1 + 2 * (removed - 1) <= l
      BY <1>2, <1>3, <2>2
    <3>2. QED
      BY <1>2, <2>1, <2>2, <3>1
  <2>3. CASE ~(o < h)
    <3>1. /\ removed = 0 /\ Cardinality(adds) = IF h < o THEN o - h ELSE 0
          /\ h < o => l = h
      BY <1>2, <1>3, <2>3
    <3>2. QED
      BY <1>2, <2>1, <2>3, <3>1
  <2>4. QED
    BY <2>2, <2>3
<1>9. \A i \in 1..n : kept(i) \in Nat \ {0} /\ (kept(i) <= l \/ kept(i) \in (h + 1)..o)
  <2>1. SUFFICES ASSUME NEW i \in 1..n
                 PROVE  kept(i) \in Nat \ {0} /\ (kept(i) <= l \/ kept(i) \in (h + 1)..o)
    OBVIOUS
  <2>2. CASE o < h
    <3>1. /\ First(gone) \in Nat \ {0} /\ removed \in Nat \ {0}
          /\ First(gone) + 2 * (removed - 1) <= l /\ n = l - removed
      BY <1>2, <1>3, <2>2
    <3>2. kept(i) \in 1..l
      BY <1>2, <3>1, PositionsKept
    <3> HIDE DEF kept, n
    <3>3. QED
      BY <1>2, <3>2
  <2>3. CASE ~(o < h)
    <3>1. removed = 0 /\ (h < o => l = h /\ n = o) /\ (h >= o => n <= l)
      BY <1>2, <1>8, <2>3
    <3>2. kept(i) = i
      BY <3>1 DEF KeptAt
    <3>3. QED
      BY <1>2, <1>8, <3>1, <3>2
  <2>4. QED
    BY <2>2, <2>3
<1>10. ASSUME lines = held, NEW i \in 1..n PROVE kept(i) = i
  <2>1. CASE o < h
    <3>1. /\ First(gone) \in Nat \ {0} /\ removed \in Nat \ {0}
          /\ First(gone) + 2 * (removed - 1) <= l /\ n = l - removed
      BY <1>2, <1>3, <2>1
    <3>2. First(gone) = o + 1 /\ n = o /\ i < First(gone)
      BY <1>2, <1>8, <1>10, <2>1
    <3>3. QED
      BY <1>2, <3>1, <3>2, PositionsKept
  <2>2. CASE ~(o < h)
    <3>1. removed = 0
      BY <1>2, <2>2
    <3>2. QED
      BY <3>1 DEF KeptAt
  <2>3. QED
    BY <2>1, <2>2
<1> HIDE DEF n, kept
<1>11. ASSUME NEW i \in 1..n
       PROVE  /\ \/ \E j \in 1..o : result[i] = offered[j]
                 \/ \E j \in 1..l : result[i] = lines[j]
              /\ lines = held => result[i] = offered[i]
  <2>1. result[i] = line(kept(i)) /\ kept(i) \in Nat \ {0}
        /\ (kept(i) <= l \/ kept(i) \in (h + 1)..o)
    BY <1>1, <1>9
  <2>2. CASE \E change \in changes \ gone : change.index = kept(i)
    <3>1. kept(i) \in 1..o /\ result[i] = offered[kept(i)]
      BY <1>4, <2>1, <2>2
    <3>2. QED
      BY <1>10, <3>1
  <2>3. CASE ~(\E change \in changes \ gone : change.index = kept(i))
    <3>1. result[i] = lines[kept(i)] /\ kept(i) \in 1..l
      <4>1. kept(i) \notin (h + 1)..o
        BY <1>6, <2>3
      <4>2. result[i] = lines[kept(i)]
        BY <1>5, <2>1, <2>3
      <4>3. QED
        BY <1>2, <2>1, <4>1, <4>2
    <3>2. ASSUME lines = held PROVE result[i] = offered[i]
      <4>1. i \in 1..h /\ kept(i) = i /\ i \in 1..o
        BY <1>8, <1>10, <3>1, <3>2 DEF l, h
      <4>2. offered[i] = held[i]
        BY <1>7, <2>3, <4>1
      <4>3. QED
        BY <3>1, <3>2, <4>1, <4>2
    <3>3. QED
      BY <3>1, <3>2
  <2>4. QED
    BY <2>2, <2>3
<1>12. ListsUpTo(result, n)
  BY <1>1 DEF ListsUpTo
<1>13. QED
  BY <1>8, <1>11, <1>12 DEF o, h, l, result, Restating

(* Written onto the lines it was described against, a restatement that can  *)
(* be written leaves the lines it states: nothing of the old ones, nothing  *)
(* twice, nothing out of order.                                             *)
LEMMA RestatementLands ==
  ASSUME NEW S, NEW offered \in Seq(S), NEW held \in Seq(S),
         Writable(held, Restated(offered, held))
  PROVE  WriteLines(held, Restated(offered, held)) = offered
<1> DEFINE result == WriteLines(held, Restated(offered, held))
<1>1. \E n \in Nat : /\ ListsUpTo(result, n)
                     /\ n = Len(offered)
                     /\ \A i \in 1..n : result[i] = offered[i]
  <2>1. \E n \in Nat : Restating(result, offered, held, held, n)
    BY RestatementLines
  <2>2. QED
    BY <2>1 DEF Restating
<1> HIDE DEF result
<1>2. result = [i \in 1..Len(offered) |-> offered[i]]
  BY <1>1 DEF ListsUpTo
<1>3. QED
  BY <1>2 DEF result

(* Written onto any lines, it leaves lines; and no second one where there   *)
(* was none before.                                                         *)
LEMMA RestatementTyped ==
  ASSUME NEW S, NEW offered \in Seq(S), NEW held \in Seq(S), NEW lines \in Seq(S),
         NEW changes, changes = Restated(offered, held), Writable(lines, changes)
  PROVE  LET result == WriteLines(lines, changes)
         IN  /\ result \in Seq(S)
             /\ Len(lines) <= 1 /\ Len(offered) <= 1 => Len(result) <= 1
<1> DEFINE result == WriteLines(lines, changes)
<1>1. PICK n \in Nat : Restating(result, offered, held, lines, n)
  BY RestatementLines
<1> HIDE DEF result
<1>2. \A i \in 1..n : result[i] \in S
  BY <1>1 DEF Restating
<1>3. result \in Seq(S) /\ Len(result) = n
  <2>1. result \in [1..n -> S]
    BY <1>1, <1>2 DEF Restating, ListsUpTo
  <2>2. QED
    BY <2>1
<1>4. Len(lines) <= 1 /\ Len(offered) <= 1 => n <= 1
  BY <1>1 DEF Restating
<1>5. QED
  BY <1>3, <1>4 DEF result

(* A line as one change leaves it.                                          *)
Edited(line, change) ==
  IF change.kind = "parameters" THEN SetParameters(line, change.line) ELSE change.line

(* Every line but that at one position is where it was.                     *)
EditedOnly(result, lines, at, changes) ==
  /\ ListsUpTo(result, Len(lines))
  /\ \A i \in 1..Len(lines) : i # at => result[i] = lines[i]
  /\ changes = {} => result = lines
  /\ changes # {} =>
       /\ at \in 1..Len(lines)
       /\ \E change \in changes : result[at] = Edited(lines[at], change)

(* Changes that neither add nor remove, all of them at one position.        *)
LEMMA EditInPlace ==
  ASSUME NEW S, NEW lines \in Seq(S), NEW at, NEW changes,
         \A change \in changes : change.index = at /\ change.kind \in {"replace", "parameters"},
         Writable(lines, changes)
  PROVE  EditedOnly(WriteLines(lines, changes), lines, at, changes)
<1> DEFINE result == WriteLines(lines, changes)
           gone == Of(changes, "remove")
           adds == Of(changes, "add")
           removed == Cardinality(gone)
           l == Len(lines)
           n == l + Cardinality(adds) - removed
           kept(i) == CASE removed = 0 \/ i < First(gone) -> i
                        [] removed > 0 /\ i >= First(gone) /\ i < First(gone) + removed ->
                             2 * i - First(gone) + 1
                        [] removed > 0 /\ i >= First(gone) + removed -> i + removed
           edit(p) == CHOOSE change \in changes \ gone : change.index = p
           line(p) == CASE \A change \in changes \ gone : change.index # p -> lines[p]
                        [] \E change \in changes \ gone : change.index = p ->
                             IF edit(p).kind = "parameters" THEN SetParameters(lines[p], edit(p).line)
                             ELSE edit(p).line
<1>1. result = [i \in 1..n |-> line(kept(i))]
  BY DEF WriteLines
<1>2. gone = {} /\ adds = {}
  BY DEF Of
<1>3. removed = 0 /\ Cardinality(adds) = 0 /\ l \in Nat
  <2>1. Cardinality({}) = 0
    BY FS_EmptySet
  <2>2. removed = 0 /\ Cardinality(adds) = 0
    <3> HIDE DEF gone, adds
    <3>1. QED
      BY <1>2, <2>1
  <2>3. l \in Nat
    OBVIOUS
  <2>4. QED
    BY <2>2, <2>3
<1>4. n = l /\ \A i : kept(i) = i
  BY <1>3
<1>5. \A p : p # at \/ changes = {} => line(p) = lines[p]
  BY <1>2
<1>6. ASSUME changes # {}
      PROVE  /\ at \in 1..l
             /\ \E change \in changes : line(at) = Edited(lines[at], change)
  <2>1. edit(at) \in changes
    BY <1>2, <1>6
  <2>2. \E change \in changes \ gone : change.index = at
    BY <1>2, <1>6
  <2>3. line(at) = IF edit(at).kind = "parameters"
                   THEN SetParameters(lines[at], edit(at).line) ELSE edit(at).line
    BY <2>2
  <2>4. at \in 1..l
    BY <1>2, <1>6 DEF Writable
  <2>5. QED
    BY <2>1, <2>3, <2>4 DEF Edited
<1> HIDE DEF n, kept, line, l, result
<1>7. result = [i \in 1..l |-> line(i)]
  BY <1>1, <1>4
<1>8. ListsUpTo(result, l)
  BY <1>7 DEF ListsUpTo
<1>9. \A i \in 1..l : i # at => result[i] = lines[i]
  BY <1>5, <1>7
<1>10. changes = {} => result = lines
  <2>1. lines = [i \in 1..l |-> lines[i]]
    BY DEF l
  <2>2. QED
    BY <1>5, <1>7, <2>1
<1>11. changes # {} =>
                  /\ at \in 1..l
                  /\ \E change \in changes : result[at] = Edited(lines[at], change)
  BY <1>6, <1>7
<1>12. QED
  BY <1>8, <1>9, <1>10, <1>11 DEF l, result, EditedOnly

LEMMA EditTyped ==
  ASSUME NEW S, NEW lines \in Seq(S), NEW at, NEW changes,
         \A change \in changes : change.index = at /\ change.kind \in {"replace", "parameters"},
         Writable(lines, changes), \A change \in changes : \A line \in S : Edited(line, change) \in S
  PROVE  WriteLines(lines, changes) \in Seq(S) /\ Len(WriteLines(lines, changes)) = Len(lines)
<1> DEFINE result == WriteLines(lines, changes)
<1>1. /\ ListsUpTo(result, Len(lines))
      /\ \A i \in 1..Len(lines) : i # at => result[i] = lines[i]
      /\ changes = {} => result = lines
      /\ changes # {} =>
           /\ at \in 1..Len(lines)
           /\ \E change \in changes : result[at] = Edited(lines[at], change)
  <2>1. EditedOnly(result, lines, at, changes)
    BY EditInPlace
  <2>2. QED
    BY <2>1 DEF EditedOnly
<1> HIDE DEF result
<1>2. ASSUME NEW i \in 1..Len(lines) PROVE result[i] \in S
  BY <1>1
<1>3. result \in [1..Len(lines) -> S] /\ Len(lines) \in Nat
  BY <1>1, <1>2 DEF ListsUpTo
<1>4. QED
  BY <1>3 DEF result

(* The positions of a finite set, counted.                                  *)
LEMMA NthCounts ==
  ASSUME NEW n \in Nat, NEW positions \in SUBSET (1..n)
  PROVE  /\ Cardinality(positions) \in Nat
         /\ \A j \in 1..Cardinality(positions) :
              /\ Nth(positions, j) \in positions
              /\ Cardinality({l \in positions : l <= Nth(positions, j)}) = j
         /\ \A i, j \in 1..Cardinality(positions) :
              i # j => Nth(positions, i) # Nth(positions, j)
         /\ \A k \in positions : \E j \in 1..Cardinality(positions) : Nth(positions, j) = k
<1> DEFINE Upto(k) == {l \in positions : l <= k}
           size == Cardinality(positions)
           rank == [k \in positions |-> Cardinality(Upto(k))]
<1>0. \A k \in positions : k \in Nat
  OBVIOUS
<1>1. IsFiniteSet(positions) /\ size \in Nat
  <2>1. IsFiniteSet(1..n)
    BY FS_Interval
  <2>2. IsFiniteSet(positions)
    BY <2>1, FS_Subset
  <2>3. QED
    BY <2>2, FS_CardinalityType
<1>2. \A k \in positions : /\ IsFiniteSet(Upto(k)) /\ Cardinality(Upto(k)) \in Nat
                           /\ Cardinality(Upto(k)) <= size /\ Cardinality(Upto(k)) # 0
  <2>1. SUFFICES ASSUME NEW k \in positions
                 PROVE  /\ IsFiniteSet(Upto(k)) /\ Cardinality(Upto(k)) \in Nat
                        /\ Cardinality(Upto(k)) <= size /\ Cardinality(Upto(k)) # 0
    OBVIOUS
  <2>2. Upto(k) \in SUBSET positions /\ k \in Upto(k)
    OBVIOUS
  <2> HIDE DEF Upto
  <2>3. IsFiniteSet(Upto(k)) /\ Cardinality(Upto(k)) <= size
    BY <1>1, <2>2, FS_Subset
  <2>4. QED
    BY <2>2, <2>3, FS_EmptySet, FS_CardinalityType
<1>3. \A k, m \in positions : k < m => Cardinality(Upto(k)) < Cardinality(Upto(m))
  <2>1. SUFFICES ASSUME NEW k \in positions, NEW m \in positions, k < m
                 PROVE  Cardinality(Upto(k)) < Cardinality(Upto(m))
    OBVIOUS
  <2>2. Upto(k) \in SUBSET Upto(m) /\ m \in Upto(m) /\ m \notin Upto(k)
    <3>1. k \in Nat /\ m \in Nat /\ m <= m /\ ~(m <= k)
      BY <1>0, <2>1
    <3>2. \A l \in positions : l <= k => l <= m
      BY <1>0, <2>1, <3>1
    <3>3. QED
      BY <3>1, <3>2
  <2> HIDE DEF Upto
  <2>3. /\ Cardinality(Upto(k)) <= Cardinality(Upto(m))
        /\ Cardinality(Upto(m)) # Cardinality(Upto(k))
    BY <1>2, <2>2, FS_Subset
  <2>4. QED
    BY <1>2, <2>3
<1> HIDE DEF Upto, size
<1>4. rank \in Injection(positions, 1..size)
  <2>1. rank \in [positions -> 1..size]
    BY <1>1, <1>2
  <2>2. \A k, m \in positions : rank[k] = rank[m] => k = m
    BY <1>2, <1>3
  <2> HIDE DEF rank
  <2>3. QED
    BY <2>1, <2>2 DEF Injection, IsInjective
<1>5. rank \in Surjection(positions, 1..size)
  <2>1. IsFiniteSet(1..size) /\ Cardinality(1..size) = size
    BY <1>1, FS_Interval
  <2>2. Cardinality(positions) = Cardinality(1..size)
    BY <2>1 DEF size
  <2> HIDE DEF rank
  <2>3. QED
    BY <1>4, <2>1, <2>2, FS_Injection
<1>6. \A j \in 1..size : \E k \in positions : Cardinality(Upto(k)) = j
  BY <1>5 DEF Surjection
<1>7. \A j \in 1..size : Nth(positions, j) \in positions /\ Cardinality(Upto(Nth(positions, j))) = j
  BY <1>6 DEF Nth, Upto
<1>8. \A k \in positions : \E j \in 1..size : Nth(positions, j) = k
  <2>1. SUFFICES ASSUME NEW k \in positions PROVE \E j \in 1..size : Nth(positions, j) = k
    OBVIOUS
  <2>2. PICK j \in 1..size : j = Cardinality(Upto(k))
    BY <1>1, <1>2
  <2>3. Nth(positions, j) \in positions /\ Cardinality(Upto(Nth(positions, j))) = j
    BY <1>7
  <2>4. Nth(positions, j) = k
    <3>1. PICK p \in positions : p = Nth(positions, j)
      BY <2>3
    <3>2. Cardinality(Upto(p)) = Cardinality(Upto(k)) /\ Cardinality(Upto(k)) \in Nat
      BY <1>2, <2>2, <2>3, <3>1
    <3>3. ~(p < k) /\ ~(k < p)
      BY <1>3, <3>2
    <3>4. p \in Nat /\ k \in Nat
      BY <1>0
    <3>5. QED
      BY <3>1, <3>3, <3>4
  <2>5. QED
    BY <2>4
<1>9. QED
  BY <1>1, <1>7, <1>8 DEF size, Upto

(* The first of some positions is the one no other comes before.            *)
LEMMA FirstPosition ==
  ASSUME NEW n \in Nat, NEW positions \in SUBSET (1..n), positions # {}
  PROVE  \E first \in positions : \A i \in positions : first <= i
<1>1. IsFiniteSet(positions)
  <2>1. IsFiniteSet(1..n)
    BY FS_Interval
  <2>2. QED
    BY <2>1, FS_Subset
<1>2. Cardinality(positions) \in Nat /\ Cardinality(positions) # 0
  BY <1>1, FS_EmptySet, FS_CardinalityType
<1>3. 1 \in 1..Cardinality(positions)
  BY <1>2
<1>4. \E first \in positions : Cardinality({l \in positions : l <= first}) = 1
  BY <1>3, NthCounts
<1>5. PICK first \in positions : Cardinality({l \in positions : l <= first}) = 1
  BY <1>4
<1> DEFINE Upto == {l \in positions : l <= first}
<1>6. IsFiniteSet(Upto) /\ Cardinality(Upto) = 1
  BY <1>1, <1>5, FS_Subset
<1>7. \A i \in positions : i \in Nat
  OBVIOUS
<1>8. first \in Nat /\ first <= first
  BY <1>7
<1>9. first \in Upto
  BY <1>8
<1>10. \E x : Upto = {x}
  <2> HIDE DEF Upto
  <2>1. QED
    BY <1>6, FS_Singleton
<1>11. \A i \in positions : i <= first => i = first
  BY <1>9, <1>10
<1>12. \A i \in positions : first <= i
  <2>1. SUFFICES ASSUME NEW i \in positions PROVE first <= i
    OBVIOUS
  <2>2. i \in Nat /\ first \in Nat
    BY <1>7
  <2>3. QED
    BY <1>11, <2>2
<1>13. QED
  BY <1>12

-------------------------------------------------------------------------------
(* Addresses                                                                *)

Reference == InstanceRef \cup {Nothing}

(* A line that is stated once, or not at all, is what is read of its name.  *)
LEMMA SingleReads ==
  ASSUME NEW component \in Component, AtMostOnce(component), NEW name \in Name \ {"ATTENDEE"}
  PROVE  /\ component[name] \in Seq(LineOf[name])
         /\ component[name] = << >> => Single(component, name) = Nothing
         /\ component[name] # << >> =>
              /\ component[name] = <<component[name][1]>>
              /\ component[name][1] \in LineOf[name]
              /\ Single(component, name) = component[name][1]
<1> DEFINE lines == component[name]
<1>1. lines \in Seq(LineOf[name]) /\ Len(lines) <= 1
  BY ComponentIsLines DEF AtMostOnce
<1>2. Single(component, name) = IF lines # <<>> /\ \A i \in DOMAIN lines : lines[i] = lines[1]
                                THEN lines[1] ELSE Nothing
  BY DEF Single
<1> HIDE DEF lines
<1>3. ASSUME lines # << >>
      PROVE  lines = <<lines[1]>> /\ lines[1] \in LineOf[name] /\ Single(component, name) = lines[1]
  <2>1. Len(lines) \in Nat /\ Len(lines) # 0
    BY <1>1, <1>3
  <2>2. PICK m \in Nat : m = Len(lines)
    BY <2>1
  <2>3. m <= 1 /\ m # 0
    BY <1>1, <2>1, <2>2
  <2>4. Len(lines) = 1
    BY <2>2, <2>3
  <2>5. QED
    BY <1>1, <1>2, <1>3, <2>4
<1>4. QED
  BY <1>1, <1>2, <1>3 DEF lines

LEMMA RecurrenceIdReads ==
  ASSUME NEW component \in Component
  PROVE  /\ RecurrenceId(component) \in Reference
         /\ AtMostOnce(component) =>
              /\ RecurrenceId(component) = Nothing <=> component.RECURRENCE_ID = << >>
              /\ RecurrenceId(component) # Nothing =>
                   component.RECURRENCE_ID = <<RecurrenceId(component)>>
<1>1. component["RECURRENCE_ID"] \in Seq(InstanceRef)
  BY DEF Component
<1>2. RecurrenceId(component) \in Reference
  BY <1>1 DEF RecurrenceId, Single, Reference
<1>3. ASSUME AtMostOnce(component)
      PROVE  /\ RecurrenceId(component) = Nothing <=> component.RECURRENCE_ID = << >>
             /\ RecurrenceId(component) # Nothing =>
                  component.RECURRENCE_ID = <<RecurrenceId(component)>>
  <2>1. "RECURRENCE_ID" \in Name \ {"ATTENDEE"} /\ LineOf["RECURRENCE_ID"] = InstanceRef
    BY DEF Name, LineOf
  <2>2. QED
    BY <1>3, <2>1, SingleReads, NoneAssumption DEF NoneAssumption, RecurrenceId
<1>4. QED
  BY <1>2, <1>3

(* Two addresses that are the same are one reference; what is told apart is *)
(* told apart either way round.                                             *)
LEMMA ComparesReferences ==
  ASSUME NEW one \in Reference, NEW other \in Reference
  PROVE  /\ CompareInstances(one, other) \in {"same", "ambiguous", "different"}
         /\ CompareInstances(one, other) = CompareInstances(other, one)
         /\ CompareInstances(one, other) = "same" =>
              one = other /\ (one = Nothing \/ one.clock = "utc")
         /\ one = other /\ (one = Nothing \/ one.clock = "utc") => CompareInstances(one, other) = "same"
         /\ one = other => CompareInstances(one, other) # "different"
BY NoneAssumption DEF NoneAssumption, Reference, InstanceRef, CompareInstances, Compare

-------------------------------------------------------------------------------
(* The gate                                                                 *)

(* The rows of the method tables, as far as the proofs need them.           *)
LEMMA Tables ==
  /\ Method = {"PUBLISH", "REQUEST", "REPLY", "ADD", "CANCEL", "REFRESH", "COUNTER", "DECLINECOUNTER"}
  /\ \A method \in Method, name \in Name \ {"ATTENDEE"} :
       PresenceOf[method][name] \in {"one", "optional", "never"}
  /\ PresenceOf["REPLY"]["ATTENDEE"] = "one"
  /\ \A method \in Method : PresenceOf[method].SEQUENCE = "never" => method = "REFRESH"
<1>1. \A name \in Name \ {"ATTENDEE"} : CancelRow[name] \in {"one", "optional", "never"}
  BY DEF CancelRow, Name
<1>2. DOMAIN CancelRow = Name
  BY DEF CancelRow, Name
<1>3. \A name \in Name \ {"ATTENDEE"} :
        /\ PublishRow[name] \in {"one", "optional", "never"}
        /\ RequestRow[name] \in {"one", "optional", "never"}
        /\ ReplyRow[name] \in {"one", "optional", "never"}
        /\ AddRow[name] \in {"one", "optional", "never"}
        /\ RefreshRow[name] \in {"one", "optional", "never"}
        /\ CounterRow[name] \in {"one", "optional", "never"}
        /\ DeclineCounterRow[name] \in {"one", "optional", "never"}
  BY <1>1, <1>2 DEF PublishRow, RequestRow, ReplyRow, AddRow, RefreshRow, CounterRow,
                    DeclineCounterRow, Name
<1>4. Method = {"PUBLISH", "REQUEST", "REPLY", "ADD", "CANCEL", "REFRESH", "COUNTER", "DECLINECOUNTER"}
  BY DEF Method, PresenceOf
<1>5. /\ PresenceOf["PUBLISH"] = PublishRow /\ PresenceOf["REQUEST"] = RequestRow
      /\ PresenceOf["REPLY"] = ReplyRow /\ PresenceOf["ADD"] = AddRow
      /\ PresenceOf["CANCEL"] = CancelRow /\ PresenceOf["REFRESH"] = RefreshRow
      /\ PresenceOf["COUNTER"] = CounterRow /\ PresenceOf["DECLINECOUNTER"] = DeclineCounterRow
  BY DEF PresenceOf
<1>6. \A method \in Method, name \in Name \ {"ATTENDEE"} :
        PresenceOf[method][name] \in {"one", "optional", "never"}
  BY <1>1, <1>3, <1>4, <1>5
<1>7. ReplyRow["ATTENDEE"] = "one"
  BY <1>2 DEF ReplyRow, Name
<1>8. CancelRow["SEQUENCE"] = "one"
  BY DEF CancelRow
<1>9. /\ PublishRow["SEQUENCE"] # "never" /\ RequestRow["SEQUENCE"] # "never"
      /\ ReplyRow["SEQUENCE"] # "never" /\ AddRow["SEQUENCE"] # "never"
      /\ CounterRow["SEQUENCE"] # "never" /\ DeclineCounterRow["SEQUENCE"] # "never"
  BY <1>2, <1>8 DEF PublishRow, RequestRow, ReplyRow, AddRow, CounterRow, DeclineCounterRow, Name
<1>10. \A method \in Method : PresenceOf[method].SEQUENCE = "never" => method = "REFRESH"
  BY <1>4, <1>5, <1>8, <1>9
<1>11. QED
  BY <1>4, <1>5, <1>6, <1>7, <1>10

(* A payload that conforms to its table states no name but ATTENDEE twice.  *)
LEMMA ConformingOnce ==
  ASSUME NEW method \in Method, NEW payload \in Component, CheckConformance(method, payload)
  PROVE  /\ AtMostOnce(payload)
         /\ method = "REPLY" => Len(payload.ATTENDEE) = 1
<1>1. \A name \in Name : Admits(PresenceOf[method][name], Len(payload[name])) /\ Len(payload[name]) \in Nat
  BY ComponentIsLines DEF CheckConformance
<1>2. \A name \in Name \ {"ATTENDEE"} : PresenceOf[method][name] \in {"one", "optional", "never"}
  BY Tables
<1>3. ASSUME NEW name \in Name \ {"ATTENDEE"} PROVE Len(payload[name]) <= 1
  <2>1. PICK count \in Nat : count = Len(payload[name])
    BY <1>1
  <2>2. PICK presence \in {"one", "optional", "never"} : presence = PresenceOf[method][name]
    BY <1>2
  <2>3. Admits(presence, count)
    BY <1>1, <2>1, <2>2
  <2>4. count <= 1
    <3>1. Admits("one", count) => count = 1
      BY DEF Admits
    <3>2. Admits("optional", count) => count <= 1
      BY DEF Admits
    <3>3. Admits("never", count) => count = 0
      BY DEF Admits
    <3>4. QED
      BY <2>2, <2>3, <3>1, <3>2, <3>3
  <2>5. QED
    BY <2>1, <2>4
<1>4. ASSUME method = "REPLY" PROVE Len(payload.ATTENDEE) = 1
  <2>1. "ATTENDEE" \in Name
    BY DEF Name
  <2>2. Admits("one", Len(payload["ATTENDEE"]))
    BY <1>1, <1>4, <2>1, Tables
  <2>3. QED
    BY <2>2 DEF Admits
<1>5. QED
  BY <1>3, <1>4 DEF AtMostOnce

(* What a transition written onto a held component has passed.              *)
Passed(message, payload, current, transition) ==
  /\ SenderPermitted(message.method, current, message.from)
  /\ CheckConformance(message.method, payload)
  /\ message.method # "REFRESH" => CheckRevision(payload, current)
  /\ message.method = "REPLY" => CheckAnswer(payload, current)
  /\ \/ message.from = Organizer
     \/ CheckFields(DescribePayload(message.method, payload, current), current, message.from)
  /\ transition = Settle(message.method, "present", payload, current,
                         DescribePayload(message.method, payload, current))

LEMMA EvaluatedPresent ==
  ASSUME NEW message \in Message, NEW payload, NEW current,
         Evaluate(message, payload, current, "present") # Nothing
  PROVE  Passed(message, payload, current, Evaluate(message, payload, current, "present"))
<1>1. message.method \in Method
  BY DEF Message
<1>2. PresenceOf[message.method].SEQUENCE # "never" \/ message.method = "REFRESH"
  BY <1>1, Tables
<1>3. QED
  BY <1>2 DEF Evaluate, Passed

(* Only an organizer can make a meeting appear.                             *)
LEMMA EvaluatedAbsent ==
  ASSUME NEW message \in Message, NEW payload, NEW current,
         Evaluate(message, payload, current, "absent") # Nothing
  PROVE  /\ message.method \in {"PUBLISH", "REQUEST"}
         /\ message.from = Organizer
         /\ CheckConformance(message.method, payload)
         /\ RevisionOf(payload) # Nothing
<1>1. message.method \in Method
  BY DEF Message
<1>2. /\ PermitsAbsent(message.method)
      /\ SenderPermitted(message.method, payload, message.from)
      /\ CheckConformance(message.method, payload)
      /\ PresenceOf[message.method].SEQUENCE # "never" => CheckRevision(payload, current)
  BY DEF Evaluate
<1>3. message.method \in {"PUBLISH", "REQUEST"}
  BY <1>2 DEF PermitsAbsent
<1>4. PresenceOf[message.method].SEQUENCE # "never"
  BY <1>1, <1>3, Tables
<1>5. message.from = Organizer
  BY <1>2, <1>3 DEF SenderPermitted, OrganizerAuthored, ActorRole
<1>6. QED
  BY <1>2, <1>3, <1>4, <1>5 DEF CheckRevision

(* A transition says nothing, answers on one line, or restates.             *)
LEMMA TransitionForms ==
  ASSUME NEW message \in Message, NEW payload, NEW current, NEW transition,
         Passed(message, payload, current, transition)
  PROVE  \/ transition = NoChange
         \/ /\ message.method = "REPLY"
            /\ transition = DescribeReply(payload, current)
         \/ /\ message.method \notin {"REPLY", "REFRESH"}
            /\ transition = [name \in Name |-> Restated(payload[name], current[name])]
            /\ \/ ~OrganizerAuthored(message.method)
               \/ RevisionOf(current) = Nothing
               \/ Supersedes(RevisionOf(payload), RevisionOf(current))
<1>1. message.method # "REFRESH" => RevisionOf(payload) # Nothing
  BY DEF Passed, CheckRevision
<1>2. transition = NoChange \/ transition = DescribePayload(message.method, payload, current)
  BY DEF Passed, Settle
<1>3. \/ transition = NoChange
      \/ message.method = "REFRESH"
      \/ ~OrganizerAuthored(message.method)
      \/ RevisionOf(current) = Nothing
      \/ Supersedes(RevisionOf(payload), RevisionOf(current))
  BY <1>1 DEF Passed, Settle
<1>4. QED
  BY <1>2, <1>3 DEF DescribePayload

-------------------------------------------------------------------------------
(* A component written                                                      *)

LEMMA FirstLineOf ==
  ASSUME NEW component \in Component, NEW who
  PROVE  \/ /\ OccurrenceOf(component, who) = 0
            /\ \A i \in DOMAIN component.ATTENDEE : component.ATTENDEE[i].who # who
         \/ /\ OccurrenceOf(component, who) \in DOMAIN component.ATTENDEE
            /\ component.ATTENDEE[OccurrenceOf(component, who)].who = who
            /\ \A i \in DOMAIN component.ATTENDEE :
                 component.ATTENDEE[i].who = who => OccurrenceOf(component, who) <= i
<1> DEFINE lines == {i \in DOMAIN component.ATTENDEE : component.ATTENDEE[i].who = who}
<1>1. component.ATTENDEE \in Seq(AttendeeLine)
  BY DEF Component
<1>2. lines \subseteq Nat /\ \A i \in lines : i \in DOMAIN component.ATTENDEE /\ component.ATTENDEE[i].who = who
  BY <1>1
<1>3. CASE lines = {}
  BY <1>3 DEF OccurrenceOf
<1>4. CASE lines # {}
  <2>1. \E i \in lines : \A j \in lines : i <= j
    <3>1. lines \in SUBSET (1..Len(component.ATTENDEE)) /\ Len(component.ATTENDEE) \in Nat
      BY <1>1
    <3> HIDE DEF lines
    <3>2. QED
      BY <1>4, <3>1, FirstPosition
  <2>2. OccurrenceOf(component, who) = CHOOSE i \in lines : \A j \in lines : i <= j
    BY <1>4 DEF OccurrenceOf
  <2>3. OccurrenceOf(component, who) \in lines
        /\ \A j \in lines : OccurrenceOf(component, who) <= j
    BY <2>1, <2>2
  <2>4. QED
    BY <1>2, <2>3
<1>5. QED
  BY <1>3, <1>4

(* An answer is written on the first line of the party it is given for.     *)
LEMMA ReplyChanges ==
  ASSUME NEW payload \in Component, Len(payload.ATTENDEE) = 1, NEW current \in Component,
         NEW name \in Name
  PROVE  LET changes == DescribeReply(payload, current)[name]
             at == OccurrenceOf(current, payload.ATTENDEE[1].who)
         IN  /\ name # "ATTENDEE" => changes = {}
             /\ \A change \in changes :
                  /\ change.index = at /\ change.kind = "parameters" /\ at \in DOMAIN current.ATTENDEE
                  /\ change.line.answer = payload.ATTENDEE[1].answer
                  /\ change.line.to = payload.ATTENDEE[1].to
                  /\ change.line.at = Single(payload, "DTSTAMP")
<1> DEFINE answer == payload.ATTENDEE[1]
           at == OccurrenceOf(current, answer.who)
           edit == [current.ATTENDEE[at] EXCEPT !.answer = answer.answer, !.to = answer.to,
                                                !.at = Single(payload, "DTSTAMP")]
<1>1. payload.ATTENDEE # << >> /\ \A n \in Name : NoChange[n] = {}
  <2>1. payload.ATTENDEE # << >>
    <3>1. payload.ATTENDEE \in Seq(AttendeeLine)
      BY DEF Component
    <3>2. QED
      BY <3>1, OneLine
  <2>2. QED
    BY <2>1 DEF NoChange
<1>2. CASE at = 0
  BY <1>1, <1>2 DEF DescribeReply
<1>3. CASE at # 0
  <2>1. at \in DOMAIN current.ATTENDEE
    BY <1>3, FirstLineOf
  <2>2. current.ATTENDEE[at] \in AttendeeLine
    BY <2>1 DEF Component
  <2>3. edit.answer = answer.answer /\ edit.to = answer.to /\ edit.at = Single(payload, "DTSTAMP")
    BY <2>2 DEF AttendeeLine
  <2>4. DescribeReply(payload, current) = [NoChange EXCEPT !.ATTENDEE = {Change(at, "parameters", edit)}]
    BY <1>1, <1>3 DEF DescribeReply
  <2>5. DOMAIN NoChange = Name /\ "ATTENDEE" \in Name
    BY DEF NoChange, Name
  <2>6. /\ DescribeReply(payload, current)["ATTENDEE"] = {Change(at, "parameters", edit)}
        /\ name # "ATTENDEE" => DescribeReply(payload, current)[name] = {}
    BY <1>1, <2>4, <2>5
  <2>7. /\ Change(at, "parameters", edit).index = at
        /\ Change(at, "parameters", edit).kind = "parameters"
        /\ Change(at, "parameters", edit).line = edit
    BY DEF Change
  <2> HIDE DEF edit, at
  <2>8. QED
    BY <2>1, <2>3, <2>6, <2>7 DEF at
<1>4. QED
  BY <1>2, <1>3

(* The component a transition is written onto: that the transition was     *)
(* described against, or a clone of it written before.                      *)
LEMMA AppliedIsComponent ==
  ASSUME NEW message \in Message, NEW payload \in Component, NEW current \in Component,
         NEW base \in Component, NEW transition, Passed(message, payload, current, transition),
         ApplyTo(base, transition) # Nothing
  PROVE  /\ ApplyTo(base, transition) \in Component
         /\ AtMostOnce(base) => AtMostOnce(ApplyTo(base, transition))
         /\ \A name \in Name :
              /\ ApplyTo(base, transition)[name] = WriteLines(base[name], transition[name])
              /\ Writable(base[name], transition[name])
<1> DEFINE new == ApplyTo(base, transition)
<1>1. /\ new = [name \in Name |-> WriteLines(base[name], transition[name])]
      /\ \A name \in Name : Writable(base[name], transition[name])
  BY DEF ApplyTo
<1>2. /\ message.method \in Method
      /\ AtMostOnce(payload)
      /\ message.method = "REPLY" => Len(payload.ATTENDEE) = 1
  BY ConformingOnce DEF Message, Passed
<1>3. /\ \A name \in Name : /\ base[name] \in Seq(LineOf[name]) /\ current[name] \in Seq(LineOf[name])
                            /\ payload[name] \in Seq(LineOf[name])
  BY ComponentIsLines
<1> HIDE DEF new
<1>4. ASSUME NEW name \in Name
      PROVE  /\ new[name] \in Seq(LineOf[name])
             /\ name # "ATTENDEE" /\ Len(base[name]) <= 1 => Len(new[name]) <= 1
  <2>1. new[name] = WriteLines(base[name], transition[name]) /\ Writable(base[name], transition[name])
    BY <1>1
  <2>2. CASE transition[name] = {}
    <3>1. new[name] = base[name]
      BY <1>3, <2>1, <2>2, EditInPlace DEF EditedOnly
    <3>2. QED
      BY <1>3, <3>1
  <2>3. CASE message.method = "REPLY" /\ transition = DescribeReply(payload, current)
    <3> DEFINE at == OccurrenceOf(current, payload.ATTENDEE[1].who)
    <3>1. /\ name # "ATTENDEE" => transition[name] = {}
          /\ \A change \in transition[name] :
               /\ change.index = at /\ change.kind = "parameters"
               /\ change.line.answer = payload.ATTENDEE[1].answer
               /\ change.line.to = payload.ATTENDEE[1].to
               /\ change.line.at = Single(payload, "DTSTAMP")
      BY <1>2, <2>3, ReplyChanges
    <3>2. SUFFICES ASSUME name = "ATTENDEE", transition[name] # {}
                   PROVE  new[name] \in Seq(AttendeeLine)
      BY <2>2, <3>1 DEF LineOf
    <3>3. base["ATTENDEE"] \in Seq(AttendeeLine) /\ payload["ATTENDEE"] \in Seq(AttendeeLine)
      BY <1>3 DEF LineOf, Name
    <3>3a. base[name] \in Seq(AttendeeLine)
      BY <3>2, <3>3
    <3>4. \A change \in transition[name] :
            change.index = at /\ change.kind \in {"replace", "parameters"}
      BY <3>1
    <3> HIDE DEF at
    <3>6. Single(payload, "DTSTAMP") \in Stamp
      <4>1. "DTSTAMP" \in Name \ {"ATTENDEE"} /\ LineOf["DTSTAMP"] = Nat
        BY DEF Name, LineOf
      <4>2. QED
        BY <1>2, <4>1, SingleReads DEF Stamp
    <3>7. payload.ATTENDEE[1] \in AttendeeLine
      BY <1>2, <2>3, <3>3
    <3>8. \A change \in transition[name] : \A line \in AttendeeLine :
            Edited(line, change) \in AttendeeLine
      BY <3>1, <3>6, <3>7 DEF Edited, SetParameters, AttendeeLine
    <3>9. QED
      BY <2>1, <3>3a, <3>4, <3>8, EditTyped
  <2>4. CASE transition = [n \in Name |-> Restated(payload[n], current[n])]
    <3>1. transition[name] = Restated(payload[name], current[name])
      BY <2>4
    <3>2. /\ new[name] \in Seq(LineOf[name])
          /\ Len(base[name]) <= 1 /\ Len(payload[name]) <= 1 => Len(new[name]) <= 1
      BY <1>3, <2>1, <3>1, RestatementTyped
    <3>3. QED
      BY <1>2, <3>2 DEF AtMostOnce
  <2>5. transition = NoChange => transition[name] = {}
    BY DEF NoChange
  <2>6. QED
    BY <2>2, <2>3, <2>4, <2>5, TransitionForms
<1>5. new = [name \in Name |-> new[name]]
  BY <1>1
<1>6. new \in Component
  BY <1>4, <1>5, ComponentIsLines
<1>7. AtMostOnce(base) => AtMostOnce(new)
  BY <1>4 DEF AtMostOnce
<1>8. QED
  BY <1>1, <1>6, <1>7 DEF new

(* The lines name whom they named, and none but one has changed.            *)
KeepsParties(result, lines, at) ==
  /\ DOMAIN result = DOMAIN lines
  /\ \A i \in DOMAIN lines : /\ result[i].who = lines[i].who
                             /\ i # at => result[i] = lines[i]

(* Such changes that keep whose line it is keep whose lines they all are.   *)
LEMMA EditOwn ==
  ASSUME NEW S, NEW lines \in Seq(S), NEW at, NEW changes,
         \A change \in changes : change.index = at /\ change.kind \in {"replace", "parameters"},
         Writable(lines, changes),
         at \in DOMAIN lines => \A change \in changes : Edited(lines[at], change).who = lines[at].who
  PROVE  KeepsParties(WriteLines(lines, changes), lines, at)
<1> DEFINE result == WriteLines(lines, changes)
<1>1. /\ ListsUpTo(result, Len(lines))
      /\ \A i \in 1..Len(lines) : i # at => result[i] = lines[i]
      /\ changes = {} => result = lines
      /\ changes # {} =>
           /\ at \in 1..Len(lines)
           /\ \E change \in changes : result[at] = Edited(lines[at], change)
  <2>1. EditedOnly(result, lines, at, changes)
    BY EditInPlace
  <2>2. QED
    BY <2>1 DEF EditedOnly
<1> HIDE DEF result
<1>2. DOMAIN lines = 1..Len(lines) /\ DOMAIN result = 1..Len(lines)
  BY <1>1 DEF ListsUpTo
<1>3. at \in DOMAIN lines => result[at].who = lines[at].who
  BY <1>1, <1>2
<1>4. QED
  BY <1>1, <1>2, <1>3 DEF result, KeepsParties

(* What an attendee may write, whatever else has been written before.       *)
OwnLine(at, old, new) ==
  /\ \A name \in Name \ {"ATTENDEE", "DTSTAMP", "RECURRENCE_ID"} : new[name] = old[name]
  /\ KeepsParties(new.ATTENDEE, old.ATTENDEE, at)

(* The changes an attendee's message may make to the ATTENDEE lines.        *)
LEMMA AttendeeChanges ==
  ASSUME NEW message \in Message, message.from # Organizer, NEW payload \in Component,
         NEW current \in Component, NEW transition, Passed(message, payload, current, transition),
         NEW name \in Name \ EitherParty
  PROVE  /\ name # "ATTENDEE" => transition[name] = {}
         /\ \A change \in transition[name] :
              /\ change.index = OccurrenceOf(current, message.from)
              /\ change.index \in DOMAIN current.ATTENDEE
              /\ \/ change.kind = "parameters"
                 \/ change.kind = "replace" /\ change.line.who = message.from
<1> DEFINE at == OccurrenceOf(current, message.from)
           described == DescribePayload(message.method, payload, current)
<1>1. CheckFields(described, current, message.from)
  BY DEF Passed
<1>2. \A change \in described[name] :
        name = "ATTENDEE" /\ change.index = at /\ KeepsTheActor(change, message.from)
  BY <1>1 DEF CheckFields
<1>3. transition[name] = {} \/ transition[name] = described[name]
  BY DEF Passed, Settle, NoChange
<1>4. /\ payload["ATTENDEE"] \in Seq(AttendeeLine) /\ current["ATTENDEE"] \in Seq(AttendeeLine)
      /\ "ATTENDEE" \in Name
  BY DEF Component, Name
<1>5. at \in 0..Len(current["ATTENDEE"]) /\ (at # 0 => at \in DOMAIN current.ATTENDEE)
  BY <1>4, FirstLineOf
<1> HIDE DEF at
<1>6. ASSUME NEW change \in described[name]
      PROVE  /\ change.index = at
             /\ change.index \in DOMAIN current.ATTENDEE
             /\ \/ change.kind = "parameters"
                \/ change.kind = "replace" /\ change.line.who = message.from
  <2>1. name = "ATTENDEE" /\ change.index = at /\ KeepsTheActor(change, message.from)
    BY <1>2
  <2>2. CASE message.method = "REPLY"
    <3>1. message.method \in Method /\ Len(payload.ATTENDEE) = 1
      BY <2>2, ConformingOnce DEF Message, Passed
    <3>2. change \in DescribeReply(payload, current)[name]
      BY <2>2 DEF DescribePayload
    <3>3. change.kind = "parameters" /\ change.index \in DOMAIN current.ATTENDEE
      BY <3>1, <3>2, ReplyChanges
    <3>4. QED
      BY <2>1, <3>3
  <2>3. CASE message.method = "REFRESH"
    <3>1. described = NoChange /\ name \in Name
      BY <2>3 DEF DescribePayload
    <3>2. NoChange[name] = {}
      BY <3>1 DEF NoChange
    <3>3. QED
      BY <3>1, <3>2
  <2>4. CASE message.method \notin {"REPLY", "REFRESH"}
    <3>1. described = [n \in Name |-> Restated(payload[n], current[n])]
      BY <2>4 DEF DescribePayload
    <3>2. change \in Restated(payload["ATTENDEE"], current["ATTENDEE"])
      BY <1>4, <2>1, <3>1
    <3>3. /\ change.index \in Nat \ {0}
          /\ change.kind = "add" => change.index > Len(current["ATTENDEE"])
          /\ change.kind \in {"replace", "add", "remove"}
      BY <1>4, <3>2, RestatementParts
    <3>4. change.kind \in {"add", "replace"} /\ change.line.who = message.from
      BY <2>1, <3>3 DEF KeepsTheActor
    <3>5. change.kind # "add"
      BY <1>4, <1>5, <2>1, <3>3
    <3>6. QED
      BY <1>5, <2>1, <3>3, <3>4, <3>5
  <2>5. QED
    BY <2>2, <2>3, <2>4
<1>7. QED
  BY <1>2, <1>3, <1>6 DEF at

(* An attendee's message, written onto a component with the same parties as *)
(* the one it was described against, changes the attendee's own line only.  *)
LEMMA AttendeeWrites ==
  ASSUME NEW message \in Message, message.from # Organizer, NEW payload \in Component,
         NEW current \in Component, NEW base \in Component, NEW transition,
         Passed(message, payload, current, transition), ApplyTo(base, transition) # Nothing,
         DOMAIN base.ATTENDEE = DOMAIN current.ATTENDEE,
         \A i \in DOMAIN base.ATTENDEE : base.ATTENDEE[i].who = current.ATTENDEE[i].who
  PROVE  OwnLine(OccurrenceOf(current, message.from), base, ApplyTo(base, transition))
<1> DEFINE new == ApplyTo(base, transition)
           at == OccurrenceOf(current, message.from)
<1>1. \A name \in Name : /\ new[name] = WriteLines(base[name], transition[name])
                         /\ Writable(base[name], transition[name])
                         /\ base[name] \in Seq(LineOf[name])
  BY AppliedIsComponent, ComponentIsLines
<1> HIDE DEF new
<1>2. ASSUME NEW name \in Name \ {"ATTENDEE", "DTSTAMP", "RECURRENCE_ID"} PROVE new[name] = base[name]
  <2>1. transition[name] = {}
    BY AttendeeChanges DEF EitherParty
  <2>2. QED
    BY <1>1, <2>1, EditInPlace DEF EditedOnly
<1>3. "ATTENDEE" \in Name \ EitherParty /\ LineOf["ATTENDEE"] = AttendeeLine
  BY DEF Name, EitherParty, LineOf
<1> DEFINE changes == transition["ATTENDEE"]
           old == base["ATTENDEE"]
<1>4. old \in Seq(AttendeeLine) /\ new["ATTENDEE"] = WriteLines(old, changes) /\ Writable(old, changes)
  BY <1>1, <1>3
<1>5. \A change \in changes :
        /\ change.index = at /\ change.index \in DOMAIN current.ATTENDEE
        /\ \/ change.kind = "parameters"
           \/ change.kind = "replace" /\ change.line.who = message.from
  BY <1>3, AttendeeChanges
<1>6. at \in DOMAIN current.ATTENDEE => current.ATTENDEE[at].who = message.from
  <2>1. current["ATTENDEE"] \in Seq(AttendeeLine)
    BY DEF Component
  <2>2. 0 \notin DOMAIN current.ATTENDEE
    BY <2>1
  <2>3. QED
    BY <2>2, FirstLineOf
<1>7. \A change \in changes : change.index = at /\ change.kind \in {"replace", "parameters"}
  BY <1>5
<1> HIDE DEF at, changes, old
<1>8. DOMAIN old = 1..Len(old) /\ \A i \in 1..Len(old) : old[i] \in AttendeeLine
  BY <1>4
<1>9. ASSUME at \in DOMAIN old, NEW change \in changes
      PROVE  Edited(old[at], change).who = old[at].who
  <2>1. old[at].who = message.from
    BY <1>5, <1>6, <1>9 DEF old
  <2>2. \A line \in AttendeeLine : SetParameters(line, change.line).who = line.who
    BY DEF SetParameters, AttendeeLine
  <2>3. QED
    BY <1>5, <1>8, <1>9, <2>1, <2>2 DEF Edited
<1>10. KeepsParties(WriteLines(old, changes), old, at)
  BY <1>4, <1>7, <1>9, EditOwn
<1>11. QED
  BY <1>2, <1>4, <1>10 DEF OwnLine, old, new, at

-------------------------------------------------------------------------------
(* A message applied                                                        *)

(* One list up to m, then another up to n.                                  *)
Joined(result, one, m, other, n) ==
  /\ ListsUpTo(result, m + n)
  /\ \A i \in 1..m : result[i] = one[i]
  /\ \A j \in 1..n : result[m + j] = other[j]

LEMMA Concatenated ==
  ASSUME NEW m \in Nat, NEW n \in Nat, NEW one, NEW other,
         ListsUpTo(one, m), ListsUpTo(other, n)
  PROVE  Joined(one \o other, one, m, other, n)
<1> DEFINE Values == {one[i] : i \in 1..m} \cup {other[j] : j \in 1..n}
<1>1. one \in Seq(Values) /\ other \in Seq(Values) /\ Len(one) = m /\ Len(other) = n
  <2>1. one \in [1..m -> Values] /\ other \in [1..n -> Values]
    BY DEF ListsUpTo
  <2> HIDE DEF Values
  <2>2. QED
    BY <2>1
<1> HIDE DEF Values
<1>2. /\ Len(one \o other) = m + n /\ one \o other \in Seq(Values)
      /\ \A i \in 1..m : (one \o other)[i] = one[i]
      /\ \A j \in 1..n : (one \o other)[m + j] = other[j]
  BY <1>1
<1>3. PICK result : result = one \o other
  OBVIOUS
<1>4. ListsUpTo(result, m + n)
  <2>1. result \in Seq(Values) /\ Len(result) = m + n
    BY <1>2, <1>3
  <2>2. result = [i \in 1..(m + n) |-> result[i]]
    BY <2>1
  <2>3. QED
    BY <2>2 DEF ListsUpTo
<1>5. QED
  BY <1>2, <1>3, <1>4 DEF Joined

(* The two phases of a write.                                               *)
Updated(message, held, changes) ==
  [item \in DOMAIN held |-> WriteExisting(message, held, changes, item)]

Later(changes) == {k \in DOMAIN changes : changes[k].kind # "existing"}

(* The calendar is what was held, written, and then what is new.            *)
TwoPhases(message, held, changes, result) ==
  LET later == Later(changes)
      updated == Updated(message, held, changes)
  IN  /\ Cardinality(later) \in Nat
      /\ ListsUpTo(result, Len(held) + Cardinality(later))
      /\ \A i \in 1..Len(held) :
           result[i] = WriteExisting(message, held, changes, i) /\ result[i] # Nothing
      /\ \A j \in 1..Cardinality(later) :
           /\ Nth(later, j) \in later
           /\ result[Len(held) + j]
                = WriteNew(message, updated, changes[Nth(later, j)], message.payloads[Nth(later, j)])
           /\ result[Len(held) + j] # Nothing
      /\ \A i, j \in 1..Cardinality(later) : i # j => Nth(later, i) # Nth(later, j)
      /\ \A k \in later : \E j \in 1..Cardinality(later) : Nth(later, j) = k

LEMMA AppliedInPhases ==
  ASSUME NEW message \in Message, NEW held \in Seq(Component), NEW changes, changes # Nothing,
         DOMAIN changes = DOMAIN message.payloads, Apply(message, held, changes) # Nothing
  PROVE  TwoPhases(message, held, changes, Apply(message, held, changes))
<1> DEFINE later == Later(changes)
           size == Cardinality(later)
           updated == Updated(message, held, changes)
           added == Added(message, updated, changes)
           m == Len(held)
<1>1. message.payloads \in Seq(Component)
  BY DEF Message
<1>2. later \in SUBSET (1..Len(message.payloads)) /\ Len(message.payloads) \in Nat
  BY <1>1 DEF Later
<1>3. /\ size \in Nat
      /\ \A j \in 1..size : Nth(later, j) \in later
      /\ \A i, j \in 1..size : i # j => Nth(later, i) # Nth(later, j)
      /\ \A k \in later : \E j \in 1..size : Nth(later, j) = k
  <2> HIDE DEF later
  <2>1. QED
    BY <1>2, NthCounts
<1>4. m \in Nat /\ DOMAIN held = 1..m
  OBVIOUS
<1>5. /\ updated = [i \in 1..m |-> WriteExisting(message, held, changes, i)]
      /\ added = [j \in 1..size |-> WriteNew(message, updated, changes[Nth(later, j)],
                                             message.payloads[Nth(later, j)])]
  BY <1>4 DEF Updated, Added, Later
<1> HIDE DEF updated, added, size, m
<1>6. Apply(message, held, changes) = WriteBack(message, updated, changes)
  BY DEF Apply, updated, Updated
<1>7. /\ Apply(message, held, changes) = updated \o added
      /\ \A i \in DOMAIN (updated \o added) : (updated \o added)[i] # Nothing
  BY <1>6 DEF WriteBack, AllOrNothing, added
<1>8. ListsUpTo(updated, m) /\ ListsUpTo(added, size)
  <2>1. updated = [i \in 1..m |-> updated[i]]
    BY <1>5
  <2>2. added = [j \in 1..size |-> added[j]]
    BY <1>5
  <2>3. QED
    BY <2>1, <2>2 DEF ListsUpTo
<1>9. PICK result : result = Apply(message, held, changes)
  OBVIOUS
<1>10. /\ ListsUpTo(result, m + size)
       /\ \A i \in 1..m : result[i] = updated[i]
       /\ \A j \in 1..size : result[m + j] = added[j]
       /\ \A i \in DOMAIN result : result[i] # Nothing
  <2>1. Joined(updated \o added, updated, m, added, size)
    BY <1>3, <1>4, <1>8, Concatenated
  <2>2. Joined(result, updated, m, added, size) /\ \A i \in DOMAIN result : result[i] # Nothing
    BY <1>7, <1>9, <2>1
  <2>3. QED
    BY <2>2 DEF Joined
<1>11. DOMAIN result = 1..(m + size)
  BY <1>10 DEF ListsUpTo
<1>12. \A i \in 1..m : i \in DOMAIN result
  BY <1>3, <1>4, <1>11
<1>13. \A j \in 1..size : m + j \in DOMAIN result
  BY <1>3, <1>4, <1>11
<1>14. \A i \in 1..m : result[i] = WriteExisting(message, held, changes, i) /\ result[i] # Nothing
  BY <1>5, <1>10, <1>12
<1>15. \A j \in 1..size :
         /\ result[m + j] = WriteNew(message, updated, changes[Nth(later, j)],
                                     message.payloads[Nth(later, j)])
         /\ result[m + j] # Nothing
  BY <1>5, <1>10, <1>13
<1> HIDE DEF later
<1>16. TwoPhases(message, held, changes, result)
  BY <1>3, <1>10, <1>14, <1>15 DEF TwoPhases, later, size, m, updated
<1>17. QED
  BY <1>9, <1>16

-------------------------------------------------------------------------------
(* A message reviewed                                                       *)

(* A change to the component a payload names.                               *)
ToHeld(message, held, payload, change) ==
  /\ change.kind = "existing"
  /\ change.item \in Matches(held, payload, "same")
  /\ Passed(message, payload, held[change.item], change.transition)

(* A change to an occurrence of the series.                                 *)
ToOccurrence(message, held, payload, change) ==
  /\ Matches(held, payload, "same") = {}
  /\ change.item \in Masters(held) /\ change.item = MasterOf(held)
  /\ ~IsMaster(payload)
  /\ RecurrenceSetContains(held[change.item], payload)
  /\ change.kind = IF IsEmpty(change.transition) THEN "existing" ELSE "detach"
  /\ Passed(message, payload, held[change.item], change.transition)

ReviewedOnto(message, held, changes) ==
  /\ changes # Nothing
  /\ DOMAIN changes = DOMAIN message.payloads
  /\ \A k \in DOMAIN changes : /\ \/ ToHeld(message, held, message.payloads[k], changes[k])
                                  \/ ToOccurrence(message, held, message.payloads[k], changes[k])
                               /\ Matches(held, message.payloads[k], "ambiguous") = {}
  /\ \A k, other \in DOMAIN changes : k # other =>
       Matches(held, message.payloads[k], "same") \cap Matches(held, message.payloads[other], "same") = {}

LEMMA MasterIsHeld ==
  ASSUME NEW held \in Seq(Component), Masters(held) # {}
  PROVE  MasterOf(held) \in Masters(held)
<1>1. Masters(held) \in SUBSET (1..Len(held)) /\ Len(held) \in Nat
  BY DEF Masters
<1>2. \E item \in Masters(held) : \A other \in Masters(held) : item <= other
  BY <1>1, FirstPosition
<1>3. QED
  BY <1>2 DEF MasterOf

LEMMA ReviewFindsComponents ==
  ASSUME NEW message \in Message, NEW held \in Seq(Component), held # << >>,
         Review(message, held) # Nothing
  PROVE  ReviewedOnto(message, held, Review(message, held))
<1> DEFINE changes == [k \in DOMAIN message.payloads |->
                         ReviewPayload(message, held, message.payloads[k])]
<1>1. Review(message, held) = ReviewExisting(message, held)
  BY DEF Review
<1>2. /\ Review(message, held) = AllOrNothing(changes)
      /\ \A k \in DOMAIN message.payloads : Matches(held, message.payloads[k], "ambiguous") = {}
      /\ \A k, other \in DOMAIN message.payloads : k # other =>
           Matches(held, message.payloads[k], "same") \cap Matches(held, message.payloads[other], "same") = {}
  BY <1>1 DEF ReviewExisting, Reviewed
<1>3. Review(message, held) = changes /\ \A k \in DOMAIN message.payloads : changes[k] # Nothing
  BY <1>2 DEF AllOrNothing
<1>4. ASSUME NEW k \in DOMAIN message.payloads
      PROVE  \/ ToHeld(message, held, message.payloads[k], changes[k])
             \/ ToOccurrence(message, held, message.payloads[k], changes[k])
  <2> DEFINE payload == message.payloads[k]
             evaluated(item) == Evaluate(message, payload, held[item], "present")
  <2>1. changes[k] = ReviewPayload(message, held, payload) /\ changes[k] # Nothing
    BY <1>3
  <2> HIDE DEF changes, payload
  <2>2. \A item, written, kind :
          /\ ReviewedChange(kind, item, written).kind = kind
          /\ ReviewedChange(kind, item, written).item = item
          /\ ReviewedChange(kind, item, written).transition = written
    BY DEF ReviewedChange
  <2>3. CASE Matches(held, payload, "same") # {}
    <3> DEFINE item == Exact(held, payload)
    <3>1. item \in Matches(held, payload, "same")
      BY <2>3 DEF Exact
    <3>2. changes[k] = ReviewExact(item, evaluated(item))
      BY <2>1, <2>3 DEF ReviewPayload
    <3>3. evaluated(item) # Nothing /\ changes[k] = ReviewedChange("existing", item, evaluated(item))
      BY <2>1, <3>2 DEF ReviewExact
    <3>4. Passed(message, payload, held[item], evaluated(item))
      BY <3>3, EvaluatedPresent
    <3> HIDE DEF item
    <3>5. ToHeld(message, held, payload, changes[k])
      BY <2>2, <3>1, <3>3, <3>4 DEF ToHeld
    <3>6. QED
      BY <3>5 DEF payload
  <2>4. CASE Matches(held, payload, "same") = {}
    <3> DEFINE item == MasterOf(held)
    <3>1. /\ Masters(held) # {}
          /\ changes[k] = ReviewDetached(held, payload, item, evaluated(item))
      BY <2>1, <2>4 DEF ReviewPayload
    <3>2. item \in Masters(held)
      BY <3>1, MasterIsHeld
    <3>3. /\ ~IsMaster(payload) /\ evaluated(item) # Nothing
          /\ RecurrenceSetContains(held[item], payload)
          /\ changes[k] = ReviewedChange(IF IsEmpty(evaluated(item)) THEN "existing" ELSE "detach",
                                         item, evaluated(item))
      BY <2>1, <3>1 DEF ReviewDetached
    <3>4. Passed(message, payload, held[item], evaluated(item))
      BY <3>3, EvaluatedPresent
    <3>5. item = MasterOf(held)
      OBVIOUS
    <3> HIDE DEF item
    <3>6. ToOccurrence(message, held, payload, changes[k])
      BY <2>2, <2>4, <3>2, <3>3, <3>4, <3>5 DEF ToOccurrence
    <3>7. QED
      BY <3>6 DEF payload
  <2>5. QED
    BY <2>3, <2>4
<1> HIDE DEF changes
<1>5. DOMAIN changes = DOMAIN message.payloads
  BY DEF changes
<1>6. ReviewedOnto(message, held, changes)
  BY <1>2, <1>3, <1>4, <1>5 DEF ReviewedOnto
<1>7. QED
  BY <1>3, <1>6

(* A meeting no component of which is held is taken as it is stated.        *)
LEMMA ReviewCreates ==
  ASSUME NEW message \in Message, Review(message, << >>) # Nothing
  PROVE  LET changes == Review(message, << >>)
         IN  /\ DOMAIN changes = DOMAIN message.payloads
             /\ \A k \in DOMAIN changes : /\ changes[k].kind = "create"
                                          /\ message.method \in {"PUBLISH", "REQUEST"}
                                          /\ message.from = Organizer
                                          /\ CheckConformance(message.method, message.payloads[k])
                                          /\ RevisionOf(message.payloads[k]) # Nothing
<1> DEFINE changes == [k \in DOMAIN message.payloads |->
                         Created(k, Evaluate(message, message.payloads[k], EmptyComponent, "absent"))]
<1>1. Review(message, << >>) = AllOrNothing(changes)
  BY DEF Review, ReviewCreation
<1>2. Review(message, << >>) = changes /\ \A k \in DOMAIN message.payloads : changes[k] # Nothing
  BY <1>1 DEF AllOrNothing
<1>3. ASSUME NEW k \in DOMAIN message.payloads
      PROVE  /\ changes[k].kind = "create"
             /\ message.method \in {"PUBLISH", "REQUEST"}
             /\ message.from = Organizer
             /\ CheckConformance(message.method, message.payloads[k])
             /\ RevisionOf(message.payloads[k]) # Nothing
  <2> DEFINE written == Evaluate(message, message.payloads[k], EmptyComponent, "absent")
  <2>1. written # Nothing /\ changes[k] = ReviewedChange("create", k, written)
    BY <1>2 DEF Created
  <2>2. changes[k].kind = "create"
    BY <2>1 DEF ReviewedChange
  <2>3. QED
    BY <2>1, <2>2, EvaluatedAbsent
<1>4. QED
  BY <1>2, <1>3

-------------------------------------------------------------------------------
(* What is written                                                          *)

LEMMA FinishedIsComponent ==
  ASSUME NEW message, NEW component \in Component, NEW new, new = Finished(message, component)
  PROVE  /\ new \in Component
         /\ AtMostOnce(component) => AtMostOnce(new)
         /\ \A name \in Name \ {"STATUS"} : new[name] = component[name]
         /\ message.method # "CANCEL" => new = component
<1>1. CASE message.method # "CANCEL"
  BY <1>1 DEF Finished
<1>2. CASE message.method = "CANCEL"
  <2> DEFINE lines == component["STATUS"]
             marked == IF lines = << >> THEN <<"CANCELLED">> ELSE [lines EXCEPT ![1] = "CANCELLED"]
  <2>1. new = [component EXCEPT !["STATUS"] = marked]
    BY <1>2, NoneAssumption DEF NoneAssumption, Finished, MarkCancelled
  <2>2. lines \in Seq(StatusText)
    BY DEF Component
  <2>3. marked \in Seq(StatusText) /\ Len(marked) \in Nat /\ (Len(lines) <= 1 => Len(marked) <= 1)
    <3> HIDE DEF lines
    <3>1. CASE lines = << >>
      <4>1. marked = <<"CANCELLED">>
        BY <3>1
      <4>2. PICK text \in StatusText : text = "CANCELLED"
        BY DEF StatusText
      <4>3. marked = <<text>>
        BY <4>1, <4>2
      <4> HIDE DEF marked
      <4>4. QED
        BY <4>2, <4>3
    <3>2. CASE lines # << >>
      <4>1. lines \in [1..Len(lines) -> StatusText] /\ Len(lines) \in Nat
        BY <2>2
      <4>2. marked = [lines EXCEPT ![1] = "CANCELLED"]
        BY <3>2
      <4>3. marked \in [1..Len(lines) -> StatusText]
        <5>1. "CANCELLED" \in StatusText
          BY DEF StatusText
        <5> HIDE DEF marked
        <5>2. QED
          BY <4>1, <4>2, <5>1
      <4> HIDE DEF marked
      <4>4. marked \in Seq(StatusText) /\ Len(marked) = Len(lines)
        BY <4>1, <4>3
      <4>5. QED
        BY <4>1, <4>4
    <3>3. QED
      BY <3>1, <3>2
  <2> HIDE DEF lines, marked
  <2>4. component = [name \in Name |-> component[name]] /\ "STATUS" \in Name /\ LineOf["STATUS"] = StatusText
    BY ComponentIsLines DEF Name, LineOf
  <2>5. /\ new = [name \in Name |-> new[name]]
        /\ new["STATUS"] = marked
        /\ \A name \in Name \ {"STATUS"} : new[name] = component[name]
    BY <2>1, <2>4
  <2>6. \A name \in Name : new[name] \in Seq(LineOf[name])
    BY <2>3, <2>4, <2>5, ComponentIsLines
  <2>7. new \in Component
    BY <2>5, <2>6, ComponentIsLines
  <2>8. AtMostOnce(component) => AtMostOnce(new)
    BY <2>3, <2>4, <2>5 DEF AtMostOnce, lines
  <2>9. QED
    BY <1>2, <2>5, <2>7, <2>8
<1>3. QED
  BY <1>1, <1>2

(* What may become of a held component.                                     *)
HeldWritten(message, held, changes, item, new) ==
  \/ DOMAIN changes # {} /\ new = Finished(message, held[item])
  \/ new = held[item]
  \/ \E k \in DOMAIN changes :
       /\ ToHeld(message, held, message.payloads[k], changes[k]) /\ changes[k].item = item
       /\ ApplyTo(held[item], changes[k].transition) # Nothing
       /\ new = Finished(message, ApplyTo(held[item], changes[k].transition))

LEMMA ExistingIsWritten ==
  ASSUME NEW message \in Message, NEW held \in Seq(Component), NEW changes,
         ReviewedOnto(message, held, changes), NEW item \in DOMAIN held,
         WriteExisting(message, held, changes, item) # Nothing
  PROVE  HeldWritten(message, held, changes, item, WriteExisting(message, held, changes, item))
<1> DEFINE new == WriteExisting(message, held, changes, item)
           mine == {k \in DOMAIN changes : changes[k].kind = "existing" /\ changes[k].item = item}
           real == {k \in mine : ~IsEmpty(changes[k].transition)}
<1>1. CASE mine = {} \/ real = {}
  BY <1>1 DEF WriteExisting, HeldWritten
<1>2. CASE mine # {} /\ real # {}
  <2>1. PICK k \in real : new = Finished(message, ApplyTo(held[item], changes[k].transition))
    BY <1>2 DEF WriteExisting
  <2>2. ToHeld(message, held, message.payloads[k], changes[k])
    BY <2>1 DEF ReviewedOnto, ToOccurrence
  <2>3. ApplyTo(held[item], changes[k].transition) # Nothing
    BY <2>1 DEF Finished
  <2>4. QED
    BY <2>1, <2>2, <2>3 DEF HeldWritten
<1>3. QED
  BY <1>1, <1>2

(* A component stays the component of its instance.                         *)
SameInstance(old, new) ==
  /\ new \in Component
  /\ AtMostOnce(new)
  /\ RecurrenceId(new) = RecurrenceId(old)

LEMMA HeldStaysItsInstance ==
  ASSUME NEW message \in Message, NEW held \in Seq(Component), NEW changes,
         ReviewedOnto(message, held, changes), NEW item \in DOMAIN held, AtMostOnce(held[item]),
         NEW new, HeldWritten(message, held, changes, item, new)
  PROVE  SameInstance(held[item], new)
<1> DEFINE old == held[item]
<1>1. old \in Component /\ AtMostOnce(old)
  OBVIOUS
<1>2. "RECURRENCE_ID" \in Name \ {"STATUS"} /\ "RECURRENCE_ID" # "ATTENDEE"
  BY DEF Name
<1>3. ASSUME NEW written \in Component, AtMostOnce(written),
             written["RECURRENCE_ID"] = old["RECURRENCE_ID"], new = Finished(message, written)
      PROVE  SameInstance(old, new)
  <2>1. new \in Component /\ AtMostOnce(new) /\ new["RECURRENCE_ID"] = written["RECURRENCE_ID"]
    BY <1>2, <1>3, FinishedIsComponent
  <2>2. QED
    BY <1>3, <2>1 DEF SameInstance, RecurrenceId, Single
<1> HIDE DEF old
<1>4. CASE new = Finished(message, held[item])
  BY <1>1, <1>3, <1>4 DEF old
<1>5. CASE new = held[item]
  BY <1>1, <1>5 DEF old, SameInstance
<1>6. ASSUME NEW k \in DOMAIN changes,
             ToHeld(message, held, message.payloads[k], changes[k]), changes[k].item = item,
             ApplyTo(held[item], changes[k].transition) # Nothing,
             new = Finished(message, ApplyTo(held[item], changes[k].transition))
      PROVE  SameInstance(old, new)
  <2> DEFINE payload == message.payloads[k]
             transition == changes[k].transition
             written == ApplyTo(old, transition)
  <2>1. payload \in Component
    BY <1>6 DEF ReviewedOnto, Message
  <2>2. Passed(message, payload, old, transition) /\ written # Nothing
    BY <1>6 DEF ToHeld, old
  <2>3. CompareInstances(RecurrenceId(payload), RecurrenceId(old)) = "same"
    BY <1>6 DEF ToHeld, Matches, old
  <2>4. AtMostOnce(payload) /\ message.method \in Method
        /\ (message.method = "REPLY" => Len(payload.ATTENDEE) = 1)
    BY <2>1, <2>2, ConformingOnce DEF Passed, Message
  <2> HIDE DEF payload, transition
  <2>5. payload.RECURRENCE_ID = old.RECURRENCE_ID
    <3>1. RecurrenceId(payload) = RecurrenceId(old)
      BY <1>1, <2>1, <2>3, RecurrenceIdReads, ComparesReferences
    <3>2. QED
      BY <1>1, <2>1, <2>4, <3>1, RecurrenceIdReads
  <2>6. /\ written \in Component /\ AtMostOnce(written)
        /\ written["RECURRENCE_ID"] = WriteLines(old["RECURRENCE_ID"], transition["RECURRENCE_ID"])
        /\ Writable(old["RECURRENCE_ID"], transition["RECURRENCE_ID"])
    BY <1>1, <1>2, <2>1, <2>2, AppliedIsComponent
  <2>7. old["RECURRENCE_ID"] \in Seq(InstanceRef)
    BY <1>1 DEF Component
  <2> HIDE DEF written
  <2>8. written["RECURRENCE_ID"] = old["RECURRENCE_ID"]
    <3>1. CASE transition["RECURRENCE_ID"] = {}
      <4>1. EditedOnly(WriteLines(old["RECURRENCE_ID"], transition["RECURRENCE_ID"]),
                       old["RECURRENCE_ID"], 0, transition["RECURRENCE_ID"])
        BY <2>6, <2>7, <3>1, EditInPlace
      <4>2. QED
        BY <2>6, <3>1, <4>1 DEF EditedOnly
    <3>2. CASE transition["RECURRENCE_ID"] = Restated(payload["RECURRENCE_ID"], old["RECURRENCE_ID"])
      BY <2>5, <2>6, <2>7, <3>2, RestatementLands
    <3>3. transition = NoChange => transition["RECURRENCE_ID"] = {}
      BY <1>2 DEF NoChange
    <3>4. message.method = "REPLY" /\ transition = DescribeReply(payload, old) =>
            transition["RECURRENCE_ID"] = {}
      BY <1>1, <1>2, <2>1, <2>4, ReplyChanges
    <3>5. QED
      BY <1>2, <2>2, <3>1, <3>2, <3>3, <3>4, TransitionForms
  <2>9. new = Finished(message, written)
    BY <1>6 DEF written, transition, old
  <2>10. QED
    BY <1>3, <2>6, <2>8, <2>9
<1>7. QED
  BY <1>4, <1>5, <1>6 DEF HeldWritten, old

(* The clone of the series is put under the address of its payload.         *)
LEMMA CloneTakesTheAddress ==
  ASSUME NEW applied \in Component, AtMostOnce(applied), NEW payload \in Component,
         AtMostOnce(payload), ~IsMaster(payload),
         applied.RECURRENCE_ID = << >> \/ applied.RECURRENCE_ID = payload.RECURRENCE_ID,
         NEW new, new = CopyRecurrenceId(applied, payload)
  PROVE  /\ new \in Component /\ AtMostOnce(new)
         /\ new.RECURRENCE_ID = payload.RECURRENCE_ID
         /\ \A name \in Name \ {"RECURRENCE_ID"} : new[name] = applied[name]
<1> DEFINE ref == RecurrenceId(payload)
<1>1. payload.RECURRENCE_ID = <<ref>> /\ ref \in InstanceRef
  BY RecurrenceIdReads DEF IsMaster, Reference
<1>2. applied # Nothing
  BY NoneAssumption DEF NoneAssumption
<1> HIDE DEF ref
<1>3. CASE applied.RECURRENCE_ID = payload.RECURRENCE_ID
  BY <1>1, <1>2, <1>3 DEF CopyRecurrenceId
<1>4. CASE applied.RECURRENCE_ID = << >>
  <2>1. new = [applied EXCEPT !["RECURRENCE_ID"] = <<ref>>]
    BY <1>1, <1>2, <1>4 DEF CopyRecurrenceId
  <2>2. /\ applied = [name \in Name |-> applied[name]]
        /\ "RECURRENCE_ID" \in Name /\ LineOf["RECURRENCE_ID"] = InstanceRef
    BY ComponentIsLines DEF Name, LineOf
  <2>3. /\ new = [name \in Name |-> new[name]]
        /\ new["RECURRENCE_ID"] = <<ref>>
        /\ \A name \in Name \ {"RECURRENCE_ID"} : new[name] = applied[name]
    BY <2>1, <2>2
  <2>4. <<ref>> \in Seq(InstanceRef) /\ Len(<<ref>>) = 1
    BY <1>1
  <2>5. \A name \in Name : new[name] \in Seq(LineOf[name])
    BY <2>2, <2>3, <2>4, ComponentIsLines
  <2>6. new \in Component
    BY <2>3, <2>5, ComponentIsLines
  <2>7. AtMostOnce(new)
    BY <2>3, <2>4 DEF AtMostOnce
  <2>8. QED
    BY <1>1, <2>3, <2>6, <2>7
<1>5. QED
  BY <1>3, <1>4

(* A component that is made stands for the instance its payload names.      *)
LEMMA DetachedIsItsInstance ==
  ASSUME NEW message \in Message, NEW held \in Seq(Component), NEW changes,
         ReviewedOnto(message, held, changes), NEW k \in Later(changes),
         AtMostOnce(held[changes[k].item]),
         NEW updated, SameInstance(held[changes[k].item], updated[changes[k].item]),
         NEW new, new = WriteNew(message, updated, changes[k], message.payloads[k]), new # Nothing
  PROVE  SameInstance(message.payloads[k], new)
<1> DEFINE payload == message.payloads[k]
           transition == changes[k].transition
           current == held[changes[k].item]
           base == updated[changes[k].item]
           applied == ApplyTo(base, transition)
           copied == CopyRecurrenceId(applied, payload)
<1>1. k \in DOMAIN changes /\ payload \in Component
  BY DEF Later, ReviewedOnto, Message
<1>2. ToOccurrence(message, held, payload, changes[k])
  BY DEF Later, ReviewedOnto, ToHeld
<1>3. changes[k].kind = "detach" /\ changes[k].item \in DOMAIN held
  BY <1>2 DEF Later, ToOccurrence, Masters
<1>4. /\ new = Finished(message, copied)
      /\ applied # Nothing
  BY <1>3 DEF WriteNew, Finished, CopyRecurrenceId
<1>5. /\ Passed(message, payload, current, transition) /\ ~IsMaster(payload)
      /\ current \in Component /\ RecurrenceId(current) = Nothing /\ AtMostOnce(current)
  BY <1>2, <1>3 DEF ToOccurrence, Masters, IsMaster
<1>6. base \in Component /\ AtMostOnce(base) /\ RecurrenceId(base) = Nothing
  BY <1>5 DEF SameInstance
<1>7. AtMostOnce(payload) /\ message.method \in Method
      /\ (message.method = "REPLY" => Len(payload.ATTENDEE) = 1)
  BY <1>1, <1>5, ConformingOnce DEF Passed, Message
<1> HIDE DEF payload, transition, current, base, copied
<1>8. base.RECURRENCE_ID = << >> /\ current.RECURRENCE_ID = << >>
  BY <1>5, <1>6, RecurrenceIdReads
<1>9. "RECURRENCE_ID" \in Name \ {"STATUS"} /\ "RECURRENCE_ID" # "ATTENDEE"
  BY DEF Name
<1>10. /\ applied \in Component /\ AtMostOnce(applied)
       /\ applied["RECURRENCE_ID"] = WriteLines(base["RECURRENCE_ID"], transition["RECURRENCE_ID"])
       /\ Writable(base["RECURRENCE_ID"], transition["RECURRENCE_ID"])
  BY <1>1, <1>4, <1>5, <1>6, <1>9, AppliedIsComponent
<1>11. base["RECURRENCE_ID"] \in Seq(InstanceRef) /\ payload["RECURRENCE_ID"] \in Seq(InstanceRef)
  BY <1>1, <1>6 DEF Component
<1> HIDE DEF applied
<1>12. applied.RECURRENCE_ID = << >> \/ applied.RECURRENCE_ID = payload.RECURRENCE_ID
  <2>1. CASE transition["RECURRENCE_ID"] = {}
    <3>1. EditedOnly(WriteLines(base["RECURRENCE_ID"], transition["RECURRENCE_ID"]),
                     base["RECURRENCE_ID"], 0, transition["RECURRENCE_ID"])
      BY <1>10, <1>11, <2>1, EditInPlace
    <3>2. QED
      BY <1>8, <1>10, <2>1, <3>1 DEF EditedOnly
  <2>2. CASE transition["RECURRENCE_ID"] = Restated(payload["RECURRENCE_ID"], current["RECURRENCE_ID"])
    BY <1>8, <1>10, <1>11, <2>2, RestatementLands
  <2>3. transition = NoChange => transition["RECURRENCE_ID"] = {}
    BY <1>9 DEF NoChange
  <2>4. message.method = "REPLY" /\ transition = DescribeReply(payload, current) =>
          transition["RECURRENCE_ID"] = {}
    BY <1>1, <1>5, <1>7, <1>9, ReplyChanges
  <2>5. QED
    BY <1>5, <1>9, <2>1, <2>2, <2>3, <2>4, TransitionForms
<1>13. /\ copied \in Component /\ AtMostOnce(copied)
       /\ copied["RECURRENCE_ID"] = payload["RECURRENCE_ID"]
  BY <1>1, <1>5, <1>7, <1>10, <1>12, CloneTakesTheAddress DEF copied
<1>14. /\ new \in Component /\ AtMostOnce(new)
       /\ new["RECURRENCE_ID"] = payload["RECURRENCE_ID"]
  BY <1>4, <1>9, <1>13, FinishedIsComponent
<1>15. QED
  BY <1>14 DEF SameInstance, RecurrenceId, Single, payload

(* What is held stays, each component that of its instance, and what is new *)
(* stands for an instance that had none.                                    *)
Grown(message, held, later, result) ==
  /\ Cardinality(later) \in Nat
  /\ ListsUpTo(result, Len(held) + Cardinality(later))
  /\ \A i \in 1..Len(held) : SameInstance(held[i], result[i])
  /\ \A j \in 1..Cardinality(later) :
       /\ Nth(later, j) \in DOMAIN message.payloads
       /\ SameInstance(message.payloads[Nth(later, j)], result[Len(held) + j])
       /\ \A i \in 1..Len(held) :
            CompareInstances(RecurrenceId(message.payloads[Nth(later, j)]), RecurrenceId(held[i]))
              = "different"
  /\ \A i, j \in 1..Cardinality(later) : i # j => Nth(later, i) # Nth(later, j)

LEMMA CreatedGrows ==
  ASSUME NEW message \in Message, Result(message, << >>) # Nothing
  PROVE  \E later : Grown(message, << >>, later, Result(message, << >>))
<1> DEFINE changes == Review(message, << >>)
           later == Later(changes)
<1>1. changes # Nothing /\ Result(message, << >>) = Apply(message, << >>, changes)
  BY DEF Result, Apply
<1>2. /\ DOMAIN changes = DOMAIN message.payloads
      /\ \A k \in DOMAIN changes : /\ changes[k].kind = "create"
                                   /\ CheckConformance(message.method, message.payloads[k])
  BY <1>1, ReviewCreates
<1> HIDE DEF changes
<1>3. PICK held : held = << >>
  OBVIOUS
<1>4. held \in Seq(Component) /\ Len(held) = 0
  BY <1>3
<1>5. PICK result : result = Result(message, held)
  OBVIOUS
<1>6. TwoPhases(message, held, changes, result)
  BY <1>1, <1>2, <1>3, <1>4, <1>5, AppliedInPhases
<1>7. ASSUME NEW k \in later
      PROVE  /\ k \in DOMAIN message.payloads
             /\ \A updated : WriteNew(message, updated, changes[k], message.payloads[k])
                               = message.payloads[k]
             /\ SameInstance(message.payloads[k], message.payloads[k])
  <2>1. k \in DOMAIN changes
    BY DEF Later
  <2>2. message.payloads[k] \in Component /\ message.method \in Method
    BY <1>2, <2>1 DEF Message
  <2>3. AtMostOnce(message.payloads[k])
    BY <1>2, <2>1, <2>2, ConformingOnce
  <2>4. \A updated : WriteNew(message, updated, changes[k], message.payloads[k]) = message.payloads[k]
    BY <1>2, <2>1 DEF WriteNew
  <2>5. QED
    BY <1>2, <2>1, <2>2, <2>3, <2>4 DEF SameInstance
<1> HIDE DEF later
<1>8. Grown(message, held, later, result)
  <2>1. /\ Cardinality(later) \in Nat
        /\ ListsUpTo(result, Len(held) + Cardinality(later))
        /\ \A j \in 1..Cardinality(later) :
             /\ Nth(later, j) \in later
             /\ result[Len(held) + j] = WriteNew(message, Updated(message, held, changes),
                                                 changes[Nth(later, j)], message.payloads[Nth(later, j)])
        /\ \A i, j \in 1..Cardinality(later) : i # j => Nth(later, i) # Nth(later, j)
    BY <1>6 DEF TwoPhases, later
  <2>2. \A j \in 1..Cardinality(later) :
          /\ Nth(later, j) \in DOMAIN message.payloads
          /\ SameInstance(message.payloads[Nth(later, j)], result[Len(held) + j])
    BY <1>7, <2>1
  <2>3. QED
    BY <1>4, <2>1, <2>2 DEF Grown
<1>9. QED
  BY <1>3, <1>5, <1>8

LEMMA HeldGrows ==
  ASSUME NEW message \in Message, NEW held \in Seq(Component), held # << >>,
         \A item \in DOMAIN held : AtMostOnce(held[item]), Result(message, held) # Nothing
  PROVE  \E later : Grown(message, held, later, Result(message, held))
<1> DEFINE changes == Review(message, held)
           later == Later(changes)
<1>1. changes # Nothing /\ Result(message, held) = Apply(message, held, changes)
  BY DEF Result, Apply
<1>2. ReviewedOnto(message, held, changes)
  BY <1>1, ReviewFindsComponents
<1> HIDE DEF changes
<1>3. PICK result : result = Result(message, held)
  OBVIOUS
<1> DEFINE updated == Updated(message, held, changes)
<1>4. TwoPhases(message, held, changes, result)
  BY <1>1, <1>2, <1>3, AppliedInPhases DEF ReviewedOnto
<1>5. DOMAIN held = 1..Len(held) /\ Len(held) \in Nat
  OBVIOUS
<1>6. ASSUME NEW i \in 1..Len(held)
      PROVE  /\ result[i] = WriteExisting(message, held, changes, i)
             /\ SameInstance(held[i], result[i])
  <2>1. result[i] = WriteExisting(message, held, changes, i) /\ result[i] # Nothing
    BY <1>4 DEF TwoPhases
  <2>2. HeldWritten(message, held, changes, i, WriteExisting(message, held, changes, i))
    BY <1>2, <1>5, <2>1, ExistingIsWritten
  <2>3. SameInstance(held[i], WriteExisting(message, held, changes, i))
    BY <1>2, <1>5, <2>2, HeldStaysItsInstance
  <2>4. QED
    BY <2>1, <2>3
<1>7. \A i \in 1..Len(held) : updated[i] = result[i]
  BY <1>5, <1>6 DEF Updated
<1> HIDE DEF updated
<1>8. ASSUME NEW k \in later
      PROVE  /\ k \in DOMAIN message.payloads
             /\ changes[k].item \in 1..Len(held)
             /\ \A i \in 1..Len(held) :
                  CompareInstances(RecurrenceId(message.payloads[k]), RecurrenceId(held[i])) = "different"
  <2>1. /\ k \in DOMAIN message.payloads
        /\ ToOccurrence(message, held, message.payloads[k], changes[k])
        /\ Matches(held, message.payloads[k], "ambiguous") = {}
    BY <1>2 DEF Later, ReviewedOnto, ToHeld
  <2>2. Matches(held, message.payloads[k], "same") = {} /\ changes[k].item \in 1..Len(held)
    BY <1>5, <2>1 DEF ToOccurrence, Masters
  <2>3. message.payloads[k] \in Component
    BY <2>1 DEF Message
  <2>4. ASSUME NEW i \in 1..Len(held)
        PROVE  CompareInstances(RecurrenceId(message.payloads[k]), RecurrenceId(held[i])) = "different"
    <3>1. CompareInstances(RecurrenceId(message.payloads[k]), RecurrenceId(held[i]))
            \in {"same", "ambiguous", "different"}
      BY <1>5, <2>3, RecurrenceIdReads, ComparesReferences
    <3>2. QED
      BY <1>5, <2>1, <2>2, <3>1 DEF Matches
  <2>5. QED
    BY <2>1, <2>2, <2>4
<1>9. ASSUME NEW k \in later, NEW new,
             new = WriteNew(message, updated, changes[k], message.payloads[k]), new # Nothing
      PROVE  SameInstance(message.payloads[k], new)
  <2>1. AtMostOnce(held[changes[k].item])
        /\ SameInstance(held[changes[k].item], updated[changes[k].item])
    BY <1>5, <1>6, <1>7, <1>8
  <2>2. QED
    BY <1>2, <1>9, <2>1, DetachedIsItsInstance
<1> HIDE DEF later
<1>10. /\ Cardinality(later) \in Nat
       /\ ListsUpTo(result, Len(held) + Cardinality(later))
       /\ \A j \in 1..Cardinality(later) :
            /\ Nth(later, j) \in later
            /\ result[Len(held) + j] = WriteNew(message, updated, changes[Nth(later, j)],
                                                message.payloads[Nth(later, j)])
            /\ result[Len(held) + j] # Nothing
       /\ \A i, j \in 1..Cardinality(later) : i # j => Nth(later, i) # Nth(later, j)
  BY <1>4 DEF TwoPhases, later, updated
<1>11. Grown(message, held, later, result)
  BY <1>6, <1>8, <1>9, <1>10 DEF Grown
<1>12. QED
  BY <1>3, <1>11

LEMMA GrownStaysOrderly ==
  ASSUME NEW message \in Message, ToldApart(message.payloads), NEW held \in Seq(Component),
         Orderly(held), NEW later, NEW result, Grown(message, held, later, result)
  PROVE  result \in Seq(Component) /\ Orderly(result)
<1> DEFINE m == Len(held)
           size == Cardinality(later)
           payloads == message.payloads
<1>1. m \in Nat /\ DOMAIN held = 1..m /\ payloads \in Seq(Component)
  BY DEF Message
<1> HIDE DEF m, size, payloads
<1>2. /\ size \in Nat
      /\ ListsUpTo(result, m + size)
      /\ \A i \in 1..m : SameInstance(held[i], result[i])
      /\ \A j \in 1..size :
           /\ Nth(later, j) \in DOMAIN payloads
           /\ SameInstance(payloads[Nth(later, j)], result[m + j])
           /\ \A i \in 1..m :
                CompareInstances(RecurrenceId(payloads[Nth(later, j)]), RecurrenceId(held[i])) = "different"
      /\ \A i, j \in 1..size : i # j => Nth(later, i) # Nth(later, j)
  BY DEF Grown, m, size, payloads
<1>3. DOMAIN result = 1..(m + size)
  BY <1>2 DEF ListsUpTo
<1>4. \A p \in 1..(m + size) : p \in 1..m \/ \E j \in 1..size : p = m + j
  <2>1. SUFFICES ASSUME NEW p \in 1..(m + size), p \notin 1..m PROVE \E j \in 1..size : p = m + j
    OBVIOUS
  <2>2. p - m \in 1..size /\ p = m + (p - m)
    BY <1>1, <1>2, <2>1
  <2>3. QED
    BY <2>2
<1>5. \A p \in 1..(m + size) : result[p] \in Component /\ AtMostOnce(result[p])
  BY <1>2, <1>4 DEF SameInstance
<1>6. result \in Seq(Component)
  <2>1. result \in [1..(m + size) -> Component] /\ m + size \in Nat
    BY <1>1, <1>2, <1>5 DEF ListsUpTo
  <2>2. QED
    BY <2>1
<1>7. \A p \in 1..m : RecurrenceId(result[p]) = RecurrenceId(held[p])
  BY <1>2 DEF SameInstance
<1>8. \A j \in 1..size : RecurrenceId(result[m + j]) = RecurrenceId(payloads[Nth(later, j)])
  BY <1>2 DEF SameInstance
<1>9. ASSUME NEW one \in 1..(m + size), NEW other \in 1..(m + size), one # other
      PROVE  CompareInstances(RecurrenceId(result[one]), RecurrenceId(result[other])) = "different"
  <2>1. CASE one \in 1..m /\ other \in 1..m
    BY <1>1, <1>7, <1>9, <2>1 DEF Orderly, ToldApart
  <2>2. ASSUME NEW i \in 1..m, NEW j \in 1..size
        PROVE  /\ CompareInstances(RecurrenceId(result[m + j]), RecurrenceId(result[i])) = "different"
               /\ CompareInstances(RecurrenceId(result[i]), RecurrenceId(result[m + j])) = "different"
    <3>1. CompareInstances(RecurrenceId(result[m + j]), RecurrenceId(result[i])) = "different"
      BY <1>2, <1>7, <1>8
    <3>2. RecurrenceId(result[i]) \in Reference /\ RecurrenceId(result[m + j]) \in Reference
      BY <1>2, RecurrenceIdReads DEF SameInstance
    <3>3. QED
      BY <3>1, <3>2, ComparesReferences
  <2>3. ASSUME NEW i \in 1..size, NEW j \in 1..size, i # j
        PROVE  CompareInstances(RecurrenceId(result[m + i]), RecurrenceId(result[m + j])) = "different"
    BY <1>2, <1>8, <2>3 DEF ToldApart, payloads
  <2>4. CASE one \in 1..m /\ other \notin 1..m
    BY <1>4, <2>2, <2>4
  <2>5. CASE one \notin 1..m /\ other \in 1..m
    BY <1>4, <2>2, <2>5
  <2>6. CASE one \notin 1..m /\ other \notin 1..m
    <3>1. PICK i \in 1..size : one = m + i
      BY <1>4, <2>6
    <3>2. PICK j \in 1..size : other = m + j
      BY <1>4, <2>6
    <3>3. i # j
      BY <1>9, <3>1, <3>2
    <3>4. QED
      BY <2>3, <3>1, <3>2, <3>3
  <2>7. QED
    BY <2>1, <2>4, <2>5, <2>6
<1>10. QED
  BY <1>3, <1>5, <1>6, <1>9 DEF Orderly, ToldApart

-------------------------------------------------------------------------------
(* One component per instance                                               *)

SchedulingInvariant ==
  /\ mail \in Exchanges
  /\ calendar \in Seq(Component)
  /\ OneComponentPerInstance

LEMMA DeliveryStaysOrderly ==
  ASSUME NEW message \in Message, ToldApart(message.payloads), NEW held \in Seq(Component),
         Orderly(held)
  PROVE  /\ Kept(Result(message, held), held) \in Seq(Component)
         /\ Orderly(Kept(Result(message, held), held))
<1>1. CASE Result(message, held) = Nothing
  BY <1>1 DEF Kept
<1>2. CASE Result(message, held) # Nothing
  <2>1. \E later : Grown(message, held, later, Result(message, held))
    <3>1. CASE held = << >>
      BY <1>2, <3>1, CreatedGrows
    <3>2. CASE held # << >>
      BY <1>2, <3>2, HeldGrows DEF Orderly
    <3>3. QED
      BY <3>1, <3>2
  <2>2. Result(message, held) \in Seq(Component) /\ Orderly(Result(message, held))
    BY <2>1, GrownStaysOrderly
  <2>3. QED
    BY <1>2, <2>2 DEF Kept
<1>3. QED
  BY <1>1, <1>2

LEMMA SchedulingInvariantHolds ==
  ASSUME OrderlyStart, DistinctPayloads
  PROVE  Spec => []SchedulingInvariant
<1>1. Init => SchedulingInvariant
  BY MailAssumption DEF MailAssumption, OrderlyStart, Init, SchedulingInvariant, OneComponentPerInstance
<1>2. SchedulingInvariant /\ [Next]_vars => SchedulingInvariant'
  <2>1. SUFFICES ASSUME SchedulingInvariant, [Next]_vars PROVE SchedulingInvariant'
    OBVIOUS
  <2>2. CASE UNCHANGED vars
    BY <2>1, <2>2 DEF SchedulingInvariant, OneComponentPerInstance, vars
  <2>3. CASE Next
    <3>1. PICK message \in mail : Deliver(message)
      BY <2>3 DEF Next
    <3>2. message \in Message /\ ToldApart(message.payloads)
      BY <2>1, MailAssumption DEF MailAssumption, DistinctPayloads, SchedulingInvariant
    <3>3. calendar \in Seq(Component) /\ Orderly(calendar)
      BY <2>1 DEF SchedulingInvariant, OneComponentPerInstance
    <3>4. /\ Kept(Result(message, calendar), calendar) \in Seq(Component)
          /\ Orderly(Kept(Result(message, calendar), calendar))
      BY <3>2, <3>3, DeliveryStaysOrderly
    <3>5. calendar' = Kept(Result(message, calendar), calendar) /\ mail' = mail
      BY <2>3, <3>1 DEF Deliver, Next
    <3>6. QED
      BY <2>1, <3>4, <3>5 DEF SchedulingInvariant, OneComponentPerInstance
  <2>4. QED
    BY <2>1, <2>2, <2>3
<1>3. QED
  BY <1>1, <1>2, PTL DEF Spec

(* No instance ever has two components, no two components could stand for   *)
(* one instance, and no name but ATTENDEE is ever stated twice, whatever    *)
(* the parties send, late, twice, out of order or never, if no message      *)
(* states one instance twice.                                               *)
THEOREM EveryInstanceHasOneComponent ==
  ASSUME OrderlyStart, DistinctPayloads
  PROVE  Spec => []OneComponentPerInstance
<1>1. Spec => []SchedulingInvariant
  BY SchedulingInvariantHolds
<1>2. SchedulingInvariant => OneComponentPerInstance
  BY DEF SchedulingInvariant
<1>3. QED
  BY <1>1, <1>2, PTL

-------------------------------------------------------------------------------
(* What an attendee may write                                               *)

LEMMA OnlyOrganizerIsOrganizer ==
  ASSUME NEW message \in Message, NEW payload, NEW current, NEW transition,
         Passed(message, payload, current, transition), message.from # Organizer
  PROVE  message.method # "CANCEL"
<1>1. ActorRole(current, message.from) # "organizer"
  BY DEF ActorRole
<1>2. QED
  BY <1>1 DEF Passed, SenderPermitted, OrganizerAuthored

LEMMA OwnLines ==
  ASSUME NEW at, NEW old, NEW new
  PROVE  /\ OwnLine(at, old, old)
         /\ \A other : OwnLine(at, old, other) /\ OwnLine(at, other, new) => OwnLine(at, old, new)
BY DEF OwnLine, KeepsParties

(* A held component, written by an attendee's message.                      *)
LEMMA AttendeeWritesHeld ==
  ASSUME NEW message \in Message, message.from # Organizer, NEW held \in Seq(Component), NEW changes,
         ReviewedOnto(message, held, changes), NEW item \in DOMAIN held,
         NEW new, HeldWritten(message, held, changes, item, new)
  PROVE  OwnLine(OccurrenceOf(held[item], message.from), held[item], new)
<1> DEFINE at == OccurrenceOf(held[item], message.from)
<1>1. ASSUME NEW k \in DOMAIN changes PROVE message.method # "CANCEL"
  <2>1. \E current : Passed(message, message.payloads[k], current, changes[k].transition)
    BY DEF ReviewedOnto, ToHeld, ToOccurrence
  <2>2. QED
    BY <2>1, OnlyOrganizerIsOrganizer
<1>2. CASE new = held[item]
  BY <1>2, OwnLines
<1>3. CASE DOMAIN changes # {} /\ new = Finished(message, held[item])
  BY <1>1, <1>2, <1>3 DEF Finished
<1>4. ASSUME NEW k \in DOMAIN changes,
             ToHeld(message, held, message.payloads[k], changes[k]), changes[k].item = item,
             ApplyTo(held[item], changes[k].transition) # Nothing,
             new = Finished(message, ApplyTo(held[item], changes[k].transition))
      PROVE  OwnLine(at, held[item], new)
  <2>1. new = ApplyTo(held[item], changes[k].transition)
    BY <1>1, <1>4 DEF Finished
  <2>2. message.payloads[k] \in Component
    BY DEF ReviewedOnto, Message
  <2>3. held[item] \in Component
    OBVIOUS
  <2>4. Passed(message, message.payloads[k], held[item], changes[k].transition)
    BY <1>4 DEF ToHeld
  <2>5. OwnLine(at, held[item], ApplyTo(held[item], changes[k].transition))
    BY <1>4, <2>2, <2>3, <2>4, AttendeeWrites
  <2>6. QED
    BY <2>1, <2>5
<1>5. QED
  BY <1>2, <1>3, <1>4 DEF HeldWritten

(* A component an attendee's message makes.                                 *)
LEMMA AttendeeWritesDetached ==
  ASSUME NEW message \in Message, message.from # Organizer, NEW held \in Seq(Component), NEW changes,
         ReviewedOnto(message, held, changes), NEW k \in Later(changes),
         NEW updated, SameInstance(held[changes[k].item], updated[changes[k].item]),
         OwnLine(OccurrenceOf(held[changes[k].item], message.from),
                 held[changes[k].item], updated[changes[k].item]),
         NEW new, new = WriteNew(message, updated, changes[k], message.payloads[k]), new # Nothing
  PROVE  /\ changes[k].item = MasterOf(held)
         /\ OwnLine(OccurrenceOf(held[changes[k].item], message.from), held[changes[k].item], new)
<1> DEFINE payload == message.payloads[k]
           transition == changes[k].transition
           current == held[changes[k].item]
           base == updated[changes[k].item]
           applied == ApplyTo(base, transition)
           at == OccurrenceOf(current, message.from)
<1>1. k \in DOMAIN changes /\ payload \in Component
  BY DEF Later, ReviewedOnto, Message
<1>2. ToOccurrence(message, held, payload, changes[k])
  BY DEF Later, ReviewedOnto, ToHeld
<1>3. /\ changes[k].kind = "detach" /\ changes[k].item \in DOMAIN held
      /\ changes[k].item = MasterOf(held)
  BY <1>2 DEF Later, ToOccurrence, Masters
<1>4. Passed(message, payload, current, transition) /\ current \in Component
  BY <1>2, <1>3 DEF ToOccurrence
<1>5. message.method # "CANCEL"
  BY <1>4, OnlyOrganizerIsOrganizer
<1>6. new = CopyRecurrenceId(applied, payload) /\ applied # Nothing
  BY <1>3, <1>5 DEF WriteNew, Finished, CopyRecurrenceId
<1>7. base \in Component /\ OwnLine(at, current, base)
  BY DEF SameInstance
<1> HIDE DEF payload, transition, current, base
<1>8. OwnLine(at, base, applied)
  BY <1>1, <1>4, <1>6, <1>7, AttendeeWrites DEF OwnLine, KeepsParties
<1>9. applied \in Component
  BY <1>1, <1>4, <1>6, <1>7, AppliedIsComponent
<1> HIDE DEF applied, at
<1>10. \A name \in Name \ {"RECURRENCE_ID"} : new[name] = applied[name]
  <2>1. applied = [name \in Name |-> applied[name]]
    BY <1>9, ComponentIsLines
  <2>2. QED
    BY <1>6, <2>1 DEF CopyRecurrenceId
<1>11. OwnLine(at, base, new)
  BY <1>8, <1>10 DEF OwnLine, Name
<1>12. OwnLine(at, current, new)
  BY <1>7, <1>11, OwnLines
<1>13. QED
  BY <1>3, <1>12 DEF at, current

LEMMA AttendeeDelivers ==
  ASSUME NEW message \in Message, message.from # Organizer, NEW held \in Seq(Component),
         Orderly(held), NEW new, new = Kept(Result(message, held), held), NEW item \in DOMAIN new,
         NEW old, old = IF item \in DOMAIN held THEN item ELSE MasterOf(held)
  PROVE  /\ DiffersOnlyFor(message.from, held[old], new[item])
         /\ item = old => RecurrenceId(new[item]) = RecurrenceId(held[item])
<1>1. SUFFICES /\ OwnLine(OccurrenceOf(held[old], message.from), held[old], new[item])
               /\ item = old => RecurrenceId(new[item]) = RecurrenceId(held[item])
  BY DEF OwnLine, KeepsParties, DiffersOnlyFor
<1>2. CASE Result(message, held) = Nothing
  BY <1>2, OwnLines DEF Kept
<1>3. CASE Result(message, held) # Nothing /\ held = << >>
  <2>1. PICK later : Grown(message, << >>, later, new)
    BY <1>3, CreatedGrows DEF Kept
  <2>2. DOMAIN message.payloads = {}
    <3>1. Review(message, << >>) # Nothing
      BY <1>3 DEF Result, Apply
    <3>2. QED
      BY <3>1, ReviewCreates
  <2>3. Cardinality(later) = 0
    BY <2>1, <2>2 DEF Grown
  <2>4. DOMAIN new = 1..0
    BY <2>1, <2>3 DEF Grown, ListsUpTo
  <2>5. QED
    BY <2>4
<1>4. CASE Result(message, held) # Nothing /\ held # << >>
  <2> DEFINE changes == Review(message, held)
             later == Later(changes)
             updated == Updated(message, held, changes)
  <2>1. changes # Nothing /\ new = Apply(message, held, changes)
    BY <1>4 DEF Kept, Result, Apply
  <2>2. ReviewedOnto(message, held, changes)
    BY <1>4, <2>1, ReviewFindsComponents
  <2>3. Apply(message, held, changes) # Nothing
    BY <1>4 DEF Result
  <2> HIDE DEF changes
  <2>4. TwoPhases(message, held, changes, new)
    BY <2>1, <2>2, <2>3, AppliedInPhases DEF ReviewedOnto
  <2>5. DOMAIN held = 1..Len(held) /\ Len(held) \in Nat
    OBVIOUS
  <2>6. ASSUME NEW i \in DOMAIN held
        PROVE  /\ SameInstance(held[i], new[i]) /\ updated[i] = new[i]
               /\ OwnLine(OccurrenceOf(held[i], message.from), held[i], new[i])
    <3>1. new[i] = WriteExisting(message, held, changes, i) /\ new[i] # Nothing
      BY <2>4, <2>5 DEF TwoPhases
    <3>2. HeldWritten(message, held, changes, i, new[i])
      BY <2>2, <3>1, ExistingIsWritten
    <3>3. SameInstance(held[i], new[i])
      BY <2>2, <3>2, HeldStaysItsInstance DEF Orderly
    <3>4. OwnLine(OccurrenceOf(held[i], message.from), held[i], new[i])
      BY <2>2, <3>2, AttendeeWritesHeld
    <3>5. QED
      BY <3>1, <3>3, <3>4 DEF Updated
  <2>7. CASE item \in DOMAIN held
    BY <2>6, <2>7 DEF SameInstance
  <2> HIDE DEF later, updated
  <2>8. CASE item \notin DOMAIN held
    <3>1. /\ Cardinality(later) \in Nat
          /\ ListsUpTo(new, Len(held) + Cardinality(later))
          /\ \A j \in 1..Cardinality(later) :
               /\ Nth(later, j) \in later
               /\ new[Len(held) + j] = WriteNew(message, updated, changes[Nth(later, j)],
                                                message.payloads[Nth(later, j)])
               /\ new[Len(held) + j] # Nothing
      BY <2>4 DEF TwoPhases, later, updated
    <3>2. item \in 1..(Len(held) + Cardinality(later))
      BY <3>1 DEF ListsUpTo
    <3>3. PICK j \in 1..Cardinality(later) : item = Len(held) + j
      <4>1. item - Len(held) \in 1..Cardinality(later) /\ item = Len(held) + (item - Len(held))
        BY <2>5, <2>8, <3>1, <3>2
      <4>2. QED
        BY <4>1
    <3>4. PICK k \in later : k = Nth(later, j)
      BY <3>1
    <3>5. new[item] = WriteNew(message, updated, changes[k], message.payloads[k])
          /\ new[item] # Nothing
      BY <3>1, <3>3, <3>4
    <3>6. changes[k].item \in DOMAIN held
      BY <2>2 DEF later, Later, ReviewedOnto, ToHeld, ToOccurrence, Masters
    <3>7. /\ changes[k].item = MasterOf(held)
          /\ OwnLine(OccurrenceOf(held[changes[k].item], message.from), held[changes[k].item], new[item])
      <4>1. /\ SameInstance(held[changes[k].item], updated[changes[k].item])
            /\ OwnLine(OccurrenceOf(held[changes[k].item], message.from),
                       held[changes[k].item], updated[changes[k].item])
        BY <2>6, <3>6
      <4>2. k \in Later(changes)
        BY DEF later
      <4>3. QED
        BY <2>2, <3>5, <4>1, <4>2, AttendeeWritesDetached
    <3>8. old = MasterOf(held) /\ item # old
      BY <2>8, <3>6, <3>7
    <3>9. QED
      BY <3>7, <3>8
  <2>9. QED
    BY <2>7, <2>8
<1>5. QED
  BY <1>2, <1>3, <1>4

(* Whatever an attendee sends, and however late it comes, no component      *)
(* changes but in that attendee's own ATTENDEE line and in DTSTAMP, and one *)
(* it makes appear differs from the series in nothing else but its address. *)
THEOREM AttendeesWriteTheirOwnLine ==
  ASSUME OrderlyStart, DistinctPayloads
  PROVE  Spec => AttendeeWritesOwnLineOnly
<1> DEFINE Writes ==
             \A message \in mail : message.from # Organizer /\ Deliver(message) =>
               \A item \in DOMAIN calendar' :
                 LET old == IF item \in DOMAIN calendar THEN item ELSE MasterOf(calendar) IN
                 /\ DiffersOnlyFor(message.from, calendar[old], calendar'[item])
                 /\ item = old => RecurrenceId(calendar'[item]) = RecurrenceId(calendar[item])
<1>1. Spec => []SchedulingInvariant
  BY SchedulingInvariantHolds
<1>2. SchedulingInvariant => [Writes]_vars
  <2>1. SUFFICES ASSUME SchedulingInvariant PROVE Writes
    OBVIOUS
  <2>2. SUFFICES ASSUME NEW message \in mail, message.from # Organizer, Deliver(message),
                        NEW item \in DOMAIN calendar'
                 PROVE  LET old == IF item \in DOMAIN calendar THEN item ELSE MasterOf(calendar)
                        IN  /\ DiffersOnlyFor(message.from, calendar[old], calendar'[item])
                            /\ item = old =>
                                 RecurrenceId(calendar'[item]) = RecurrenceId(calendar[item])
    OBVIOUS
  <2>3. message \in Message /\ calendar \in Seq(Component) /\ Orderly(calendar)
    BY <2>1, MailAssumption DEF MailAssumption, SchedulingInvariant, OneComponentPerInstance
  <2>4. calendar' = Kept(Result(message, calendar), calendar)
    BY <2>2 DEF Deliver
  <2>5. QED
    BY <2>2, <2>3, <2>4, AttendeeDelivers
<1>3. QED
  BY <1>1, <1>2, PTL DEF AttendeeWritesOwnLineOnly

-------------------------------------------------------------------------------
(* A newer invitation lands                                                 *)

(* An address of a party's mail that the calendar can look up.              *)
Resolved(ref) == ref = Nothing \/ ref.clock = "utc"

LEMMA EffectiveIsItsComponent ==
  ASSUME NEW held \in Seq(Component), Orderly(held), NEW item \in DOMAIN held,
         NEW ref \in Reference, CompareInstances(ref, RecurrenceId(held[item])) = "same"
  PROVE  /\ Own(held, ref) = {item}
         /\ Effective(held, ref) = held[item]
<1>1. \A other \in DOMAIN held : RecurrenceId(held[other]) \in Reference
  BY RecurrenceIdReads
<1>2. item \in Own(held, ref)
  BY DEF Own
<1>3. ASSUME NEW other \in Own(held, ref) PROVE other = item
  <2>1. other \in DOMAIN held /\ CompareInstances(ref, RecurrenceId(held[other])) = "same"
    BY DEF Own
  <2>2. /\ RecurrenceId(held[other]) = ref /\ RecurrenceId(held[item]) = ref
        /\ ref = Nothing \/ ref.clock = "utc"
    BY <1>1, <2>1, ComparesReferences
  <2>3. CompareInstances(RecurrenceId(held[other]), RecurrenceId(held[item])) = "same"
    BY <2>2, ComparesReferences
  <2>4. QED
    BY <2>1, <2>3 DEF Orderly, ToldApart
<1>4. Own(held, ref) = {item}
  BY <1>2, <1>3
<1>5. QED
  BY <1>4 DEF Effective

(* A payload that says nothing new of any line is the component.            *)
LEMMA NothingRestated ==
  ASSUME NEW S, NEW offered \in Seq(S), NEW held \in Seq(S), Restated(offered, held) = {}
  PROVE  offered = held
<1>1. DOMAIN offered = 1..Len(offered) /\ DOMAIN held = 1..Len(held)
      /\ Len(offered) \in Nat /\ Len(held) \in Nat
  OBVIOUS
<1>2. /\ DOMAIN offered \ DOMAIN held = {} /\ DOMAIN held \ DOMAIN offered = {}
      /\ \A j \in DOMAIN offered \cap DOMAIN held : offered[j] = held[j]
  BY DEF Restated
<1>3. DOMAIN offered = DOMAIN held
  BY <1>2, Zenon
<1>4. Len(offered) = Len(held)
  <2>1. PICK m \in Nat, n \in Nat : m = Len(offered) /\ n = Len(held)
    BY <1>1, Zenon
  <2>2. 1..m = 1..n
    BY <1>1, <1>3, <2>1
  <2>3. (m > 0 => m \in 1..n) /\ (n > 0 => n \in 1..m)
    BY <2>2
  <2>4. QED
    BY <2>1, <2>3
<1>5. QED
  BY <1>2, <1>3, <1>4

(* A restatement written onto what it was described against is the payload. *)
LEMMA RestatedIsStated ==
  ASSUME NEW payload \in Component, NEW current \in Component, NEW transition,
         transition = [name \in Name |-> Restated(payload[name], current[name])]
  PROVE  /\ IsEmpty(transition) => current = payload
         /\ ApplyTo(current, transition) # Nothing => ApplyTo(current, transition) = payload
<1>1. /\ payload = [name \in Name |-> payload[name]] /\ current = [name \in Name |-> current[name]]
      /\ \A name \in Name : payload[name] \in Seq(LineOf[name]) /\ current[name] \in Seq(LineOf[name])
  BY ComponentIsLines
<1>2. \A name \in Name : transition[name] = Restated(payload[name], current[name])
  OBVIOUS
<1>3. ASSUME IsEmpty(transition) PROVE current = payload
  <2>1. \A name \in Name : Restated(payload[name], current[name]) = {}
    BY <1>2, <1>3 DEF IsEmpty
  <2>2. \A name \in Name : payload[name] = current[name]
    BY <1>1, <2>1, NothingRestated
  <2>3. QED
    BY <1>1, <2>2
<1>4. ASSUME ApplyTo(current, transition) # Nothing PROVE ApplyTo(current, transition) = payload
  <2>1. /\ \A name \in Name : Writable(current[name], Restated(payload[name], current[name]))
        /\ ApplyTo(current, transition)
             = [name \in Name |-> WriteLines(current[name], transition[name])]
    BY <1>2, <1>4 DEF ApplyTo
  <2>2. \A name \in Name : WriteLines(current[name], Restated(payload[name], current[name])) = payload[name]
    BY <1>1, <2>1, RestatementLands
  <2>3. ApplyTo(current, transition) = [name \in Name |-> payload[name]]
    BY <1>2, <2>1, <2>2
  <2>4. QED
    BY <1>1, <2>3
<1>5. QED
  BY <1>3, <1>4

(* What an organizer states anew is a restatement.                          *)
LEMMA NewsIsRestated ==
  ASSUME NEW message \in Message, message.method = "REQUEST", NEW payload, NEW current, NEW transition,
         Passed(message, payload, current, transition),
         RevisionOf(current) = Nothing \/ Supersedes(RevisionOf(payload), RevisionOf(current))
  PROVE  transition = [name \in Name |-> Restated(payload[name], current[name])]
BY DEF Passed, Settle, DescribePayload

(* While the series it states is held, a request splits nothing off it.     *)
SeriesStatedAlone ==
  \A message \in mail :
    (/\ message.method = "REQUEST" /\ Masters(calendar) # {}
     /\ \E k \in DOMAIN message.payloads : IsMaster(message.payloads[k]))
    => \A k \in DOMAIN message.payloads : Own(calendar, RecurrenceId(message.payloads[k])) # {}

(* A newer invitation, and the change it proposes.                          *)
News(message, held) ==
  /\ message.method = "REQUEST"
  /\ \A k \in DOMAIN message.payloads : IsNews(held, message.payloads[k])

LEMMA NewsToHeld ==
  ASSUME NEW message \in Message, NEW held \in Seq(Component), Orderly(held), NEW changes,
         ReviewedOnto(message, held, changes), News(message, held), NEW k \in DOMAIN changes,
         ToHeld(message, held, message.payloads[k], changes[k]),
         WriteExisting(message, held, changes, changes[k].item) # Nothing
  PROVE  /\ changes[k].item \in DOMAIN held
         /\ WriteExisting(message, held, changes, changes[k].item) = message.payloads[k]
<1> DEFINE payload == message.payloads[k]
           item == changes[k].item
           transition == changes[k].transition
           ref == RecurrenceId(payload)
           mine == {l \in DOMAIN changes : changes[l].kind = "existing" /\ changes[l].item = item}
           real == {l \in mine : ~IsEmpty(changes[l].transition)}
<1>1. payload \in Component /\ k \in DOMAIN message.payloads
  BY DEF ReviewedOnto, Message
<1>2. /\ item \in DOMAIN held /\ held[item] \in Component
      /\ CompareInstances(ref, RecurrenceId(held[item])) = "same"
      /\ Passed(message, payload, held[item], transition) /\ changes[k].kind = "existing"
  BY DEF ToHeld, Matches
<1>3. Effective(held, ref) = held[item]
  BY <1>1, <1>2, RecurrenceIdReads, EffectiveIsItsComponent
<1>4. RevisionOf(held[item]) = Nothing \/ Supersedes(RevisionOf(payload), RevisionOf(held[item]))
  <2>1. IsNews(held, payload) /\ held[item] # Nothing
    BY <1>1, <1>2, NoneAssumption DEF NoneAssumption, News
  <2>2. QED
    BY <1>3, <2>1 DEF IsNews, VersionOf
<1>5. transition = [name \in Name |-> Restated(payload[name], held[item][name])]
  BY <1>2, <1>4, NewsIsRestated DEF News
<1>6. /\ IsEmpty(transition) => held[item] = payload
      /\ ApplyTo(held[item], transition) # Nothing => ApplyTo(held[item], transition) = payload
  BY <1>1, <1>2, <1>5, RestatedIsStated
<1>7. \A l \in real : l = k
  <2>1. SUFFICES ASSUME NEW l \in real, l # k PROVE FALSE
    OBVIOUS
  <2>2. l \in DOMAIN changes /\ changes[l].item = item /\ changes[l].kind = "existing"
    OBVIOUS
  <2>3. ToHeld(message, held, message.payloads[l], changes[l])
    BY DEF ReviewedOnto, ToOccurrence
  <2>4. /\ item \in Matches(held, message.payloads[l], "same")
        /\ item \in Matches(held, message.payloads[k], "same")
    BY <2>2, <2>3 DEF ToHeld
  <2>5. QED
    BY <2>1, <2>2, <2>4 DEF ReviewedOnto
<1>8. k \in mine
  BY <1>2
<1>9. WriteExisting(message, held, changes, item)
        = Finished(message, IF real = {} THEN held[item]
                            ELSE ApplyTo(held[item], changes[CHOOSE l \in real : TRUE].transition))
  BY <1>8 DEF WriteExisting
<1>10. message.method # "CANCEL"
  BY DEF News
<1>11. CASE real = {}
  <2>1. IsEmpty(transition)
    BY <1>8, <1>11
  <2>2. QED
    BY <1>2, <1>6, <1>9, <1>10, <1>11, <2>1 DEF Finished
<1>12. CASE real # {}
  <2>1. (CHOOSE l \in real : TRUE) = k
    BY <1>7, <1>12
  <2>2. WriteExisting(message, held, changes, item) = ApplyTo(held[item], transition)
    BY <1>9, <1>10, <1>12, <2>1 DEF Finished
  <2>3. QED
    BY <1>2, <1>6, <2>2
<1>13. QED
  BY <1>11, <1>12

LEMMA NewsToOccurrence ==
  ASSUME NEW message \in Message, NEW held \in Seq(Component), Orderly(held), NEW changes,
         ReviewedOnto(message, held, changes), News(message, held), NEW k \in DOMAIN changes,
         ToOccurrence(message, held, message.payloads[k], changes[k]),
         \A l \in DOMAIN changes : ~IsMaster(message.payloads[l])
  PROVE  /\ k \in Later(changes)
         /\ LET new == WriteNew(message, Updated(message, held, changes), changes[k],
                                message.payloads[k])
            IN  new # Nothing => new = message.payloads[k]
<1> DEFINE payload == message.payloads[k]
           item == changes[k].item
           transition == changes[k].transition
           current == held[item]
<1>1. payload \in Component /\ k \in DOMAIN message.payloads
  BY DEF ReviewedOnto, Message
<1>2. /\ item \in DOMAIN held /\ item = MasterOf(held) /\ Masters(held) # {}
      /\ RecurrenceId(current) = Nothing
      /\ Matches(held, payload, "same") = {} /\ ~IsMaster(payload)
      /\ Passed(message, payload, current, transition)
      /\ changes[k].kind = IF IsEmpty(transition) THEN "existing" ELSE "detach"
  BY DEF ToOccurrence, Masters, IsMaster
<1>3. current \in Component /\ AtMostOnce(current)
  BY <1>2 DEF Orderly
<1>4. Own(held, RecurrenceId(payload)) = {}
  BY <1>2 DEF Own, Matches
<1>5. Effective(held, RecurrenceId(payload)) = current
  BY <1>2, <1>4 DEF Effective
<1>6. RevisionOf(current) = Nothing \/ Supersedes(RevisionOf(payload), RevisionOf(current))
  <2>1. IsNews(held, payload) /\ current # Nothing
    BY <1>1, <1>3, NoneAssumption DEF NoneAssumption, News
  <2> HIDE DEF current
  <2>2. QED
    BY <1>5, <2>1 DEF IsNews, VersionOf
<1>7. transition = [name \in Name |-> Restated(payload[name], current[name])]
  BY <1>2, <1>6, NewsIsRestated DEF News
<1>8. /\ IsEmpty(transition) => current = payload
      /\ ApplyTo(current, transition) # Nothing => ApplyTo(current, transition) = payload
  BY <1>1, <1>3, <1>7, RestatedIsStated
<1>9. ~IsEmpty(transition) /\ changes[k].kind = "detach"
  BY <1>2, <1>8 DEF IsMaster
<1>10. k \in Later(changes)
  BY <1>9 DEF Later
<1>11. payload.RECURRENCE_ID # << >>
  <2>1. AtMostOnce(payload)
    BY <1>1, <1>2, ConformingOnce DEF Passed, Message
  <2>2. QED
    BY <1>1, <1>2, <2>1, RecurrenceIdReads DEF IsMaster
<1>12. message.method # "CANCEL"
  BY DEF News
<1>13. Updated(message, held, changes)[item] = current
  <2> DEFINE mine == {l \in DOMAIN changes : changes[l].kind = "existing" /\ changes[l].item = item}
             real == {l \in mine : ~IsEmpty(changes[l].transition)}
  <2>1. ASSUME NEW l \in real PROVE FALSE
    <3>1. l \in DOMAIN changes /\ changes[l].item = item
      OBVIOUS
    <3>2. ToHeld(message, held, message.payloads[l], changes[l])
      BY DEF ReviewedOnto, ToOccurrence
    <3>3. CompareInstances(RecurrenceId(message.payloads[l]), RecurrenceId(current)) = "same"
      BY <3>1, <3>2 DEF ToHeld, Matches
    <3>4. RecurrenceId(message.payloads[l]) = Nothing
      BY <1>2, <3>3 DEF CompareInstances
    <3>5. QED
      BY <3>1, <3>4 DEF IsMaster
  <2>2. real = {}
    BY <2>1
  <2>3. WriteExisting(message, held, changes, item) = current
    BY <1>12, <2>2 DEF WriteExisting, Finished
  <2>4. QED
    BY <1>2, <2>3 DEF Updated
<1>14. WriteNew(message, Updated(message, held, changes), changes[k], payload)
         = CopyRecurrenceId(ApplyTo(current, transition), payload)
  BY <1>9, <1>12, <1>13 DEF WriteNew, Finished
<1>15. CopyRecurrenceId(ApplyTo(current, transition), payload) # Nothing =>
         CopyRecurrenceId(ApplyTo(current, transition), payload) = payload
  BY <1>8, <1>11 DEF CopyRecurrenceId
<1>16. QED
  BY <1>10, <1>14, <1>15

LEMMA NewsIsWritten ==
  ASSUME NEW message \in Message, NEW held \in Seq(Component), Orderly(held), News(message, held),
         Result(message, held) # Nothing, NEW k \in DOMAIN message.payloads,
         Masters(held) # {} /\ (\E l \in DOMAIN message.payloads : IsMaster(message.payloads[l])) =>
           \A l \in DOMAIN message.payloads : Own(held, RecurrenceId(message.payloads[l])) # {}
  PROVE  \E item \in DOMAIN Result(message, held) : Result(message, held)[item] = message.payloads[k]
<1> DEFINE changes == Review(message, held)
           later == Later(changes)
           updated == Updated(message, held, changes)
<1>1. changes # Nothing /\ Result(message, held) = Apply(message, held, changes)
  BY DEF Result, Apply
<1>2. DOMAIN changes = DOMAIN message.payloads
  BY <1>1, ReviewCreates, ReviewFindsComponents DEF ReviewedOnto
<1>3. held # << >> => ReviewedOnto(message, held, changes)
  BY <1>1, ReviewFindsComponents
<1>4. held = << >> => changes[k].kind = "create"
  BY <1>1, ReviewCreates
<1> HIDE DEF changes
<1>5. PICK result : result = Result(message, held)
  OBVIOUS
<1>6. TwoPhases(message, held, changes, result)
  BY <1>1, <1>2, <1>5, AppliedInPhases
<1> HIDE DEF later, updated
<1>7. /\ Cardinality(later) \in Nat /\ Len(held) \in Nat
      /\ ListsUpTo(result, Len(held) + Cardinality(later))
      /\ \A i \in 1..Len(held) :
           result[i] = WriteExisting(message, held, changes, i) /\ result[i] # Nothing
      /\ \A j \in 1..Cardinality(later) :
           /\ result[Len(held) + j] = WriteNew(message, updated, changes[Nth(later, j)],
                                               message.payloads[Nth(later, j)])
           /\ result[Len(held) + j] # Nothing
      /\ \A l \in later : \E j \in 1..Cardinality(later) : Nth(later, j) = l
  BY <1>6 DEF TwoPhases, later, updated
<1>8. DOMAIN result = 1..(Len(held) + Cardinality(later))
  BY <1>7 DEF ListsUpTo
<1>9. ASSUME k \in later,
             LET new == WriteNew(message, updated, changes[k], message.payloads[k])
             IN  new # Nothing => new = message.payloads[k]
      PROVE  \E item \in DOMAIN result : result[item] = message.payloads[k]
  <2>1. PICK j \in 1..Cardinality(later) : Nth(later, j) = k
    BY <1>7, <1>9
  <2>2. result[Len(held) + j] = message.payloads[k]
    BY <1>7, <1>9, <2>1
  <2>3. Len(held) + j \in DOMAIN result
    BY <1>7, <1>8
  <2>4. QED
    BY <2>2, <2>3
<1>10. CASE held = << >>
  <2>1. k \in later
    BY <1>2, <1>4, <1>10 DEF later, Later
  <2>2. WriteNew(message, updated, changes[k], message.payloads[k]) = message.payloads[k]
    BY <1>4, <1>10 DEF WriteNew
  <2>3. QED
    BY <1>5, <1>9, <2>1, <2>2
<1>11. CASE held # << >> /\ ToHeld(message, held, message.payloads[k], changes[k])
  <2>1. changes[k].item \in 1..Len(held)
    BY <1>11 DEF ToHeld, Matches
  <2>2. result[changes[k].item] = message.payloads[k]
    BY <1>2, <1>3, <1>7, <1>11, <2>1, NewsToHeld
  <2>3. changes[k].item \in DOMAIN result
    BY <1>7, <1>8, <2>1
  <2>4. QED
    BY <1>5, <2>2, <2>3
<1>12. CASE held # << >> /\ ToOccurrence(message, held, message.payloads[k], changes[k])
  <2>1. Own(held, RecurrenceId(message.payloads[k])) = {}
    BY <1>12 DEF ToOccurrence, Own, Matches
  <2>2. \A l \in DOMAIN changes : ~IsMaster(message.payloads[l])
    BY <1>2, <1>12, <2>1 DEF ToOccurrence
  <2>3. /\ k \in Later(changes)
        /\ LET new == WriteNew(message, Updated(message, held, changes), changes[k],
                               message.payloads[k])
           IN  new # Nothing => new = message.payloads[k]
    BY <1>2, <1>3, <1>12, <2>2, NewsToOccurrence
  <2>4. QED
    BY <1>5, <1>9, <2>3 DEF later, updated
<1>13. QED
  BY <1>2, <1>3, <1>10, <1>11, <1>12 DEF ReviewedOnto

LEMMA NewsLands ==
  ASSUME NEW message \in Message, ToldApart(message.payloads), NEW held \in Seq(Component),
         Orderly(held), News(message, held), Result(message, held) # Nothing,
         NEW k \in DOMAIN message.payloads, Resolved(RecurrenceId(message.payloads[k])),
         Masters(held) # {} /\ (\E l \in DOMAIN message.payloads : IsMaster(message.payloads[l])) =>
           \A l \in DOMAIN message.payloads : Own(held, RecurrenceId(message.payloads[l])) # {}
  PROVE  Effective(Result(message, held), RecurrenceId(message.payloads[k])) = message.payloads[k]
<1> DEFINE ref == RecurrenceId(message.payloads[k])
<1>1. PICK result : result = Result(message, held)
  OBVIOUS
<1>2. result \in Seq(Component) /\ Orderly(result)
  BY <1>1, DeliveryStaysOrderly DEF Kept
<1>3. PICK item \in DOMAIN result : result[item] = message.payloads[k]
  BY <1>1, NewsIsWritten
<1>4. ref \in Reference
  BY <1>2, <1>3, RecurrenceIdReads
<1>5. CompareInstances(ref, RecurrenceId(result[item])) = "same"
  BY <1>3, <1>4, ComparesReferences DEF Resolved
<1> HIDE DEF ref
<1>6. Effective(result, ref) = result[item]
  BY <1>2, <1>4, <1>5, EffectiveIsItsComponent
<1>7. QED
  BY <1>1, <1>3, <1>6 DEF ref

(* A newer invitation that is taken leaves every instance it states as the  *)
(* organizer stated it, whatever the calendar had before: all of the new    *)
(* lines, none of the old, if no request splits an instance off the series  *)
(* it also restates.                                                        *)
THEOREM InvitationsLand ==
  ASSUME OrderlyStart, DistinctPayloads
  PROVE  Spec /\ []SeriesStatedAlone => []InvitationLands
<1>1. Spec => []SchedulingInvariant
  BY SchedulingInvariantHolds
<1>2. SchedulingInvariant /\ SeriesStatedAlone => InvitationLands
  <2>1. SUFFICES ASSUME SchedulingInvariant, SeriesStatedAlone, NEW message \in mail,
                        message.method = "REQUEST", Result(message, calendar) # Nothing,
                        \A k \in DOMAIN message.payloads : IsNews(calendar, message.payloads[k]),
                        NEW k \in DOMAIN message.payloads,
                        RecurrenceId(message.payloads[k]) \in Instance
                 PROVE  Effective(Result(message, calendar), RecurrenceId(message.payloads[k]))
                          = message.payloads[k]
    BY DEF InvitationLands, Rejected
  <2>2. message \in Message /\ ToldApart(message.payloads)
        /\ calendar \in Seq(Component) /\ Orderly(calendar)
    BY <2>1, MailAssumption
       DEF MailAssumption, DistinctPayloads, SchedulingInvariant, OneComponentPerInstance
  <2>3. Resolved(RecurrenceId(message.payloads[k]))
    BY <2>1 DEF Instance, Resolved
  <2>4. News(message, calendar)
    BY <2>1 DEF News
  <2>5. Masters(calendar) # {} /\ (\E l \in DOMAIN message.payloads : IsMaster(message.payloads[l])) =>
          \A l \in DOMAIN message.payloads : Own(calendar, RecurrenceId(message.payloads[l])) # {}
    BY <2>1 DEF SeriesStatedAlone
  <2>6. QED
    BY <2>1, <2>2, <2>3, <2>4, <2>5, NewsLands
<1>3. QED
  BY <1>1, <1>2, PTL

-------------------------------------------------------------------------------
(* Nothing else changes                                                     *)

(* A payload in the version on record.                                      *)
Repeats(held, payload) ==
  LET version == VersionOf(held, RecurrenceId(payload))
      stated == RevisionOf(payload)
  IN  /\ version # Nothing /\ stated # Nothing
      /\ ~Supersedes(stated, version) /\ ~Supersedes(version, stated)

(* A cancellation of an occurrence states another version than the series.  *)
CancelsInItsOwnVersion(message, held) ==
  message.method = "CANCEL" =>
    \A k \in DOMAIN message.payloads :
      Own(held, RecurrenceId(message.payloads[k])) = {} => ~Repeats(held, message.payloads[k])

CancellationsAreVersions == \A message \in mail : CancelsInItsOwnVersion(message, calendar)

(* Such a cancellation of an occurrence makes a component of its own.       *)
LEMMA CancelledOccurrenceIsDetached ==
  ASSUME NEW message \in Message, message.method = "CANCEL", NEW held \in Seq(Component),
         Orderly(held), NEW payload \in Component, NEW change,
         ToOccurrence(message, held, payload, change),
         Own(held, RecurrenceId(payload)) = {} => ~Repeats(held, payload)
  PROVE  change.kind = "detach"
<1> DEFINE current == held[change.item]
           transition == change.transition
<1>1. /\ change.item \in DOMAIN held /\ change.item = MasterOf(held) /\ Masters(held) # {}
      /\ RecurrenceId(current) = Nothing
      /\ Matches(held, payload, "same") = {} /\ ~IsMaster(payload)
      /\ Passed(message, payload, current, transition)
      /\ change.kind = IF IsEmpty(transition) THEN "existing" ELSE "detach"
  BY DEF ToOccurrence, Masters, IsMaster
<1>2. current \in Component
  BY <1>1
<1>3. Own(held, RecurrenceId(payload)) = {}
  BY <1>1 DEF Own, Matches
<1>4. Effective(held, RecurrenceId(payload)) = current
  BY <1>1, <1>3 DEF Effective
<1> HIDE DEF current, transition
<1>5. RevisionOf(current) = Nothing \/ Supersedes(RevisionOf(payload), RevisionOf(current))
  <2>1. RevisionOf(payload) # Nothing
        /\ (RevisionOf(current) # Nothing => ~Supersedes(RevisionOf(current), RevisionOf(payload)))
    BY <1>1 DEF Passed, CheckRevision, IsStaleAgainst
  <2>2. QED
    BY <1>2, <1>3, <1>4, <2>1, NoneAssumption DEF NoneAssumption, Repeats, VersionOf
<1>6. transition = [name \in Name |-> Restated(payload[name], current[name])]
  BY <1>1, <1>5 DEF Passed, Settle, DescribePayload
<1>7. IsEmpty(transition) => current = payload
  BY <1>2, <1>6, RestatedIsStated
<1>8. QED
  BY <1>1, <1>7 DEF IsMaster

LEMMA UnaddressedStays ==
  ASSUME NEW message \in Message, NEW held \in Seq(Component), Orderly(held), NEW changes,
         ReviewedOnto(message, held, changes), NEW item \in DOMAIN held,
         RecurrenceId(held[item]) \notin Addressed(message),
         CancelsInItsOwnVersion(message, held)
  PROVE  WriteExisting(message, held, changes, item) = held[item]
<1> DEFINE mine == {k \in DOMAIN changes : changes[k].kind = "existing" /\ changes[k].item = item}
           real == {k \in mine : ~IsEmpty(changes[k].transition)}
<1>1. ASSUME NEW k \in mine PROVE IsEmpty(changes[k].transition) /\ message.method # "CANCEL"
  <2>1. k \in DOMAIN changes /\ k \in DOMAIN message.payloads /\ message.payloads[k] \in Component
        /\ changes[k].kind = "existing" /\ changes[k].item = item
    BY DEF ReviewedOnto, Message
  <2>2. ~ToHeld(message, held, message.payloads[k], changes[k])
    <3>1. SUFFICES ASSUME ToHeld(message, held, message.payloads[k], changes[k]) PROVE FALSE
      OBVIOUS
    <3>2. CompareInstances(RecurrenceId(message.payloads[k]), RecurrenceId(held[item])) = "same"
      BY <2>1, <3>1 DEF ToHeld, Matches
    <3>3. RecurrenceId(message.payloads[k]) = RecurrenceId(held[item])
      BY <2>1, <3>2, RecurrenceIdReads, ComparesReferences
    <3>4. RecurrenceId(message.payloads[k]) \in Addressed(message)
      BY <2>1 DEF Addressed
    <3>5. QED
      BY <3>3, <3>4
  <2>3. ToOccurrence(message, held, message.payloads[k], changes[k])
    BY <2>1, <2>2 DEF ReviewedOnto
  <2>4. message.method # "CANCEL"
    BY <2>1, <2>3, CancelledOccurrenceIsDetached DEF CancelsInItsOwnVersion
  <2>5. QED
    BY <2>1, <2>3, <2>4 DEF ToOccurrence
<1>2. real = {}
  BY <1>1
<1>3. CASE mine = {}
  BY <1>3 DEF WriteExisting
<1>4. CASE mine # {}
  BY <1>1, <1>2, <1>4 DEF WriteExisting, Finished
<1>5. QED
  BY <1>3, <1>4

LEMMA UnaddressedInstanceStays ==
  ASSUME NEW message \in Message, ToldApart(message.payloads), NEW held \in Seq(Component),
         Orderly(held), NEW new, new = Kept(Result(message, held), held),
         CancelsInItsOwnVersion(message, held),
         NEW i \in Reference, i \notin Addressed(message),
         Own(held, i) # {} \/ Nothing \notin Addressed(message)
  PROVE  Effective(new, i) = Effective(held, i)
<1>1. SUFFICES ASSUME Result(message, held) # Nothing PROVE Effective(new, i) = Effective(held, i)
  BY DEF Kept
<1>2. new = Result(message, held)
  BY <1>1 DEF Kept
<1>3. new \in Seq(Component) /\ Orderly(new)
  BY <1>2, DeliveryStaysOrderly DEF Kept
<1>4. PICK later : Grown(message, held, later, new)
  <2>1. CASE held = << >>
    BY <1>1, <1>2, <2>1, CreatedGrows
  <2>2. CASE held # << >>
    BY <1>1, <1>2, <2>2, HeldGrows DEF Orderly
  <2>3. QED
    BY <2>1, <2>2
<1>5. DOMAIN held = 1..Len(held) /\ Len(held) \in Nat
  OBVIOUS
<1>6. /\ Cardinality(later) \in Nat
      /\ DOMAIN new = 1..(Len(held) + Cardinality(later))
      /\ \A item \in DOMAIN held : item \in DOMAIN new /\ RecurrenceId(new[item]) = RecurrenceId(held[item])
      /\ \A item \in DOMAIN new : item \notin DOMAIN held => RecurrenceId(new[item]) \in Addressed(message)
  <2>1. /\ Cardinality(later) \in Nat
        /\ DOMAIN new = 1..(Len(held) + Cardinality(later))
        /\ \A item \in 1..Len(held) : RecurrenceId(new[item]) = RecurrenceId(held[item])
    BY <1>4 DEF Grown, ListsUpTo, SameInstance
  <2>2. \A j \in 1..Cardinality(later) : RecurrenceId(new[Len(held) + j]) \in Addressed(message)
    BY <1>4 DEF Grown, SameInstance, Addressed
  <2>3. ASSUME NEW item \in DOMAIN new, item \notin DOMAIN held
        PROVE  RecurrenceId(new[item]) \in Addressed(message)
    <3>1. item - Len(held) \in 1..Cardinality(later) /\ item = Len(held) + (item - Len(held))
      BY <1>5, <2>1, <2>3
    <3>2. QED
      BY <2>2, <3>1
  <2>4. QED
    BY <1>5, <2>1, <2>3
<1>7. ASSUME NEW item \in DOMAIN held, RecurrenceId(held[item]) \notin Addressed(message)
      PROVE  new[item] = held[item]
  <2> DEFINE changes == Review(message, held)
  <2>1. changes # Nothing /\ new = Apply(message, held, changes) /\ held # << >>
    BY <1>1, <1>2, <1>7 DEF Result, Apply
  <2>2. ReviewedOnto(message, held, changes)
    BY <2>1, ReviewFindsComponents
  <2>3. Apply(message, held, changes) # Nothing
    BY <1>1, <1>2, <2>1
  <2> HIDE DEF changes
  <2>4. TwoPhases(message, held, changes, new)
    BY <2>1, <2>2, <2>3, AppliedInPhases DEF ReviewedOnto
  <2>5. new[item] = WriteExisting(message, held, changes, item)
    BY <1>5, <2>4 DEF TwoPhases
  <2>6. QED
    BY <1>7, <2>2, <2>5, UnaddressedStays
<1>8. CASE Own(held, i) # {}
  <2>1. PICK item \in DOMAIN held : CompareInstances(i, RecurrenceId(held[item])) = "same"
    BY <1>8 DEF Own
  <2>2. RecurrenceId(held[item]) = i
    BY <2>1, RecurrenceIdReads, ComparesReferences
  <2>3. new[item] = held[item]
    BY <1>7, <2>2
  <2>4. Effective(held, i) = held[item]
    BY <2>1, EffectiveIsItsComponent
  <2>5. item \in DOMAIN new /\ CompareInstances(i, RecurrenceId(new[item])) = "same"
    BY <1>6, <2>1
  <2>6. Effective(new, i) = new[item]
    BY <1>3, <2>5, EffectiveIsItsComponent
  <2>7. QED
    BY <2>3, <2>4, <2>6
<1>9. CASE Own(held, i) = {}
  <2>1. Nothing \notin Addressed(message)
    BY <1>9
  <2>2. Own(new, i) = {}
    <3>1. SUFFICES ASSUME NEW item \in DOMAIN new, CompareInstances(i, RecurrenceId(new[item])) = "same"
                   PROVE  FALSE
      BY DEF Own
    <3>2. RecurrenceId(new[item]) = i
      BY <1>3, <3>1, RecurrenceIdReads, ComparesReferences
    <3>3. item \in DOMAIN held
      BY <1>6, <3>2
    <3>4. CompareInstances(i, RecurrenceId(held[item])) = "same"
      BY <1>6, <3>1, <3>3
    <3>5. QED
      BY <1>9, <3>3, <3>4 DEF Own
  <2>3. Masters(new) = Masters(held)
    BY <1>6, <2>1 DEF Masters, IsMaster
  <2>4. MasterOf(new) = MasterOf(held)
    BY <2>3 DEF MasterOf
  <2>5. ASSUME Masters(held) # {} PROVE new[MasterOf(held)] = held[MasterOf(held)]
    <3>1. MasterOf(held) \in DOMAIN held /\ RecurrenceId(held[MasterOf(held)]) = Nothing
      BY <2>5, MasterIsHeld DEF Masters, IsMaster
    <3>2. QED
      BY <1>7, <2>1, <3>1
  <2>6. QED
    BY <1>9, <2>2, <2>3, <2>4, <2>5 DEF Effective
<1>10. QED
  BY <1>8, <1>9

LEMMA InstancesAreReferences == Instance \subseteq Reference
<1>1. SUFFICES ASSUME NEW i \in Instance, i # Nothing PROVE i \in Reference
  BY DEF Reference
<1>2. PICK message \in UNION Exchanges : i \in Addressed(message)
  BY <1>1 DEF Instance
<1>3. PICK k \in DOMAIN message.payloads : i = RecurrenceId(message.payloads[k])
  BY <1>2 DEF Addressed
<1>4. message.payloads[k] \in Component
  BY <1>2, <1>3, MailAssumption DEF MailAssumption, Message
<1>5. QED
  BY <1>3, <1>4, RecurrenceIdReads

(* A message changes no instance but those it is about, and the occurrences *)
(* of the series if it is about the series: the positions that were         *)
(* reviewed are the ones that are written, if no cancellation of an         *)
(* occurrence repeats a version of the series.                              *)
THEOREM OtherInstancesStay ==
  ASSUME OrderlyStart, DistinctPayloads
  PROVE  Spec /\ []CancellationsAreVersions => OnlyAddressedInstancesChange
<1> DEFINE Stay ==
             \A message \in mail : Deliver(message) =>
               \A i \in Instance \ Addressed(message) :
                 (Own(calendar, i) # {} \/ Nothing \notin Addressed(message)) =>
                   Effective(calendar', i) = Effective(calendar, i)
<1>1. Spec => []SchedulingInvariant
  BY SchedulingInvariantHolds
<1>2. SchedulingInvariant /\ CancellationsAreVersions => [Stay]_vars
  <2>1. SUFFICES ASSUME SchedulingInvariant, CancellationsAreVersions, NEW message \in mail, Deliver(message),
                        NEW i \in Instance \ Addressed(message),
                        Own(calendar, i) # {} \/ Nothing \notin Addressed(message)
                 PROVE  Effective(calendar', i) = Effective(calendar, i)
    OBVIOUS
  <2>2. message \in Message /\ ToldApart(message.payloads)
        /\ calendar \in Seq(Component) /\ Orderly(calendar)
    BY <2>1, MailAssumption
       DEF MailAssumption, DistinctPayloads, SchedulingInvariant, OneComponentPerInstance
  <2>3. calendar' = Kept(Result(message, calendar), calendar)
    BY <2>1 DEF Deliver
  <2>4. CancelsInItsOwnVersion(message, calendar)
    BY <2>1 DEF CancellationsAreVersions
  <2>5. i \in Reference
    BY <2>1, InstancesAreReferences
  <2>6. QED
    BY <2>1, <2>2, <2>3, <2>4, <2>5, UnaddressedInstanceStays
<1>3. QED
  BY <1>1, <1>2, PTL DEF OnlyAddressedInstancesChange

-------------------------------------------------------------------------------
(* The answer book                                                          *)

(* A list of at most one line.                                              *)
LEMMA ShortList ==
  ASSUME NEW S, NEW list \in Seq(S), Len(list) <= 1
  PROVE  \/ list = << >> /\ Len(list) = 0 /\ DOMAIN list = {}
         \/ list # << >> /\ Len(list) = 1 /\ DOMAIN list = {1}
<1>1. PICK m \in Nat : m = Len(list)
  OBVIOUS
<1>2. m = 0 \/ m = 1
  BY <1>1
<1>3. CASE m = 0
  <2>1. list # << >> => Len(list) # 0
    OBVIOUS
  <2>2. QED
    BY <1>1, <1>3, <2>1
<1>4. CASE m = 1
  <2>1. Len(list) = 1
    BY <1>1, <1>4
  <2>2. QED
    BY <2>1, OneLine
<1>5. QED
  BY <1>2, <1>3, <1>4

(* What is written of a name that is stated at most once: the line a        *)
(* message has changed, or else the line there was.                         *)
LEMMA OneLineWritten ==
  ASSUME NEW S, NEW offered \in Seq(S), NEW held \in Seq(S), NEW lines \in Seq(S),
         Len(offered) <= 1, Len(held) <= 1, Len(lines) <= 1,
         Writable(lines, Restated(offered, held))
  PROVE  WriteLines(lines, Restated(offered, held)) = IF offered = held THEN lines ELSE offered
<1> DEFINE changes == Restated(offered, held)
           result == WriteLines(lines, changes)
           gone == Of(changes, "remove")
           adds == Of(changes, "add")
<1>1. /\ \/ offered = << >> /\ Len(offered) = 0 /\ DOMAIN offered = {}
         \/ offered # << >> /\ Len(offered) = 1 /\ DOMAIN offered = {1}
      /\ \/ held = << >> /\ Len(held) = 0 /\ DOMAIN held = {}
         \/ held # << >> /\ Len(held) = 1 /\ DOMAIN held = {1}
      /\ \/ lines = << >> /\ Len(lines) = 0 /\ DOMAIN lines = {}
         \/ lines # << >> /\ Len(lines) = 1 /\ DOMAIN lines = {1}
  BY ShortList
<1>2. CASE offered = held
  <2>1. changes = {}
    BY <1>2 DEF Restated
  <2>2. EditedOnly(WriteLines(lines, changes), lines, 0, changes)
    BY <2>1, EditInPlace
  <2>3. QED
    BY <1>2, <2>1, <2>2 DEF EditedOnly
<1>3. CASE held = << >> /\ offered # << >>
  <2>1. \E n \in Nat : Restating(result, offered, held, lines, n)
    BY RestatementLines
  <2>2. Len(lines) = 0
    BY <1>1, <1>3, <2>1 DEF Restating
  <2>3. lines = held /\ offered # held
    BY <1>1, <1>3, <2>2
  <2>4. QED
    BY <2>3, RestatementLands
<1>4. CASE held # << >> /\ offered = << >>
  <2>1. Len(held) = 1 /\ Len(offered) = 0
    BY <1>1, <1>4
  <2>2. LET o == Len(offered)
             h == Len(held)
         IN  /\ adds # {} <=> h < o
             /\ Cardinality(adds) = IF h < o THEN o - h ELSE 0
             /\ gone # {} <=> o < h
             /\ gone # {} => First(gone) = o + 1
             /\ Cardinality(gone) = IF o < h THEN h - o ELSE 0
    BY RestatementCounts
  <2>3. adds = {} /\ Cardinality(adds) = 0 /\ gone # {} /\ Cardinality(gone) = 1 /\ First(gone) = 1
    BY <2>1, <2>2
  <2>4. Len(lines) = 1
    <3>1. First(gone) + 2 * (Cardinality(gone) - 1) <= Len(lines)
      BY <2>3 DEF Writable
    <3>2. QED
      BY <1>1, <2>3, <3>1
  <2>5. Len(lines) + Cardinality(adds) - Cardinality(gone) = 0
    BY <2>3, <2>4
  <2>6. DOMAIN result = 1..(Len(lines) + Cardinality(adds) - Cardinality(gone))
        /\ result = [i \in DOMAIN result |-> result[i]]
    <3> DEFINE removed == Cardinality(gone)
               kept(i) == CASE removed = 0 \/ i < First(gone) -> i
                            [] removed > 0 /\ i >= First(gone) /\ i < First(gone) + removed ->
                                 2 * i - First(gone) + 1
                            [] removed > 0 /\ i >= First(gone) + removed -> i + removed
               edit(i) == CHOOSE change \in changes \ gone : change.index = i
               line(i) == CASE \A change \in changes \ gone : change.index # kept(i) -> lines[kept(i)]
                            [] \E change \in changes \ gone : change.index = kept(i) ->
                                 IF edit(kept(i)).kind = "parameters"
                                 THEN SetParameters(lines[kept(i)], edit(kept(i)).line)
                                 ELSE edit(kept(i)).line
    <3>1. result = [i \in 1..(Len(lines) + Cardinality(adds) - removed) |-> line(i)]
      BY DEF WriteLines
    <3> HIDE DEF line, result
    <3>2. QED
      BY <3>1
  <2> HIDE DEF result, adds, gone
  <2>7. DOMAIN result = {}
    BY <2>5, <2>6
  <2>8. result = << >>
    BY <2>6, <2>7
  <2>9. QED
    BY <1>4, <2>8 DEF result
<1>5. CASE held # << >> /\ offered # << >> /\ offered # held
  <2>1. DOMAIN offered = {1} /\ DOMAIN held = {1} /\ Len(offered) = 1 /\ Len(held) = 1
    BY <1>1, <1>5
  <2>2. offered[1] # held[1]
    BY <1>5, <2>1
  <2>3. changes = {Change(1, "replace", offered[1])}
    BY <2>1, <2>2 DEF Restated
  <2>4. /\ Change(1, "replace", offered[1]).index = 1
        /\ Change(1, "replace", offered[1]).kind = "replace"
        /\ Change(1, "replace", offered[1]).line = offered[1]
    BY DEF Change
  <2>5. EditedOnly(WriteLines(lines, changes), lines, 1, changes)
    BY <2>3, <2>4, EditInPlace
  <2>6. ListsUpTo(result, Len(lines)) /\ 1 \in 1..Len(lines) /\ result[1] = offered[1]
    BY <2>3, <2>4, <2>5 DEF EditedOnly, Edited
  <2> HIDE DEF result, changes
  <2>7. Len(lines) = 1
    BY <1>1, <2>6
  <2>8. result = [i \in 1..1 |-> offered[i]]
    BY <2>6, <2>7 DEF ListsUpTo
  <2>9. offered = [i \in 1..1 |-> offered[i]]
    BY <2>1
  <2>10. QED
    BY <1>5, <2>8, <2>9 DEF result, changes
<1>6. QED
  BY <1>2, <1>3, <1>4, <1>5

(* Every message is stamped once.                                           *)
LEMMA StampedOnce ==
  ASSUME NEW method \in Method, NEW payload \in Component, CheckConformance(method, payload)
  PROVE  /\ payload.DTSTAMP = <<Single(payload, "DTSTAMP")>>
         /\ Single(payload, "DTSTAMP") \in Nat
<1>1. CancelRow["DTSTAMP"] = "one" /\ DOMAIN CancelRow = Name /\ "DTSTAMP" \in Name
  BY DEF CancelRow, Name
<1>2. /\ PublishRow["DTSTAMP"] = "one" /\ RequestRow["DTSTAMP"] = "one" /\ ReplyRow["DTSTAMP"] = "one"
      /\ AddRow["DTSTAMP"] = "one" /\ RefreshRow["DTSTAMP"] = "one"
      /\ CounterRow["DTSTAMP"] = "one" /\ DeclineCounterRow["DTSTAMP"] = "one"
  BY <1>1 DEF PublishRow, RequestRow, ReplyRow, AddRow, RefreshRow, CounterRow, DeclineCounterRow
<1>3. PresenceOf[method]["DTSTAMP"] = "one"
  BY <1>1, <1>2 DEF Method, PresenceOf
<1>4. Admits("one", Len(payload["DTSTAMP"]))
  BY <1>1, <1>3 DEF CheckConformance
<1>5. payload["DTSTAMP"] \in Seq(Nat) /\ Len(payload["DTSTAMP"]) = 1
  BY <1>4 DEF Admits, Component
<1>6. QED
  BY <1>5 DEF Single

(* What is read of a component's version.                                   *)
LEMMA RevisionReads ==
  ASSUME NEW component \in Component
  PROVE  /\ Sequence(component) \in Nat \cup {Nothing}
         /\ Single(component, "DTSTAMP") \in Stamp
         /\ RevisionOf(component) \in Revision \cup {Nothing}
         /\ RevisionOf(component) = Nothing <=> Sequence(component) = Nothing
         /\ RevisionOf(component) # Nothing =>
              /\ RevisionOf(component).sequence = Sequence(component)
              /\ RevisionOf(component).dtstamp = Single(component, "DTSTAMP")
<1>1. component["SEQUENCE"] \in Seq(Int) /\ component["DTSTAMP"] \in Seq(Nat)
  BY DEF Component
<1>2. Single(component, "SEQUENCE") \in Int \cup {Nothing} /\ Single(component, "DTSTAMP") \in Stamp
  BY <1>1 DEF Single, Stamp
<1>3. Sequence(component) \in Nat \cup {Nothing}
  BY <1>2, NothingAssumption DEF NothingAssumption, Sequence
<1>4. ASSUME Sequence(component) # Nothing
      PROVE  RevisionOf(component) \in Revision
             /\ RevisionOf(component).sequence = Sequence(component)
             /\ RevisionOf(component).dtstamp = Single(component, "DTSTAMP")
  BY <1>2, <1>3, <1>4 DEF RevisionOf, Revision
<1>5. QED
  BY <1>2, <1>3, <1>4, NothingAssumption DEF NothingAssumption, RevisionOf

(* One version above another, by what is read of them.                      *)
Above(one, other) ==
  \/ Sequence(one) > Sequence(other)
  \/ /\ Sequence(one) = Sequence(other)
     /\ Single(one, "DTSTAMP") # Nothing
     /\ \/ Single(other, "DTSTAMP") = Nothing
        \/ /\ Single(other, "DTSTAMP") # Nothing
           /\ Single(one, "DTSTAMP") > Single(other, "DTSTAMP")

LEMMA SupersedesReads ==
  ASSUME NEW one \in Component, NEW other \in Component,
         RevisionOf(one) # Nothing, RevisionOf(other) # Nothing
  PROVE  Supersedes(RevisionOf(one), RevisionOf(other)) <=> Above(one, other)
BY RevisionReads DEF Supersedes, Above

(* The same lines, the same version.                                        *)
LEMMA SameLinesSameRevision ==
  ASSUME NEW one, NEW other
  PROVE  /\ one.SEQUENCE = other.SEQUENCE => Sequence(one) = Sequence(other)
         /\ one.DTSTAMP = other.DTSTAMP => Single(one, "DTSTAMP") = Single(other, "DTSTAMP")
         /\ one.SEQUENCE = other.SEQUENCE /\ one.DTSTAMP = other.DTSTAMP =>
              RevisionOf(one) = RevisionOf(other)
BY DEF Sequence, Single, RevisionOf

(* An answer put in the place of another.                                   *)
NotEarlier(new, old) == new = old \/ (new # Nothing /\ (old = Nothing \/ new > old))

(* Whose lines they are, and when each was answered, has not changed.       *)
KeepsAnswers(new, old) ==
  /\ DOMAIN new = DOMAIN old
  /\ \A i \in DOMAIN old : new[i].who = old[i].who /\ new[i].at = old[i].at

(* What a step may make of the version and the answers on record for one    *)
(* instance: a newer version, or the same with the same answers; but a      *)
(* reply changes the answer of the one who sent it.                         *)
NewVersion(old, new) ==
  /\ RevisionOf(new) # Nothing
  /\ RevisionOf(old) = Nothing \/ Supersedes(RevisionOf(new), RevisionOf(old))

Restates(old, new) ==
  \/ NewVersion(old, new)
  \/ RevisionOf(new) = RevisionOf(old) /\ KeepsAnswers(new.ATTENDEE, old.ATTENDEE)

Answers(who, old, new) ==
  LET at == OccurrenceOf(old, who)
  IN  /\ RevisionOf(new) = RevisionOf(old)
      /\ KeepsParties(new.ATTENDEE, old.ATTENDEE, at)
      /\ at # 0 => NotEarlier(new.ATTENDEE[at].at, old.ATTENDEE[at].at)

Moves(message, old, new) ==
  IF message.method = "REPLY" THEN Answers(message.from, old, new) ELSE Restates(old, new)

(* Only these lines matter to it.                                           *)
SameRecord(one, other) ==
  \A name \in {"SEQUENCE", "DTSTAMP", "ATTENDEE"} : one[name] = other[name]

LEMMA MovesByRecord ==
  ASSUME NEW message, NEW old, NEW new
  PROVE  /\ SameRecord(old, new) => Moves(message, old, new)
         /\ \A other : Moves(message, old, other) /\ SameRecord(other, new) => Moves(message, old, new)
<1>1. ASSUME SameRecord(old, new) PROVE Moves(message, old, new)
  <2>1. old.ATTENDEE = new.ATTENDEE /\ RevisionOf(old) = RevisionOf(new)
    BY <1>1, SameLinesSameRevision DEF SameRecord
  <2>2. QED
    BY <2>1 DEF Moves, Restates, Answers, KeepsAnswers, KeepsParties, NotEarlier
<1>2. ASSUME NEW other, Moves(message, old, other), SameRecord(other, new)
      PROVE  Moves(message, old, new)
  <2>1. other.ATTENDEE = new.ATTENDEE /\ RevisionOf(other) = RevisionOf(new)
    BY <1>2, SameLinesSameRevision DEF SameRecord
  <2>2. QED
    BY <1>2, <2>1 DEF Moves, Restates, NewVersion, Answers
<1>3. QED
  BY <1>1, <1>2

(* A name but ATTENDEE, as a restatement of another component leaves it.    *)
LEMMA RestatedName ==
  ASSUME NEW payload \in Component, NEW current \in Component, NEW base \in Component,
         AtMostOnce(payload), AtMostOnce(current), AtMostOnce(base), NEW name \in Name \ {"ATTENDEE"},
         Writable(base[name], Restated(payload[name], current[name]))
  PROVE  WriteLines(base[name], Restated(payload[name], current[name]))
           = IF payload[name] = current[name] THEN base[name] ELSE payload[name]
<1>1. /\ payload[name] \in Seq(LineOf[name]) /\ current[name] \in Seq(LineOf[name])
      /\ base[name] \in Seq(LineOf[name])
  BY ComponentIsLines
<1>2. Len(payload[name]) <= 1 /\ Len(current[name]) <= 1 /\ Len(base[name]) <= 1
  BY DEF AtMostOnce
<1>3. QED
  BY <1>1, <1>2, OneLineWritten

(* Nothing changed, nothing written.                                        *)
LEMMA NothingWritten ==
  ASSUME NEW base \in Component, NEW name \in Name
  PROVE  WriteLines(base[name], {}) = base[name]
<1>1. base[name] \in Seq(LineOf[name])
  BY ComponentIsLines
<1>2. Writable(base[name], {})
  BY DEF Writable, Of
<1>3. EditedOnly(WriteLines(base[name], {}), base[name], 0, {})
  BY <1>1, <1>2, EditInPlace
<1>4. QED
  BY <1>3 DEF EditedOnly

(* What an organizer restates is a newer version, also where the component  *)
(* it is written onto has been restated since it was described.             *)
LEMMA OrganizerMoves ==
  ASSUME NEW message \in Message, message.method \notin {"REPLY", "REFRESH", "COUNTER"},
         NEW payload \in Component, NEW current \in Component, NEW base \in Component,
         AtMostOnce(current), AtMostOnce(base), NEW transition,
         Passed(message, payload, current, transition), ApplyTo(base, transition) # Nothing,
         Restates(current, base)
  PROVE  Restates(current, ApplyTo(base, transition))
<1> DEFINE new == ApplyTo(base, transition)
<1>1. /\ new \in Component
      /\ \A name \in Name : /\ new[name] = WriteLines(base[name], transition[name])
                            /\ Writable(base[name], transition[name])
  BY AppliedIsComponent
<1> HIDE DEF new
<1>2. /\ "SEQUENCE" \in Name \ {"ATTENDEE"} /\ "DTSTAMP" \in Name \ {"ATTENDEE"}
      /\ "ATTENDEE" \in Name
  BY DEF Name
<1>3. CASE transition = NoChange
  <2>1. \A name \in Name : new[name] = base[name]
    BY <1>1, <1>3, NothingWritten DEF NoChange
  <2>2. SameRecord(base, new)
    BY <1>2, <2>1 DEF SameRecord
  <2>3. Moves(message, current, base)
    BY DEF Moves
  <2>4. Moves(message, current, new)
    BY <2>2, <2>3, MovesByRecord
  <2>5. QED
    BY <2>4 DEF Moves, new
<1>4. CASE /\ transition = [name \in Name |-> Restated(payload[name], current[name])]
           /\ RevisionOf(current) = Nothing \/ Supersedes(RevisionOf(payload), RevisionOf(current))
  <2>1. AtMostOnce(payload) /\ RevisionOf(payload) # Nothing
    BY ConformingOnce DEF Passed, CheckRevision, Message
  <2>2. \A name \in {"SEQUENCE", "DTSTAMP"} :
          new[name] = IF payload[name] = current[name] THEN base[name] ELSE payload[name]
    BY <1>1, <1>2, <1>4, <2>1, RestatedName
  <2>3. /\ new.SEQUENCE = IF payload.SEQUENCE = current.SEQUENCE THEN base.SEQUENCE ELSE payload.SEQUENCE
        /\ new.DTSTAMP = IF payload.DTSTAMP = current.DTSTAMP THEN base.DTSTAMP ELSE payload.DTSTAMP
    BY <2>2
  <2>4. /\ \/ Sequence(new) = Sequence(payload)
           \/ Sequence(new) = Sequence(base) /\ Sequence(payload) = Sequence(current)
        /\ \/ Single(new, "DTSTAMP") = Single(payload, "DTSTAMP")
           \/ /\ Single(new, "DTSTAMP") = Single(base, "DTSTAMP")
              /\ Single(payload, "DTSTAMP") = Single(current, "DTSTAMP")
    BY <2>3, SameLinesSameRevision
  <2>5. /\ RevisionOf(current) # Nothing =>
             RevisionOf(base) # Nothing /\ (Sequence(base) = Sequence(current) \/ Above(base, current))
        /\ RevisionOf(current) = Nothing \/ Above(payload, current)
    <3>1. ASSUME RevisionOf(current) # Nothing, RevisionOf(base) = RevisionOf(current)
          PROVE  RevisionOf(base) # Nothing /\ Sequence(base) = Sequence(current)
      BY <3>1, RevisionReads
    <3>2. QED
      BY <1>4, <2>1, <3>1, SupersedesReads DEF Restates, NewVersion
  <2>6. /\ \A c \in {new, payload, current, base} :
             /\ Sequence(c) \in Nat \cup {Nothing} /\ Single(c, "DTSTAMP") \in Stamp
             /\ RevisionOf(c) = Nothing <=> Sequence(c) = Nothing
        /\ Nothing \notin Int
    BY <1>1, RevisionReads, NothingAssumption DEF NothingAssumption
  <2>7. CASE RevisionOf(current) = Nothing
    <3>1. Sequence(new) # Nothing
      BY <2>1, <2>4, <2>6, <2>7
    <3>2. QED
      BY <2>6, <2>7, <3>1 DEF Restates, NewVersion, new
  <2>8. CASE RevisionOf(current) # Nothing
    <3>1. Sequence(new) # Nothing /\ Above(new, current)
      BY <2>1, <2>4, <2>5, <2>6, <2>8 DEF Above, Stamp
    <3>2. Supersedes(RevisionOf(new), RevisionOf(current))
      BY <1>1, <2>6, <2>8, <3>1, SupersedesReads
    <3>3. QED
      BY <2>6, <3>1, <3>2 DEF Restates, NewVersion, new
  <2>9. QED
    BY <2>7, <2>8
<1>5. OrganizerAuthored(message.method)
  BY DEF OrganizerAuthored
<1>6. QED
  BY <1>3, <1>4, <1>5, TransitionForms

(* A payload that states the times of the answers as they are on record.    *)
LeavesAnswers(payload, component) ==
  \A i \in DOMAIN payload.ATTENDEE \cap DOMAIN component.ATTENDEE :
    payload.ATTENDEE[i].at = component.ATTENDEE[i].at

LEMMA NotTheOrganizer ==
  ASSUME NEW message, message.method \in {"REPLY", "REFRESH", "COUNTER"}, NEW payload, NEW current,
         NEW transition, Passed(message, payload, current, transition)
  PROVE  message.from # Organizer
BY DEF Passed, SenderPermitted, OrganizerAuthored, ActorRole

(* A counter-proposal in a newer stamp is a newer version; at the stamp on  *)
(* record it leaves the answers if it states them.                          *)
LEMMA CounterMoves ==
  ASSUME NEW message \in Message, message.method = "COUNTER",
         NEW payload \in Component, NEW current \in Component, NEW base \in Component,
         AtMostOnce(current), AtMostOnce(base), NEW transition,
         Passed(message, payload, current, transition), ApplyTo(base, transition) # Nothing,
         OwnLine(OccurrenceOf(current, message.from), current, base), Restates(current, base),
         RevisionOf(payload) = RevisionOf(current) => LeavesAnswers(payload, current)
  PROVE  Restates(current, ApplyTo(base, transition))
<1> DEFINE new == ApplyTo(base, transition)
           at == OccurrenceOf(current, message.from)
           d == Single(payload, "DTSTAMP")
<1>1. /\ new \in Component
      /\ \A name \in Name : /\ new[name] = WriteLines(base[name], transition[name])
                            /\ Writable(base[name], transition[name])
  BY AppliedIsComponent
<1>2. message.from # Organizer
  BY NotTheOrganizer
<1>3. OwnLine(at, base, new)
  BY <1>2, AttendeeWrites DEF OwnLine, KeepsParties
<1> HIDE DEF new
<1>4. /\ AtMostOnce(payload) /\ RevisionOf(payload) # Nothing
      /\ payload.DTSTAMP = <<d>> /\ d \in Nat
  BY ConformingOnce, StampedOnce DEF Passed, CheckRevision, Message
<1>5. /\ "SEQUENCE" \in Name \ EitherParty /\ "SEQUENCE" # "ATTENDEE"
      /\ "SEQUENCE" \in Name \ {"ATTENDEE", "DTSTAMP", "RECURRENCE_ID"}
      /\ "DTSTAMP" \in Name \ {"ATTENDEE"} /\ "ATTENDEE" \in Name \ EitherParty
  BY DEF Name, EitherParty
<1>6. \A name \in Name : transition[name] = Restated(payload[name], current[name])
  <2>1. ~OrganizerAuthored("COUNTER")
    BY DEF OrganizerAuthored
  <2>2. transition = [name \in Name |-> Restated(payload[name], current[name])]
    BY <2>1 DEF Passed, Settle, DescribePayload
  <2>3. QED
    BY <2>2
<1>7. payload.SEQUENCE = current.SEQUENCE /\ new.SEQUENCE = current.SEQUENCE
  <2>1. transition["SEQUENCE"] = {}
    BY <1>2, <1>5, AttendeeChanges
  <2>2. payload["SEQUENCE"] \in Seq(Int) /\ current["SEQUENCE"] \in Seq(Int)
    BY DEF Component
  <2>3. payload["SEQUENCE"] = current["SEQUENCE"]
    BY <1>5, <1>6, <2>1, <2>2, NothingRestated
  <2>4. new["SEQUENCE"] = base["SEQUENCE"] /\ base["SEQUENCE"] = current["SEQUENCE"]
    BY <1>3, <1>5 DEF OwnLine
  <2>5. QED
    BY <2>3, <2>4
<1>8. new.DTSTAMP = IF payload.DTSTAMP = current.DTSTAMP THEN base.DTSTAMP ELSE payload.DTSTAMP
  <2>1. /\ new["DTSTAMP"] = WriteLines(base["DTSTAMP"], Restated(payload["DTSTAMP"], current["DTSTAMP"]))
        /\ Writable(base["DTSTAMP"], Restated(payload["DTSTAMP"], current["DTSTAMP"]))
    BY <1>1, <1>5, <1>6
  <2>2. QED
    BY <1>4, <1>5, <2>1, RestatedName
<1>9. /\ Sequence(payload) = Sequence(current) /\ Sequence(new) = Sequence(current)
      /\ Sequence(current) \in Nat /\ Single(current, "DTSTAMP") \in Stamp
      /\ RevisionOf(current) # Nothing /\ RevisionOf(new) # Nothing /\ Nothing \notin Int
  BY <1>1, <1>4, <1>7, SameLinesSameRevision, RevisionReads, NothingAssumption DEF NothingAssumption
<1>10. ~Above(current, payload)
  <2>1. ~Supersedes(RevisionOf(current), RevisionOf(payload))
    BY <1>9 DEF Passed, CheckRevision, IsStaleAgainst
  <2>2. QED
    BY <1>4, <1>9, <2>1, SupersedesReads
<1>11. CASE Single(current, "DTSTAMP") # d
  <2>1. new.DTSTAMP = payload.DTSTAMP
    BY <1>8, <1>11, SameLinesSameRevision
  <2>2. Single(new, "DTSTAMP") = d
    BY <2>1, SameLinesSameRevision
  <2>3. Above(new, current)
    BY <1>4, <1>9, <1>10, <1>11, <2>2 DEF Above, Stamp
  <2>4. Supersedes(RevisionOf(new), RevisionOf(current))
    BY <1>1, <1>9, <2>3, SupersedesReads
  <2>5. QED
    BY <1>9, <2>4 DEF Restates, NewVersion, new
<1>12. CASE Single(current, "DTSTAMP") = d
  <2>1. payload.DTSTAMP = current.DTSTAMP
    <3>1. /\ current["DTSTAMP"] = << >> => Single(current, "DTSTAMP") = Nothing
          /\ current["DTSTAMP"] # << >> =>
               /\ current["DTSTAMP"] = <<current["DTSTAMP"][1]>>
               /\ Single(current, "DTSTAMP") = current["DTSTAMP"][1]
      BY <1>5, SingleReads
    <3>2. Single(current, "DTSTAMP") # Nothing
      BY <1>4, <1>9, <1>12
    <3>3. current["DTSTAMP"] = <<d>>
      BY <1>12, <3>1, <3>2
    <3>4. QED
      BY <1>4, <3>3
  <2>2. new.DTSTAMP = base.DTSTAMP /\ new.SEQUENCE = base.SEQUENCE
    BY <1>3, <1>5, <1>8, <2>1 DEF OwnLine
  <2>3. RevisionOf(new) = RevisionOf(base) /\ RevisionOf(payload) = RevisionOf(current)
    BY <1>7, <2>1, <2>2, SameLinesSameRevision
  <2>4. CASE NewVersion(current, base)
    BY <2>3, <2>4 DEF Restates, NewVersion, new
  <2>5. CASE RevisionOf(base) = RevisionOf(current) /\ KeepsAnswers(base.ATTENDEE, current.ATTENDEE)
    <3> DEFINE changes == transition["ATTENDEE"]
    <3>1. /\ base["ATTENDEE"] \in Seq(AttendeeLine) /\ payload["ATTENDEE"] \in Seq(AttendeeLine)
          /\ current["ATTENDEE"] \in Seq(AttendeeLine)
      BY DEF Component
    <3>2. /\ new["ATTENDEE"] = WriteLines(base["ATTENDEE"], changes)
          /\ Writable(base["ATTENDEE"], changes)
          /\ changes = Restated(payload["ATTENDEE"], current["ATTENDEE"])
      BY <1>1, <1>5, <1>6
    <3>3. \A change \in changes :
            /\ change.index = at /\ change.index \in DOMAIN current.ATTENDEE
            /\ \/ change.kind = "parameters"
               \/ change.kind = "replace" /\ change.line.who = message.from
      BY <1>2, <1>5, AttendeeChanges
    <3>4. \A change \in changes :
            /\ change.kind \in {"replace", "add"} =>
                 change.index \in 1..Len(payload["ATTENDEE"])
                 /\ change.line = payload["ATTENDEE"][change.index]
            /\ change.kind \in {"replace", "add", "remove"}
      BY <3>1, <3>2, RestatementParts
    <3> HIDE DEF changes, at
    <3>5. \A change \in changes : /\ change.index = at /\ change.kind = "replace"
                                  /\ at \in DOMAIN current.ATTENDEE /\ at \in DOMAIN payload.ATTENDEE
                                  /\ change.line = payload.ATTENDEE[at]
      BY <3>1, <3>3, <3>4
    <3>6. EditedOnly(WriteLines(base["ATTENDEE"], changes), base["ATTENDEE"], at, changes)
      BY <3>1, <3>2, <3>5, EditInPlace
    <3>7. changes # {} => new["ATTENDEE"][at] = payload["ATTENDEE"][at] /\ at \in DOMAIN payload.ATTENDEE
      BY <3>2, <3>5, <3>6 DEF EditedOnly, Edited
    <3>8. changes = {} => new["ATTENDEE"] = base["ATTENDEE"]
      BY <3>2, <3>6 DEF EditedOnly
    <3>9. LeavesAnswers(payload, current)
      BY <2>3
    <3>10. KeepsAnswers(new.ATTENDEE, current.ATTENDEE)
      <4>1. KeepsParties(new.ATTENDEE, base.ATTENDEE, at)
        BY <1>3 DEF OwnLine
      <4>2. CASE changes = {}
        BY <2>5, <3>8, <4>2
      <4>3. CASE changes # {}
        BY <2>5, <3>7, <3>9, <4>1, <4>3 DEF KeepsAnswers, KeepsParties, LeavesAnswers
      <4>4. QED
        BY <4>2, <4>3
    <3>11. QED
      BY <2>3, <2>5, <3>10 DEF Restates, new
  <2>6. QED
    BY <2>4, <2>5 DEF Restates
<1>13. QED
  BY <1>11, <1>12

(* An answer takes the place of an earlier one.                             *)
LEMMA ReplyMoves ==
  ASSUME NEW message \in Message, message.method = "REPLY",
         NEW payload \in Component, NEW current \in Component, NEW base \in Component, NEW transition,
         Passed(message, payload, current, transition), ApplyTo(base, transition) # Nothing,
         OwnLine(OccurrenceOf(current, message.from), current, base),
         Answers(message.from, current, base)
  PROVE  Answers(message.from, current, ApplyTo(base, transition))
<1> DEFINE new == ApplyTo(base, transition)
           at == OccurrenceOf(current, message.from)
           d == Single(payload, "DTSTAMP")
           changes == transition["ATTENDEE"]
<1>1. /\ new \in Component
      /\ \A name \in Name : /\ new[name] = WriteLines(base[name], transition[name])
                            /\ Writable(base[name], transition[name])
  BY AppliedIsComponent
<1>2. message.from # Organizer
  BY NotTheOrganizer
<1>3. OwnLine(at, base, new)
  BY <1>2, AttendeeWrites DEF OwnLine, KeepsParties
<1> HIDE DEF new
<1>4. Len(payload.ATTENDEE) = 1 /\ d \in Nat /\ Nothing \notin Int
  BY ConformingOnce, StampedOnce, NothingAssumption DEF NothingAssumption, Passed, Message
<1>5. transition = DescribeReply(payload, current)
  <2>1. ~OrganizerAuthored("REPLY")
    BY DEF OrganizerAuthored
  <2>2. QED
    BY <2>1 DEF Passed, Settle, DescribePayload
<1>6. /\ "SEQUENCE" \in Name /\ "DTSTAMP" \in Name /\ "ATTENDEE" \in Name \ EitherParty
      /\ "SEQUENCE" # "ATTENDEE" /\ "DTSTAMP" # "ATTENDEE"
  BY DEF Name, EitherParty
<1>7. RevisionOf(new) = RevisionOf(base)
  <2>1. transition["SEQUENCE"] = {} /\ transition["DTSTAMP"] = {}
    BY <1>4, <1>5, <1>6, ReplyChanges
  <2>2. new["SEQUENCE"] = base["SEQUENCE"] /\ new["DTSTAMP"] = base["DTSTAMP"]
    BY <1>1, <1>6, <2>1, NothingWritten
  <2>3. QED
    BY <2>2, SameLinesSameRevision
<1>8. \A change \in changes :
        /\ change.index = at /\ change.kind = "parameters" /\ at \in DOMAIN current.ATTENDEE
        /\ change.line.at = d
        /\ current.ATTENDEE[at].at # Nothing => d > current.ATTENDEE[at].at
  <2> DEFINE other == OccurrenceOf(current, payload.ATTENDEE[1].who)
  <2>1. SUFFICES ASSUME NEW change \in changes
                 PROVE  /\ change.index = at /\ change.kind = "parameters" /\ at \in DOMAIN current.ATTENDEE
                        /\ change.line.at = d
                        /\ current.ATTENDEE[at].at # Nothing => d > current.ATTENDEE[at].at
    OBVIOUS
  <2>2. /\ change.index = other /\ change.kind = "parameters" /\ other \in DOMAIN current.ATTENDEE
        /\ change.line.at = d
    BY <1>4, <1>5, <1>6, ReplyChanges
  <2>3. change.index = at
    BY <1>2, <1>6, AttendeeChanges
  <2>4. payload.ATTENDEE # << >> /\ other # 0
    <3>1. payload["ATTENDEE"] \in Seq(AttendeeLine) /\ current["ATTENDEE"] \in Seq(AttendeeLine)
      BY DEF Component
    <3>2. QED
      BY <1>4, <2>2, <3>1, OneLine
  <2>5. current.ATTENDEE[other].at # Nothing => d > current.ATTENDEE[other].at
    BY <2>4 DEF Passed, CheckAnswer
  <2>6. QED
    BY <2>2, <2>3, <2>5
<1>9. base["ATTENDEE"] \in Seq(AttendeeLine)
  BY DEF Component
<1>10. /\ new["ATTENDEE"] = WriteLines(base["ATTENDEE"], changes)
       /\ Writable(base["ATTENDEE"], changes)
  BY <1>1, <1>6
<1> HIDE DEF changes, at, d
<1>11. EditedOnly(WriteLines(base["ATTENDEE"], changes), base["ATTENDEE"], at, changes)
  BY <1>8, <1>9, <1>10, EditInPlace
<1>12. at # 0 => NotEarlier(new.ATTENDEE[at].at, current.ATTENDEE[at].at)
  <2>1. CASE changes = {}
    <3>1. new["ATTENDEE"] = base["ATTENDEE"]
      BY <1>10, <1>11, <2>1 DEF EditedOnly
    <3>2. QED
      BY <3>1 DEF Answers, at
  <2>2. CASE changes # {}
    <3>1. PICK change \in changes : new["ATTENDEE"][at] = Edited(base["ATTENDEE"][at], change)
      BY <1>10, <1>11, <2>2 DEF EditedOnly
    <3>2. base["ATTENDEE"][at] \in AttendeeLine
      BY <1>9, <1>11, <2>2 DEF EditedOnly
    <3>3. new["ATTENDEE"][at].at = d
      BY <1>8, <3>1, <3>2 DEF Edited, SetParameters, AttendeeLine
    <3>4. QED
      BY <1>4, <1>8, <3>3 DEF NotEarlier, d
  <2>3. QED
    BY <2>1, <2>2
<1>13. KeepsParties(new.ATTENDEE, current.ATTENDEE, at)
  BY <1>3 DEF OwnLine, KeepsParties, at
<1>14. QED
  BY <1>7, <1>12, <1>13 DEF Answers, at, new

(* What an accepted message makes of a component, or of a clone of one that *)
(* the same message has written before.                                     *)
LEMMA AppliedMoves ==
  ASSUME NEW message \in Message,
         NEW payload \in Component, NEW current \in Component, NEW base \in Component,
         AtMostOnce(current), AtMostOnce(base), NEW transition,
         Passed(message, payload, current, transition), ApplyTo(base, transition) # Nothing,
         message.from # Organizer => OwnLine(OccurrenceOf(current, message.from), current, base),
         Moves(message, current, base),
         message.method = "COUNTER" /\ RevisionOf(payload) = RevisionOf(current) =>
           LeavesAnswers(payload, current)
  PROVE  Moves(message, current, ApplyTo(base, transition))
<1>1. CASE message.method \notin {"REPLY", "REFRESH", "COUNTER"}
  <2>1. Restates(current, base)
    BY <1>1 DEF Moves
  <2>2. Restates(current, ApplyTo(base, transition))
    BY <1>1, <2>1, OrganizerMoves
  <2>3. QED
    BY <1>1, <2>2 DEF Moves
<1>2. ASSUME message.method \in {"REPLY", "REFRESH", "COUNTER"}
      PROVE  OwnLine(OccurrenceOf(current, message.from), current, base)
  BY <1>2, NotTheOrganizer
<1>3. CASE message.method = "COUNTER"
  <2>1. Restates(current, base)
    BY <1>3 DEF Moves
  <2>2. Restates(current, ApplyTo(base, transition))
    BY <1>2, <1>3, <2>1, CounterMoves
  <2>3. QED
    BY <1>3, <2>2 DEF Moves
<1>4. CASE message.method = "REPLY"
  <2>1. Answers(message.from, current, base)
    BY <1>4 DEF Moves
  <2>2. Answers(message.from, current, ApplyTo(base, transition))
    BY <1>2, <1>4, <2>1, ReplyMoves
  <2>3. QED
    BY <1>4, <2>2 DEF Moves
<1>5. CASE message.method = "REFRESH"
  <2>1. transition = NoChange
    BY <1>5 DEF Passed, Settle, DescribePayload
  <2>2. \A name \in Name : ApplyTo(base, transition)[name] = WriteLines(base[name], transition[name])
    BY AppliedIsComponent
  <2>3. \A name \in Name : ApplyTo(base, transition)[name] = base[name]
    BY <2>1, <2>2, NothingWritten DEF NoChange
  <2>4. SameRecord(base, ApplyTo(base, transition))
    BY <2>3 DEF SameRecord, Name
  <2>5. QED
    BY <2>4, MovesByRecord
<1>6. QED
  BY <1>1, <1>3, <1>4, <1>5

(* A counter-proposal at the version on record states the times of the      *)
(* answers as they are on record: one that is delivered again does not,     *)
(* when the attendee has answered since, and turns that answer back.        *)
CountersKeepAnswers(message, held) ==
  message.method = "COUNTER" =>
    \A k \in DOMAIN message.payloads :
      Repeats(held, message.payloads[k]) =>
        LeavesAnswers(message.payloads[k], Effective(held, RecurrenceId(message.payloads[k])))

CountersTakeNoAnswerBack == \A message \in mail : CountersKeepAnswers(message, calendar)

LEMMA CounterLeaves ==
  ASSUME NEW message, NEW held, CountersKeepAnswers(message, held), message.method = "COUNTER",
         NEW k \in DOMAIN message.payloads, NEW current \in Component,
         Effective(held, RecurrenceId(message.payloads[k])) = current,
         message.payloads[k] \in Component,
         RevisionOf(message.payloads[k]) # Nothing,
         RevisionOf(message.payloads[k]) = RevisionOf(current)
  PROVE  LeavesAnswers(message.payloads[k], current)
<1>1. VersionOf(held, RecurrenceId(message.payloads[k])) = RevisionOf(current)
  BY NoneAssumption DEF NoneAssumption, VersionOf
<1>2. RevisionOf(current) \in Revision
  BY RevisionReads
<1>3. ~Supersedes(RevisionOf(current), RevisionOf(current))
  BY <1>2 DEF Supersedes, Revision, Stamp
<1>4. Repeats(held, message.payloads[k])
  BY <1>1, <1>3 DEF Repeats
<1>5. QED
  BY <1>4 DEF CountersKeepAnswers

LEMMA HeldMoves ==
  ASSUME NEW message \in Message, NEW held \in Seq(Component), Orderly(held), NEW changes,
         ReviewedOnto(message, held, changes), CountersKeepAnswers(message, held),
         NEW item \in DOMAIN held, NEW new, HeldWritten(message, held, changes, item, new)
  PROVE  Moves(message, held[item], new)
<1>1. held[item] \in Component /\ AtMostOnce(held[item])
  BY DEF Orderly
<1>2. ASSUME NEW written \in Component, Moves(message, held[item], written),
             new = Finished(message, written)
      PROVE  Moves(message, held[item], new)
  <2>1. \A name \in Name \ {"STATUS"} : new[name] = written[name]
    BY <1>2, FinishedIsComponent
  <2>2. SameRecord(written, new)
    BY <2>1 DEF SameRecord, Name
  <2>3. QED
    BY <1>2, <2>2, MovesByRecord
<1>3. Moves(message, held[item], held[item])
  BY MovesByRecord DEF SameRecord
<1>4. ASSUME NEW k \in DOMAIN changes,
             ToHeld(message, held, message.payloads[k], changes[k]), changes[k].item = item,
             ApplyTo(held[item], changes[k].transition) # Nothing,
             new = Finished(message, ApplyTo(held[item], changes[k].transition))
      PROVE  Moves(message, held[item], new)
  <2> DEFINE payload == message.payloads[k]
             transition == changes[k].transition
  <2>1. k \in DOMAIN message.payloads /\ payload \in Component
    BY DEF ReviewedOnto, Message
  <2>2. /\ Passed(message, payload, held[item], transition)
        /\ CompareInstances(RecurrenceId(payload), RecurrenceId(held[item])) = "same"
    BY <1>4 DEF ToHeld, Matches
  <2>3. Effective(held, RecurrenceId(payload)) = held[item]
    BY <2>1, <2>2, RecurrenceIdReads, EffectiveIsItsComponent
  <2>4. message.method = "COUNTER" => RevisionOf(payload) # Nothing
    BY <2>2 DEF Passed, CheckRevision
  <2>5. message.method = "COUNTER" /\ RevisionOf(payload) = RevisionOf(held[item]) =>
          LeavesAnswers(payload, held[item])
    BY <1>1, <2>1, <2>3, <2>4, CounterLeaves
  <2>6. OwnLine(OccurrenceOf(held[item], message.from), held[item], held[item])
    BY OwnLines
  <2> HIDE DEF payload, transition
  <2>7. ApplyTo(held[item], transition) # Nothing
    BY <1>4 DEF transition
  <2>8. Moves(message, held[item], ApplyTo(held[item], transition))
    BY <1>1, <1>3, <2>1, <2>2, <2>5, <2>6, <2>7, AppliedMoves
  <2>9. ApplyTo(held[item], transition) \in Component
    BY <1>1, <2>1, <2>2, <2>7, AppliedIsComponent
  <2>10. QED
    BY <1>2, <1>4, <2>8, <2>9 DEF transition
<1>5. QED
  BY <1>1, <1>2, <1>3, <1>4 DEF HeldWritten

LEMMA DetachedMoves ==
  ASSUME NEW message \in Message, NEW held \in Seq(Component), Orderly(held), NEW changes,
         ReviewedOnto(message, held, changes), CountersKeepAnswers(message, held),
         NEW k \in Later(changes),
         NEW updated, SameInstance(held[changes[k].item], updated[changes[k].item]),
         Moves(message, held[changes[k].item], updated[changes[k].item]),
         message.from # Organizer =>
           OwnLine(OccurrenceOf(held[changes[k].item], message.from),
                   held[changes[k].item], updated[changes[k].item]),
         NEW new, new = WriteNew(message, updated, changes[k], message.payloads[k]), new # Nothing
  PROVE  /\ Masters(held) # {} /\ changes[k].item = MasterOf(held)
         /\ RecurrenceId(message.payloads[k]) # Nothing
         /\ Moves(message, held[changes[k].item], new)
<1> DEFINE payload == message.payloads[k]
           transition == changes[k].transition
           current == held[changes[k].item]
           base == updated[changes[k].item]
           applied == ApplyTo(base, transition)
           copied == CopyRecurrenceId(applied, payload)
<1>1. k \in DOMAIN changes /\ k \in DOMAIN message.payloads /\ payload \in Component
  BY DEF Later, ReviewedOnto, Message
<1>2. ToOccurrence(message, held, payload, changes[k])
  BY DEF Later, ReviewedOnto, ToHeld
<1>3. /\ changes[k].kind = "detach" /\ changes[k].item \in DOMAIN held
      /\ Masters(held) # {} /\ changes[k].item = MasterOf(held)
      /\ RecurrenceId(payload) # Nothing /\ Matches(held, payload, "same") = {}
  BY <1>2 DEF Later, ToOccurrence, Masters, IsMaster
<1>4. new = Finished(message, copied) /\ applied # Nothing
  BY <1>3 DEF WriteNew, Finished, CopyRecurrenceId
<1>5. /\ Passed(message, payload, current, transition)
      /\ current \in Component /\ AtMostOnce(current)
      /\ base \in Component /\ AtMostOnce(base)
  BY <1>2, <1>3 DEF ToOccurrence, Orderly, SameInstance
<1>6. Effective(held, RecurrenceId(payload)) = current
  <2>1. Own(held, RecurrenceId(payload)) = {}
    BY <1>3 DEF Own, Matches
  <2>2. QED
    BY <1>3, <2>1 DEF Effective
<1>7. message.method = "COUNTER" => RevisionOf(payload) # Nothing
  BY <1>5 DEF Passed, CheckRevision
<1>8. message.method = "COUNTER" /\ RevisionOf(payload) = RevisionOf(current) =>
        LeavesAnswers(payload, current)
  BY <1>1, <1>5, <1>6, <1>7, CounterLeaves
<1>9. /\ Moves(message, current, base)
      /\ message.from # Organizer => OwnLine(OccurrenceOf(current, message.from), current, base)
  OBVIOUS
<1> HIDE DEF payload, transition, current, base, copied
<1>10. Moves(message, current, applied)
  BY <1>1, <1>4, <1>5, <1>8, <1>9, AppliedMoves
<1>11. applied \in Component
  BY <1>1, <1>4, <1>5, AppliedIsComponent
<1> HIDE DEF applied
<1>12. \A name \in Name \ {"RECURRENCE_ID"} : copied[name] = applied[name]
  <2>1. applied = [name \in Name |-> applied[name]]
    BY <1>11, ComponentIsLines
  <2>2. QED
    BY <2>1 DEF CopyRecurrenceId, copied
<1>13. \A name \in {"SEQUENCE", "DTSTAMP", "ATTENDEE"} : new[name] = copied[name]
  <2>1. CASE message.method # "CANCEL"
    BY <1>4, <2>1 DEF Finished
  <2>2. CASE message.method = "CANCEL"
    <3>1. /\ DOMAIN applied = Name
          /\ copied = applied \/ \E line : copied = [applied EXCEPT !.RECURRENCE_ID = line]
      BY <1>11, <1>12, Zenon DEF Component, Name, CopyRecurrenceId, copied
    <3>2. new = [copied EXCEPT !.STATUS = new.STATUS]
      BY <1>4, <2>2 DEF Finished, MarkCancelled
    <3>3. DOMAIN copied = Name /\ copied = [name \in Name |-> copied[name]]
      <4>1. applied = [name \in Name |-> applied[name]]
        BY <1>11, ComponentIsLines
      <4>2. QED
        BY <3>1, <4>1
    <3> HIDE DEF copied
    <3>4. QED
      BY <3>2, <3>3 DEF Name
  <2>3. QED
    BY <2>1, <2>2
<1>14. SameRecord(applied, new)
  BY <1>12, <1>13 DEF SameRecord, Name
<1>15. Moves(message, current, new)
  BY <1>10, <1>14, MovesByRecord
<1>16. QED
  BY <1>3, <1>15 DEF current, payload

(* The answers on record of a component, and those of an instance.          *)
AnswersOf(component) ==
  [who \in Party |-> LET at == OccurrenceOf(component, who)
                     IN  IF at = 0 THEN Nothing ELSE component.ATTENDEE[at].at]

AnswersAt(held, i) == [who \in Party |-> AnsweredAt(held, i, who)]

(* How the version and the answers of one instance may move.                *)
BookMoves(message, version, version2, answers, answers2) ==
  IF message.method = "REPLY"
  THEN /\ version2 = version
       /\ \A other \in Party \ {message.from} : answers2[other] = answers[other]
       /\ NotEarlier(answers2[message.from], answers[message.from])
  ELSE \/ /\ version2 # Nothing
          /\ version = Nothing \/ Supersedes(version2, version)
       \/ version2 = version /\ answers2 = answers

LEMMA MovesOnRecord ==
  ASSUME NEW message \in Message, NEW old \in Component, NEW new \in Component,
         Moves(message, old, new)
  PROVE  BookMoves(message, RevisionOf(old), RevisionOf(new), AnswersOf(old), AnswersOf(new))
<1>1. ASSUME DOMAIN new.ATTENDEE = DOMAIN old.ATTENDEE,
             \A i \in DOMAIN old.ATTENDEE : new.ATTENDEE[i].who = old.ATTENDEE[i].who
      PROVE  \A who : OccurrenceOf(new, who) = OccurrenceOf(old, who)
  <2>1. SUFFICES ASSUME NEW who PROVE OccurrenceOf(new, who) = OccurrenceOf(old, who)
    OBVIOUS
  <2> DEFINE lines == {i \in DOMAIN old.ATTENDEE : old.ATTENDEE[i].who = who}
             lines2 == {i \in DOMAIN new.ATTENDEE : new.ATTENDEE[i].who = who}
             least(set) == IF set = {} THEN 0 ELSE CHOOSE i \in set : \A j \in set : i <= j
  <2>2. lines2 = lines
    BY <1>1
  <2>3. OccurrenceOf(old, who) = least(lines) /\ OccurrenceOf(new, who) = least(lines2)
    BY DEF OccurrenceOf
  <2> HIDE DEF lines, lines2, least
  <2>4. QED
    BY <2>2, <2>3
<1>2. \A who : \/ OccurrenceOf(old, who) = 0
               \/ /\ OccurrenceOf(old, who) \in DOMAIN old.ATTENDEE
                  /\ old.ATTENDEE[OccurrenceOf(old, who)].who = who
  BY FirstLineOf
<1>3. message.from \in Party
  BY DEF Message
<1>4. CASE message.method = "REPLY"
  <2> DEFINE at == OccurrenceOf(old, message.from)
  <2>1. /\ RevisionOf(new) = RevisionOf(old)
        /\ DOMAIN new.ATTENDEE = DOMAIN old.ATTENDEE
        /\ \A i \in DOMAIN old.ATTENDEE : /\ new.ATTENDEE[i].who = old.ATTENDEE[i].who
                                          /\ i # at => new.ATTENDEE[i] = old.ATTENDEE[i]
        /\ at # 0 => NotEarlier(new.ATTENDEE[at].at, old.ATTENDEE[at].at)
    BY <1>4 DEF Moves, Answers, KeepsParties
  <2>2. \A who : OccurrenceOf(new, who) = OccurrenceOf(old, who)
    BY <1>1, <2>1
  <2>3. ASSUME NEW other \in Party \ {message.from}
        PROVE  AnswersOf(new)[other] = AnswersOf(old)[other]
    <3>1. OccurrenceOf(old, other) # 0 => OccurrenceOf(old, other) \in DOMAIN old.ATTENDEE
                                          /\ OccurrenceOf(old, other) # at
      BY <1>2, <2>3
    <3>2. OccurrenceOf(old, other) # 0 =>
            new.ATTENDEE[OccurrenceOf(old, other)] = old.ATTENDEE[OccurrenceOf(old, other)]
      BY <2>1, <3>1
    <3>3. QED
      BY <2>2, <3>2 DEF AnswersOf
  <2>4. NotEarlier(AnswersOf(new)[message.from], AnswersOf(old)[message.from])
    BY <1>3, <2>1, <2>2 DEF AnswersOf, NotEarlier
  <2>5. QED
    BY <1>4, <2>1, <2>3, <2>4 DEF BookMoves
<1>5. CASE message.method # "REPLY" /\ ~NewVersion(old, new)
  <2>1. RevisionOf(new) = RevisionOf(old) /\ KeepsAnswers(new.ATTENDEE, old.ATTENDEE)
    BY <1>5 DEF Moves, Restates
  <2>2. \A who : OccurrenceOf(new, who) = OccurrenceOf(old, who)
    BY <1>1, <2>1 DEF KeepsAnswers
  <2>3. AnswersOf(new) = AnswersOf(old)
    BY <1>2, <2>1, <2>2 DEF AnswersOf, KeepsAnswers
  <2>4. QED
    BY <1>5, <2>1, <2>3 DEF BookMoves
<1>6. CASE message.method # "REPLY" /\ NewVersion(old, new)
  BY <1>6 DEF BookMoves, NewVersion
<1>7. QED
  BY <1>4, <1>5, <1>6

(* What is read of an instance is what its component states.                *)
LEMMA InstanceReads ==
  ASSUME NEW held \in Seq(Component), NEW i
  PROVE  /\ Effective(held, i) \in Component \cup {Nothing}
         /\ Effective(held, i) = Nothing =>
              VersionOf(held, i) = Nothing /\ AnswersAt(held, i) = [who \in Party |-> Nothing]
         /\ Effective(held, i) # Nothing =>
              /\ VersionOf(held, i) = RevisionOf(Effective(held, i))
              /\ AnswersAt(held, i) = AnswersOf(Effective(held, i))
         /\ VersionOf(held, i) \in Revision \cup {Nothing}
         /\ AnswersAt(held, i) \in [Party -> Stamp]
<1>1. Effective(held, i) \in Component \cup {Nothing}
  <2>1. CASE Own(held, i) # {}
    BY <2>1 DEF Effective, Own
  <2>2. CASE Own(held, i) = {} /\ Masters(held) # {}
    BY <2>2, MasterIsHeld DEF Effective, Masters
  <2>3. CASE Own(held, i) = {} /\ Masters(held) = {}
    BY <2>3 DEF Effective
  <2>4. QED
    BY <2>1, <2>2, <2>3
<1>2. ASSUME Effective(held, i) = Nothing
      PROVE  VersionOf(held, i) = Nothing /\ AnswersAt(held, i) = [who \in Party |-> Nothing]
  BY <1>2 DEF VersionOf, AnswersAt, AnsweredAt
<1>3. ASSUME Effective(held, i) # Nothing
      PROVE  /\ VersionOf(held, i) = RevisionOf(Effective(held, i))
             /\ AnswersAt(held, i) = AnswersOf(Effective(held, i))
  BY <1>3 DEF VersionOf, AnswersAt, AnsweredAt, AnswersOf
<1>4. ASSUME NEW component \in Component PROVE AnswersOf(component) \in [Party -> Stamp]
  <2>1. SUFFICES ASSUME NEW who \in Party PROVE AnswersOf(component)[who] \in Stamp
    BY DEF AnswersOf
  <2>2. component["ATTENDEE"] \in Seq(AttendeeLine)
    BY DEF Component
  <2>3. OccurrenceOf(component, who) # 0 => OccurrenceOf(component, who) \in DOMAIN component.ATTENDEE
    BY FirstLineOf
  <2>4. ASSUME OccurrenceOf(component, who) # 0
        PROVE  component.ATTENDEE[OccurrenceOf(component, who)].at \in Stamp
    <3>1. PICK at \in DOMAIN component.ATTENDEE : at = OccurrenceOf(component, who)
      BY <2>3, <2>4
    <3>2. component["ATTENDEE"][at] \in AttendeeLine
      BY <2>2
    <3>3. component["ATTENDEE"][at].at \in Stamp
      BY <3>2 DEF AttendeeLine
    <3>4. QED
      BY <3>1, <3>3
  <2>5. AnswersOf(component)[who] = IF OccurrenceOf(component, who) = 0 THEN Nothing
                                    ELSE component.ATTENDEE[OccurrenceOf(component, who)].at
    BY DEF AnswersOf
  <2>6. QED
    BY <2>4, <2>5 DEF Stamp
<1>5. Nothing \in Stamp
  BY DEF Stamp
<1>6. QED
  BY <1>1, <1>2, <1>3, <1>4, <1>5, RevisionReads

(* A delivery, component by component.                                      *)
Delivered(message, held, new) ==
  /\ new \in Seq(Component) /\ Orderly(new)
  /\ \A item \in DOMAIN held : /\ item \in DOMAIN new
                               /\ RecurrenceId(new[item]) = RecurrenceId(held[item])
                               /\ Moves(message, held[item], new[item])
  /\ \A item \in DOMAIN new : item \notin DOMAIN held =>
       \/ held = << >> /\ message.method # "REPLY" /\ RevisionOf(new[item]) # Nothing
       \/ /\ Masters(held) # {} /\ RecurrenceId(new[item]) # Nothing
          /\ Moves(message, held[MasterOf(held)], new[item])

LEMMA CreatedDelivers ==
  ASSUME NEW message \in Message, ToldApart(message.payloads), Result(message, << >>) # Nothing
  PROVE  Delivered(message, << >>, Result(message, << >>))
<1> DEFINE changes == Review(message, << >>)
<1>1. changes # Nothing /\ Result(message, << >>) = Apply(message, << >>, changes)
  BY DEF Result, Apply
<1>2. /\ DOMAIN changes = DOMAIN message.payloads
      /\ \A k \in DOMAIN changes : /\ changes[k].kind = "create"
                                   /\ message.method \in {"PUBLISH", "REQUEST"}
                                   /\ RevisionOf(message.payloads[k]) # Nothing
  BY <1>1, ReviewCreates
<1> HIDE DEF changes
<1>3. PICK held : held = << >>
  OBVIOUS
<1>4. held \in Seq(Component) /\ Len(held) = 0 /\ DOMAIN held = {}
  BY <1>3
<1>5. PICK result : result = Result(message, held)
  OBVIOUS
<1>6. TwoPhases(message, held, changes, result)
  BY <1>1, <1>2, <1>3, <1>4, <1>5, AppliedInPhases
<1>7. result \in Seq(Component) /\ Orderly(result)
  <2>1. Orderly(held)
    BY <1>4 DEF Orderly, ToldApart
  <2>2. QED
    BY <1>3, <1>4, <1>5, <2>1, DeliveryStaysOrderly DEF Kept
<1>8. ASSUME NEW item \in DOMAIN result
      PROVE  message.method # "REPLY" /\ RevisionOf(result[item]) # Nothing
  <2> DEFINE later == Later(changes)
             updated == Updated(message, held, changes)
  <2>1. /\ Cardinality(later) \in Nat
        /\ ListsUpTo(result, Len(held) + Cardinality(later))
        /\ \A j \in 1..Cardinality(later) :
             /\ Nth(later, j) \in later
             /\ result[Len(held) + j]
                  = WriteNew(message, updated, changes[Nth(later, j)], message.payloads[Nth(later, j)])
    BY <1>6 DEF TwoPhases
  <2>2. \A k \in later : k \in DOMAIN changes
    BY DEF Later
  <2> HIDE DEF later, updated
  <2>3. item \in 1..Cardinality(later) /\ Len(held) + item = item
    BY <1>4, <1>8, <2>1 DEF ListsUpTo
  <2>4. PICK k \in DOMAIN changes :
          result[item] = WriteNew(message, updated, changes[k], message.payloads[k])
    BY <2>1, <2>2, <2>3
  <2>5. result[item] = message.payloads[k]
    BY <1>2, <2>4 DEF WriteNew
  <2>6. QED
    BY <1>2, <2>5
<1>9. Delivered(message, held, result)
  BY <1>3, <1>4, <1>7, <1>8 DEF Delivered
<1>10. QED
  BY <1>3, <1>5, <1>9

LEMMA HeldDelivers ==
  ASSUME NEW message \in Message, ToldApart(message.payloads), NEW held \in Seq(Component),
         held # << >>, Orderly(held), CountersKeepAnswers(message, held),
         Result(message, held) # Nothing
  PROVE  Delivered(message, held, Result(message, held))
<1> DEFINE changes == Review(message, held)
           later == Later(changes)
           updated == Updated(message, held, changes)
<1>1. changes # Nothing /\ Result(message, held) = Apply(message, held, changes)
  BY DEF Result, Apply
<1>2. ReviewedOnto(message, held, changes)
  BY <1>1, ReviewFindsComponents
<1> HIDE DEF changes
<1>3. PICK new : new = Result(message, held)
  OBVIOUS
<1>4. TwoPhases(message, held, changes, new)
  BY <1>1, <1>2, <1>3, AppliedInPhases DEF ReviewedOnto
<1>5. DOMAIN held = 1..Len(held) /\ Len(held) \in Nat
  OBVIOUS
<1>6. new \in Seq(Component) /\ Orderly(new)
  BY <1>3, DeliveryStaysOrderly DEF Kept
<1>7. ASSUME NEW i \in DOMAIN held
      PROVE  /\ SameInstance(held[i], new[i]) /\ updated[i] = new[i]
             /\ Moves(message, held[i], new[i])
             /\ message.from # Organizer =>
                  OwnLine(OccurrenceOf(held[i], message.from), held[i], new[i])
  <2>1. new[i] = WriteExisting(message, held, changes, i) /\ new[i] # Nothing
    BY <1>4, <1>5 DEF TwoPhases
  <2>2. HeldWritten(message, held, changes, i, new[i])
    BY <1>2, <2>1, ExistingIsWritten
  <2>3. SameInstance(held[i], new[i])
    BY <1>2, <2>2, HeldStaysItsInstance DEF Orderly
  <2>4. Moves(message, held[i], new[i])
    BY <1>2, <2>2, HeldMoves
  <2>5. message.from # Organizer => OwnLine(OccurrenceOf(held[i], message.from), held[i], new[i])
    BY <1>2, <2>2, AttendeeWritesHeld
  <2>6. QED
    BY <2>1, <2>3, <2>4, <2>5 DEF Updated
<1> HIDE DEF later, updated
<1>8. /\ Cardinality(later) \in Nat
      /\ ListsUpTo(new, Len(held) + Cardinality(later))
      /\ \A j \in 1..Cardinality(later) :
           /\ Nth(later, j) \in later
           /\ new[Len(held) + j] = WriteNew(message, updated, changes[Nth(later, j)],
                                            message.payloads[Nth(later, j)])
           /\ new[Len(held) + j] # Nothing
  BY <1>4 DEF TwoPhases, later, updated
<1>9. \A item \in DOMAIN held : item \in DOMAIN new
  BY <1>5, <1>8 DEF ListsUpTo
<1>10. ASSUME NEW item \in DOMAIN new, item \notin DOMAIN held
       PROVE  /\ Masters(held) # {} /\ RecurrenceId(new[item]) # Nothing
              /\ Moves(message, held[MasterOf(held)], new[item])
  <2>1. item \in 1..(Len(held) + Cardinality(later))
    BY <1>8 DEF ListsUpTo
  <2>2. item - Len(held) \in 1..Cardinality(later) /\ item = Len(held) + (item - Len(held))
    BY <1>5, <1>8, <1>10, <2>1
  <2>3. PICK j \in 1..Cardinality(later) : item = Len(held) + j
    BY <2>2
  <2>4. PICK k \in later : k = Nth(later, j)
    BY <1>8
  <2>5. new[item] = WriteNew(message, updated, changes[k], message.payloads[k]) /\ new[item] # Nothing
    BY <1>8, <2>3, <2>4
  <2>6. changes[k].item \in DOMAIN held
    BY <1>2 DEF later, Later, ReviewedOnto, ToHeld, ToOccurrence, Masters
  <2>7. /\ SameInstance(held[changes[k].item], updated[changes[k].item])
        /\ Moves(message, held[changes[k].item], updated[changes[k].item])
        /\ message.from # Organizer =>
             OwnLine(OccurrenceOf(held[changes[k].item], message.from),
                     held[changes[k].item], updated[changes[k].item])
    BY <1>7, <2>6
  <2>8. k \in Later(changes)
    BY DEF later
  <2>9. /\ Masters(held) # {} /\ changes[k].item = MasterOf(held)
        /\ RecurrenceId(message.payloads[k]) # Nothing
        /\ Moves(message, held[changes[k].item], new[item])
    BY <1>2, <2>5, <2>7, <2>8, DetachedMoves
  <2>10. SameInstance(message.payloads[k], new[item])
    <3>1. AtMostOnce(held[changes[k].item])
      BY <2>6 DEF Orderly
    <3>2. QED
      BY <1>2, <2>5, <2>7, <2>8, <3>1, DetachedIsItsInstance
  <2>11. QED
    BY <2>9, <2>10 DEF SameInstance
<1>11. Delivered(message, held, new)
  BY <1>6, <1>7, <1>9, <1>10 DEF Delivered, SameInstance
<1>12. QED
  BY <1>3, <1>11

(* Instance by instance.                                                    *)
FollowsBook(message, held, new, i) ==
  BookMoves(message, VersionOf(held, i), VersionOf(new, i), AnswersAt(held, i), AnswersAt(new, i))

LEMMA BookFollowed ==
  ASSUME NEW message \in Message, NEW held \in Seq(Component), Orderly(held), NEW new,
         Delivered(message, held, new), NEW i \in Reference
  PROVE  FollowsBook(message, held, new, i)
<1>1. new \in Seq(Component) /\ Orderly(new)
  BY DEF Delivered
<1>2. /\ \A item \in DOMAIN held : /\ item \in DOMAIN new
                                   /\ RecurrenceId(new[item]) = RecurrenceId(held[item])
                                   /\ Moves(message, held[item], new[item])
      /\ \A item \in DOMAIN new : item \notin DOMAIN held =>
           \/ held = << >> /\ message.method # "REPLY" /\ RevisionOf(new[item]) # Nothing
           \/ /\ Masters(held) # {} /\ RecurrenceId(new[item]) # Nothing
              /\ Moves(message, held[MasterOf(held)], new[item])
  BY DEF Delivered
<1>3. Nothing \notin Component
  BY NoneAssumption DEF NoneAssumption
<1>4. ASSUME NEW old \in Component, NEW now \in Component, Effective(held, i) = old,
             Effective(new, i) = now, Moves(message, old, now)
      PROVE  FollowsBook(message, held, new, i)
  <2>1. BookMoves(message, RevisionOf(old), RevisionOf(now), AnswersOf(old), AnswersOf(now))
    BY <1>4, MovesOnRecord
  <2>2. /\ VersionOf(held, i) = RevisionOf(old) /\ AnswersAt(held, i) = AnswersOf(old)
        /\ VersionOf(new, i) = RevisionOf(now) /\ AnswersAt(new, i) = AnswersOf(now)
    BY <1>1, <1>3, <1>4, InstanceReads
  <2>3. QED
    BY <2>1, <2>2 DEF FollowsBook
<1>5. ASSUME Effective(held, i) = Nothing, Effective(new, i) = Nothing
      PROVE  FollowsBook(message, held, new, i)
  BY <1>1, <1>5, InstanceReads DEF FollowsBook, BookMoves, NotEarlier
<1>6. ASSUME Effective(held, i) = Nothing, NEW now \in Component, Effective(new, i) = now,
             message.method # "REPLY", RevisionOf(now) # Nothing
      PROVE  FollowsBook(message, held, new, i)
  <2>1. VersionOf(held, i) = Nothing /\ VersionOf(new, i) = RevisionOf(now)
    BY <1>1, <1>3, <1>6, InstanceReads
  <2>2. QED
    BY <1>6, <2>1 DEF FollowsBook, BookMoves
<1>7. Masters(held) # {} =>
        MasterOf(held) \in DOMAIN held /\ RecurrenceId(held[MasterOf(held)]) = Nothing
  BY MasterIsHeld DEF Masters, IsMaster
<1>8. held = << >> => Masters(held) = {}
  BY DEF Masters
<1>9. CASE Own(held, i) # {}
  <2>1. PICK item \in DOMAIN held : CompareInstances(i, RecurrenceId(held[item])) = "same"
    BY <1>9 DEF Own
  <2>2. Effective(held, i) = held[item]
    BY <2>1, EffectiveIsItsComponent
  <2>3. item \in DOMAIN new /\ CompareInstances(i, RecurrenceId(new[item])) = "same"
    BY <1>2, <2>1
  <2>4. Effective(new, i) = new[item]
    BY <1>1, <2>3, EffectiveIsItsComponent
  <2>5. held[item] \in Component /\ new[item] \in Component /\ Moves(message, held[item], new[item])
    BY <1>1, <1>2, <2>3
  <2>6. QED
    BY <1>4, <2>2, <2>4, <2>5
<1>10. CASE Own(held, i) = {} /\ Own(new, i) # {}
  <2>1. PICK item \in DOMAIN new : CompareInstances(i, RecurrenceId(new[item])) = "same"
    BY <1>10 DEF Own
  <2>2. Effective(new, i) = new[item] /\ new[item] \in Component
    BY <1>1, <2>1, EffectiveIsItsComponent
  <2>3. item \notin DOMAIN held
    BY <1>2, <1>10, <2>1 DEF Own
  <2>4. CASE held = << >> /\ message.method # "REPLY" /\ RevisionOf(new[item]) # Nothing
    <3>1. Effective(held, i) = Nothing
      BY <1>8, <1>10, <2>4 DEF Effective
    <3>2. QED
      BY <1>6, <2>2, <2>4, <3>1
  <2>5. CASE Masters(held) # {} /\ Moves(message, held[MasterOf(held)], new[item])
    <3>1. Effective(held, i) = held[MasterOf(held)] /\ held[MasterOf(held)] \in Component
      BY <1>7, <1>10, <2>5 DEF Effective
    <3>2. QED
      BY <1>4, <2>2, <2>5, <3>1
  <2>6. QED
    BY <1>2, <2>3, <2>4, <2>5
<1>11. CASE Own(held, i) = {} /\ Own(new, i) = {}
  <2>1. \A item \in Masters(held) : item \in Masters(new)
    BY <1>2 DEF Masters, IsMaster
  <2>2. held # << >> => \A item \in Masters(new) : item \in Masters(held)
    BY <1>2 DEF Masters, IsMaster
  <2>3. CASE Masters(held) # {}
    <3>1. Masters(new) = Masters(held)
      BY <1>8, <2>1, <2>2, <2>3
    <3>2. MasterOf(new) = MasterOf(held)
      BY <3>1 DEF MasterOf
    <3>3. /\ Effective(held, i) = held[MasterOf(held)]
          /\ Effective(new, i) = new[MasterOf(held)]
      BY <1>11, <2>3, <3>1, <3>2 DEF Effective
    <3>4. /\ held[MasterOf(held)] \in Component /\ new[MasterOf(held)] \in Component
          /\ Moves(message, held[MasterOf(held)], new[MasterOf(held)])
      BY <1>1, <1>2, <1>7, <2>3
    <3>5. QED
      BY <1>4, <3>3, <3>4
  <2>4. CASE Masters(held) = {} /\ Masters(new) = {}
    <3>1. Effective(held, i) = Nothing /\ Effective(new, i) = Nothing
      BY <1>11, <2>4 DEF Effective
    <3>2. QED
      BY <1>5, <3>1
  <2>5. CASE Masters(held) = {} /\ Masters(new) # {}
    <3>1. held = << >>
      BY <2>2, <2>5
    <3>2. MasterOf(new) \in DOMAIN new
      BY <1>1, <2>5, MasterIsHeld DEF Masters
    <3>3. MasterOf(new) \notin DOMAIN held
      BY <3>1
    <3>4. message.method # "REPLY" /\ RevisionOf(new[MasterOf(new)]) # Nothing
      BY <1>2, <2>5, <3>2, <3>3
    <3>5. Effective(held, i) = Nothing /\ Effective(new, i) = new[MasterOf(new)]
      BY <1>11, <2>5 DEF Effective
    <3>6. QED
      BY <1>1, <1>6, <3>2, <3>4, <3>5
  <2>6. QED
    BY <2>3, <2>4, <2>5
<1>12. QED
  BY <1>9, <1>10, <1>11

(* A step is the organizer's, or one attendee's.                            *)
LEMMA DeliveryFollowsBook ==
  ASSUME NEW message \in Message, ToldApart(message.payloads), NEW held \in Seq(Component),
         Orderly(held), CountersKeepAnswers(message, held), NEW new,
         new = Kept(Result(message, held), held), NEW i \in Reference
  PROVE  FollowsBook(message, held, new, i)
<1>1. CASE Result(message, held) = Nothing
  BY <1>1 DEF Kept, FollowsBook, BookMoves, NotEarlier
<1>2. CASE Result(message, held) # Nothing
  <2>1. new = Result(message, held)
    BY <1>2 DEF Kept
  <2>2. Delivered(message, held, new)
    <3>1. CASE held = << >>
      BY <1>2, <2>1, <3>1, CreatedDelivers
    <3>2. CASE held # << >>
      BY <1>2, <2>1, <3>2, HeldDelivers
    <3>3. QED
      BY <3>1, <3>2
  <2>3. QED
    BY <2>2, BookFollowed
<1>3. QED
  BY <1>1, <1>2

(* Messages late, twice or out of order never turn back what is on record:  *)
(* an instance only moves to newer versions, and between two versions an    *)
(* answer gives way only to a newer answer of the same attendee, if no      *)
(* counter-proposal states another time for an answer than is on record.    *)
THEOREM CalendarImplementsAnswerBook ==
  ASSUME OrderlyStart, DistinctPayloads
  PROVE  Spec /\ []CountersTakeNoAnswerBack => ImplementsAnswerBook
<1>1. Spec => []SchedulingInvariant
  BY SchedulingInvariantHolds
<1>2. SchedulingInvariant => Book!TypeOK
  <2>1. SUFFICES ASSUME SchedulingInvariant PROVE Book!TypeOK
    OBVIOUS
  <2>2. calendar \in Seq(Component)
    BY <2>1 DEF SchedulingInvariant
  <2>3. ASSUME NEW i \in Instance
        PROVE  /\ VersionOf(calendar, i) \in Revision \cup {Nothing}
               /\ [who \in Party |-> AnsweredAt(calendar, i, who)] \in [Party -> Stamp]
    BY <2>2, InstanceReads DEF AnswersAt
  <2>4. QED
    BY <2>3 DEF Book!TypeOK, Book!Revision, Book!Stamp, Revision, Stamp
<1>3. Book!TypeOK => Book!Init
  BY DEF Book!TypeOK, Book!Init
<1>4. SchedulingInvariant /\ Book!TypeOK' /\ CountersTakeNoAnswerBack /\ [Next]_vars
        => [Book!Next]_(Book!book)
  <2>1. SUFFICES ASSUME SchedulingInvariant, Book!TypeOK', CountersTakeNoAnswerBack, [Next]_vars
                 PROVE  [Book!Next]_(Book!book)
    OBVIOUS
  <2>2. CASE UNCHANGED vars
    BY <2>2 DEF vars, Book!book, VersionOf, AnsweredAt, Effective, Own, Masters, MasterOf
  <2>3. CASE Next
    <3>1. PICK message \in mail : Deliver(message)
      BY <2>3 DEF Next
    <3>2. message \in Message /\ ToldApart(message.payloads)
          /\ calendar \in Seq(Component) /\ Orderly(calendar)
      BY <2>1, <3>1, MailAssumption
         DEF MailAssumption, DistinctPayloads, SchedulingInvariant, OneComponentPerInstance
    <3>3. calendar' = Kept(Result(message, calendar), calendar)
      BY <3>1 DEF Deliver
    <3>4. CountersKeepAnswers(message, calendar)
      BY <2>1, <3>1 DEF CountersTakeNoAnswerBack
    <3>5. \A i \in Instance : FollowsBook(message, calendar, calendar', i)
      BY <3>2, <3>3, <3>4, DeliveryFollowsBook, InstancesAreReferences
    <3>6. Book!TypeOK'
      BY <2>1
    <3>7. CASE message.method = "REPLY"
      <4>1. \A i \in Instance :
              /\ VersionOf(calendar', i) = VersionOf(calendar, i)
              /\ \A other \in Party \ {message.from} :
                   AnsweredAt(calendar', i, other) = AnsweredAt(calendar, i, other)
              /\ NotEarlier(AnsweredAt(calendar', i, message.from), AnsweredAt(calendar, i, message.from))
        BY <3>2, <3>5, <3>7 DEF FollowsBook, BookMoves, AnswersAt, Message
      <4>2. message.from \in Party
        BY <3>2 DEF Message
      <4>3. Book!Answer(message.from)
        <5> DEFINE version == [i \in Instance |-> VersionOf(calendar, i)]
                   answered == [i \in Instance |-> [who \in Party |-> AnsweredAt(calendar, i, who)]]
        <5>1. version' = version
          BY <4>1
        <5>2. ASSUME NEW i \in Instance
              PROVE  /\ \A other \in Party \ {message.from} : answered'[i][other] = answered[i][other]
                     /\ NotEarlier(answered'[i][message.from], answered[i][message.from])
          BY <4>1, <4>2
        <5> HIDE DEF version, answered
        <5>3. QED
          BY <5>1, <5>2 DEF Book!Answer, NotEarlier, version, answered
      <4>4. QED
        BY <3>6, <4>2, <4>3 DEF Book!Next
    <3>8. CASE message.method # "REPLY"
      <4>1. \A i \in Instance :
              \/ /\ VersionOf(calendar', i) # Nothing
                 /\ \/ VersionOf(calendar, i) = Nothing
                    \/ Supersedes(VersionOf(calendar', i), VersionOf(calendar, i))
              \/ /\ VersionOf(calendar', i) = VersionOf(calendar, i)
                 /\ [who \in Party |-> AnsweredAt(calendar', i, who)]
                      = [who \in Party |-> AnsweredAt(calendar, i, who)]
        BY <3>5, <3>8 DEF FollowsBook, BookMoves, AnswersAt
      <4>2. Book!Update
        BY <4>1 DEF Book!Update, Book!Advances, Book!Supersedes, Supersedes
      <4>3. QED
        BY <3>6, <4>2 DEF Book!Next
    <3>9. QED
      BY <3>7, <3>8
  <2>4. QED
    BY <2>1, <2>2, <2>3
<1>5. QED
  BY <1>1, <1>2, <1>3, <1>4, PTL DEF Spec, ImplementsAnswerBook, Book!Spec

-------------------------------------------------------------------------------
(* News is taken                                                            *)


(* A restatement can be written onto the lines it was described against, if *)
(* it takes at most one off them.                                           *)
LEMMA ShortRestatementWritable ==
  ASSUME NEW S, NEW offered \in Seq(S), NEW held \in Seq(S), Len(held) <= Len(offered) + 1
  PROVE  Writable(held, Restated(offered, held))
<1> DEFINE changes == Restated(offered, held)
           o == Len(offered)
           h == Len(held)
           adds == Of(changes, "add")
           gone == Of(changes, "remove")
<1>1. /\ o \in Nat /\ h \in Nat
      /\ adds # {} => First(adds) = h + 1
      /\ gone # {} <=> o < h
      /\ gone # {} => First(gone) = o + 1
      /\ Cardinality(gone) = IF o < h THEN h - o ELSE 0
  BY RestatementCounts
<1>2. ASSUME NEW change \in changes \ (adds \cup gone)
      PROVE  change.index \in 1..h
  <2>1. change.kind \in {"replace", "add", "remove"} /\ (change.kind = "replace" => change.index \in 1..h)
    BY RestatementParts
  <2>2. change.kind # "add" /\ change.kind # "remove"
    BY DEF Of
  <2>3. QED
    BY <2>1, <2>2
<1>3. h <= o + 1 /\ DOMAIN held = 1..h
  OBVIOUS
<1> HIDE DEF changes, o, h, adds, gone
<1>4. gone # {} => First(gone) + 2 * (Cardinality(gone) - 1) <= h
  BY <1>1, <1>3
<1>5. QED
  BY <1>1, <1>2, <1>3, <1>4 DEF Writable, changes, adds, gone, h

(* What a restatement proposes is a transition, and no refusal.             *)
LEMMA RestatementProposes ==
  ASSUME NEW payload \in Component, NEW current \in Component
  PROVE  [name \in Name |-> Restated(payload[name], current[name])] \in Transition
<1>1. ASSUME NEW name \in Name, NEW change \in Restated(payload[name], current[name])
      PROVE  change \in [index : Nat, kind : {"replace", "add", "remove", "parameters"}, line : Line]
  <2> DEFINE offered == payload[name]
             held == current[name]
  <2>1. offered \in Seq(LineOf[name]) /\ held \in Seq(LineOf[name])
    BY ComponentIsLines
  <2>2. LineOf[name] \subseteq Line /\ Nothing \in Line
    BY DEF LineOf, Line, Name
  <2>3. \A i \in DOMAIN offered : i \in Nat /\ offered[i] \in Line
    BY <2>1, <2>2
  <2>4. \A i \in DOMAIN held : i \in Nat
    BY <2>1
  <2> HIDE DEF offered, held
  <2>5. change \in Restated(offered, held)
    BY DEF offered, held
  <2>6. CASE change \in {Change(i, "replace", offered[i]) : i \in {j \in DOMAIN offered \cap DOMAIN held :
                                                                offered[j] # held[j]}}
    BY <2>3, <2>6 DEF Change
  <2>7. CASE change \in {Change(i, "add", offered[i]) : i \in DOMAIN offered \ DOMAIN held}
    BY <2>3, <2>7 DEF Change
  <2>8. CASE change \in {Change(i, "remove", Nothing) : i \in DOMAIN held \ DOMAIN offered}
    BY <2>2, <2>4, <2>8 DEF Change
  <2>9. QED
    BY <2>5, <2>6, <2>7, <2>8 DEF Restated
<1>2. QED
  BY <1>1 DEF Transition

(* A newer version is not a stale one.                                      *)
LEMMA NewerIsNotStale ==
  ASSUME NEW one \in Component, NEW other \in Component,
         RevisionOf(one) # Nothing, RevisionOf(other) # Nothing,
         Supersedes(RevisionOf(one), RevisionOf(other))
  PROVE  ~IsStaleAgainst(RevisionOf(one), RevisionOf(other))
<1>1. Above(one, other)
  BY SupersedesReads
<1>2. /\ Sequence(one) \in Nat /\ Sequence(other) \in Nat
      /\ Single(one, "DTSTAMP") \in Stamp /\ Single(other, "DTSTAMP") \in Stamp
  BY RevisionReads
<1>3. ~Above(other, one)
  BY <1>1, <1>2, NothingAssumption DEF Above, Stamp, NothingAssumption
<1>4. ~Supersedes(RevisionOf(other), RevisionOf(one))
  BY <1>3, SupersedesReads
<1>5. QED
  BY <1>4 DEF IsStaleAgainst

(* A payload of a newer version, as its sender may construct it, passes     *)
(* every gate of an organizer.                                              *)
LEMMA NewsIsEvaluated ==
  ASSUME NEW message \in Message, message.from = Organizer, OrganizerAuthored(message.method),
         NEW payload \in Component, Inspect(message.method, payload),
         CheckConformance(message.method, payload), NEW current \in Component,
         RevisionOf(current) = Nothing \/ Supersedes(RevisionOf(payload), RevisionOf(current))
  PROVE  /\ Evaluate(message, payload, current, "present")
              = [name \in Name |-> Restated(payload[name], current[name])]
         /\ Evaluate(message, payload, current, "present") \in Transition
<1> DEFINE method == message.method
           described == DescribePayload(method, payload, current)
<1>1. method \in Method /\ method \notin {"REPLY", "REFRESH", "COUNTER"}
  BY DEF Message, OrganizerAuthored
<1>2. described = [name \in Name |-> Restated(payload[name], current[name])]
  BY <1>1 DEF DescribePayload
<1>3. SenderPermitted(method, current, message.from)
  BY DEF SenderPermitted, ActorRole
<1>4. CheckRange(method, payload) /\ CheckCancellation(method, payload)
  BY DEF Inspect
<1>5. RevisionOf(payload) # Nothing
  <2>1. Sequence(payload) # Nothing
    <3>1. CASE payload.SEQUENCE = << >>
      BY <3>1, NothingAssumption DEF Sequence, NothingAssumption
    <3>2. CASE payload.SEQUENCE # << >>
      BY <3>2 DEF Inspect
    <3>3. QED
      BY <3>1, <3>2
  <2>2. QED
    BY <2>1, RevisionReads
<1>6. CheckRevision(payload, current)
  BY <1>5, NewerIsNotStale DEF CheckRevision
<1>7. Settle(method, "present", payload, current, described) = described
  BY DEF Settle
<1>8. Evaluate(message, payload, current, "present") = described
  BY <1>1, <1>3, <1>4, <1>6, <1>7 DEF Evaluate
<1>9. QED
  BY <1>2, <1>8, RestatementProposes

(* What the property asks of a message: the organizer's, about a series     *)
(* that is held, in a newer version, as a sender may construct it.          *)
Acceptable(message, held) ==
  /\ message.from = Organizer
  /\ OrganizerAuthored(message.method)
  /\ Masters(held) # {}
  /\ \A k \in DOMAIN message.payloads :
       /\ IsNews(held, message.payloads[k])
       /\ Matches(held, message.payloads[k], "ambiguous") = {}
       /\ Inspect(message.method, message.payloads[k])
       /\ CheckConformance(message.method, message.payloads[k])
       /\ \/ Own(held, RecurrenceId(message.payloads[k])) # {}
          \/ RecurrenceSetContains(held[MasterOf(held)], message.payloads[k])

(* The component a payload is judged against.                               *)
LEMMA JudgedAgainst ==
  ASSUME NEW message \in Message, NEW held \in Seq(Component), Orderly(held),
         Acceptable(message, held), NEW k \in DOMAIN message.payloads,
         NEW item \in DOMAIN held,
         \/ item \in Matches(held, message.payloads[k], "same")
         \/ Matches(held, message.payloads[k], "same") = {} /\ item = MasterOf(held)
  PROVE  LET payload == message.payloads[k]
         IN  /\ payload \in Component /\ held[item] \in Component /\ AtMostOnce(held[item])
             /\ Effective(held, RecurrenceId(payload)) = held[item]
             /\ \/ RevisionOf(held[item]) = Nothing
                \/ Supersedes(RevisionOf(payload), RevisionOf(held[item]))
<1> DEFINE payload == message.payloads[k]
           ref == RecurrenceId(payload)
<1>1. payload \in Component /\ held[item] \in Component /\ AtMostOnce(held[item])
  BY DEF Message, Orderly
<1>2. Masters(held) # {} /\ IsNews(held, payload)
  BY DEF Acceptable
<1>3. Effective(held, ref) = held[item]
  <2>1. CASE item \in Matches(held, payload, "same")
    <3>1. CompareInstances(ref, RecurrenceId(held[item])) = "same"
      BY <2>1 DEF Matches
    <3>2. QED
      BY <1>1, <3>1, RecurrenceIdReads, EffectiveIsItsComponent
  <2>2. CASE Matches(held, payload, "same") = {} /\ item = MasterOf(held)
    <3>1. Own(held, ref) = {}
      BY <2>2 DEF Own, Matches
    <3>2. QED
      BY <1>2, <2>2, <3>1 DEF Effective
  <2>3. QED
    BY <2>1, <2>2
<1>4. held[item] # Nothing
  BY <1>1, NoneAssumption DEF NoneAssumption
<1>5. RevisionOf(held[item]) = Nothing \/ Supersedes(RevisionOf(payload), RevisionOf(held[item]))
  BY <1>2, <1>3, <1>4 DEF IsNews, VersionOf
<1>6. QED
  BY <1>1, <1>3, <1>5

(* What the review proposes of it.                                          *)
Proposed(payload, current) == [name \in Name |-> Restated(payload[name], current[name])]

(* Of a newer version the review proposes just the restated components.     *)
LEMMA NewsIsProposed ==
  ASSUME NEW message \in Message, NEW held \in Seq(Component), Orderly(held),
         Acceptable(message, held), NEW k \in DOMAIN message.payloads,
         NEW item \in DOMAIN held,
         \/ item \in Matches(held, message.payloads[k], "same")
         \/ Matches(held, message.payloads[k], "same") = {} /\ item = MasterOf(held)
  PROVE  /\ Evaluate(message, message.payloads[k], held[item], "present")
              = Proposed(message.payloads[k], held[item])
         /\ Proposed(message.payloads[k], held[item]) \in Transition
         /\ Proposed(message.payloads[k], held[item]) # Nothing
<1> DEFINE payload == message.payloads[k]
           current == held[item]
<1>1. /\ payload \in Component /\ current \in Component
      /\ RevisionOf(current) = Nothing \/ Supersedes(RevisionOf(payload), RevisionOf(current))
  BY JudgedAgainst
<1>2. /\ message.from = Organizer /\ OrganizerAuthored(message.method)
      /\ Inspect(message.method, payload) /\ CheckConformance(message.method, payload)
  BY DEF Acceptable
<1> HIDE DEF payload, current
<1>3. /\ Evaluate(message, payload, current, "present")
           = [name \in Name |-> Restated(payload[name], current[name])]
      /\ Evaluate(message, payload, current, "present") \in Transition
  BY <1>1, <1>2, NewsIsEvaluated
<1>4. /\ Evaluate(message, payload, current, "present") = Proposed(payload, current)
      /\ Proposed(payload, current) \in Transition /\ Proposed(payload, current) # Nothing
  BY <1>3, RefusalAssumption DEF RefusalAssumption, Proposed
<1>5. QED
  BY <1>4 DEF payload, current

(* Every payload is let through.                                            *)
LEMMA NewsPassesReview ==
  ASSUME NEW message \in Message, NEW held \in Seq(Component), Orderly(held),
         Acceptable(message, held), NEW k \in DOMAIN message.payloads
  PROVE  LET payload == message.payloads[k]
             reviewed(kind, item) ==
               /\ ReviewPayload(message, held, payload)
                    = ReviewedChange(kind, item, Proposed(payload, held[item]))
               /\ Proposed(payload, held[item]) \in Transition
         IN  \/ \E item \in DOMAIN held : /\ reviewed("existing", item)
                                          /\ item \in Matches(held, payload, "same")
             \/ \E item \in DOMAIN held : /\ reviewed("detach", item)
                                          /\ Matches(held, payload, "same") = {}
                                          /\ item = MasterOf(held) /\ ~IsMaster(payload)
<1> DEFINE payload == message.payloads[k]
<1>1. payload \in Component /\ Masters(held) # {}
  BY DEF Message, Acceptable
<1>2. CASE Matches(held, payload, "same") # {}
  <2> DEFINE item == Exact(held, payload)
  <2>1. item \in Matches(held, payload, "same")
    BY <1>2 DEF Exact
  <2>2. item \in DOMAIN held
    BY <2>1 DEF Matches
  <2>3. /\ Evaluate(message, payload, held[item], "present") = Proposed(payload, held[item])
        /\ Proposed(payload, held[item]) \in Transition /\ Proposed(payload, held[item]) # Nothing
    BY <2>1, <2>2, NewsIsProposed
  <2>4. ReviewPayload(message, held, payload)
          = ReviewExact(item, Evaluate(message, payload, held[item], "present"))
    BY <1>2 DEF ReviewPayload
  <2> HIDE DEF item, payload
  <2>5. ReviewPayload(message, held, payload)
          = ReviewedChange("existing", item, Proposed(payload, held[item]))
    BY <2>3, <2>4 DEF ReviewExact
  <2>6. QED
    BY <2>1, <2>2, <2>3, <2>5 DEF payload
<1>3. CASE Matches(held, payload, "same") = {}
  <2> DEFINE item == MasterOf(held)
             proposed == Proposed(payload, held[item])
  <2>1. item \in Masters(held)
    BY <1>1, MasterIsHeld
  <2>2. item \in DOMAIN held /\ RecurrenceId(held[item]) = Nothing
    BY <2>1 DEF Masters, IsMaster
  <2>3. /\ Evaluate(message, payload, held[item], "present") = proposed
        /\ proposed \in Transition /\ proposed # Nothing
    BY <1>3, <2>2, NewsIsProposed
  <2>4. ~IsMaster(payload)
    <3>1. SUFFICES ASSUME RecurrenceId(payload) = Nothing PROVE FALSE
      BY DEF IsMaster
    <3>2. CompareInstances(RecurrenceId(payload), RecurrenceId(held[item])) = "same"
      BY <2>2, <3>1 DEF CompareInstances
    <3>3. QED
      BY <1>3, <2>2, <3>2 DEF Matches
  <2>5. RecurrenceSetContains(held[item], payload)
    <3>1. Own(held, RecurrenceId(payload)) = {}
      BY <1>3 DEF Own, Matches
    <3>2. QED
      BY <3>1 DEF Acceptable
  <2>6. ReviewPayload(message, held, payload)
          = ReviewDetached(held, payload, item, Evaluate(message, payload, held[item], "present"))
    BY <1>1, <1>3 DEF ReviewPayload
  <2>7. item = MasterOf(held)
    OBVIOUS
  <2> HIDE DEF item, payload, proposed
  <2>8. ~IsEmpty(proposed)
    BY <1>1, <2>2, <2>4, RestatedIsStated DEF proposed, Proposed, IsMaster
  <2>9. ReviewPayload(message, held, payload) = ReviewedChange("detach", item, proposed)
    BY <2>3, <2>4, <2>5, <2>6, <2>8 DEF ReviewDetached
  <2>10. QED
    BY <1>3, <2>2, <2>3, <2>4, <2>7, <2>9 DEF payload, proposed
<1>4. QED
  BY <1>2, <1>3

(* A set without two elements counts to one at most.                        *)
LEMMA NoTwoElements ==
  ASSUME NEW T, \A one, other \in T : one = other
  PROVE  Cardinality(T) <= 1
<1>1. CASE T = {}
  <2>1. Cardinality(T) = 0
    BY <1>1, FS_EmptySet
  <2>2. QED
    BY <2>1
<1>2. CASE T # {}
  <2>1. PICK one \in T : T = {one}
    BY <1>2
  <2>2. Cardinality({one}) = 1
    BY FS_Singleton
  <2>3. QED
    BY <2>1, <2>2
<1>3. QED
  BY <1>1, <1>2

(* No two components stand for one instance, so a payload names one at most *)
(* and two payloads never the same one.                                     *)
LEMMA OneMasterIsHeld ==
  ASSUME NEW held \in Seq(Component), Orderly(held)
  PROVE  Cardinality(Masters(held)) <= 1
<1>1. ASSUME NEW one \in Masters(held), NEW other \in Masters(held) PROVE one = other
  <2>1. /\ one \in DOMAIN held /\ other \in DOMAIN held
        /\ RecurrenceId(held[one]) = Nothing /\ RecurrenceId(held[other]) = Nothing
    BY DEF Masters, IsMaster
  <2>2. CompareInstances(RecurrenceId(held[one]), RecurrenceId(held[other])) # "different"
    BY <2>1 DEF CompareInstances
  <2>3. QED
    BY <2>1, <2>2 DEF Orderly, ToldApart
<1>2. QED
  BY <1>1, NoTwoElements

(* A payload names one component at most, and no two payloads the same one. *)
LEMMA PayloadsNameComponents ==
  ASSUME NEW message \in Message, ToldApart(message.payloads), NEW held \in Seq(Component),
         Orderly(held), NEW k \in DOMAIN message.payloads
  PROVE  /\ Cardinality(Matches(held, message.payloads[k], "same")) <= 1
         /\ \A other \in DOMAIN message.payloads : k # other =>
              Matches(held, message.payloads[k], "same")
                \cap Matches(held, message.payloads[other], "same") = {}
<1>1. \A l \in DOMAIN message.payloads : message.payloads[l] \in Component
  BY DEF Message
<1>2. ASSUME NEW l \in DOMAIN message.payloads, NEW item \in Matches(held, message.payloads[l], "same")
      PROVE  /\ item \in DOMAIN held
             /\ RecurrenceId(message.payloads[l]) \in Reference
             /\ RecurrenceId(message.payloads[l]) = RecurrenceId(held[item])
             /\ Resolved(RecurrenceId(held[item]))
  <2>1. /\ item \in DOMAIN held /\ held[item] \in Component
        /\ CompareInstances(RecurrenceId(message.payloads[l]), RecurrenceId(held[item])) = "same"
    BY DEF Matches
  <2>2. QED
    BY <1>1, <2>1, RecurrenceIdReads, ComparesReferences DEF Resolved
<1>3. \A ref \in Reference : Resolved(ref) => CompareInstances(ref, ref) = "same"
  BY ComparesReferences DEF Resolved
<1>4. ASSUME NEW one \in Matches(held, message.payloads[k], "same"),
             NEW other \in Matches(held, message.payloads[k], "same")
      PROVE  one = other
  <2>1. CompareInstances(RecurrenceId(held[one]), RecurrenceId(held[other])) = "same"
    BY <1>2, <1>3
  <2>2. QED
    BY <1>2, <2>1 DEF Orderly, ToldApart
<1>5. Cardinality(Matches(held, message.payloads[k], "same")) <= 1
  BY <1>4, NoTwoElements
<1>6. ASSUME NEW other \in DOMAIN message.payloads, k # other,
             NEW item \in Matches(held, message.payloads[k], "same"),
             item \in Matches(held, message.payloads[other], "same")
      PROVE  FALSE
  <2>1. CompareInstances(RecurrenceId(message.payloads[k]), RecurrenceId(message.payloads[other]))
          = "same"
    BY <1>2, <1>3, <1>6
  <2>2. QED
    BY <1>6, <2>1 DEF ToldApart
<1>7. QED
  BY <1>5, <1>6

(* The message is let through as a whole.                                   *)
LEMMA NewsIsReviewed ==
  ASSUME NEW message \in Message, ToldApart(message.payloads), NEW held \in Seq(Component),
         Orderly(held), Acceptable(message, held)
  PROVE  /\ held # << >>
         /\ Review(message, held) # Nothing
         /\ Review(message, held) = [k \in DOMAIN message.payloads |->
                                       ReviewPayload(message, held, message.payloads[k])]
<1> DEFINE changes == [k \in DOMAIN message.payloads |->
                         ReviewPayload(message, held, message.payloads[k])]
<1>1. held # << >>
  BY DEF Acceptable, Masters
<1>2. \A k \in DOMAIN message.payloads : Inspect(message.method, message.payloads[k])
  BY DEF Acceptable
<1>3. Review(message, held) = ReviewExisting(message, held)
  BY <1>1, <1>2 DEF Review
<1>4. Review(message, held) = AllOrNothing(changes)
  <2>1. /\ Cardinality(Masters(held)) <= 1
        /\ \A k \in DOMAIN message.payloads :
             /\ Matches(held, message.payloads[k], "ambiguous") = {}
             /\ Cardinality(Matches(held, message.payloads[k], "same")) <= 1
        /\ \A k, other \in DOMAIN message.payloads : k # other =>
             Matches(held, message.payloads[k], "same")
               \cap Matches(held, message.payloads[other], "same") = {}
    BY OneMasterIsHeld, PayloadsNameComponents DEF Acceptable
  <2>2. QED
    BY <1>3, <2>1 DEF ReviewExisting, Reviewed
<1>5. ASSUME NEW k \in DOMAIN message.payloads
      PROVE  changes[k] \in ReviewedChanges /\ changes[k] # Nothing
  <2> DEFINE payload == message.payloads[k]
  <2>1. \E kind \in {"existing", "detach"}, item \in DOMAIN held :
          /\ ReviewPayload(message, held, payload)
               = ReviewedChange(kind, item, Proposed(payload, held[item]))
          /\ Proposed(payload, held[item]) \in Transition
    BY NewsPassesReview
  <2>2. PICK kind \in {"existing", "detach"}, item \in DOMAIN held :
          /\ ReviewPayload(message, held, payload)
               = ReviewedChange(kind, item, Proposed(payload, held[item]))
          /\ Proposed(payload, held[item]) \in Transition
    BY <2>1
  <2>3. changes[k] = ReviewPayload(message, held, payload) /\ item \in Nat
    OBVIOUS
  <2> HIDE DEF changes, payload
  <2>4. changes[k] \in ReviewedChanges
    BY <2>2, <2>3 DEF ReviewedChange, ReviewedChanges
  <2>5. QED
    BY <2>4, RefusalAssumption DEF RefusalAssumption
<1>6. changes \in Seq(ReviewedChanges)
  <2>1. PICK n \in Nat : DOMAIN message.payloads = 1..n
    BY DEF Message
  <2>2. changes = [k \in 1..n |-> changes[k]] /\ \A k \in 1..n : changes[k] \in ReviewedChanges
    BY <1>5, <2>1
  <2> HIDE DEF changes
  <2>3. QED
    BY <2>2
<1>7. AllOrNothing(changes) = changes
  BY <1>5 DEF AllOrNothing
<1>8. changes # Nothing
  BY <1>6, RefusalAssumption DEF RefusalAssumption
<1> HIDE DEF changes
<1>9. Review(message, held) = changes /\ Review(message, held) # Nothing
  BY <1>4, <1>7, <1>8
<1>10. QED
  BY <1>1, <1>9 DEF changes

(* What the mail has to be like: while the series is held, news of          *)
(* it comes apart from news that splits an instance off it, whose clone is  *)
(* taken after the series was written, but was described before; and news   *)
(* takes no more than one ATTENDEE line off a component, because of two     *)
(* removals the second finds nothing (AuthorizedChange::apply, apply_to).   *)
StatesSeriesAlone(message, held) ==
  (\E k \in DOMAIN message.payloads : IsMaster(message.payloads[k]))
  => \A k \in DOMAIN message.payloads : Own(held, RecurrenceId(message.payloads[k])) # {}

DropsOneAttendeeAtMost(message, held) ==
  \A k \in DOMAIN message.payloads :
    LET component == Effective(held, RecurrenceId(message.payloads[k]))
    IN  component # Nothing =>
          Len(component.ATTENDEE) <= Len(message.payloads[k].ATTENDEE) + 1

(* Every newer version that could be delivered now can be written whole.    *)
NewsIsWritable ==
  \A message \in mail :
    Acceptable(message, calendar) =>
      StatesSeriesAlone(message, calendar) /\ DropsOneAttendeeAtMost(message, calendar)

(* Written onto the component it was described against, it leaves what it   *)
(* states.                                                                  *)
LEMMA ProposedIsApplied ==
  ASSUME NEW message \in Message, NEW held \in Seq(Component), Orderly(held),
         Acceptable(message, held), DropsOneAttendeeAtMost(message, held),
         NEW k \in DOMAIN message.payloads, NEW item \in DOMAIN held,
         \/ item \in Matches(held, message.payloads[k], "same")
         \/ Matches(held, message.payloads[k], "same") = {} /\ item = MasterOf(held)
  PROVE  /\ ApplyTo(held[item], Proposed(message.payloads[k], held[item])) = message.payloads[k]
         /\ message.payloads[k] \in Component
<1> DEFINE payload == message.payloads[k]
           current == held[item]
<1>1. /\ payload \in Component /\ current \in Component /\ AtMostOnce(current)
      /\ Effective(held, RecurrenceId(payload)) = current
  BY JudgedAgainst
<1>2. Len(current.ATTENDEE) <= Len(payload.ATTENDEE) + 1
  <2>1. current # Nothing
    BY <1>1, NoneAssumption DEF NoneAssumption
  <2>2. QED
    BY <1>1, <2>1 DEF DropsOneAttendeeAtMost
<1> HIDE DEF payload, current
<1>3. ASSUME NEW name \in Name
      PROVE  Writable(current[name], Restated(payload[name], current[name]))
  <2>1. payload[name] \in Seq(LineOf[name]) /\ current[name] \in Seq(LineOf[name])
    BY <1>1, ComponentIsLines
  <2>2. Len(current[name]) <= Len(payload[name]) + 1
    <3>1. Len(current[name]) \in Nat /\ Len(payload[name]) \in Nat
      BY <2>1
    <3>2. CASE name = "ATTENDEE"
      BY <1>2, <3>2
    <3>3. CASE name # "ATTENDEE"
      BY <1>1, <3>1, <3>3 DEF AtMostOnce
    <3>4. QED
      BY <3>2, <3>3
  <2>3. QED
    BY <2>1, <2>2, ShortRestatementWritable
<1>4. ApplyTo(current, Proposed(payload, current)) = payload
  <2>1. \A name \in Name : Writable(current[name], Proposed(payload, current)[name])
    BY <1>3 DEF Proposed
  <2> DEFINE new == [name \in Name |-> WriteLines(current[name], Proposed(payload, current)[name])]
  <2>2. ApplyTo(current, Proposed(payload, current)) = new
    BY <2>1 DEF ApplyTo
  <2>3. \A name \in Name : WriteLines(current[name], Proposed(payload, current)[name]) = payload[name]
    <3>1. ASSUME NEW name \in Name
          PROVE  WriteLines(current[name], Restated(payload[name], current[name])) = payload[name]
      <4>1. payload[name] \in Seq(LineOf[name]) /\ current[name] \in Seq(LineOf[name])
        BY <1>1, ComponentIsLines
      <4>2. QED
        BY <1>3, <4>1, RestatementLands
    <3>2. QED
      BY <3>1 DEF Proposed
  <2>4. new = [name \in Name |-> payload[name]]
    BY <2>3
  <2> HIDE DEF new
  <2>5. payload = [name \in Name |-> payload[name]]
    BY <1>1, ComponentIsLines
  <2>6. QED
    BY <2>2, <2>4, <2>5
<1>5. QED
  BY <1>1, <1>4 DEF payload, current

(* The changes a review makes of news.                                      *)
ToWrite(message, held, changes) ==
  /\ DOMAIN changes = DOMAIN message.payloads
  /\ \A k \in DOMAIN changes :
       LET payload == message.payloads[k]
           item == changes[k].item
       IN  /\ item \in DOMAIN held
           /\ changes[k].transition = Proposed(payload, held[item])
           /\ \/ /\ changes[k].kind = "existing" /\ item \in Matches(held, payload, "same")
              \/ /\ changes[k].kind = "detach" /\ Matches(held, payload, "same") = {}
                 /\ item = MasterOf(held) /\ ~IsMaster(payload)

(* Each change a review makes of news finds its component, or adds one.     *)
LEMMA NewsIsToWrite ==
  ASSUME NEW message \in Message, ToldApart(message.payloads), NEW held \in Seq(Component),
         Orderly(held), Acceptable(message, held)
  PROVE  ToWrite(message, held, Review(message, held))
<1> DEFINE changes == Review(message, held)
<1>1. changes = [k \in DOMAIN message.payloads |-> ReviewPayload(message, held, message.payloads[k])]
  BY NewsIsReviewed
<1> HIDE DEF changes
<1>2. \A item, written, kind :
        /\ ReviewedChange(kind, item, written).kind = kind
        /\ ReviewedChange(kind, item, written).item = item
        /\ ReviewedChange(kind, item, written).transition = written
  BY DEF ReviewedChange
<1>3. ASSUME NEW k \in DOMAIN message.payloads
      PROVE  LET payload == message.payloads[k]
                 item == changes[k].item
             IN  /\ item \in DOMAIN held
                 /\ changes[k].transition = Proposed(payload, held[item])
                 /\ \/ /\ changes[k].kind = "existing" /\ item \in Matches(held, payload, "same")
                    \/ /\ changes[k].kind = "detach" /\ Matches(held, payload, "same") = {}
                       /\ item = MasterOf(held) /\ ~IsMaster(payload)
  <2> DEFINE payload == message.payloads[k]
  <2>1. changes[k] = ReviewPayload(message, held, payload)
    BY <1>1
  <2>2. \/ \E item \in DOMAIN held :
             /\ ReviewPayload(message, held, payload)
                  = ReviewedChange("existing", item, Proposed(payload, held[item]))
             /\ item \in Matches(held, payload, "same")
        \/ \E item \in DOMAIN held :
             /\ ReviewPayload(message, held, payload)
                  = ReviewedChange("detach", item, Proposed(payload, held[item]))
             /\ Matches(held, payload, "same") = {} /\ item = MasterOf(held) /\ ~IsMaster(payload)
    BY NewsPassesReview
  <2> HIDE DEF payload
  <2>3. QED
    BY <1>2, <2>1, <2>2 DEF payload
<1>4. DOMAIN changes = DOMAIN message.payloads
  BY <1>1
<1>5. QED
  BY <1>3, <1>4 DEF ToWrite, changes

(* What is held is written.                                                 *)
LEMMA NewsWritesHeld ==
  ASSUME NEW message \in Message, NEW held \in Seq(Component), Orderly(held),
         Acceptable(message, held), DropsOneAttendeeAtMost(message, held), NEW changes,
         ToWrite(message, held, changes), NEW item \in DOMAIN held
  PROVE  WriteExisting(message, held, changes, item) \in Component
<1> DEFINE mine == {k \in DOMAIN changes : changes[k].kind = "existing" /\ changes[k].item = item}
           real == {k \in mine : ~IsEmpty(changes[k].transition)}
           l == CHOOSE k \in real : TRUE
<1>1. held[item] \in Component
  OBVIOUS
<1>2. CASE mine = {}
  BY <1>1, <1>2 DEF WriteExisting
<1>3. CASE mine # {} /\ real = {}
  <2>1. WriteExisting(message, held, changes, item) = Finished(message, held[item])
    BY <1>3 DEF WriteExisting
  <2>2. QED
    BY <1>1, <2>1, FinishedIsComponent
<1>4. CASE mine # {} /\ real # {}
  <2>1. WriteExisting(message, held, changes, item)
          = Finished(message, ApplyTo(held[item], changes[l].transition))
    BY <1>4 DEF WriteExisting
  <2>2. l \in real
    BY <1>4
  <2>3. l \in DOMAIN changes /\ changes[l].kind = "existing" /\ changes[l].item = item
    BY <2>2
  <2> HIDE DEF l, real, mine
  <2>4. /\ l \in DOMAIN message.payloads /\ item \in Matches(held, message.payloads[l], "same")
        /\ changes[l].transition = Proposed(message.payloads[l], held[item])
    BY <2>3 DEF ToWrite
  <2>5. ApplyTo(held[item], changes[l].transition) \in Component
    BY <2>4, ProposedIsApplied
  <2>6. QED
    BY <2>1, <2>5, FinishedIsComponent
<1>5. QED
  BY <1>2, <1>3, <1>4

(* What is new is made.                                                     *)
LEMMA NewsMakesNew ==
  ASSUME NEW message \in Message, NEW held \in Seq(Component), Orderly(held),
         Acceptable(message, held), DropsOneAttendeeAtMost(message, held),
         StatesSeriesAlone(message, held), NEW changes, ToWrite(message, held, changes),
         NEW k \in Later(changes), NEW updated, updated = Updated(message, held, changes)
  PROVE  WriteNew(message, updated, changes[k], message.payloads[k]) \in Component
<1> DEFINE payload == message.payloads[k]
           item == changes[k].item
<1>1. /\ k \in DOMAIN changes /\ k \in DOMAIN message.payloads /\ payload \in Component
      /\ item \in DOMAIN held /\ item = MasterOf(held)
      /\ changes[k].transition = Proposed(payload, held[item])
      /\ changes[k].kind = "detach" /\ Matches(held, payload, "same") = {} /\ ~IsMaster(payload)
  BY DEF ToWrite, Later, Message
<1>2. RecurrenceId(held[item]) = Nothing
  <2>1. Masters(held) # {}
    BY DEF Acceptable
  <2>2. QED
    BY <1>1, <2>1, MasterIsHeld DEF Masters, IsMaster
<1>3. \A l \in DOMAIN message.payloads : ~IsMaster(message.payloads[l])
  <2>1. Own(held, RecurrenceId(payload)) = {}
    BY <1>1 DEF Own, Matches
  <2>2. QED
    BY <1>1, <2>1 DEF StatesSeriesAlone
<1>4. updated[item] = held[item]
  <2>1. ASSUME NEW l \in DOMAIN changes, changes[l].kind = "existing", changes[l].item = item
        PROVE  FALSE
    <3>1. CompareInstances(RecurrenceId(message.payloads[l]), RecurrenceId(held[item])) = "same"
      BY <2>1 DEF ToWrite, Matches
    <3>2. RecurrenceId(message.payloads[l]) = Nothing
      BY <1>2, <3>1 DEF CompareInstances
    <3>3. QED
      BY <1>3, <2>1, <3>2 DEF IsMaster, ToWrite
  <2>2. WriteExisting(message, held, changes, item) = held[item]
    BY <2>1 DEF WriteExisting
  <2>3. QED
    BY <1>1, <2>2 DEF Updated
<1>5. ApplyTo(updated[item], changes[k].transition) = payload
  BY <1>1, <1>4, ProposedIsApplied
<1>6. payload.RECURRENCE_ID # << >>
  <2>1. AtMostOnce(payload)
    BY <1>1, ConformingOnce DEF Acceptable, Message
  <2>2. QED
    BY <1>1, <2>1, RecurrenceIdReads DEF IsMaster
<1>7. WriteNew(message, updated, changes[k], payload) = Finished(message, payload)
  BY <1>1, <1>5, <1>6 DEF WriteNew, CopyRecurrenceId
<1>8. QED
  BY <1>1, <1>7, FinishedIsComponent

(* So nothing of it is refused.                                             *)
LEMMA NewsIsTaken ==
  ASSUME NEW message \in Message, ToldApart(message.payloads), NEW held \in Seq(Component),
         Orderly(held), Acceptable(message, held), StatesSeriesAlone(message, held),
         DropsOneAttendeeAtMost(message, held)
  PROVE  Result(message, held) # Nothing
<1> DEFINE changes == Review(message, held)
           updated == Updated(message, held, changes)
           later == Later(changes)
           size == Cardinality(later)
           added == Added(message, updated, changes)
<1>1. changes # Nothing /\ ToWrite(message, held, changes)
  BY NewsIsReviewed, NewsIsToWrite
<1> HIDE DEF changes
<1>2. updated \in Seq(Component)
  <2>1. \A item \in DOMAIN held : WriteExisting(message, held, changes, item) \in Component
    BY <1>1, NewsWritesHeld
  <2>2. QED
    BY <2>1 DEF Updated
<1>3. size \in Nat /\ \A j \in 1..size : Nth(later, j) \in later
  <2>1. PICK n \in Nat : DOMAIN changes = 1..n
    BY <1>1 DEF ToWrite, Message
  <2>2. later \in SUBSET (1..n)
    BY <2>1 DEF Later
  <2> HIDE DEF later
  <2>3. QED
    BY <2>2, NthCounts
<1>4. added \in Seq(Component)
  <2>1. added = [j \in 1..size |-> WriteNew(message, updated, changes[Nth(later, j)],
                                            message.payloads[Nth(later, j)])]
    BY DEF Added, Later
  <2>2. \A k \in later : WriteNew(message, updated, changes[k], message.payloads[k]) \in Component
    BY <1>1, NewsMakesNew
  <2> HIDE DEF added, updated, later, size
  <2>3. \A j \in 1..size : added[j] \in Component
    BY <1>3, <2>1, <2>2
  <2>4. added = [j \in 1..size |-> added[j]]
    BY <2>1
  <2>5. QED
    BY <1>3, <2>3, <2>4
<1>5. Result(message, held) = WriteBack(message, updated, changes)
  BY <1>1 DEF Result, Apply, changes, Updated
<1> HIDE DEF updated, added, later, size
<1>6. \A components \in Seq(Component) : AllOrNothing(components) = components
  <2>1. Nothing \notin Component
    BY NoneAssumption DEF NoneAssumption
  <2>2. QED
    BY <2>1 DEF AllOrNothing
<1>7. updated # Nothing
  BY <1>2, RefusalAssumption DEF RefusalAssumption
<1>8. updated \o added \in Seq(Component)
  BY <1>2, <1>4
<1>9. WriteBack(message, updated, changes) = updated \o added
  BY <1>2, <1>6, <1>7, <1>8 DEF WriteBack, added
<1>10. QED
  BY <1>5, <1>8, <1>9, RefusalAssumption DEF RefusalAssumption

(* What the organizer says of a newer version is never refused, whatever    *)
(* was delivered before and in whatever order, if the series is held, no    *)
(* instance named could be one of two, and the mail does not restate the    *)
(* series together with a new instance or drop two attendees at once.       *)
THEOREM NewsIsAccepted ==
  ASSUME OrderlyStart, DistinctPayloads
  PROVE  Spec /\ []NewsIsWritable => []NewsIsNeverRefused
<1>1. SchedulingInvariant /\ NewsIsWritable => NewsIsNeverRefused
  <2>1. SUFFICES ASSUME SchedulingInvariant, NewsIsWritable, NEW message \in mail,
                        Acceptable(message, calendar)
                 PROVE  Result(message, calendar) # Nothing
    BY DEF NewsIsNeverRefused, Rejected, Acceptable
  <2>2. message \in Message /\ ToldApart(message.payloads)
    BY <2>1, MailAssumption DEF MailAssumption, SchedulingInvariant, DistinctPayloads
  <2>3. calendar \in Seq(Component) /\ Orderly(calendar)
    BY <2>1 DEF SchedulingInvariant, OneComponentPerInstance
  <2>4. StatesSeriesAlone(message, calendar) /\ DropsOneAttendeeAtMost(message, calendar)
    BY <2>1 DEF NewsIsWritable
  <2>5. QED
    BY <2>1, <2>2, <2>3, <2>4, NewsIsTaken
<1>2. Spec => []SchedulingInvariant
  BY SchedulingInvariantHolds
<1>3. QED
  BY <1>1, <1>2, PTL

-------------------------------------------------------------------------------
(* Answers are taken                                                        *)

(* The version lines of one component are those of another.                 *)
SameVersion(one, other) == one.SEQUENCE = other.SEQUENCE /\ one.DTSTAMP = other.DTSTAMP

(* A message that can make a version states this one.                       *)
StatesVersion(message, component) ==
  /\ message.method \notin {"REPLY", "REFRESH"}
  /\ \E k \in DOMAIN message.payloads : SameVersion(message.payloads[k], component)

(* What is written of a component has its version or that of the payload.   *)
LEMMA AppliedVersion ==
  ASSUME NEW message \in Message,
         NEW payload \in Component, NEW current \in Component, NEW base \in Component,
         AtMostOnce(current), AtMostOnce(base), SameVersion(current, base), NEW transition,
         Passed(message, payload, current, transition), ApplyTo(base, transition) # Nothing
  PROVE  \/ SameVersion(current, ApplyTo(base, transition))
         \/ /\ message.method \notin {"REPLY", "REFRESH"}
            /\ SameVersion(payload, ApplyTo(base, transition))
<1> DEFINE new == ApplyTo(base, transition)
<1>1. \A name \in Name : /\ new[name] = WriteLines(base[name], transition[name])
                         /\ Writable(base[name], transition[name])
  BY AppliedIsComponent
<1> HIDE DEF new
<1>2. /\ "SEQUENCE" \in Name \ {"ATTENDEE"} /\ "DTSTAMP" \in Name \ {"ATTENDEE"}
  BY DEF Name
<1>3. AtMostOnce(payload) /\ (message.method = "REPLY" => Len(payload.ATTENDEE) = 1)
  BY ConformingOnce DEF Passed, Message
<1>4. ASSUME \A name \in {"SEQUENCE", "DTSTAMP"} : transition[name] = {}
      PROVE  SameVersion(current, new)
  <2>1. new["SEQUENCE"] = base["SEQUENCE"] /\ new["DTSTAMP"] = base["DTSTAMP"]
    BY <1>1, <1>2, <1>4, NothingWritten
  <2>2. QED
    BY <2>1 DEF SameVersion
<1>5. CASE transition = NoChange
  <2>1. \A name \in {"SEQUENCE", "DTSTAMP"} : transition[name] = {}
    BY <1>2, <1>5 DEF NoChange
  <2>2. QED
    BY <1>4, <2>1 DEF new
<1>6. CASE message.method = "REPLY" /\ transition = DescribeReply(payload, current)
  <2>1. \A name \in {"SEQUENCE", "DTSTAMP"} : transition[name] = {}
    BY <1>2, <1>3, <1>6, ReplyChanges
  <2>2. QED
    BY <1>4, <2>1 DEF new
<1>7. CASE /\ message.method \notin {"REPLY", "REFRESH"}
           /\ transition = [name \in Name |-> Restated(payload[name], current[name])]
  <2>1. \A name \in {"SEQUENCE", "DTSTAMP"} :
          new[name] = IF payload[name] = current[name] THEN base[name] ELSE payload[name]
    BY <1>1, <1>2, <1>3, <1>7, RestatedName
  <2>2. new.SEQUENCE = payload.SEQUENCE /\ new.DTSTAMP = payload.DTSTAMP
    BY <2>1 DEF SameVersion
  <2>3. QED
    BY <1>7, <2>2 DEF SameVersion, new
<1>8. QED
  BY <1>5, <1>6, <1>7, <1>4, TransitionForms DEF new

(* What is held keeps its version or takes that of a payload.               *)
LEMMA HeldVersion ==
  ASSUME NEW message \in Message, NEW held \in Seq(Component), Orderly(held), NEW changes,
         ReviewedOnto(message, held, changes), NEW item \in DOMAIN held, NEW new,
         HeldWritten(message, held, changes, item, new)
  PROVE  /\ SameVersion(held[item], new) \/ StatesVersion(message, new)
         /\ ~(\E k \in DOMAIN changes : item \in Matches(held, message.payloads[k], "same"))
              => SameVersion(held[item], new)
<1>1. held[item] \in Component /\ AtMostOnce(held[item])
  BY DEF Orderly
<1>2. ASSUME NEW written \in Component, new = Finished(message, written)
      PROVE  SameVersion(written, new)
  <2>1. \A name \in Name \ {"STATUS"} : new[name] = written[name]
    BY <1>2, FinishedIsComponent
  <2>2. "SEQUENCE" \in Name \ {"STATUS"} /\ "DTSTAMP" \in Name \ {"STATUS"}
    BY DEF Name
  <2>3. new["SEQUENCE"] = written["SEQUENCE"] /\ new["DTSTAMP"] = written["DTSTAMP"]
    BY <2>1, <2>2
  <2>4. QED
    BY <2>3 DEF SameVersion
<1>3. ASSUME NEW k \in DOMAIN changes,
             ToHeld(message, held, message.payloads[k], changes[k]), changes[k].item = item,
             ApplyTo(held[item], changes[k].transition) # Nothing,
             new = Finished(message, ApplyTo(held[item], changes[k].transition))
      PROVE  /\ SameVersion(held[item], new) \/ StatesVersion(message, new)
             /\ item \in Matches(held, message.payloads[k], "same")
  <2> DEFINE payload == message.payloads[k]
             transition == changes[k].transition
             written == ApplyTo(held[item], transition)
  <2>1. k \in DOMAIN message.payloads /\ payload \in Component
    BY DEF ReviewedOnto, Message
  <2>2. Passed(message, payload, held[item], transition) /\ written # Nothing
        /\ item \in Matches(held, payload, "same")
    BY <1>3 DEF ToHeld
  <2>3. new = Finished(message, written)
    BY <1>3
  <2>4. SameVersion(held[item], held[item])
    BY DEF SameVersion
  <2> HIDE DEF payload, transition
  <2>5. \/ SameVersion(held[item], written)
        \/ message.method \notin {"REPLY", "REFRESH"} /\ SameVersion(payload, written)
    BY <1>1, <2>1, <2>2, <2>4, AppliedVersion
  <2>6. written \in Component
    BY <1>1, <2>1, <2>2, AppliedIsComponent
  <2> HIDE DEF written
  <2>7. SameVersion(written, new)
    BY <1>2, <2>3, <2>6
  <2>8. QED
    BY <2>1, <2>2, <2>5, <2>7 DEF SameVersion, StatesVersion, payload
<1>4. new = held[item] => SameVersion(held[item], new)
  BY DEF SameVersion
<1>5. QED
  BY <1>1, <1>2, <1>3, <1>4 DEF HeldWritten

(* A component that is made has the version of the series, or that of its   *)
(* payload, if the message does not restate the series.                     *)
LEMMA DetachedVersion ==
  ASSUME NEW message \in Message, NEW held \in Seq(Component), Orderly(held), NEW changes,
         ReviewedOnto(message, held, changes), NEW k \in Later(changes),
         NEW updated, SameInstance(held[changes[k].item], updated[changes[k].item]),
         SameVersion(held[changes[k].item], updated[changes[k].item]),
         NEW new, new = WriteNew(message, updated, changes[k], message.payloads[k]), new # Nothing
  PROVE  SameVersion(held[changes[k].item], new) \/ StatesVersion(message, new)
<1> DEFINE payload == message.payloads[k]
           transition == changes[k].transition
           current == held[changes[k].item]
           base == updated[changes[k].item]
           applied == ApplyTo(base, transition)
           copied == CopyRecurrenceId(applied, payload)
<1>1. k \in DOMAIN changes /\ k \in DOMAIN message.payloads /\ payload \in Component
  BY DEF Later, ReviewedOnto, Message
<1>2. ToOccurrence(message, held, payload, changes[k])
  BY DEF Later, ReviewedOnto, ToHeld
<1>3. changes[k].kind = "detach" /\ changes[k].item \in DOMAIN held /\ ~IsMaster(payload)
  BY <1>2 DEF Later, ToOccurrence, Masters
<1>4. new = Finished(message, copied) /\ applied # Nothing
  BY <1>3 DEF WriteNew, Finished, CopyRecurrenceId
<1>5. /\ Passed(message, payload, current, transition)
      /\ current \in Component /\ AtMostOnce(current) /\ RecurrenceId(current) = Nothing
      /\ base \in Component /\ AtMostOnce(base) /\ SameVersion(current, base)
  BY <1>2, <1>3 DEF ToOccurrence, Orderly, SameInstance, Masters, IsMaster
<1> HIDE DEF payload, transition, current, base, copied
<1>6. \/ SameVersion(current, applied)
      \/ message.method \notin {"REPLY", "REFRESH"} /\ SameVersion(payload, applied)
  BY <1>1, <1>4, <1>5, AppliedVersion
<1>7. applied \in Component
  BY <1>1, <1>4, <1>5, AppliedIsComponent
<1> HIDE DEF applied
<1>8. copied \in Component /\ \A name \in Name \ {"RECURRENCE_ID"} : copied[name] = applied[name]
  <2>1. applied # Nothing
    BY <1>7, NoneAssumption DEF NoneAssumption
  <2>2. CASE applied.RECURRENCE_ID # << >>
    BY <1>7, <2>1, <2>2 DEF CopyRecurrenceId, copied
  <2>3. CASE applied.RECURRENCE_ID = << >>
    <3>1. AtMostOnce(payload)
      BY <1>1, <1>5, ConformingOnce DEF Passed, Message
    <3>2. payload.RECURRENCE_ID = <<RecurrenceId(payload)>> /\ RecurrenceId(payload) \in InstanceRef
      BY <1>1, <1>3, <3>1, RecurrenceIdReads DEF IsMaster, Reference, payload
    <3>3. copied = [applied EXCEPT !["RECURRENCE_ID"] = <<RecurrenceId(payload)>>]
      BY <2>1, <2>3, <3>2 DEF CopyRecurrenceId, copied
    <3>4. /\ applied = [name \in Name |-> applied[name]]
          /\ "RECURRENCE_ID" \in Name /\ LineOf["RECURRENCE_ID"] = InstanceRef
          /\ \A name \in Name : applied[name] \in Seq(LineOf[name])
      BY <1>7, ComponentIsLines DEF Name, LineOf
    <3>5. <<RecurrenceId(payload)>> \in Seq(InstanceRef)
      BY <3>2
    <3>6. /\ copied = [name \in Name |-> copied[name]]
          /\ copied["RECURRENCE_ID"] = <<RecurrenceId(payload)>>
          /\ \A name \in Name \ {"RECURRENCE_ID"} : copied[name] = applied[name]
      BY <3>3, <3>4
    <3>7. \A name \in Name : copied[name] \in Seq(LineOf[name])
      BY <3>4, <3>5, <3>6
    <3>8. copied \in Component
      BY <3>6, <3>7, ComponentIsLines
    <3>9. QED
      BY <3>6, <3>8
  <2>4. QED
    BY <2>2, <2>3
<1>9. \A name \in Name \ {"STATUS"} : new[name] = copied[name]
  BY <1>4, <1>8, FinishedIsComponent
<1>10. SameVersion(applied, new)
  <2>1. /\ "SEQUENCE" \in Name \ {"STATUS"} /\ "DTSTAMP" \in Name \ {"STATUS"}
        /\ "SEQUENCE" \in Name \ {"RECURRENCE_ID"} /\ "DTSTAMP" \in Name \ {"RECURRENCE_ID"}
    BY DEF Name
  <2>2. new["SEQUENCE"] = applied["SEQUENCE"] /\ new["DTSTAMP"] = applied["DTSTAMP"]
    BY <1>8, <1>9, <2>1
  <2>3. QED
    BY <2>2 DEF SameVersion
<1>11. QED
  BY <1>1, <1>6, <1>10 DEF SameVersion, StatesVersion, payload, current

(* The series as the first phase leaves it has not changed its version, if  *)
(* the message that splits an instance off it does not restate it.          *)
LEMMA SeriesKeepsVersion ==
  ASSUME NEW message \in Message, NEW held \in Seq(Component), Orderly(held), NEW changes,
         ReviewedOnto(message, held, changes), StatesSeriesAlone(message, held),
         NEW k \in Later(changes), NEW new,
         HeldWritten(message, held, changes, changes[k].item, new)
  PROVE  /\ changes[k].item \in DOMAIN held
         /\ SameVersion(held[changes[k].item], new)
<1> DEFINE payload == message.payloads[k]
           item == changes[k].item
<1>1. ToOccurrence(message, held, payload, changes[k]) /\ k \in DOMAIN message.payloads
  BY DEF Later, ReviewedOnto, ToHeld
<1>2. /\ item \in DOMAIN held /\ RecurrenceId(held[item]) = Nothing
      /\ Matches(held, payload, "same") = {}
  BY <1>1 DEF ToOccurrence, Masters, IsMaster
<1>3. Own(held, RecurrenceId(payload)) = {}
  BY <1>2 DEF Own, Matches
<1>4. \A l \in DOMAIN message.payloads : RecurrenceId(message.payloads[l]) # Nothing
  BY <1>1, <1>3 DEF StatesSeriesAlone, IsMaster
<1>5. ASSUME NEW l \in DOMAIN changes, item \in Matches(held, message.payloads[l], "same") PROVE FALSE
  <2>1. CompareInstances(RecurrenceId(message.payloads[l]), RecurrenceId(held[item])) = "same"
    BY <1>5 DEF Matches
  <2>2. RecurrenceId(message.payloads[l]) = Nothing
    BY <1>2, <2>1 DEF CompareInstances
  <2>3. QED
    BY <1>4, <2>2 DEF ReviewedOnto
<1>6. QED
  BY <1>2, <1>5, HeldVersion

(* Every version after a delivery was there before, or is what the message  *)
(* states.                                                                  *)
DeliversVersions(message, held, new) ==
  \A item \in DOMAIN new : \/ \E old \in DOMAIN held : SameVersion(held[old], new[item])
                           \/ StatesVersion(message, new[item])

LEMMA CreatedVersions ==
  ASSUME NEW message \in Message, Result(message, << >>) # Nothing
  PROVE  DeliversVersions(message, << >>, Result(message, << >>))
<1> DEFINE changes == Review(message, << >>)
<1>1. changes # Nothing /\ Result(message, << >>) = Apply(message, << >>, changes)
  BY DEF Result, Apply
<1>2. /\ DOMAIN changes = DOMAIN message.payloads
      /\ \A k \in DOMAIN changes : /\ changes[k].kind = "create"
                                   /\ message.method \in {"PUBLISH", "REQUEST"}
  BY <1>1, ReviewCreates
<1> HIDE DEF changes
<1>3. PICK held : held = << >>
  OBVIOUS
<1>4. held \in Seq(Component) /\ Len(held) = 0 /\ DOMAIN held = {}
  BY <1>3
<1>5. PICK result : result = Result(message, held)
  OBVIOUS
<1>6. TwoPhases(message, held, changes, result)
  BY <1>1, <1>2, <1>3, <1>4, <1>5, AppliedInPhases
<1>7. ASSUME NEW item \in DOMAIN result PROVE StatesVersion(message, result[item])
  <2> DEFINE later == Later(changes)
             updated == Updated(message, held, changes)
  <2>1. /\ Cardinality(later) \in Nat
        /\ ListsUpTo(result, Len(held) + Cardinality(later))
        /\ \A j \in 1..Cardinality(later) :
             /\ Nth(later, j) \in later
             /\ result[Len(held) + j]
                  = WriteNew(message, updated, changes[Nth(later, j)], message.payloads[Nth(later, j)])
    BY <1>6 DEF TwoPhases
  <2>2. \A k \in later : k \in DOMAIN changes
    BY DEF Later
  <2> HIDE DEF later, updated
  <2>3. item \in 1..Cardinality(later) /\ Len(held) + item = item
    BY <1>4, <1>7, <2>1 DEF ListsUpTo
  <2>4. PICK k \in DOMAIN changes :
          result[item] = WriteNew(message, updated, changes[k], message.payloads[k])
    BY <2>1, <2>2, <2>3
  <2>5. result[item] = message.payloads[k]
    BY <1>2, <2>4 DEF WriteNew
  <2>6. QED
    BY <1>2, <2>5 DEF StatesVersion, SameVersion
<1>8. DeliversVersions(message, held, result)
  BY <1>7 DEF DeliversVersions
<1>9. QED
  BY <1>3, <1>5, <1>8

LEMMA HeldVersions ==
  ASSUME NEW message \in Message, NEW held \in Seq(Component), held # << >>, Orderly(held),
         Masters(held) # {} => StatesSeriesAlone(message, held), Result(message, held) # Nothing
  PROVE  DeliversVersions(message, held, Result(message, held))
<1> DEFINE changes == Review(message, held)
           later == Later(changes)
           updated == Updated(message, held, changes)
<1>1. changes # Nothing /\ Result(message, held) = Apply(message, held, changes)
  BY DEF Result, Apply
<1>2. ReviewedOnto(message, held, changes)
  BY <1>1, ReviewFindsComponents
<1> HIDE DEF changes
<1>3. PICK new : new = Result(message, held)
  OBVIOUS
<1>4. TwoPhases(message, held, changes, new)
  BY <1>1, <1>2, <1>3, AppliedInPhases DEF ReviewedOnto
<1>5. DOMAIN held = 1..Len(held) /\ Len(held) \in Nat
  OBVIOUS
<1>6. ASSUME NEW i \in DOMAIN held
      PROVE  HeldWritten(message, held, changes, i, new[i]) /\ updated[i] = new[i]
  <2>1. new[i] = WriteExisting(message, held, changes, i) /\ new[i] # Nothing
    BY <1>4, <1>5 DEF TwoPhases
  <2>2. HeldWritten(message, held, changes, i, new[i])
    BY <1>2, <2>1, ExistingIsWritten
  <2>3. QED
    BY <2>1, <2>2 DEF Updated
<1> HIDE DEF later, updated
<1>7. /\ Cardinality(later) \in Nat
      /\ ListsUpTo(new, Len(held) + Cardinality(later))
      /\ \A j \in 1..Cardinality(later) :
           /\ Nth(later, j) \in later
           /\ new[Len(held) + j] = WriteNew(message, updated, changes[Nth(later, j)],
                                            message.payloads[Nth(later, j)])
           /\ new[Len(held) + j] # Nothing
  BY <1>4 DEF TwoPhases, later, updated
<1>8. ASSUME NEW item \in DOMAIN new, item \in DOMAIN held
      PROVE  SameVersion(held[item], new[item]) \/ StatesVersion(message, new[item])
  BY <1>2, <1>6, <1>8, HeldVersion
<1>9. ASSUME NEW item \in DOMAIN new, item \notin DOMAIN held
      PROVE  \/ \E old \in DOMAIN held : SameVersion(held[old], new[item])
             \/ StatesVersion(message, new[item])
  <2>1. item \in 1..(Len(held) + Cardinality(later))
    BY <1>7 DEF ListsUpTo
  <2>2. item - Len(held) \in 1..Cardinality(later) /\ item = Len(held) + (item - Len(held))
    BY <1>5, <1>7, <1>9, <2>1
  <2>3. PICK j \in 1..Cardinality(later) : item = Len(held) + j
    BY <2>2
  <2>4. PICK k \in later : k = Nth(later, j)
    BY <1>7
  <2>5. new[item] = WriteNew(message, updated, changes[k], message.payloads[k]) /\ new[item] # Nothing
    BY <1>7, <2>3, <2>4
  <2>6. k \in Later(changes)
    BY DEF later
  <2>7. changes[k].item \in DOMAIN held /\ Masters(held) # {}
    BY <1>2, <2>6 DEF Later, ReviewedOnto, ToHeld, ToOccurrence, Masters
  <2>8. /\ HeldWritten(message, held, changes, changes[k].item, updated[changes[k].item])
        /\ AtMostOnce(held[changes[k].item])
    BY <1>6, <2>7 DEF Orderly
  <2>9. SameInstance(held[changes[k].item], updated[changes[k].item])
    BY <1>2, <2>7, <2>8, HeldStaysItsInstance
  <2>10. SameVersion(held[changes[k].item], updated[changes[k].item])
    BY <1>2, <2>6, <2>7, <2>8, SeriesKeepsVersion
  <2>11. SameVersion(held[changes[k].item], new[item]) \/ StatesVersion(message, new[item])
    BY <1>2, <2>5, <2>6, <2>9, <2>10, DetachedVersion
  <2>12. QED
    BY <2>7, <2>11
<1>10. DeliversVersions(message, held, new)
  BY <1>8, <1>9 DEF DeliversVersions
<1>11. QED
  BY <1>3, <1>10

(* The version of a component is one that the host began with, or that a    *)
(* message of the mail states.                                              *)
VersionIsStated(component) ==
  \/ \E held \in Calendars : \E item \in DOMAIN held : SameVersion(held[item], component)
  \/ \E message \in mail : StatesVersion(message, component)

VersionsAreStated == \A item \in DOMAIN calendar : VersionIsStated(calendar[item])

(* While a series is held, a message that speaks of it splits nothing off   *)
(* it: the version of what it splits off could be mixed of two (the clone   *)
(* is taken after the series was written).                                  *)
SeriesComesAlone ==
  \A message \in mail : Masters(calendar) # {} => StatesSeriesAlone(message, calendar)

LEMMA VersionsAreStatedHolds ==
  ASSUME OrderlyStart, DistinctPayloads
  PROVE  Spec /\ []SeriesComesAlone => []VersionsAreStated
<1>1. Init => VersionsAreStated
  BY DEF Init, VersionsAreStated, VersionIsStated, SameVersion
<1>2. SchedulingInvariant /\ SeriesComesAlone /\ VersionsAreStated /\ [Next]_vars => VersionsAreStated'
  <2>1. SUFFICES ASSUME SchedulingInvariant, SeriesComesAlone, VersionsAreStated, [Next]_vars
                 PROVE  VersionsAreStated'
    OBVIOUS
  <2>2. CASE UNCHANGED vars
    BY <2>1, <2>2 DEF vars, VersionsAreStated, VersionIsStated
  <2>3. CASE Next
    <3>1. PICK message \in mail : Deliver(message)
      BY <2>3 DEF Next
    <3>2. message \in Message /\ calendar \in Seq(Component) /\ Orderly(calendar) /\ mail' = mail
      BY <2>1, <2>3, <3>1, MailAssumption
         DEF MailAssumption, SchedulingInvariant, OneComponentPerInstance, Next
    <3>3. calendar' = Kept(Result(message, calendar), calendar)
      BY <3>1 DEF Deliver
    <3>4. CASE Result(message, calendar) = Nothing
      <4>1. calendar' = calendar
        BY <3>3, <3>4 DEF Kept
      <4>2. QED
        BY <2>1, <3>2, <4>1 DEF VersionsAreStated, VersionIsStated
    <3>5. CASE Result(message, calendar) # Nothing
      <4>1. calendar' = Result(message, calendar)
        BY <3>3, <3>5 DEF Kept
      <4>2. DeliversVersions(message, calendar, calendar')
        <5>1. CASE calendar = << >>
          BY <3>2, <3>5, <4>1, <5>1, CreatedVersions
        <5>2. CASE calendar # << >>
          BY <2>1, <3>1, <3>2, <3>5, <4>1, <5>2, HeldVersions DEF SeriesComesAlone
        <5>3. QED
          BY <5>1, <5>2
      <4>3. ASSUME NEW item \in DOMAIN calendar'
            PROVE  \/ \E held \in Calendars : \E i \in DOMAIN held : SameVersion(held[i], calendar'[item])
                   \/ \E other \in mail : StatesVersion(other, calendar'[item])
        <5>1. CASE StatesVersion(message, calendar'[item])
          BY <3>1, <5>1
        <5>2. ASSUME NEW old \in DOMAIN calendar, SameVersion(calendar[old], calendar'[item])
              PROVE  \/ \E held \in Calendars : \E i \in DOMAIN held : SameVersion(held[i], calendar'[item])
                     \/ \E other \in mail : StatesVersion(other, calendar'[item])
          <6>1. VersionIsStated(calendar[old])
            BY <2>1 DEF VersionsAreStated
          <6>2. QED
            BY <5>2, <6>1 DEF VersionIsStated, SameVersion, StatesVersion
        <5>3. QED
          BY <4>2, <5>1, <5>2 DEF DeliversVersions
      <4>4. QED
        BY <3>2, <4>3 DEF VersionsAreStated, VersionIsStated
    <3>6. QED
      BY <3>4, <3>5
  <2>4. QED
    BY <2>1, <2>2, <2>3
<1>3. Spec => []SchedulingInvariant
  BY SchedulingInvariantHolds
<1>4. QED
  BY <1>1, <1>2, <1>3, PTL DEF Spec

(* An attendee's answer to the version of a component, later than that      *)
(* version and than the answer it takes the place of, as its sender may     *)
(* construct it.                                                            *)
IsNewAnswer(message, payload, current) ==
  LET at == OccurrenceOf(current, message.from)
  IN  /\ message.method = "REPLY" /\ message.from # Organizer
      /\ Inspect(message.method, payload) /\ CheckConformance(message.method, payload)
      /\ payload.ATTENDEE[1].who = message.from
      /\ at # 0
      /\ current.ATTENDEE[at].at # Nothing => payload.DTSTAMP[1] > current.ATTENDEE[at].at
      /\ Sequence(payload) = Sequence(current)
      /\ Single(current, "DTSTAMP") # Nothing => Single(current, "DTSTAMP") <= payload.DTSTAMP[1]

(* What it proposes: one change, of the attendee's own line.                *)
AnswerEdit(payload, current, at) ==
  [current.ATTENDEE[at] EXCEPT !.answer = payload.ATTENDEE[1].answer, !.to = payload.ATTENDEE[1].to,
                               !.at = Single(payload, "DTSTAMP")]

LEMMA AnswerIsDescribed ==
  ASSUME NEW message \in Message, NEW payload \in Component, NEW current \in Component,
         IsNewAnswer(message, payload, current)
  PROVE  LET at == OccurrenceOf(current, message.from)
             changes == DescribeReply(payload, current)
         IN  /\ at \in DOMAIN current.ATTENDEE /\ at \in Nat
             /\ AnswerEdit(payload, current, at) \in AttendeeLine
             /\ AnswerEdit(payload, current, at).at = Single(payload, "DTSTAMP")
             /\ payload.ATTENDEE # << >>
             /\ changes = [NoChange EXCEPT !.ATTENDEE =
                             {Change(at, "parameters", AnswerEdit(payload, current, at))}]
             /\ changes["ATTENDEE"] = {Change(at, "parameters", AnswerEdit(payload, current, at))}
             /\ \A name \in Name \ {"ATTENDEE"} : changes[name] = {}
             /\ changes \in Transition
             /\ ~IsEmpty(changes)
<1> DEFINE at == OccurrenceOf(current, message.from)
           edit == AnswerEdit(payload, current, at)
           answer == payload.ATTENDEE[1]
           changes == DescribeReply(payload, current)
<1>1. /\ message.method = "REPLY" /\ CheckConformance(message.method, payload)
      /\ answer.who = message.from /\ at # 0 /\ message.method \in Method
  BY DEF IsNewAnswer, Message
<1>2. Len(payload.ATTENDEE) = 1 /\ Single(payload, "DTSTAMP") \in Nat
  BY <1>1, ConformingOnce, StampedOnce
<1>3. payload["ATTENDEE"] \in Seq(AttendeeLine) /\ current["ATTENDEE"] \in Seq(AttendeeLine)
  BY DEF Component
<1>4. payload.ATTENDEE # << >> /\ answer \in AttendeeLine
  <2>1. payload["ATTENDEE"] # << >> /\ DOMAIN payload["ATTENDEE"] = {1}
    BY <1>2, <1>3, OneLine
  <2>2. QED
    BY <1>3, <2>1
<1>5. at \in DOMAIN current.ATTENDEE
  BY <1>1, FirstLineOf
<1>6. at \in Nat /\ current.ATTENDEE[at] \in AttendeeLine
  BY <1>3, <1>5
<1>7. edit \in AttendeeLine /\ edit.at = Single(payload, "DTSTAMP")
  <2>1. answer.answer \in STRING /\ answer.to \in Party \cup {Nothing}
    BY <1>4 DEF AttendeeLine
  <2>2. Single(payload, "DTSTAMP") \in Stamp
    BY <1>2 DEF Stamp
  <2> HIDE DEF at
  <2>3. QED
    BY <1>6, <2>1, <2>2 DEF AnswerEdit, AttendeeLine
<1>8. changes = [NoChange EXCEPT !.ATTENDEE = {Change(at, "parameters", edit)}]
  BY <1>1, <1>4 DEF DescribeReply, AnswerEdit
<1> HIDE DEF at, edit, changes
<1>9. DOMAIN NoChange = Name /\ "ATTENDEE" \in Name /\ \A n \in Name : NoChange[n] = {}
  BY DEF NoChange, Name
<1>10. /\ changes["ATTENDEE"] = {Change(at, "parameters", edit)}
       /\ \A name \in Name \ {"ATTENDEE"} : changes[name] = {}
       /\ DOMAIN changes = Name
  BY <1>8, <1>9
<1>11. changes \in Transition
  <2>1. Change(at, "parameters", edit)
          \in [index : Nat, kind : {"replace", "add", "remove", "parameters"}, line : Line]
    BY <1>6, <1>7 DEF Change, Line
  <2>2. \A name \in Name : changes[name] \in SUBSET [index : Nat,
                             kind : {"replace", "add", "remove", "parameters"}, line : Line]
    BY <1>10, <2>1
  <2>3. changes = [name \in Name |-> changes[name]]
    BY <1>8, <1>9
  <2>4. QED
    BY <2>2, <2>3 DEF Transition
<1>12. ~IsEmpty(changes)
  BY <1>9, <1>10 DEF IsEmpty
<1>13. QED
  BY <1>4, <1>5, <1>6, <1>7, <1>8, <1>10, <1>11, <1>12 DEF at, edit, changes

(* It passes the gate.                                                      *)
LEMMA AnswerIsEvaluated ==
  ASSUME NEW message \in Message, NEW payload \in Component, NEW current \in Component,
         IsNewAnswer(message, payload, current)
  PROVE  Evaluate(message, payload, current, "present") = DescribeReply(payload, current)
<1> DEFINE at == OccurrenceOf(current, message.from)
           described == DescribeReply(payload, current)
           method == message.method
<1>1. /\ method = "REPLY" /\ message.from # Organizer /\ method \in Method
      /\ CheckConformance(method, payload) /\ Inspect(method, payload)
      /\ payload.ATTENDEE[1].who = message.from /\ at # 0
  BY DEF IsNewAnswer, Message
<1>2. /\ at \in DOMAIN current.ATTENDEE /\ payload.ATTENDEE # << >>
      /\ described["ATTENDEE"] = {Change(at, "parameters", AnswerEdit(payload, current, at))}
      /\ \A name \in Name \ {"ATTENDEE"} : described[name] = {}
  BY AnswerIsDescribed
<1>3. payload.DTSTAMP = <<Single(payload, "DTSTAMP")>> /\ Single(payload, "DTSTAMP") \in Nat
  BY <1>1, StampedOnce
<1>4. payload.DTSTAMP[1] = Single(payload, "DTSTAMP")
  BY <1>3
<1>5. SenderPermitted(method, current, message.from)
  <2>1. current.ATTENDEE[at].who = message.from
    BY <1>1, FirstLineOf
  <2>2. QED
    BY <1>1, <1>2, <2>1 DEF SenderPermitted, OrganizerAuthored, ActorRole
<1>6. CheckRange(method, payload) /\ CheckCancellation(method, payload)
  BY <1>1 DEF Inspect
<1>7. CheckRevision(payload, current)
  <2>1. Sequence(payload) # Nothing
    <3>1. CASE payload.SEQUENCE = << >>
      BY <3>1, NothingAssumption DEF Sequence, NothingAssumption
    <3>2. CASE payload.SEQUENCE # << >>
      BY <1>1, <3>2 DEF Inspect
    <3>3. QED
      BY <3>1, <3>2
  <2>2. RevisionOf(payload) # Nothing
    BY <2>1, RevisionReads
  <2>3. ASSUME RevisionOf(current) # Nothing PROVE ~IsStaleAgainst(RevisionOf(payload), RevisionOf(current))
    <3>1. /\ Sequence(payload) = Sequence(current)
          /\ Single(current, "DTSTAMP") # Nothing =>
               Single(current, "DTSTAMP") <= Single(payload, "DTSTAMP")
      BY <1>4 DEF IsNewAnswer
    <3>2. Sequence(current) \in Nat /\ Single(current, "DTSTAMP") \in Stamp
      BY <2>3, RevisionReads
    <3>3. ~Above(current, payload)
      BY <1>3, <3>1, <3>2, NothingAssumption DEF Above, Stamp, NothingAssumption
    <3>4. QED
      BY <2>2, <2>3, <3>3, SupersedesReads DEF IsStaleAgainst
  <2>4. QED
    BY <2>2, <2>3 DEF CheckRevision
<1>8. CheckAnswer(payload, current)
  <2>1. current.ATTENDEE[at].at # Nothing => Single(payload, "DTSTAMP") > current.ATTENDEE[at].at
    BY <1>1, <1>4 DEF IsNewAnswer
  <2>2. Single(payload, "DTSTAMP") # Nothing
    BY <1>3, NothingAssumption DEF NothingAssumption
  <2>3. QED
    BY <1>1, <2>1, <2>2 DEF CheckAnswer
<1> DEFINE edit == AnswerEdit(payload, current, at)
<1>9. CheckFields(described, current, message.from)
  <2>1. ASSUME NEW name \in Name \ EitherParty, NEW change \in described[name]
        PROVE  name = "ATTENDEE" /\ change.index = at /\ change.kind = "parameters"
    <3>1. name = "ATTENDEE"
      BY <1>2, <2>1
    <3>2. change = Change(at, "parameters", edit)
      BY <1>2, <2>1, <3>1
    <3> HIDE DEF at, edit, described
    <3>3. QED
      BY <3>1, <3>2 DEF Change
  <2>2. QED
    BY <2>1 DEF CheckFields, KeepsTheActor
<1>10. DescribePayload(method, payload, current) = described
  BY <1>1 DEF DescribePayload
<1>11. Settle(method, "present", payload, current, described) = described
  BY <1>1 DEF Settle, OrganizerAuthored
<1> HIDE DEF at, described, edit
<1>12. QED
  BY <1>1, <1>5, <1>6, <1>7, <1>8, <1>9, <1>10, <1>11 DEF Evaluate, described

(* Written onto its component it puts the time of the answer there.         *)
LEMMA AnswerIsApplied ==
  ASSUME NEW message \in Message, NEW payload \in Component, NEW current \in Component,
         IsNewAnswer(message, payload, current)
  PROVE  LET new == ApplyTo(current, DescribeReply(payload, current))
             at == OccurrenceOf(current, message.from)
         IN  /\ new # Nothing /\ new \in Component
             /\ OccurrenceOf(new, message.from) = at /\ at # 0
             /\ new.ATTENDEE[at].at = Single(payload, "DTSTAMP")
<1> DEFINE at == OccurrenceOf(current, message.from)
           transition == DescribeReply(payload, current)
           edit == AnswerEdit(payload, current, at)
           changes == transition["ATTENDEE"]
           old == current["ATTENDEE"]
           new == ApplyTo(current, transition)
<1>1. /\ at \in DOMAIN old /\ at \in Nat /\ edit \in AttendeeLine
      /\ edit.at = Single(payload, "DTSTAMP")
      /\ changes = {Change(at, "parameters", edit)}
      /\ \A name \in Name \ {"ATTENDEE"} : transition[name] = {}
      /\ transition \in Transition
  BY AnswerIsDescribed
<1>2. /\ Evaluate(message, payload, current, "present") = transition /\ message.from # Organizer
      /\ at # 0
  BY AnswerIsEvaluated DEF IsNewAnswer
<1>3. transition # Nothing
  BY <1>1, RefusalAssumption DEF RefusalAssumption
<1>4. Passed(message, payload, current, transition)
  BY <1>2, <1>3, EvaluatedPresent
<1>5. \A name \in Name : Writable(current[name], transition[name])
  <2>1. ASSUME NEW name \in Name \ {"ATTENDEE"} PROVE Writable(current[name], transition[name])
    <3>1. Writable(current[name], {})
      BY DEF Writable, Of
    <3>2. QED
      BY <1>1, <3>1
  <2>2. Writable(old, changes)
    <3>1. \A change \in changes : change.kind = "parameters" /\ change.index \in DOMAIN old
      <4> HIDE DEF at, edit, changes, old
      <4>1. QED
        BY <1>1 DEF Change
    <3>2. Of(changes, "add") = {} /\ Of(changes, "remove") = {}
      <4> HIDE DEF changes
      <4>1. QED
        BY <3>1 DEF Of
    <3> HIDE DEF changes, old
    <3>3. QED
      BY <3>1, <3>2 DEF Writable
  <2>3. QED
    BY <2>1, <2>2
<1>6. new = [name \in Name |-> WriteLines(current[name], transition[name])]
  BY <1>5 DEF ApplyTo
<1>7. "ATTENDEE" \in Name /\ old \in Seq(AttendeeLine)
  BY DEF Name, Component
<1>8. new["ATTENDEE"] = WriteLines(old, changes)
  BY <1>6, <1>7
<1>9. new # Nothing
  <2>1. ASSUME new = Nothing PROVE FALSE
    <3>1. ASSUME NEW name \in Name PROVE WriteLines(current[name], transition[name]) \in Seq(LineOf[name])
      <4>1. current[name] \in Seq(LineOf[name])
        BY ComponentIsLines
      <4>2. CASE name # "ATTENDEE"
        <5>1. transition[name] = {}
          BY <1>1, <4>2
        <5>2. QED
          BY <4>1, <5>1, NothingWritten
      <4>3. CASE name = "ATTENDEE"
        <5>1. \A change \in changes : change.index = at /\ change.kind = "parameters" /\ change.line = edit
          <6> HIDE DEF at, edit, changes
          <6>1. QED
            BY <1>1 DEF Change
        <5>2. \A change \in changes : \A line \in AttendeeLine : Edited(line, change) \in AttendeeLine
          <6>1. edit.answer \in STRING /\ edit.to \in Party \cup {Nothing} /\ edit.at \in Stamp
            BY <1>1 DEF AttendeeLine
          <6> HIDE DEF edit, changes, at
          <6>2. QED
            BY <5>1, <6>1 DEF Edited, SetParameters, AttendeeLine
        <5>3. Writable(old, changes)
          BY <1>5, <1>7
        <5> HIDE DEF changes, old, at, edit
        <5>4. WriteLines(old, changes) \in Seq(AttendeeLine)
          BY <1>7, <5>1, <5>2, <5>3, EditTyped
        <5>5. QED
          BY <4>3, <5>4 DEF LineOf, old, changes, Name
      <4>4. QED
        BY <4>2, <4>3
    <3>2. new \in Component
      BY <1>6, <3>1, ComponentIsLines
    <3>3. QED
      BY <2>1, <3>2, NoneAssumption DEF NoneAssumption
  <2>2. QED
    BY <2>1
<1>10. new \in Component
  BY <1>4, <1>9, AppliedIsComponent
<1>11. KeepsParties(new.ATTENDEE, current.ATTENDEE, at)
  <2>1. OwnLine(at, current, new)
    BY <1>2, <1>4, <1>9, AttendeeWrites
  <2>2. QED
    BY <2>1 DEF OwnLine
<1>12. OccurrenceOf(new, message.from) = at
  <2> HIDE DEF new
  <2>1. {i \in DOMAIN new.ATTENDEE : new.ATTENDEE[i].who = message.from}
          = {i \in DOMAIN current.ATTENDEE : current.ATTENDEE[i].who = message.from}
    BY <1>11 DEF KeepsParties
  <2> DEFINE firstOf(lines) == IF lines = {} THEN 0
                               ELSE CHOOSE i \in lines : \A j \in lines : i <= j
  <2>2. \A c : OccurrenceOf(c, message.from)
                 = firstOf({i \in DOMAIN c.ATTENDEE : c.ATTENDEE[i].who = message.from})
    BY DEF OccurrenceOf
  <2> HIDE DEF firstOf
  <2>3. OccurrenceOf(new, message.from) = OccurrenceOf(current, message.from)
    BY <2>1, <2>2
  <2>4. QED
    BY <2>3
<1>13. new.ATTENDEE[at].at = Single(payload, "DTSTAMP")
  <2>1. \A change \in changes : change.index = at /\ change.kind = "parameters" /\ change.line = edit
    <3> HIDE DEF at, edit, changes
    <3>1. QED
      BY <1>1 DEF Change
  <2>2. Writable(old, changes) /\ changes # {}
    BY <1>1, <1>5, <1>7
  <2> HIDE DEF changes, old, at, edit, new
  <2>3. EditedOnly(WriteLines(old, changes), old, at, changes)
    BY <1>7, <2>1, <2>2, EditInPlace
  <2>4. PICK change \in changes : new["ATTENDEE"][at] = Edited(old[at], change)
    BY <1>8, <2>2, <2>3 DEF EditedOnly
  <2>5. old[at] \in AttendeeLine
    BY <1>1, <1>7
  <2>6. change.kind = "parameters" /\ change.line.at = Single(payload, "DTSTAMP")
    BY <1>1, <2>1
  <2>7. Edited(old[at], change).at = Single(payload, "DTSTAMP")
    BY <2>5, <2>6 DEF Edited, SetParameters, AttendeeLine
  <2>8. QED
    BY <2>4, <2>7
<1>14. QED
  BY <1>2, <1>9, <1>10, <1>12, <1>13

(* What the property asks of an answer, and that it says of one instance    *)
(* only, which is not one of two.                                           *)
AnswerTo(message, held) ==
  LET payload == message.payloads[1]
      instance == RecurrenceId(payload)
      component == Effective(held, instance)
  IN  /\ Len(message.payloads) = 1
      /\ Resolved(instance)
      /\ component # Nothing
      /\ IsNewAnswer(message, payload, component)
      /\ Matches(held, payload, "ambiguous") = {}
      /\ Own(held, instance) # {} \/ RecurrenceSetContains(component, payload)

(* The component it is written onto, and how.                               *)
AnswersOnto(held, payload, kind, item) ==
  /\ item \in DOMAIN held
  /\ Effective(held, RecurrenceId(payload)) = held[item]
  /\ \/ kind = "existing" /\ item \in Matches(held, payload, "same")
     \/ /\ kind = "detach" /\ Matches(held, payload, "same") = {}
        /\ item = MasterOf(held) /\ item \in Masters(held) /\ ~IsMaster(payload)

AnswerChange(kind, item, payload, held) ==
  ReviewedChange(kind, item, DescribeReply(payload, held[item]))

LEMMA AnswerPassesReview ==
  ASSUME NEW message \in Message, NEW held \in Seq(Component), Orderly(held), AnswerTo(message, held),
         NEW payload \in Component, payload = message.payloads[1]
  PROVE  \E kind \in {"existing", "detach"}, item \in DOMAIN held :
           /\ AnswersOnto(held, payload, kind, item)
           /\ ReviewPayload(message, held, payload) = AnswerChange(kind, item, payload, held)
<1> DEFINE instance == RecurrenceId(payload)
<1>1. /\ Effective(held, instance) # Nothing
      /\ IsNewAnswer(message, payload, Effective(held, instance))
      /\ Own(held, instance) # {} \/ RecurrenceSetContains(Effective(held, instance), payload)
  BY DEF AnswerTo
<1>2. Own(held, instance) = Matches(held, payload, "same")
  BY DEF Own, Matches
<1>3. ASSUME NEW item \in DOMAIN held, Effective(held, instance) = held[item]
      PROVE  /\ Evaluate(message, payload, held[item], "present") = DescribeReply(payload, held[item])
             /\ DescribeReply(payload, held[item]) # Nothing /\ ~IsEmpty(DescribeReply(payload, held[item]))
  <2>1. held[item] \in Component /\ IsNewAnswer(message, payload, held[item])
    BY <1>1, <1>3
  <2>2. /\ Evaluate(message, payload, held[item], "present") = DescribeReply(payload, held[item])
        /\ DescribeReply(payload, held[item]) \in Transition
        /\ ~IsEmpty(DescribeReply(payload, held[item]))
    BY <2>1, AnswerIsEvaluated, AnswerIsDescribed
  <2>3. QED
    BY <2>2, RefusalAssumption DEF RefusalAssumption
<1>4. CASE Matches(held, payload, "same") # {}
  <2> DEFINE item == Exact(held, payload)
  <2>1. item \in Matches(held, payload, "same")
    BY <1>4 DEF Exact
  <2>2. item \in DOMAIN held /\ CompareInstances(instance, RecurrenceId(held[item])) = "same"
    BY <2>1 DEF Matches
  <2>3. Effective(held, instance) = held[item]
    BY <2>2, RecurrenceIdReads, EffectiveIsItsComponent
  <2>4. ReviewPayload(message, held, payload)
          = ReviewExact(item, Evaluate(message, payload, held[item], "present"))
    BY <1>4 DEF ReviewPayload
  <2> HIDE DEF item
  <2>5. ReviewPayload(message, held, payload) = AnswerChange("existing", item, payload, held)
    BY <1>3, <2>2, <2>3, <2>4 DEF ReviewExact, AnswerChange
  <2>6. AnswersOnto(held, payload, "existing", item)
    BY <2>1, <2>2, <2>3 DEF AnswersOnto
  <2>7. QED
    BY <2>2, <2>5, <2>6
<1>5. CASE Matches(held, payload, "same") = {}
  <2> DEFINE item == MasterOf(held)
  <2>1. Masters(held) # {} /\ Effective(held, instance) = held[item]
    BY <1>1, <1>2, <1>5 DEF Effective
  <2>2. item \in Masters(held)
    BY <2>1, MasterIsHeld
  <2>3. item \in DOMAIN held /\ RecurrenceId(held[item]) = Nothing /\ item = MasterOf(held)
    BY <2>2 DEF Masters, IsMaster
  <2>4. RecurrenceSetContains(held[item], payload)
    BY <1>1, <1>2, <1>5, <2>1
  <2>5. ~IsMaster(payload)
    <3>1. SUFFICES ASSUME instance = Nothing PROVE FALSE
      BY DEF IsMaster
    <3>2. CompareInstances(instance, RecurrenceId(held[item])) = "same"
      BY <2>3, <3>1 DEF CompareInstances
    <3>3. QED
      BY <1>5, <2>3, <3>2 DEF Matches
  <2>6. ReviewPayload(message, held, payload)
          = ReviewDetached(held, payload, item, Evaluate(message, payload, held[item], "present"))
    BY <1>5, <2>1 DEF ReviewPayload
  <2> HIDE DEF item
  <2>7. ReviewPayload(message, held, payload) = AnswerChange("detach", item, payload, held)
    BY <1>3, <2>1, <2>3, <2>4, <2>5, <2>6 DEF ReviewDetached, AnswerChange
  <2>8. AnswersOnto(held, payload, "detach", item)
    BY <1>5, <2>1, <2>2, <2>3, <2>5 DEF AnswersOnto
  <2>9. QED
    BY <2>3, <2>7, <2>8
<1>6. QED
  BY <1>4, <1>5

(* The message is let through.                                              *)
LEMMA AnswerIsReviewed ==
  ASSUME NEW message \in Message, ToldApart(message.payloads), NEW held \in Seq(Component),
         Orderly(held), AnswerTo(message, held), NEW payload \in Component, payload = message.payloads[1]
  PROVE  /\ held # << >>
         /\ DOMAIN message.payloads = {1}
         /\ \E kind \in {"existing", "detach"}, item \in DOMAIN held :
              /\ AnswersOnto(held, payload, kind, item)
              /\ Review(message, held) = <<AnswerChange(kind, item, payload, held)>>
         /\ Review(message, held) # Nothing
<1>1. DOMAIN message.payloads = {1}
  <2>1. message.payloads \in Seq(Component) /\ Len(message.payloads) = 1
    BY DEF AnswerTo, Message
  <2>2. QED
    BY <2>1, OneLine
<1>2. PICK kind \in {"existing", "detach"}, item \in DOMAIN held :
           /\ AnswersOnto(held, payload, kind, item)
           /\ ReviewPayload(message, held, payload) = AnswerChange(kind, item, payload, held)
  BY AnswerPassesReview
<1>3. held # << >>
  BY <1>2
<1> DEFINE change == AnswerChange(kind, item, payload, held)
           changes == [k \in DOMAIN message.payloads |->
                         ReviewPayload(message, held, message.payloads[k])]
<1>4. Review(message, held) = ReviewExisting(message, held)
  <2>1. \A k \in DOMAIN message.payloads : Inspect(message.method, message.payloads[k])
    BY <1>1 DEF AnswerTo, IsNewAnswer
  <2>2. QED
    BY <1>3, <2>1 DEF Review
<1>5. Review(message, held) = AllOrNothing(changes)
  <2>1. /\ Cardinality(Masters(held)) <= 1
        /\ \A k \in DOMAIN message.payloads :
             /\ Matches(held, message.payloads[k], "ambiguous") = {}
             /\ Cardinality(Matches(held, message.payloads[k], "same")) <= 1
        /\ \A k, other \in DOMAIN message.payloads : k # other =>
             Matches(held, message.payloads[k], "same")
               \cap Matches(held, message.payloads[other], "same") = {}
    BY <1>1, OneMasterIsHeld, PayloadsNameComponents DEF AnswerTo
  <2>2. QED
    BY <1>4, <2>1 DEF ReviewExisting, Reviewed
<1>6. change \in ReviewedChanges /\ change # Nothing
  <2>1. held[item] \in Component /\ IsNewAnswer(message, payload, held[item]) /\ item \in Nat
    BY <1>2 DEF AnswersOnto, AnswerTo
  <2>2. DescribeReply(payload, held[item]) \in Transition
    BY <2>1, AnswerIsDescribed
  <2>3. change \in ReviewedChanges
    BY <1>2, <2>1, <2>2 DEF AnswerChange, ReviewedChange, ReviewedChanges
  <2> HIDE DEF change
  <2>4. QED
    BY <2>3, RefusalAssumption DEF RefusalAssumption
<1>7. changes = [k \in {1} |-> change]
  BY <1>1, <1>2
<1> HIDE DEF change, changes
<1>8. changes = <<change>>
  BY <1>7
<1>9. AllOrNothing(changes) = changes /\ DOMAIN changes = {1}
  BY <1>6, <1>7 DEF AllOrNothing
<1>10. changes # Nothing
  <2>1. changes \in Seq(ReviewedChanges)
    BY <1>6, <1>8
  <2>2. QED
    BY <2>1, RefusalAssumption DEF RefusalAssumption
<1>11. Review(message, held) = <<change>> /\ Review(message, held) # Nothing
  BY <1>5, <1>8, <1>9, <1>10
<1>12. QED
  BY <1>1, <1>2, <1>3, <1>11 DEF change

(* An answer is written and read where it was given.                        *)
AnswersFor(message, payload, component) ==
  LET at == OccurrenceOf(component, message.from)
  IN  /\ component \in Component /\ at # 0
      /\ component.ATTENDEE[at].at = Single(payload, "DTSTAMP")

(* The component it adds, if the instance had none.                         *)
LEMMA AnswerMakesNew ==
  ASSUME NEW message \in Message, NEW held \in Seq(Component), Orderly(held), AnswerTo(message, held),
         NEW payload \in Component, payload = message.payloads[1], NEW item \in DOMAIN held,
         AnswersOnto(held, payload, "detach", item), NEW updated, updated[item] = held[item],
         NEW new, new = WriteNew(message, updated, AnswerChange("detach", item, payload, held), payload)
  PROVE  /\ AnswersFor(message, payload, new)
         /\ RecurrenceId(new) = RecurrenceId(payload)
<1> DEFINE current == held[item]
           transition == DescribeReply(payload, current)
           applied == ApplyTo(current, transition)
           at == OccurrenceOf(current, message.from)
<1>1. current \in Component /\ AtMostOnce(current) /\ RecurrenceId(current) = Nothing /\ ~IsMaster(payload)
  BY DEF Orderly, AnswersOnto, Masters, IsMaster
<1>2. IsNewAnswer(message, payload, current)
  BY DEF AnswerTo, AnswersOnto
<1>3. /\ applied \in Component /\ OccurrenceOf(applied, message.from) = at /\ at # 0
      /\ applied.ATTENDEE[at].at = Single(payload, "DTSTAMP") /\ applied # Nothing
  BY <1>1, <1>2, AnswerIsApplied
<1>4. Passed(message, payload, current, transition)
  <2>1. Evaluate(message, payload, current, "present") = transition /\ transition \in Transition
    BY <1>1, <1>2, AnswerIsEvaluated, AnswerIsDescribed
  <2>2. transition # Nothing
    BY <2>1, RefusalAssumption DEF RefusalAssumption
  <2>3. QED
    BY <2>1, <2>2, EvaluatedPresent
<1>5. /\ AtMostOnce(applied)
      /\ \A name \in Name : applied[name] = WriteLines(current[name], transition[name])
  BY <1>1, <1>3, <1>4, AppliedIsComponent
<1>6. applied.RECURRENCE_ID = << >>
  <2>1. "RECURRENCE_ID" \in Name \ {"ATTENDEE"}
    BY DEF Name
  <2>2. transition["RECURRENCE_ID"] = {}
    BY <1>1, <1>2, <2>1, AnswerIsDescribed
  <2>3. applied["RECURRENCE_ID"] = current["RECURRENCE_ID"]
    BY <1>1, <1>5, <2>1, <2>2, NothingWritten
  <2>4. current.RECURRENCE_ID = << >>
    BY <1>1, RecurrenceIdReads
  <2>5. QED
    BY <2>3, <2>4
<1>7. AtMostOnce(payload) /\ message.method = "REPLY"
  BY <1>2, ConformingOnce DEF IsNewAnswer, Message
<1>8. new = CopyRecurrenceId(applied, payload)
  <2>1. new = Finished(message, CopyRecurrenceId(ApplyTo(updated[item], transition), payload))
    BY DEF WriteNew, AnswerChange, ReviewedChange
  <2>2. QED
    BY <1>7, <2>1 DEF Finished
<1> HIDE DEF current, transition, applied, at
<1>9. /\ new \in Component /\ new.RECURRENCE_ID = payload.RECURRENCE_ID
      /\ \A name \in Name \ {"RECURRENCE_ID"} : new[name] = applied[name]
  BY <1>1, <1>3, <1>5, <1>6, <1>7, <1>8, CloneTakesTheAddress
<1>10. new.ATTENDEE = applied.ATTENDEE
  <2>1. "ATTENDEE" \in Name \ {"RECURRENCE_ID"}
    BY DEF Name
  <2>2. new["ATTENDEE"] = applied["ATTENDEE"]
    BY <1>9, <2>1
  <2>3. QED
    BY <2>2
<1>11. OccurrenceOf(new, message.from) = OccurrenceOf(applied, message.from)
  <2> DEFINE firstOf(lines) == IF lines = {} THEN 0
                               ELSE CHOOSE i \in lines : \A j \in lines : i <= j
  <2>1. \A c : OccurrenceOf(c, message.from)
                 = firstOf({i \in DOMAIN c.ATTENDEE : c.ATTENDEE[i].who = message.from})
    BY DEF OccurrenceOf
  <2> HIDE DEF firstOf
  <2>2. QED
    BY <1>10, <2>1
<1>12. RecurrenceId(new) = RecurrenceId(payload)
  BY <1>9 DEF RecurrenceId, Single
<1>13. QED
  BY <1>3, <1>9, <1>10, <1>11, <1>12 DEF AnswersFor

(* What the two phases make of the calendar.                                *)
LEMMA AnswerIsWritten ==
  ASSUME NEW message \in Message, NEW held \in Seq(Component), Orderly(held), AnswerTo(message, held),
         NEW payload \in Component, payload = message.payloads[1], NEW item \in DOMAIN held,
         NEW kind \in {"existing", "detach"}, AnswersOnto(held, payload, kind, item),
         NEW changes, changes = <<AnswerChange(kind, item, payload, held)>>
  PROVE  LET updated == Updated(message, held, changes)
         IN  /\ updated \in Seq(Component)
             /\ kind = "existing" =>
                  /\ Later(changes) = {}
                  /\ AnswersFor(message, payload, updated[item])
             /\ kind = "detach" =>
                  /\ Later(changes) = {1}
                  /\ AnswersFor(message, payload, WriteNew(message, updated, changes[1], payload))
                  /\ RecurrenceId(WriteNew(message, updated, changes[1], payload)) = RecurrenceId(payload)
<1> DEFINE current == held[item]
           transition == DescribeReply(payload, current)
           applied == ApplyTo(current, transition)
           updated == Updated(message, held, changes)
<1>1. /\ DOMAIN changes = {1} /\ changes[1].kind = kind /\ changes[1].item = item
      /\ changes[1].transition = transition /\ changes[1] = AnswerChange(kind, item, payload, held)
  BY DEF AnswerChange, ReviewedChange
<1>2. current \in Component /\ IsNewAnswer(message, payload, current) /\ message.method = "REPLY"
  BY DEF AnswerTo, AnswersOnto, IsNewAnswer
<1>3. AnswersFor(message, payload, applied)
  BY <1>2, AnswerIsApplied DEF AnswersFor
<1>4. ~IsEmpty(transition)
  BY <1>2, AnswerIsDescribed
<1>5. \A component : Finished(message, component) = component
  BY <1>2 DEF Finished
<1> HIDE DEF transition, applied
<1>6. ASSUME NEW i \in DOMAIN held, kind = "detach" \/ i # item
      PROVE  WriteExisting(message, held, changes, i) = held[i]
  <2>1. {k \in DOMAIN changes : changes[k].kind = "existing" /\ changes[k].item = i} = {}
    BY <1>1, <1>6
  <2>2. QED
    BY <2>1 DEF WriteExisting
<1>7. ASSUME kind = "existing"
      PROVE  WriteExisting(message, held, changes, item) = applied
  <2> DEFINE mine == {k \in DOMAIN changes : changes[k].kind = "existing" /\ changes[k].item = item}
             real == {k \in mine : ~IsEmpty(changes[k].transition)}
  <2>1. mine = {1} /\ real = {1}
    BY <1>1, <1>4, <1>7
  <2>2. WriteExisting(message, held, changes, item)
          = Finished(message, ApplyTo(held[item], changes[CHOOSE k \in real : TRUE].transition))
    BY <2>1 DEF WriteExisting
  <2>3. (CHOOSE k \in real : TRUE) = 1
    BY <2>1
  <2> HIDE DEF mine, real
  <2>4. QED
    BY <1>1, <1>5, <2>2, <2>3 DEF applied
<1>8. \A i \in DOMAIN held : WriteExisting(message, held, changes, i) \in Component
  BY <1>2, <1>3, <1>6, <1>7 DEF AnswersFor
<1>9. updated \in Seq(Component) /\ updated[item] = WriteExisting(message, held, changes, item)
  BY <1>8 DEF Updated
<1>10. kind = "existing" => Later(changes) = {} /\ AnswersFor(message, payload, updated[item])
  <2>1. kind = "existing" => Later(changes) = {}
    BY <1>1 DEF Later
  <2> HIDE DEF updated
  <2>2. QED
    BY <1>3, <1>7, <1>9, <2>1
<1>11. ASSUME kind = "detach"
       PROVE  /\ Later(changes) = {1}
              /\ AnswersFor(message, payload, WriteNew(message, updated, changes[1], payload))
              /\ RecurrenceId(WriteNew(message, updated, changes[1], payload)) = RecurrenceId(payload)
  <2>1. Later(changes) = {1}
    BY <1>1, <1>11 DEF Later
  <2>2. updated[item] = held[item]
    BY <1>6, <1>9, <1>11
  <2> HIDE DEF updated
  <2>3. QED
    BY <1>1, <1>11, <2>1, <2>2, AnswerMakesNew
<1>12. QED
  BY <1>9, <1>10, <1>11

(* So the answer is taken.                                                  *)
LEMMA AnswerIsTaken ==
  ASSUME NEW message \in Message, ToldApart(message.payloads), NEW held \in Seq(Component),
         Orderly(held), AnswerTo(message, held), NEW payload \in Component, payload = message.payloads[1]
  PROVE  /\ Result(message, held) # Nothing
         /\ AnsweredAt(Result(message, held), RecurrenceId(payload), message.from)
              = Single(payload, "DTSTAMP")
<1> DEFINE changes == Review(message, held)
           ref == RecurrenceId(payload)
<1>1. /\ held # << >> /\ DOMAIN message.payloads = {1} /\ changes # Nothing
      /\ \E kind \in {"existing", "detach"}, item \in DOMAIN held :
           /\ AnswersOnto(held, payload, kind, item)
           /\ changes = <<AnswerChange(kind, item, payload, held)>>
  BY AnswerIsReviewed
<1>2. Result(message, held) = Apply(message, held, changes)
  BY DEF Result
<1>3. ref \in Reference /\ Resolved(ref)
  BY RecurrenceIdReads DEF AnswerTo
<1> HIDE DEF changes, ref
<1>4. PICK kind \in {"existing", "detach"}, item \in DOMAIN held :
           /\ AnswersOnto(held, payload, kind, item)
           /\ changes = <<AnswerChange(kind, item, payload, held)>>
  BY <1>1
<1> DEFINE updated == Updated(message, held, changes)
           added == Added(message, updated, changes)
<1>5. /\ updated \in Seq(Component)
      /\ kind = "existing" =>
           /\ Later(changes) = {}
           /\ AnswersFor(message, payload, updated[item])
      /\ kind = "detach" =>
           /\ Later(changes) = {1}
           /\ AnswersFor(message, payload, WriteNew(message, updated, changes[1], payload))
           /\ RecurrenceId(WriteNew(message, updated, changes[1], payload)) = ref
  BY <1>4, AnswerIsWritten DEF ref
<1>6. DOMAIN changes = DOMAIN message.payloads
  BY <1>1, <1>4
<1> HIDE DEF updated
<1>7. added \in Seq(Component)
  <2> DEFINE later == Later(changes)
             size == Cardinality(later)
  <2>1. added = [j \in 1..size |-> WriteNew(message, updated, changes[Nth(later, j)],
                                            message.payloads[Nth(later, j)])]
    BY DEF Added, Later
  <2>2. later \in SUBSET (1..1)
    BY <1>5
  <2>3. size \in Nat /\ \A j \in 1..size : Nth(later, j) \in later
    <3> HIDE DEF later
    <3>1. QED
      BY <2>2, NthCounts
  <2>4. \A k \in later : WriteNew(message, updated, changes[k], message.payloads[k]) \in Component
    BY <1>5 DEF AnswersFor
  <2> HIDE DEF added, later, size
  <2>5. \A j \in 1..size : added[j] \in Component
    BY <2>1, <2>3, <2>4
  <2>6. added = [j \in 1..size |-> added[j]]
    BY <2>1
  <2>7. QED
    BY <2>3, <2>5, <2>6
<1> HIDE DEF added
<1>8. Result(message, held) # Nothing
  <2>1. Result(message, held) = WriteBack(message, updated, changes)
    BY <1>1, <1>2 DEF Apply, updated, Updated
  <2>2. \A components \in Seq(Component) : AllOrNothing(components) = components
    <3>1. Nothing \notin Component
      BY NoneAssumption DEF NoneAssumption
    <3>2. QED
      BY <3>1 DEF AllOrNothing
  <2>3. updated # Nothing
    BY <1>5, RefusalAssumption DEF RefusalAssumption
  <2>4. updated \o added \in Seq(Component)
    BY <1>5, <1>7
  <2>5. WriteBack(message, updated, changes) = updated \o added
    BY <1>5, <2>2, <2>3, <2>4 DEF WriteBack, added
  <2>6. QED
    BY <2>1, <2>4, <2>5, RefusalAssumption DEF RefusalAssumption
<1>9. PICK new : new = Result(message, held)
  OBVIOUS
<1>10. new \in Seq(Component) /\ Orderly(new)
  BY <1>8, <1>9, DeliveryStaysOrderly DEF Kept
<1>11. TwoPhases(message, held, changes, new)
  BY <1>1, <1>2, <1>6, <1>8, <1>9, AppliedInPhases
<1>12. \E i \in DOMAIN new : /\ AnswersFor(message, payload, new[i])
                             /\ CompareInstances(ref, RecurrenceId(new[i])) = "same"
  <2>0. Len(held) \in Nat /\ DOMAIN held = 1..Len(held)
    OBVIOUS
  <2>1. CASE kind = "existing"
    <3>1. ReviewedOnto(message, held, changes)
      BY <1>1, ReviewFindsComponents DEF changes
    <3>2. new[item] = WriteExisting(message, held, changes, item) /\ new[item] # Nothing
      BY <1>11, <2>0 DEF TwoPhases
    <3>3. new[item] = updated[item]
      BY <3>2 DEF updated, Updated
    <3>4. SameInstance(held[item], new[item])
      <4>1. HeldWritten(message, held, changes, item, new[item])
        BY <3>1, <3>2, ExistingIsWritten
      <4>2. QED
        BY <3>1, <4>1, HeldStaysItsInstance DEF Orderly
    <3>5. CompareInstances(ref, RecurrenceId(held[item])) = "same"
      BY <1>4, <2>1 DEF AnswersOnto, Matches, ref
    <3>6. item \in DOMAIN new
      <4>1. Cardinality(Later(changes)) \in Nat /\ DOMAIN new = 1..(Len(held) + Cardinality(Later(changes)))
        BY <1>11 DEF TwoPhases, ListsUpTo
      <4>2. QED
        BY <2>0, <4>1
    <3>7. QED
      BY <1>5, <2>1, <3>3, <3>4, <3>5, <3>6 DEF SameInstance
  <2>2. CASE kind = "detach"
    <3>1. Cardinality(Later(changes)) = 1
      BY <1>5, <2>2, FS_Singleton
    <3>2. /\ DOMAIN new = 1..(Len(held) + Cardinality(Later(changes)))
          /\ \A j \in 1..Cardinality(Later(changes)) :
               /\ Nth(Later(changes), j) \in Later(changes)
               /\ new[Len(held) + j] = WriteNew(message, updated, changes[Nth(Later(changes), j)],
                                                message.payloads[Nth(Later(changes), j)])
      BY <1>11 DEF TwoPhases, ListsUpTo, updated
    <3>3. 1 \in 1..Cardinality(Later(changes)) /\ Len(held) + 1 \in DOMAIN new
      BY <2>0, <3>1, <3>2
    <3>4. Nth(Later(changes), 1) = 1
      BY <1>5, <2>2, <3>2, <3>3
    <3>5. new[Len(held) + 1] = WriteNew(message, updated, changes[1], message.payloads[1])
      BY <3>2, <3>3, <3>4
    <3>6. AnswersFor(message, payload, new[Len(held) + 1]) /\ RecurrenceId(new[Len(held) + 1]) = ref
      BY <1>5, <2>2, <3>5
    <3>7. CompareInstances(ref, ref) = "same"
      BY <1>3, ComparesReferences DEF Resolved
    <3>8. QED
      BY <3>3, <3>6, <3>7
  <2>3. QED
    BY <2>1, <2>2
<1>13. PICK i \in DOMAIN new : /\ AnswersFor(message, payload, new[i])
                               /\ CompareInstances(ref, RecurrenceId(new[i])) = "same"
  BY <1>12
<1>14. Effective(new, ref) = new[i]
  BY <1>3, <1>10, <1>13, EffectiveIsItsComponent
<1>15. AnsweredAt(new, ref, message.from) = Single(payload, "DTSTAMP")
  <2>1. new[i] # Nothing
    BY <1>13, NoneAssumption DEF NoneAssumption, AnswersFor
  <2>2. QED
    BY <1>13, <1>14, <2>1 DEF AnsweredAt, AnswersFor
<1>16. QED
  BY <1>8, <1>9, <1>15 DEF ref

(* The instance an answer is to could not be one of two.                    *)
AnswersNameOne ==
  \A message \in mail : message.method = "REPLY" =>
    LET answer == message.payloads[1]
        component == Effective(calendar, RecurrenceId(answer))
    IN  component # Nothing /\ Sequence(component) = Sequence(answer) =>
          Matches(calendar, answer, "ambiguous") = {}

(* A version on record is no later than an answer to it.                    *)
LEMMA AnswersComeLater ==
  ASSUME OrderlyStart, AnswersFollowVersions, mail \in Exchanges,
         NEW message \in mail, message.method = "REPLY", DOMAIN message.payloads = {1},
         NEW answer, answer = message.payloads[1],
         NEW component \in Component, AtMostOnce(component), VersionIsStated(component),
         Sequence(answer) = Sequence(component),
         \A other \in mail : \A k \in DOMAIN other.payloads :
           OrganizerAuthored(other.method) /\ Sequence(other.payloads[k]) = Sequence(answer)
             => other.payloads[k].DTSTAMP[1] <= answer.DTSTAMP[1]
  PROVE  Single(component, "DTSTAMP") # Nothing => Single(component, "DTSTAMP") <= answer.DTSTAMP[1]
<1>1. "DTSTAMP" \in Name \ {"ATTENDEE"}
  BY DEF Name
<1>2. /\ component["DTSTAMP"] = << >> => Single(component, "DTSTAMP") = Nothing
      /\ component["DTSTAMP"] # << >> => Single(component, "DTSTAMP") = component["DTSTAMP"][1]
  BY <1>1, SingleReads
<1>3. SUFFICES ASSUME component.DTSTAMP # << >> PROVE component.DTSTAMP[1] <= answer.DTSTAMP[1]
  BY <1>2
<1>4. \A other : SameVersion(other, component) =>
        Sequence(other) = Sequence(answer) /\ other.DTSTAMP = component.DTSTAMP
  BY SameLinesSameRevision DEF SameVersion
<1>5. ASSUME NEW held \in Calendars, NEW item \in DOMAIN held, SameVersion(held[item], component)
      PROVE  component.DTSTAMP[1] <= answer.DTSTAMP[1]
  <2>1. NotLater(held[item], answer)
    BY DEF AnswersFollowVersions
  <2>2. QED
    BY <1>3, <1>4, <1>5, <2>1 DEF NotLater
<1>6. ASSUME NEW other \in mail, StatesVersion(other, component)
      PROVE  component.DTSTAMP[1] <= answer.DTSTAMP[1]
  <2>1. PICK k \in DOMAIN other.payloads : SameVersion(other.payloads[k], component)
    BY <1>6 DEF StatesVersion
  <2>2. Sequence(other.payloads[k]) = Sequence(answer) /\ other.payloads[k].DTSTAMP = component.DTSTAMP
    BY <1>4, <2>1
  <2>3. CASE OrganizerAuthored(other.method)
    BY <2>2, <2>3
  <2>4. CASE other.method = "COUNTER"
    <3>1. NotLater(other.payloads[k], answer)
      BY <2>4 DEF AnswersFollowVersions
    <3>2. QED
      BY <1>3, <2>2, <3>1 DEF NotLater
  <2>5. OrganizerAuthored(other.method) \/ other.method = "COUNTER"
    <3>1. other \in Message
      BY MailAssumption DEF MailAssumption
    <3>2. QED
      BY <1>6, <3>1 DEF StatesVersion, Message, Method, OrganizerAuthored
  <2>6. QED
    BY <2>3, <2>4, <2>5
<1>7. QED
  BY <1>5, <1>6 DEF VersionIsStated

(* An attendee's newer answer to the version on record is taken, however    *)
(* late it comes and whatever the others have answered meanwhile, if the    *)
(* answer conforms, is later than the version it answers, and the mail does *)
(* not restate the series together with a new instance.                     *)
THEOREM NewerAnswersLand ==
  ASSUME OrderlyStart, DistinctPayloads, AnswersFollowVersions, AnswersAreConforming
  PROVE  Spec /\ []SeriesComesAlone /\ []AnswersNameOne => []NewerAnswerLands
<1>1. SchedulingInvariant /\ VersionsAreStated /\ AnswersNameOne => NewerAnswerLands
  <2> DEFINE answer(message) == message.payloads[1]
             component(message) == Effective(calendar, RecurrenceId(answer(message)))
             at(message) == OccurrenceOf(component(message), message.from)
  <2>1. SUFFICES ASSUME SchedulingInvariant, VersionsAreStated, AnswersNameOne, NEW message \in mail,
                        message.method = "REPLY", answer(message).ATTENDEE[1].who = message.from,
                        message.from # Organizer, RecurrenceId(answer(message)) \in Instance,
                        component(message) # Nothing, at(message) # 0,
                        \/ component(message).ATTENDEE[at(message)].at = Nothing
                        \/ answer(message).DTSTAMP[1] > component(message).ATTENDEE[at(message)].at,
                        Sequence(answer(message)) = Sequence(component(message)),
                        \A other \in mail : \A k \in DOMAIN other.payloads :
                          OrganizerAuthored(other.method)
                            /\ Sequence(other.payloads[k]) = Sequence(answer(message))
                            => other.payloads[k].DTSTAMP[1] <= answer(message).DTSTAMP[1],
                        \/ Own(calendar, RecurrenceId(answer(message))) # {}
                        \/ RecurrenceSetContains(component(message), answer(message))
                 PROVE  /\ Result(message, calendar) # Nothing
                        /\ AnsweredAt(Result(message, calendar), RecurrenceId(answer(message)),
                                      message.from)
                             = answer(message).DTSTAMP[1]
    BY DEF NewerAnswerLands, Rejected
  <2> HIDE DEF answer, component, at
  <2>2. message \in Message /\ ToldApart(message.payloads) /\ mail \in Exchanges
    BY <2>1, MailAssumption DEF MailAssumption, SchedulingInvariant, DistinctPayloads
  <2>3. calendar \in Seq(Component) /\ Orderly(calendar)
    BY <2>1 DEF SchedulingInvariant, OneComponentPerInstance
  <2>4. /\ Len(message.payloads) = 1 /\ Inspect(message.method, answer(message))
        /\ CheckConformance(message.method, answer(message))
    BY <2>1, <2>2 DEF AnswersAreConforming, answer
  <2>5. DOMAIN message.payloads = {1} /\ answer(message) \in Component
    <3>1. message.payloads \in Seq(Component)
      BY <2>2 DEF Message
    <3>2. DOMAIN message.payloads = {1}
      BY <2>4, <3>1, OneLine
    <3>3. QED
      BY <3>1, <3>2 DEF answer
  <2>6. answer(message).DTSTAMP[1] = Single(answer(message), "DTSTAMP")
    <3>1. message.method \in Method
      BY <2>2 DEF Message
    <3>2. answer(message).DTSTAMP = <<Single(answer(message), "DTSTAMP")>>
      BY <2>4, <2>5, <3>1, StampedOnce
    <3>3. QED
      BY <3>2
  <2>7. Resolved(RecurrenceId(answer(message)))
    BY <2>1 DEF Instance, Resolved
  <2>8. PICK item \in DOMAIN calendar : component(message) = calendar[item]
    <3>1. CASE Own(calendar, RecurrenceId(answer(message))) # {}
      <4>1. PICK own \in Own(calendar, RecurrenceId(answer(message))) :
                   component(message) = calendar[own]
        BY <3>1 DEF component, Effective
      <4>2. QED
        BY <4>1 DEF Own
    <3>2. CASE Own(calendar, RecurrenceId(answer(message))) = {}
      <4>1. Masters(calendar) # {} /\ component(message) = calendar[MasterOf(calendar)]
        BY <2>1, <3>2 DEF component, Effective
      <4>2. MasterOf(calendar) \in Masters(calendar)
        BY <2>3, <4>1, MasterIsHeld
      <4>3. QED
        BY <4>1, <4>2 DEF Masters
    <3>3. QED
      BY <3>1, <3>2
  <2>9. /\ component(message) \in Component /\ AtMostOnce(component(message))
        /\ VersionIsStated(component(message))
    BY <2>1, <2>3, <2>8 DEF Orderly, VersionsAreStated
  <2>10. Single(component(message), "DTSTAMP") # Nothing =>
           Single(component(message), "DTSTAMP") <= answer(message).DTSTAMP[1]
    <3>1. answer(message) = message.payloads[1]
      BY DEF answer
    <3>2. QED
      BY <2>1, <2>2, <2>5, <2>9, <3>1, AnswersComeLater
  <2>11. IsNewAnswer(message, answer(message), component(message))
    BY <2>1, <2>4, <2>10 DEF IsNewAnswer, at
  <2>12. Matches(calendar, answer(message), "ambiguous") = {}
    BY <2>1 DEF AnswersNameOne, answer, component
  <2>13. AnswerTo(message, calendar)
    BY <2>1, <2>4, <2>7, <2>11, <2>12 DEF AnswerTo, answer, component
  <2>14. /\ Result(message, calendar) # Nothing
         /\ AnsweredAt(Result(message, calendar), RecurrenceId(answer(message)), message.from)
              = Single(answer(message), "DTSTAMP")
    <3>1. answer(message) = message.payloads[1]
      BY DEF answer
    <3>2. QED
      BY <2>2, <2>3, <2>5, <2>13, <3>1, AnswerIsTaken
  <2>15. QED
    BY <2>6, <2>14
<1>2. Spec => []SchedulingInvariant
  BY SchedulingInvariantHolds
<1>3. Spec /\ []SeriesComesAlone => []VersionsAreStated
  BY VersionsAreStatedHolds
<1>4. QED
  BY <1>1, <1>2, <1>3, PTL
=============================================================================
