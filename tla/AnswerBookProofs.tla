--------------------------- MODULE AnswerBookProofs ---------------------------
(***************************************************************************)
(* Whatever the order in which messages are delivered, nothing on record is *)
(* ever turned back: that precedence is a strict order carries what one     *)
(* step of the answer book guarantees over any number of steps.             *)
(***************************************************************************)
EXTENDS AnswerBook, TLAPS

(* No revision supersedes itself (Revision::supersedes). *)
LEMMA SupersedesIrreflexive ==
  ASSUME NEW r \in Revision
  PROVE  ~Supersedes(r, r)
BY NothingAssumption DEF NothingAssumption, Supersedes, Revision, Stamp

(* What supersedes a newer revision supersedes an older one too, unreadable *)
(* DTSTAMPs included (Revision::supersedes).                                *)
LEMMA SupersedesTransitive ==
  ASSUME NEW r \in Revision, NEW s \in Revision, NEW t \in Revision,
         Supersedes(r, s), Supersedes(s, t)
  PROVE  Supersedes(r, t)
<1>1. /\ r.sequence \in Nat /\ s.sequence \in Nat /\ t.sequence \in Nat
      /\ r.dtstamp \in Stamp /\ s.dtstamp \in Stamp /\ t.dtstamp \in Stamp
  BY DEF Revision
<1>2. CASE r.sequence > t.sequence
  BY <1>2 DEF Supersedes
<1>3. CASE ~(r.sequence > t.sequence)
  <2>1. r.sequence = s.sequence /\ s.sequence = t.sequence
    BY <1>1, <1>3 DEF Supersedes
  <2>2. QED
    BY <1>1, <2>1, NothingAssumption DEF NothingAssumption, Supersedes, Stamp
<1>4. QED
  BY <1>2, <1>3

(* Every version on record is a revision and every answer has a time stamp  *)
(* or none.                                                                 *)
THEOREM BookTypeOK == Spec => []TypeOK
<1>1. Init => TypeOK
  BY DEF Init, TypeOK
<1>2. TypeOK /\ [Next]_book => TypeOK'
  BY DEF Next, TypeOK, book
<1>3. QED
  BY <1>1, <1>2, PTL DEF Spec

(* Reached(i, v): instance i has version v on record, or one that came      *)
(* after it.                                                                *)
Reached(i, v) == version[i] = v \/ (version[i] # Nothing /\ Supersedes(version[i], v))

LEMMA ReachedStep ==
  ASSUME NEW i \in Instance, NEW v \in Revision, TypeOK, [Next]_book, Reached(i, v)
  PROVE  Reached(i, v)'
<1>1. CASE UNCHANGED book
  BY <1>1 DEF book, Reached
<1>2. CASE Next
  <2>1. version[i] # Nothing
    BY NothingAssumption DEF Reached, NothingAssumption
  <2>2. TypeOK'
    BY <1>2 DEF Next
  <2>3. version'[i] = version[i] \/ Advances(i)
    BY <1>2 DEF Next, Update, Answer
  <2>4. CASE version'[i] = version[i]
    BY <2>4 DEF Reached
  <2>5. CASE Advances(i)
    <3>1. version[i] \in Revision /\ version'[i] \in Revision
      BY <2>1, <2>2, <2>5 DEF TypeOK, Advances
    <3>2. Supersedes(version'[i], version[i]) /\ version'[i] # Nothing
      BY <2>1, <2>5 DEF Advances
    <3>3. Supersedes(version'[i], v)
      BY <3>1, <3>2, SupersedesTransitive DEF Reached
    <3>4. QED
      BY <3>2, <3>3 DEF Reached
  <2>6. QED
    BY <2>3, <2>4, <2>5
<1>3. QED
  BY <1>1, <1>2

(* A version that was on record once is never left for an older one, or for *)
(* none: whatever was delivered since, the instance has it or a newer one.  *)
THEOREM VersionsNeverReturn ==
  ASSUME NEW i \in Instance, NEW v \in Revision
  PROVE  Spec => [](version[i] = v => []Reached(i, v))
<1>1. version[i] = v => Reached(i, v)
  BY DEF Reached
<1>2. TypeOK /\ [Next]_book /\ Reached(i, v) => Reached(i, v)'
  BY ReachedStep
<1>3. QED
  BY <1>1, <1>2, BookTypeOK, PTL DEF Spec

(* Standing(i, v, who, a): as long as instance i has version v, the answer  *)
(* of who is the one given at a, or a later one.                            *)
Standing(i, v, who, a) ==
  /\ Reached(i, v)
  /\ version[i] = v =>
       answered[i][who] = a \/ (answered[i][who] \in Nat /\ answered[i][who] > a)

LEMMA StandingStep ==
  ASSUME NEW i \in Instance, NEW v \in Revision, NEW who \in Attendee, NEW a \in Nat,
         TypeOK, [Next]_book, Standing(i, v, who, a)
  PROVE  Standing(i, v, who, a)'
<1>1. Reached(i, v)'
  BY ReachedStep DEF Standing
<1>2. CASE UNCHANGED book
  BY <1>1, <1>2 DEF book, Standing
<1>3. CASE Next /\ version'[i] = v
  <2>1. TypeOK'
    BY <1>3 DEF Next
  <2>2. version[i] # Nothing
    BY NothingAssumption DEF Standing, Reached, NothingAssumption
  <2>3. ~Advances(i)
    <3>1. SUFFICES ASSUME Advances(i) PROVE FALSE
      OBVIOUS
    <3>2. Supersedes(v, version[i]) /\ version[i] \in Revision
      BY <1>3, <2>2, <3>1 DEF Advances, TypeOK
    <3>3. Supersedes(v, v)
      BY <3>2, SupersedesTransitive DEF Standing, Reached
    <3>4. QED
      BY <3>3, SupersedesIrreflexive
  <2>4. version[i] = v
    BY <1>3, <2>3 DEF Next, Update, Answer
  <2>5. \/ answered'[i][who] = answered[i][who]
        \/ /\ answered'[i][who] # Nothing
           /\ answered[i][who] = Nothing \/ answered'[i][who] > answered[i][who]
    BY <1>3, <2>3 DEF Next, Update, Answer
  <2>6. /\ answered'[i][who] \in Stamp
        /\ answered[i][who] \in Nat
        /\ answered[i][who] = a \/ answered[i][who] > a
    BY <2>1, <2>4 DEF TypeOK, Standing
  <2>7. answered'[i][who] = a \/ (answered'[i][who] \in Nat /\ answered'[i][who] > a)
    BY <2>5, <2>6, NothingAssumption DEF NothingAssumption, Stamp
  <2>8. QED
    BY <1>1, <2>7 DEF Standing
<1>4. CASE Next /\ version'[i] # v
  BY <1>1, <1>4 DEF Standing
<1>5. QED
  BY <1>2, <1>3, <1>4

(* As long as a version stands, an attendee's answer to it on record is     *)
(* never replaced by an earlier one, nor lost.                              *)
THEOREM AnswersNeverReturn ==
  ASSUME NEW i \in Instance, NEW v \in Revision, NEW who \in Attendee, NEW a \in Nat
  PROVE  Spec => []((version[i] = v /\ answered[i][who] = a) => []Standing(i, v, who, a))
<1>1. version[i] = v /\ answered[i][who] = a => Standing(i, v, who, a)
  BY DEF Standing, Reached
<1>2. TypeOK /\ [Next]_book /\ Standing(i, v, who, a) => Standing(i, v, who, a)'
  BY StandingStep
<1>3. QED
  BY <1>1, <1>2, BookTypeOK, PTL DEF Spec
===============================================================================
