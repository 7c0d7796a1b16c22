--------------------------- MODULE CalendarTreeProofs ---------------------------
(***************************************************************************)
(* For every policy, every budget and any number of documents of any size: *)
(* what the builder keeps has been paid for, no tree nests deeper than the *)
(* policy, and the ledger's depth is accounted for to the last component.  *)
(***************************************************************************)
EXTENDS CalendarTree, SequenceTheorems, TLAPS

(* The stack of open components is a sequence, whatever its entries hold.   *)
StackIsSequence == \E S : open \in Seq(S)

InductiveInv == TreeTypeOK /\ TreeInv /\ StackIsSequence

(* What the proofs use of the constants.                                    *)
LEMMA Constants ==
  /\ Budget \in Nat /\ Top["spent"] \in Nat /\ Budget < Top["spent"]
  /\ \A d \in Scoped \cup Aggregate :
       d \in Dimension /\ Limits[d] \in Nat /\ Top[d] \in Nat /\ Limits[d] < Top[d]
  /\ "depth" \in Scoped /\ "items" \in Aggregate
  /\ FoldOctets \in {2, 3} /\ FoldOctets \in Nat
BY LedgerAssumption, TreeAssumption
DEF LedgerAssumption, TreeAssumption, Scoped, Aggregate, Dimension

-------------------------------------------------------------------------------
(* The ledger *)

(* A ledger that admits octets has not spent more than the budget.          *)
Solvent(m) == ~m.exhausted => m.spent <= Budget

(* Charge by cases, without the Boolean inside the record.                  *)
LEMMA ChargeCases ==
  ASSUME NEW m \in Meter, NEW n \in Nat
  PROVE  LET spent == SaturatingAdd(m.spent, n, Top["spent"])
         IN  /\ m.exhausted => Charge(m, n) = m
             /\ ~m.exhausted /\ spent <= Budget =>
                  Charge(m, n) = [m EXCEPT !.spent = spent, !.exhausted = FALSE]
             /\ ~m.exhausted /\ spent > Budget =>
                  Charge(m, n) = [m EXCEPT !.spent = spent, !.exhausted = TRUE]
             /\ spent \in Nat /\ m.spent \in Nat
             /\ Admits(m, n) <=> ~m.exhausted /\ spent <= Budget
             /\ spent <= Budget => spent = m.spent + n
             /\ m.spent <= Budget => m.spent <= spent
<1> DEFINE spent == SaturatingAdd(m.spent, n, Top["spent"])
<1>1. m.spent \in Nat /\ spent \in Nat
  BY Constants DEF Meter, SaturatingAdd
<1>2. spent <= Budget => (spent > Budget) = FALSE
  BY <1>1, Constants
<1>3. spent > Budget => (spent > Budget) = TRUE
  OBVIOUS
<1>4. Admits(m, n) <=> ~m.exhausted /\ spent <= Budget
  BY DEF Admits
<1>5. spent <= Budget => spent = m.spent + n
  BY <1>1, Constants DEF SaturatingAdd
<1>6. m.spent <= Budget => m.spent <= spent
  BY <1>1, Constants DEF SaturatingAdd
<1>7. ~m.exhausted =>
        Charge(m, n) = [m EXCEPT !.spent = spent, !.exhausted = spent > Budget]
  BY DEF Charge
<1>8. m.exhausted => Charge(m, n) = m
  BY DEF Charge
<1> QED
  BY <1>1, <1>2, <1>3, <1>4, <1>5, <1>6, <1>7, <1>8

(* Whether or not it is admitted, a charge touches nothing but the octets   *)
(* and leaves a solvent ledger; admitted, it is paid in full, and refused,  *)
(* it leaves the ledger exhausted.                                          *)
LEMMA ChargeKeeps ==
  ASSUME NEW m \in Meter, NEW n \in Nat, Solvent(m)
  PROVE  /\ Charge(m, n) \in Meter
         /\ Charge(m, n).count = m.count
         /\ Solvent(Charge(m, n))
         /\ m.spent <= Charge(m, n).spent
         /\ Admits(m, n) => /\ ~Charge(m, n).exhausted
                            /\ Charge(m, n).spent = m.spent + n
         /\ ~Admits(m, n) => Charge(m, n).exhausted
<1> DEFINE spent == SaturatingAdd(m.spent, n, Top["spent"])
<1> HIDE DEF spent
<1>0. /\ spent \in Nat /\ m.spent \in Nat /\ Budget \in Nat
      /\ Admits(m, n) <=> ~m.exhausted /\ spent <= Budget
      /\ spent <= Budget => spent = m.spent + n
      /\ m.spent <= Budget => m.spent <= spent
  BY ChargeCases, Constants DEF spent
<1>1. CASE m.exhausted
  <2>1. Charge(m, n) = m
    BY <1>1, ChargeCases
  <2>2. ~Admits(m, n) /\ m.spent <= m.spent
    BY <1>0, <1>1
  <2> QED
    BY <1>1, <2>1, <2>2, Zenon
<1>2. CASE ~m.exhausted /\ spent <= Budget
  <2>1. Charge(m, n) = [m EXCEPT !.spent = spent, !.exhausted = FALSE]
    BY <1>2, ChargeCases DEF spent
  <2>2. /\ Charge(m, n) \in Meter
        /\ Charge(m, n).count = m.count
        /\ Charge(m, n).spent = spent
        /\ Charge(m, n).exhausted = FALSE
    BY <1>0, <2>1 DEF Meter
  <2>3. Admits(m, n) /\ spent = m.spent + n /\ m.spent <= spent
    BY <1>0, <1>2 DEF Solvent
  <2> QED
    BY <1>2, <2>2, <2>3, Zenon DEF Solvent
<1>3. CASE ~m.exhausted /\ spent > Budget
  <2>1. Charge(m, n) = [m EXCEPT !.spent = spent, !.exhausted = TRUE]
    BY <1>3, ChargeCases DEF spent
  <2>2. /\ Charge(m, n) \in Meter
        /\ Charge(m, n).count = m.count
        /\ Charge(m, n).spent = spent
        /\ Charge(m, n).exhausted = TRUE
    BY <1>0, <2>1 DEF Meter
  <2> QED
    BY <1>0, <1>3, <2>2 DEF Solvent
<1> QED
  BY <1>0, <1>1, <1>2, <1>3

(* Counting one more touches that counter alone, and not beyond its limit.  *)
LEMMA CountKeeps ==
  ASSUME NEW m \in Meter, NEW d \in Scoped \cup Aggregate, Fits(m, d, 1)
  PROVE  /\ Count(m, d, 1) \in Meter
         /\ Count(m, d, 1).spent = m.spent
         /\ Count(m, d, 1).exhausted = m.exhausted
         /\ Count(m, d, 1).count = [m.count EXCEPT ![d] = @ + 1]
         /\ Count(m, d, 1).count[d] <= Limits[d]
<1>1. d \in Dimension /\ Limits[d] \in Nat /\ Top[d] \in Nat /\ Limits[d] < Top[d]
  BY Constants
<1>2. m.count \in [Dimension -> Nat] /\ m.count[d] \in Nat
  BY <1>1 DEF Meter
<1>3. m.count[d] + 1 <= Top[d] /\ m.count[d] + 1 <= Limits[d]
  BY <1>1, <1>2 DEF Fits, SaturatingAdd
<1>4. Count(m, d, 1) = [m EXCEPT !.count[d] = @ + 1]
  BY <1>1, <1>2, <1>3 DEF Fits, Count, SaturatingAdd, Meter
<1> QED
  BY <1>1, <1>2, <1>3, <1>4 DEF Meter

(* Leaving touches the depth alone. *)
LEMMA LeaveKeeps ==
  ASSUME NEW m \in Meter, m.count["depth"] > 0
  PROVE  /\ Leave(m, "depth", 1) \in Meter
         /\ Leave(m, "depth", 1).spent = m.spent
         /\ Leave(m, "depth", 1).exhausted = m.exhausted
         /\ Leave(m, "depth", 1).count["depth"] = m.count["depth"] - 1
<1>1. "depth" \in Dimension
  BY Constants
<1> QED
  BY <1>1 DEF Leave, Meter, SaturatingSub

(* The folds of a line are paid for in full, or the ledger is exhausted.    *)
LEMMA FoldsPaid ==
  ASSUME NEW m \in Meter, NEW n \in Nat, Solvent(m), ~m.exhausted
  PROVE  LET after == ChargeFolds(m, n)
         IN  /\ after \in Meter
             /\ after.count = m.count
             /\ Solvent(after)
             /\ m.spent <= after.spent
             /\ ~after.exhausted => after.spent = m.spent + n * FoldOctets
<1> DEFINE F == n * FoldOctets
           refusedAt == 1 + (Budget - m.spent) \div FoldOctets
<1>1. F \in Nat
  BY Constants
<1>2. m.spent \in Nat /\ Budget - m.spent \in Nat
  BY Constants DEF Meter, Solvent
<1>3. (Budget - m.spent) \div FoldOctets \in Nat
  <2>1. CASE FoldOctets = 2
    BY <1>2, <2>1
  <2>2. CASE FoldOctets = 3
    BY <1>2, <2>2
  <2> QED
    BY <2>1, <2>2, Constants
<1>4. refusedAt * FoldOctets \in Nat
  BY <1>3, Constants
<1>5. CASE n = 0
  BY <1>5, Constants DEF ChargeFolds, Meter
<1>6. CASE n # 0 /\ Admits(m, F)
  BY <1>1, <1>6, ChargeKeeps DEF ChargeFolds
<1>7. CASE n # 0 /\ ~Admits(m, F)
  <2>1. ChargeFolds(m, n) = Charge(m, refusedAt * FoldOctets)
    BY <1>7 DEF ChargeFolds
  <2>2. Charge(m, refusedAt * FoldOctets).exhausted
    <3>1. m.spent + refusedAt * FoldOctets > Budget
      <4> DEFINE left == Budget - m.spent
      <4>0. left \in Nat /\ Budget = m.spent + left
        BY <1>2, Constants
      <4> HIDE DEF left
      <4>1. CASE FoldOctets = 2
        <5>1. left < 2 + (left \div 2) * 2
          BY <4>0
        <5> QED
          BY <1>2, <4>0, <4>1, <5>1 DEF left
      <4>2. CASE FoldOctets = 3
        <5>1. left < 3 + (left \div 3) * 3
          BY <4>0
        <5> QED
          BY <1>2, <4>0, <4>2, <5>1 DEF left
      <4> QED
        BY <4>1, <4>2, Constants
    <3>2. ~Admits(m, refusedAt * FoldOctets)
      BY <1>2, <1>4, <3>1, Constants DEF Admits, SaturatingAdd
    <3> QED
      BY <1>4, <3>2, ChargeKeeps
  <2> QED
    BY <1>4, <2>1, <2>2, ChargeKeeps
<1> QED
  BY <1>5, <1>6, <1>7

-------------------------------------------------------------------------------
(* The stack of open components *)

(* push_item leaves the stack as deep as it was. *)
LEMMA PushKeepsDepth ==
  ASSUME NEW S, NEW stack \in Seq(S), NEW item, PushItem(stack, item)
  PROVE  Len(open') = Len(stack) /\ StackIsSequence'
<1>1. CASE stack = <<>>
  BY <1>1 DEF PushItem, StackIsSequence
<1>2. CASE stack # <<>>
  <2> DEFINE entry == open'[Len(stack)]
  <2>1. open' = [stack EXCEPT ![Len(stack)].items = Append(@, item)]
    BY <1>2 DEF PushItem
  <2>2. Len(stack) \in 1..Len(stack) /\ stack \in [1..Len(stack) -> S]
    BY <1>2
  <2>3. DOMAIN open' = 1..Len(stack)
    BY <2>1, <2>2
  <2>4. open' \in Seq(S \cup {entry}) /\ Len(open') = Len(stack)
    <3>1. \A i \in 1..Len(stack) : open'[i] \in S \cup {entry}
      BY <2>1, <2>2
    <3>2. open' = [i \in 1..Len(stack) |-> open'[i]]
      BY <2>1, <2>2
    <3> QED
      BY <2>2, <3>1, <3>2
  <2> QED
    BY <2>4 DEF StackIsSequence
<1> QED
  BY <1>1, <1>2

(* Closing the innermost component makes the stack one shorter. *)
LEMMA CloseShortens ==
  ASSUME StackIsSequence, open # <<>>, NEW item, PushItem(Outer, item)
  PROVE  Len(open') = Len(open) - 1 /\ Len(open) > 0 /\ StackIsSequence'
<1>1. PICK S : open \in Seq(S)
  BY DEF StackIsSequence
<1>2. Len(open) \in Nat /\ Len(open) > 0
  BY <1>1
<1>3. Outer \in Seq(S) /\ Len(Outer) = Len(open) - 1
  <2>1. \A i \in 1..(Len(open) - 1) : open[i] \in S
    BY <1>1, <1>2, ElementOfSeq
  <2> DEFINE n == Len(open) - 1
  <2>2. n \in Nat /\ 1..n \subseteq 1..Len(open)
    BY <1>2
  <2>3. /\ SubSeq(open, 1, n) \in Seq(S)
        /\ Len(SubSeq(open, 1, n)) = IF 1 <= n THEN n - 1 + 1 ELSE 0
    <3>1. 1 \in Int /\ n \in Int /\ \A i \in 1..n : open[i] \in S
      BY <2>1, <2>2
    <3> HIDE DEF n
    <3> QED
      BY <3>1, SubSeqProperties
  <2>4. SubSeq(open, 1, n) \in Seq(S) /\ Len(SubSeq(open, 1, n)) = n
    <3> HIDE DEF n
    <3> QED
      BY <2>2, <2>3
  <2> QED
    BY <2>4, Zenon DEF Outer
<1> QED
  BY <1>2, <1>3, PushKeepsDepth

(* The depth of the stack is a number. *)
LEMMA DepthIsNat == StackIsSequence => Len(open) \in Nat
BY DEF StackIsSequence

-------------------------------------------------------------------------------
(* The steps of the builder *)

(* A pending line stays one whatever token it takes. *)
LEMMA PendingLines ==
  ASSUME NEW line \in PendingLine
  PROVE  /\ BlankLine \in PendingLine /\ BlankLine.value = <<>>
         /\ \A w \in Name : /\ [line EXCEPT !.name = w] \in PendingLine
                            /\ [line EXCEPT !.name = w].value = line.value
         /\ \A p \in Parameter :
              /\ [line EXCEPT !.parameters = Append(@, p)] \in PendingLine
              /\ [line EXCEPT !.parameters = Append(@, p)].value = line.value
         /\ \A w \in ValueWord :
              [line EXCEPT !.value = Append(@, w)] \in PendingLine
<1>1. <<>> \in Seq(Parameter) /\ <<>> \in Seq(ValueWord)
  BY EmptySeq
<1>2. BlankLine \in PendingLine
  BY <1>1 DEF BlankLine, PendingLine
<1>3. /\ line.parameters \in Seq(Parameter) /\ line.value \in Seq(ValueWord)
      /\ line.name \in Name \cup {""}
  BY DEF PendingLine
<1>4. \A p \in Parameter : Append(line.parameters, p) \in Seq(Parameter)
  BY <1>3, AppendProperties
<1>5. \A w \in ValueWord : Append(line.value, w) \in Seq(ValueWord)
  BY <1>3, AppendProperties
<1>6. \A w \in Name : /\ [line EXCEPT !.name = w] \in PendingLine
                      /\ [line EXCEPT !.name = w].value = line.value
  BY <1>3 DEF PendingLine
<1>7. \A p \in Parameter :
        /\ [line EXCEPT !.parameters = Append(@, p)] \in PendingLine
        /\ [line EXCEPT !.parameters = Append(@, p)].value = line.value
  BY <1>3, <1>4 DEF PendingLine
<1>8. \A w \in ValueWord : [line EXCEPT !.value = Append(@, w)] \in PendingLine
  BY <1>3, <1>5 DEF PendingLine
<1> QED
  BY <1>2, <1>6, <1>7, <1>8 DEF BlankLine

(* Refusing drops the builder and accounts for the components it drops.     *)
LEMMA RefuseKeeps ==
  ASSUME InductiveInv, NEW why \in Refusal, NEW m \in Meter, Refuse(why, m),
         Solvent(m), meter.spent <= m.spent,
         m.count["depth"] = meter.count["depth"]
  PROVE  InductiveInv'
<1>1. Len(open) \in Nat
  BY DepthIsNat DEF InductiveInv
<1>2. TreeTypeOK'
  <2>1. pending \in PendingLine /\ abandoned \in Nat
    BY DEF InductiveInv, TreeTypeOK
  <2>2. BlankLine \in PendingLine
    BY <2>1, PendingLines
  <2>3. /\ meter' \in Meter /\ phase' = "idle" /\ pending' = BlankLine
        /\ open' = <<>> /\ faulty' = FALSE /\ outcome' \in Outcome
        /\ abandoned' \in Nat /\ dropped' \in Nat
        /\ documents' = documents /\ kept' = kept
    BY <1>1, <2>1 DEF Refuse, Outcome
  <2> QED
    BY <2>2, <2>3 DEF InductiveInv, TreeTypeOK, Reading
<1>3. open' = <<>> /\ StackIsSequence' /\ Len(open') = 0
  BY DEF Refuse, StackIsSequence
<1>4. DepthAccounted' /\ NestingWithinLimit' /\ RetainedWithinBudget'
  BY <1>1, <1>3, Constants
  DEF InductiveInv, TreeTypeOK, TreeInv, Refuse, DepthAccounted, NestingWithinLimit,
      RetainedWithinBudget, Ledgered
<1>5. Ledgered'
  BY DEF InductiveInv, TreeTypeOK, TreeInv, Refuse, Ledgered, Solvent, Meter
<1> QED
  BY <1>2, <1>3, <1>4, <1>5 DEF InductiveInv, TreeInv

(* The invariant lets a ledger be charged.                                  *)
LEMMA MeterSolvent ==
  InductiveInv => meter \in Meter /\ Solvent(meter) /\ meter.spent \in Nat
BY DEF InductiveInv, TreeTypeOK, TreeInv, Ledgered, Solvent, Meter

(* Octets paid for may be kept, whichever token brought them.               *)
LEMMA TokenKeeps ==
  ASSUME InductiveInv, NEW octets \in Nat, NEW m \in Meter,
         ~m.exhausted, Solvent(m), m.spent = meter.spent + octets,
         m.count = meter.count,
         meter' = m, kept' = kept + octets, phase' \in {"header", "value"},
         UNCHANGED <<open, root, faulty, outcome, documents, abandoned, dropped, lines>>,
         pending' \in PendingLine,
         phase' = "header" => pending'.value = <<>>
  PROVE  InductiveInv'
<1>1. TreeTypeOK'
  BY DEF InductiveInv, TreeTypeOK, Reading
<1>2. StackIsSequence'
  BY DEF InductiveInv, StackIsSequence
<1>3. TreeInv'
  BY MeterSolvent, Constants
  DEF InductiveInv, TreeTypeOK, TreeInv, DepthAccounted, NestingWithinLimit,
      RetainedWithinBudget, Ledgered, Solvent
<1> QED
  BY <1>1, <1>2, <1>3 DEF InductiveInv

LEMMA TakeNameKeeps ==
  ASSUME InductiveInv, NEW w \in Name, TakeName(w)
  PROVE  InductiveInv'
<1> DEFINE m == Charge(meter, NameOctets(w))
<1>1. NameOctets(w) \in Nat
  BY DEF NameOctets
<1>2. /\ m \in Meter /\ Solvent(m) /\ meter.spent <= m.spent
      /\ m.count = meter.count
      /\ Admits(meter, NameOctets(w)) =>
           ~m.exhausted /\ m.spent = meter.spent + NameOctets(w)
  BY <1>1, MeterSolvent, ChargeKeeps
<1>3. CASE Admits(meter, NameOctets(w))
  <2>1. pending' \in PendingLine /\ pending'.value = <<>>
    BY <1>3, PendingLines DEF TakeName, InductiveInv, TreeTypeOK
  <2> QED
    BY <1>1, <1>2, <1>3, <2>1, TokenKeeps DEF TakeName
<1>4. CASE ~Admits(meter, NameOctets(w))
  BY <1>2, <1>4, RefuseKeeps DEF TakeName, Refusal
<1> QED
  BY <1>3, <1>4

LEMMA TakeParameterKeeps ==
  ASSUME InductiveInv, NEW p \in Parameter, TakeParameter(p)
  PROVE  InductiveInv'
<1> DEFINE once == Charge(meter, 1)
           m == ChargeParameter(meter, p)
<1>1. /\ once \in Meter /\ Solvent(once) /\ meter.spent <= once.spent
      /\ once.count = meter.count
      /\ Admits(meter, 1) => ~once.exhausted /\ once.spent = meter.spent + 1
  BY MeterSolvent, ChargeKeeps
<1>2. /\ Charge(once, 1) \in Meter /\ Solvent(Charge(once, 1))
      /\ once.spent <= Charge(once, 1).spent
      /\ Charge(once, 1).count = once.count
      /\ Admits(once, 1) => /\ ~Charge(once, 1).exhausted
                            /\ Charge(once, 1).spent = once.spent + 1
  BY <1>1, ChargeKeeps
<1>3. /\ m \in Meter /\ Solvent(m) /\ meter.spent <= m.spent
      /\ m.count = meter.count
      /\ AdmitsParameter(meter, p) =>
           ~m.exhausted /\ m.spent = meter.spent + ParameterOctets(p)
  <2>0. meter.spent \in Nat /\ once.spent \in Nat /\ Charge(once, 1).spent \in Nat
    BY <1>1, <1>2, MeterSolvent DEF Meter
  <2>1. CASE p = "bare"
    BY <1>1, <2>0, <2>1 DEF ChargeParameter, AdmitsParameter, ParameterOctets
  <2>2. CASE p = "valued"
    BY <1>1, <1>2, <2>0, <2>2 DEF ChargeParameter, AdmitsParameter, ParameterOctets
  <2> QED
    BY <2>1, <2>2 DEF Parameter
<1>4. CASE AdmitsParameter(meter, p)
  <2>1. pending' \in PendingLine /\ pending'.value = <<>>
    BY <1>4, PendingLines DEF TakeParameter, InductiveInv, TreeTypeOK
  <2>2. ParameterOctets(p) \in Nat
    BY DEF ParameterOctets
  <2> QED
    BY <1>3, <1>4, <2>1, <2>2, TokenKeeps DEF TakeParameter
<1>5. CASE ~AdmitsParameter(meter, p)
  BY <1>3, <1>5, RefuseKeeps DEF TakeParameter, Refusal
<1> QED
  BY <1>4, <1>5

LEMMA TakeValueKeeps ==
  ASSUME InductiveInv, NEW w \in ValueWord, TakeValue(w)
  PROVE  InductiveInv'
<1> DEFINE m == Charge(meter, 1)
<1>1. /\ m \in Meter /\ Solvent(m) /\ meter.spent <= m.spent
      /\ m.count = meter.count
      /\ Admits(meter, 1) => ~m.exhausted /\ m.spent = meter.spent + 1
  BY MeterSolvent, ChargeKeeps
<1>2. CASE Len(pending.value) + 1 > MaxValueOctets
  BY <1>2, MeterSolvent, RefuseKeeps DEF TakeValue, Refusal
<1>3. CASE ~(Len(pending.value) + 1 > MaxValueOctets) /\ ~Admits(meter, 1)
  BY <1>1, <1>3, RefuseKeeps DEF TakeValue, Refusal
<1>4. CASE ~(Len(pending.value) + 1 > MaxValueOctets) /\ Admits(meter, 1)
  <2>1. pending' \in PendingLine
    BY <1>4, PendingLines DEF TakeValue, InductiveInv, TreeTypeOK
  <2> QED
    BY <1>1, <1>4, <2>1, TokenKeeps DEF TakeValue
<1> QED
  BY <1>2, <1>3, <1>4

-------------------------------------------------------------------------------
(* The end of a line *)

(* What charge_folds leaves when it admits the folds of a line.             *)
Paid(folds, m) ==
  /\ m \in Meter
  /\ m.count = meter.count
  /\ ~m.exhausted /\ Solvent(m)
  /\ m.spent = meter.spent + folds * FoldOctets

(* A line that is stored leaves the next one a blank pending line; what it  *)
(* did to the stack it did to the ledger's depth.                           *)
LEMMA LineKeeps ==
  ASSUME InductiveInv, NEW folds \in Nat, NEW paid, Paid(folds, paid),
         NEW m \in Meter, m.spent = paid.spent, m.exhausted = paid.exhausted,
         m.count["depth"] = Len(open') + abandoned,
         m.count["depth"] <= Limits["depth"],
         StackIsSequence', faulty' \in BOOLEAN,
         meter' = m, kept' = kept + folds * FoldOctets,
         phase' = "line", pending' = BlankLine,
         UNCHANGED <<outcome, documents, abandoned, dropped>>
  PROVE  InductiveInv'
<1>1. folds * FoldOctets \in Nat
  BY Constants
<1>2. pending \in PendingLine
  BY DEF InductiveInv, TreeTypeOK
<1>3. TreeTypeOK'
  BY <1>1, <1>2, PendingLines DEF InductiveInv, TreeTypeOK, Reading
<1>4. Len(open') \in Nat
  BY DEF StackIsSequence
<1>5. ~m.exhausted /\ m.spent <= Budget /\ m.spent = meter.spent + folds * FoldOctets
  BY DEF Paid, Solvent
<1>6. /\ kept \in Nat /\ kept <= meter.spent /\ meter.spent \in Nat
      /\ abandoned \in Nat /\ Limits["depth"] \in Nat /\ Budget \in Nat
  BY MeterSolvent, Constants DEF InductiveInv, TreeTypeOK, TreeInv, Ledgered
<1>7. TreeInv'
  BY <1>1, <1>4, <1>5, <1>6
  DEF TreeInv, DepthAccounted, NestingWithinLimit, RetainedWithinBudget, Ledgered
<1> QED
  BY <1>3, <1>7 DEF InductiveInv

(* What the refusal of a line that was paid for needs.                      *)
LEMMA PaidRefusalKeeps ==
  ASSUME InductiveInv, NEW folds \in Nat, NEW paid, Paid(folds, paid),
         NEW m \in Meter, m.spent = paid.spent, m.exhausted = paid.exhausted,
         m.count["depth"] = paid.count["depth"],
         NEW why \in Refusal, Refuse(why, m)
  PROVE  InductiveInv'
<1>1. folds * FoldOctets \in Nat
  BY Constants
<1>2. meter.spent <= m.spent /\ Solvent(m) /\ m.count["depth"] = meter.count["depth"]
  BY <1>1, MeterSolvent DEF Paid, Solvent
<1> QED
  BY <1>2, RefuseKeeps

LEMMA StorePropertyKeeps ==
  ASSUME InductiveInv, NEW layout \in Layout, NEW m, Paid(layout.folds, m),
         NEW fault \in BOOLEAN, StoreProperty(layout, m, fault)
  PROVE  InductiveInv'
<1> DEFINE counted == Count(m, "items", 1)
<1>1. layout.folds \in Nat /\ layout.clean \in BOOLEAN
  BY DEF Layout
<1>2. CASE ~Fits(m, "items", 1)
  BY <1>1, <1>2, PaidRefusalKeeps DEF StoreProperty, Paid, Refusal
<1>3. CASE Fits(m, "items", 1)
  <2>1. /\ counted \in Meter /\ counted.spent = m.spent
        /\ counted.exhausted = m.exhausted
        /\ counted.count = [m.count EXCEPT !["items"] = @ + 1]
    BY <1>3, CountKeeps, Constants DEF Paid
  <2>2. counted.count["depth"] = meter.count["depth"]
    BY <2>1, Constants DEF Paid, Meter
  <2>3. PushItem(open, Property(LineOf(layout))) /\ LineDone(layout, fault \/ ~layout.clean)
        /\ meter' = counted /\ kept' = kept + layout.folds * FoldOctets
    BY <1>3 DEF StoreProperty
  <2>4. PICK S : open \in Seq(S)
    BY DEF InductiveInv, StackIsSequence
  <2>5. Len(open') = Len(open) /\ StackIsSequence'
    BY <2>3, <2>4, PushKeepsDepth
  <2>6. faulty' \in BOOLEAN /\ phase' = "line" /\ pending' = BlankLine
        /\ UNCHANGED <<outcome, documents, abandoned, dropped>>
    BY <2>3 DEF LineDone
  <2>7. counted.count["depth"] = Len(open') + abandoned
        /\ counted.count["depth"] <= Limits["depth"]
    BY <2>2, <2>5 DEF InductiveInv, TreeInv, DepthAccounted, Ledgered
  <2> QED
    BY <1>1, <2>1, <2>3, <2>5, <2>6, <2>7, LineKeeps
<1> QED
  BY <1>2, <1>3

LEMMA OpenComponentKeeps ==
  ASSUME InductiveInv, NEW layout \in Layout, NEW m, Paid(layout.folds, m),
         OpenComponent(layout, m)
  PROVE  InductiveInv'
<1> DEFINE counted == Count(m, "items", 1)
           entered == Count(counted, "depth", 1)
           entry == [begin |-> BoundaryOf(layout), items |-> <<>>]
<1>1. layout.folds \in Nat /\ layout.clean \in BOOLEAN
  BY DEF Layout
<1>2. CASE ~Fits(m, "items", 1)
  BY <1>1, <1>2, PaidRefusalKeeps DEF OpenComponent, Paid, Refusal
<1>3. ASSUME Fits(m, "items", 1)
      PROVE  /\ counted \in Meter /\ counted.spent = m.spent
             /\ counted.exhausted = m.exhausted
             /\ counted.count["depth"] = m.count["depth"]
  <2>1. /\ counted \in Meter /\ counted.spent = m.spent
        /\ counted.exhausted = m.exhausted
        /\ counted.count = [m.count EXCEPT !["items"] = @ + 1]
    BY <1>3, CountKeeps, Constants DEF Paid
  <2> QED
    BY <2>1, Constants DEF Paid, Meter
<1>4. CASE Fits(m, "items", 1) /\ ~Fits(counted, "depth", 1)
  <2>1. Refuse("depth", counted)
    BY <1>4 DEF OpenComponent
  <2> QED
    BY <1>1, <1>3, <1>4, <2>1, PaidRefusalKeeps DEF Refusal
<1>5. CASE Fits(m, "items", 1) /\ Fits(counted, "depth", 1)
  <2>1. /\ entered \in Meter /\ entered.spent = counted.spent
        /\ entered.exhausted = counted.exhausted
        /\ entered.count = [counted.count EXCEPT !["depth"] = @ + 1]
        /\ entered.count["depth"] <= Limits["depth"]
    BY <1>3, <1>5, CountKeeps, Constants
  <2>2. entered.count["depth"] = meter.count["depth"] + 1
    BY <1>3, <1>5, <2>1, Constants DEF Paid, Meter
  <2>3. open' = Append(open, entry) /\ LineDone(layout, ~layout.clean)
        /\ meter' = entered /\ kept' = kept + layout.folds * FoldOctets
    BY <1>5 DEF OpenComponent
  <2>4. PICK S : open \in Seq(S)
    BY DEF InductiveInv, StackIsSequence
  <2>5. Len(open') = Len(open) + 1 /\ StackIsSequence'
    <3>1. open \in Seq(S \cup {entry}) /\ entry \in S \cup {entry}
      BY <2>4
    <3>2. open' \in Seq(S \cup {entry}) /\ Len(open') = Len(open) + 1
      <4> HIDE DEF entry
      <4> QED
        BY <2>3, <3>1, AppendProperties
    <3> QED
      BY <3>2 DEF StackIsSequence
  <2>6. faulty' \in BOOLEAN /\ phase' = "line" /\ pending' = BlankLine
        /\ UNCHANGED <<outcome, documents, abandoned, dropped>>
    BY <2>3 DEF LineDone
  <2>7. entered.count["depth"] = Len(open') + abandoned
    BY <2>2, <2>5, DepthIsNat DEF InductiveInv, TreeTypeOK, TreeInv, DepthAccounted
  <2>8. entered.spent = m.spent /\ entered.exhausted = m.exhausted
    BY <1>3, <1>5, <2>1
  <2> QED
    BY <1>1, <2>1, <2>3, <2>5, <2>6, <2>7, <2>8, LineKeeps
<1> QED
  BY <1>2, <1>4, <1>5

LEMMA CloseComponentKeeps ==
  ASSUME InductiveInv, NEW layout \in Layout, NEW m, Paid(layout.folds, m),
         CloseComponent(layout, m)
  PROVE  InductiveInv'
<1> DEFINE left == Leave(m, "depth", 1)
<1>1. layout.folds \in Nat /\ layout.clean \in BOOLEAN
  BY DEF Layout
<1>2. CASE ~Closes
  BY <1>2, StorePropertyKeeps DEF CloseComponent
<1>3. CASE Closes
  <2>1. PushItem(Outer, Component(Innermost, <<BoundaryOf(layout)>>))
        /\ LineDone(layout, ~layout.clean)
        /\ meter' = left /\ kept' = kept + layout.folds * FoldOctets
    BY <1>3 DEF CloseComponent
  <2>2. Len(open') = Len(open) - 1 /\ Len(open) > 0 /\ StackIsSequence'
    BY <1>3, <2>1, CloseShortens DEF Closes, InductiveInv
  <2>3. Len(open) \in Nat /\ abandoned \in Nat /\ Limits["depth"] \in Nat
    BY DepthIsNat, Constants DEF InductiveInv, TreeTypeOK
  <2>4. /\ m.count["depth"] = Len(open) + abandoned
        /\ m.count["depth"] <= Limits["depth"]
        /\ m.count["depth"] > 0
    BY <2>2, <2>3 DEF Paid, InductiveInv, TreeInv, DepthAccounted, Ledgered
  <2>5. /\ left \in Meter /\ left.spent = m.spent /\ left.exhausted = m.exhausted
        /\ left.count["depth"] = m.count["depth"] - 1
    BY <2>4, LeaveKeeps DEF Paid
  <2>6. left.count["depth"] = Len(open') + abandoned
        /\ left.count["depth"] <= Limits["depth"]
    BY <2>2, <2>3, <2>4, <2>5
  <2>7. faulty' \in BOOLEAN /\ phase' = "line" /\ pending' = BlankLine
        /\ UNCHANGED <<outcome, documents, abandoned, dropped>>
    BY <2>1 DEF LineDone
  <2> QED
    BY <1>1, <2>1, <2>2, <2>5, <2>6, <2>7, LineKeeps
<1> QED
  BY <1>2, <1>3

LEMMA EndOfLineKeeps ==
  ASSUME InductiveInv, NEW layout \in LayoutInput, EndOfLine(layout)
  PROVE  InductiveInv'
<1> DEFINE m == ChargeFolds(meter, layout.folds)
           kind == Classify(layout)
<1>1. layout \in Layout /\ layout.folds \in Nat
  <2>1. 0..MaxFolds \subseteq Nat
    BY TreeAssumption DEF TreeAssumption
  <2>2. /\ (IF "separator" \in Damage THEN BOOLEAN ELSE {TRUE}) \subseteq BOOLEAN
        /\ (IF "octets" \in Damage THEN BOOLEAN ELSE {TRUE}) \subseteq BOOLEAN
    OBVIOUS
  <2>3. LayoutInput \subseteq Layout
    BY <2>1, <2>2 DEF LayoutInput, Layout
  <2> QED
    BY <2>3 DEF Layout
<1>2. meter \in Meter /\ Solvent(meter) /\ ~meter.exhausted
  BY MeterSolvent DEF EndOfLine, InductiveInv, TreeInv, Ledgered
<1>3. /\ m \in Meter /\ m.count = meter.count /\ Solvent(m)
      /\ meter.spent <= m.spent
      /\ ~m.exhausted => m.spent = meter.spent + layout.folds * FoldOctets
  BY <1>1, <1>2, FoldsPaid
<1>4. CASE m.exhausted
  BY <1>3, <1>4, RefuseKeeps DEF EndOfLine, Refusal
<1>5. CASE ~m.exhausted
  <2>1. Paid(layout.folds, m)
    BY <1>3, <1>5 DEF Paid
  <2>2. CASE kind = "BEGIN"
    BY <1>1, <1>5, <2>1, <2>2, OpenComponentKeeps DEF EndOfLine
  <2>3. CASE kind = "END"
    BY <1>1, <1>5, <2>1, <2>3, CloseComponentKeeps DEF EndOfLine
  <2>4. CASE kind \notin {"BEGIN", "END"}
    <3>1. StoreProperty(layout, m, kind = "damaged")
      BY <1>5, <2>4 DEF EndOfLine
    <3>2. (kind = "damaged") \in BOOLEAN
      OBVIOUS
    <3> QED
      BY <1>1, <2>1, <3>1, <3>2, StorePropertyKeeps
  <2> QED
    BY <2>2, <2>3, <2>4
<1> QED
  BY <1>4, <1>5
-------------------------------------------------------------------------------
(* The beginning and the end of a document *)

LEMMA InitHolds ==
  ASSUME TreeInit
  PROVE  InductiveInv
<1>1. BlankLine \in PendingLine
  BY EmptySeq DEF BlankLine, PendingLine
<1>2. FreshMeter \in Meter /\ FreshMeter.count["depth"] = 0
      /\ FreshMeter.spent = 0 /\ FreshMeter.exhausted = FALSE
  BY Constants DEF FreshMeter, Meter
<1>3. TreeTypeOK
  BY <1>1, <1>2 DEF TreeInit, TreeTypeOK, Reading, Outcome
<1>4. Len(open) = 0 /\ StackIsSequence
  BY EmptySeq DEF TreeInit, StackIsSequence
<1>5. TreeInv
  BY <1>2, <1>4, Constants
  DEF TreeInit, TreeInv, RetainedWithinBudget, NestingWithinLimit, DepthAccounted, Ledgered
<1> QED
  BY <1>3, <1>4, <1>5 DEF InductiveInv

(* A step that leaves the ledger, the stack and what is kept alone.         *)
LEMMA QuietStepKeeps ==
  ASSUME InductiveInv, TreeTypeOK', UNCHANGED <<meter, open, abandoned, kept>>,
         phase' \notin {"header", "value"}
  PROVE  InductiveInv'
BY DEF InductiveInv, TreeInv, RetainedWithinBudget, NestingWithinLimit,
       DepthAccounted, Ledgered, StackIsSequence

LEMMA BeginDocumentKeeps ==
  ASSUME InductiveInv, BeginDocument
  PROVE  InductiveInv'
<1>1. TreeTypeOK'
  BY DEF InductiveInv, TreeTypeOK, BeginDocument, Reading, Outcome
<1> QED
  BY <1>1, QuietStepKeeps DEF BeginDocument

LEMMA SourceFailsKeeps ==
  ASSUME InductiveInv, SourceFails
  PROVE  InductiveInv'
BY MeterSolvent, RefuseKeeps DEF SourceFails, Refusal

LEMMA EndOfInputKeeps ==
  ASSUME InductiveInv, EndOfInput
  PROVE  InductiveInv'
<1>1. TreeTypeOK'
  BY DEF InductiveInv, TreeTypeOK, EndOfInput, ghosts, builder, Reading
<1> QED
  BY <1>1, QuietStepKeeps DEF EndOfInput, ghosts, builder

LEMMA CloseUnclosedKeeps ==
  ASSUME InductiveInv, CloseUnclosed
  PROVE  InductiveInv'
<1> DEFINE left == Leave(meter, "depth", 1)
<1>1. Len(open') = Len(open) - 1 /\ Len(open) > 0 /\ StackIsSequence'
  BY CloseShortens DEF CloseUnclosed, InductiveInv
<1>2. Len(open) \in Nat /\ abandoned \in Nat /\ Limits["depth"] \in Nat
  BY DepthIsNat, Constants DEF InductiveInv, TreeTypeOK
<1>3. /\ meter.count["depth"] = Len(open) + abandoned
      /\ meter.count["depth"] <= Limits["depth"]
      /\ meter.count["depth"] > 0
  BY <1>1, <1>2 DEF InductiveInv, TreeInv, DepthAccounted, Ledgered
<1>4. /\ left \in Meter /\ left.spent = meter.spent
      /\ left.exhausted = meter.exhausted
      /\ left.count["depth"] = meter.count["depth"] - 1
  BY <1>3, MeterSolvent, LeaveKeeps
<1>5. TreeTypeOK'
  BY <1>4 DEF InductiveInv, TreeTypeOK, CloseUnclosed, ghosts
<1>6. TreeInv'
  BY <1>1, <1>2, <1>3, <1>4
  DEF InductiveInv, TreeInv, CloseUnclosed, ghosts, RetainedWithinBudget,
      NestingWithinLimit, DepthAccounted, Ledgered
<1> QED
  BY <1>1, <1>5, <1>6 DEF InductiveInv

LEMMA JudgeKeeps ==
  ASSUME InductiveInv, NEW schema \in BOOLEAN, Judge(schema)
  PROVE  InductiveInv'
<1>1. TreeTypeOK'
  BY DEF InductiveInv, TreeTypeOK, Judge, Reading, Outcome
<1> QED
  BY <1>1, QuietStepKeeps DEF Judge

-------------------------------------------------------------------------------
(* The theorems *)

LEMMA StepKeeps ==
  ASSUME InductiveInv, [ParseStep]_treeVars
  PROVE  InductiveInv'
<1>1. CASE BeginDocument
  BY <1>1, BeginDocumentKeeps
<1>2. CASE SourceFails
  BY <1>2, SourceFailsKeeps
<1>3. CASE \E w \in Name : TakeName(w)
  BY <1>3, TakeNameKeeps
<1>4. CASE \E p \in Parameter : TakeParameter(p)
  BY <1>4, TakeParameterKeeps
<1>5. CASE \E w \in ValueWord : TakeValue(w)
  BY <1>5, TakeValueKeeps
<1>6. CASE \E layout \in LayoutInput : EndOfLine(layout)
  BY <1>6, EndOfLineKeeps
<1>7. CASE EndOfInput
  BY <1>7, EndOfInputKeeps
<1>8. CASE CloseUnclosed
  BY <1>8, CloseUnclosedKeeps
<1>9. CASE \E schema \in BOOLEAN : Judge(schema)
  BY <1>9, JudgeKeeps
<1>10. CASE UNCHANGED treeVars
  BY <1>10
  DEF treeVars, builder, ghosts, InductiveInv, TreeTypeOK, TreeInv, StackIsSequence,
      RetainedWithinBudget, NestingWithinLimit, DepthAccounted, Ledgered
<1> QED
  BY <1>1, <1>2, <1>3, <1>4, <1>5, <1>6, <1>7, <1>8, <1>9, <1>10 DEF ParseStep

(* The inductive invariant holds of every reachable state. *)
LEMMA Invariance == TreeSpec => []InductiveInv
<1>1. TreeInit => InductiveInv
  BY InitHolds
<1>2. InductiveInv /\ [ParseStep]_treeVars => InductiveInv'
  BY StepKeeps
<1> QED
  BY <1>1, <1>2, PTL DEF TreeSpec

(* TreeBuilder::pending is taken by every line that ends, so nothing of one *)
(* line is ever read as part of the next; every field has its type.         *)
THEOREM TreeTypeCorrect == TreeSpec => []TreeTypeOK
<1>1. InductiveInv => TreeTypeOK
  BY DEF InductiveInv
<1> QED
  BY <1>1, Invariance, PTL

(* The strengthening under which the ledger bounds what is kept.            *)
THEOREM TreeInvCorrect == TreeSpec => []TreeInv
<1>1. InductiveInv => TreeInv
  BY DEF InductiveInv
<1> QED
  BY <1>1, Invariance, PTL

(* Meter::charge comes before the octets are kept, in every arm of the      *)
(* builder: however many documents the session reads, of whatever shape and *)
(* however they end, the builder never keeps more than the budget.          *)
THEOREM RetainedWithinBudgetHolds == TreeSpec => []RetainedWithinBudget
<1>1. InductiveInv => RetainedWithinBudget
  BY DEF InductiveInv, TreeInv
<1> QED
  BY <1>1, Invariance, PTL

(* TreeBuilder::open is never longer than Limits::max_component_depth, also *)
(* for the second and every later document of a session.                    *)
THEOREM NestingWithinLimitHolds == TreeSpec => []NestingWithinLimit
<1>1. InductiveInv => NestingWithinLimit
  BY DEF InductiveInv, TreeInv
<1> QED
  BY <1>1, Invariance, PTL

(* Meter::enter and Meter::leave are paired on every path except refusals,  *)
(* whose open components stay on the ledger, to the last one.               *)
THEOREM DepthAccountedHolds == TreeSpec => []DepthAccounted
<1>1. InductiveInv => DepthAccounted
  BY DEF InductiveInv, TreeInv
<1> QED
  BY <1>1, Invariance, PTL

===============================================================================
