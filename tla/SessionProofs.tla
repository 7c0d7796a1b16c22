----------------------------- MODULE SessionProofs -----------------------------
(***************************************************************************)
(* For every policy, every budget and any number of documents, imports,    *)
(* query bodies and searches on one ledger: what CalendarTreeProofs shows  *)
(* of documents alone, that exhaustion is final and reported, and that an  *)
(* operation that does not fail leaves nothing of its own on the ledger.   *)
(***************************************************************************)
EXTENDS Session, CalendarTreeProofs

(* What the proofs use of the dimensions.                                   *)
LEMMA Dimensions ==
  /\ Scoped \subseteq Dimension /\ Latching \subseteq Dimension /\ Aggregate \subseteq Dimension
  /\ "depth" \in Dimension /\ "elementDepth" \in Dimension /\ "bindings" \in Dimension
  /\ "candidates" \in Dimension /\ "occurrences" \in Dimension /\ "elements" \in Dimension
  /\ "candidates" \in Latching /\ "occurrences" \in Latching /\ "elements" \in Aggregate
  /\ {"rdates", "exdates", "overrides"} \subseteq Aggregate
  /\ Scoped \cap Latching = {} /\ Aggregate \cap Latching = {} /\ Scoped \cap Aggregate = {}
  /\ "elementDepth" \in Scoped /\ "bindings" \in Scoped
  /\ \A d \in Dimension : /\ Limits[d] \in Nat /\ Top[d] \in Nat /\ Limits[d] <= Top[d]
                          /\ d \notin Latching => Limits[d] < Top[d]
<1>1. /\ Scoped \subseteq Dimension /\ Latching \subseteq Dimension /\ Aggregate \subseteq Dimension
      /\ "depth" \in Dimension /\ "elementDepth" \in Dimension /\ "bindings" \in Dimension
      /\ "candidates" \in Dimension /\ "occurrences" \in Dimension /\ "elements" \in Dimension
      /\ "candidates" \in Latching /\ "occurrences" \in Latching /\ "elements" \in Aggregate
      /\ {"rdates", "exdates", "overrides"} \subseteq Aggregate
      /\ Scoped \cap Latching = {} /\ Aggregate \cap Latching = {} /\ Scoped \cap Aggregate = {}
      /\ "elementDepth" \in Scoped /\ "bindings" \in Scoped
  BY DEF Dimension, Scoped, Latching, Aggregate
<1>2. \A d \in Dimension : /\ Limits[d] \in Nat /\ Top[d] \in Nat /\ Limits[d] <= Top[d]
                           /\ d # "occurrences" => Limits[d] < Top[d]
  BY LedgerAssumption DEF LedgerAssumption
<1> QED
  BY <1>1, <1>2

-------------------------------------------------------------------------------
(* The ledger, whatever is charged                                          *)

(* A ledger as every operation finds it.                                    *)
Sound(m) ==
  /\ m \in Meter
  /\ Solvent(m)
  /\ m.count["bindings"] <= Limits["bindings"]

(* What no operation but a parse does to the ledger `m' it finds: it takes  *)
(* no octet back, touches no component's depth, and once `m' is exhausted   *)
(* spends nothing more.                                                     *)
Follows(m, after) ==
  /\ Sound(after)
  /\ m.spent <= after.spent
  /\ after.count["depth"] = m.count["depth"]
  /\ m.exhausted => after.exhausted /\ after.spent = m.spent

(* The scopes of a query body are as they were.                             *)
KeepsScopes(m, after) ==
  /\ after.count["elementDepth"] = m.count["elementDepth"]
  /\ after.count["bindings"] = m.count["bindings"]

LEMMA FollowsItself ==
  ASSUME NEW m, Sound(m)
  PROVE  Follows(m, m) /\ KeepsScopes(m, m)
BY DEF Sound, Follows, KeepsScopes, Meter

LEMMA FollowsOn ==
  ASSUME NEW m, Sound(m), NEW between, Follows(m, between),
         NEW after, Follows(between, after)
  PROVE  Follows(m, after)
<1>1. m.spent \in Nat /\ between.spent \in Nat /\ after.spent \in Nat
  BY DEF Sound, Follows, Meter
<1> QED
  BY <1>1 DEF Follows

(* The octet budget.                                                        *)
LEMMA ChargeFollows ==
  ASSUME NEW m, Sound(m), NEW n \in Nat
  PROVE  /\ Follows(m, Charge(m, n))
         /\ Charge(m, n).count = m.count
         /\ ~Admits(m, n) => Charge(m, n).exhausted
         /\ Admits(m, n) => Charge(m, n).spent = m.spent + n
<1>1. m \in Meter /\ Solvent(m)
  BY Zenon DEF Sound
<1>2. m.exhausted => Charge(m, n) = m
  BY <1>1, ChargeCases
<1>3. /\ Charge(m, n) \in Meter /\ Charge(m, n).count = m.count /\ Solvent(Charge(m, n))
      /\ m.spent <= Charge(m, n).spent
      /\ Admits(m, n) => Charge(m, n).spent = m.spent + n
      /\ ~Admits(m, n) => Charge(m, n).exhausted
  BY <1>1, ChargeKeeps
<1> QED
  BY <1>2, <1>3, Zenon DEF Follows, Sound

(* A counter that admits the charge.                                        *)
LEMMA CountFits ==
  ASSUME NEW m \in Meter, NEW d \in Dimension, NEW n \in Nat, Fits(m, d, n)
  PROVE  /\ Count(m, d, n) \in Meter
         /\ Count(m, d, n).spent = m.spent
         /\ Count(m, d, n).exhausted = m.exhausted
         /\ \A e \in Dimension : e # d => Count(m, d, n).count[e] = m.count[e]
         /\ Count(m, d, n).count[d] <= Limits[d]
         /\ d \notin Latching => Count(m, d, n).count[d] = m.count[d] + n
<1> DEFINE sum == SaturatingAdd(m.count[d], n, Top[d])
<1>1. m.count \in [Dimension -> Nat] /\ m.count[d] \in Nat
  BY DEF Meter
<1>2. Limits[d] \in Nat /\ Top[d] \in Nat /\ (d \notin Latching => Limits[d] < Top[d])
  BY Dimensions
<1>3. sum \in Nat /\ sum <= Limits[d] /\ (d \notin Latching => sum = m.count[d] + n)
  BY <1>1, <1>2 DEF Fits, SaturatingAdd
<1>4. Count(m, d, n) = [m EXCEPT !.count[d] = sum]
  BY DEF Count
<1> HIDE DEF sum
<1> QED
  BY <1>1, <1>3, <1>4 DEF Meter

(* A counter that refuses it: only some of them latch.                      *)
LEMMA CountRefused ==
  ASSUME NEW m \in Meter, NEW d \in Dimension, NEW n \in Nat, ~Fits(m, d, n)
  PROVE  /\ Count(m, d, n) \in Meter
         /\ Count(m, d, n).spent = m.spent
         /\ Count(m, d, n).count = m.count
         /\ Count(m, d, n).exhausted = IF d \in Latching THEN TRUE ELSE m.exhausted
<1>1. CASE d \in Latching
  <2>1. (m.exhausted \/ d \in Latching) = TRUE
    BY <1>1
  <2>2. Count(m, d, n) = [m EXCEPT !.exhausted = TRUE]
    BY <2>1 DEF Count
  <2> QED
    BY <1>1, <2>2 DEF Meter
<1>2. CASE d \notin Latching
  <2>1. m.exhausted \in BOOLEAN
    BY DEF Meter
  <2>2. (m.exhausted \/ d \in Latching) = m.exhausted
    BY <1>2, <2>1
  <2>3. Count(m, d, n) = [m EXCEPT !.exhausted = m.exhausted]
    BY <2>2 DEF Count
  <2> QED
    BY <1>2, <2>3 DEF Meter
<1> QED
  BY <1>1, <1>2

(* Either way the ledger goes on; only the counter of that dimension moves. *)
LEMMA CountFollows ==
  ASSUME NEW m, Sound(m), NEW d \in Dimension, d # "depth", NEW n \in Nat
  PROVE  /\ Follows(m, Count(m, d, n))
         /\ \A e \in Dimension : e # d => Count(m, d, n).count[e] = m.count[e]
         /\ d \in Latching /\ ~Fits(m, d, n) => Count(m, d, n).exhausted
<1>1. m \in Meter /\ Solvent(m) /\ m.count["bindings"] <= Limits["bindings"]
  BY DEF Sound
<1>2. m.spent \in Nat /\ m.count \in [Dimension -> Nat]
  BY <1>1 DEF Meter
<1>3. CASE Fits(m, d, n)
  <2>1. /\ Count(m, d, n) \in Meter
        /\ Count(m, d, n).spent = m.spent
        /\ Count(m, d, n).exhausted = m.exhausted
        /\ \A e \in Dimension : e # d => Count(m, d, n).count[e] = m.count[e]
        /\ Count(m, d, n).count[d] <= Limits[d]
    BY <1>1, <1>3, CountFits
  <2>2. Count(m, d, n).count["bindings"] <= Limits["bindings"]
    BY <1>1, <2>1, Dimensions
  <2> QED
    BY <1>1, <1>2, <1>3, <2>1, <2>2, Dimensions DEF Follows, Sound, Solvent
<1>4. CASE ~Fits(m, d, n)
  <2>1. /\ Count(m, d, n) \in Meter
        /\ Count(m, d, n).spent = m.spent
        /\ Count(m, d, n).count = m.count
        /\ Count(m, d, n).exhausted = IF d \in Latching THEN TRUE ELSE m.exhausted
    BY <1>1, <1>4, CountRefused
  <2> QED
    BY <1>1, <1>2, <2>1 DEF Follows, Sound, Solvent
<1> QED
  BY <1>3, <1>4

(* Giving back a scope takes no more than was counted.                      *)
LEMMA LeaveFollows ==
  ASSUME NEW m, Sound(m), NEW d \in {"elementDepth", "bindings"}, NEW n \in Nat
  PROVE  /\ Follows(m, Leave(m, d, n))
         /\ \A e \in Dimension : e # d => Leave(m, d, n).count[e] = m.count[e]
         /\ n <= m.count[d] => Leave(m, d, n).count[d] = m.count[d] - n
<1> DEFINE less == SaturatingSub(m.count[d], n)
<1>1. m \in Meter /\ m.spent \in Nat /\ d \in Dimension /\ m.count \in [Dimension -> Nat]
      /\ m.count["bindings"] \in Nat /\ m.count[d] \in Nat /\ d # "depth"
      /\ "depth" \in Dimension /\ "bindings" \in Dimension
  BY Dimensions DEF Sound, Meter
<1>2. less \in Nat /\ less <= m.count[d] /\ (n <= m.count[d] => less = m.count[d] - n)
  BY <1>1 DEF SaturatingSub
<1>3. Leave(m, d, n) = [m EXCEPT !.count[d] = less]
  BY DEF Leave
<1> HIDE DEF less
<1>4. /\ Leave(m, d, n) \in Meter
      /\ Leave(m, d, n).spent = m.spent
      /\ Leave(m, d, n).exhausted = m.exhausted
      /\ Leave(m, d, n).count = [m.count EXCEPT ![d] = less]
  BY <1>1, <1>2, <1>3 DEF Meter
<1>5. Leave(m, d, n).count["bindings"] <= Limits["bindings"]
  <2>1. Limits["bindings"] \in Nat
    BY Dimensions
  <2>2. m.count["bindings"] <= Limits["bindings"]
    BY DEF Sound
  <2> QED
    BY <1>1, <1>2, <1>4, <2>1, <2>2
<1> QED
  BY <1>1, <1>2, <1>4, <1>5 DEF Follows, Sound, Solvent

LEMMA OpenPeriodFollows ==
  ASSUME NEW m, Sound(m)
  PROVE  Follows(m, OpenPeriod(m)) /\ KeepsScopes(m, OpenPeriod(m))
<1>1. m \in Meter /\ m.spent \in Nat /\ m.count \in [Dimension -> Nat]
  BY DEF Sound, Meter
<1>2. /\ OpenPeriod(m) \in Meter
      /\ OpenPeriod(m).spent = m.spent
      /\ OpenPeriod(m).exhausted = m.exhausted
      /\ OpenPeriod(m).count = [m.count EXCEPT !["candidates"] = 0]
  BY <1>1, Dimensions DEF OpenPeriod, Meter
<1> QED
  BY <1>1, <1>2, Dimensions DEF Follows, KeepsScopes, Sound, Solvent

(* A candidate is refused by one of two bounds, and either of them latches. *)
LEMMA CandidateFollows ==
  ASSUME NEW m, Sound(m)
  PROVE  /\ Follows(m, ChargeCandidate(m)) /\ KeepsScopes(m, ChargeCandidate(m))
         /\ ~AdmitsCandidate(m) => ChargeCandidate(m).exhausted
<1> DEFINE counted == Count(m, "candidates", 1)
           charged == Charge(counted, 1)
           all == [charged EXCEPT !.candidatesCharged = @ + 1]
<1> HIDE DEF charged, all
<1>1. /\ Follows(m, counted) /\ KeepsScopes(m, counted) /\ Sound(counted)
      /\ ~Fits(m, "candidates", 1) => counted.exhausted
  <2>1. /\ "candidates" \in Dimension /\ "candidates" # "depth" /\ "candidates" \in Latching
        /\ "elementDepth" \in Dimension /\ "bindings" \in Dimension
    BY Dimensions
  <2>2. /\ Follows(m, counted)
        /\ \A e \in Dimension : e # "candidates" => counted.count[e] = m.count[e]
        /\ ~Fits(m, "candidates", 1) => counted.exhausted
    BY <2>1, CountFollows
  <2> QED
    BY <2>1, <2>2 DEF KeepsScopes, Follows
<1>2. /\ Follows(counted, charged) /\ charged.count = counted.count
      /\ ~Admits(counted, 1) => charged.exhausted
  BY <1>1, ChargeFollows DEF charged
<1>3. Follows(m, charged) /\ KeepsScopes(m, charged)
  BY <1>1, <1>2, FollowsOn DEF KeepsScopes
<1>4. charged \in Meter
  BY <1>3 DEF Follows, Sound
<1>5. /\ all \in Meter /\ all.spent = charged.spent /\ all.count = charged.count
      /\ all.exhausted = charged.exhausted
  BY <1>4 DEF Meter, all
<1>6. Follows(m, all) /\ KeepsScopes(m, all)
  BY <1>3, <1>5 DEF Follows, KeepsScopes, Sound, Solvent
<1>7. Fits(m, "candidates", 1) => (Admits(m, 1) <=> Admits(counted, 1))
  <2>1. Fits(m, "candidates", 1) => counted.spent = m.spent /\ counted.exhausted = m.exhausted
    BY CountFits, Dimensions DEF Sound
  <2> QED
    BY <2>1 DEF Admits
<1>8. ChargeCandidate(m) = IF ~Fits(m, "candidates", 1) THEN counted
                           ELSE IF ~Admits(counted, 1) THEN charged ELSE all
  BY DEF ChargeCandidate, charged, all
<1> HIDE DEF counted
<1> QED
  BY <1>1, <1>2, <1>3, <1>6, <1>7, <1>8 DEF AdmitsCandidate

(* The octets of a start tag, and the prefixes it declares.                 *)
LEMMA ChargeEachFollows ==
  ASSUME NEW m, Sound(m), NEW n \in Nat
  PROVE  Follows(m, ChargeEach(m, n)) /\ ChargeEach(m, n).count = m.count
<1>1. m.spent \in Nat
  BY DEF Sound, Meter
<1>2. ~m.exhausted => Budget + 1 - m.spent \in Nat
  BY <1>1, Constants DEF Sound, Solvent
<1> QED
  BY <1>2, ChargeFollows DEF ChargeEach

LEMMA BindEachFollows ==
  ASSUME NEW m, Sound(m), NEW n \in Nat
  PROVE  /\ Follows(m, BindEach(m, n))
         /\ BindEach(m, n).count["elementDepth"] = m.count["elementDepth"]
         /\ Fits(m, "bindings", n) =>
              BindEach(m, n).count["bindings"] = m.count["bindings"] + n
<1> DEFINE room == Limits["bindings"] - m.count["bindings"]
           bound == IF n <= room THEN n ELSE room
<1>1. m \in Meter /\ m.count["bindings"] \in Nat /\ Limits["bindings"] \in Nat
      /\ Top["bindings"] \in Nat /\ Limits["bindings"] < Top["bindings"]
  BY Dimensions DEF Sound, Meter
<1>2. room \in Nat /\ bound \in Nat
  BY <1>1 DEF Sound
<1>3. Fits(m, "bindings", n) => bound = n
  BY <1>1, <1>2 DEF Fits, SaturatingAdd
<1>4. BindEach(m, n) = Count(m, "bindings", bound)
  BY DEF BindEach
<1> HIDE DEF room, bound
<1>5. /\ Follows(m, Count(m, "bindings", bound))
      /\ Count(m, "bindings", bound).count["elementDepth"] = m.count["elementDepth"]
  BY <1>2, CountFollows, Dimensions
<1>6. Fits(m, "bindings", n) =>
        Count(m, "bindings", bound).count["bindings"] = m.count["bindings"] + n
  BY <1>1, <1>3, CountFits, Dimensions
<1> QED
  BY <1>4, <1>5, <1>6

-------------------------------------------------------------------------------
(* The invariant *)

(* Where a session stands while it reads a query body or searches.          *)
Elsewhere == {"query", "epilog", "search"}

(* Between two documents nothing of the builder is left but the ledger.     *)
AtRest ==
  /\ meter \in Meter /\ Solvent(meter)
  /\ pending = BlankLine /\ open = <<>>
  /\ faulty \in BOOLEAN /\ outcome \in Outcome
  /\ documents \in Nat /\ abandoned \in Nat /\ dropped \in Nat /\ kept \in Nat
  /\ kept <= Budget /\ kept <= meter.spent
  /\ meter.count["depth"] = abandoned
  /\ meter.count["depth"] <= Limits["depth"]

(* The prefixes of the first i elements of a stack, for every i.            *)
PrefixSums(f, stack) ==
  /\ f \in [0..Len(stack) -> Nat]
  /\ f[0] = 0
  /\ \A i \in 1..Len(stack) : f[i] = f[i - 1] + stack[i]

(* The ledger counts the elements on the stack, and their prefixes.         *)
ScopesCounted ==
  /\ abandoned = 0
  /\ meter.count["elementDepth"] = Len(elements)
  /\ \E f : PrefixSums(f, elements) /\ f[Len(elements)] = meter.count["bindings"]

(* ScopesAreLeft, CutSearchIsReported and the invariants of the tree are    *)
(* not inductive: what an element gives back must be what it took, and a    *)
(* parse must find the builder as empty as the last document left it.       *)
SessionInv ==
  /\ phase \in Elsewhere => AtRest
  /\ phase \notin Elsewhere => InductiveInv
  /\ Sound(meter)
  /\ elements \in Seq(Nat)
  /\ phase # "query" => elements = <<>>
  /\ CutSearchIsReported
  /\ ~failed => ScopesCounted

(* At rest and idle is what the proofs about documents start from.          *)
LEMMA IdleIsAtRest ==
  ASSUME phase = "idle"
  PROVE  AtRest <=> InductiveInv
<1>1. AtRest => InductiveInv
  <2>1. AtRest => TreeTypeOK
    <3>1. BlankLine \in PendingLine
      BY EmptySeq DEF BlankLine, PendingLine
    <3> QED
      BY <3>1 DEF AtRest, TreeTypeOK, Reading
  <2>2. AtRest => Len(open) = 0 /\ StackIsSequence
    BY EmptySeq DEF AtRest, StackIsSequence
  <2>3. AtRest => TreeInv
    BY <2>2, Constants
    DEF AtRest, TreeInv, RetainedWithinBudget, NestingWithinLimit, DepthAccounted, Ledgered,
        Solvent
  <2> QED
    BY <2>1, <2>2, <2>3 DEF InductiveInv
<1>2. InductiveInv => AtRest
  <2>1. InductiveInv => open = <<>> /\ Len(open) = 0 /\ pending = BlankLine
    BY DEF InductiveInv, TreeTypeOK
  <2> QED
    BY <2>1
    DEF AtRest, InductiveInv, TreeTypeOK, TreeInv, RetainedWithinBudget, DepthAccounted,
        Ledgered, Solvent
<1> QED
  BY <1>1, <1>2

LEMMA NoParseIsAtRest ==
  ASSUME SessionInv, phase \in Elsewhere \cup {"idle"}
  PROVE  AtRest
<1>1. CASE phase \in Elsewhere
  BY <1>1 DEF SessionInv
<1>2. CASE phase = "idle"
  <2>1. phase \notin Elsewhere
    BY <1>2 DEF Elsewhere
  <2> QED
    BY <1>2, <2>1, IdleIsAtRest DEF SessionInv
<1> QED
  BY <1>1, <1>2

-------------------------------------------------------------------------------
(* The scopes of a query body *)

(* With an empty stack the ledger holds nothing.                            *)
LEMMA EmptyScopes ==
  ASSUME elements = <<>>
  PROVE  ScopesCounted <=> /\ abandoned = 0
                           /\ meter.count["elementDepth"] = 0
                           /\ meter.count["bindings"] = 0
<1>1. Len(elements) = 0
  OBVIOUS
<1>2. ScopesCounted => meter.count["bindings"] = 0
  BY <1>1 DEF ScopesCounted, PrefixSums
<1>3. ASSUME meter.count["bindings"] = 0
      PROVE  \E f : PrefixSums(f, elements) /\ f[Len(elements)] = meter.count["bindings"]
  <2> DEFINE f == [i \in 0..0 |-> 0]
  <2>1. PrefixSums(f, elements) /\ f[Len(elements)] = meter.count["bindings"]
    BY <1>1, <1>3 DEF PrefixSums
  <2> QED
    BY <2>1
<1> QED
  BY <1>1, <1>2, <1>3 DEF ScopesCounted

LEMMA ScopesStay ==
  ASSUME ScopesCounted, elements' = elements, abandoned' = abandoned,
         KeepsScopes(meter, meter')
  PROVE  ScopesCounted'
BY DEF ScopesCounted, PrefixSums, KeepsScopes

(* An element that is pushed counts what it declares.                       *)
LEMMA ScopesPushed ==
  ASSUME ScopesCounted, elements \in Seq(Nat), NEW n \in Nat,
         elements' = Append(elements, n), abandoned' = abandoned,
         meter'.count["elementDepth"] = meter.count["elementDepth"] + 1,
         meter'.count["bindings"] = meter.count["bindings"] + n
  PROVE  ScopesCounted'
<1>1. PICK f : PrefixSums(f, elements) /\ f[Len(elements)] = meter.count["bindings"]
  BY DEF ScopesCounted
<1> DEFINE len == Len(elements)
           g == [i \in 0..(len + 1) |-> IF i = len + 1 THEN f[len] + n ELSE f[i]]
<1>2. len \in Nat /\ f[len] \in Nat
  BY <1>1 DEF PrefixSums
<1>3. Len(elements') = len + 1 /\ elements'[len + 1] = n
      /\ \A i \in 1..len : elements'[i] = elements[i]
  BY AppendProperties
<1>4. /\ f \in [0..len -> Nat] /\ f[0] = 0
      /\ \A i \in 1..len : f[i] = f[i - 1] + elements[i]
  BY <1>1 DEF PrefixSums
<1> HIDE DEF len
<1>5. g \in [0..(len + 1) -> Nat] /\ g[0] = 0
  BY <1>2, <1>4
<1>6. \A i \in 1..(len + 1) : g[i] = g[i - 1] + elements'[i]
  <2> SUFFICES ASSUME NEW i \in 1..(len + 1) PROVE g[i] = g[i - 1] + elements'[i]
    OBVIOUS
  <2>1. CASE i = len + 1
    BY <1>2, <1>3, <2>1
  <2>2. CASE i # len + 1
    <3>1. i \in 1..len /\ i \in 0..(len + 1) /\ i - 1 \in 0..(len + 1) /\ i - 1 # len + 1
      BY <1>2, <2>2
    <3> QED
      BY <1>3, <1>4, <2>2, <3>1
  <2> QED
    BY <2>1, <2>2
<1>7. g[len + 1] = meter'.count["bindings"]
  BY <1>1, <1>2 DEF len
<1>8. PrefixSums(g, elements') /\ g[Len(elements')] = meter'.count["bindings"]
  <2> HIDE DEF g
  <2> QED
    BY <1>3, <1>5, <1>6, <1>7 DEF PrefixSums
<1>9. abandoned' = 0 /\ meter'.count["elementDepth"] = Len(elements')
  BY <1>3 DEF ScopesCounted, len
<1> QED
  BY <1>8, <1>9 DEF ScopesCounted

(* Whatever an element declared, the ledger still counts when it closes.    *)
LEMMA InnermostCounted ==
  ASSUME ScopesCounted, elements \in Seq(Nat), elements # <<>>
  PROVE  /\ Len(elements) \in Nat /\ Len(elements) >= 1
         /\ elements[Len(elements)] \in Nat
         /\ elements[Len(elements)] <= meter.count["bindings"]
<1>1. PICK f : PrefixSums(f, elements) /\ f[Len(elements)] = meter.count["bindings"]
  BY DEF ScopesCounted
<1>2. Len(elements) \in Nat /\ Len(elements) >= 1 /\ elements[Len(elements)] \in Nat
  BY EmptySeq
<1>3. f[Len(elements) - 1] \in Nat
      /\ f[Len(elements)] = f[Len(elements) - 1] + elements[Len(elements)]
  <2>1. Len(elements) - 1 \in 0..Len(elements) /\ Len(elements) \in 1..Len(elements)
    BY <1>2
  <2>2. QED
    BY <1>1, <2>1, Zenon DEF PrefixSums
<1> QED
  BY <1>1, <1>2, <1>3

LEMMA StackPops ==
  ASSUME elements \in Seq(Nat), elements # <<>>,
         elements' = SubSeq(elements, 1, Len(elements) - 1)
  PROVE  /\ elements' \in Seq(Nat)
         /\ Len(elements') = Len(elements) - 1
         /\ \A i \in 1..(Len(elements) - 1) : elements'[i] = elements[i]
         /\ Len(elements) = 1 => elements' = <<>>
<1> DEFINE n == Len(elements) - 1
<1>1. Len(elements) \in Nat /\ Len(elements) >= 1 /\ n \in Nat
  BY EmptySeq
<1>2. 1 \in Int /\ n \in Int /\ \A i \in 1..n : elements[i] \in Nat
  BY <1>1
<1>3. /\ SubSeq(elements, 1, n) \in Seq(Nat)
      /\ Len(SubSeq(elements, 1, n)) = IF 1 <= n THEN n - 1 + 1 ELSE 0
      /\ \A i \in 1..(n - 1 + 1) : SubSeq(elements, 1, n)[i] = elements[1 + i - 1]
  <2> HIDE DEF n
  <2> QED
    BY <1>2, SubSeqProperties
<1>4. /\ elements' \in Seq(Nat) /\ Len(elements') = n
      /\ \A i \in 1..n : elements'[i] = elements[i]
  <2>1. elements' = SubSeq(elements, 1, n)
    OBVIOUS
  <2>2. n - 1 + 1 = n /\ \A i \in 1..n : 1 + i - 1 = i
    BY <1>1
  <2> HIDE DEF n
  <2>3. (IF 1 <= n THEN n - 1 + 1 ELSE 0) = n
    BY <1>1
  <2> QED
    BY <1>3, <2>1, <2>2, <2>3
<1>5. Len(elements) = 1 => elements' = <<>>
  BY <1>4
<1> QED
  BY <1>4, <1>5

(* An element that is closed gives back what it declared.                   *)
LEMMA ScopesPopped ==
  ASSUME ScopesCounted, elements \in Seq(Nat), elements # <<>>,
         elements' = SubSeq(elements, 1, Len(elements) - 1), abandoned' = abandoned,
         meter.count["elementDepth"] \in Nat,
         meter'.count["elementDepth"] = meter.count["elementDepth"] - 1,
         meter'.count["bindings"] = meter.count["bindings"] - elements[Len(elements)]
  PROVE  ScopesCounted'
<1>1. PICK f : PrefixSums(f, elements) /\ f[Len(elements)] = meter.count["bindings"]
  BY DEF ScopesCounted
<1> DEFINE len == Len(elements) - 1
           g == [i \in 0..len |-> f[i]]
<1>2. len \in Nat /\ Len(elements) = len + 1 /\ elements[len + 1] \in Nat
  BY EmptySeq
<1>3. Len(elements') = len /\ \A i \in 1..len : elements'[i] = elements[i]
  BY StackPops
<1>4. /\ f \in [0..(len + 1) -> Nat] /\ f[0] = 0
      /\ \A i \in 1..(len + 1) : f[i] = f[i - 1] + elements[i]
  BY <1>1, <1>2 DEF PrefixSums
<1>5. abandoned' = 0 /\ meter'.count["elementDepth"] = Len(elements')
  BY <1>2, <1>3 DEF ScopesCounted
<1> HIDE DEF len
<1>6. g \in [0..len -> Nat] /\ g[0] = 0
  BY <1>2, <1>4
<1>7. \A i \in 1..len : g[i] = g[i - 1] + elements'[i]
  BY <1>2, <1>3, <1>4
<1>8. g[len] = meter'.count["bindings"]
  BY <1>1, <1>2, <1>4
<1>9. PrefixSums(g, elements') /\ g[Len(elements')] = meter'.count["bindings"]
  <2> HIDE DEF g
  <2> QED
    BY <1>3, <1>6, <1>7, <1>8 DEF PrefixSums
<1> QED
  BY <1>5, <1>9 DEF ScopesCounted

-------------------------------------------------------------------------------
(* Session::parse *)

(* What a step of a parse does to the rest of the session: nothing to the   *)
(* scopes of a body, nothing to an exhausted ledger's octets, and it leaves *)
(* components abandoned only where it refuses.                              *)
ParseEffect ==
  /\ KeepsScopes(meter, meter')
  /\ meter.exhausted => meter'.exhausted /\ meter'.spent = meter.spent /\ kept' = kept
  /\ outcome' \notin Refusal => abandoned' = abandoned

LEMMA RefusalEffect ==
  ASSUME NEW why \in Refusal, NEW m, Refuse(why, m), KeepsScopes(meter, m),
         meter.exhausted => m.exhausted /\ m.spent = meter.spent
  PROVE  ParseEffect
BY DEF Refuse, ParseEffect

(* Counting components keeps the scopes of a body apart.                    *)
LEMMA DepthKeepsScopes ==
  ASSUME NEW m \in Meter
  PROVE  /\ \A d \in {"items", "depth"} : KeepsScopes(m, Count(m, d, 1))
         /\ \A d \in {"items", "depth"} : Count(m, d, 1) \in Meter
         /\ KeepsScopes(m, Leave(m, "depth", 1))
         /\ Leave(m, "depth", 1).exhausted = m.exhausted
         /\ Leave(m, "depth", 1).spent = m.spent
<1>1. m.count \in [Dimension -> Nat] /\ "elementDepth" \in Dimension /\ "bindings" \in Dimension
      /\ "items" \in Dimension /\ "depth" \in Dimension
  BY Dimensions, Constants DEF Meter
<1>2. ASSUME NEW d \in {"items", "depth"}
      PROVE  KeepsScopes(m, Count(m, d, 1)) /\ Count(m, d, 1) \in Meter
  <2>1. CASE Fits(m, d, 1)
    <3>1. d \in Dimension /\ d # "elementDepth" /\ d # "bindings"
      BY <1>1
    <3>2. /\ \A e \in Dimension : e # d => Count(m, d, 1).count[e] = m.count[e]
          /\ Count(m, d, 1) \in Meter
      BY <2>1, <3>1, CountFits
    <3> QED
      BY <1>1, <3>1, <3>2 DEF KeepsScopes
  <2>2. CASE ~Fits(m, d, 1)
    <3>1. d \in Dimension
      BY <1>1
    <3>2. Count(m, d, 1) \in Meter /\ Count(m, d, 1).count = m.count
      BY <2>2, <3>1, CountRefused
    <3> QED
      BY <3>2 DEF KeepsScopes
  <2> QED
    BY <2>1, <2>2
<1>3. /\ KeepsScopes(m, Leave(m, "depth", 1))
      /\ Leave(m, "depth", 1).exhausted = m.exhausted
      /\ Leave(m, "depth", 1).spent = m.spent
  BY <1>1 DEF Leave, KeepsScopes, Meter
<1> QED
  BY <1>2, <1>3

LEMMA KeepsScopesOn ==
  ASSUME NEW m, NEW between, NEW after, KeepsScopes(m, between), KeepsScopes(between, after)
  PROVE  KeepsScopes(m, after)
BY DEF KeepsScopes

LEMMA TakeNameEffect ==
  ASSUME InductiveInv, Sound(meter), NEW w \in Name, TakeName(w)
  PROVE  ParseEffect
<1> DEFINE m == Charge(meter, NameOctets(w))
<1>1. NameOctets(w) \in Nat
  BY DEF NameOctets
<1>2. Follows(meter, m) /\ m.count = meter.count
  BY <1>1, ChargeFollows
<1>3. KeepsScopes(meter, m) /\ (meter.exhausted => m.exhausted /\ m.spent = meter.spent)
  BY <1>2 DEF KeepsScopes, Follows
<1>4. CASE Admits(meter, NameOctets(w))
  <2>1. ~meter.exhausted
    BY <1>4 DEF Admits
  <2> QED
    BY <1>3, <1>4, <2>1 DEF TakeName, ParseEffect
<1>5. CASE ~Admits(meter, NameOctets(w))
  <2>1. Refuse("octets", m) /\ "octets" \in Refusal
    BY <1>5 DEF TakeName, Refusal
  <2> QED
    BY <1>3, <2>1, RefusalEffect
<1> QED
  BY <1>4, <1>5

LEMMA TakeParameterEffect ==
  ASSUME InductiveInv, Sound(meter), NEW p \in Parameter, TakeParameter(p)
  PROVE  ParseEffect
<1> DEFINE once == Charge(meter, 1)
           m == ChargeParameter(meter, p)
<1>1. Follows(meter, once) /\ once.count = meter.count /\ Sound(once)
  BY ChargeFollows DEF Follows
<1>2. Follows(once, Charge(once, 1)) /\ Charge(once, 1).count = once.count
  BY <1>1, ChargeFollows
<1>3. Follows(meter, m) /\ m.count = meter.count
  <2>1. Follows(meter, Charge(once, 1)) /\ Charge(once, 1).count = meter.count
    BY <1>1, <1>2, FollowsOn
  <2> QED
    BY <1>1, <2>1 DEF ChargeParameter
<1>4. KeepsScopes(meter, m) /\ (meter.exhausted => m.exhausted /\ m.spent = meter.spent)
  BY <1>3 DEF KeepsScopes, Follows
<1>5. CASE AdmitsParameter(meter, p)
  <2>1. ~meter.exhausted
    BY <1>5 DEF AdmitsParameter, Admits
  <2> QED
    BY <1>4, <1>5, <2>1 DEF TakeParameter, ParseEffect
<1>6. CASE ~AdmitsParameter(meter, p)
  <2>1. Refuse("octets", m) /\ "octets" \in Refusal
    BY <1>6 DEF TakeParameter, Refusal
  <2> QED
    BY <1>4, <2>1, RefusalEffect
<1> QED
  BY <1>5, <1>6

LEMMA TakeValueEffect ==
  ASSUME InductiveInv, Sound(meter), NEW w \in ValueWord, TakeValue(w)
  PROVE  ParseEffect
<1> DEFINE m == Charge(meter, 1)
<1>1. Follows(meter, m) /\ m.count = meter.count
  BY ChargeFollows
<1>2. KeepsScopes(meter, m) /\ (meter.exhausted => m.exhausted /\ m.spent = meter.spent)
  BY <1>1 DEF KeepsScopes, Follows
<1>3. "octets" \in Refusal /\ "value" \in Refusal /\ KeepsScopes(meter, meter)
  BY DEF Refusal, KeepsScopes
<1>4. CASE Len(pending.value) + 1 > MaxValueOctets
  BY <1>3, <1>4, RefusalEffect DEF TakeValue
<1>5. CASE ~(Len(pending.value) + 1 > MaxValueOctets) /\ ~Admits(meter, 1)
  BY <1>2, <1>3, <1>5, RefusalEffect DEF TakeValue
<1>6. CASE ~(Len(pending.value) + 1 > MaxValueOctets) /\ Admits(meter, 1)
  <2>1. ~meter.exhausted
    BY <1>6 DEF Admits
  <2> QED
    BY <1>2, <1>6, <2>1 DEF TakeValue, ParseEffect
<1> QED
  BY <1>4, <1>5, <1>6

LEMMA StorePropertyEffect ==
  ASSUME NEW layout, NEW m \in Meter, KeepsScopes(meter, m), ~meter.exhausted,
         NEW fault, StoreProperty(layout, m, fault)
  PROVE  ParseEffect
<1>1. CASE ~Fits(m, "items", 1)
  BY <1>1, RefusalEffect DEF StoreProperty, Refusal
<1>2. CASE Fits(m, "items", 1)
  <2>1. KeepsScopes(meter, Count(m, "items", 1))
    BY DepthKeepsScopes, KeepsScopesOn
  <2> QED
    BY <1>2, <2>1 DEF StoreProperty, LineDone, ParseEffect
<1> QED
  BY <1>1, <1>2

LEMMA EndOfLineEffect ==
  ASSUME InductiveInv, NEW layout \in LayoutInput, EndOfLine(layout)
  PROVE  ParseEffect
<1> DEFINE m == ChargeFolds(meter, layout.folds)
           kind == Classify(layout)
           counted == Count(m, "items", 1)
           entered == Count(counted, "depth", 1)
<1>1. layout.folds \in Nat
  <2>1. 0..MaxFolds \subseteq Nat
    BY TreeAssumption DEF TreeAssumption
  <2> QED
    BY <2>1 DEF LayoutInput
<1>2. meter \in Meter /\ Solvent(meter) /\ ~meter.exhausted
  BY MeterSolvent DEF EndOfLine, InductiveInv, TreeInv, Ledgered
<1>3. m \in Meter /\ m.count = meter.count
  BY <1>1, <1>2, FoldsPaid
<1>4. KeepsScopes(meter, m)
  BY <1>3 DEF KeepsScopes
<1>5. "octets" \in Refusal /\ "items" \in Refusal /\ "depth" \in Refusal
  BY DEF Refusal
<1>6. CASE m.exhausted
  BY <1>2, <1>4, <1>5, <1>6, RefusalEffect DEF EndOfLine
<1>7. CASE ~m.exhausted
  <2>0. /\ counted \in Meter /\ KeepsScopes(meter, counted)
        /\ KeepsScopes(meter, entered)
        /\ KeepsScopes(meter, Leave(m, "depth", 1))
    <3> HIDE DEF m
    <3>1. counted \in Meter /\ KeepsScopes(m, counted)
          /\ KeepsScopes(m, Leave(m, "depth", 1))
      BY <1>3, DepthKeepsScopes
    <3> HIDE DEF counted
    <3>2. KeepsScopes(counted, entered)
      BY <3>1, DepthKeepsScopes
    <3> QED
      BY <1>4, <3>1, <3>2, KeepsScopesOn
  <2>1. CASE kind = "BEGIN"
    <3>1. OpenComponent(layout, m)
      BY <1>7, <2>1 DEF EndOfLine
    <3> HIDE DEF m
    <3>2. CASE ~Fits(m, "items", 1)
      BY <1>2, <1>4, <1>5, <3>1, <3>2, RefusalEffect DEF OpenComponent
    <3>3. CASE Fits(m, "items", 1) /\ ~Fits(counted, "depth", 1)
      <4>1. Refuse("depth", counted)
        BY <3>1, <3>3 DEF OpenComponent
      <4> QED
        BY <1>2, <1>5, <2>0, <4>1, RefusalEffect
    <3>4. CASE Fits(m, "items", 1) /\ Fits(counted, "depth", 1)
      <4>1. meter' = entered /\ abandoned' = abandoned
        BY <3>1, <3>4 DEF OpenComponent, LineDone
      <4> QED
        BY <1>2, <2>0, <4>1 DEF ParseEffect
    <3> QED
      BY <3>2, <3>3, <3>4
  <2>2. CASE kind = "END"
    <3>1. CloseComponent(layout, m)
      BY <1>7, <2>2 DEF EndOfLine
    <3> HIDE DEF m
    <3>2. CASE Closes
      <4>1. meter' = Leave(m, "depth", 1) /\ abandoned' = abandoned
        BY <3>1, <3>2 DEF CloseComponent, LineDone
      <4> QED
        BY <1>2, <2>0, <4>1 DEF ParseEffect
    <3>3. CASE ~Closes
      <4>1. StoreProperty(layout, m, TRUE)
        BY <3>1, <3>3 DEF CloseComponent
      <4> QED
        BY <1>2, <1>3, <1>4, <4>1, StorePropertyEffect
    <3> QED
      BY <3>2, <3>3
  <2>3. CASE kind \notin {"BEGIN", "END"}
    <3>1. StoreProperty(layout, m, kind = "damaged")
      BY <1>7, <2>3 DEF EndOfLine
    <3> HIDE DEF m
    <3> QED
      BY <1>2, <1>3, <1>4, <3>1, StorePropertyEffect
  <2> QED
    BY <2>1, <2>2, <2>3
<1> QED
  BY <1>6, <1>7

LEMMA ParseStepEffect ==
  ASSUME InductiveInv, Sound(meter), ParseStep
  PROVE  ParseEffect
<1>0. KeepsScopes(meter, meter) /\ "source" \in Refusal
  BY DEF KeepsScopes, Refusal
<1>1. CASE BeginDocument
  BY <1>0, <1>1 DEF BeginDocument, ParseEffect
<1>2. CASE SourceFails
  BY <1>0, <1>2, RefusalEffect DEF SourceFails
<1>3. CASE \E w \in Name : TakeName(w)
  BY <1>3, TakeNameEffect
<1>4. CASE \E p \in Parameter : TakeParameter(p)
  BY <1>4, TakeParameterEffect
<1>5. CASE \E w \in ValueWord : TakeValue(w)
  BY <1>5, TakeValueEffect
<1>6. CASE \E layout \in LayoutInput : EndOfLine(layout)
  BY <1>6, EndOfLineEffect
<1>7. CASE EndOfInput
  BY <1>0, <1>7 DEF EndOfInput, ghosts, ParseEffect
<1>8. CASE CloseUnclosed
  <2>1. meter' = Leave(meter, "depth", 1) /\ abandoned' = abandoned /\ kept' = kept
    BY <1>8 DEF CloseUnclosed, ghosts
  <2>2. meter \in Meter
    BY DEF Sound
  <2> QED
    BY <2>1, <2>2, DepthKeepsScopes DEF ParseEffect
<1>9. CASE \E schema \in BOOLEAN : Judge(schema)
  BY <1>0, <1>9 DEF Judge, ParseEffect
<1> QED
  BY <1>1, <1>2, <1>3, <1>4, <1>5, <1>6, <1>7, <1>8, <1>9 DEF ParseStep

-------------------------------------------------------------------------------
(* Imports, query bodies and searches *)

(* What any step but a parse does to the ledger and to what is kept.        *)
OtherEffect ==
  /\ Follows(meter, meter')
  /\ kept' \in Nat /\ kept' <= Budget /\ kept' <= meter'.spent
  /\ meter.exhausted => kept' = kept

(* Where nothing is kept, nothing but the ledger decides.                   *)
LEMMA NothingKept ==
  ASSUME SessionInv, phase \in Elsewhere \cup {"idle"}, Follows(meter, meter'), kept' = kept
  PROVE  OtherEffect
<1>1. kept \in Nat /\ kept <= Budget /\ kept <= meter.spent
  BY NoParseIsAtRest DEF AtRest
<1>2. meter.spent \in Nat /\ meter'.spent \in Nat /\ meter.spent <= meter'.spent
  BY DEF SessionInv, Sound, Follows, Meter
<1> QED
  BY <1>1, <1>2 DEF OtherEffect

(* Such a step keeps the invariant if it keeps the scopes and tells of cuts.*)
LEMMA OtherStepKeeps ==
  ASSUME SessionInv, phase \in Elsewhere \cup {"idle"}, NoParse, OtherEffect,
         phase' \in Elsewhere \cup {"idle"},
         elements' \in Seq(Nat), phase' # "query" => elements' = <<>>,
         cut' => cut \/ meter'.exhausted,
         ~failed' => ScopesCounted'
  PROVE  SessionInv'
<1>1. AtRest
  BY NoParseIsAtRest
<1>2. AtRest'
  <2>1. meter' \in Meter /\ Solvent(meter') /\ meter'.count["depth"] = meter.count["depth"]
    BY DEF OtherEffect, Follows, Sound
  <2> QED
    BY <1>1, <2>1 DEF AtRest, NoParse, builder, OtherEffect
<1>3. phase' \notin Elsewhere => InductiveInv'
  <2>1. ASSUME phase' = "idle" PROVE AtRest' => InductiveInv'
    <3>1. BlankLine \in PendingLine
      BY EmptySeq DEF BlankLine, PendingLine
    <3>2. AtRest' => TreeTypeOK'
      BY <2>1, <3>1 DEF AtRest, TreeTypeOK, Reading
    <3>3. AtRest' => Len(open') = 0 /\ StackIsSequence'
      BY EmptySeq DEF AtRest, StackIsSequence
    <3>4. ASSUME AtRest' PROVE TreeInv'
      <4>1. /\ Len(open') = 0 /\ abandoned' \in Nat /\ Limits["depth"] \in Nat
            /\ meter'.count["depth"] = abandoned' /\ meter'.count["depth"] <= Limits["depth"]
        BY <3>3, <3>4, Constants DEF AtRest
      <4>2. DepthAccounted' /\ NestingWithinLimit'
        <5>1. Len(open') + abandoned' = abandoned' /\ Len(open') <= Limits["depth"]
          BY <4>1
        <5> QED
          BY <4>1, <5>1 DEF DepthAccounted, NestingWithinLimit
      <4>3. RetainedWithinBudget' /\ Ledgered'
        BY <2>1, <3>4 DEF AtRest, RetainedWithinBudget, Ledgered, Solvent
      <4> QED
        BY <4>2, <4>3 DEF TreeInv
    <3> QED
      BY <3>2, <3>3, <3>4 DEF InductiveInv
  <2> QED
    BY <1>2, <2>1
<1>4. CutSearchIsReported'
  BY DEF SessionInv, CutSearchIsReported, OtherEffect, Follows
<1>5. Sound(meter')
  BY DEF OtherEffect, Follows
<1> QED
  BY <1>2, <1>3, <1>4, <1>5 DEF SessionInv

(* The session's own part of a step that leaves the stack of the body alone.*)
LEMMA ScopelessStepKeeps ==
  ASSUME SessionInv, phase \in Elsewhere \cup {"idle"}, NoParse, OtherEffect,
         phase' \in Elsewhere \cup {"idle"},
         UNCHANGED elements, phase' # "query" => elements = <<>>,
         KeepsScopes(meter, meter'),
         cut' => cut \/ meter'.exhausted,
         failed => failed'
  PROVE  SessionInv'
<1>1. ~failed' => ScopesCounted'
  BY ScopesStay DEF SessionInv, NoParse
<1> QED
  BY <1>1, OtherStepKeeps DEF SessionInv

LEMMA ImportKeeps ==
  ASSUME SessionInv, NEW n \in 1..MaxImport, Import(n)
  PROVE  SessionInv' /\ OtherEffect
<1>1. n \in Nat /\ phase = "idle" /\ phase' = "idle"
  BY DEF Import, BeginOperation
<1>2. Sound(meter) /\ AtRest
  BY <1>1, NoParseIsAtRest DEF SessionInv
<1>3. /\ Follows(meter, meter') /\ meter'.count = meter.count
      /\ Admits(meter, n) => meter'.spent = meter.spent + n
  BY <1>1, <1>2, ChargeFollows DEF Import
<1>4. OtherEffect
  <2>1. CASE Admits(meter, n)
    <3>1. ~meter.exhausted /\ ~meter'.exhausted
      <4>1. SaturatingAdd(meter.spent, n, Top["spent"]) <= Budget /\ ~meter.exhausted
        BY <2>1 DEF Admits
      <4> QED
        BY <1>1, <1>2, <2>1, <4>1, ChargeKeeps DEF Import, Sound
    <3>2. meter'.spent <= Budget /\ meter'.spent \in Nat /\ meter.spent \in Nat
      BY <1>2, <1>3, <3>1 DEF Follows, Sound, Solvent, Meter
    <3>3. kept' = kept + n /\ kept \in Nat /\ kept <= meter.spent
      BY <1>2, <2>1 DEF Import, AtRest
    <3> QED
      BY <1>1, <1>3, <2>1, <3>1, <3>2, <3>3, Constants DEF OtherEffect
  <2>2. CASE ~Admits(meter, n)
    BY <1>1, <1>3, <2>2, NothingKept DEF Import
  <2> QED
    BY <2>1, <2>2
<1>5. KeepsScopes(meter, meter')
  BY <1>3 DEF KeepsScopes
<1>6. /\ NoParse /\ UNCHANGED <<elements, cut>> /\ (failed => failed') /\ elements = <<>>
  BY <1>1 DEF Import, SessionInv
<1> QED
  BY <1>1, <1>4, <1>5, <1>6, ScopelessStepKeeps

(* A query that fails drops its stack; the ledger keeps its scopes.         *)
LEMMA FailQueryKeeps ==
  ASSUME SessionInv, phase \in {"query", "epilog"}, NEW m, Follows(meter, m),
         NEW byLedger, FailQuery(m, byLedger)
  PROVE  SessionInv' /\ OtherEffect
<1>1. phase \in Elsewhere \cup {"idle"}
  BY DEF Elsewhere
<1>2. OtherEffect
  BY <1>1, NothingKept DEF FailQuery
<1>3. elements' \in Seq(Nat)
  BY EmptySeq DEF FailQuery
<1> QED
  BY <1>1, <1>2, <1>3, OtherStepKeeps DEF FailQuery

(* The element a start tag opens.                                           *)
LEMMA StartTagKeeps ==
  ASSUME SessionInv, NEW attributes \in Nat, NEW n \in 0..attributes, NEW names \in Nat,
         StartTag(attributes, n, names)
  PROVE  SessionInv' /\ OtherEffect
<1> DEFINE charged == ChargeEach(meter, attributes + 1)
           bound == BindEach(charged, n)
           resolved == ResolveEach(bound, attributes - n, names)
           counted == Count(resolved, "elements", 1)
           entered == Count(counted, "elementDepth", 1)
<1>1. phase = "query" /\ Sound(meter)
  BY DEF StartTag, Step, SessionInv
<1>2. Follows(meter, charged) /\ charged.count = meter.count /\ Sound(charged)
  <2>1. attributes + 1 \in Nat
    OBVIOUS
  <2> QED
    BY <1>1, <2>1, ChargeEachFollows DEF Follows
<1> HIDE DEF charged
<1>3. /\ Follows(meter, bound) /\ Sound(bound)
      /\ bound.count["elementDepth"] = meter.count["elementDepth"]
      /\ Fits(charged, "bindings", n) =>
           bound.count["bindings"] = meter.count["bindings"] + n
  <2>1. /\ Follows(charged, bound)
        /\ bound.count["elementDepth"] = charged.count["elementDepth"]
        /\ Fits(charged, "bindings", n) =>
             bound.count["bindings"] = charged.count["bindings"] + n
    BY <1>2, BindEachFollows
  <2> QED
    BY <1>1, <1>2, <2>1, FollowsOn DEF Follows
<1> HIDE DEF bound
<1>4. Follows(meter, resolved) /\ Sound(resolved) /\ resolved.count = bound.count
  <2> DEFINE given == IF names < attributes - n THEN names ELSE attributes - n
  <2>1. given \in Nat
    OBVIOUS
  <2>2. resolved = ChargeEach(bound, given)
    BY DEF ResolveEach
  <2> HIDE DEF given, resolved
  <2>3. Follows(bound, resolved) /\ resolved.count = bound.count
    BY <1>3, <2>1, <2>2, ChargeEachFollows
  <2> QED
    BY <1>1, <1>3, <2>3, FollowsOn DEF Follows
<1> HIDE DEF resolved
<1>5. /\ Follows(meter, counted) /\ Sound(counted)
      /\ counted.count["elementDepth"] = bound.count["elementDepth"]
      /\ counted.count["bindings"] = bound.count["bindings"]
  <2>1. "elements" \in Dimension /\ "elementDepth" \in Dimension /\ "bindings" \in Dimension
    BY Dimensions
  <2>2. /\ Follows(resolved, counted)
        /\ \A e \in Dimension : e # "elements" => counted.count[e] = resolved.count[e]
    BY <1>4, <2>1, CountFollows
  <2> QED
    BY <1>1, <1>4, <2>1, <2>2, FollowsOn DEF Follows
<1> HIDE DEF counted
<1>6. /\ Follows(meter, entered)
      /\ entered.count["bindings"] = counted.count["bindings"]
      /\ Fits(counted, "elementDepth", 1) =>
           entered.count["elementDepth"] = counted.count["elementDepth"] + 1
  <2>1. "elementDepth" \in Dimension /\ "bindings" \in Dimension
        /\ "elementDepth" \notin Latching
    BY Dimensions
  <2>2. /\ Follows(counted, entered)
        /\ \A e \in Dimension : e # "elementDepth" => entered.count[e] = counted.count[e]
    BY <1>5, <2>1, CountFollows
  <2>3. Fits(counted, "elementDepth", 1) =>
          entered.count["elementDepth"] = counted.count["elementDepth"] + 1
    BY <1>5, <2>1, CountFits DEF Sound
  <2> QED
    BY <1>1, <1>5, <2>1, <2>2, <2>3, FollowsOn
<1> HIDE DEF entered
<1>7. CASE \E m \in {charged, bound, resolved, counted}, byLedger \in BOOLEAN : FailQuery(m, byLedger)
  BY <1>1, <1>2, <1>3, <1>4, <1>5, <1>7, FailQueryKeeps
<1>8. CASE /\ Fits(charged, "bindings", n) /\ Fits(counted, "elementDepth", 1)
           /\ Proceed(entered) /\ elements' = Append(elements, n) /\ UNCHANGED phase
  <2>1. meter' = entered /\ NoParse /\ UNCHANGED <<kept, cut, failed, abandoned>>
    BY <1>8 DEF Proceed, NoParse
  <2>2. /\ phase \in Elsewhere \cup {"idle"} /\ phase' \in Elsewhere \cup {"idle"}
        /\ phase' = "query"
    BY <1>1, <1>8 DEF Elsewhere
  <2>3. OtherEffect
    BY <1>6, <2>1, <2>2, NothingKept
  <2>4. elements \in Seq(Nat) /\ elements' \in Seq(Nat)
    BY <1>8, AppendProperties DEF SessionInv
  <2>5. ~failed' => ScopesCounted'
    <3>1. /\ meter'.count["elementDepth"] = meter.count["elementDepth"] + 1
          /\ meter'.count["bindings"] = meter.count["bindings"] + n
      BY <1>3, <1>5, <1>6, <1>8, <2>1
    <3> QED
      BY <1>8, <2>1, <2>4, <3>1, ScopesPushed DEF SessionInv
  <2> QED
    BY <2>1, <2>2, <2>3, <2>4, <2>5, OtherStepKeeps
<1>9. \/ \E m \in {charged, bound, resolved, counted}, byLedger \in BOOLEAN : FailQuery(m, byLedger)
      \/ /\ Fits(charged, "bindings", n) /\ Fits(counted, "elementDepth", 1)
         /\ Proceed(entered) /\ elements' = Append(elements, n) /\ UNCHANGED phase
  BY Zenon DEF StartTag, charged, bound, resolved, counted, entered
<1> QED
  BY <1>7, <1>8, <1>9

(* The element an end tag closes.                                           *)
LEMMA EndTagKeeps ==
  ASSUME SessionInv, NEW span \in 0..1, EndTag(span)
  PROVE  SessionInv' /\ OtherEffect
<1> DEFINE charged == IF span = 0 THEN meter ELSE Charge(meter, span)
           last == elements[Len(elements)]
           unbound == Leave(charged, "bindings", last)
           closed == Leave(unbound, "elementDepth", 1)
<1>1. phase = "query" /\ Sound(meter) /\ elements # <<>> /\ elements \in Seq(Nat)
  BY DEF EndTag, Step, SessionInv
<1>2. Follows(meter, charged) /\ charged.count = meter.count /\ Sound(charged)
  <2>1. span \in Nat
    OBVIOUS
  <2> QED
    BY <1>1, <2>1, ChargeFollows, FollowsItself DEF Follows
<1> HIDE DEF charged
<1>3. last \in Nat /\ Len(elements) \in Nat
  <2>1. Len(elements) \in 1..Len(elements)
    BY <1>1, EmptySeq
  <2> QED
    BY <1>1, <2>1
<1> HIDE DEF last
<1>4. /\ Follows(meter, unbound) /\ Sound(unbound)
      /\ unbound.count["elementDepth"] = meter.count["elementDepth"]
      /\ last <= meter.count["bindings"] =>
           unbound.count["bindings"] = meter.count["bindings"] - last
  <2>1. "elementDepth" \in Dimension
    BY Dimensions
  <2>2. /\ Follows(charged, unbound)
        /\ \A e \in Dimension : e # "bindings" => unbound.count[e] = charged.count[e]
        /\ last <= charged.count["bindings"] =>
             unbound.count["bindings"] = charged.count["bindings"] - last
    BY <1>2, <1>3, LeaveFollows
  <2> QED
    BY <1>1, <1>2, <2>1, <2>2, FollowsOn DEF Follows
<1> HIDE DEF unbound
<1>5. /\ Follows(meter, closed)
      /\ closed.count["bindings"] = unbound.count["bindings"]
      /\ 1 <= meter.count["elementDepth"] =>
           closed.count["elementDepth"] = meter.count["elementDepth"] - 1
  <2>1. "bindings" \in Dimension
    BY Dimensions
  <2>2. /\ Follows(unbound, closed)
        /\ \A e \in Dimension : e # "elementDepth" => closed.count[e] = unbound.count[e]
        /\ 1 <= unbound.count["elementDepth"] =>
             closed.count["elementDepth"] = unbound.count["elementDepth"] - 1
    BY <1>4, LeaveFollows
  <2> QED
    BY <1>1, <1>4, <2>1, <2>2, FollowsOn
<1>6. CASE FailQuery(charged, TRUE)
  BY <1>1, <1>2, <1>6, FailQueryKeeps
<1>7. CASE /\ Proceed(closed)
           /\ elements' = SubSeq(elements, 1, Len(elements) - 1)
           /\ phase' = IF Len(elements) = 1 THEN "epilog" ELSE "query"
  <2>1. meter' = closed /\ NoParse /\ UNCHANGED <<kept, cut, failed, abandoned>>
    BY <1>7 DEF Proceed, NoParse
  <2>2. phase \in Elsewhere \cup {"idle"} /\ phase' \in Elsewhere \cup {"idle"}
    BY <1>1, <1>7 DEF Elsewhere
  <2>3. OtherEffect
    BY <1>5, <2>1, <2>2, NothingKept
  <2>4. elements' \in Seq(Nat) /\ (phase' # "query" => elements' = <<>>)
    BY <1>1, <1>7, StackPops
  <2>5. ~failed' => ScopesCounted'
    <3> SUFFICES ASSUME ~failed' PROVE ScopesCounted'
      OBVIOUS
    <3>1. ScopesCounted
      BY <2>1 DEF SessionInv
    <3>2. last <= meter.count["bindings"] /\ 1 <= Len(elements)
      BY <1>1, <3>1, InnermostCounted DEF last
    <3>3. /\ meter.count["elementDepth"] \in Nat
          /\ meter'.count["elementDepth"] = meter.count["elementDepth"] - 1
          /\ meter'.count["bindings"] = meter.count["bindings"] - last
      BY <1>3, <1>4, <1>5, <2>1, <3>1, <3>2 DEF ScopesCounted
    <3> QED
      BY <1>1, <1>7, <2>1, <3>1, <3>3, ScopesPopped DEF last
  <2> QED
    BY <2>1, <2>2, <2>3, <2>4, <2>5, OtherStepKeeps
<1> QED
  BY <1>6, <1>7 DEF EndTag, CloseElement, charged, unbound, last

LEMMA TextKeeps ==
  ASSUME SessionInv, NEW n \in 1..MaxText + 1, Text(n)
  PROVE  SessionInv' /\ OtherEffect
<1> DEFINE charged == Charge(meter, n)
<1>1. phase = "query" /\ Sound(meter) /\ n \in Nat
  BY DEF Text, Step, SessionInv
<1>2. Follows(meter, charged) /\ KeepsScopes(meter, charged) /\ Follows(meter, meter)
  BY <1>1, ChargeFollows, FollowsItself DEF KeepsScopes
<1> HIDE DEF charged
<1>3. CASE \E m \in {charged, meter} : FailQuery(m, TRUE)
  BY <1>1, <1>2, <1>3, FailQueryKeeps
<1>4. CASE Proceed(charged) /\ UNCHANGED <<elements, phase>>
  <2>1. phase \in Elsewhere \cup {"idle"} /\ phase' \in Elsewhere \cup {"idle"}
        /\ phase' = "query"
    BY <1>1, <1>4 DEF Elsewhere
  <2>2. meter' = charged /\ NoParse /\ UNCHANGED <<kept, cut, failed, elements>>
    BY <1>4 DEF Proceed
  <2>3. OtherEffect
    BY <1>2, <2>1, <2>2, NothingKept
  <2> QED
    BY <1>2, <2>1, <2>2, <2>3, ScopelessStepKeeps
<1> QED
  BY <1>3, <1>4 DEF Text, charged

(* Octets that are no event are charged, inside the root and out of it.     *)
LEMMA AsideKeeps ==
  ASSUME SessionInv, NEW n \in Nat, Aside(n)
  PROVE  SessionInv' /\ OtherEffect
<1> DEFINE charged == Charge(meter, n)
<1>1. phase \in {"query", "epilog"} /\ Sound(meter)
  BY DEF Aside, BodyStep, Step, SessionInv
<1>2. Follows(meter, charged) /\ KeepsScopes(meter, charged)
  BY <1>1, ChargeFollows DEF KeepsScopes
<1> HIDE DEF charged
<1>3. CASE FailQuery(charged, TRUE)
  BY <1>1, <1>2, <1>3, FailQueryKeeps
<1>4. CASE Proceed(charged) /\ UNCHANGED <<elements, phase>>
  <2>1. /\ phase \in Elsewhere \cup {"idle"} /\ phase' \in Elsewhere \cup {"idle"}
        /\ phase' # "query" => elements = <<>>
    BY <1>1, <1>4 DEF Elsewhere, SessionInv
  <2>2. meter' = charged /\ NoParse /\ UNCHANGED <<kept, cut, failed, elements>>
    BY <1>4 DEF Proceed
  <2>3. OtherEffect
    BY <1>2, <2>1, <2>2, NothingKept
  <2> QED
    BY <1>2, <2>1, <2>2, <2>3, ScopelessStepKeeps
<1> QED
  BY <1>3, <1>4 DEF Aside, charged

LEMMA BrokenBodyKeeps ==
  ASSUME SessionInv, NEW n \in Nat, BrokenBody(n)
  PROVE  SessionInv' /\ OtherEffect
<1> DEFINE charged == ChargeEach(meter, n)
<1>1. phase \in {"query", "epilog"} /\ FailQuery(charged, FALSE) /\ Sound(meter)
  BY DEF BrokenBody, BodyStep, Step, SessionInv
<1>2. Follows(meter, charged)
  BY <1>1, ChargeEachFollows
<1> HIDE DEF charged
<1> QED
  BY <1>1, <1>2, FailQueryKeeps

(* A step that leaves the ledger alone, between operations or within one.   *)
LEMMA IdlingKeeps ==
  ASSUME SessionInv, phase \in Elsewhere \cup {"idle"}, phase' \in Elsewhere \cup {"idle"},
         NoParse, UNCHANGED <<meter, kept, elements, cut, failed>>,
         phase' # "query" => elements = <<>>
  PROVE  SessionInv' /\ OtherEffect
<1>1. Follows(meter, meter') /\ KeepsScopes(meter, meter')
  BY FollowsItself DEF SessionInv
<1>2. OtherEffect
  BY <1>1, NothingKept
<1> QED
  BY <1>1, <1>2, ScopelessStepKeeps

(* One step of a search, whatever it charges.                               *)
LEMMA SearchStepKeeps ==
  ASSUME SessionInv, phase = "search", phase' \in {"search", "idle"},
         Follows(meter, meter'), KeepsScopes(meter, meter'),
         NoParse, UNCHANGED <<kept, elements>>,
         cut' => cut \/ meter'.exhausted,
         failed => failed'
  PROVE  SessionInv' /\ OtherEffect
<1>1. /\ phase \in Elsewhere \cup {"idle"} /\ phase' \in Elsewhere \cup {"idle"}
      /\ elements = <<>>
  BY DEF Elsewhere, SessionInv
<1>2. OtherEffect
  BY <1>1, NothingKept
<1> QED
  BY <1>1, <1>2, ScopelessStepKeeps

(* Counting what a search counts leaves the scopes of a body alone.         *)
LEMMA SearchCounts ==
  ASSUME Sound(meter), NEW d \in {"rdates", "exdates", "overrides", "occurrences"}
  PROVE  /\ Follows(meter, Count(meter, d, 1)) /\ KeepsScopes(meter, Count(meter, d, 1))
         /\ d = "occurrences" /\ ~Fits(meter, d, 1) => Count(meter, d, 1).exhausted
<1>1. /\ d \in Dimension /\ d # "depth" /\ d # "elementDepth" /\ d # "bindings"
      /\ "elementDepth" \in Dimension /\ "bindings" \in Dimension
      /\ d = "occurrences" => d \in Latching
  BY Dimensions
<1>2. /\ Follows(meter, Count(meter, d, 1))
      /\ \A e \in Dimension : e # d => Count(meter, d, 1).count[e] = meter.count[e]
      /\ d \in Latching /\ ~Fits(meter, d, 1) => Count(meter, d, 1).exhausted
  BY <1>1, CountFollows
<1> QED
  BY <1>1, <1>2 DEF KeepsScopes

LEMMA QueryKeeps ==
  ASSUME SessionInv, Query
  PROVE  SessionInv' /\ OtherEffect
<1>1. CASE BeginQuery
  <2>1. /\ phase = "idle" /\ phase' = "query" /\ NoParse
        /\ UNCHANGED <<meter, kept, elements, cut, failed>>
    BY <1>1 DEF BeginQuery, BeginOperation
  <2> QED
    BY <2>1, IdlingKeeps DEF Elsewhere
<1>2. ASSUME NEW attributes \in 0..MaxAttributes, NEW n \in 0..attributes,
             NEW names \in 0..(attributes - n + 1), StartTag(attributes, n, names)
      PROVE  SessionInv' /\ OtherEffect
  <2>1. attributes \in Nat /\ names \in Nat
    BY SessionAssumption DEF SessionAssumption
  <2> QED
    BY <1>2, <2>1, StartTagKeeps
<1>3. ASSUME NEW span \in 0..1, EndTag(span) PROVE SessionInv' /\ OtherEffect
  BY <1>3, EndTagKeeps
<1>4. ASSUME NEW n \in 1..MaxText + 1, Text(n) PROVE SessionInv' /\ OtherEffect
  BY <1>4, TextKeeps
<1>5. ASSUME NEW n \in 0..MaxText, Aside(n) PROVE SessionInv' /\ OtherEffect
  BY <1>5, AsideKeeps
<1>6. ASSUME NEW n \in 0..MaxAttributes, BrokenBody(n) PROVE SessionInv' /\ OtherEffect
  BY <1>6, BrokenBodyKeeps
<1>7. CASE EndQuery
  <2>1. /\ phase = "epilog" /\ phase' = "idle" /\ NoParse
        /\ UNCHANGED <<meter, kept, elements, cut, failed>>
    BY <1>7 DEF EndQuery, Proceed
  <2>2. elements = <<>>
    BY <2>1 DEF SessionInv
  <2> QED
    BY <2>1, <2>2, IdlingKeeps DEF Elsewhere
<1> QED
  BY <1>1, <1>2, <1>3, <1>4, <1>5, <1>6, <1>7 DEF Query

LEMMA SearchKeeps ==
  ASSUME SessionInv, Search
  PROVE  SessionInv' /\ OtherEffect
<1>0. Sound(meter)
  BY DEF SessionInv
<1>1. CASE BeginSearch
  <2>1. /\ phase = "idle" /\ phase' = "search" /\ NoParse
        /\ UNCHANGED <<meter, kept, elements, cut, failed>>
    BY <1>1 DEF BeginSearch, BeginOperation
  <2>2. elements = <<>>
    BY <2>1 DEF SessionInv
  <2> QED
    BY <2>1, <2>2, IdlingKeeps DEF Elsewhere
<1>2. ASSUME NEW d \in {"rdates", "exdates", "overrides"}, Entries(d, 1)
      PROVE  SessionInv' /\ OtherEffect
  <2>1. Follows(meter, meter') /\ KeepsScopes(meter, meter')
    BY <1>0, <1>2, SearchCounts DEF Entries
  <2> QED
    BY <1>2, <2>1, SearchStepKeeps DEF Entries, Step
<1>3. CASE NextPeriod
  <2>1. Follows(meter, meter') /\ KeepsScopes(meter, meter')
    BY <1>0, <1>3, OpenPeriodFollows DEF NextPeriod, Proceed
  <2> QED
    BY <1>3, <2>1, SearchStepKeeps DEF NextPeriod, Proceed, Step
<1>4. CASE Candidate
  <2>1. /\ Follows(meter, meter') /\ KeepsScopes(meter, meter')
        /\ ~AdmitsCandidate(meter) => meter'.exhausted
    BY <1>0, <1>4, CandidateFollows DEF Candidate, Charged
  <2> QED
    BY <1>4, <2>1, SearchStepKeeps DEF Candidate, Charged, Step
<1>5. CASE Occurrence
  <2>1. /\ Follows(meter, meter') /\ KeepsScopes(meter, meter')
        /\ ~Fits(meter, "occurrences", 1) => meter'.exhausted
    BY <1>0, <1>5, SearchCounts DEF Occurrence, Charged
  <2> QED
    BY <1>5, <2>1, SearchStepKeeps DEF Occurrence, Charged, Step
<1>6. CASE EndSearch
  <2>1. /\ phase = "search" /\ phase' = "idle" /\ NoParse
        /\ UNCHANGED <<meter, kept, elements, cut, failed>>
    BY <1>6 DEF EndSearch, Proceed
  <2>2. elements = <<>>
    BY <2>1 DEF SessionInv
  <2> QED
    BY <2>1, <2>2, IdlingKeeps DEF Elsewhere
<1> QED
  BY <1>1, <1>2, <1>3, <1>4, <1>5, <1>6 DEF Search

(* A parse finds the builder as the last document left it.                  *)
LEMMA ParseKeeps ==
  ASSUME SessionInv, Parse
  PROVE  SessionInv' /\ ParseEffect
<1>1. phase \notin Elsewhere
  BY DEF Parse, ParseStep, BeginDocument, SourceFails, TakeName, TakeParameter, TakeValue,
         EndOfLine, EndOfInput, CloseUnclosed, Judge, Elsewhere, Reading
<1>2. InductiveInv /\ Sound(meter) /\ elements = <<>>
  BY <1>1 DEF SessionInv, Elsewhere
<1>3. InductiveInv'
  BY <1>2, StepKeeps DEF Parse
<1>4. ParseEffect
  BY <1>2, ParseStepEffect DEF Parse
<1>5. phase' \notin Elsewhere
  <2>1. phase' \in Reading \cup {"idle", "closing"}
    BY <1>3 DEF InductiveInv, TreeTypeOK
  <2> QED
    BY <2>1 DEF Elsewhere, Reading
<1>6. Sound(meter')
  <2>1. meter' \in Meter /\ Solvent(meter')
    BY <1>3 DEF InductiveInv, TreeTypeOK, TreeInv, Ledgered, Solvent
  <2> QED
    BY <1>2, <1>4, <2>1 DEF ParseEffect, KeepsScopes, Sound
<1>7. ~failed' => ScopesCounted'
  <2> SUFFICES ASSUME ~failed' PROVE ScopesCounted'
    OBVIOUS
  <2>1. ~failed /\ outcome' \notin Refusal
    BY DEF Parse
  <2> QED
    BY <1>4, <2>1, ScopesStay DEF SessionInv, ParseEffect, Parse
<1>8. CutSearchIsReported'
  BY <1>4 DEF SessionInv, CutSearchIsReported, ParseEffect, Parse
<1> QED
  BY <1>2, <1>3, <1>4, <1>5, <1>6, <1>7, <1>8 DEF SessionInv, Parse

-------------------------------------------------------------------------------
(* The theorems *)

LEMMA SessionInit ==
  ASSUME Init
  PROVE  SessionInv
<1>1. InductiveInv
  BY InitHolds DEF Init
<1>2. phase = "idle" /\ elements = <<>> /\ abandoned = 0 /\ cut = FALSE
  BY DEF Init, TreeInit
<1>3. \A d \in Dimension : meter.count[d] = 0
  BY DEF Init, TreeInit, FreshMeter
<1>4. Sound(meter)
  BY <1>1, <1>3, MeterSolvent, Dimensions DEF Sound
<1>5. ScopesCounted
  BY <1>2, <1>3, EmptyScopes, Dimensions
<1>6. elements \in Seq(Nat)
  BY <1>2, EmptySeq
<1> QED
  BY <1>1, <1>2, <1>4, <1>5, <1>6 DEF SessionInv, CutSearchIsReported, Elsewhere

LEMMA SessionStep ==
  ASSUME SessionInv, [Next]_vars
  PROVE  /\ SessionInv'
         /\ meter.exhausted => meter'.exhausted /\ meter'.spent = meter.spent /\ kept' = kept
<1>1. CASE Parse
  BY <1>1, ParseKeeps DEF ParseEffect
<1>2. CASE \E n \in 1..MaxImport : Import(n)
  BY <1>2, ImportKeeps DEF OtherEffect, Follows
<1>3. CASE Query
  BY <1>3, QueryKeeps DEF OtherEffect, Follows
<1>4. CASE Search
  BY <1>4, SearchKeeps DEF OtherEffect, Follows
<1>5. CASE UNCHANGED vars
  <2>1. UNCHANGED <<treeVars, elements, phase, meter, kept, abandoned, cut, failed>>
    BY <1>5 DEF vars, sessionVars, treeVars, ghosts
  <2>2. InductiveInv => InductiveInv'
    BY <2>1, StepKeeps
  <2>3. AtRest => AtRest'
    BY <2>1 DEF AtRest, treeVars, builder, ghosts
  <2>4. ScopesCounted => ScopesCounted'
    BY <2>1 DEF ScopesCounted
  <2> QED
    BY <2>1, <2>2, <2>3, <2>4 DEF SessionInv, CutSearchIsReported
<1> QED
  BY <1>1, <1>2, <1>3, <1>4, <1>5 DEF Next

(* The session's inductive invariant holds of every reachable state.        *)
LEMMA SessionInvariance == Spec => []SessionInv
<1>1. Init => SessionInv
  BY SessionInit
<1>2. SessionInv /\ [Next]_vars => SessionInv'
  BY SessionStep
<1> QED
  BY <1>1, <1>2, PTL DEF Spec

(* What a session keeps of all its documents and imports together stays     *)
(* within the budget, whatever queries and searches ran in between.         *)
THEOREM SessionRetainsWithinBudget == Spec => []RetainedWithinBudget
<1>1. SessionInv => RetainedWithinBudget
  BY DEF SessionInv, AtRest, InductiveInv, TreeInv, RetainedWithinBudget
<1> QED
  BY <1>1, SessionInvariance, PTL

(* No tree of a session nests deeper than the policy.                       *)
THEOREM SessionNestsWithinLimit == Spec => []NestingWithinLimit
<1>1. AtRest => Len(open) = 0 /\ Limits["depth"] \in Nat
  BY Constants DEF AtRest
<1>2. SessionInv => NestingWithinLimit
  BY <1>1 DEF SessionInv, InductiveInv, TreeInv, NestingWithinLimit
<1> QED
  BY <1>2, SessionInvariance, PTL

(* The ledger's depth is that of the open components and of those refused   *)
(* documents abandoned, also while a query or a search is under way.        *)
THEOREM SessionAccountsForDepth == Spec => []DepthAccounted
<1>1. AtRest => Len(open) = 0 /\ abandoned \in Nat /\ meter.count["depth"] = abandoned
  BY DEF AtRest
<1>2. AtRest => DepthAccounted
  BY <1>1 DEF DepthAccounted
<1>3. SessionInv => DepthAccounted
  BY <1>2 DEF SessionInv, InductiveInv, TreeInv
<1> QED
  BY <1>3, SessionInvariance, PTL

(* close_open and leave give back what read_start_tag, bind_declarations    *)
(* and enter took, in every order an unrefused session can reach: between   *)
(* two operations no component, element or prefix is left on the ledger.    *)
THEOREM ScopesAreLeftHolds == Spec => []ScopesAreLeft
<1>1. SessionInv => ScopesAreLeft
  <2> SUFFICES ASSUME SessionInv, phase = "idle", ~failed
               PROVE  \A d \in Scoped : meter.count[d] = 0
    BY DEF ScopesAreLeft
  <2>1. elements = <<>> /\ ScopesCounted /\ AtRest
    BY NoParseIsAtRest DEF SessionInv
  <2>2. abandoned = 0 /\ meter.count["elementDepth"] = 0 /\ meter.count["bindings"] = 0
    BY <2>1, EmptyScopes
  <2>3. meter.count["depth"] = 0
    BY <2>1, <2>2 DEF AtRest
  <2> QED
    BY <2>2, <2>3 DEF Scoped
<1> QED
  BY <1>1, SessionInvariance, PTL

(* Charges::terminal is set only by a refusal that also latches the ledger, *)
(* so a search that was cut short is still reported when it has ended.      *)
THEOREM CutSearchIsReportedHolds == Spec => []CutSearchIsReported
<1>1. SessionInv => CutSearchIsReported
  BY DEF SessionInv
<1> QED
  BY <1>1, SessionInvariance, PTL

(* Meter::exhausted is never taken back: neither leave, open_period nor a   *)
(* later charge lets an exhausted ledger spend or keep an octet more.       *)
THEOREM ExhaustionIsFinalHolds == Spec => ExhaustionIsFinal
<1>1. SessionInv /\ [Next]_vars =>
        [meter.exhausted => meter'.exhausted /\ meter'.spent = meter.spent
                                             /\ kept' = kept]_vars
  BY SessionStep
<1> QED
  BY <1>1, SessionInvariance, PTL DEF Spec, ExhaustionIsFinal

===============================================================================
