-------------------------------- MODULE Ledger --------------------------------
(***************************************************************************)
(* Meter: the ledger one parse, one query or one whole Session is charged  *)
(* against.  Octets are charged against a budget, everything else against  *)
(* a counter of its own; a refusal by the octet budget or by one of the    *)
(* search counters sets the flag `exhausted', a refusal by any other       *)
(* counter leaves the ledger as it was.                                    *)
(***************************************************************************)
EXTENDS Naturals

CONSTANTS Budget,   \* octets this ledger admits
          Limits,   \* the policy: what each dimension admits
          Top       \* the largest value of each dimension's integer type

(* Dimensions that are given back when a component, an element or a prefix  *)
(* goes out of scope, those whose refusal latches, and all the others.      *)
Scoped == {"depth", "elementDepth", "bindings"}
Latching == {"candidates", "occurrences", "freebusyPeriods"}
Aggregate == {"items", "elements", "responses", "rdates", "exdates",
              "overrides", "observances", "zones"}
Dimension == Scoped \cup Latching \cup Aggregate

(* A ResourcePolicy lets the caller set the budget and the occurrence       *)
(* ceiling freely and keeps every other limit far below its type's maximum. *)
(* No input has 2^64 - 1 octets, so the largest budget admits what one less *)
(* does.                                                                    *)
ASSUME LedgerAssumption ==
  /\ Top \in [Dimension \cup {"spent"} -> Nat]
  /\ Limits \in [Dimension -> Nat]
  /\ Budget \in Nat /\ Budget < Top["spent"]
  /\ \A d \in Dimension : \/ Limits[d] < Top[d]
                          \/ d = "occurrences" /\ Limits[d] = Top[d]

Meter == [spent : Nat, count : [Dimension -> Nat],
          candidatesCharged : Nat, exhausted : BOOLEAN]

(* Meter::with_budget *)
FreshMeter == [spent |-> 0, count |-> [d \in Dimension |-> 0],
               candidatesCharged |-> 0, exhausted |-> FALSE]

SaturatingAdd(a, b, top) == IF a + b <= top THEN a + b ELSE top
SaturatingSub(a, b) == IF b <= a THEN a - b ELSE 0

-------------------------------------------------------------------------------
(* The octet budget: charge, and the wrappers that only change its answer.  *)

Admits(m, units) ==
  ~m.exhausted /\ SaturatingAdd(m.spent, units, Top["spent"]) <= Budget

(* The mutant forgets that an exhausted ledger admits nothing more. *)
ChargeRegardless(m, units) ==
  LET spent == SaturatingAdd(m.spent, units, Top["spent"])
  IN  [m EXCEPT !.spent = spent, !.exhausted = spent > Budget]

(* Charged before it is compared: the refused octets stay on the ledger.    *)
Charge(m, units) ==
  IF m.exhausted THEN m
  ELSE LET spent == SaturatingAdd(m.spent, units, Top["spent"])
       IN  [m EXCEPT !.spent = spent, !.exhausted = spent > Budget]

-------------------------------------------------------------------------------
(* The counters: charge_item, enter, try_enter_element, try_bind_prefix,    *)
(* try_charge_element, ... are one shape over different fields.             *)

Fits(m, d, n) == SaturatingAdd(m.count[d], n, Top[d]) <= Limits[d]

(* The mutant latches on the octet budget only. *)
CountWithoutLatch(m, d, n) ==
  IF Fits(m, d, n)
    THEN [m EXCEPT !.count[d] = SaturatingAdd(@, n, Top[d])]
    ELSE m

Count(m, d, n) ==
  IF Fits(m, d, n)
    THEN [m EXCEPT !.count[d] = SaturatingAdd(@, n, Top[d])]
    ELSE [m EXCEPT !.exhausted = @ \/ d \in Latching]

(* leave, leave_element, unbind_prefix *)
Leave(m, d, n) == [m EXCEPT !.count[d] = SaturatingSub(@, n)]

OpenPeriod(m) == [m EXCEPT !.count["candidates"] = 0]

(* try_charge_candidate: its own ceiling first, then one unit of the shared *)
(* budget, and only a candidate both admit is counted as charged.           *)
AdmitsCandidate(m) == Fits(m, "candidates", 1) /\ Admits(m, 1)

ChargeCandidate(m) ==
  LET counted == Count(m, "candidates", 1)
      charged == Charge(counted, 1)
  IN  IF ~Fits(m, "candidates", 1) THEN counted
      ELSE IF ~Admits(counted, 1) THEN charged
      ELSE [charged EXCEPT !.candidatesCharged = @ + 1]

===============================================================================
