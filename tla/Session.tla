-------------------------------- MODULE Session --------------------------------
(***************************************************************************)
(* A Session of the Engine: documents parsed, documents imported, query    *)
(* bodies read and recurrence searches run, one after another, on a single *)
(* ledger.  Any of them may be refused half way through, and the next one  *)
(* finds the ledger as it was left.                                        *)
(***************************************************************************)
EXTENDS CalendarTree

CONSTANTS MaxImport,      \* bound: octets of an imported document
          MaxOperations,  \* bound: imports, queries and searches
          MaxAttributes,  \* bound: attributes of one start tag
          MaxText,        \* Limits::max_xml_text_bytes
          MaxSteps        \* bound: ledger charges of one query or search

ASSUME SessionAssumption == /\ MaxImport \in Nat /\ MaxOperations \in Nat
                            /\ MaxAttributes \in Nat /\ MaxText \in Nat
                            /\ MaxSteps \in Nat

VARIABLES
  elements,    \* XmlReader::open, as the number of prefixes each declared
  terminal,    \* Charges::terminal: the search was cut short
  operations,  \* operations begun
  steps,       \* charges of the one under way
  refused,     \* some bound of the ledger has refused a charge
  cut,         \* some search was cut short
  failed       \* some operation has failed

sessionVars == <<elements, terminal, operations, steps, refused, cut, failed>>
vars == <<treeVars, sessionVars>>

Init ==
  /\ TreeInit
  /\ elements = <<>>
  /\ terminal = FALSE
  /\ operations = 0
  /\ steps = 0
  /\ refused = FALSE
  /\ cut = FALSE
  /\ failed = FALSE

-------------------------------------------------------------------------------
(* Session::parse *)

LedgerRefusal == {"octets", "items", "depth"}

Parse ==
  /\ ParseStep
  /\ refused' = (refused \/ outcome' \in LedgerRefusal)
  /\ failed' = (failed \/ outcome' \in Refusal)
  /\ UNCHANGED <<elements, terminal, operations, steps, cut>>

(* What every other operation leaves of the parse. *)
NoParse == UNCHANGED <<builder, outcome, documents, abandoned, dropped, current, lines>>

BeginOperation(where) ==
  /\ phase = "idle"
  /\ operations < MaxOperations
  /\ operations' = operations + 1
  /\ phase' = where
  /\ steps' = 0

Step(where) == phase = where /\ steps < MaxSteps /\ steps' = steps + 1

(* The mutant copies the document before it looks at the answer. *)
ImportCopyingFirst(n) ==
  /\ BeginOperation("idle")
  /\ meter' = Charge(meter, n)
  /\ kept' = kept + n
  /\ refused' = (refused \/ ~Admits(meter, n))
  /\ failed' = (failed \/ ~Admits(meter, n))
  /\ NoParse
  /\ UNCHANGED <<elements, terminal, cut>>

(* Import::read_with_policy: the whole document is charged, then copied.    *)
Import(n) ==
  /\ BeginOperation("idle")
  /\ meter' = Charge(meter, n)
  /\ IF Admits(meter, n)
     THEN kept' = kept + n /\ UNCHANGED <<refused, failed>>
     ELSE refused' = TRUE /\ failed' = TRUE /\ UNCHANGED kept
  /\ NoParse
  /\ UNCHANGED <<elements, terminal, cut>>

-------------------------------------------------------------------------------
(* Session::query: the elements and prefixes of the body are on the ledger  *)
(* while they are in scope.                                                 *)

BeginQuery ==
  /\ BeginOperation("query")
  /\ NoParse
  /\ UNCHANGED <<meter, kept, elements, terminal, refused, cut, failed>>

(* Every error is returned at once, and the reader dropped with its stack.  *)
FailQuery(m, byLedger) ==
  /\ meter' = m
  /\ phase' = "idle"
  /\ elements' = <<>>
  /\ refused' = (refused \/ byLedger)
  /\ failed' = TRUE
  /\ NoParse
  /\ UNCHANGED <<kept, terminal, operations, cut>>

Proceed(m) ==
  /\ meter' = m
  /\ NoParse
  /\ UNCHANGED <<kept, terminal, operations, refused, cut, failed>>

(* What is charged one by one: the charge the budget refuses is the last.   *)
ChargeEach(m, n) == IF m.exhausted \/ Admits(m, n) THEN Charge(m, n)
                    ELSE Charge(m, Budget + 1 - m.spent)

(* bind_declarations: the prefix the ledger refuses is the last. *)
BindEach(m, n) ==
  LET room == Limits["bindings"] - m.count["bindings"]
  IN  Count(m, "bindings", IF n <= room THEN n ELSE room)

(* resolve_attributes: every attribute whose name resolves is charged again. *)
ResolveEach(m, attributes, names) ==
  ChargeEach(m, IF names < attributes THEN names ELSE attributes)

(* read_start_tag: every attribute and the tag's span are charged, the      *)
(* declarations among them bound one by one, the names of the others and of *)
(* the tag resolved, `names' of them before one does not, and only then the *)
(* element counted, entered and pushed.                                     *)
StartTag(attributes, n, names) ==
  /\ Step("query")
  /\ LET charged == ChargeEach(meter, attributes + 1)
         bound == BindEach(charged, n)
         resolved == ResolveEach(bound, attributes - n, names)
         counted == Count(resolved, "elements", 1)
     IN  IF charged.exhausted THEN FailQuery(charged, TRUE)
         ELSE IF ~Fits(charged, "bindings", n) THEN FailQuery(bound, TRUE)
         ELSE IF resolved.exhausted THEN FailQuery(resolved, TRUE)
         ELSE IF names <= attributes - n THEN FailQuery(resolved, FALSE)
         ELSE IF ~Fits(resolved, "elements", 1) THEN FailQuery(resolved, TRUE)
         ELSE IF ~Fits(counted, "elementDepth", 1) THEN FailQuery(counted, TRUE)
         ELSE /\ Proceed(Count(counted, "elementDepth", 1))
              /\ elements' = Append(elements, n)
              /\ UNCHANGED phase

(* The mutant leaves the prefixes of the element bound. *)
CloseElementKeepingPrefixes(m) == Leave(m, "elementDepth", 1)

(* close_open: the prefixes of the innermost element go out of scope first. *)
CloseElement(m) ==
  Leave(Leave(m, "bindings", elements[Len(elements)]), "elementDepth", 1)

(* read_end_tag; the end of an empty element has no span of its own.        *)
EndTag(span) ==
  /\ Step("query")
  /\ elements # <<>>
  /\ LET charged == IF span = 0 THEN meter ELSE Charge(meter, span)
     IN  IF span # 0 /\ charged.exhausted THEN FailQuery(charged, TRUE)
         ELSE /\ Proceed(CloseElement(charged))
              /\ elements' = SubSeq(elements, 1, Len(elements) - 1)
              /\ phase' = IF Len(elements) = 1 THEN "epilog" ELSE "query"

(* try_charge_text: the ceiling of one run, then the budget. *)
Text(n) ==
  /\ Step("query")
  /\ elements # <<>>
  /\ LET charged == Charge(meter, n)
     IN  IF n > MaxText THEN FailQuery(meter, TRUE)
         ELSE IF charged.exhausted THEN FailQuery(charged, TRUE)
         ELSE Proceed(charged) /\ UNCHANGED <<elements, phase>>

BodyStep == \E where \in {"query", "epilog"} : Step(where)

(* charge_span of what is no event: the white space outside the root, the   *)
(* XML declaration, a comment.                                              *)
Aside(n) ==
  /\ BodyStep
  /\ LET charged == Charge(meter, n)
     IN  IF charged.exhausted THEN FailQuery(charged, TRUE)
         ELSE Proceed(charged) /\ UNCHANGED <<elements, phase>>

(* Malformed octets anywhere, in a tag behind the n attributes read of it,  *)
(* or a body that is not the query it should be.                            *)
BrokenBody(n) ==
  /\ BodyStep
  /\ n > 0 => phase = "query" /\ ~ChargeEach(meter, n).exhausted
  /\ FailQuery(ChargeEach(meter, n), FALSE)

EndQuery ==
  /\ phase = "epilog"
  /\ phase' = "idle"
  /\ Proceed(meter)
  /\ UNCHANGED <<elements, steps>>

-------------------------------------------------------------------------------
(* Occurrences of a series: Charges in front of the ledger *)

BeginSearch ==
  /\ BeginOperation("search")
  /\ terminal' = FALSE
  /\ NoParse
  /\ UNCHANGED <<meter, kept, elements, refused, cut, failed>>

(* try_charge_rdate_entries, try_charge_exdate_entries and                  *)
(* try_charge_override_entries: before the search, and refusing it whole.   *)
Entries(d, n) ==
  /\ Step("search")
  /\ meter' = Count(meter, d, n)
  /\ refused' = (refused \/ ~Fits(meter, d, n))
  /\ failed' = (failed \/ ~Fits(meter, d, n))
  /\ phase' = IF Fits(meter, d, n) THEN "search" ELSE "idle"
  /\ NoParse
  /\ UNCHANGED <<kept, elements, terminal, operations, cut>>

NextPeriod ==
  /\ Step("search")
  /\ Proceed(OpenPeriod(meter))
  /\ UNCHANGED <<elements, phase>>

(* Charges::candidate and Charges::occurrence: once terminal, nothing more  *)
(* reaches the ledger; the search yields what it has and its end.           *)
Charged(m, admitted) ==
  /\ ~terminal
  /\ meter' = m
  /\ terminal' = ~admitted
  /\ cut' = (cut \/ ~admitted)
  /\ refused' = (refused \/ ~admitted)
  /\ NoParse
  /\ UNCHANGED <<phase, kept, elements, operations, failed>>

Candidate == /\ Step("search")
             /\ Charged(ChargeCandidate(meter), AdmitsCandidate(meter))

Occurrence == /\ Step("search")
              /\ Charged(Count(meter, "occurrences", 1), Fits(meter, "occurrences", 1))

EndSearch ==
  /\ phase = "search"
  /\ phase' = "idle"
  /\ Proceed(meter)
  /\ UNCHANGED <<elements, steps>>

Search == \/ BeginSearch
          \/ \E d \in {"rdates", "exdates", "overrides"} : Entries(d, 1)
          \/ NextPeriod
          \/ Candidate
          \/ Occurrence
          \/ EndSearch

Query == \/ BeginQuery
         \/ \E attributes \in 0..MaxAttributes : \E n \in 0..attributes :
              \E names \in 0..(attributes - n + 1) : StartTag(attributes, n, names)
         \/ \E span \in 0..1 : EndTag(span)
         \/ \E n \in 1..MaxText + 1 : Text(n)
         \/ \E n \in 0..MaxText : Aside(n)
         \/ \E n \in 0..MaxAttributes : BrokenBody(n)
         \/ EndQuery

Next == \/ Parse
        \/ \E n \in 1..MaxImport : Import(n)
        \/ Query
        \/ Search

Spec == Init /\ [][Next]_vars

-------------------------------------------------------------------------------
(* Properties *)

(* What one operation leaves behind never passes for the work of the next:  *)
(* as long as none has failed, a session between two operations holds no    *)
(* component, no element and no prefix.                                     *)
ScopesAreLeft ==
  phase = "idle" /\ ~failed => \A d \in Scoped : meter.count[d] = 0

(* Once exhausted, a ledger stays exhausted and the operations that come    *)
(* after keep nothing: nobody spends his way back into a clean answer.      *)
ExhaustionIsFinal ==
  [][meter.exhausted => meter'.exhausted /\ meter'.spent = meter.spent
                                         /\ kept' = kept]_vars

(* A search that stopped short of its answer has left the report of it on   *)
(* the ledger, for a caller that kept nothing else.                         *)
CutSearchIsReported == cut => meter.exhausted

(* Whatever bound refuses, the ledger reports exhaustion from then on.      *)
RefusalLatches == refused => meter.exhausted
===============================================================================
