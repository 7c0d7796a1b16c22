------------------------------ MODULE CalendarTree ------------------------------
(***************************************************************************)
(* Session::parse: the TreeBuilder folds the tokens of a ContentLineReader *)
(* into lines and the lines into a tree, charging the session's ledger as  *)
(* it goes, and parse_calendar accepts or rejects what came out.  Several  *)
(* documents are read on one ledger, one after another.                    *)
(*                                                                         *)
(* A name, a parameter and a chunk of a value are words; a word is one     *)
(* octet of the budgets, which are compared with nothing else.  Words that *)
(* eq_name takes for the same name are the same word.                      *)
(***************************************************************************)
EXTENDS Ledger, Sequences

CONSTANTS PropertyName,   \* names of property lines; "" is an empty name
          ValueWord,      \* chunks a value is delivered in
          MaxValueOctets, \* Limits::max_value_bytes
          FoldOctets,     \* a fold's terminator and whitespace octet
          MaxFolds,       \* bound: folds of one line
          MaxParameters,  \* bound: parameters of one line
          Damage,         \* bound: the defects lines have, of these two
          MaxOdd,         \* bound: lines of one document with any of them, or
                          \* without a name, or with parameters
          MaxLines,       \* bound: lines of one document
          MaxDocuments    \* bound: documents read on the ledger

ASSUME TreeAssumption == /\ MaxValueOctets \in Nat /\ MaxFolds \in Nat
                         /\ MaxParameters \in Nat /\ MaxLines \in Nat
                         /\ MaxDocuments \in Nat /\ MaxOdd \in Nat
                         /\ "VCALENDAR" \in ValueWord
                         /\ FoldOctets \in {2, 3}
                         /\ Damage \subseteq {"separator", "octets"}

Name == PropertyName \cup {"BEGIN", "END"}

(* Parameter::without_value and Parameter::new *)
Parameter == {"bare", "valued"}
ParameterOctets(p) == IF p = "bare" THEN 1 ELSE 2
NameOctets(w) == IF w = "" THEN 0 ELSE 1

(* What a line's layout keeps: whether the ":" was written, its folds, and  *)
(* whether its terminators, widths and octets are all as RFC 5545 wants.    *)
Layout == [separator : BOOLEAN, folds : Nat, clean : BOOLEAN]

PendingLine == [name : Name \cup {""}, parameters : Seq(Parameter), value : Seq(ValueWord)]
Line == [name : Name, parameters : Seq(Parameter), value : Seq(ValueWord),
         layout : Layout]

VARIABLES
  meter,      \* Session::meter
  phase,      \* where the read of a document stands
  pending,    \* TreeBuilder::pending
  open,       \* TreeBuilder::open
  root,       \* TreeBuilder::root
  faulty,     \* a diagnostic of an error or warning level was reported
  outcome,    \* how the last document ended
  documents,  \* documents begun
  abandoned,  \* components refused documents left open, all in all
  dropped,    \* components the last refused document left open
  current,    \* what the source has delivered of the line being read
  lines,      \* the content lines the source has delivered of this document
  kept        \* octets appended to any line so far

builder == <<pending, open, root, faulty>>
ghosts == <<abandoned, dropped, current, lines, kept>>
treeVars == <<meter, phase, builder, outcome, documents, ghosts>>

BlankLine == [name |-> "", parameters |-> <<>>, value |-> <<>>]

Reading == {"line", "header", "value"}
Refusal == {"source", "octets", "value", "items", "depth"}

TreeInit ==
  /\ meter = FreshMeter
  /\ phase = "idle"
  /\ pending = BlankLine
  /\ open = <<>>
  /\ root = <<>>
  /\ faulty = FALSE
  /\ outcome = "none"
  /\ documents = 0
  /\ abandoned = 0
  /\ dropped = 0
  /\ current = BlankLine
  /\ lines = <<>>
  /\ kept = 0

-------------------------------------------------------------------------------
(* Refusals: every error of the reader drops the builder where it stands.   *)
(* The ledger keeps what it was charged, the open components included.      *)

Refuse(why, m) ==
  /\ meter' = m
  /\ phase' = "idle"
  /\ outcome' = why
  /\ pending' = BlankLine
  /\ open' = <<>>
  /\ root' = <<>>
  /\ faulty' = FALSE
  /\ abandoned' = abandoned + Len(open)
  /\ dropped' = Len(open)
  /\ current' = BlankLine
  /\ lines' = <<>>
  /\ UNCHANGED <<documents, kept>>

BeginDocument ==
  /\ phase = "idle"
  /\ documents < MaxDocuments
  /\ documents' = documents + 1
  /\ phase' = "line"
  /\ outcome' = "none"
  /\ root' = <<>>
  /\ dropped' = 0
  /\ lines' = <<>>
  /\ UNCHANGED <<meter, pending, open, faulty, abandoned, current, kept>>

(* The reader itself refuses: a header, a parameter or a fold too many.     *)
SourceFails == phase \in Reading /\ Refuse("source", meter)

-------------------------------------------------------------------------------
(* Tokens, in the order the reader delivers those of one line *)

IsOdd(line) == \/ line.name = "" \/ line.parameters # <<>>
               \/ ~line.layout.separator \/ ~line.layout.clean
MayBeOdd == Len(SelectSeq(lines, IsOdd)) < MaxOdd

TakeName(w) ==
  /\ phase = "line"
  /\ Len(lines) < MaxLines
  /\ w = "" => MayBeOdd
  /\ IF Admits(meter, NameOctets(w))
     THEN /\ meter' = Charge(meter, NameOctets(w))
          /\ kept' = kept + NameOctets(w)
          /\ pending' = [pending EXCEPT !.name = w]
          /\ current' = [BlankLine EXCEPT !.name = w]
          /\ phase' = "header"
          /\ UNCHANGED <<open, root, faulty, outcome, documents, abandoned, dropped, lines>>
     ELSE Refuse("octets", Charge(meter, NameOctets(w)))

(* Name and value are charged one after the other and kept together. *)
ChargeParameter(m, p) == IF p = "bare" THEN Charge(m, 1)
                         ELSE Charge(Charge(m, 1), 1)
AdmitsParameter(m, p) == /\ Admits(m, 1)
                         /\ p = "valued" => Admits(Charge(m, 1), 1)

TakeParameter(p) ==
  /\ phase = "header"
  /\ Len(pending.parameters) < MaxParameters
  /\ MayBeOdd
  /\ IF AdmitsParameter(meter, p)
     THEN /\ meter' = ChargeParameter(meter, p)
          /\ kept' = kept + ParameterOctets(p)
          /\ pending' = [pending EXCEPT !.parameters = Append(@, p)]
          /\ current' = [current EXCEPT !.parameters = Append(@, p)]
          /\ UNCHANGED <<phase, open, root, faulty, outcome, documents, abandoned, dropped, lines>>
     ELSE Refuse("octets", ChargeParameter(meter, p))

(* The bound of one value is tested before the ledger is charged. *)
TakeValue(w) ==
  /\ phase \in {"header", "value"}
  /\ IF Len(pending.value) + 1 > MaxValueOctets THEN Refuse("value", meter)
     ELSE IF ~Admits(meter, 1) THEN Refuse("octets", Charge(meter, 1))
     ELSE /\ meter' = Charge(meter, 1)
          /\ kept' = kept + 1
          /\ pending' = [pending EXCEPT !.value = Append(@, w)]
          /\ current' = [current EXCEPT !.value = Append(@, w)]
          /\ phase' = "value"
          /\ UNCHANGED <<open, root, faulty, outcome, documents, abandoned, dropped, lines>>

(* charge_folds stops at the fold the budget refuses. *)
ChargeFolds(m, n) ==
  LET refusedAt == 1 + (Budget - m.spent) \div FoldOctets
  IN  IF n = 0 THEN m
      ELSE IF Admits(m, n * FoldOctets) THEN Charge(m, n * FoldOctets)
      ELSE Charge(m, refusedAt * FoldOctets)

-------------------------------------------------------------------------------
(* The line that ended *)

Laid(line, layout) == [name |-> line.name, parameters |-> line.parameters,
                       value |-> line.value, layout |-> layout]
LineOf(layout) == Laid(pending, layout)

(* Boundary::new keeps everything but the parameters. *)
BoundaryOf(layout) == [LineOf(layout) EXCEPT !.parameters = <<>>]

(* LineKind, with "damaged" for a property that carries a diagnostic. *)
Classify(layout) ==
  IF pending.name = "" \/ ~layout.separator THEN "damaged"
  ELSE IF pending.name \notin {"BEGIN", "END"} THEN "property"
  ELSE IF pending.parameters # <<>> THEN "damaged"
  ELSE pending.name

Property(line) == [kind |-> "property", line |-> line]
Component(opened, end) == [kind |-> "component", begin |-> opened.begin,
                           items |-> opened.items, end |-> end]

(* push_item after the stack has become `stack'. *)
PushItem(stack, item) ==
  IF stack = <<>>
    THEN open' = stack /\ root' = Append(root, item)
    ELSE /\ open' = [stack EXCEPT ![Len(stack)].items = Append(@, item)]
         /\ root' = root

Innermost == open[Len(open)]
Outer == SubSeq(open, 1, Len(open) - 1)

(* The mutant closes whatever is open. *)
ClosesAnyName == open # <<>>

(* What an END does: it closes the innermost component of its name, or is   *)
(* kept as a property with UnmatchedEnd or MismatchedEndName.               *)
Closes == open # <<>> /\ Innermost.begin.value = pending.value

(* The mutant does not take the pending line. *)
LineDoneKeepingPending(layout, fault) ==
  /\ faulty' = (faulty \/ fault)
  /\ lines' = Append(lines, Laid(current, layout))
  /\ current' = BlankLine
  /\ pending' = pending
  /\ phase' = "line"
  /\ UNCHANGED <<outcome, documents, abandoned, dropped>>

LineDone(layout, fault) ==
  /\ faulty' = (faulty \/ fault)
  /\ lines' = Append(lines, Laid(current, layout))
  /\ current' = BlankLine
  /\ pending' = BlankLine
  /\ phase' = "line"
  /\ UNCHANGED <<outcome, documents, abandoned, dropped>>

StoreProperty(layout, m, fault) ==
  IF ~Fits(m, "items", 1) THEN Refuse("items", m)
  ELSE /\ meter' = Count(m, "items", 1)
       /\ PushItem(open, Property(LineOf(layout)))
       /\ kept' = kept + layout.folds * FoldOctets
       /\ LineDone(layout, fault \/ ~layout.clean)

(* The mutant opens whatever the nesting. *)
OpenComponentUnentered(layout, m) ==
  /\ Fits(m, "items", 1)
  /\ meter' = Count(m, "items", 1)
  /\ open' = Append(open, [begin |-> BoundaryOf(layout), items |-> <<>>])
  /\ kept' = kept + layout.folds * FoldOctets
  /\ LineDone(layout, ~layout.clean)
  /\ UNCHANGED root

(* Entered before anything is stored. *)
OpenComponent(layout, m) ==
  LET counted == Count(m, "items", 1)
  IN  IF ~Fits(m, "items", 1) THEN Refuse("items", m)
      ELSE IF ~Fits(counted, "depth", 1) THEN Refuse("depth", counted)
      ELSE /\ meter' = Count(counted, "depth", 1)
           /\ open' = Append(open, [begin |-> BoundaryOf(layout), items |-> <<>>])
           /\ kept' = kept + layout.folds * FoldOctets
           /\ LineDone(layout, ~layout.clean)
           /\ UNCHANGED root

CloseComponent(layout, m) ==
  IF Closes
  THEN /\ meter' = Leave(m, "depth", 1)
       /\ PushItem(Outer, Component(Innermost, <<BoundaryOf(layout)>>))
       /\ kept' = kept + layout.folds * FoldOctets
       /\ LineDone(layout, ~layout.clean)
  ELSE StoreProperty(layout, m, TRUE)

(* EndOfLine: folds charged, line classified and applied.  A value chunk    *)
(* only ever follows the separator.                                         *)
EndOfLine(layout) ==
  /\ phase \in {"header", "value"}
  /\ phase = "value" => layout.separator
  /\ ~layout.separator \/ ~layout.clean => MayBeOdd
  /\ LET m == ChargeFolds(meter, layout.folds)
         kind == Classify(layout)
     IN  IF m.exhausted THEN Refuse("octets", m)
         ELSE CASE kind = "BEGIN" -> OpenComponent(layout, m)
                [] kind = "END" -> CloseComponent(layout, m)
                [] OTHER -> StoreProperty(layout, m, kind = "damaged")

-------------------------------------------------------------------------------
(* into_items and parse_calendar *)

EndOfInput ==
  /\ phase = "line"
  /\ phase' = "closing"
  /\ UNCHANGED <<meter, builder, outcome, documents, ghosts>>

(* The mutant keeps the charge of a component nobody closed. *)
CloseUnclosedKeepingDepth ==
  /\ phase = "closing"
  /\ open # <<>>
  /\ PushItem(Outer, Component(Innermost, <<>>))
  /\ faulty' = TRUE
  /\ UNCHANGED <<meter, phase, pending, outcome, documents, ghosts>>

(* One turn of the loop over the components still open: UnclosedComponent.  *)
CloseUnclosed ==
  /\ phase = "closing"
  /\ open # <<>>
  /\ meter' = Leave(meter, "depth", 1)
  /\ PushItem(Outer, Component(Innermost, <<>>))
  /\ faulty' = TRUE
  /\ UNCHANGED <<phase, pending, outcome, documents, ghosts>>

IsComponent(item) == item.kind = "component"

(* validate_document_shape: one VCALENDAR and nothing beside it. *)
WellShaped(items) == /\ Len(items) = 1
                     /\ IsComponent(items[1])
                     /\ items[1].begin.value = <<"VCALENDAR">>

(* `schema' stands for audit_document and the checks of known values; an    *)
(* accepted tree is the Calendar handed back.                               *)
Judge(schema) ==
  /\ phase = "closing"
  /\ open = <<>>
  /\ phase' = "idle"
  /\ faulty' = FALSE
  /\ IF ~faulty /\ schema /\ WellShaped(root)
     THEN outcome' = "accepted" /\ UNCHANGED <<root, lines>>
     ELSE outcome' = "invalid" /\ root' = <<>> /\ lines' = <<>>
  /\ UNCHANGED <<meter, pending, open, documents, abandoned, dropped, current, kept>>

LayoutInput == [separator : IF "separator" \in Damage THEN BOOLEAN ELSE {TRUE},
                folds : 0..MaxFolds,
                clean : IF "octets" \in Damage THEN BOOLEAN ELSE {TRUE}]

ParseStep ==
  \/ BeginDocument
  \/ SourceFails
  \/ \E w \in Name : TakeName(w)
  \/ \E p \in Parameter : TakeParameter(p)
  \/ \E w \in ValueWord : TakeValue(w)
  \/ \E layout \in LayoutInput : EndOfLine(layout)
  \/ EndOfInput
  \/ CloseUnclosed
  \/ \E schema \in BOOLEAN : Judge(schema)

TreeSpec == TreeInit /\ [][ParseStep]_treeVars

-------------------------------------------------------------------------------
(* Properties *)

Outcome == Refusal \cup {"none", "accepted", "invalid"}

(* Every field has its type, and between two lines nothing of the last one  *)
(* is left in TreeBuilder::pending to leak into the next.                   *)
TreeTypeOK ==
  /\ meter \in Meter
  /\ phase \in Reading \cup {"idle", "closing"}
  /\ pending \in PendingLine
  /\ phase \notin {"header", "value"} => pending = BlankLine
  /\ phase = "idle" => open = <<>>
  /\ phase = "header" => pending.value = <<>>
  /\ faulty \in BOOLEAN
  /\ outcome \in Outcome
  /\ documents \in Nat
  /\ abandoned \in Nat
  /\ dropped \in Nat
  /\ kept \in Nat

(* All documents of the session together never make the builder keep more   *)
(* octets, those of its folds included, than the caller's budget.           *)
RetainedWithinBudget == kept <= Budget

(* However many documents came before, no tree nests deeper than the policy. *)
NestingWithinLimit == Len(open) <= Limits["depth"]

(* Every BEGIN that entered the ledger leaves it again when its component   *)
(* is closed, by its END or by the end of the input: the ledger's depth is  *)
(* that of the open components and of those refused documents abandoned.    *)
DepthAccounted == meter.count["depth"] = Len(open) + abandoned

(* What the three need to be inductive: while the ledger still admits       *)
(* octets, everything kept has been paid for out of the budget.             *)
Ledgered ==
  /\ meter.count["depth"] <= Limits["depth"]
  /\ kept <= meter.spent
  /\ ~meter.exhausted => meter.spent <= Budget
  /\ phase \in {"header", "value"} => ~meter.exhausted

TreeInv == RetainedWithinBudget /\ NestingWithinLimit /\ DepthAccounted /\ Ledgered

(* A refusal for depth means that the document at hand nests deeper than    *)
(* Limits::max_component_depth.                                             *)
DepthRefusalIsEarned == outcome = "depth" => dropped = Limits["depth"]
===============================================================================
