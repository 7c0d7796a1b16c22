------------------------------- MODULE Editor --------------------------------
(***************************************************************************)
(* The transactional editor of calendar.rs over the lines of a calendar    *)
(* that was accepted: a private copy, the two doors that change it, and a  *)
(* commit that writes the copy out and reads it back.                      *)
(*                                                                         *)
(* A calendar is its events between its two boundaries; an item of an event*)
(* is the lines of a property, one, or those of a component inside.  A name*)
(* is one octet of its own.                                                *)
(***************************************************************************)
EXTENDS LineReading

CONSTANTS
  Calendars,              \* the calendars an editor may be opened on
  Uids, VendorNames, Values,
  MaxValue, MaxInput,     \* the policy's limits
  MaxEdits, MaxCommits    \* bounds of the runs

ASSUME EditorLimits ==
  MaxValue \in Nat /\ MaxInput \in Nat /\ MaxEdits \in Nat /\ MaxCommits \in Nat

VARIABLES
  calendar,               \* the lines of the target
  editing, working,       \* Editor.working
  edits, commits,
  touched,                \* history: what has been set since edit()
  outcome                 \* of the last commit

vars == <<calendar, editing, working, edits, commits, touched, outcome>>

Init ==
  /\ calendar \in Calendars /\ editing = FALSE /\ working = calendar
  /\ edits = 0 /\ commits = 0 /\ touched = {} /\ outcome = "none"

(* Names are compared without regard to case.                              *)
IdOf(name) == IF name = <<"x-a">> THEN <<"X-A">> ELSE name

Begins(line) == IdOf(line.name) = <<"BEGIN">>
Finishes(line) == IdOf(line.name) = <<"END">>

IsProperty(item) == Len(item) = 1

(* find_event_mut: the first event whose first UID is the one wanted.      *)
WithId(event, id) ==
  {k \in DOMAIN event.items : IsProperty(event.items[k]) /\ IdOf(event.items[k][1].name) = id}
HasUid(event, uid) ==
  LET held == WithId(event, <<"UID">>)
  IN  held # {} /\ event.items[Least(held)][1].value = uid
Found(doc, uid) == {e \in DOMAIN doc.events : HasUid(doc.events[e], uid)}

(* insert_property: before the first component inside, or else at the end. *)
InsertionPoint(event) ==
  Least({Len(event.items) + 1} \cup {k \in DOMAIN event.items : ~IsProperty(event.items[k])})
Inserted(items, at, line) ==
  SubSeq(items, 1, at - 1) \o <<<<line>>>> \o SubSeq(items, at, Len(items))

(* Mutant: IsWritableLineFeed lets a line feed through.                    *)
Control == {"CR", "LF", "TAB", "NUL"}
IsWritableLineFeed(value) == \A i \in DOMAIN value : value[i] \notin Control \ {"LF"}
IsWritable(value) == \A i \in DOMAIN value : value[i] \notin Control

CreatedLine(name, value) ==
  [name |-> name, parameters |-> << >>, value |-> value, hasSeparator |-> TRUE,
   folds |-> << >>, ending |-> "CRLF", refolded |-> TRUE]

(* PropertyMut::set and set_raw of the first line with the name, or else   *)
(* Property::create and insert_property.                                   *)
SetProperty(uid, name, value) ==
  LET e     == Least(Found(working, uid))
      event == working.events[e]
      held  == WithId(event, IdOf(name))
      set(line) == [line EXCEPT !.value = value, !.folds = << >>, !.hasSeparator = TRUE,
                                !.refolded = TRUE]
  IN  working' = [working EXCEPT !.events[e].items =
        IF held # {} THEN [@ EXCEPT ![Least(held)] = <<set(@[1])>>]
        ELSE Inserted(@, InsertionPoint(event), CreatedLine(name, value))]

Edit ==
  /\ ~editing /\ commits < MaxCommits
  /\ editing' = TRUE /\ working' = calendar /\ touched' = {} /\ outcome' = "none"
  /\ UNCHANGED <<calendar, edits, commits>>

(* encode_text: a comma, a semicolon and a line feed are escaped; other    *)
(* controls are refused, all but the tab, which the property refuses.      *)
Encode(text) ==
  LET of(octet) == CASE octet \in {",", ";"} -> <<"bslash", octet>>
                     [] octet = "LF" -> <<"bslash", "n">>
                     [] OTHER -> <<octet>>
      upTo[i \in 0..Len(text)] == IF i = 0 THEN << >> ELSE upTo[i - 1] \o of(text[i])
  IN  upTo[Len(text)]

Changes(uid, name, value) ==
  /\ editing /\ edits < MaxEdits /\ Found(working, uid) # {} /\ IsWritable(value)
  /\ SetProperty(uid, name, value)
  /\ edits' = edits + 1
  /\ touched' = touched \cup {<<uid, IdOf(name)>>}
  /\ UNCHANGED <<calendar, editing, commits, outcome>>

SetSummary ==
  \E uid \in Uids, text \in Values : Changes(uid, <<"SUMMARY">>, Encode(text))

SetVendorProperty ==
  \E uid \in Uids, name \in VendorNames, value \in Values : Changes(uid, name, value)

-----------------------------------------------------------------------------
Concat(seqs) ==
  LET upTo[i \in 0..Len(seqs)] == IF i = 0 THEN << >> ELSE upTo[i - 1] \o seqs[i]
  IN  upTo[Len(seqs)]
EventLines(event) == <<event.begin>> \o Concat(event.items) \o <<event.end>>
AllLines(doc) ==
  <<doc.begin>> \o Concat([e \in DOMAIN doc.events |-> EventLines(doc.events[e])]) \o <<doc.end>>

(* The same calendar with another line for each of its lines.              *)
MapLines(of(_), doc) ==
  LET items(its) == [k \in DOMAIN its |-> [l \in DOMAIN its[k] |-> of(its[k][l])]]
      event(e)   == [begin |-> of(e.begin), items |-> items(e.items), end |-> of(e.end)]
  IN  [begin |-> of(doc.begin), events |-> [e \in DOMAIN doc.events |-> event(doc.events[e])],
       end |-> of(doc.end)]

(* parse_calendar of what was written, line by line: every line ends with  *)
(* a line break, so none is read into the next.  Its boundaries match as   *)
(* long as no property reads back as one.                                  *)
ReadBack(line) == LinesOf(WriteLine(line))

PhysicalWidths(t) ==
  LET begins == {1} \cup {After(t, p) : p \in Terminators(t)}
      ends   == Terminators(t) \cup {Len(t) + 1}
  IN  {Least({e \in ends : e >= b}) - b : b \in begins \cap (DOMAIN t)}

IsWellFormed(line) ==
  LET read == ReadBack(line)
  IN  /\ Len(read) = 1
      /\ read[1].name # << >> /\ read[1].hasSeparator /\ read[1].ending = "CRLF"
      /\ \A k \in DOMAIN read[1].folds : read[1].folds[k].newline = "CRLF"
      /\ \A k \in DOMAIN read[1].value : read[1].value[k] # "NUL"
      /\ Begins(read[1]) <=> Begins(line)
      /\ Finishes(read[1]) <=> Finishes(line)
      /\ \A w \in PhysicalWidths(WriteLine(line)) : w <= RefoldWidth + 1

(* What is wrong with the lines, in the order parse_calendar finds it.     *)
Verdict(ls) ==
  IF Len(WriteLines(ls)) > MaxInput \/ \E i \in DOMAIN ls : Len(ls[i].value) > MaxValue
  THEN "limit"
  ELSE IF \A i \in DOMAIN ls : IsWellFormed(ls[i]) THEN "accepted" ELSE "malformed"

(* Mutant: the target is replaced before the copy has been read back.      *)
CommitInPlace ==
  /\ editing
  /\ outcome' = Verdict(AllLines(working))
  /\ calendar' = MapLines(LAMBDA line : ReadBack(line)[1], working)
  /\ editing' = FALSE /\ commits' = commits + 1
  /\ UNCHANGED <<working, edits, touched>>

(* Mutant: every line is folded anew.                                      *)
CommitRefoldingAll ==
  /\ editing
  /\ outcome' = Verdict(AllLines(working))
  /\ calendar' = IF outcome' = "accepted"
                 THEN MapLines(LAMBDA line : [ReadBack(line)[1] EXCEPT !.folds = << >>], working) ELSE calendar
  /\ editing' = FALSE /\ commits' = commits + 1
  /\ UNCHANGED <<working, edits, touched>>

Commit ==
  /\ editing
  /\ outcome' = Verdict(AllLines(working))
  /\ calendar' = IF outcome' = "accepted"
                 THEN MapLines(LAMBDA line : ReadBack(line)[1], working) ELSE calendar
  /\ editing' = FALSE /\ commits' = commits + 1
  /\ UNCHANGED <<working, edits, touched>>

Drop ==
  /\ editing /\ editing' = FALSE /\ commits' = commits + 1
  /\ UNCHANGED <<calendar, working, edits, touched, outcome>>

Next == Edit \/ SetSummary \/ SetVendorProperty \/ Commit \/ Drop

Spec == Init /\ [][Next]_vars

-----------------------------------------------------------------------------
(* What an application sees of an event: the value of each property, or    *)
(* nothing.                                                                *)
Keys == Uids \X ({<<"SUMMARY">>} \cup {IdOf(name) : name \in VendorNames})
Holds(doc) ==
  [key \in Keys |->
     LET events == Found(doc, key[1])
         held   == IF events = {} THEN {} ELSE WithId(doc.events[Least(events)], key[2])
     IN  IF held = {} THEN <<"absent">>
         ELSE <<"held", doc.events[Least(events)].items[Least(held)][1].value>>]

Register == INSTANCE Draft WITH
              committed <- Holds(calendar), draft <- Holds(working), editing <- editing,
              accepted <- outcome = "accepted"

(* Whatever is set, refolded, written out and read back, the calendar      *)
(* holds either what it held or everything the editor set, value for value *)
(* (Editor::commit, "atomically replace the target").                      *)
ImplementsDraft == Register!DraftSpec

(* A commit changes the lines that were set and no octet of any other, the *)
(* folds of the others included ("commit_is_line_local").                  *)
Rest(doc) ==
  LET skipped(e) ==
        UNION {{Least(WithId(doc.events[e], t[2]))} :
                 t \in {u \in touched : /\ Found(doc, u[1]) # {} /\ Least(Found(doc, u[1])) = e
                                        /\ WithId(doc.events[e], u[2]) # {}}}
      kept(e) ==
        LET items == doc.events[e].items
            upTo[k \in 0..Len(items)] ==
              IF k = 0 THEN << >>
              ELSE IF k \in skipped(e) THEN upTo[k - 1] ELSE Append(upTo[k - 1], items[k])
        IN  upTo[Len(items)]
  IN  [doc EXCEPT !.events = [e \in DOMAIN @ |-> [@[e] EXCEPT !.items = kept(e)]]]
CommitIsLineLocal == [][calendar' # calendar => Rest(calendar') = Rest(calendar)]_vars

(* The doors refuse what could not be read back: a commit is refused for   *)
(* the limits of the policy only.                                          *)
CommitFailsForLimitsOnly == outcome # "malformed"
=============================================================================
