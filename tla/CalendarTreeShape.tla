--------------------------- MODULE CalendarTreeShape ---------------------------
(***************************************************************************)
(* What the trees of CalendarTree are worth: the lines they write back, and *)
(* the documents they accept, against a grammar stated over the lines.     *)
(***************************************************************************)
EXTENDS CalendarTree, SequencesExt

(* Serialization order: an entry's lines, a component between its boundary  *)
(* lines, the END only when one was read.                                   *)
RECURSIVE WrittenItem(_)
WrittenItem(item) ==
  IF IsComponent(item)
    THEN <<item.begin>>
         \o FlattenSeq([i \in DOMAIN item.items |-> WrittenItem(item.items[i])])
         \o item.end
    ELSE <<item.line>>

Written(items) == FlattenSeq([i \in DOMAIN items |-> WrittenItem(items[i])])

WrittenTree ==
  Written(root) \o
  FlattenSeq([i \in DOMAIN open |-> <<open[i].begin>> \o Written(open[i].items)])

(* RFC 5545 over the lines themselves: each line sound, each END naming the *)
(* nearest BEGIN still open, and one VCALENDAR around everything.           *)
Sound(line) == /\ line.layout.clean
               /\ line.layout.separator
               /\ line.name # ""
               /\ line.name \in {"BEGIN", "END"} => line.parameters = <<>>

Height(ls, i) == Cardinality({j \in 1..i : ls[j].name = "BEGIN"})
                 - Cardinality({j \in 1..i : ls[j].name = "END"})

OpenerOf(ls, i) ==
  Max({j \in 1..(i - 1) : ls[j].name = "BEGIN" /\ Height(ls, j) = Height(ls, i) + 1})

IsCalendar(ls) ==
  /\ \A i \in DOMAIN ls : Sound(ls[i])
  /\ \A i \in DOMAIN ls : IF i = Len(ls) THEN Height(ls, i) = 0 ELSE Height(ls, i) > 0
  /\ \A i \in DOMAIN ls : ls[i].name = "END" => ls[OpenerOf(ls, i)].value = ls[i].value
  /\ ls # <<>> /\ ls[1].name = "BEGIN" /\ ls[1].value = <<"VCALENDAR">>

(* Lossless at every token: what has been read, closed or not, damaged or   *)
(* not, is in the tree, once, in order, and so is an accepted calendar.     *)
TreeWritesItsLines ==
  phase # "idle" \/ outcome = "accepted" => WrittenTree = lines

(* Tree and diagnostics together decide exactly the grammar of the lines:   *)
(* no calendar is turned away for its structure and nothing else passes,    *)
(* and what has been accepted is the calendar that was read.                *)
VerdictIsGrammar ==
  /\ phase = "closing" /\ open = <<>> =>
       (~faulty /\ WellShaped(root) <=> IsCalendar(lines))
  /\ outcome = "accepted" => IsCalendar(lines)

===============================================================================
