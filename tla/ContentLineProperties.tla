------------------------ MODULE ContentLineProperties ------------------------
(***************************************************************************)
(* What reading and writing lines must be to each other, and to the text.  *)
(***************************************************************************)
EXTENDS ContentLine, LineReading

HasRead == stage = "Done" /\ failed = "no"

HeldLines == [i \in DOMAIN lines |-> lines[i].line]

(* The octet-by-octet reader, with folds anywhere, quotes left open and    *)
(* terminators of every kind, says of a text exactly what its positions    *)
(* say (ContentLineReader).                                                *)
ReadsTheText == HasRead => HeldLines = LinesOf(input)

(* What was read is written back octet for octet, whatever is wrong with   *)
(* it (LineWriter::push_recorded, write_items).                            *)
WritesItsInput == HasRead => WriteLines(HeldLines) = input

(* Extents, and with them every diagnostic, address the octets of the      *)
(* input: lines tile it, a piece's extent begins and ends at the octets it *)
(* was read from, and the physical lines and terminators are where the     *)
(* input has them (measure, FoldWalk, report_widths, report_terminators).  *)
ExtentsAddressInput ==
  HasRead =>
    \A i \in DOMAIN lines :
      LET l == lines[i]
          from == PositionsOf(input, i)
          mine == {p \in Terminators(input) : LineNumber(input, p) = i}
          ends == {e \in mine : TRUE} \cup {l.end + 1}
      IN  /\ l.start = IF i = 1 THEN 0 ELSE lines[i - 1].end
          /\ i = Len(lines) => l.end = Len(input)
          /\ \A span \in PieceSpans(l.line) :
               span[2] > 0 =>
                 ExtentOf(l.line, l.start, span[1], span[2]) =
                   [start |-> from[span[1] + 1] - 1, end |-> from[span[1] + span[2]]]
          /\ TerminatorMarks(l.line, l.start, l.end) =
               {p - 1 : p \in {q \in mine : After(input, q) = q + 1}}
          /\ PhysicalLines(l.line, l.start) =
               LET begins == {l.start + 1} \cup {After(input, f) : f \in Folds(input) \cap mine}
               IN  {<<b - 1, Least({e \in ends : e >= b}) - b>> : b \in begins}

(* Any line that has a name may be changed, and so be folded anew: the text*)
(* still reads as the same lines, none of its physical lines is too wide,  *)
(* and none begins inside a character (push_refolded, fold_at).            *)
Refolded(S) ==
  [i \in DOMAIN lines |->
     IF i \in S THEN [lines[i].line EXCEPT !.folds = << >>, !.refolded = TRUE]
     ELSE lines[i].line]
PhysicalWidths(t) ==
  LET begins == {1} \cup {After(t, p) : p \in Terminators(t)}
      ends   == Terminators(t) \cup {Len(t) + 1}
  IN  {Least({e \in ends : e >= b}) - b : b \in begins \cap (DOMAIN t)}
LongestRun(t) ==
  LET runs == {n \in 0..Len(t) : \E p \in 0..(Len(t) - n) : \A k \in 1..n : t[p + k] = "cont"}
  IN  CHOOSE n \in runs : \A m \in runs : m <= n
RefoldKeepsLines ==
  HasRead =>
    \A S \in SUBSET {i \in DOMAIN lines : lines[i].line.name # << >>} :
      LET text == WriteLines(Refolded(S))
      IN  /\ ReadLines(text) = ReadLines(input)
          /\ \A i \in S : \A w \in PhysicalWidths(WriteLine(Refolded(S)[i])) : w <= RefoldWidth + 1
          /\ \A i \in S :
               LET out == WriteLine(Refolded(S)[i])
               IN  LongestRun(lines[i].line.name \o lines[i].line.value) <= MaxContinuation =>
                     \A f \in Folds(out) :
                       After(out, f) < Len(out) => out[After(out, f) + 1] # "cont"

(* Normalizing an import changes no line of it, leaves nothing to change,  *)
(* and names the offset of every terminator it replaced (RfcRepairV1).     *)
NormalizingKeepsLines ==
  stage = "Done" =>
    LET normal == Normalize(input)
    IN  /\ ReadLines(normal.text) = ReadLines(input)
        /\ Normalize(normal.text) = [text |-> normal.text, changes |-> << >>]
        /\ {normal.changes[i] : i \in DOMAIN normal.changes} =
             {p - 1 : p \in {q \in Terminators(input) : After(input, q) = q + 1}}

(* A recorded fold lies within the line it was taken from, behind the folds*)
(* before it, so writer and width report clamp nothing away (take_fold).   *)
FoldsInsideLine ==
  /\ \A i \in DOMAIN folds : folds[i].offset \in 0..lineOffset
  /\ \A i, j \in DOMAIN folds : i <= j => folds[i].offset <= folds[j].offset

(* Within the limits: the limits of the reader hold of what it retains.    *)
ReaderKeepsBounds ==
  /\ Len(scratch) <= MaxHeader /\ Len(folds) <= MaxFolds
  /\ Len(parameters) + Len(pending) <= MaxParameters

(* The name and the spans of the parameters tile the header: only a ";" or *)
(* a "=" stands between two of them, none is inside out, and nothing of a  *)
(* header read to its end is left over (scan_header, close_pending).       *)
SpanEnd(span) == IF span.hasValue THEN span.valueEnd ELSE span.nameEnd
TiledTo(n) == IF n = 0 THEN nameEnd ELSE SpanEnd(parameters[n])
Tiled == TiledTo(Len(parameters))
SpansTileHeader ==
  /\ \A i \in DOMAIN parameters :
       LET span == parameters[i]
       IN  /\ span.nameStart = TiledTo(i - 1) + 1 /\ span.nameStart <= span.nameEnd
           /\ span.hasValue =>
                span.valueStart = span.nameEnd + 1 /\ span.valueStart <= span.valueEnd
  /\ stage \in {"Value", "Ending"} => Tiled = Len(scratch)
=============================================================================
