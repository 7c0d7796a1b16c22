-------------------------- MODULE ContentLineProofs --------------------------
(***************************************************************************)
(* What the reader retains of a line is sound for a text of any length and *)
(* for any limits: its folds lie inside the line, its limits hold, and the *)
(* spans it cut the header into tile it.  And what was read is written     *)
(* back octet for octet.                                                   *)
(*                                                                         *)
(* None of this is inductive.  The first three need what the parser state  *)
(* says of the span that is still open (OpenSpan), and that a limit is     *)
(* checked before the octet is kept, with the open span counted.  The last *)
(* needs that at every octet the lines held, and the one under way, spell  *)
(* the input so far (Written); what the writer makes of a line is          *)
(* LineWriterProofs.                                                       *)
(*                                                                         *)
(* That normalizing an import keeps its lines holds of the text alone      *)
(* (LineWriterProofs).                                                     *)
(***************************************************************************)
EXTENDS ContentLineProperties, LineWriterProofs

Span == [nameStart : Nat, nameEnd : Nat, valueStart : Nat, valueEnd : Nat, hasValue : BOOLEAN]

(* What the reader's variables hold.                                       *)
ReaderTypes ==
  /\ cursor \in Nat /\ lineOffset \in Nat /\ nameEnd \in Nat
  /\ input \in Seq(Kinds) /\ scratch \in Seq(Kinds)
  /\ folds \in Seq(Fold) /\ parameters \in Seq(Span)
  /\ pending \in Seq(Span) /\ Len(pending) <= 1

(* The open span begins behind what is tiled and reaches into the header.  *)
OpenSpan ==
  /\ pending # << >> =>
       /\ pending[1].nameStart = Tiled + 1
       /\ pending[1].nameStart <= Len(scratch)
       /\ pending[1].hasValue =>
            /\ pending[1].nameStart <= pending[1].nameEnd
            /\ pending[1].valueStart = pending[1].nameEnd + 1
            /\ pending[1].valueStart <= Len(scratch)
  /\ stage = "Header" /\ pending = << >> => parameters = << >> /\ header # "ParameterName"
  /\ stage \in {"Value", "Ending"} => pending = << >>

(* The invariant behind the first three theorems.                          *)
ReaderInv ==
  /\ ReaderTypes /\ OpenSpan
  /\ FoldsInsideLine /\ ReaderKeepsBounds /\ SpansTileHeader

-----------------------------------------------------------------------------
(* A step that leaves the header and the folds alone, and is at most moved *)
(* on to a stage that asks for no more (EndOfInput, ValueOctet).           *)
LeavesHeader ==
  /\ UNCHANGED <<input, headerVars, folds>>
  /\ cursor' \in Nat /\ lineOffset' \in Nat /\ lineOffset <= lineOffset'
  /\ \/ stage' = stage \/ stage' \in {"Done", "LineStart"}
     \/ stage = "Value" /\ stage' = "Ending"

(* Such a step keeps the invariant.                                        *)
LEMMA LeavesHeaderKeeps ==
  ASSUME ReaderInv, LeavesHeader
  PROVE  ReaderInv'
<1>1. ReaderTypes'
  BY DEF ReaderInv, ReaderTypes, LeavesHeader, headerVars
<1>2. Tiled' = Tiled /\ \A n : TiledTo(n)' = TiledTo(n)
  BY DEF Tiled, TiledTo, SpanEnd, LeavesHeader, headerVars
<1>3. OpenSpan'
  BY <1>2 DEF ReaderInv, OpenSpan, LeavesHeader, headerVars
<1>4. FoldsInsideLine'
  BY DEF ReaderInv, ReaderTypes, Fold, FoldsInsideLine, LeavesHeader
<1>5. ReaderKeepsBounds'
  BY DEF ReaderInv, ReaderKeepsBounds, LeavesHeader, headerVars
<1>6. SpansTileHeader'
  BY <1>2 DEF ReaderInv, SpansTileHeader, LeavesHeader, headerVars
<1>7. QED
  BY <1>1, <1>3, <1>4, <1>5, <1>6 DEF ReaderInv

(* An octet is of a known kind, and a terminator one octet or two.         *)
LEMMA OctetsAreKinds ==
  ASSUME ReaderInv
  PROVE  /\ \A at \in Nat : At(at) \in Kinds
         /\ \A newline : WrittenLen(newline) \in {1, 2}
<1>1. ASSUME NEW at \in Nat PROVE At(at) \in Kinds
  <2>1. input \in Seq(Kinds)
    BY DEF ReaderInv, ReaderTypes
  <2>2. CASE at < Len(input)
    BY <2>1, <2>2 DEF At
  <2>3. CASE ~(at < Len(input))
    BY <2>3 DEF At, Kinds
  <2>4. QED
    BY <2>2, <2>3
<1>2. QED
  BY <1>1 DEF WrittenLen

(* At most one span is open.                                               *)
LEMMA OneOpenSpan ==
  ASSUME ReaderInv
  PROVE  \/ pending = << >> /\ Len(pending) = 0
         \/ pending # << >> /\ Len(pending) = 1 /\ pending[1] \in Span
<1>1. pending \in Seq(Span) /\ Len(pending) \in Nat /\ Len(pending) <= 1
  <2>1. pending \in Seq(Span) /\ Len(pending) <= 1
    BY DEF ReaderInv, ReaderTypes
  <2>2. QED
    BY <2>1
<1>2. CASE Len(pending) = 0
  <2>1. pending = << >>
    BY <1>1, <1>2, EmptySeq
  <2>2. QED
    BY <1>2, <2>1
<1>3. CASE Len(pending) = 1
  BY <1>1, <1>3
<1>4. QED
  BY <1>1, <1>2, <1>3

(* A line begins with nothing retained (Line::clear).                      *)
LEMMA StartLineKeeps ==
  ASSUME ReaderInv, StartLine
  PROVE  ReaderInv'
<1>1. /\ scratch' = << >> /\ parameters' = << >> /\ pending' = << >> /\ folds' = << >>
      /\ header' = "Name" /\ nameEnd' = 0 /\ lineOffset' = 0 /\ stage' = "Header"
      /\ UNCHANGED <<input, cursor>>
  BY DEF StartLine, BlankLine
<1>2. ReaderTypes'
  BY <1>1 DEF ReaderInv, ReaderTypes
<1>3. OpenSpan' /\ FoldsInsideLine' /\ SpansTileHeader'
  BY <1>1 DEF OpenSpan, FoldsInsideLine, SpansTileHeader
<1>4. ReaderKeepsBounds'
  BY <1>1, LineLimitsAssumption DEF ReaderKeepsBounds, LineLimitsAssumption
<1>5. QED
  BY <1>2, <1>3, <1>4 DEF ReaderInv

(* A fold is kept at the end of what is read of the line (take_fold).      *)
LEMMA TakeFoldKeeps ==
  ASSUME ReaderInv, TakeFold
  PROVE  ReaderInv'
<1> DEFINE newline == TerminatorAt(cursor)
           after   == cursor + WrittenLen(newline)
           fold    == [offset |-> lineOffset, tab |-> At(after) = "TAB", newline |-> newline]
<1>1. /\ folds' = Append(folds, fold) /\ cursor' = after + 1 /\ Len(folds) < MaxFolds
      /\ UNCHANGED <<input, stage, headerVars, lineOffset>>
  BY DEF TakeFold
<1>2. newline \in Newlines /\ after \in Nat
  <2>1. cursor \in Nat
    BY DEF ReaderInv, ReaderTypes
  <2>2. WrittenLen(newline) \in {1, 2} /\ At(cursor) \in Kinds
    BY <2>1, OctetsAreKinds
  <2>3. newline \in Newlines
    <3>1. newline = "CRLF" \/ newline = At(cursor)
      BY DEF TerminatorAt
    <3>2. QED
      BY <3>1 DEF TakeFold, IsBreak, Newlines
  <2>4. after \in Nat
    <3> HIDE DEF newline
    <3>1. QED
      BY <2>1, <2>2
  <2>5. QED
    BY <2>3, <2>4
<1>3. fold \in Fold
  BY <1>2 DEF Fold, ReaderInv, ReaderTypes
<1>4. /\ folds \in Seq(Fold) /\ folds' \in Seq(Fold) /\ Len(folds') = Len(folds) + 1
      /\ \A i \in DOMAIN folds' :
           \/ i \in DOMAIN folds /\ folds'[i] = folds[i]
           \/ i = Len(folds) + 1 /\ folds'[i] = fold
  <2> HIDE DEF fold
  <2>1. folds \in Seq(Fold)
    BY DEF ReaderInv, ReaderTypes
  <2>2. folds' \in Seq(Fold) /\ Len(folds') = Len(folds) + 1
    BY <1>1, <1>3, <2>1
  <2>3. \A i \in 1..Len(folds) : folds'[i] = folds[i]
    BY <1>1, <1>3, <2>1
  <2>4. folds'[Len(folds) + 1] = fold
    BY <1>1, <1>3, <2>1
  <2>5. QED
    BY <2>1, <2>2, <2>3, <2>4
<1>5. ReaderTypes'
  BY <1>1, <1>2, <1>4 DEF ReaderInv, ReaderTypes, headerVars
<1>6. Tiled' = Tiled /\ \A n : TiledTo(n)' = TiledTo(n)
  BY <1>1 DEF Tiled, TiledTo, SpanEnd, headerVars
<1>7. OpenSpan' /\ SpansTileHeader'
  BY <1>1, <1>6 DEF ReaderInv, OpenSpan, SpansTileHeader, headerVars
<1>8. FoldsInsideLine'
  <2>1. fold.offset = lineOffset /\ lineOffset' = lineOffset /\ lineOffset \in Nat
    BY <1>1 DEF ReaderInv, ReaderTypes
  <2>2. \A i \in DOMAIN folds : folds[i].offset \in 0..lineOffset
    BY DEF ReaderInv, FoldsInsideLine
  <2>3. \A i \in DOMAIN folds' : folds'[i].offset \in 0..lineOffset
    <3> HIDE DEF fold
    <3>1. QED
      BY <1>4, <2>1, <2>2
  <2>4. ASSUME NEW i \in DOMAIN folds', NEW j \in DOMAIN folds', i <= j
        PROVE  folds'[i].offset <= folds'[j].offset
    <3> HIDE DEF fold
    <3>1. CASE j \in DOMAIN folds /\ folds'[j] = folds[j]
      <4>1. i \in DOMAIN folds /\ folds'[i] = folds[i]
        BY <1>4, <2>4, <3>1
      <4>2. QED
        BY <2>4, <3>1, <4>1 DEF ReaderInv, FoldsInsideLine
    <3>2. CASE folds'[j] = fold
      BY <2>1, <2>3, <3>2
    <3>3. QED
      BY <1>4, <3>1, <3>2
  <2>5. QED
    BY <2>1, <2>3, <2>4 DEF FoldsInsideLine
<1>9. ReaderKeepsBounds'
  BY <1>1, <1>4, LineLimitsAssumption
  DEF ReaderInv, ReaderTypes, ReaderKeepsBounds, headerVars, LineLimitsAssumption
<1>10. QED
  BY <1>5, <1>7, <1>8, <1>9 DEF ReaderInv

-----------------------------------------------------------------------------
(* The spans once the open one, or the name, is closed at `end`.           *)
LEMMA ClosingTiles ==
  ASSUME ReaderInv, stage = "Header", ClosePending(Len(scratch))
  PROVE  /\ parameters' \in Seq(Span) /\ nameEnd' \in Nat
         /\ Len(parameters') = Len(parameters) + Len(pending)
         /\ Tiled' = Len(scratch)
         /\ \A i \in DOMAIN parameters' :
              /\ parameters'[i].nameStart = TiledTo(i - 1)' + 1
              /\ parameters'[i].nameStart <= parameters'[i].nameEnd
              /\ parameters'[i].hasValue =>
                   /\ parameters'[i].valueStart = parameters'[i].nameEnd + 1
                   /\ parameters'[i].valueStart <= parameters'[i].valueEnd
<1> DEFINE end  == Len(scratch)
           span == Closed(pending[1], end)
<1>1. /\ end \in Nat /\ parameters \in Seq(Span) /\ pending \in Seq(Span)
      /\ Len(pending) <= 1 /\ nameEnd \in Nat
  BY DEF ReaderInv, ReaderTypes
<1>2. CASE pending = << >>
  <2>1. parameters = << >> /\ parameters' = << >> /\ nameEnd' = end
    BY <1>2 DEF ReaderInv, OpenSpan, ClosePending
  <2>2. QED
    BY <1>1, <1>2, <2>1 DEF Tiled, TiledTo
<1>3. CASE pending # << >>
  <2>1. parameters' = Append(parameters, span) /\ nameEnd' = nameEnd
    BY <1>3 DEF ClosePending
  <2>2. pending[1] \in Span /\ Len(pending) = 1
    BY <1>3, OneOpenSpan
  <2>3. /\ span \in Span /\ SpanEnd(span) = end
        /\ span.nameStart = pending[1].nameStart /\ span.hasValue = pending[1].hasValue
        /\ span.valueStart = pending[1].valueStart
        /\ span.hasValue => span.nameEnd = pending[1].nameEnd /\ span.valueEnd = end
        /\ ~span.hasValue => span.nameEnd = end
    BY <1>1, <2>2 DEF Span, Closed, SpanEnd
  <2>4. /\ span.nameStart = Tiled + 1 /\ span.nameStart <= span.nameEnd
        /\ span.hasValue =>
             span.valueStart = span.nameEnd + 1 /\ span.valueStart <= span.valueEnd
    <3> HIDE DEF span
    <3>1. QED
      BY <1>3, <2>3 DEF ReaderInv, OpenSpan
  <2> HIDE DEF span, end
  <2>5. /\ parameters' \in Seq(Span) /\ Len(parameters') = Len(parameters) + 1
        /\ \A i \in 1..Len(parameters) : parameters'[i] = parameters[i]
        /\ parameters'[Len(parameters) + 1] = span
        /\ DOMAIN parameters' = 1..(Len(parameters) + 1)
    BY <1>1, <2>1, <2>3
  <2>6. \A n \in 0..Len(parameters) : TiledTo(n)' = TiledTo(n)
    BY <1>1, <2>1, <2>5 DEF TiledTo
  <2>7. Tiled' = end
    BY <1>1, <2>3, <2>5 DEF Tiled, TiledTo
  <2>8. ASSUME NEW i \in DOMAIN parameters'
        PROVE  /\ parameters'[i].nameStart = TiledTo(i - 1)' + 1
               /\ parameters'[i].nameStart <= parameters'[i].nameEnd
               /\ parameters'[i].hasValue =>
                    /\ parameters'[i].valueStart = parameters'[i].nameEnd + 1
                    /\ parameters'[i].valueStart <= parameters'[i].valueEnd
    <3>1. i - 1 \in 0..Len(parameters) /\ TiledTo(i - 1)' = TiledTo(i - 1)
      BY <1>1, <2>5, <2>6, <2>8
    <3>2. CASE i \in 1..Len(parameters)
      <4>1. i \in DOMAIN parameters /\ parameters'[i] = parameters[i]
        BY <1>1, <2>5, <3>2
      <4>2. /\ parameters[i].nameStart = TiledTo(i - 1) + 1
            /\ parameters[i].nameStart <= parameters[i].nameEnd
            /\ parameters[i].hasValue =>
                 /\ parameters[i].valueStart = parameters[i].nameEnd + 1
                 /\ parameters[i].valueStart <= parameters[i].valueEnd
        BY <4>1 DEF ReaderInv, SpansTileHeader
      <4>3. QED
        BY <3>1, <4>1, <4>2
    <3>3. CASE i = Len(parameters) + 1
      <4>1. i - 1 = Len(parameters) /\ parameters'[i] = span
        BY <1>1, <2>5, <3>3
      <4>2. TiledTo(i - 1) = Tiled
        BY <4>1 DEF Tiled
      <4>3. QED
        BY <2>4, <3>1, <4>1, <4>2
    <3>4. QED
      BY <1>1, <2>5, <3>2, <3>3
  <2>9. nameEnd' \in Nat /\ Len(parameters') = Len(parameters) + Len(pending)
    BY <1>1, <2>1, <2>2, <2>5
  <2>10. Tiled' = Len(scratch)
    BY <2>7 DEF end
  <2>11. QED
    BY <2>5, <2>8, <2>9, <2>10
<1>4. QED
  BY <1>2, <1>3

(* The header ends, with the line or with its separator: nothing is open   *)
(* and all of it is tiled.                                                 *)
LEMMA CloseHeaderKeeps ==
  ASSUME ReaderInv, stage = "Header", NEW separator, CloseHeader(separator),
         cursor' \in Nat, lineOffset' \in Nat, lineOffset <= lineOffset',
         stage' \in {"Value", "Ending"}
  PROVE  ReaderInv'
<1>1. /\ ClosePending(Len(scratch)) /\ pending' = << >>
      /\ UNCHANGED <<scratch, header, folds, input>>
  BY DEF CloseHeader
<1>2. pending' \in Seq(Span) /\ Len(pending') = 0
  BY <1>1
<1>3. ReaderTypes'
  BY <1>1, <1>2, ClosingTiles DEF ReaderInv, ReaderTypes
<1>4. OpenSpan'
  BY <1>1 DEF OpenSpan
<1>5. FoldsInsideLine'
  BY <1>1 DEF ReaderInv, ReaderTypes, Fold, FoldsInsideLine
<1>6. ReaderKeepsBounds'
  <2>1. Len(parameters') + Len(pending') <= MaxParameters
    <3>1. Len(parameters') = Len(parameters) + Len(pending)
      BY <1>1, ClosingTiles
    <3>2. Len(parameters) + Len(pending) \in Nat
      BY OneOpenSpan DEF ReaderInv, ReaderTypes
    <3>3. QED
      BY <1>2, <3>1, <3>2 DEF ReaderInv, ReaderKeepsBounds
  <2>2. QED
    BY <1>1, <2>1 DEF ReaderInv, ReaderKeepsBounds
<1>7. SpansTileHeader'
  BY <1>1, ClosingTiles DEF SpansTileHeader
<1>8. QED
  BY <1>3, <1>4, <1>5, <1>6, <1>7 DEF ReaderInv

(* An octet of the header is kept within the limit, and the line with it.  *)
LEMMA KeepsOctet ==
  ASSUME ReaderInv, Keeps
  PROVE  /\ stage = "Header" /\ stage' = "Header" /\ UNCHANGED <<input, folds>>
         /\ cursor' \in Nat /\ lineOffset' = lineOffset + 1 /\ lineOffset \in Nat
         /\ scratch' \in Seq(Kinds) /\ Len(scratch) \in Nat
         /\ Len(scratch') = Len(scratch) + 1 /\ Len(scratch') <= MaxHeader
         /\ FoldsInsideLine'
<1>1. /\ stage = "Header" /\ Len(scratch) < MaxHeader
      /\ scratch' = Append(scratch, At(cursor))
      /\ lineOffset' = lineOffset + 1 /\ cursor' = cursor + 1
      /\ UNCHANGED <<input, stage, folds>>
  BY DEF Keeps, IsHeaderOctet
<1>2. /\ cursor \in Nat /\ lineOffset \in Nat /\ scratch \in Seq(Kinds)
  BY DEF ReaderInv, ReaderTypes
<1>3. At(cursor) \in Kinds
  BY <1>2, OctetsAreKinds
<1>4. scratch' \in Seq(Kinds) /\ Len(scratch') = Len(scratch) + 1
  BY <1>1, <1>2, <1>3
<1>5. FoldsInsideLine'
  BY <1>1, <1>2 DEF ReaderInv, ReaderTypes, Fold, FoldsInsideLine
<1>6. QED
  BY <1>1, <1>2, <1>4, <1>5, LineLimitsAssumption DEF LineLimitsAssumption

(* A ";" closes the span before it and opens one, counted before it is     *)
(* opened (OpenParameter).                                                 *)
LEMMA OpenParameterKeeps ==
  ASSUME ReaderInv, OpenParameter
  PROVE  ReaderInv'
<1> DEFINE from == Len(scratch) + 1
           span == [nameStart |-> from, nameEnd |-> from, valueStart |-> from,
                    valueEnd |-> from, hasValue |-> FALSE]
<1>1. /\ Keeps /\ Len(parameters) + Len(pending) < MaxParameters
      /\ pending' = <<span>> /\ ClosePending(Len(scratch))
  BY DEF OpenParameter, HeldParameters
<1>2. /\ stage = "Header" /\ stage' = "Header" /\ UNCHANGED <<input, folds>>
      /\ cursor' \in Nat /\ lineOffset' \in Nat
      /\ scratch' \in Seq(Kinds) /\ Len(scratch) \in Nat
      /\ Len(scratch') = from /\ Len(scratch') <= MaxHeader /\ FoldsInsideLine'
  BY <1>1, KeepsOctet
<1>3. /\ span \in Span /\ span.nameStart = from /\ ~span.hasValue
  BY <1>2 DEF Span
<1> HIDE DEF span
<1>4. /\ pending' \in Seq(Span) /\ Len(pending') = 1 /\ pending' # << >>
      /\ pending'[1] = span
  BY <1>1, <1>3
<1>5. ReaderTypes'
  BY <1>1, <1>2, <1>4, ClosingTiles DEF ReaderInv, ReaderTypes
<1>6. OpenSpan'
  <2>1. Tiled' = Len(scratch)
    BY <1>1, <1>2, ClosingTiles
  <2>2. QED
    BY <1>2, <1>3, <1>4, <2>1 DEF OpenSpan
<1>7. ReaderKeepsBounds'
  <2>1. Len(parameters') = Len(parameters) + Len(pending)
    BY <1>1, <1>2, ClosingTiles
  <2>2. Len(parameters) + Len(pending) \in Nat
    BY OneOpenSpan DEF ReaderInv, ReaderTypes
  <2>3. Len(parameters') + Len(pending') <= MaxParameters
    BY <1>1, <1>4, <2>1, <2>2, LineLimitsAssumption DEF LineLimitsAssumption
  <2>4. QED
    BY <1>2, <2>3 DEF ReaderInv, ReaderKeepsBounds
<1>8. SpansTileHeader'
  BY <1>1, <1>2, ClosingTiles DEF SpansTileHeader
<1>9. QED
  BY <1>2, <1>5, <1>6, <1>7, <1>8 DEF ReaderInv

(* A header octet that closes no span: the open one may be divided.        *)
LEMMA InsideSpanKeeps ==
  ASSUME ReaderInv, Keeps, UNCHANGED <<parameters, nameEnd>>,
         pending' \in Seq(Span), Len(pending') = Len(pending), OpenSpan'
  PROVE  ReaderInv'
<1>1. /\ stage = "Header" /\ stage' = "Header" /\ UNCHANGED <<input, folds>>
      /\ cursor' \in Nat /\ lineOffset' \in Nat
      /\ scratch' \in Seq(Kinds) /\ Len(scratch') <= MaxHeader /\ FoldsInsideLine'
  BY KeepsOctet
<1>2. ReaderTypes'
  BY <1>1 DEF ReaderInv, ReaderTypes
<1>3. ReaderKeepsBounds'
  BY <1>1 DEF ReaderInv, ReaderKeepsBounds
<1>4. \A n : TiledTo(n)' = TiledTo(n)
  BY DEF TiledTo
<1>5. SpansTileHeader'
  BY <1>1, <1>4 DEF ReaderInv, SpansTileHeader
<1>6. QED
  BY <1>1, <1>2, <1>3, <1>5 DEF ReaderInv

(* The "=" divides the open span into name and value.                      *)
LEMMA BeginParameterValueKeeps ==
  ASSUME ReaderInv, BeginParameterValue
  PROVE  ReaderInv'
<1> DEFINE span == [pending[1] EXCEPT !.nameEnd = Len(scratch), !.hasValue = TRUE,
                      !.valueStart = Len(scratch) + 1, !.valueEnd = Len(scratch) + 1]
<1>1. /\ Keeps /\ header = "ParameterName" /\ pending' = <<span>>
      /\ UNCHANGED <<parameters, nameEnd>>
  BY DEF BeginParameterValue
<1>2. /\ stage = "Header" /\ stage' = "Header" /\ Len(scratch) \in Nat
      /\ Len(scratch') = Len(scratch) + 1
  BY <1>1, KeepsOctet
<1>3. pending # << >> /\ Len(pending) = 1 /\ pending[1] \in Span
  BY <1>1, <1>2, OneOpenSpan DEF ReaderInv, OpenSpan
<1>4. /\ span \in Span /\ span.nameStart = pending[1].nameStart /\ span.hasValue
      /\ span.nameEnd = Len(scratch) /\ span.valueStart = Len(scratch) + 1
  <2>1. Len(scratch) \in Nat /\ Len(scratch) + 1 \in Nat
    BY <1>2
  <2>2. span \in Span
    BY <1>3, <2>1 DEF Span
  <2>3. /\ span.nameStart = pending[1].nameStart /\ span.nameEnd = Len(scratch)
        /\ span.valueStart = Len(scratch) + 1
    BY <1>3 DEF Span
  <2>4. span.hasValue = TRUE
    BY <1>3 DEF Span
  <2>5. QED
    BY <2>2, <2>3, <2>4
<1> HIDE DEF span
<1>5. /\ pending' \in Seq(Span) /\ Len(pending') = 1 /\ pending' # << >>
      /\ pending'[1] = span
  BY <1>1, <1>4
<1>6. Tiled' = Tiled
  BY <1>1 DEF Tiled, TiledTo
<1>7. /\ pending[1].nameStart = Tiled + 1 /\ pending[1].nameStart <= Len(scratch)
      /\ pending[1].nameStart \in Nat
  BY <1>3 DEF ReaderInv, OpenSpan, Span
<1>8. OpenSpan'
  BY <1>2, <1>4, <1>5, <1>6, <1>7 DEF OpenSpan
<1>9. QED
  BY <1>1, <1>3, <1>5, <1>8, InsideSpanKeeps

(* So does every octet of a header (scan_header).                          *)
LEMMA StepHeaderKeeps ==
  ASSUME ReaderInv, StepHeader
  PROVE  ReaderInv'
<1>1. /\ Keeps /\ UNCHANGED <<parameters, pending, nameEnd>>
      /\ header' = "ParameterName" => header = "ParameterName"
  BY DEF StepHeader
<1>2. /\ stage = "Header" /\ stage' = "Header" /\ Len(scratch) \in Nat
      /\ Len(scratch') = Len(scratch) + 1
  BY <1>1, KeepsOctet
<1>3. Tiled' = Tiled
  BY <1>1 DEF Tiled, TiledTo
<1>4. pending # << >> => pending[1] \in Span
  BY OneOpenSpan
<1>5. OpenSpan'
  BY <1>1, <1>2, <1>3, <1>4 DEF ReaderInv, OpenSpan, Span
<1>6. pending' \in Seq(Span) /\ Len(pending') = Len(pending)
  BY <1>1 DEF ReaderInv, ReaderTypes
<1>7. QED
  BY <1>1, <1>5, <1>6, InsideSpanKeeps

-----------------------------------------------------------------------------
(* The reader begins in order.                                             *)
LEMMA InitHolds == Init => ReaderInv
<1>1. SUFFICES ASSUME Init PROVE ReaderInv
  OBVIOUS
<1>2. /\ input \in Texts /\ cursor = 0 /\ stage = "LineStart" /\ scratch = << >>
      /\ parameters = << >> /\ pending = << >> /\ nameEnd = 0 /\ lineOffset = 0
      /\ folds = << >>
  BY <1>1 DEF Init
<1>3. input \in Seq(Kinds)
  <2>1. input \in Seq(Octets)
    BY <1>2, TextsAssumption DEF TextsAssumption
  <2>2. Octets \subseteq Kinds
    BY DEF Kinds
  <2>3. QED
    BY <2>1, <2>2
<1>4. ReaderTypes
  BY <1>2, <1>3 DEF ReaderTypes
<1>5. OpenSpan /\ FoldsInsideLine /\ SpansTileHeader
  BY <1>2 DEF OpenSpan, FoldsInsideLine, SpansTileHeader
<1>6. ReaderKeepsBounds
  BY <1>2, LineLimitsAssumption DEF ReaderKeepsBounds, LineLimitsAssumption
<1>7. QED
  BY <1>4, <1>5, <1>6 DEF ReaderInv

(* Every step of the reader keeps the order.                               *)
LEMMA StepHolds == ReaderInv /\ [Next]_vars => ReaderInv'
<1>1. SUFFICES ASSUME ReaderInv, [Next]_vars PROVE ReaderInv'
  OBVIOUS
<1>2. /\ cursor \in Nat /\ lineOffset \in Nat
      /\ \A newline : cursor + WrittenLen(newline) \in Nat
  <2>1. cursor \in Nat /\ lineOffset \in Nat
    BY <1>1 DEF ReaderInv, ReaderTypes
  <2>2. QED
    BY <2>1 DEF WrittenLen
<1>3. CASE StartLine
  BY <1>1, <1>3, StartLineKeeps
<1>4. CASE TakeFold
  BY <1>1, <1>4, TakeFoldKeeps
<1>5. CASE OpenParameter
  BY <1>1, <1>5, OpenParameterKeeps
<1>6. CASE BeginParameterValue
  BY <1>1, <1>6, BeginParameterValueKeeps
<1>7. CASE StepHeader
  BY <1>1, <1>7, StepHeaderKeeps
<1>8. CASE Separator
  <2>1. stage = "Header" /\ CloseHeader(TRUE) /\ stage' = "Value"
    BY <1>8, Zenon DEF Separator
  <2>2. cursor' \in Nat /\ lineOffset' \in Nat /\ lineOffset <= lineOffset'
    BY <1>2, <1>8 DEF Separator
  <2>3. stage' \in {"Value", "Ending"}
    BY <2>1
  <2>4. QED
    BY <1>1, <2>1, <2>2, <2>3, CloseHeaderKeeps, Zenon
<1>9. CASE LineEndsInHeader
  <2>1. stage = "Header" /\ CloseHeader(FALSE) /\ stage' = "Ending"
    BY <1>9, Zenon DEF LineEndsInHeader
  <2>2. cursor' \in Nat /\ lineOffset' \in Nat /\ lineOffset <= lineOffset'
    BY <1>2, <1>9 DEF LineEndsInHeader
  <2>3. stage' \in {"Value", "Ending"}
    BY <2>1
  <2>4. QED
    BY <1>1, <2>1, <2>2, <2>3, CloseHeaderKeeps, Zenon
<1>10. CASE LineEndsInValue
  <2>1. LeavesHeader
    BY <1>2, <1>10 DEF LineEndsInValue, LeavesHeader
  <2>2. QED
    BY <1>1, <2>1, LeavesHeaderKeeps
<1>11. CASE ValueOctet
  <2>1. LeavesHeader
    BY <1>2, <1>11 DEF ValueOctet, LeavesHeader
  <2>2. QED
    BY <1>1, <2>1, LeavesHeaderKeeps
<1>12. CASE EndOfInput \/ EndOfLine
  <2>1. LeavesHeader
    BY <1>2, <1>12 DEF EndOfInput, EndOfLine, LeavesHeader
  <2>2. QED
    BY <1>1, <2>1, LeavesHeaderKeeps
<1>13. CASE RefuseFold \/ RefuseHeader \/ RefuseParameter
  <2>1. LeavesHeader
    BY <1>2, <1>13 DEF RefuseFold, RefuseHeader, RefuseParameter, Refuse, LeavesHeader
  <2>2. QED
    BY <1>1, <2>1, LeavesHeaderKeeps
<1>14. CASE UNCHANGED vars
  <2>1. LeavesHeader
    BY <1>2, <1>14 DEF vars, LeavesHeader
  <2>2. QED
    BY <1>1, <2>1, LeavesHeaderKeeps
<1>15. QED
  BY <1>1, <1>3, <1>4, <1>5, <1>6, <1>7, <1>8, <1>9, <1>10, <1>11, <1>12, <1>13, <1>14
  DEF Next, ScanHeader, ReadValue

(* Of a text of any length, a recorded fold stands where the line does     *)
(* (take_fold).                                                            *)
THEOREM FoldsInsideLineHolds == Spec => []FoldsInsideLine
<1>1. ReaderInv => FoldsInsideLine
  BY DEF ReaderInv
<1>2. QED
  BY <1>1, InitHolds, StepHolds, PTL DEF Spec

(* Whatever the limits are, no more is retained of a line (Limits).        *)
THEOREM ReaderKeepsBoundsHolds == Spec => []ReaderKeepsBounds
<1>1. ReaderInv => ReaderKeepsBounds
  BY DEF ReaderInv
<1>2. QED
  BY <1>1, InitHolds, StepHolds, PTL DEF Spec

(* However the header is quoted and divided, its spans tile it             *)
(* (scan_header, close_pending).                                           *)
THEOREM SpansTileHeaderHolds == Spec => []SpansTileHeader
<1>1. ReaderInv => SpansTileHeader
  BY DEF ReaderInv
<1>2. QED
  BY <1>1, InitHolds, StepHolds, PTL DEF Spec
-----------------------------------------------------------------------------
(* What is read is what is written.                                        *)
(*                                                                         *)
(* At every step the lines held so far, and the line being read as it would*)
(* be written with the folds it has, are the input up to the cursor        *)
(* (Written).  That the pieces of the line are its text needs the octets   *)
(* between two spans (SeparatorsKept), and that no line is owed a terminator*)
(* needs that one without any is the last (Terminated).                    *)
Text == scratch \o (IF hasSeparator THEN <<":">> ELSE << >>) \o value
(* The line as it would be written with its folds.                         *)
Woven == WovenAll(Text, folds)

(* Before a name stands ";" and before a value "=".                        *)
Separates(text, span) ==
  text[span.nameStart] = ";" /\ (span.hasValue => text[span.valueStart] = "=")
SeparatorsKept ==
  /\ \A i \in DOMAIN parameters : Separates(scratch, parameters[i])
  /\ pending # << >> => Separates(scratch, pending[1])
  /\ \A n \in 0..Len(parameters) : TiledTo(n) <= Len(scratch)

(* The text is what was counted of the line.                               *)
TextRead ==
  /\ value \in Seq(Kinds) /\ hasSeparator \in BOOLEAN /\ Len(Text) = lineOffset
  /\ stage = "Header" => hasSeparator = FALSE /\ value = << >>

(* The lines held, and the one that is ending: only the last one may go    *)
(* without a terminator.                                                   *)
Terminated == \A i \in DOMAIN lines : lines[i].line.ending # "none"
LinesHeld ==
  /\ \E S : lines \in Seq(S)
  /\ LinesWrite(HeldLines)
  /\ stage \in {"Header", "Value", "Ending"} => Terminated
  /\ stage = "LineStart" /\ cursor < Len(input) => Terminated
  /\ stage = "Ending" => ending \in Newlines \cup {"none"}
  /\ stage = "Ending" /\ ending = "none" => cursor = Len(input)

(* What is held is the input so far.                                       *)
Written ==
  /\ stage = "LineStart" => WriteLines(HeldLines) = SubSeq(input, 1, cursor)
  /\ stage \in {"Header", "Value"} => Spells(WriteLines(HeldLines), Woven, input, cursor)
  /\ stage = "Ending" =>
       Spells(WriteLines(HeldLines), Woven \o NewlineOctets(ending), input, cursor)

WriterInv ==
  /\ input \in Seq(Octets) /\ cursor <= Len(input)
  /\ SeparatorsKept /\ TextRead /\ LinesHeld /\ Written /\ WritesItsInput

(* Octets of the input, as the reader sees them.                           *)
LEMMA AtReads ==
  ASSUME input \in Seq(Octets), NEW at \in Nat
  PROVE  /\ Len(input) \in Nat /\ input \in Seq(Kinds)
         /\ At(at) # "none" <=> at < Len(input)
         /\ At(at) # "none" =>
              At(at) \in Octets /\ At(at) \in Kinds /\ SubSeq(input, at + 1, at + 1) = <<At(at)>>
<1>1. Len(input) \in Nat /\ input \in Seq(Kinds)
  BY DEF Kinds
<1>2. CASE at < Len(input)
  <2>1. at + 1 \in 1..Len(input) /\ At(at) = input[at + 1]
    BY <1>1, <1>2 DEF At
  <2>2. At(at) \in Octets
    BY <2>1
  <2>3. "none" \notin Octets
    BY DEF Octets
  <2>4. At(at) # "none" /\ At(at) \in Kinds
    BY <2>2, <2>3 DEF Kinds
  <2> DEFINE u == SubSeq(input, at + 1, at + 1)
  <2>5. u \in Seq(Kinds) /\ Len(u) = 1 /\ u[1] = input[at + 1]
    <3>1. /\ u \in Seq(Kinds) /\ Len(u) = (at + 1) - at
          /\ \A i \in 1..((at + 1) - at) : u[i] = input[at + i]
      BY <1>1, <2>1, SliceReads
    <3>2. QED
      BY <3>1
  <2> HIDE DEF u
  <2>6. u = <<At(at)>>
    BY <2>1, <2>5
  <2>7. QED
    BY <1>1, <1>2, <2>2, <2>4, <2>6 DEF u
<1>3. CASE ~(at < Len(input))
  BY <1>1, <1>3 DEF At
<1>4. QED
  BY <1>2, <1>3

(* A terminator of the input is the octets it is written as.               *)
LEMMA TerminatorReads ==
  ASSUME input \in Seq(Octets), NEW at \in Nat, IsBreak(at)
  PROVE  /\ TerminatorAt(at) \in Newlines
         /\ at + WrittenLen(TerminatorAt(at)) \in Nat
         /\ at <= at + WrittenLen(TerminatorAt(at))
         /\ at + WrittenLen(TerminatorAt(at)) <= Len(input)
         /\ SubSeq(input, at + 1, at + WrittenLen(TerminatorAt(at)))
              = NewlineOctets(TerminatorAt(at))
<1>1. /\ At(at) \in {"CR", "LF"} /\ at < Len(input) /\ Len(input) \in Nat
      /\ input \in Seq(Kinds) /\ SubSeq(input, at + 1, at + 1) = <<At(at)>>
  BY AtReads DEF IsBreak
<1>2. CASE At(at) = "CR" /\ At(at + 1) = "LF"
  <2>1. TerminatorAt(at) = "CRLF" /\ WrittenLen(TerminatorAt(at)) = 2
    BY <1>2 DEF TerminatorAt, WrittenLen
  <2>2. at + 1 \in Nat /\ at + 1 < Len(input) /\ SubSeq(input, (at + 1) + 1, (at + 1) + 1) = <<"LF">>
    BY <1>2, AtReads
  <2>3. SubSeq(input, at + 1, at + 1) \o SubSeq(input, (at + 1) + 1, (at + 1) + 1)
          = SubSeq(input, at + 1, (at + 1) + 1)
    BY <1>1, <2>2, SlicesJoin
  <2>4. <<"CR">> \o <<"LF">> = <<"CR", "LF">>
    BY PairOf
  <2>5. (at + 1) + 1 = at + 2
    OBVIOUS
  <2>6. SubSeq(input, at + 1, at + 2) = <<"CR", "LF">>
    BY <1>1, <1>2, <2>2, <2>3, <2>4, <2>5
  <2>7. NewlineOctets("CRLF") = <<"CR", "LF">> /\ "CRLF" \in Newlines
    BY DEF NewlineOctets, Newlines
  <2>8. at + 2 \in Nat /\ at <= at + 2 /\ at + 2 <= Len(input)
    BY <1>1, <2>2
  <2>9. QED
    BY <2>1, <2>6, <2>7, <2>8
<1>3. CASE ~(At(at) = "CR" /\ At(at + 1) = "LF")
  <2>1. TerminatorAt(at) = At(at) /\ WrittenLen(TerminatorAt(at)) = 1
    BY <1>1, <1>3 DEF TerminatorAt, WrittenLen
  <2>2. NewlineOctets(At(at)) = <<At(at)>> /\ At(at) \in Newlines
    BY <1>1 DEF NewlineOctets, Newlines
  <2>3. at + 1 \in Nat /\ at <= at + 1 /\ at + 1 <= Len(input)
    BY <1>1
  <2>4. QED
    BY <1>1, <2>1, <2>2, <2>3
<1>4. QED
  BY <1>2, <1>3

(* The text of the line, and what is out of it.                            *)
LEMMA TextIsOctets ==
  ASSUME ReaderInv, TextRead
  PROVE  /\ Text \in Seq(Kinds) /\ folds \in Seq(Fold) /\ lineOffset \in Nat
         /\ Len(Text) = lineOffset /\ Within(folds, Len(Text)) /\ Woven \in Seq(Kinds)
<1>1. scratch \in Seq(Kinds) /\ value \in Seq(Kinds) /\ folds \in Seq(Fold) /\ lineOffset \in Nat
  BY DEF ReaderInv, ReaderTypes, TextRead
<1> DEFINE separator == IF hasSeparator THEN <<":">> ELSE << >>
<1>2. separator \in Seq(Kinds)
  <2>1. ":" \in Kinds
    BY DEF Kinds, Octets
  <2>2. QED
    BY <2>1
<1> HIDE DEF separator
<1>3. scratch \o separator \in Seq(Kinds)
  BY <1>1, <1>2, ConcatProperties
<1>4. (scratch \o separator) \o value \in Seq(Kinds)
  BY <1>1, <1>3, ConcatProperties
<1>5. Text \in Seq(Kinds) /\ Len(Text) = lineOffset
  BY <1>4 DEF Text, separator, TextRead
<1>6. Within(folds, Len(Text))
  BY <1>5 DEF ReaderInv, FoldsInsideLine, Within
<1>7. Woven \in Seq(Kinds)
  BY <1>1, <1>5, <1>6, WovenAllIsOctets DEF Woven
<1>8. QED
  BY <1>1, <1>5, <1>6, <1>7

(* The lines held can be written.                                          *)
LEMMA HeldIsWritten ==
  ASSUME WriterInv
  PROVE  WriteLines(HeldLines) \in Seq(Kinds)
<1>1. PICK u : Running(HeldLines, u)
  BY WriteLinesRuns DEF WriterInv, LinesHeld
<1>2. Len(HeldLines) \in 0..Len(HeldLines)
  BY DEF WriterInv, LinesHeld, LinesWrite
<1>3. QED
  BY <1>1, <1>2 DEF Running

(* A step that holds no further line.                                      *)
LEMMA LinesStay ==
  ASSUME WriterInv, UNCHANGED lines, Terminated \/ stage' = "Done",
         stage' = "Ending" => /\ ending' \in Newlines \cup {"none"}
                              /\ ending' = "none" => cursor' = Len(input')
  PROVE  LinesHeld' /\ HeldLines' = HeldLines
<1>1. HeldLines' = HeldLines
  BY DEF HeldLines
<1>2. LinesWrite(HeldLines)'
  BY <1>1 DEF WriterInv, LinesHeld, LinesWrite
<1>3. (\E S : lines \in Seq(S))'
  BY DEF WriterInv, LinesHeld
<1>4. stage' # "Done" => Terminated'
  BY DEF Terminated
<1>5. QED
  BY <1>1, <1>2, <1>3, <1>4 DEF LinesHeld

(* An octet becomes the last of the line's text (Keeps, Separator,         *)
(* ValueOctet).                                                            *)
LEMMA TextGrows ==
  ASSUME ReaderInv, WriterInv,
         stage \in {"Header", "Value"}, stage' \in {"Header", "Value"},
         At(cursor) # "none", cursor' = cursor + 1, lineOffset' = lineOffset + 1,
         Text' = Append(Text, At(cursor)), UNCHANGED <<input, folds, lines>>
  PROVE  /\ input' \in Seq(Octets) /\ cursor' <= Len(input') /\ Len(Text)' = lineOffset'
         /\ LinesHeld' /\ Written' /\ WritesItsInput'
<1>1. input \in Seq(Octets) /\ cursor \in Nat /\ TextRead
  BY DEF WriterInv, ReaderInv, ReaderTypes
<1>2. /\ cursor < Len(input) /\ Len(input) \in Nat /\ input \in Seq(Kinds)
      /\ At(cursor) \in Kinds /\ SubSeq(input, cursor + 1, cursor + 1) = <<At(cursor)>>
  BY <1>1, AtReads
<1>3. input' \in Seq(Octets) /\ cursor' <= Len(input')
  BY <1>1, <1>2
<1>4. LinesHeld' /\ HeldLines' = HeldLines
  BY LinesStay DEF WriterInv, LinesHeld
<1>5. WritesItsInput'
  BY DEF WritesItsInput, HasRead
<1>6. /\ Text \in Seq(Kinds) /\ folds \in Seq(Fold) /\ Within(folds, Len(Text))
      /\ Woven \in Seq(Kinds) /\ Len(Text) = lineOffset
  BY <1>1, TextIsOctets
<1> DEFINE o == At(cursor)
<1> HIDE DEF o
<1>7. Len(Append(Text, o)) = Len(Text) + 1 /\ WovenAll(Append(Text, o), folds) = Woven \o <<o>>
  BY <1>2, <1>6, WovenAllText DEF Woven, o
<1>8. Woven' = Woven \o <<o>>
  <2>1. Woven' = WovenAll(Text', folds')
    BY DEF Woven
  <2>2. QED
    BY <1>7, <2>1 DEF o
<1>9. Len(Text)' = lineOffset'
  <2>1. Len(Text)' = Len(Append(Text, o))
    BY DEF o
  <2>2. QED
    BY <1>6, <1>7, <2>1
<1>10. Spells(WriteLines(HeldLines), Woven, input, cursor) /\ WriteLines(HeldLines) \in Seq(Kinds)
  BY HeldIsWritten DEF WriterInv, Written
<1>11. Spells(WriteLines(HeldLines), Woven \o <<o>>, input, cursor + 1)
  <2>1. <<o>> = SubSeq(input, cursor + 1, cursor + 1) /\ <<o>> \in Seq(Kinds)
    <3>1. o \in Kinds
      BY <1>2 DEF o
    <3>2. <<o>> \in Seq(Kinds)
      BY <3>1
    <3>3. SubSeq(input, cursor + 1, cursor + 1) = <<o>>
      BY <1>2, Zenon DEF o
    <3>4. QED
      BY <3>2, <3>3, Zenon
  <2>2. cursor + 1 \in Nat /\ cursor <= cursor + 1 /\ cursor + 1 <= Len(input)
    BY <1>1, <1>2
  <2> DEFINE one == <<o>>
             q == cursor + 1
             done == WriteLines(HeldLines)
  <2>3. /\ one = SubSeq(input, cursor + 1, q) /\ one \in Seq(Kinds) /\ q \in Nat /\ cursor <= q
        /\ q <= Len(input) /\ done \in Seq(Kinds) /\ Spells(done, Woven, input, cursor)
    BY <1>10, <2>1, <2>2
  <2> HIDE DEF one, q, done
  <2>4. Spells(done, Woven \o one, input, q)
    BY <1>1, <1>2, <1>6, <2>3, SpellsOn
  <2>5. QED
    BY <2>4 DEF one, q, done
<1>12. Written'
  <2>1. Spells(WriteLines(HeldLines'), Woven', input', cursor')
    BY <1>4, <1>8, <1>11
  <2>2. QED
    BY <2>1 DEF Written
<1>13. QED
  BY <1>3, <1>4, <1>5, <1>9, <1>12

(* A fold is written where it was taken (take_fold).                       *)
LEMMA TakeFoldWritten ==
  ASSUME ReaderInv, WriterInv, TakeFold
  PROVE  WriterInv'
<1> DEFINE newline == TerminatorAt(cursor)
           after   == cursor + WrittenLen(newline)
           fold    == [offset |-> lineOffset, tab |-> At(after) = "TAB", newline |-> newline]
<1>1. /\ stage \in {"Header", "Value"} /\ stage' = stage /\ IsBreak(cursor)
      /\ IsFoldWhitespace(At(after))
      /\ folds' = Append(folds, fold) /\ cursor' = after + 1
      /\ UNCHANGED <<input, headerVars, lineOffset, hasSeparator, value, lines>>
  BY DEF TakeFold, FoldsAt
<1>2. input \in Seq(Octets) /\ cursor \in Nat /\ TextRead
  BY DEF WriterInv, ReaderInv, ReaderTypes
<1>3. /\ newline \in Newlines /\ after \in Nat /\ cursor <= after /\ after <= Len(input)
      /\ SubSeq(input, cursor + 1, after) = NewlineOctets(newline)
  BY <1>1, <1>2, TerminatorReads
<1> HIDE DEF newline, after
<1>4. /\ At(after) \in {"SP", "TAB"} /\ after < Len(input) /\ Len(input) \in Nat
      /\ input \in Seq(Kinds) /\ SubSeq(input, after + 1, after + 1) = <<At(after)>>
  <2>1. At(after) \in {"SP", "TAB"}
    BY <1>1 DEF IsFoldWhitespace
  <2>2. At(after) # "none"
    BY <2>1
  <2>3. QED
    BY <1>2, <1>3, <2>1, <2>2, AtReads
<1>5. /\ fold \in Fold /\ fold.offset = lineOffset
      /\ FoldOctets(fold) = NewlineOctets(newline) \o <<At(after)>>
  <2>1. lineOffset \in Nat
    BY DEF ReaderInv, ReaderTypes
  <2>2. fold \in Fold /\ fold.offset = lineOffset /\ fold.newline = newline
    BY <1>3, <2>1 DEF Fold
  <2>3. (IF fold.tab THEN "TAB" ELSE "SP") = At(after)
    BY <1>4
  <2> HIDE DEF fold
  <2>4. QED
    BY <2>2, <2>3 DEF FoldOctets
<1>6. FoldOctets(fold) = SubSeq(input, cursor + 1, after + 1)
  <2>1. SubSeq(input, cursor + 1, after) \o SubSeq(input, after + 1, after + 1)
          = SubSeq(input, cursor + 1, after + 1)
    <3>1. after + 1 \in Nat /\ after <= after + 1 /\ after + 1 <= Len(input)
      BY <1>3, <1>4
    <3>2. QED
      BY <1>2, <1>3, <1>4, <3>1, SlicesJoin
  <2>2. QED
    BY <1>3, <1>4, <1>5, <2>1
<1>7. FoldOctets(fold) \in Seq(Kinds)
  BY <1>5, NewlineIsOctets
<1> HIDE DEF fold
<1>8. /\ Text \in Seq(Kinds) /\ folds \in Seq(Fold) /\ Within(folds, Len(Text))
      /\ Woven \in Seq(Kinds) /\ Len(Text) = lineOffset
  BY <1>2, TextIsOctets
<1>9. Text' = Text
  BY <1>1 DEF Text, headerVars
<1>10. TextRead'
  <2>1. Len(Text)' = lineOffset'
    BY <1>1, <1>8, <1>9
  <2>2. QED
    BY <1>1, <1>2, <2>1 DEF TextRead
<1>11. Woven' = Woven \o FoldOctets(fold)
  <2>1. WovenAll(Text, Append(folds, fold)) = Woven \o FoldOctets(fold)
    BY <1>5, <1>8, WovenAllFold DEF Woven
  <2>2. Woven' = WovenAll(Text', folds')
    BY DEF Woven
  <2>3. QED
    BY <1>1, <1>9, <2>1, <2>2
<1>12. Spells(WriteLines(HeldLines), Woven, input, cursor) /\ WriteLines(HeldLines) \in Seq(Kinds)
  BY <1>1, HeldIsWritten DEF WriterInv, Written
<1>13. Spells(WriteLines(HeldLines), Woven \o FoldOctets(fold), input, after + 1)
  <2> DEFINE q == after + 1
             done == WriteLines(HeldLines)
             c == FoldOctets(fold)
  <2>1. /\ c = SubSeq(input, cursor + 1, q) /\ c \in Seq(Kinds) /\ q \in Nat /\ cursor <= q
        /\ q <= Len(input) /\ done \in Seq(Kinds) /\ Spells(done, Woven, input, cursor)
    BY <1>2, <1>3, <1>4, <1>6, <1>7, <1>12
  <2> HIDE DEF q, done, c
  <2>2. Spells(done, Woven \o c, input, q)
    BY <1>2, <1>4, <1>8, <2>1, SpellsOn
  <2>3. QED
    BY <2>2 DEF q, done, c
<1>14. LinesHeld' /\ HeldLines' = HeldLines
  <2>1. Terminated /\ stage' # "Ending"
    BY <1>1 DEF WriterInv, LinesHeld
  <2>2. QED
    BY <1>1, <2>1, LinesStay
<1>15. Written'
  <2>1. Spells(WriteLines(HeldLines'), Woven', input', cursor')
    BY <1>1, <1>11, <1>13, <1>14
  <2>2. QED
    BY <1>1, <2>1 DEF Written
<1>16. SeparatorsKept'
  <2>1. \A k : TiledTo(k)' = TiledTo(k)
    BY <1>1 DEF TiledTo, SpanEnd, headerVars
  <2>2. QED
    BY <1>1, <2>1 DEF WriterInv, SeparatorsKept, headerVars
<1>17. input' \in Seq(Octets) /\ cursor' <= Len(input')
  BY <1>1, <1>2, <1>3, <1>4
<1>18. WritesItsInput'
  BY <1>1 DEF WritesItsInput, HasRead
<1>19. QED
  BY <1>10, <1>14, <1>15, <1>16, <1>17, <1>18 DEF WriterInv

-----------------------------------------------------------------------------
(* What stands before a name or a value stays there.                       *)
BeginsInside(span, n) == span.nameStart \in 1..n /\ (span.hasValue => span.valueStart \in 1..n)

(* Where a span ends, and the tiled part of the header, are places.        *)
LEMMA TiledReads ==
  ASSUME ReaderInv
  PROVE  /\ \A span \in Span : SpanEnd(span) \in Nat
         /\ \A n \in 0..Len(parameters) : TiledTo(n) \in Nat
<1>1. ASSUME NEW span \in Span PROVE SpanEnd(span) \in Nat
  <2>1. span.nameEnd \in Nat /\ span.valueEnd \in Nat
    BY DEF Span
  <2>2. QED
    BY <2>1 DEF SpanEnd
<1>2. parameters \in Seq(Span) /\ nameEnd \in Nat /\ Len(parameters) \in Nat
  BY DEF ReaderInv, ReaderTypes
<1>3. ASSUME NEW n \in 0..Len(parameters) PROVE TiledTo(n) \in Nat
  <2>1. CASE n = 0
    BY <1>2, <2>1 DEF TiledTo
  <2>2. CASE n # 0
    <3>1. parameters[n] \in Span
      BY <1>2, <2>2
    <3>2. QED
      BY <1>1, <2>2, <3>1 DEF TiledTo
  <2>3. QED
    BY <2>1, <2>2
<1>4. QED
  BY <1>1, <1>3

(* The spans begin inside the header.                                      *)
LEMMA SpansInside ==
  ASSUME ReaderInv, SeparatorsKept
  PROVE  /\ \A i \in DOMAIN parameters : BeginsInside(parameters[i], Len(scratch))
         /\ pending # << >> => BeginsInside(pending[1], Len(scratch))
<1>1. parameters \in Seq(Span) /\ Len(scratch) \in Nat /\ nameEnd \in Nat
  BY DEF ReaderInv, ReaderTypes
<1>2. ASSUME NEW i \in DOMAIN parameters PROVE TiledTo(i - 1) \in Nat
  <2>1. i - 1 \in 0..Len(parameters)
    BY <1>1
  <2>2. QED
    BY <2>1, TiledReads
<1>3. ASSUME NEW i \in DOMAIN parameters PROVE BeginsInside(parameters[i], Len(scratch))
  <2> DEFINE span == parameters[i]
  <2>1. span \in Span /\ i \in 0..Len(parameters) /\ i # 0
    BY <1>1
  <2>2. TiledTo(i) = SpanEnd(span) /\ TiledTo(i) <= Len(scratch)
    BY <2>1 DEF TiledTo, SeparatorsKept
  <2>3. /\ span.nameStart = TiledTo(i - 1) + 1 /\ span.nameStart <= span.nameEnd
        /\ span.hasValue =>
             span.valueStart = span.nameEnd + 1 /\ span.valueStart <= span.valueEnd
    BY DEF ReaderInv, SpansTileHeader
  <2>4. /\ span.nameStart \in Nat /\ span.nameEnd \in Nat /\ span.valueStart \in Nat
        /\ span.valueEnd \in Nat /\ span.hasValue \in BOOLEAN
    <3> HIDE DEF span
    <3>1. QED
      BY <2>1 DEF Span
  <2> HIDE DEF span
  <2>5. BeginsInside(span, Len(scratch))
    <3>1. CASE span.hasValue
      <4>1. SpanEnd(span) = span.valueEnd
        BY <3>1 DEF SpanEnd
      <4>2. QED
        BY <1>1, <1>2, <2>2, <2>3, <2>4, <3>1, <4>1 DEF BeginsInside
    <3>2. CASE ~span.hasValue
      <4>1. SpanEnd(span) = span.nameEnd
        BY <3>2 DEF SpanEnd
      <4>2. QED
        BY <1>1, <1>2, <2>2, <2>3, <2>4, <3>2, <4>1 DEF BeginsInside
    <3>3. QED
      BY <2>4, <3>1, <3>2
  <2>6. QED
    BY <2>5 DEF span
<1>4. ASSUME pending # << >> PROVE BeginsInside(pending[1], Len(scratch))
  <2> DEFINE span == pending[1]
  <2>1. span \in Span
    BY <1>4, OneOpenSpan
  <2>2. Tiled \in Nat
    <3>1. Len(parameters) \in 0..Len(parameters)
      BY <1>1
    <3>2. QED
      BY <3>1, TiledReads DEF Tiled
  <2>3. /\ span.nameStart = Tiled + 1 /\ span.nameStart <= Len(scratch)
        /\ span.hasValue =>
             /\ span.nameStart <= span.nameEnd /\ span.valueStart = span.nameEnd + 1
             /\ span.valueStart <= Len(scratch)
    BY <1>4 DEF ReaderInv, OpenSpan
  <2> HIDE DEF span
  <2>4. BeginsInside(span, Len(scratch))
    BY <1>1, <2>1, <2>2, <2>3 DEF BeginsInside, Span
  <2>5. QED
    BY <2>4 DEF span
<1>5. QED
  BY <1>3, <1>4

(* A span that is closed begins where it did, and what is closed reaches   *)
(* no further than the header (close_pending).                             *)
LEMMA ClosedSeparates ==
  ASSUME ReaderInv, SeparatorsKept, stage = "Header", ClosePending(Len(scratch)),
         Len(scratch) <= Len(scratch'), Len(scratch') \in Nat,
         \A k \in 1..Len(scratch) : scratch'[k] = scratch[k]
  PROVE  /\ \A i \in DOMAIN parameters' : Separates(scratch', parameters'[i])
         /\ \A n \in 0..Len(parameters') : TiledTo(n)' <= Len(scratch')
<1>1. /\ parameters \in Seq(Span) /\ Len(scratch) \in Nat /\ nameEnd \in Nat
      /\ \A n \in 0..Len(parameters) : TiledTo(n) <= Len(scratch)
  BY DEF ReaderInv, ReaderTypes, SeparatorsKept
<1>2. \A i \in DOMAIN parameters : Separates(scratch', parameters[i])
  <2>1. ASSUME NEW i \in DOMAIN parameters PROVE Separates(scratch', parameters[i])
    <3>1. BeginsInside(parameters[i], Len(scratch)) /\ Separates(scratch, parameters[i])
      BY SpansInside DEF SeparatorsKept
    <3>2. QED
      BY <3>1 DEF BeginsInside, Separates
  <2>2. QED
    BY <2>1
<1>3. CASE pending = << >>
  <2>1. parameters = << >> /\ parameters' = << >> /\ nameEnd' = Len(scratch)
    BY <1>3 DEF ReaderInv, OpenSpan, ClosePending
  <2>2. QED
    BY <2>1 DEF TiledTo
<1>4. CASE pending # << >>
  <2> DEFINE span == Closed(pending[1], Len(scratch))
  <2>1. parameters' = Append(parameters, span) /\ nameEnd' = nameEnd
    BY <1>4 DEF ClosePending
  <2>2. pending[1] \in Span
    BY <1>4, OneOpenSpan
  <2>3. /\ span \in Span /\ SpanEnd(span) = Len(scratch)
        /\ span.nameStart = pending[1].nameStart /\ span.hasValue = pending[1].hasValue
        /\ span.valueStart = pending[1].valueStart
    BY <1>1, <2>2 DEF Span, Closed, SpanEnd
  <2>4. BeginsInside(pending[1], Len(scratch)) /\ Separates(scratch, pending[1])
    BY <1>4, SpansInside DEF SeparatorsKept
  <2> HIDE DEF span
  <2>5. Separates(scratch', span)
    BY <2>3, <2>4 DEF BeginsInside, Separates
  <2>6. /\ Len(parameters) \in Nat /\ Len(parameters') = Len(parameters) + 1
        /\ \A i \in 1..Len(parameters) : parameters'[i] = parameters[i]
        /\ parameters'[Len(parameters) + 1] = span
        /\ DOMAIN parameters' = 1..(Len(parameters) + 1)
    BY <1>1, <2>1, <2>3
  <2>7. ASSUME NEW i \in DOMAIN parameters' PROVE Separates(scratch', parameters'[i])
    <3>1. CASE i \in 1..Len(parameters)
      <4>1. i \in DOMAIN parameters /\ parameters'[i] = parameters[i]
        BY <1>1, <2>6, <3>1
      <4>2. QED
        BY <1>2, <4>1
    <3>2. CASE i = Len(parameters) + 1
      BY <2>5, <2>6, <3>2
    <3>3. QED
      BY <2>6, <3>1, <3>2
  <2>8. ASSUME NEW n \in 0..Len(parameters') PROVE TiledTo(n)' <= Len(scratch')
    <3>1. CASE n = Len(parameters) + 1
      <4>1. TiledTo(n)' = SpanEnd(span)
        BY <2>6, <3>1 DEF TiledTo
      <4>2. QED
        BY <2>3, <4>1
    <3>2. CASE n \in 0..Len(parameters)
      <4>1. n # 0 => n \in 1..Len(parameters)
        BY <2>6, <3>2
      <4>2. TiledTo(n)' = TiledTo(n)
        BY <2>1, <2>6, <4>1 DEF TiledTo
      <4>3. TiledTo(n) <= Len(scratch) /\ TiledTo(n) \in Nat
        BY <1>1, <3>2, TiledReads
      <4>4. QED
        BY <1>1, <4>2, <4>3
    <3>3. QED
      BY <2>6, <3>1, <3>2
  <2>9. QED
    BY <2>7, <2>8
<1>5. QED
  BY <1>3, <1>4

-----------------------------------------------------------------------------
(* In the header the text is the header (Keeps, Separator).                *)
LEMMA HeaderIsText ==
  ASSUME ReaderInv, WriterInv, stage = "Header"
  PROVE  /\ Text = scratch /\ hasSeparator = FALSE /\ value = << >> /\ scratch \in Seq(Kinds)
         /\ input \in Seq(Octets) /\ cursor \in Nat /\ lineOffset \in Nat
<1>1. /\ hasSeparator = FALSE /\ value = << >> /\ scratch \in Seq(Kinds)
      /\ input \in Seq(Octets) /\ cursor \in Nat /\ lineOffset \in Nat
  BY DEF WriterInv, TextRead, ReaderInv, ReaderTypes
<1>2. scratch \o << >> = scratch
  BY <1>1, ConcatEmptySeq
<1>3. Text = scratch
  BY <1>1, <1>2 DEF Text
<1>4. QED
  BY <1>1, <1>3

(* An octet is kept of the header (keep_header).                           *)
LEMMA KeepsWritten ==
  ASSUME ReaderInv, WriterInv, Keeps, SeparatorsKept'
  PROVE  WriterInv'
<1> DEFINE o == At(cursor)
<1>1. /\ stage = "Header" /\ stage' = "Header" /\ o # "none"
      /\ scratch' = Append(scratch, o) /\ lineOffset' = lineOffset + 1 /\ cursor' = cursor + 1
      /\ UNCHANGED <<input, folds, hasSeparator, value, lines>>
  BY DEF Keeps, IsHeaderOctet
<1>2. /\ Text = scratch /\ hasSeparator = FALSE /\ value = << >> /\ scratch \in Seq(Kinds)
      /\ input \in Seq(Octets) /\ cursor \in Nat
  BY <1>1, HeaderIsText
<1>3. o \in Kinds
  BY <1>1, <1>2, AtReads
<1> HIDE DEF o
<1>4. Text' = Append(Text, o)
  <2>1. scratch' \in Seq(Kinds)
    BY <1>1, <1>2, <1>3
  <2>2. scratch' \o << >> = scratch'
    BY <2>1, ConcatEmptySeq
  <2>3. Text' = scratch'
    BY <1>1, <1>2, <2>2 DEF Text
  <2>4. QED
    BY <1>1, <1>2, <2>3
<1>5. /\ input' \in Seq(Octets) /\ cursor' <= Len(input') /\ Len(Text)' = lineOffset'
      /\ LinesHeld' /\ Written' /\ WritesItsInput'
  BY <1>1, <1>4, TextGrows DEF o
<1>6. TextRead'
  <2>1. value' = << >> /\ hasSeparator' = FALSE
    BY <1>1, <1>2
  <2>2. << >> \in Seq(Kinds)
    OBVIOUS
  <2>3. QED
    BY <1>5, <2>1, <2>2 DEF TextRead
<1>7. QED
  BY <1>5, <1>6 DEF WriterInv

(* The header so far stays as it is.                                       *)
LEMMA KeepsBeginning ==
  ASSUME ReaderInv, WriterInv, Keeps
  PROVE  /\ stage = "Header" /\ Len(scratch) \in Nat /\ Len(scratch') = Len(scratch) + 1
         /\ Len(scratch) <= Len(scratch') /\ Len(scratch') \in Nat
         /\ \A k \in 1..Len(scratch) : scratch'[k] = scratch[k]
         /\ scratch'[Len(scratch) + 1] = At(cursor)
<1>1. stage = "Header" /\ scratch' = Append(scratch, At(cursor))
  BY DEF Keeps, IsHeaderOctet
<1>2. At(cursor) # "none"
  BY DEF Keeps, IsHeaderOctet
<1>3. scratch \in Seq(Kinds) /\ input \in Seq(Octets) /\ cursor \in Nat
  BY <1>1, HeaderIsText
<1> DEFINE o == At(cursor)
<1>4. o \in Kinds
  BY <1>2, <1>3, AtReads
<1> HIDE DEF o
<1>5. scratch' = Append(scratch, o)
  BY <1>1 DEF o
<1>6. /\ Len(scratch) \in Nat /\ Len(scratch') = Len(scratch) + 1
      /\ \A k \in 1..Len(scratch) : scratch'[k] = scratch[k]
      /\ scratch'[Len(scratch) + 1] = o
  BY <1>3, <1>4, <1>5
<1>7. QED
  BY <1>1, <1>6 DEF o

(* Spans that are closed stay separated.                                   *)
LEMMA ClosedStay ==
  ASSUME ReaderInv, SeparatorsKept, UNCHANGED <<parameters, nameEnd>>,
         Len(scratch) <= Len(scratch'), Len(scratch') \in Nat,
         \A k \in 1..Len(scratch) : scratch'[k] = scratch[k]
  PROVE  /\ \A i \in DOMAIN parameters' : Separates(scratch', parameters'[i])
         /\ \A n \in 0..Len(parameters') : TiledTo(n)' <= Len(scratch')
<1>1. ASSUME NEW i \in DOMAIN parameters PROVE Separates(scratch', parameters[i])
  <2>1. BeginsInside(parameters[i], Len(scratch)) /\ Separates(scratch, parameters[i])
    BY SpansInside DEF SeparatorsKept
  <2>2. QED
    BY <2>1 DEF BeginsInside, Separates
<1>2. ASSUME NEW n \in 0..Len(parameters) PROVE TiledTo(n)' <= Len(scratch')
  <2>1. TiledTo(n) \in Nat /\ TiledTo(n) <= Len(scratch) /\ Len(scratch) \in Nat
    BY TiledReads DEF SeparatorsKept, ReaderInv, ReaderTypes
  <2>2. TiledTo(n)' = TiledTo(n)
    BY DEF TiledTo
  <2>3. QED
    BY <2>1, <2>2
<1>3. QED
  BY <1>1, <1>2

(* A ";" opens a parameter.                                                *)
LEMMA OpenParameterWritten ==
  ASSUME ReaderInv, WriterInv, OpenParameter
  PROVE  WriterInv'
<1> DEFINE from == Len(scratch) + 1
           span == [nameStart |-> from, nameEnd |-> from, valueStart |-> from,
                    valueEnd |-> from, hasValue |-> FALSE]
<1>1. /\ Keeps /\ At(cursor) = ";" /\ pending' = <<span>> /\ ClosePending(Len(scratch))
  BY DEF OpenParameter, OpensParameter
<1>2. /\ stage = "Header" /\ Len(scratch) \in Nat /\ Len(scratch') = Len(scratch) + 1
      /\ \A k \in 1..Len(scratch) : scratch'[k] = scratch[k]
      /\ scratch'[from] = ";"
  BY <1>1, KeepsBeginning
<1>3. /\ \A i \in DOMAIN parameters' : Separates(scratch', parameters'[i])
      /\ \A n \in 0..Len(parameters') : TiledTo(n)' <= Len(scratch')
  <2>1. Len(scratch) <= Len(scratch') /\ Len(scratch') \in Nat
    BY <1>1, KeepsBeginning
  <2>2. QED
    BY <1>1, <1>2, <2>1, ClosedSeparates DEF WriterInv
<1>4. Separates(scratch', pending'[1])
  <2>1. pending'[1] = span
    BY <1>1
  <2>2. span.nameStart = from /\ span.hasValue = FALSE
    OBVIOUS
  <2>3. QED
    BY <1>2, <2>1, <2>2 DEF Separates
<1>5. SeparatorsKept'
  BY <1>3, <1>4 DEF SeparatorsKept
<1>6. QED
  BY <1>1, <1>5, KeepsWritten

(* A "=" ends a name.                                                      *)
LEMMA BeginParameterValueWritten ==
  ASSUME ReaderInv, WriterInv, BeginParameterValue
  PROVE  WriterInv'
<1> DEFINE span == [pending[1] EXCEPT !.nameEnd = Len(scratch), !.hasValue = TRUE,
                      !.valueStart = Len(scratch) + 1, !.valueEnd = Len(scratch) + 1]
<1>1. /\ Keeps /\ At(cursor) = "=" /\ header = "ParameterName" /\ pending' = <<span>>
      /\ UNCHANGED <<parameters, nameEnd>>
  BY DEF BeginParameterValue
<1>2. /\ stage = "Header" /\ Len(scratch) \in Nat /\ Len(scratch') = Len(scratch) + 1
      /\ \A k \in 1..Len(scratch) : scratch'[k] = scratch[k]
      /\ scratch'[Len(scratch) + 1] = "="
  BY <1>1, KeepsBeginning
<1>3. /\ \A i \in DOMAIN parameters' : Separates(scratch', parameters'[i])
      /\ \A n \in 0..Len(parameters') : TiledTo(n)' <= Len(scratch')
  <2>1. Len(scratch) <= Len(scratch') /\ Len(scratch') \in Nat
    BY <1>1, KeepsBeginning
  <2>2. QED
    BY <1>1, <1>2, <2>1, ClosedStay DEF WriterInv
<1>4. Separates(scratch', pending'[1])
  <2>1. pending # << >> /\ pending[1] \in Span
    BY <1>1, <1>2, OneOpenSpan DEF ReaderInv, OpenSpan
  <2>2. BeginsInside(pending[1], Len(scratch)) /\ Separates(scratch, pending[1])
    BY <2>1, SpansInside DEF WriterInv, SeparatorsKept
  <2>3. pending'[1] = span
    BY <1>1
  <2>4. span.nameStart = pending[1].nameStart /\ span.valueStart = Len(scratch) + 1
    BY <2>1 DEF Span
  <2> HIDE DEF span
  <2>5. scratch'[span.nameStart] = ";"
    BY <1>2, <2>2, <2>4 DEF BeginsInside, Separates
  <2>6. QED
    BY <1>2, <2>3, <2>4, <2>5 DEF Separates
<1>5. SeparatorsKept'
  BY <1>3, <1>4 DEF SeparatorsKept
<1>6. QED
  BY <1>1, <1>5, KeepsWritten

(* Every octet of a header (scan_header).                                  *)
LEMMA StepHeaderWritten ==
  ASSUME ReaderInv, WriterInv, StepHeader
  PROVE  WriterInv'
<1>1. Keeps /\ UNCHANGED <<parameters, pending, nameEnd>>
  BY DEF StepHeader
<1>2. /\ stage = "Header" /\ Len(scratch) \in Nat /\ Len(scratch') = Len(scratch) + 1
      /\ \A k \in 1..Len(scratch) : scratch'[k] = scratch[k]
  BY <1>1, KeepsBeginning
<1>3. /\ \A i \in DOMAIN parameters' : Separates(scratch', parameters'[i])
      /\ \A n \in 0..Len(parameters') : TiledTo(n)' <= Len(scratch')
  <2>1. Len(scratch) <= Len(scratch') /\ Len(scratch') \in Nat
    BY <1>1, KeepsBeginning
  <2>2. QED
    BY <1>1, <1>2, <2>1, ClosedStay DEF WriterInv
<1>4. pending' # << >> => Separates(scratch', pending'[1])
  <2>1. SUFFICES ASSUME pending # << >> PROVE Separates(scratch', pending[1])
    BY <1>1
  <2>2. BeginsInside(pending[1], Len(scratch)) /\ Separates(scratch, pending[1])
    BY <2>1, SpansInside DEF WriterInv, SeparatorsKept
  <2>3. QED
    BY <1>2, <2>2 DEF BeginsInside, Separates
<1>5. SeparatorsKept'
  BY <1>3, <1>4 DEF SeparatorsKept
<1>6. QED
  BY <1>1, <1>5, KeepsWritten

(* The ":" ends the header and is of the line's text.                      *)
LEMMA SeparatorWritten ==
  ASSUME ReaderInv, WriterInv, Separator
  PROVE  WriterInv'
<1>1. /\ stage = "Header" /\ At(cursor) = ":" /\ stage' = "Value" /\ CloseHeader(TRUE)
      /\ cursor' = cursor + 1 /\ lineOffset' = lineOffset + 1
  BY DEF Separator
<1>2. /\ ClosePending(Len(scratch)) /\ pending' = << >> /\ hasSeparator' = TRUE
      /\ UNCHANGED <<scratch, folds, value, input, lines>>
  BY <1>1 DEF CloseHeader
<1>3. Text = scratch /\ value = << >> /\ scratch \in Seq(Kinds)
  BY <1>1, HeaderIsText
<1>4. ":" \in Kinds
  BY DEF Kinds, Octets
<1>5. Text' = Append(Text, At(cursor))
  <2>1. scratch \o <<":">> = Append(scratch, ":") /\ Append(scratch, ":") \in Seq(Kinds)
    BY <1>3, <1>4
  <2>2. Append(scratch, ":") \o << >> = Append(scratch, ":")
    BY <2>1, ConcatEmptySeq
  <2>3. Text' = scratch \o <<":">> \o << >>
    BY <1>2, <1>3 DEF Text
  <2>4. QED
    BY <1>1, <1>3, <2>1, <2>2, <2>3
<1>6. /\ input' \in Seq(Octets) /\ cursor' <= Len(input') /\ Len(Text)' = lineOffset'
      /\ LinesHeld' /\ Written' /\ WritesItsInput'
  <2>1. At(cursor) # "none"
    BY <1>1
  <2>2. QED
    BY <1>1, <1>2, <1>5, <2>1, TextGrows
<1>7. TextRead'
  <2>1. value' \in Seq(Kinds) /\ hasSeparator' \in BOOLEAN
    BY <1>2 DEF WriterInv, TextRead
  <2>2. QED
    BY <1>1, <1>6, <2>1 DEF TextRead
<1>8. SeparatorsKept'
  <2>1. Len(scratch) \in Nat
    BY <1>3
  <2>2. /\ Len(scratch) <= Len(scratch') /\ Len(scratch') \in Nat
        /\ \A k \in 1..Len(scratch) : scratch'[k] = scratch[k]
    BY <1>2, <2>1
  <2>3. QED
    BY <1>1, <1>2, <2>2, ClosedSeparates DEF WriterInv, SeparatorsKept
<1>9. QED
  BY <1>6, <1>7, <1>8 DEF WriterInv

(* Nothing changes of the header.                                          *)
LEMMA SeparatorsStay ==
  ASSUME SeparatorsKept, UNCHANGED headerVars
  PROVE  SeparatorsKept'
<1>1. \A k : TiledTo(k)' = TiledTo(k)
  BY DEF TiledTo, SpanEnd, headerVars
<1>2. QED
  BY <1>1 DEF SeparatorsKept, headerVars

(* An octet of the value (read_value).                                     *)
LEMMA ValueOctetWritten ==
  ASSUME ReaderInv, WriterInv, ValueOctet
  PROVE  WriterInv'
<1> DEFINE o == At(cursor)
           before == scratch \o (IF hasSeparator THEN <<":">> ELSE << >>)
<1>1. /\ stage = "Value" /\ stage' = "Value" /\ o # "none" /\ value' = Append(value, o)
      /\ cursor' = cursor + 1 /\ lineOffset' = lineOffset + 1
      /\ UNCHANGED <<input, headerVars, folds, hasSeparator, lines>>
  BY DEF ValueOctet
<1>2. /\ input \in Seq(Octets) /\ cursor \in Nat /\ value \in Seq(Kinds)
      /\ hasSeparator \in BOOLEAN /\ scratch \in Seq(Kinds)
  BY DEF WriterInv, TextRead, ReaderInv, ReaderTypes
<1>3. o \in Kinds
  BY <1>1, <1>2, AtReads
<1>4. before \in Seq(Kinds)
  <2> DEFINE separator == IF hasSeparator THEN <<":">> ELSE << >>
  <2>1. ":" \in Kinds
    BY DEF Kinds, Octets
  <2>2. separator \in Seq(Kinds)
    BY <2>1
  <2> HIDE DEF separator
  <2>3. scratch \o separator \in Seq(Kinds)
    BY <1>2, <2>2, ConcatProperties
  <2>4. QED
    BY <2>3 DEF separator
<1>5. Text = before \o value /\ Text' = before \o Append(value, o)
  BY <1>1 DEF Text, headerVars
<1> HIDE DEF o, before
<1>6. Text' = Append(Text, o)
  <2>1. before \o Append(value, o) = Append(before \o value, o)
    BY <1>2, <1>3, <1>4
  <2>2. QED
    BY <1>5, <2>1
<1>7. /\ input' \in Seq(Octets) /\ cursor' <= Len(input') /\ Len(Text)' = lineOffset'
      /\ LinesHeld' /\ Written' /\ WritesItsInput'
  BY <1>1, <1>6, TextGrows DEF o
<1>8. TextRead'
  <2>1. value' \in Seq(Kinds) /\ hasSeparator' \in BOOLEAN
    BY <1>1, <1>2, <1>3
  <2>2. QED
    BY <1>1, <1>7, <2>1 DEF TextRead
<1>9. SeparatorsKept'
  BY <1>1, SeparatorsStay DEF WriterInv
<1>10. QED
  BY <1>7, <1>8, <1>9 DEF WriterInv

(* The line ends at a terminator, which is its ending, or with the input.  *)
LEMMA LineEnds ==
  ASSUME ReaderInv, WriterInv, stage \in {"Header", "Value"}, stage' = "Ending", LineEndsHere,
         ending' = TerminatorAt(cursor),
         cursor' = IF TerminatorAt(cursor) = "none" THEN cursor
                   ELSE cursor + WrittenLen(TerminatorAt(cursor)),
         UNCHANGED <<input, scratch, hasSeparator, value, lineOffset, folds, lines>>,
         SeparatorsKept'
  PROVE  WriterInv'
<1> DEFINE newline == TerminatorAt(cursor)
<1>1. /\ input \in Seq(Octets) /\ cursor \in Nat /\ TextRead /\ cursor <= Len(input)
      /\ Len(input) \in Nat /\ input \in Seq(Kinds)
  <2>1. input \in Seq(Octets) /\ cursor \in Nat /\ TextRead /\ cursor <= Len(input)
    BY DEF WriterInv, ReaderInv, ReaderTypes
  <2>2. QED
    BY <2>1, AtReads
<1>2. /\ newline \in Newlines \cup {"none"}
      /\ newline = "none" => cursor' = Len(input)
      /\ cursor' \in Nat /\ cursor <= cursor' /\ cursor' <= Len(input)
      /\ SubSeq(input, cursor + 1, cursor') = NewlineOctets(newline)
  <2>1. CASE At(cursor) = "none"
    <3>1. newline = "none" /\ cursor' = cursor
      BY <2>1 DEF TerminatorAt
    <3>2. cursor = Len(input)
      <4>1. ~(cursor < Len(input))
        BY <1>1, <2>1, AtReads
      <4>2. QED
        BY <1>1, <4>1
    <3>3. SubSeq(input, cursor + 1, cursor) = << >>
      BY <1>1, EmptySlice
    <3>4. NewlineOctets("none") = << >>
      BY DEF NewlineOctets
    <3> HIDE DEF newline
    <3>5. QED
      BY <1>1, <3>1, <3>2, <3>3, <3>4
  <2>2. CASE IsBreak(cursor)
    <3>1. /\ newline \in Newlines /\ cursor + WrittenLen(newline) \in Nat
          /\ cursor <= cursor + WrittenLen(newline) /\ cursor + WrittenLen(newline) <= Len(input)
          /\ SubSeq(input, cursor + 1, cursor + WrittenLen(newline)) = NewlineOctets(newline)
      BY <1>1, <2>2, TerminatorReads
    <3>2. newline # "none"
      BY <3>1 DEF Newlines
    <3>3. cursor' = cursor + WrittenLen(newline)
      BY <3>2
    <3> HIDE DEF newline
    <3>4. QED
      BY <3>1, <3>2, <3>3
  <2>3. QED
    BY <2>1, <2>2 DEF LineEndsHere
<1>3. ending' = newline
  OBVIOUS
<1> HIDE DEF newline
<1>4. LinesHeld' /\ HeldLines' = HeldLines
  <2>1. Terminated
    BY DEF WriterInv, LinesHeld
  <2>2. ending' \in Newlines \cup {"none"} /\ UNCHANGED lines
    BY <1>2, <1>3
  <2>3. ending' = "none" => cursor' = Len(input')
    <3>1. newline = "none" => cursor' = Len(input)
      BY <1>2, Zenon
    <3>2. QED
      BY <1>3, <3>1
  <2>4. QED
    BY <2>1, <2>2, <2>3, LinesStay
<1>5. Text' = Text /\ Woven' = Woven
  BY DEF Text, Woven
<1>6. Woven \in Seq(Kinds) /\ Len(Text) = lineOffset
  BY <1>1, TextIsOctets
<1>7. TextRead'
  <2>1. Len(Text)' = lineOffset'
    BY <1>5, <1>6
  <2>2. QED
    BY <1>1, <2>1 DEF TextRead
<1>8. Spells(WriteLines(HeldLines), Woven, input, cursor) /\ WriteLines(HeldLines) \in Seq(Kinds)
  BY HeldIsWritten DEF WriterInv, Written
<1>9. Spells(WriteLines(HeldLines), Woven \o NewlineOctets(newline), input, cursor')
  <2> DEFINE q == cursor'
             done == WriteLines(HeldLines)
             c == NewlineOctets(newline)
  <2>1. c \in Seq(Kinds)
    <3>1. cursor \in Nat /\ cursor' \in Nat /\ cursor <= cursor' /\ cursor' <= Len(input)
      BY <1>1, <1>2
    <3>2. SubSeq(input, cursor + 1, cursor') \in Seq(Kinds)
      <4> HIDE DEF q
      <4>1. q \in Nat /\ cursor <= q /\ q <= Len(input)
        BY <3>1 DEF q
      <4>2. SubSeq(input, cursor + 1, q) \in Seq(Kinds)
        BY <1>1, <4>1, SliceReads
      <4>3. QED
        BY <4>2 DEF q
    <3>3. QED
      BY <1>2, <3>2
  <2>2. /\ c = SubSeq(input, cursor + 1, q) /\ q \in Nat /\ cursor <= q
        /\ q <= Len(input) /\ done \in Seq(Kinds) /\ Spells(done, Woven, input, cursor)
    BY <1>2, <1>8
  <2> HIDE DEF q, done, c
  <2>3. Spells(done, Woven \o c, input, q)
    BY <1>1, <1>6, <2>1, <2>2, SpellsOn
  <2>4. QED
    BY <2>3 DEF q, done, c
<1>10. Written'
  <2>1. Spells(WriteLines(HeldLines'), Woven' \o NewlineOctets(ending'), input', cursor')
    BY <1>3, <1>4, <1>5, <1>9
  <2>2. QED
    BY <2>1 DEF Written
<1>11. input' \in Seq(Octets) /\ cursor' <= Len(input')
  BY <1>1, <1>2
<1>12. WritesItsInput'
  BY DEF WritesItsInput, HasRead
<1>13. QED
  BY <1>4, <1>7, <1>10, <1>11, <1>12 DEF WriterInv

(* A terminator, or the end of the input, ends the line.                   *)
LEMMA LineEndsWritten ==
  ASSUME ReaderInv, WriterInv, LineEndsInHeader \/ LineEndsInValue
  PROVE  WriterInv'
<1>1. CASE LineEndsInHeader
  <2>1. /\ stage = "Header" /\ LineEndsHere /\ stage' = "Ending" /\ CloseHeader(FALSE)
        /\ ending' = TerminatorAt(cursor)
        /\ cursor' = IF TerminatorAt(cursor) = "none" THEN cursor
                     ELSE cursor + WrittenLen(TerminatorAt(cursor))
        /\ UNCHANGED lineOffset
    BY <1>1 DEF LineEndsInHeader
  <2>2. /\ ClosePending(Len(scratch)) /\ pending' = << >> /\ hasSeparator' = FALSE
        /\ UNCHANGED <<scratch, folds, value, input, lines>>
    BY <2>1 DEF CloseHeader
  <2>3. hasSeparator = FALSE /\ scratch \in Seq(Kinds)
    BY <2>1, HeaderIsText
  <2>4. SeparatorsKept'
    <3>1. Len(scratch) \in Nat
      BY <2>3
    <3>2. /\ Len(scratch) <= Len(scratch') /\ Len(scratch') \in Nat
          /\ \A k \in 1..Len(scratch) : scratch'[k] = scratch[k]
      BY <2>2, <3>1
    <3>3. QED
      BY <2>1, <2>2, <3>2, ClosedSeparates DEF WriterInv, SeparatorsKept
  <2>5. UNCHANGED <<input, scratch, hasSeparator, value, lineOffset, folds, lines>>
    BY <2>1, <2>2, <2>3
  <2>6. QED
    BY <2>1, <2>4, <2>5, LineEnds
<1>2. CASE LineEndsInValue
  <2>1. /\ stage = "Value" /\ LineEndsHere /\ stage' = "Ending"
        /\ ending' = TerminatorAt(cursor)
        /\ cursor' = IF TerminatorAt(cursor) = "none" THEN cursor
                     ELSE cursor + WrittenLen(TerminatorAt(cursor))
        /\ UNCHANGED <<input, headerVars, lineOffset, folds, hasSeparator, value, lines>>
    BY <1>2 DEF LineEndsInValue
  <2>2. SeparatorsKept'
    BY <2>1, SeparatorsStay DEF WriterInv
  <2>3. UNCHANGED <<input, scratch, hasSeparator, value, lineOffset, folds, lines>>
    BY <2>1 DEF headerVars
  <2>4. QED
    BY <2>1, <2>2, <2>3, LineEnds
<1>3. QED
  BY <1>1, <1>2

-----------------------------------------------------------------------------
(* The pieces of a line that was read are its text.                        *)

LEMMA ListOf ==
  ASSUME NEW n \in Nat, NEW S, NEW f \in [1..n -> S]
  PROVE  f \in Seq(S) /\ Len(f) = n
<1>1. f \in Seq(S)
  OBVIOUS
<1>2. DOMAIN f = 1..Len(f) /\ Len(f) \in Nat /\ DOMAIN f = 1..n
  BY <1>1, LenProperties
<1>3. Len(f) = n
  BY <1>2
<1>4. QED
  BY <1>1, <1>3

(* A slice of one octet.                                                   *)
LEMMA SliceOfOne ==
  ASSUME NEW S, NEW t \in Seq(S), NEW p \in Nat, p < Len(t)
  PROVE  SubSeq(t, p + 1, p + 1) = <<t[p + 1]>>
<1> DEFINE u == SubSeq(t, p + 1, p + 1)
<1>1. p + 1 \in Nat /\ p <= p + 1 /\ p + 1 <= Len(t)
  BY LenProperties
<1>2. /\ u \in Seq(S) /\ Len(u) = (p + 1) - p
      /\ \A i \in 1..((p + 1) - p) : u[i] = t[p + i]
  BY <1>1, SliceReads
<1> HIDE DEF u
<1>3. Len(u) = 1 /\ u[1] = t[p + 1]
  BY <1>2
<1>4. u = <<t[p + 1]>>
  BY <1>2, <1>3
<1>5. QED
  BY <1>4 DEF u

(* An octet and the slice behind it.                                       *)
LEMMA SliceBehind ==
  ASSUME NEW text \in Seq(Kinds), NEW from \in Nat, NEW a, NEW b \in Nat, a = from + 1,
         a <= b, b <= Len(text), NEW o, text[a] = o
  PROVE  /\ (SubSeq(text, 1, from) \o <<o>>) \o SubSeq(text, a + 1, b) = SubSeq(text, 1, b)
         /\ SubSeq(text, a + 1, b) \in Seq(Kinds)
<1>1. /\ Len(text) \in Nat /\ a \in Nat /\ from < Len(text) /\ 0 \in Nat /\ 0 <= from
      /\ from <= a /\ 0 <= a /\ a <= Len(text) /\ 0 + 1 = 1
  BY LenProperties
<1>2. SubSeq(text, from + 1, a) = <<o>>
  BY <1>1, SliceOfOne
<1>3. SubSeq(text, 0 + 1, from) \o SubSeq(text, from + 1, a) = SubSeq(text, 0 + 1, a)
  BY <1>1, SlicesJoin
<1>4. SubSeq(text, 0 + 1, a) \o SubSeq(text, a + 1, b) = SubSeq(text, 0 + 1, b)
  BY <1>1, SlicesJoin
<1>5. SubSeq(text, a + 1, b) \in Seq(Kinds)
  BY <1>1, SliceReads
<1>6. QED
  BY <1>1, <1>2, <1>3, <1>4, <1>5

(* Behind the separator comes the name, and behind the "=" the value, up   *)
(* to where the next span begins.                                          *)
SpanAt(text, span, from) ==
  /\ span.nameStart = from + 1 /\ span.nameStart <= span.nameEnd
  /\ span.hasValue => span.valueStart = span.nameEnd + 1 /\ span.valueStart <= span.valueEnd
  /\ SpanEnd(span) <= Len(text)
PartOf(text, span) ==
  [name |-> SubSeq(text, span.nameStart + 1, span.nameEnd),
   value |-> SubSeq(text, span.valueStart + 1, span.valueEnd),
   hasValue |-> span.hasValue]

(* A span adds its separator, its name and its value to the text before    *)
(* it.                                                                     *)
LEMMA SpanExtends ==
  ASSUME NEW text \in Seq(Kinds), NEW span \in Span, NEW from \in Nat,
         SpanAt(text, span, from), Separates(text, span)
  PROVE  /\ IsParameter(PartOf(text, span))
         /\ Extends(SubSeq(text, 1, from), PartOf(text, span), SubSeq(text, 1, SpanEnd(span)))
<1> DEFINE a == span.nameStart
           b == span.nameEnd
           c == span.valueStart
           d == span.valueEnd
           p == PartOf(text, span)
           head == SubSeq(text, 1, from)
<1>1. /\ a \in Nat /\ b \in Nat /\ c \in Nat /\ d \in Nat /\ span.hasValue \in BOOLEAN
      /\ Len(text) \in Nat
  BY LenProperties DEF Span
<1>2. a = from + 1 /\ a <= b /\ text[a] = ";"
  BY DEF SpanAt, Separates
<1>3. /\ p.name = SubSeq(text, a + 1, b) /\ p.value = SubSeq(text, c + 1, d)
      /\ p.hasValue = span.hasValue
  BY DEF PartOf
<1> HIDE DEF p
<1>4. CASE ~span.hasValue
  <2>1. b <= Len(text) /\ SpanEnd(span) = b
    BY <1>4 DEF SpanAt, SpanEnd
  <2> HIDE DEF a, b
  <2>2. (head \o <<";">>) \o p.name = SubSeq(text, 1, b) /\ p.name \in Seq(Kinds)
    <3>1. /\ (SubSeq(text, 1, from) \o <<";">>) \o SubSeq(text, a + 1, b) = SubSeq(text, 1, b)
          /\ SubSeq(text, a + 1, b) \in Seq(Kinds)
      <4>1. b \in Nat /\ a = from + 1 /\ a <= b /\ b <= Len(text) /\ text[a] = ";"
        BY <1>1, <1>2, <2>1
      <4>2. text \in Seq(Kinds) /\ from \in Nat
        OBVIOUS
      <4> HIDE DEF head, p
      <4>3. QED
        BY ONLY <4>1, <4>2, SliceBehind, Zenon
    <3>2. p.name = SubSeq(text, a + 1, b)
      BY <1>3
    <3>3. QED
      BY <3>1, <3>2, Zenon
  <2> HIDE DEF head
  <2>3. IsParameter(p)
    BY <1>1, <1>3, <1>4, <2>2 DEF IsParameter
  <2>4. Extends(head, p, SubSeq(text, 1, SpanEnd(span)))
    BY <1>3, <1>4, <2>1, <2>2 DEF Extends
  <2>5. QED
    BY <2>3, <2>4 DEF p, head
<1>5. CASE span.hasValue
  <2>1. c = b + 1 /\ c <= d /\ d <= Len(text) /\ text[c] = "=" /\ SpanEnd(span) = d
    BY <1>5 DEF SpanAt, SpanEnd, Separates
  <2> HIDE DEF a, b, c, d
  <2>2. b <= Len(text)
    BY <1>1, <2>1
  <2>3. (head \o <<";">>) \o p.name = SubSeq(text, 1, b) /\ p.name \in Seq(Kinds)
    <3>1. /\ (SubSeq(text, 1, from) \o <<";">>) \o SubSeq(text, a + 1, b) = SubSeq(text, 1, b)
          /\ SubSeq(text, a + 1, b) \in Seq(Kinds)
      <4>1. b \in Nat /\ a = from + 1 /\ a <= b /\ b <= Len(text) /\ text[a] = ";"
        BY <1>1, <1>2, <2>2
      <4>2. text \in Seq(Kinds) /\ from \in Nat
        OBVIOUS
      <4> HIDE DEF head, p
      <4>3. QED
        BY ONLY <4>1, <4>2, SliceBehind, Zenon
    <3>2. p.name = SubSeq(text, a + 1, b)
      BY <1>3
    <3>3. QED
      BY <3>1, <3>2, Zenon
  <2>4. /\ (SubSeq(text, 1, b) \o <<"=">>) \o p.value = SubSeq(text, 1, d)
        /\ p.value \in Seq(Kinds)
    BY <1>1, <1>3, <2>1, SliceBehind
  <2> HIDE DEF head
  <2>5. IsParameter(p)
    BY <1>1, <1>3, <1>5, <2>3, <2>4 DEF IsParameter
  <2> DEFINE most == (head \o <<";">>) \o p.name
  <2>6. most = SubSeq(text, 1, b)
    BY <2>3
  <2> HIDE DEF most
  <2>7. (most \o <<"=">>) \o p.value = SubSeq(text, 1, SpanEnd(span))
    BY <2>1, <2>4, <2>6
  <2>8. Extends(head, p, SubSeq(text, 1, SpanEnd(span)))
    BY <1>3, <1>5, <2>7 DEF Extends, most
  <2>9. QED
    BY <2>5, <2>8 DEF p, head
<1>6. QED
  BY <1>1, <1>4, <1>5

(* The line the builder holds is written as its text with its folds: its   *)
(* pieces are the text, cut at the spans (WriteLineWoven).                 *)
LEMMA HeldIsText ==
  ASSUME ReaderInv, WriterInv, stage = "Ending"
  PROVE  WriteLine(Held) = Woven \o NewlineOctets(ending)
<1> DEFINE n == Len(parameters)
           h == [i \in 0..n |-> SubSeq(scratch, 1, TiledTo(i))]
           line == Held
<1>1. /\ parameters \in Seq(Span) /\ scratch \in Seq(Kinds) /\ value \in Seq(Kinds)
      /\ hasSeparator \in BOOLEAN /\ n \in Nat /\ Len(scratch) \in Nat
      /\ DOMAIN parameters = 1..n
  BY DEF WriterInv, TextRead, ReaderInv, ReaderTypes
<1>2. /\ line.name = SubSeq(scratch, 1, TiledTo(0)) /\ line.value = value
      /\ line.hasSeparator = hasSeparator /\ line.folds = folds /\ line.ending = ending
      /\ line.refolded = FALSE
  <2>1. 0 + 1 = 1
    OBVIOUS
  <2>2. QED
    BY <2>1 DEF Held, Slice, TiledTo
<1>3. Len(line.parameters) = n /\ \A i \in 1..n : line.parameters[i] = PartOf(scratch, parameters[i])
  <2> DEFINE f == [i \in 1..n |-> PartOf(scratch, parameters[i])]
             S == {f[i] : i \in 1..n}
  <2>1. line.parameters = f
    BY <1>1 DEF Held, Slice, PartOf
  <2>2. f \in [1..n -> S] /\ \A i \in 1..n : f[i] = PartOf(scratch, parameters[i])
    OBVIOUS
  <2> HIDE DEF f, S, n, line
  <2>3. Len(f) = n
    BY <1>1, <2>2, ListOf
  <2>4. QED
    BY <2>1, <2>2, <2>3
<1> HIDE DEF line
<1>4. \A i \in 0..n : TiledTo(i) \in Nat /\ TiledTo(i) <= Len(scratch)
  BY <1>1, TiledReads DEF WriterInv, SeparatorsKept
<1>5. line.name \in Seq(Kinds) /\ h[0] = line.name
  <2>1. 0 \in 0..n
    BY <1>1
  <2>2. 0 \in Nat /\ 0 <= TiledTo(0) /\ 0 + 1 = 1
    BY <1>4, <2>1
  <2>3. SubSeq(scratch, 0 + 1, TiledTo(0)) \in Seq(Kinds)
    BY <1>1, <1>4, <2>1, <2>2, SliceReads
  <2>4. h[0] = SubSeq(scratch, 1, TiledTo(0))
    BY <2>1
  <2>5. QED
    BY <1>2, <2>2, <2>3, <2>4
<1>6. ASSUME NEW i \in 1..n
      PROVE  IsParameter(line.parameters[i]) /\ Extends(h[i - 1], line.parameters[i], h[i])
  <2> DEFINE span == parameters[i]
             from == TiledTo(i - 1)
  <2>1. i \in 0..n /\ i - 1 \in 0..n /\ i # 0 /\ span \in Span
    BY <1>1
  <2>2. /\ h[i - 1] = SubSeq(scratch, 1, from) /\ h[i] = SubSeq(scratch, 1, SpanEnd(span))
        /\ TiledTo(i) = SpanEnd(span)
    BY <2>1 DEF TiledTo
  <2>3. /\ span.nameStart = from + 1 /\ span.nameStart <= span.nameEnd
        /\ span.hasValue =>
             span.valueStart = span.nameEnd + 1 /\ span.valueStart <= span.valueEnd
    BY <1>1 DEF ReaderInv, SpansTileHeader
  <2>4. Separates(scratch, span)
    BY <1>1 DEF WriterInv, SeparatorsKept
  <2>5. from \in Nat /\ SpanEnd(span) <= Len(scratch)
    BY <1>4, <2>1, <2>2
  <2>6. line.parameters[i] = PartOf(scratch, span)
    BY <1>3
  <2> HIDE DEF span, from, h
  <2>7. SpanAt(scratch, span, from)
    BY <2>3, <2>5 DEF SpanAt
  <2>8. /\ IsParameter(PartOf(scratch, span))
        /\ Extends(SubSeq(scratch, 1, from), PartOf(scratch, span),
                   SubSeq(scratch, 1, SpanEnd(span)))
    BY <1>1, <2>1, <2>4, <2>5, <2>7, SpanExtends
  <2>9. QED
    BY <2>2, <2>6, <2>8
<1>7. h[n] = scratch
  <2>1. n \in 0..n /\ TiledTo(n) = Len(scratch)
    BY <1>1 DEF ReaderInv, SpansTileHeader, Tiled
  <2>2. h[n] = SubSeq(scratch, 1, Len(scratch))
    BY <2>1
  <2>3. SubSeq(scratch, 1, Len(scratch)) = scratch
    <3>1. scratch \in Seq(Kinds)
      BY <1>1
    <3>2. QED
      BY ONLY <3>1
  <2>4. QED
    BY <2>2, <2>3
<1> HIDE DEF h
<1>8. /\ IsCut(PiecesOf(line), h[Len(line.parameters)]
               \o (IF line.hasSeparator THEN <<":">> ELSE << >>) \o line.value)
      /\ PiecesOf(line) # << >>
  <2>1. /\ Len(line.parameters) \in Nat /\ line.name \in Seq(Kinds) /\ h[0] = line.name
        /\ line.value \in Seq(Kinds) /\ line.hasSeparator \in BOOLEAN
        /\ \A i \in 1..Len(line.parameters) :
             IsParameter(line.parameters[i]) /\ Extends(h[i - 1], line.parameters[i], h[i])
    BY <1>1, <1>2, <1>3, <1>5, <1>6
  <2>2. QED
    BY <2>1, PiecesCut
<1>9. IsCut(PiecesOf(line), Text)
  <2>1. h[Len(line.parameters)] = scratch
    BY <1>3, <1>7
  <2>2. QED
    BY <1>2, <1>8, <2>1 DEF Text
<1>10. /\ line.folds \in Seq(Fold) /\ Within(line.folds, Len(Text))
  BY <1>2, TextIsOctets DEF WriterInv
<1>11. WriteLine(line) = WovenTo(Text, line.folds, Len(line.folds), Len(Text))
                           \o NewlineOctets(line.ending)
  BY <1>2, <1>8, <1>9, <1>10, WriteLineWoven
<1>12. WriteLine(line) = Woven \o NewlineOctets(ending)
  BY <1>2, <1>11 DEF Woven, WovenAll
<1>13. QED
  BY <1>12 DEF line

(* The line joins the others, and is written behind them (finish_line).    *)
LEMMA EndOfLineWritten ==
  ASSUME ReaderInv, WriterInv, EndOfLine
  PROVE  WriterInv'
<1> DEFINE finished == [line |-> Held, start |-> lineStart, end |-> MeasuredEnd(Held, lineStart)]
           n == Len(lines)
<1>1. /\ stage = "Ending" /\ stage' = "LineStart" /\ lines' = Append(lines, finished)
      /\ UNCHANGED <<input, cursor, headerVars, lineOffset, folds, ending, hasSeparator, value>>
  BY DEF EndOfLine
<1>2. finished.line = Held
  OBVIOUS
<1> HIDE DEF finished
<1>3. WriteLine(Held) = Woven \o NewlineOctets(ending) /\ Held.ending = ending
  BY <1>1, HeldIsText DEF Held
<1>4. Woven \o NewlineOctets(ending) \in Seq(Kinds)
  <2>1. ending \in Newlines \cup {"none"}
    BY <1>1 DEF WriterInv, LinesHeld
  <2>2. NewlineOctets(ending) \in Seq(Kinds)
    <3>1. CASE ending \in Newlines
      BY <3>1, NewlineIsOctets
    <3>2. CASE ending = "none"
      <4>1. NewlineOctets("none") = << >>
        BY DEF NewlineOctets
      <4>2. << >> \in Seq(Kinds)
        OBVIOUS
      <4>3. QED
        BY <3>2, <4>1, <4>2
    <3>3. QED
      BY <2>1, <3>1, <3>2
  <2>3. Woven \in Seq(Kinds)
    BY TextIsOctets DEF WriterInv
  <2>4. QED
    BY <2>2, <2>3, ConcatProperties
<1>5. PICK S : lines \in Seq(S)
  BY DEF WriterInv, LinesHeld
<1>6. /\ n \in Nat /\ lines' \in Seq(S \cup {finished}) /\ Len(lines') = n + 1
      /\ DOMAIN lines = 1..n /\ DOMAIN lines' = 1..(n + 1)
      /\ \A i \in 1..n : lines'[i] = lines[i]
      /\ lines'[n + 1] = finished
  <2>1. lines \in Seq(S \cup {finished})
    BY <1>5
  <2>2. QED
    BY <1>1, <2>1
<1>7. /\ Len(HeldLines) = n /\ Len(HeldLines') = n + 1
      /\ \A i \in 1..n : HeldLines[i] = lines[i].line /\ HeldLines'[i] = lines[i].line
      /\ HeldLines'[n + 1] = Held
  <2> DEFINE f == [i \in 1..n |-> lines[i].line]
             g == [i \in 1..(n + 1) |-> lines'[i].line]
             F == {f[i] : i \in 1..n}
             G == {g[i] : i \in 1..(n + 1)}
  <2>1. HeldLines = f /\ HeldLines' = g
    BY <1>6 DEF HeldLines
  <2>2. /\ f \in [1..n -> F] /\ g \in [1..(n + 1) -> G] /\ n + 1 \in Nat
        /\ \A i \in 1..n : f[i] = lines[i].line
        /\ \A i \in 1..(n + 1) : g[i] = lines'[i].line
    BY <1>6
  <2> HIDE DEF f, g, F, G, n
  <2>3. Len(f) = n
    BY <1>6, <2>2, ListOf
  <2>4. Len(g) = n + 1
    BY <2>2, ListOf
  <2>5. ASSUME NEW i \in 1..n PROVE g[i] = lines[i].line
    <3>1. i \in 1..(n + 1) /\ lines'[i] = lines[i]
      BY <1>6
    <3>2. QED
      BY <2>2, <3>1
  <2>6. g[n + 1] = Held
    <3>1. n + 1 \in 1..(n + 1)
      BY <1>6
    <3>2. QED
      BY <1>2, <1>6, <2>2, <3>1
  <2>7. QED
    BY <2>1, <2>2, <2>3, <2>4, <2>5, <2>6
<1>8. Terminated /\ LinesWrite(HeldLines)
  BY <1>1 DEF WriterInv, LinesHeld
<1> DEFINE more == HeldLines'
<1>9. LinesWrite(more)
  <2>1. Len(more) = n + 1 /\ Len(more) \in Nat
    BY <1>6, <1>7
  <2>2. ASSUME NEW i \in 1..(n + 1) PROVE WriteLine(more[i]) \in Seq(Kinds)
    <3>1. CASE i \in 1..n
      <4>1. more[i] = HeldLines[i]
        BY <1>7, <3>1
      <4>2. WriteLine(HeldLines[i]) \in Seq(Kinds)
        BY <1>7, <1>8, <3>1 DEF LinesWrite
      <4>3. QED
        BY <4>1, <4>2
    <3>2. CASE i = n + 1
      <4>1. more[i] = Held
        BY <1>7, <3>2
      <4>2. QED
        BY <1>3, <1>4, <4>1
    <3>3. QED
      BY <1>6, <3>1, <3>2
  <2>3. ASSUME NEW i \in 1..n PROVE more[i].ending # "none"
    <3>1. more[i] = lines[i].line /\ i \in DOMAIN lines
      BY <1>6, <1>7
    <3>2. QED
      BY <1>8, <3>1 DEF Terminated
  <2>4. (n + 1) - 1 = n
    BY <1>6
  <2> HIDE DEF more, n
  <2>5. QED
    BY <2>1, <2>2, <2>3, <2>4 DEF LinesWrite
<1>10. WriteLines(more) = WriteLines(HeldLines) \o WriteLine(Held)
  <2>1. /\ Len(more) = Len(HeldLines) + 1
        /\ \A i \in 1..Len(HeldLines) : more[i] = HeldLines[i]
        /\ more[Len(HeldLines) + 1] = Held
    BY <1>7
  <2> HIDE DEF more
  <2>2. QED
    BY <1>8, <1>9, <2>1, WriteLinesMore
<1>11. WriteLines(more) = SubSeq(input, 1, cursor)
  <2>1. Spells(WriteLines(HeldLines), Woven \o NewlineOctets(ending), input, cursor)
    BY <1>1 DEF WriterInv, Written
  <2>2. WriteLines(HeldLines) \o (Woven \o NewlineOctets(ending)) = SubSeq(input, 1, cursor)
    BY <2>1, Zenon DEF Spells
  <2>3. QED
    BY <1>3, <1>10, <2>2, Zenon
<1>12. Written'
  <2>1. WriteLines(HeldLines') = SubSeq(input', 1, cursor')
    BY <1>1, <1>11
  <2>2. QED
    BY <1>1, <2>1 DEF Written
<1>13. LinesHeld'
  <2>1. (\E any : lines \in Seq(any))'
    BY <1>6
  <2>2. LinesWrite(HeldLines)'
    BY <1>9 DEF LinesWrite
  <2>3. cursor < Len(input) => Terminated'
    <3>1. SUFFICES ASSUME cursor < Len(input) PROVE Terminated'
      OBVIOUS
    <3>2. ending # "none"
      <4>1. cursor \in Nat /\ ~(cursor = Len(input))
        BY <3>1 DEF ReaderInv, ReaderTypes
      <4>2. QED
        BY <1>1, <4>1 DEF WriterInv, LinesHeld
    <3>3. ASSUME NEW i \in 1..(n + 1) PROVE lines'[i].line.ending # "none"
      <4>1. CASE i \in 1..n
        <5>1. lines'[i] = lines[i] /\ i \in DOMAIN lines
          BY <1>6, <4>1
        <5>2. QED
          BY <1>8, <5>1 DEF Terminated
      <4>2. CASE i = n + 1
        <5>1. lines'[i].line = Held
          BY <1>2, <1>6, <4>2
        <5>2. QED
          BY <1>3, <3>2, <5>1
      <4>3. QED
        BY <1>6, <4>1, <4>2
    <3>4. QED
      BY <1>6, <3>3 DEF Terminated
  <2>4. QED
    BY <1>1, <2>1, <2>2, <2>3 DEF LinesHeld
<1>14. TextRead'
  <2>1. Text' = Text
    BY <1>1 DEF Text, headerVars
  <2>2. Len(Text)' = lineOffset'
    BY <1>1, <2>1 DEF WriterInv, TextRead
  <2>3. QED
    BY <1>1, <2>2 DEF WriterInv, TextRead
<1>15. SeparatorsKept'
  BY <1>1, SeparatorsStay DEF WriterInv
<1>16. input' \in Seq(Octets) /\ cursor' <= Len(input')
  BY <1>1 DEF WriterInv
<1>17. WritesItsInput'
  BY <1>1 DEF WritesItsInput, HasRead
<1>18. QED
  BY <1>12, <1>13, <1>14, <1>15, <1>16, <1>17 DEF WriterInv

(* Nothing is out of a line that begins.                                   *)
LEMMA StartLineWritten ==
  ASSUME ReaderInv, WriterInv, StartLine
  PROVE  WriterInv'
<1>1. /\ stage = "LineStart" /\ cursor < Len(input) /\ stage' = "Header"
      /\ scratch' = << >> /\ parameters' = << >> /\ pending' = << >> /\ folds' = << >>
      /\ nameEnd' = 0 /\ lineOffset' = 0 /\ hasSeparator' = FALSE /\ value' = << >>
      /\ UNCHANGED <<input, cursor, lines>>
  BY DEF StartLine, BlankLine
<1>2. << >> \in Seq(Kinds) /\ << >> \in Seq(Fold) /\ Len(<< >>) = 0 /\ << >> \o << >> = << >>
  OBVIOUS
<1>3. Text' = << >>
  BY <1>1, <1>2 DEF Text
<1>4. TextRead'
  <2>1. Len(Text)' = 0
    BY <1>2, <1>3
  <2>2. QED
    BY <1>1, <1>2, <2>1 DEF TextRead
<1>5. Woven' = << >>
  <2>1. Within(<< >>, Len(<< >>))
    BY DEF Within
  <2>2. WovenTo(<< >>, << >>, 0, 0) = << >>
    BY <1>2, <2>1, WovenNothing
  <2>3. WovenAll(<< >>, << >>) = << >>
    BY <1>2, <2>2 DEF WovenAll
  <2>4. Woven' = WovenAll(Text', folds')
    BY DEF Woven
  <2>5. QED
    BY <1>1, <1>3, <2>3, <2>4
<1>6. SeparatorsKept'
  BY <1>1 DEF SeparatorsKept, TiledTo
<1>7. LinesHeld' /\ HeldLines' = HeldLines
  <2>1. Terminated
    BY <1>1 DEF WriterInv, LinesHeld
  <2>2. QED
    BY <1>1, <2>1, LinesStay
<1>8. Written'
  <2>1. WriteLines(HeldLines) = SubSeq(input, 1, cursor) /\ WriteLines(HeldLines) \in Seq(Kinds)
    BY <1>1, HeldIsWritten DEF WriterInv, Written
  <2>2. WriteLines(HeldLines) \o << >> = WriteLines(HeldLines)
    BY <2>1, ConcatEmptySeq
  <2>3. Spells(WriteLines(HeldLines), << >>, input, cursor)
    BY <2>1, <2>2 DEF Spells
  <2>4. Spells(WriteLines(HeldLines'), Woven', input', cursor')
    BY <1>1, <1>5, <1>7, <2>3
  <2>5. QED
    BY <1>1, <2>4 DEF Written
<1>9. input' \in Seq(Octets) /\ cursor' <= Len(input')
  BY <1>1 DEF WriterInv
<1>10. WritesItsInput'
  BY <1>1 DEF WritesItsInput, HasRead
<1>11. QED
  BY <1>4, <1>6, <1>7, <1>8, <1>9, <1>10 DEF WriterInv

(* The reader is done, with its input or with a limit, or does nothing.    *)
LEMMA StopWritten ==
  ASSUME ReaderInv, WriterInv,
         UNCHANGED <<input, cursor, headerVars, lineOffset, folds, ending, hasSeparator, value, lines>>,
         \/ EndOfInput
         \/ stage' = "Done" /\ failed' # "no"
         \/ UNCHANGED vars
  PROVE  WriterInv'
<1>1. HeldLines' = HeldLines /\ Text' = Text /\ Woven' = Woven
  BY DEF HeldLines, Text, Woven, headerVars
<1>2. SeparatorsKept'
  BY SeparatorsStay DEF WriterInv
<1>3. stage' = "Done" \/ stage' = stage
  BY DEF EndOfInput, vars
<1>4. TextRead'
  <2>1. Len(Text)' = lineOffset'
    BY <1>1 DEF WriterInv, TextRead
  <2>2. QED
    BY <1>3, <2>1 DEF WriterInv, TextRead
<1>5. LinesHeld'
  <2>1. (\E S : lines \in Seq(S))'
    BY DEF WriterInv, LinesHeld
  <2>2. LinesWrite(HeldLines)'
    BY <1>1 DEF WriterInv, LinesHeld, LinesWrite
  <2>3. Terminated' <=> Terminated
    BY DEF Terminated
  <2>4. QED
    BY <1>3, <2>1, <2>2, <2>3 DEF WriterInv, LinesHeld
<1>6. WriteLines(HeldLines)' = WriteLines(HeldLines)
  BY <1>1
<1>7. Written'
  <2>1. CASE stage' = "Done"
    BY <2>1 DEF Written
  <2>2. CASE stage' = stage
    BY <1>1, <2>2 DEF WriterInv, Written
  <2>3. QED
    BY <1>3, <2>1, <2>2
<1>8. input' \in Seq(Octets) /\ cursor' <= Len(input')
  BY DEF WriterInv
<1>9. WritesItsInput'
  <2>1. CASE EndOfInput
    <3>1. stage = "LineStart" /\ cursor >= Len(input)
      BY <2>1 DEF EndOfInput
    <3>2. cursor \in Nat /\ cursor <= Len(input) /\ input \in Seq(Octets)
      BY DEF WriterInv, ReaderInv, ReaderTypes
    <3>3. cursor = Len(input)
      <4>1. Len(input) \in Nat
        BY <3>2
      <4>2. QED
        BY <3>1, <3>2, <4>1
    <3>4. SubSeq(input, 1, Len(input)) = input
      BY ONLY <3>2
    <3>5. WriteLines(HeldLines) = SubSeq(input, 1, cursor)
      BY <3>1 DEF WriterInv, Written
    <3>6. WriteLines(HeldLines') = input'
      BY <1>1, <3>3, <3>4, <3>5
    <3>7. QED
      BY <3>6 DEF WritesItsInput
  <2>2. CASE stage' = "Done" /\ failed' # "no"
    BY <2>2 DEF WritesItsInput, HasRead
  <2>3. CASE UNCHANGED vars
    <3>1. HasRead' => HasRead
      BY <2>3 DEF HasRead, vars
    <3>2. QED
      BY <1>1, <3>1 DEF WriterInv, WritesItsInput
  <2>4. QED
    BY <2>1, <2>2, <2>3
<1>10. QED
  BY <1>2, <1>4, <1>5, <1>7, <1>8, <1>9 DEF WriterInv

(* Before anything is read, nothing is written.                            *)
LEMMA InitWritten == Init => WriterInv
<1>1. SUFFICES ASSUME Init PROVE WriterInv
  OBVIOUS
<1>2. /\ input \in Texts /\ cursor = 0 /\ stage = "LineStart" /\ scratch = << >>
      /\ parameters = << >> /\ pending = << >> /\ nameEnd = 0 /\ lineOffset = 0
      /\ folds = << >> /\ hasSeparator = FALSE /\ value = << >> /\ lines = << >>
  BY <1>1 DEF Init
<1>3. input \in Seq(Octets)
  BY <1>2, TextsAssumption DEF TextsAssumption
<1>4. Len(input) \in Nat /\ cursor <= Len(input)
  <2>1. Len(input) \in Nat
    BY <1>3
  <2>2. QED
    BY <1>2, <2>1
<1>5. << >> \in Seq(Kinds) /\ Len(<< >>) = 0 /\ << >> \o << >> = << >>
  OBVIOUS
<1>6. TextRead
  <2>1. Len(Text) = lineOffset
    BY <1>2, <1>5 DEF Text
  <2>2. QED
    BY <1>2, <1>5, <2>1 DEF TextRead
<1>7. SeparatorsKept
  BY <1>2 DEF SeparatorsKept, TiledTo
<1>8. HeldLines = << >>
  BY <1>2 DEF HeldLines
<1>9. LinesWrite(HeldLines)
  BY <1>5, <1>8 DEF LinesWrite
<1>10. LinesHeld
  <2>1. lines \in Seq({})
    BY <1>2
  <2>2. \E S : lines \in Seq(S)
    BY <2>1
  <2>3. Terminated
    BY <1>2 DEF Terminated
  <2>4. QED
    BY <1>2, <1>9, <2>2, <2>3 DEF LinesHeld
<1>11. Written
  <2>1. PICK u : Running(HeldLines, u)
    BY <1>9, WriteLinesRuns
  <2>2. WriteLines(HeldLines) = << >>
    BY <1>5, <1>8, <2>1 DEF Running
  <2>3. SubSeq(input, 0 + 1, 0) = << >>
    BY <1>3, <1>4, EmptySlice
  <2>4. WriteLines(HeldLines) = SubSeq(input, 1, cursor)
    BY <1>2, <2>2, <2>3
  <2>5. QED
    BY <1>2, <2>4 DEF Written
<1>12. WritesItsInput
  BY <1>2 DEF WritesItsInput, HasRead
<1>13. QED
  BY <1>3, <1>4, <1>6, <1>7, <1>10, <1>11, <1>12 DEF WriterInv

(* Every step of the reader keeps what would be written the input.         *)
LEMMA StepWritten == ReaderInv /\ WriterInv /\ [Next]_vars => WriterInv'
<1>1. SUFFICES ASSUME ReaderInv, WriterInv, [Next]_vars PROVE WriterInv'
  OBVIOUS
<1>2. CASE StartLine
  BY <1>1, <1>2, StartLineWritten
<1>3. CASE TakeFold
  BY <1>1, <1>3, TakeFoldWritten
<1>4. CASE OpenParameter
  BY <1>1, <1>4, OpenParameterWritten
<1>5. CASE BeginParameterValue
  BY <1>1, <1>5, BeginParameterValueWritten
<1>6. CASE StepHeader
  BY <1>1, <1>6, StepHeaderWritten
<1>7. CASE Separator
  BY <1>1, <1>7, SeparatorWritten
<1>8. CASE LineEndsInHeader \/ LineEndsInValue
  BY <1>1, <1>8, LineEndsWritten
<1>9. CASE ValueOctet
  BY <1>1, <1>9, ValueOctetWritten
<1>10. CASE EndOfLine
  BY <1>1, <1>10, EndOfLineWritten
<1>11. CASE EndOfInput
  <2>1. UNCHANGED <<input, cursor, headerVars, lineOffset, folds, ending, hasSeparator, value, lines>>
    BY <1>11 DEF EndOfInput
  <2>2. QED
    BY <1>1, <1>11, <2>1, StopWritten
<1>12. CASE RefuseFold \/ RefuseHeader \/ RefuseParameter
  <2>1. /\ UNCHANGED <<input, cursor, headerVars, lineOffset, folds, ending, hasSeparator, value, lines>>
        /\ stage' = "Done" /\ failed' # "no"
    BY <1>12 DEF RefuseFold, RefuseHeader, RefuseParameter, Refuse
  <2>2. QED
    BY <1>1, <2>1, StopWritten
<1>13. CASE UNCHANGED vars
  <2>1. UNCHANGED <<input, cursor, headerVars, lineOffset, folds, ending, hasSeparator, value, lines>>
    BY <1>13 DEF vars
  <2>2. QED
    BY <1>1, <1>13, <2>1, StopWritten
<1>14. QED
  BY <1>1, <1>2, <1>3, <1>4, <1>5, <1>6, <1>7, <1>8, <1>9, <1>10, <1>11, <1>12, <1>13
  DEF Next, ScanHeader, ReadValue

(* Whatever the text, of any length, and however it is folded, quoted and  *)
(* terminated: what was read of it is written back octet for octet         *)
(* (LineWriter::push_recorded, write_items).                               *)
THEOREM WritesItsInputHolds == Spec => []WritesItsInput
<1>1. Init => ReaderInv /\ WriterInv
  BY InitHolds, InitWritten
<1>2. (ReaderInv /\ WriterInv) /\ [Next]_vars => (ReaderInv /\ WriterInv)'
  BY StepHolds, StepWritten
<1>3. ReaderInv /\ WriterInv => WritesItsInput
  BY DEF WriterInv
<1>4. QED
  BY <1>1, <1>2, <1>3, PTL DEF Spec

-----------------------------------------------------------------------------
(* Normalizing an import changes no line of it, leaves nothing to change,  *)
(* and names every terminator it replaced, for a text of any length        *)
(* (normalize_line_endings).                                               *)
THEOREM NormalizingKeepsLinesHolds == Spec => []NormalizingKeepsLines
<1>1. ASSUME ReaderInv PROVE NormalizingKeepsLines
  <2> DEFINE u == Normalize(input).text
             changes == Normalize(input).changes
  <2>0. input \in Seq(Kinds)
    BY <1>1 DEF ReaderInv, ReaderTypes
  <2>1. u \in Seq(Kinds) /\ \E place : Places(input, u, place)
    BY <2>0, NormalizedPlaces
  <2>2. PICK place : Places(input, u, place)
    BY <2>1
  <2>3. {changes[i] : i \in DOMAIN changes} = {p - 1 : p \in {q \in 1..Len(input) : Lone(input, q)}}
    BY <2>0, ChangesNameTerminators
  <2>4. {q \in Terminators(input) : After(input, q) = q + 1} = {q \in 1..Len(input) : Lone(input, q)}
    BY <2>0, LoneTerminators
  <2> HIDE DEF u
  <2>5. ReadLines(u) = ReadLines(input)
    BY <2>0, <2>1, <2>2, PlacesReadAlike
  <2>6. \A k \in 1..Len(u) : ~Lone(u, k)
    BY <2>0, <2>1, <2>2, PlacesAreNormal
  <2>7. Normalize(u) = [text |-> u, changes |-> << >>]
    BY <2>1, <2>6, NormalIsKept
  <2>8. QED
    BY <2>3, <2>4, <2>5, <2>7 DEF NormalizingKeepsLines, u
<1>2. QED
  BY <1>1, InitHolds, StepHolds, PTL DEF Spec
=============================================================================
