----------------------------- MODULE LineWriter ------------------------------
(***************************************************************************)
(* A line as the tree keeps it: how it is written (core/emit.rs), with the *)
(* folds it was read with or, once its text has changed, folded anew at    *)
(* RefoldWidth octets; and how the octets of the input that a part of it   *)
(* came from are found again (core/parse.rs).                              *)
(***************************************************************************)
EXTENDS Integers, Sequences

CONSTANTS
  RefoldWidth,             \* REFOLD_WIDTH: 74 of 75, the space takes one
  MaxContinuation          \* MAX_CONTINUATION_OCTETS: 3

ASSUME WidthAssumption ==
  RefoldWidth \in Nat \ {0} /\ MaxContinuation \in Nat /\ MaxContinuation < RefoldWidth

Octets == {"x", ":", ";", "=", "quote", ",", "CR", "LF", "SP", "TAB", "cont"}

IsFoldWhitespace(octet) == octet \in {"SP", "TAB"}
WrittenLen(newline) == IF newline = "CRLF" THEN 2 ELSE 1

Smaller(a, b) == IF a < b THEN a ELSE b
Larger(a, b)  == IF a > b THEN a ELSE b

NewlineOctets(newline) ==
  CASE newline = "CRLF" -> <<"CR", "LF">>
    [] newline \in {"CR", "LF"} -> <<newline>>
    [] newline = "none" -> << >>

(* The pieces of a line in the order write_property pushes them.           *)
PiecesOf(line) ==
  LET ofParameter(p) ==
        <<<<";">>, p.name>> \o (IF p.hasValue THEN <<<<"=">>, p.value>> ELSE << >>)
      upTo[i \in 0..Len(line.parameters)] ==
        IF i = 0 THEN <<line.name>> ELSE upTo[i - 1] \o ofParameter(line.parameters[i])
  IN  upTo[Len(line.parameters)]
        \o (IF line.hasSeparator THEN <<<<":">>>> ELSE << >>) \o <<line.value>>

(* LineWriter: the octets written, the folds not yet written, how much of  *)
(* the line is out, and how much of the physical line.                     *)
Opened(line) == [out |-> << >>, pending |-> line.folds, position |-> 0, column |-> 0]
Put(w, bytes) ==
  [w EXCEPT !.out = @ \o bytes, !.position = @ + Len(bytes), !.column = @ + Len(bytes)]
BreakLine(w, newline, whitespace) ==
  [w EXCEPT !.out = @ \o NewlineOctets(newline) \o <<whitespace>>, !.column = 0]

Taken(bytes, n)  == SubSeq(bytes, 1, n)
Dropped(bytes, n) == SubSeq(bytes, n + 1, Len(bytes))

(* Mutant: a fold right behind a piece is left for the next one.           *)
PushRecordedShort(w, bytes) ==
  LET step[k \in 0..Len(w.pending)] ==
        IF k = 0 THEN [w |-> w, rest |-> bytes, stuck |-> FALSE]
        ELSE LET s     == step[k - 1]
                 fold  == w.pending[k]
                 taken == Larger(fold.offset - s.w.position, 0)
             IN  IF s.stuck \/ taken >= Len(s.rest) THEN [s EXCEPT !.stuck = TRUE]
                 ELSE [w |-> [BreakLine(Put(s.w, Taken(s.rest, taken)), fold.newline,
                                        IF fold.tab THEN "TAB" ELSE "SP")
                                EXCEPT !.pending = Tail(@)],
                       rest |-> Dropped(s.rest, taken), stuck |-> FALSE]
      all == step[Len(w.pending)]
  IN  Put(all.w, all.rest)

(* Every fold that falls into this piece, or right behind it.              *)
PushRecorded(w, bytes) ==
  LET step[k \in 0..Len(w.pending)] ==
        IF k = 0 THEN [w |-> w, rest |-> bytes, stuck |-> FALSE]
        ELSE LET s     == step[k - 1]
                 fold  == w.pending[k]
                 taken == Larger(fold.offset - s.w.position, 0)
             IN  IF s.stuck \/ taken > Len(s.rest) THEN [s EXCEPT !.stuck = TRUE]
                 ELSE [w |-> [BreakLine(Put(s.w, Taken(s.rest, taken)), fold.newline,
                                        IF fold.tab THEN "TAB" ELSE "SP")
                                EXCEPT !.pending = Tail(@)],
                       rest |-> Dropped(s.rest, taken), stuck |-> FALSE]
      all == step[Len(w.pending)]
  IN  Put(all.w, all.rest)

(* Mutant: IsBoundaryAnywhere cuts inside a character.                     *)
(* fold_at: the last character boundary that still fits; -1 for none.      *)
IsBoundaryAnywhere(bytes, cut) == cut >= 0
IsBoundary(bytes, cut) == cut >= Len(bytes) \/ bytes[cut + 1] # "cont"
FoldAt(bytes, room) ==
  LET cuts == {c \in Larger(room - MaxContinuation, 0)..room : c > 0 /\ IsBoundary(bytes, c)}
  IN  IF cuts = {} THEN -1 ELSE CHOOSE c \in cuts : \A d \in cuts : d <= c

(* A line may not begin with whitespace, and no more goes on a physical    *)
(* line than there is room for.                                            *)
PushRefolded(w, bytes) ==
  LET first ==
        IF w.position = 0 /\ bytes # << >> /\ IsFoldWhitespace(bytes[1])
        THEN BreakLine(w, "CRLF", "SP") ELSE w
      cut(s) ==
        LET room == Larger(RefoldWidth - s.w.column, 0)
            boundary == FoldAt(s.rest, room)
        IN  IF boundary >= 0 THEN boundary ELSE IF s.w.column > 0 THEN 0 ELSE room
      fits(s) == Len(s.rest) <= Larger(RefoldWidth - s.w.column, 0)
      step[k \in 0..(2 * Len(bytes) + 1)] ==
        IF k = 0 THEN [w |-> first, rest |-> bytes]
        ELSE LET s == step[k - 1]
             IN  IF fits(s) THEN [w |-> Put(s.w, s.rest), rest |-> << >>]
                 ELSE [w |-> BreakLine(Put(s.w, Taken(s.rest, cut(s))), "CRLF", "SP"),
                       rest |-> Dropped(s.rest, cut(s))]
  IN  step[2 * Len(bytes) + 1].w

WriteLine(line) ==
  LET pieces == PiecesOf(line)
      pushed[i \in 0..Len(pieces)] ==
        IF i = 0 THEN Opened(line)
        ELSE IF line.refolded THEN PushRefolded(pushed[i - 1], pieces[i])
        ELSE PushRecorded(pushed[i - 1], pieces[i])
  IN  pushed[Len(pieces)].out \o NewlineOctets(line.ending)

(* A line read without a terminator is owed one as soon as another follows.*)
WriteLines(ls) ==
  LET owed(i) == i > 1 /\ ls[i - 1].ending = "none"
      upTo[i \in 0..Len(ls)] ==
        IF i = 0 THEN << >>
        ELSE upTo[i - 1] \o (IF owed(i) THEN <<"CR", "LF">> ELSE << >>) \o WriteLine(ls[i])
  IN  upTo[Len(ls)]

-----------------------------------------------------------------------------
Total[s \in Seq(Int)] == IF s = << >> THEN 0 ELSE Head(s) + Total[Tail(s)]

UnfoldedLen(line) ==
  LET cost(p) == 1 + Len(p.name) + (IF p.hasValue THEN 1 + Len(p.value) ELSE 0)
  IN  Len(line.name) + Len(line.value) + (IF line.hasSeparator THEN 1 ELSE 0)
        + Total[[i \in DOMAIN line.parameters |-> cost(line.parameters[i])]]

(* TreeBuilder::measure: where the line ends, from its parts.              *)
MeasuredEnd(line, start) ==
  start + UnfoldedLen(line)
    + Total[[i \in DOMAIN line.folds |-> WrittenLen(line.folds[i].newline) + 1]]
    + (IF line.ending = "none" THEN 0 ELSE WrittenLen(line.ending))

(* FoldWalk: the offset in the input of an offset in the unfolded line.    *)
Carried(line, passes(_)) ==
  Total[[i \in DOMAIN line.folds |->
           IF passes(line.folds[i].offset) THEN WrittenLen(line.folds[i].newline) + 1 ELSE 0]]
Opens(line, start, offset) ==
  LET before(at) == at <= offset IN start + offset + Carried(line, before)
(* Mutant: a part that ends where a fold stands ends behind it.            *)
ClosesBehindFold(line, start, from, offset) ==
  LET before(at) == at <= offset \/ at <= from IN start + offset + Carried(line, before)
(* A part that ends where a fold stands ends before it; but folds passed   *)
(* on the way to where the part began stay passed.                         *)
Closes(line, start, from, offset) ==
  LET before(at) == at < offset \/ at <= from IN start + offset + Carried(line, before)
ExtentOf(line, start, from, len) ==
  [start |-> Opens(line, start, from), end |-> Closes(line, start, from, from + len)]

(* Where report_text looks for each piece, as offset and length.           *)
PieceSpans(line) ==
  LET pieces == PiecesOf(line)
      offset[i \in 1..Len(pieces)] == IF i = 1 THEN 0 ELSE offset[i - 1] + Len(pieces[i - 1])
  IN  {<<offset[i], Len(pieces[i])>> : i \in DOMAIN pieces}

(* Where report_terminators marks the terminators that are not CRLF.       *)
TerminatorMarks(line, start, end) ==
  LET mark(i) == start + line.folds[i].offset
                   + Total[[j \in 1..(i - 1) |-> WrittenLen(line.folds[j].newline) + 1]]
  IN  {mark(i) : i \in {j \in DOMAIN line.folds : line.folds[j].newline # "CRLF"}}
        \cup (IF line.ending \in {"CR", "LF"} THEN {end - 1} ELSE {})

(* report_widths: where each physical line begins, and how wide it is.     *)
PhysicalLines(line, start) ==
  LET n == Len(line.folds)
      clamp(at, from) == Smaller(Larger(at, from), UnfoldedLen(line))
      walk[i \in 0..n] ==
        IF i = 0 THEN [at |-> start, from |-> 0, indent |-> 0, seen |-> {}]
        ELSE LET s == walk[i - 1]
                 fold == line.folds[i]
                 to == clamp(fold.offset, s.from)
                 width == s.indent + to - s.from
             IN  [at |-> s.at + width + WrittenLen(fold.newline), from |-> to, indent |-> 1,
                  seen |-> s.seen \cup {<<s.at, width>>}]
      last == walk[n]
  IN  last.seen \cup {<<last.at, last.indent + UnfoldedLen(line) - last.from>>}
-----------------------------------------------------------------------------
(* Mutant: the CR of a CRLF is taken for a lone one.                       *)
NormalizeEachOctet(t) ==
  LET paired(p) == p > 1 /\ t[p - 1] = "CR" /\ t[p] = "LF"
      lone(p)   == t[p] \in {"CR", "LF"} /\ ~paired(p)
      upTo[p \in 0..Len(t)] ==
        IF p = 0 THEN [text |-> << >>, changes |-> << >>]
        ELSE LET before == upTo[p - 1]
             IN  IF lone(p)
                 THEN [text |-> before.text \o <<"CR", "LF">>,
                       changes |-> Append(before.changes, p - 1)]
                 ELSE [before EXCEPT !.text = Append(@, t[p])]
  IN  upTo[Len(t)]
(* normalize_line_endings: every terminator becomes a CRLF, and each one   *)
(* that was not is on record at its offset.                                *)
Normalize(t) ==
  LET paired(p) == p > 1 /\ t[p - 1] = "CR" /\ t[p] = "LF"
      lone(p)   == t[p] \in {"CR", "LF"} /\ ~paired(p) /\ ~(p < Len(t) /\ paired(p + 1))
      upTo[p \in 0..Len(t)] ==
        IF p = 0 THEN [text |-> << >>, changes |-> << >>]
        ELSE LET before == upTo[p - 1]
             IN  IF lone(p)
                 THEN [text |-> before.text \o <<"CR", "LF">>,
                       changes |-> Append(before.changes, p - 1)]
                 ELSE [before EXCEPT !.text = Append(@, t[p])]
  IN  upTo[Len(t)]
=============================================================================
