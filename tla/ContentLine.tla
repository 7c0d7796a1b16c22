----------------------------- MODULE ContentLine -----------------------------
(***************************************************************************)
(* The content line reader of grammar/lexer.rs, octet by octet, with what  *)
(* the tree builder keeps of each line (parse.rs): its name, parameters    *)
(* and value without folds, the folds and the terminator beside them, and  *)
(* the extent it measures from them.                                       *)
(*                                                                         *)
(* An octet is one of the few kinds the reader tells apart.  `cursor` is   *)
(* an offset, from 0, as in the code.                                      *)
(***************************************************************************)
EXTENDS LineWriter

CONSTANTS
  Texts,            \* the inputs: sequences of octets
  MaxHeader, MaxParameters, MaxFolds

ASSUME LineLimitsAssumption ==
  MaxHeader \in Nat /\ MaxParameters \in Nat /\ MaxFolds \in Nat

ASSUME TextsAssumption == Texts \subseteq Seq(Octets)

VARIABLES
  input, cursor, stage,
  scratch,          \* the header without its folds
  parameters,       \* ParameterSpan of every closed parameter
  pending,          \* the span being read: << >> or one
  header,           \* HeaderState
  nameEnd, lineOffset, folds, ending, hasSeparator,
  value,            \* PendingLine.value: the chunks appended
  lineStart,        \* TreeBuilder.line_start
  lines,            \* every line finished
  failed            \* "no" or the limit that was hit

headerVars == <<scratch, parameters, pending, header, nameEnd>>
vars == <<input, cursor, stage, headerVars, lineOffset, folds, ending, hasSeparator,
          value, lineStart, lines, failed>>

(* The octet at an offset; "none" past the end.                            *)
At(offset) == IF offset < Len(input) THEN input[offset + 1] ELSE "none"

(* terminator_at: CRLF is one terminator; a lone CR or LF is one too.      *)
IsBreak(at) == At(at) \in {"CR", "LF"}
TerminatorAt(at) ==
  IF At(at) = "CR" /\ At(at + 1) = "LF" THEN "CRLF" ELSE At(at)

(* A fold is a terminator with whitespace after it.                        *)
FoldsAt(at) == IsFoldWhitespace(At(at + WrittenLen(TerminatorAt(at))))

LineEndsHere == At(cursor) = "none" \/ (IsBreak(cursor) /\ ~FoldsAt(cursor))

BlankLine ==
  /\ scratch' = << >> /\ parameters' = << >> /\ pending' = << >>
  /\ header' = "Name" /\ nameEnd' = 0 /\ lineOffset' = 0 /\ folds' = << >>
  /\ ending' = "none" /\ hasSeparator' = FALSE /\ value' = << >>

Init ==
  /\ input \in Texts /\ cursor = 0 /\ stage = "LineStart"
  /\ scratch = << >> /\ parameters = << >> /\ pending = << >> /\ header = "Name"
  /\ nameEnd = 0 /\ lineOffset = 0 /\ folds = << >> /\ ending = "none"
  /\ hasSeparator = FALSE /\ value = << >>
  /\ lineStart = 0 /\ lines = << >> /\ failed = "no"

StartLine ==
  /\ stage = "LineStart" /\ cursor < Len(input)
  /\ stage' = "Header"
  /\ BlankLine
  /\ UNCHANGED <<input, cursor, lineStart, lines, failed>>

EndOfInput ==
  /\ stage = "LineStart" /\ cursor >= Len(input)
  /\ stage' = "Done"
  /\ UNCHANGED <<input, cursor, headerVars, lineOffset, folds, ending,
                 hasSeparator, value, lineStart, lines, failed>>

-----------------------------------------------------------------------------

(* take_fold: a terminator followed by whitespace is a fold, kept as the   *)
(* place in the unfolded line it stood at.                                 *)
TakeFold ==
  /\ stage \in {"Header", "Value"} /\ IsBreak(cursor) /\ FoldsAt(cursor)
  /\ Len(folds) < MaxFolds
  /\ LET newline == TerminatorAt(cursor)
         after   == cursor + WrittenLen(newline)
     IN  /\ folds' = Append(folds, [offset |-> lineOffset, tab |-> At(after) = "TAB",
                                    newline |-> newline])
         /\ cursor' = after + 1
  /\ UNCHANGED <<input, stage, headerVars, lineOffset, ending, hasSeparator,
                 value, lineStart, lines, failed>>

Refuse(limit) ==
  /\ failed' = limit /\ stage' = "Done"
  /\ UNCHANGED <<input, cursor, headerVars, lineOffset, folds, ending,
                 hasSeparator, value, lineStart, lines>>

RefuseFold ==
  /\ stage \in {"Header", "Value"} /\ IsBreak(cursor) /\ FoldsAt(cursor)
  /\ Len(folds) >= MaxFolds
  /\ Refuse("TooManyFolds")

-----------------------------------------------------------------------------
(* scan_header.  A span is closed where its value, or else its name, ends. *)
Closed(span, end) ==
  IF span.hasValue THEN [span EXCEPT !.valueEnd = end] ELSE [span EXCEPT !.nameEnd = end]

ClosePending(end) ==
  IF pending = << >>
  THEN nameEnd' = end /\ UNCHANGED parameters
  ELSE parameters' = Append(parameters, Closed(pending[1], end)) /\ UNCHANGED nameEnd

CloseHeader(separator) ==
  /\ ClosePending(Len(scratch)) /\ pending' = << >>
  /\ hasSeparator' = separator
  /\ UNCHANGED <<scratch, header, folds, value, input, lineStart, lines, failed>>

(* The header, with its line, ends at a terminator or with the input.      *)
LineEndsInHeader ==
  /\ stage = "Header" /\ LineEndsHere
  /\ CloseHeader(FALSE)
  /\ LET newline == TerminatorAt(cursor)
     IN  /\ ending' = newline
         /\ cursor' = IF newline = "none" THEN cursor ELSE cursor + WrittenLen(newline)
  /\ stage' = "Ending"
  /\ UNCHANGED lineOffset

Separator ==
  /\ stage = "Header" /\ At(cursor) = ":" /\ header # "Quoted"
  /\ CloseHeader(TRUE)
  /\ cursor' = cursor + 1 /\ lineOffset' = lineOffset + 1
  /\ stage' = "Value"
  /\ UNCHANGED ending

IsHeaderOctet ==
  /\ stage = "Header" /\ At(cursor) # "none" /\ ~IsBreak(cursor)
  /\ ~(At(cursor) = ":" /\ header # "Quoted")

Keeps ==
  /\ IsHeaderOctet /\ Len(scratch) < MaxHeader
  /\ scratch' = Append(scratch, At(cursor))
  /\ lineOffset' = lineOffset + 1 /\ cursor' = cursor + 1
  /\ UNCHANGED <<input, stage, folds, ending, hasSeparator, value, lineStart, lines, failed>>

RefuseHeader ==
  /\ IsHeaderOctet /\ Len(scratch) >= MaxHeader
  /\ Refuse("HeaderTooLarge")

OpensParameter == At(cursor) = ";" /\ header # "Quoted"

(* Mutant: the span not yet closed is not counted.                         *)
HeldParametersClosed == Len(parameters)
(* The span before it counts against the limit.                            *)
HeldParameters == Len(parameters) + Len(pending)

OpenParameter ==
  /\ Keeps /\ OpensParameter /\ HeldParameters < MaxParameters
  /\ LET from == Len(scratch) + 1
     IN  pending' = <<[nameStart |-> from, nameEnd |-> from, valueStart |-> from,
                       valueEnd |-> from, hasValue |-> FALSE]>>
  /\ ClosePending(Len(scratch)) /\ header' = "ParameterName"

RefuseParameter ==
  /\ IsHeaderOctet /\ Len(scratch) < MaxHeader
  /\ OpensParameter /\ HeldParameters >= MaxParameters
  /\ Refuse("TooManyParameters")

(* Mutant: the "=" stays with the name.                                    *)
BeginParameterValueBehind ==
  /\ Keeps /\ header = "ParameterName" /\ At(cursor) = "="
  /\ pending' = <<[pending[1] EXCEPT !.nameEnd = Len(scratch) + 1, !.hasValue = TRUE,
                     !.valueStart = Len(scratch) + 1, !.valueEnd = Len(scratch) + 1]>>
  /\ header' = "ValueStart"
  /\ UNCHANGED <<parameters, nameEnd>>

(* The first "=" of a parameter divides its name from its value.           *)
BeginParameterValue ==
  /\ Keeps /\ header = "ParameterName" /\ At(cursor) = "="
  /\ pending' = <<[pending[1] EXCEPT !.nameEnd = Len(scratch), !.hasValue = TRUE,
                     !.valueStart = Len(scratch) + 1, !.valueEnd = Len(scratch) + 1]>>
  /\ header' = "ValueStart"
  /\ UNCHANGED <<parameters, nameEnd>>

(* Mutant: a quote in the middle of a value opens a quoted one.            *)
StepHeaderQuotingAnywhere ==
  /\ Keeps /\ ~OpensParameter /\ ~(header = "ParameterName" /\ At(cursor) = "=")
  /\ header' =
       CASE header = "Quoted" /\ At(cursor) = "quote" -> "ValueText"
         [] header \in {"ValueStart", "ValueText"} /\ At(cursor) = "quote" -> "Quoted"
         [] header \in {"ValueStart", "ValueText"} /\ At(cursor) = "," -> "ValueStart"
         [] header = "ValueStart" /\ At(cursor) \notin {"quote", ","} -> "ValueText"
         [] OTHER -> header
  /\ UNCHANGED <<parameters, pending, nameEnd>>

(* step_header_state, for every octet that leaves the spans alone.  Only a *)
(* quote that begins a value opens a quoted one.                           *)
StepHeader ==
  /\ Keeps /\ ~OpensParameter /\ ~(header = "ParameterName" /\ At(cursor) = "=")
  /\ header' =
       CASE header = "Quoted" /\ At(cursor) = "quote" -> "ValueText"
         [] header = "ValueStart" /\ At(cursor) = "quote" -> "Quoted"
         [] header \in {"ValueStart", "ValueText"} /\ At(cursor) = "," -> "ValueStart"
         [] header = "ValueStart" /\ At(cursor) \notin {"quote", ","} -> "ValueText"
         [] OTHER -> header
  /\ UNCHANGED <<parameters, pending, nameEnd>>

-----------------------------------------------------------------------------
(* next_value_chunk: up to the next terminator, which folds or ends.       *)
ValueOctet ==
  /\ stage = "Value" /\ At(cursor) # "none" /\ ~IsBreak(cursor)
  /\ value' = Append(value, At(cursor))
  /\ cursor' = cursor + 1 /\ lineOffset' = lineOffset + 1
  /\ UNCHANGED <<input, stage, headerVars, folds, ending, hasSeparator, lineStart,
                 lines, failed>>

LineEndsInValue ==
  /\ stage = "Value" /\ LineEndsHere
  /\ LET newline == TerminatorAt(cursor)
     IN  /\ ending' = newline
         /\ cursor' = IF newline = "none" THEN cursor ELSE cursor + WrittenLen(newline)
  /\ stage' = "Ending"
  /\ UNCHANGED <<input, headerVars, lineOffset, folds, hasSeparator, value,
                 lineStart, lines, failed>>

-----------------------------------------------------------------------------
(* The tokens of the line, as the builder has put them together.           *)
Slice(from, to) == SubSeq(scratch, from + 1, to)
Held ==
  [name |-> Slice(0, nameEnd),
   parameters |-> [i \in DOMAIN parameters |->
                     LET span == parameters[i]
                     IN  [name |-> Slice(span.nameStart, span.nameEnd),
                          value |-> Slice(span.valueStart, span.valueEnd),
                          hasValue |-> span.hasValue]],
   value |-> value, hasSeparator |-> hasSeparator, folds |-> folds,
   ending |-> ending, refolded |-> FALSE]

EndOfLine ==
  /\ stage = "Ending"
  /\ stage' = "LineStart"
  /\ lines' = Append(lines, [line |-> Held, start |-> lineStart, end |-> MeasuredEnd(Held, lineStart)])
  /\ lineStart' = MeasuredEnd(Held, lineStart)
  /\ UNCHANGED <<input, cursor, headerVars, lineOffset, folds, ending, hasSeparator,
                 value, failed>>

ScanHeader == LineEndsInHeader \/ Separator \/ OpenParameter \/ BeginParameterValue
                \/ StepHeader \/ RefuseHeader \/ RefuseParameter
ReadValue == ValueOctet \/ LineEndsInValue

Next == StartLine \/ EndOfInput \/ TakeFold \/ RefuseFold \/ ScanHeader \/ ReadValue
          \/ EndOfLine

Spec == Init /\ [][Next]_vars
=============================================================================
