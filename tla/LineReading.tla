----------------------------- MODULE LineReading -----------------------------
(***************************************************************************)
(* What the octets of a text mean as content lines, defined by positions   *)
(* and without a scanner: which terminators end a line, which octets are   *)
(* left of it, where its quoted values are, and where its header ends.     *)
(***************************************************************************)
EXTENDS LineWriter, FiniteSets

Least(S) == CHOOSE x \in S : \A y \in S : x <= y

(* Positions count from 1.  A terminator is named by where it begins.      *)
Terminators(t) ==
  {p \in DOMAIN t : t[p] = "CR" \/ (t[p] = "LF" /\ (p = 1 \/ t[p - 1] # "CR"))}
After(t, p) == IF t[p] = "CR" /\ p < Len(t) /\ t[p + 1] = "LF" THEN p + 2 ELSE p + 1
Folds(t) == {p \in Terminators(t) : After(t, p) \in DOMAIN t /\ IsFoldWhitespace(t[After(t, p)])}
Ends(t)  == Terminators(t) \ Folds(t)

(* What unfolding keeps.                                                   *)
Kept(t) ==
  LET spaces == {After(t, f) : f \in Folds(t)}
  IN  {p \in DOMAIN t : t[p] \notin {"CR", "LF"}} \ spaces

LineCount(t) ==
  LET ended == Ends(t)
      open  == t # << >> /\ \A p \in ended : After(t, p) <= Len(t)
  IN  Cardinality(ended) + (IF open THEN 1 ELSE 0)
LineNumber(t, p) == 1 + Cardinality({e \in Ends(t) : e < p})

(* The positions of the kept octets of line i, in order.                   *)
PositionsOf(t, i) ==
  LET ended == Ends(t)
      mine  == {p \in Kept(t) : 1 + Cardinality({e \in ended : e < p}) = i}
      upTo[p \in 0..Len(t)] ==
        IF p = 0 THEN << >>
        ELSE IF p \in mine THEN Append(upTo[p - 1], p) ELSE upTo[p - 1]
  IN  upTo[Len(t)]
TextOf(t, i) == LET K == PositionsOf(t, i) IN [k \in DOMAIN K |-> t[K[k]]]
EndingOf(t, i) ==
  LET E == {p \in Ends(t) : LineNumber(t, p) = i}
  IN  IF E = {} THEN "none"
      ELSE LET e == Least(E) IN IF After(t, e) = e + 2 THEN "CRLF" ELSE t[e]

(* The quotes that open a quoted value: right after the "=" of a parameter *)
(* or after a comma of its value.                                          *)
Inside(s, opening, p) == \E o \in opening : o < p /\ \A r \in (o + 1)..(p - 1) : s[r] # "quote"
OpensAfter(s, n, starts) ==
  LET last   == CHOOSE p \in starts : \A r \in starts : r <= p
      equals == {p \in last..(n - 1) : s[p] = "="}
  IN  starts # {} /\ equals # {}
      /\ \/ n - 1 = Least(equals)
         \/ s[n - 1] = "," /\ n - 1 > Least(equals)
WithQuoteAt(s, n, found) ==
  LET starts == {p \in 1..(n - 1) : s[p] = ";" /\ ~Inside(s, found, p)}
  IN  found \cup (IF s[n] = "quote" /\ ~Inside(s, found, n) /\ OpensAfter(s, n, starts)
                  THEN {n} ELSE {})
OpeningQuotes(s) ==
  LET upTo[n \in 0..Len(s)] ==      \* those among the first n octets
        IF n = 0 THEN {} ELSE WithQuoteAt(s, n, upTo[n - 1])
  IN  upTo[Len(s)]
Quoted(s) == LET opening == OpeningQuotes(s) IN {p \in DOMAIN s : Inside(s, opening, p)}

(* The name, the parameters and the value of an unfolded line, from where  *)
(* its header ends and where each parameter begins.                        *)
NextMark(marks, end, p) == Least({end} \cup {q \in marks : q > p})
NthMark(marks, i) == CHOOSE p \in marks : Cardinality({q \in marks : q < p}) = i - 1
ParameterWithin(s, p, equals, end) ==
  [name |-> SubSeq(s, p + 1, equals - 1),
   value |-> SubSeq(s, equals + 1, end - 1), hasValue |-> equals < end]
ParameterAt(s, p, end) ==
  ParameterWithin(s, p, Least({end} \cup {q \in (p + 1)..(end - 1) : s[q] = "="}), end)
MeaningWithin(s, marks, end) ==
  [name |-> SubSeq(s, 1, NextMark(marks, end, 0) - 1),
   parameters |-> [i \in 1..Cardinality(marks) |->
                     ParameterAt(s, NthMark(marks, i), NextMark(marks, end, NthMark(marks, i)))],
   value |-> SubSeq(s, end + 1, Len(s)), hasSeparator |-> end <= Len(s)]
MeaningOutside(s, open) ==
  LET end == Least({p \in open : s[p] = ":"} \cup {Len(s) + 1})
  IN  MeaningWithin(s, {p \in open : p < end /\ s[p] = ";"}, end)
Meaning(s) == MeaningOutside(s, DOMAIN s \ Quoted(s))

ReadLines(t) == [i \in 1..LineCount(t) |-> Meaning(TextOf(t, i))]

(* The folds of line i: how much of the line stands before each.           *)
FoldsOf(t, i) ==
  LET K     == PositionsOf(t, i)
      mine  == {p \in Folds(t) : LineNumber(t, p) = i}
      upTo[p \in 0..Len(t)] ==
        IF p = 0 THEN << >>
        ELSE IF p \notin mine THEN upTo[p - 1]
        ELSE Append(upTo[p - 1],
               [offset |-> Cardinality({k \in DOMAIN K : K[k] < p}),
                tab |-> t[After(t, p)] = "TAB",
                newline |-> IF After(t, p) = p + 2 THEN "CRLF" ELSE t[p]])
  IN  upTo[Len(t)]

(* The lines of a text as the tree keeps them.                             *)
LineMeaning(t, i, m) ==
  [name |-> m.name, parameters |-> m.parameters, value |-> m.value,
   hasSeparator |-> m.hasSeparator, folds |-> FoldsOf(t, i),
   ending |-> EndingOf(t, i), refolded |-> FALSE]
LinesOf(t) == [i \in 1..LineCount(t) |-> LineMeaning(t, i, Meaning(TextOf(t, i)))]
=============================================================================
