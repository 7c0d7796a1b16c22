------------------------------ MODULE RuleText ------------------------------
(***************************************************************************)
(* The two readers of a RECUR value (internal/recur/grammar): the strict   *)
(* one, which refuses at the first thing it does not like, and the lenient *)
(* one, which keeps what it can and reports the rest.  A value is its      *)
(* sequence of parts, <<name, value>>; Bad stands for a value that does    *)
(* not decode.  A list a part decodes to is the set of its members.        *)
(***************************************************************************)
EXTENDS Integers, Sequences, FiniteSets

CONSTANT Bad

ByParts == {"BYMONTH", "BYWEEKNO", "BYYEARDAY", "BYMONTHDAY", "BYDAY",
            "BYHOUR", "BYMINUTE", "BYSECOND", "BYSETPOS"}
Scalars == {"UNTIL", "COUNT", "INTERVAL", "WKST"}
Freqs   == {"SECONDLY", "MINUTELY", "HOURLY", "DAILY", "WEEKLY", "MONTHLY", "YEARLY"}
Monday  == 0

Refused == [freq |-> "refused"]

(* RecurrenceRuleBuilder::new.                                             *)
NewRule(freq) ==
  [freq |-> freq, interval |-> 1, limit |-> <<"none">>, wkst |-> Monday,
   by |-> [part \in ByParts |-> {}]]

HasPart(rule, part) == rule.by[part] # {}

HasSelectablePart(rule) == \E part \in ByParts \ {"BYSETPOS"} : HasPart(rule, part)

(* RecurrenceRuleBuilder::build.                                           *)
Builds(rule) == HasPart(rule, "BYSETPOS") => HasSelectablePart(rule)

(* The value a part decodes to, kept; zero is no count and no interval.    *)
Decodes(name, value) ==
  /\ value # Bad
  /\ name \in {"COUNT", "INTERVAL"} => value # 0

Apply(rule, name, value) ==
  CASE name \in ByParts  -> [rule EXCEPT !.by[name] = value]
    [] name = "INTERVAL" -> [rule EXCEPT !.interval = value]
    [] name = "WKST"     -> [rule EXCEPT !.wkst = value]
    [] name = "COUNT"    -> [rule EXCEPT !.limit = <<"count", value>>]
    [] name = "UNTIL"    -> [rule EXCEPT !.limit = <<"until", value>>]

-----------------------------------------------------------------------------
(* StrictDecode: FREQ comes first, no part twice, none unknown, all valid. *)
RECURSIVE StrictFrom(_, _, _, _)
StrictFrom(text, i, rule, seen) ==
  IF i > Len(text) THEN rule
  ELSE LET name == text[i][1]
           value == text[i][2]
       IN  IF name \in seen THEN Refused
           ELSE IF name = "FREQ"
             THEN IF value \in Freqs
                  THEN StrictFrom(text, i + 1, NewRule(value), seen \cup {name}) ELSE Refused
           ELSE IF rule # Refused /\ name \in ByParts \cup Scalars /\ Decodes(name, value)
             THEN StrictFrom(text, i + 1, Apply(rule, name, value), seen \cup {name})
           ELSE Refused

StrictRead(text) ==
  LET rule == StrictFrom(text, 1, Refused, {})
  IN  IF rule # Refused /\ Builds(rule) THEN rule ELSE Refused

-----------------------------------------------------------------------------
(* LenientParts: the last writing of a part is the one that is kept.       *)
Written(text, name) == {i \in DOMAIN text : text[i][1] = name}
LastWritten(text, name) ==
  CHOOSE i \in Written(text, name) : \A j \in Written(text, name) : j <= i

Kept(text, name) ==
  /\ Written(text, name) # {}
  /\ Decodes(name, text[LastWritten(text, name)][2])
ValueOf(text, name) == text[LastWritten(text, name)][2]

(* Mutant: COUNT always has the field the two fight over.                  *)
LimitOfCount(text) ==
  IF Kept(text, "COUNT") THEN <<"count", ValueOf(text, "COUNT")>>
  ELSE IF Kept(text, "UNTIL") THEN <<"until", ValueOf(text, "UNTIL")>> ELSE <<"none">>

(* COUNT and UNTIL fight over one field: the later in the text has it.     *)
LimitOf(text) ==
  LET limits == {name \in {"COUNT", "UNTIL"} : Kept(text, name)}
      last == CHOOSE name \in limits :
                \A other \in limits : LastWritten(text, other) <= LastWritten(text, name)
  IN  IF limits = {} THEN <<"none">>
      ELSE <<IF last = "COUNT" THEN "count" ELSE "until", ValueOf(text, last)>>

(* apply_collected over the parts that were kept.                          *)
Collected(text) ==
  [freq     |-> ValueOf(text, "FREQ"),
   interval |-> IF Kept(text, "INTERVAL") THEN ValueOf(text, "INTERVAL") ELSE 1,
   limit    |-> LimitOf(text),
   wkst     |-> IF Kept(text, "WKST") THEN ValueOf(text, "WKST") ELSE Monday,
   by       |-> [part \in ByParts |-> IF Kept(text, part) THEN ValueOf(text, part) ELSE {}]]

(* finish: BYSETPOS with nothing to select from is dropped.                *)
LenientRead(text) ==
  IF Written(text, "FREQ") = {} \/ ValueOf(text, "FREQ") \notin Freqs THEN Refused
  ELSE LET rule == Collected(text)
       IN  IF Builds(rule) THEN rule ELSE [rule EXCEPT !.by["BYSETPOS"] = {}]

Ordinals(rule) == {day[1] : day \in rule.by["BYDAY"]} \ {0}

(* What the lenient reader reports as a violation of the grammar.          *)
Violates(text) ==
  \/ LenientRead(text) = Refused
  \/ \E i, j \in DOMAIN text : i # j /\ text[i][1] = text[j][1]
                                 /\ text[i][1] \in ByParts \cup Scalars \cup {"FREQ"}
  \/ Written(text, "COUNT") # {} /\ Written(text, "UNTIL") # {}
  \/ \E name \in ByParts \cup Scalars : Written(text, name) # {} /\ ~Kept(text, name)
  \/ ~Builds(Collected(text))
  \/ LenientRead(text).freq \notin {"MONTHLY", "YEARLY"} /\ Ordinals(LenientRead(text)) # {}

(* Rule::parse: a rule the lenient reader had nothing against.             *)
RuleParse(text) == IF Violates(text) THEN Refused ELSE LenientRead(text)
=============================================================================
