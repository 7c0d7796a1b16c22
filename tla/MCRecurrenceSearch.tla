-------------------------- MODULE MCRecurrenceSearch ------------------------
(***************************************************************************)
(* Instances of the recurrence search for TLC, and what it must show.      *)
(***************************************************************************)
EXTENDS RecurrenceAnswer

CONSTANT Series

PeriodsOf(C) ==
  [i \in 0..LastIndex |-> {c \in C : c >= AnchorOf(i) /\ c < AnchorOf(i + 1)}]

Limits == {<<"none">>, <<"count", 2>>, <<"until", 5>>}

Rule(C, d, l) ==
  [dtstart |-> d, candidates |-> PeriodsOf(C), limit |-> l, rdates |-> {},
   exdates |-> {}, overrides |-> {}, admitted |-> Instants]

PlainRules == {Rule(C, d, l) : C \in SUBSET {1, 2, 4, 5, 6, 8}, d \in {1, 2}, l \in Limits}

Override(id, future, moved) == [id |-> id, future |-> future, moved |-> moved]
List(overs) ==
  {[id |-> overs[i].id, future |-> overs[i].future, moved |-> overs[i].moved, place |-> i] :
     i \in DOMAIN overs}

(* The last list names two keys twice, as the halves of a repeated hour do: *)
(* the second of each pair, which is shadowed, is no anchor.                *)
OverrideLists ==
  {List(<< >>), List(<<Override(3, TRUE, {4}), Override(6, FALSE, {2})>>),
   List(<<Override(2, TRUE, {}), Override(5, TRUE, {0})>>),
   List(<<Override(1, TRUE, {3}), Override(4, TRUE, {}), Override(7, FALSE, {8})>>),
   List(<<Override(3, TRUE, {5}), Override(3, FALSE, {8}), Override(6, FALSE, {9}), Override(6, FALSE, {4})>>)}

Sets ==
  {[Rule(C, 1, l) EXCEPT !.rdates = r, !.exdates = x, !.overrides = o, !.admitted = Instants \ a] :
     C \in {{1, 3, 4, 6, 7, 9}, {2, 3, 5, 8}}, l \in Limits, r \in {{}, {3, 5}, {0, 6, 10}},
     x \in {{}, {3, 4, 7}}, o \in OverrideLists, a \in {{}, {4}}}
  \cup {[s EXCEPT !.candidates = << >>] : s \in {[Rule({}, 1, <<"none">>) EXCEPT !.rdates = r] :
                                                 r \in {{}, {3, 5}}}}

(* Two overrides of one key, the second of which is an anchor.             *)
Collisions ==
  {[Rule({1, 3, 4, 6, 7, 9}, 1, <<"none">>) EXCEPT !.overrides = List(<<first, Override(3, TRUE, {5})>>)] :
     first \in {Override(3, TRUE, {}), Override(3, TRUE, {4}), Override(3, FALSE, {4})}}

MCInputs ==
  CASE Series = "rules" -> PlainRules
    [] Series = "all" -> PlainRules \cup Sets
    [] Series = "collisions" -> Collisions
MCWindows == {[start |-> 1, end |-> 13], [start |-> 3, end |-> 7]}
MCMeters == {[period |-> 5, ledger |-> 12, occurrences |-> 9], [period |-> 5, ledger |-> 5, occurrences |-> 1]}
=============================================================================
