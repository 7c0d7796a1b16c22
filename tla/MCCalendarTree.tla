---------------------------- MODULE MCCalendarTree ----------------------------
(***************************************************************************)
(* Ledgers and alphabets for model checking CalendarTree.                  *)
(***************************************************************************)
EXTENDS CalendarTreeShape

(* 8-, 16- and 32-bit counters, scaled down with the limits below them.     *)
MCTop == [d \in Dimension \cup {"spent"} |-> 100]

AmpleLimits == [d \in Dimension |-> 50]
TightLimits == [AmpleLimits EXCEPT !["depth"] = 2, !["items"] = 3]
===============================================================================
