------------------------------- MODULE MCSession -------------------------------
(***************************************************************************)
(* Limits for model checking Session: every one of them is in reach.       *)
(***************************************************************************)
EXTENDS Session, CalendarTreeShape

MCTop == [d \in Dimension \cup {"spent"} |-> 100]

SessionLimits == [d \in Dimension |->
                    CASE d \in {"bindings", "elementDepth", "items", "rdates"} -> 2
                      [] d \in {"candidates", "depth"} -> 1
                      [] OTHER -> 3]
===============================================================================
