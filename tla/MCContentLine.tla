---------------------------- MODULE MCContentLine ----------------------------
(***************************************************************************)
(* The texts TLC reads.                                                    *)
(***************************************************************************)
EXTENDS ContentLineProperties

CONSTANTS HeaderLen, BreakLen

UpTo(n, S) == UNION {[1..k -> S] : k \in 0..n}
InsertAt(t, k, u) == SubSeq(t, 1, k) \o u \o SubSeq(t, k + 1, Len(t))

Whole ==
  {<<"x", ";", "x", "=", "quote", ":", "quote", ":", "x">>,
   <<"x", ";", "x", "=", "x", ",", "quote", ";", "x">>,
   <<"x", ";", "x", "=", "x", ",", "x", "x", "x", "x", ":">>,
   <<"x", ":", "cont", "cont", "x", "cont", "cont", "cont">>,
   <<"x", ":", "x", "cont", "cont", "cont", "cont", "cont", "x">>,
   <<"x", ":", "SP", "x", "CR", "LF", "SP", "x", "LF", "x", ":", "CR">>}
Broken ==
  {InsertAt(t, k, u) : t \in Whole, k \in 0..8,
     u \in {<<"CR", "LF", "SP">>, <<"LF", "TAB">>, <<"CR", "SP">>, <<"CR", "LF">>, <<"CR">>}}

MCTexts ==
  UpTo(HeaderLen, {"x", ":", ";", "=", "quote", ","})
    \cup UpTo(BreakLen, {"x", ":", "CR", "LF", "SP"})
    \cup Whole \cup Broken
=============================================================================
