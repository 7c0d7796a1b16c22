--------------------------- MODULE OccurrenceFeed ---------------------------
(***************************************************************************)
(* What a recurrence search promises its caller.  There is one answer: the *)
(* occurrences of the series that belong to the window, in key order.  The *)
(* search hands them over one by one, ends as "complete" only when it has  *)
(* handed over all of them, may give up instead, and a search resumed from *)
(* its cursor goes on with the very next one.                              *)
(***************************************************************************)
EXTENDS Naturals, Sequences

VARIABLES answer, given, ended

feedVars == <<answer, given, ended>>

Emit ==
  /\ ended = "no"
  /\ Len(given) < Len(answer)
  /\ given' = Append(given, answer[Len(given) + 1])
  /\ UNCHANGED <<answer, ended>>

Finish ==
  /\ ended = "no"
  /\ given = answer
  /\ ended' = "complete"
  /\ UNCHANGED <<answer, given>>

GiveUp ==
  /\ ended = "no"
  /\ ended' = "exhausted"
  /\ UNCHANGED <<answer, given>>

(* A complete search may be resumed too: it then has nothing left to say.  *)
Resume ==
  /\ ended' = "no"
  /\ UNCHANGED <<answer, given>>

FeedInit == given = << >> /\ ended = "no"

FeedNext == Emit \/ Finish \/ GiveUp \/ Resume

FeedSpec == FeedInit /\ [][FeedNext]_feedVars
=============================================================================
