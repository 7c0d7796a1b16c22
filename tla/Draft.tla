-------------------------------- MODULE Draft --------------------------------
(***************************************************************************)
(* What a transactional editor promises: values change in a draft, one at a*)
(* time, and a commit puts all of them in place, or none and says so.      *)
(***************************************************************************)
VARIABLES
  committed, draft, editing,
  accepted          \* whether the last commit was

draftVars == <<committed, draft, editing, accepted>>

Begin ==
  /\ ~editing /\ editing' = TRUE /\ draft' = committed
  /\ accepted' = FALSE /\ UNCHANGED committed

DiffersInOne(old, new) == \E key \in DOMAIN old : new = [old EXCEPT ![key] = new[key]]

Change ==
  /\ editing
  /\ DiffersInOne(draft, draft')
  /\ UNCHANGED <<committed, editing, accepted>>

Commit ==
  /\ editing /\ editing' = FALSE
  /\ committed' = draft /\ draft' = draft /\ accepted' = TRUE

Abandon ==
  /\ editing /\ editing' = FALSE
  /\ accepted' = FALSE /\ UNCHANGED <<committed, draft>>

DraftInit == editing = FALSE /\ draft = committed /\ accepted = FALSE
DraftNext == Begin \/ Change \/ Commit \/ Abandon
DraftSpec == DraftInit /\ [][DraftNext]_draftVars
=============================================================================
