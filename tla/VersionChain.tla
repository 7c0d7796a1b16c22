----------------------------- MODULE VersionChain -----------------------------
(***************************************************************************)
(* What optimistic concurrency over one CalDAV resource promises, with no  *)
(* request, reply, server operation or network in sight.                   *)
(*                                                                         *)
(* A write is composed against one version of the resource and takes       *)
(* effect only while that version is still the newest.  So every version   *)
(* was written by somebody who had seen its predecessor, and a write that  *)
(* is delivered twice still takes effect at most once: committing it makes *)
(* its own basis obsolete.                                                 *)
(***************************************************************************)
EXTENDS Naturals, Sequences

CONSTANTS Write,    \* the identities of writes
          Unset     \* the basis of a write nobody has composed; no number

VARIABLES history,  \* the writes that took effect; version n is history[n]
          basis     \* the version each write was composed against

vars == <<history, basis>>

Init == /\ history = <<>>
        /\ basis = [w \in Write |-> Unset]

(* A writer decides what to store after seeing version v.  *)
Compose(w, v) == /\ basis[w] = Unset
                 /\ v \in 0..Len(history)
                 /\ basis' = [basis EXCEPT ![w] = v]
                 /\ UNCHANGED history

(* The write replaces the version it was composed against, and no other.  *)
Commit(w) == /\ basis[w] = Len(history)
             /\ history' = Append(history, w)
             /\ UNCHANGED basis

Next == \E w \in Write : Commit(w) \/ \E v \in 0..Len(history) : Compose(w, v)

Spec == Init /\ [][Next]_vars
===============================================================================
