---------------------------- MODULE WriteJournal ----------------------------
(***************************************************************************)
(* What the journal of src/malg/database/crm_writes.py promises to whoever *)
(* has to find out what a job has done to the CRM, with no worker, claim,  *)
(* retry or snapshot in sight:                                             *)
(*                                                                         *)
(*   - a request that may take effect, now or late, was counted in the     *)
(*     journal before it left, and its write is not cancelled since;       *)
(*   - only a write that is not resolved is issued or resolved, so that    *)
(*     an outcome stays what it is until the journal goes with its job.    *)
(*                                                                         *)
(* That a journal goes only when its outcomes are known is no promise: the *)
(* deletion of a job checks that and takes effect later.                   *)
(*                                                                         *)
(* CrmPublication, whose writes create records, and FieldEnrichment, whose *)
(* writes update a field of one, are shown to implement it.  The operators *)
(* model code only through those refinements.                              *)
(***************************************************************************)

CONSTANT Writes  \* the intended writes: a job and what it writes

VARIABLES
  status,  \* [Writes -> Statuses]: the outcome as far as the journal knows it
  issued,  \* writes of which a request was counted
  loose    \* writes of which a request may still take effect

vars == <<status, issued, loose>>

Unresolved == {"prepared", "failed"}
Resolved == {"confirmed", "conflict", "cancelled"}

\* "none" is a write nobody has prepared, "forgotten" one that went with its job.
Statuses == {"none", "forgotten"} \cup Unresolved \cup Resolved

Init ==
  /\ status = [i \in Writes |-> "none"]
  /\ issued = {} /\ loose = {}

Intend(i) ==
  /\ status[i] = "none"
  /\ status' = [status EXCEPT ![i] = "prepared"]
  /\ UNCHANGED <<issued, loose>>

\* The request is counted; from now on it may take effect.
Issue(i) ==
  /\ status[i] \in Unresolved
  /\ status' = [status EXCEPT ![i] = "prepared"]
  /\ issued' = issued \cup {i}
  /\ loose' = loose \cup {i}

\* The last request has taken effect or never will.
Land(i) ==
  /\ loose' = loose \ {i}
  /\ UNCHANGED <<status, issued>>

\* An outcome is recorded; nothing that was issued is cancelled.
Resolve(i, outcome) ==
  /\ status[i] \in Unresolved
  /\ outcome \in {"failed"} \cup Resolved
  /\ outcome = "cancelled" => i \notin issued
  /\ status' = [status EXCEPT ![i] = outcome]
  /\ UNCHANGED <<issued, loose>>

\* The journal of a job goes with the job, whatever it says.
Forget(gone) ==
  /\ status' = [i \in Writes |-> IF i \in gone THEN "forgotten" ELSE status[i]]
  /\ issued' = issued \ gone
  /\ UNCHANGED loose

Next ==
  \/ \E i \in Writes :
       Intend(i) \/ Issue(i) \/ Land(i) \/ \E outcome \in Statuses : Resolve(i, outcome)
  \/ \E gone \in SUBSET Writes : Forget(gone)

Spec == Init /\ [][Next]_vars

\* What may still take effect is accounted for while its job has a journal.
Accounted == \A i \in loose : status[i] = "forgotten" \/ (i \in issued /\ status[i] # "cancelled")

=============================================================================
