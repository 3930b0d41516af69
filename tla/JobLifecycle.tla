---------------------------- MODULE JobLifecycle ----------------------------
(***************************************************************************)
(* What the durable queue of src/malg/database/jobs.py promises to the     *)
(* people who submit jobs and to the code that executes them, with no      *)
(* clock, no lease, no worker and no claim token in sight:                 *)
(*                                                                         *)
(*   - a job is held by at most one grant at a time, and grants of a job   *)
(*     are numbered in the order they are given;                           *)
(*   - stage results are only ever appended on behalf of the latest grant; *)
(*   - a job is granted at most MaxAttempts times between two operator     *)
(*     retries, and a grant that is lost after the last one fails the job; *)
(*   - an ended job is requeued only if it once failed and removed only    *)
(*     if it once ended.  Once, not now: a request to retry or to remove a *)
(*     job is admitted in one of those states and may take effect after    *)
(*     the job has moved on, whatever it is doing then.                    *)
(*                                                                         *)
(* JobRoutes (JobQueue with the routes of the API) is the detailed         *)
(* specification and is shown to implement this one.  The operators model  *)
(* code only through that refinement.                                      *)
(***************************************************************************)
EXTENDS Integers, Sequences

CONSTANTS
  Jobs,              \* job identities
  Stages,            \* stage keys of a job's workflow
  PublicationStage,  \* the stage a successful completion appends to
  MaxAttempts        \* grants allowed in one retry window

VARIABLES
  phase,             \* where each job is in its life
  grants,            \* how many times the job was handed to an executor
  tries,             \* grants since submission or since the last retry
  log,               \* per stage, the grants whose results were committed
  ends               \* history: the final states each job has been in

vars == <<phase, grants, tries, log, ends>>

Phases == {"absent", "queued", "running", "succeeded", "failed", "cancelled", "deleted"}
Terminal == {"succeeded", "failed", "cancelled"}

Init ==
  /\ phase = [j \in Jobs |-> "absent"]
  /\ grants = [j \in Jobs |-> 0]
  /\ tries = [j \in Jobs |-> 0]
  /\ log = [j \in Jobs |-> [s \in Stages |-> <<>>]]
  /\ ends = [j \in Jobs |-> {}]

\* Every job enters the phase that new gives it, and a final one is recorded.
Enters(new) ==
  /\ phase' = new
  /\ ends' = [j \in Jobs |-> ends[j] \cup ({new[j]} \cap Terminal)]

Submit(j) ==
  /\ phase[j] = "absent"
  /\ Enters([phase EXCEPT ![j] = "queued"])
  /\ UNCHANGED <<grants, tries, log>>

\* The grants of the jobs in lost end without a result: the job goes back to
\* the queue while it has attempts left and fails otherwise.
AfterRevoking(lost) ==
  [j \in Jobs |-> IF j \notin lost THEN phase[j]
                  ELSE IF tries[j] >= MaxAttempts THEN "failed" ELSE "queued"]

Revoke(lost) ==
  /\ \A j \in lost : phase[j] = "running"
  /\ Enters(AfterRevoking(lost))
  /\ UNCHANGED <<grants, tries, log>>

\* Revocations and one new grant may be a single step: the claim transaction
\* first reconciles what expired and then takes a job.
Grant(lost, j) ==
  /\ \A k \in lost : phase[k] = "running"
  /\ AfterRevoking(lost)[j] = "queued"
  /\ Enters([AfterRevoking(lost) EXCEPT ![j] = "running"])
  /\ grants' = [grants EXCEPT ![j] = @ + 1]
  /\ tries' = [tries EXCEPT ![j] = @ + 1]
  /\ UNCHANGED log

Commit(j, s) ==
  /\ phase[j] = "running"
  /\ log' = [log EXCEPT ![j][s] = Append(@, grants[j])]
  /\ UNCHANGED <<phase, grants, tries, ends>>

Succeed(j) ==
  /\ phase[j] = "running"
  /\ Enters([phase EXCEPT ![j] = "succeeded"])
  /\ \/ log' = [log EXCEPT ![j][PublicationStage] = Append(@, grants[j])]
     \/ UNCHANGED log
  /\ UNCHANGED <<grants, tries>>

Fail(j) ==
  /\ phase[j] = "running"
  /\ Enters([phase EXCEPT ![j] = "failed"])
  /\ UNCHANGED <<grants, tries, log>>

Cancel(j) ==
  /\ phase[j] \in {"queued", "running"}
  /\ Enters([phase EXCEPT ![j] = "cancelled"])
  /\ UNCHANGED <<grants, tries, log>>

Retry(j) ==
  /\ "failed" \in ends[j] /\ phase[j] # "deleted"
  /\ Enters([phase EXCEPT ![j] = "queued"])
  /\ tries' = [tries EXCEPT ![j] = 0]
  /\ UNCHANGED <<grants, log>>

Remove(j) ==
  /\ ends[j] # {} /\ phase[j] # "deleted"
  /\ Enters([phase EXCEPT ![j] = "deleted"])
  /\ UNCHANGED <<grants, tries, log>>

Next ==
  \/ \E lost \in SUBSET Jobs : Revoke(lost) \/ \E j \in Jobs : Grant(lost, j)
  \/ \E j \in Jobs :
       \/ Submit(j) \/ Succeed(j) \/ Fail(j) \/ Cancel(j) \/ Retry(j) \/ Remove(j)
       \/ \E s \in Stages : Commit(j, s)

Spec == Init /\ [][Next]_vars

=============================================================================
