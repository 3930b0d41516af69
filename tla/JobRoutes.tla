----------------------------- MODULE JobRoutes -----------------------------
(***************************************************************************)
(* The job queue under the API's own interleavings                         *)
(* (src/malg/api/routers/jobs.py over src/malg/database/jobs.py).          *)
(*                                                                         *)
(* JobQueue has what one locked transaction decides.  Two routes, the only *)
(* callers of retry_failed_job and delete_job, are longer:                 *)
(*   retry_research_job loads the job, awaits the CRM (admit_job), and     *)
(*     only then calls retry_failed_job.  Its SELECT ... FOR UPDATE locks  *)
(*     the row but returns the object the session already holds, with the  *)
(*     attributes of the first load, and the flush writes those that       *)
(*     differ from them.                                                   *)
(*   delete_research_job reads the row without a lock, then the write log, *)
(*     then deletes by primary key.                                        *)
(* cancel_research_job keeps no reference to its first load, so cancel_job *)
(* reads the locked row afresh and stays one step.                         *)
(***************************************************************************)
EXTENDS JobQueue

CONSTANT Requests  \* API requests that may be in flight together

VARIABLES
  request,  \* [Requests -> RequestState]: a route between its load and its commit
  ended     \* history: [Jobs -> SUBSET Terminal], the final states a job has been in

routesVars == <<vars, request, ended>>

\* opened: the loaded row has a workflow_id.
RequestState == [pc : {"none", "retry", "delete"}, job : Jobs \cup {None}, opened : BOOLEAN]

NoRequest == [pc |-> "none", job |-> None, opened |-> FALSE]

RoutesInit ==
  /\ Init
  /\ request = [q \in Requests |-> NoRequest]
  /\ ended = [j \in Jobs |-> {}]

-----------------------------------------------------------------------------

Starts(q, pc, j) ==
  /\ request[q] = NoRequest
  /\ request' = [request EXCEPT
       ![q] = [pc |-> pc, job |-> j, opened |-> workflow[j].status # "absent"]]
  /\ UNCHANGED vars

Ends(q) == request' = [request EXCEPT ![q] = NoRequest]

\* The guard of retry_failed_job, on the row as it was loaded.
Retryable(row) == row.status = "failed"

\* retry_research_job up to its await.
RetryLoad(q, j) == Retryable(job[j]) /\ Starts(q, "retry", j)

\* The row after the stale flush: every failed row has no claim and a window of
\* attempts, so status and attempt_window_count differ from the loaded values
\* and are written, the claim columns do not and are left as they are now.
Requeued(row) == [row EXCEPT !.status = "queued", !.window = 0]

\* retry_failed_job and the commit, when the CRM has admitted the request.
RetryCommit(q) ==
  LET j == request[q].job
  IN
  /\ request[q].pc = "retry"
  /\ job[j].status # "deleted"
  /\ retries[j] < MaxRetries
  /\ job' = [job EXCEPT ![j] = Requeued(@)]
  /\ workflow' = IF request[q].opened
                 THEN [workflow EXCEPT ![j] = [status |-> "queued", deadline |-> None]]
                 ELSE workflow
  /\ retries' = [retries EXCEPT ![j] = @ + 1]
  /\ Ends(q)
  /\ UNCHANGED <<revisions, cooldown, worker, orphans>>

\* The first read of delete_research_job.
DeleteLoad(q, j) == job[j].status \in Terminal /\ Starts(q, "delete", j)

\* Its DELETE and commit, for a job whose CRM writes are resolved.
DeleteCommit(q) ==
  LET j == request[q].job
  IN
  /\ request[q].pc = "delete"
  /\ job[j].status # "deleted"
  /\ job' = [job EXCEPT ![j].status = "deleted"]
  /\ Ends(q)
  /\ UNCHANGED <<workflow, revisions, cooldown, worker, orphans, retries>>

\* The route answers with an error, or its row is gone: nothing is committed.
Refused(q) ==
  /\ request[q] # NoRequest
  /\ Ends(q)
  /\ UNCHANGED vars

-----------------------------------------------------------------------------

Route(q) ==
  \/ \E j \in Jobs : RetryLoad(q, j) \/ DeleteLoad(q, j)
  \/ RetryCommit(q) \/ DeleteCommit(q) \/ Refused(q)

RoutesNext ==
  /\ (\E q \in Requests : Route(q)) \/ (Next /\ UNCHANGED request)
  /\ ended' = [j \in Jobs |-> ended[j] \cup ({job'[j].status} \cap Terminal)]

RoutesSpec == RoutesInit /\ [][RoutesNext]_routesVars

-----------------------------------------------------------------------------
(* Properties.  JobQueue's AttemptBudget, RevisionsInClaimOrder and        *)
(* LostForGood are checked here again: the retry windows, the fence and    *)
(* the loss of a claim have to withstand rows that the routes requeue or   *)
(* delete under a running worker, with their claim columns still set.      *)

\* A workflow's deadline moves only towards its end: whoever dispatches the job
\* again, after a crash, an expired claim or a stale retry, reuses it.  Only an
\* operator retry of this job clears it, for the next dispatch to set anew.
DeadlineFixed ==
  [][\A j \in Jobs :
       workflow[j].deadline # None =>
         \/ workflow'[j].deadline # None /\ workflow'[j].deadline <= workflow[j].deadline
         \/ workflow'[j].deadline = None /\ retries'[j] = retries[j] + 1]_routesVars

\* The queue implements the life cycle of JobLifecycle: exclusive grants,
\* results only from the latest grant, bounded attempts, and no requeueing or
\* deletion of a job that had not failed, or ended, at some time before.
Bys(log) == [k \in 1..Len(log) |-> log[k].by]

Phase  == [j \in Jobs |-> job[j].status]
Grants == [j \in Jobs |-> job[j].attempts]
Tries  == [j \in Jobs |-> job[j].window]
Log    == [j \in Jobs |-> [s \in Stages |-> Bys(revisions[j][s])]]

Lifecycle ==
  INSTANCE JobLifecycle
    WITH phase <- Phase, grants <- Grants, tries <- Tries, log <- Log, ends <- ended

LifecycleSpec == Lifecycle!Spec

=============================================================================
