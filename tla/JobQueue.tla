------------------------------ MODULE JobQueue ------------------------------
(***************************************************************************)
(* The durable research-job queue: src/malg/database/jobs.py, the stage    *)
(* checkpoints of src/malg/database/research.py and the claim, renewal and *)
(* completion protocol of ResearchWorker.run_once in                       *)
(* src/malg/worker/service.py.                                             *)
(*                                                                         *)
(* A function of jobs.py that locks the job row and decides on what it     *)
(* then reads is one action here; what a worker does between transactions  *)
(* (model calls, HTTP) is the interleaving between actions.  Retry and     *)
(* deletion decide on what they read before: they are actions of           *)
(* JobRoutes, which extends this module.                                   *)
(*                                                                         *)
(* Time.  A timestamp column is kept as the time left until it is reached  *)
(* (lease = claim_expires_at - now), which Tick counts down.  Each host    *)
(* samples its own clock before it waits for the row lock, so a            *)
(* transaction compares columns with a reading that may be off by          *)
(* d \in -Skew..Skew: "expires_at <= reading" is "lease <= d".             *)
(*                                                                         *)
(* Claim tokens.  claim_next_job issues a fresh uuid4 and increments       *)
(* attempt_count in the same statement; the token is represented by that   *)
(* attempt number, which identifies it among the tokens of its job.        *)
(***************************************************************************)
EXTENDS Integers, Sequences, FiniteSets

CONSTANTS
  Jobs,              \* research_jobs rows that may be created
  Workers,           \* worker processes
  Stages,            \* stage keys of a workflow
  PublicationStage,  \* "<kind>.publication", appended by _complete
  Inputs,            \* values of input_hash
  None,              \* SQL NULL / no job
  MaxAttempts,       \* worker.max_attempts
  LeaseTime,         \* worker.lease_seconds
  WorkflowTime,      \* research.workflow_timeout_seconds
  CooldownTime,      \* research.search_unavailable_retry_seconds
  Skew,              \* largest error of a transaction's clock reading
  MaxRetries,        \* bound: operator retries of one job
  MaxRevisions       \* bound: revisions of one stage

ASSUME JobsAssumption == IsFiniteSet(Jobs) /\ None \notin Jobs
ASSUME StagesAssumption == PublicationStage \in Stages
ASSUME NoneAssumption == None \notin Int
ASSUME TimeAssumption ==
  /\ Skew \in Nat /\ LeaseTime \in Nat /\ LeaseTime > Skew
  /\ WorkflowTime \in Nat /\ CooldownTime \in Nat
ASSUME BoundsAssumption ==
  /\ MaxAttempts \in Nat /\ MaxAttempts >= 1
  /\ MaxRetries \in Nat /\ MaxRevisions \in Nat

VARIABLES
  job,        \* [Jobs -> JobRow]: the research_jobs table
  workflow,   \* [Jobs -> WorkflowRow]: research_workflows, one per job
  revisions,  \* [Jobs -> [Stages -> Seq(Revision)]]: research_stage_results
  cooldown,   \* time left until claiming resumes after a search outage
  worker,     \* [Workers -> WorkerState]: memory of each worker process
  orphans,    \* stage children that outlived a crashed worker: {<<job, claim>>}
  retries     \* operator retries of each job so far, made in JobRoutes

vars == <<job, workflow, revisions, cooldown, worker, orphans, retries>>

-----------------------------------------------------------------------------
(* Types *)

Readings == (-Skew)..Skew
Statuses == {"queued", "running", "succeeded", "failed", "cancelled"}
Terminal == {"succeeded", "failed", "cancelled"}

\* claim is claim_token (with claimed_at and owner_worker_token), 0 for NULL;
\* window is attempt_window_count; born is the position in created_at order.
JobRow == [status : Statuses \cup {"absent", "deleted"}, claim : Nat, lease : Int,
           attempts : Nat, window : Nat, born : Nat]

WorkflowRow == [status : {"absent", "queued", "running", "succeeded", "failed", "cancelled"},
                deadline : Nat \cup {None}]

\* by is history: the claim under which the revision was committed.
Revision == [input : Inputs, by : Nat]

\* claimed: run_once holds a claim and _dispatch has not opened the workflow;
\* working: it has; down: the process is gone.
WorkerState == [pc : {"idle", "claimed", "working", "down"},
                job : Jobs \cup {None}, claim : Nat]

Free == [pc |-> "idle", job |-> None, claim |-> 0]
Down == [pc |-> "down", job |-> None, claim |-> 0]

Init ==
  /\ job = [j \in Jobs |-> [status |-> "absent", claim |-> 0, lease |-> 0,
                            attempts |-> 0, window |-> 0, born |-> 0]]
  /\ workflow = [j \in Jobs |-> [status |-> "absent", deadline |-> None]]
  /\ revisions = [j \in Jobs |-> [s \in Stages |-> <<>>]]
  /\ cooldown = 0
  /\ worker = [w \in Workers |-> Free]
  /\ orphans = {}
  /\ retries = [j \in Jobs |-> 0]

-----------------------------------------------------------------------------
(* Row helpers *)

\* Leaving "running" clears claim_token, owner_worker_token, claim_expires_at
\* and claimed_at.
Released(row, st) ==
  [status |-> st, claim |-> 0, lease |-> 0,
   attempts |-> row.attempts, window |-> row.window, born |-> row.born]

\* Plausible bug: the row of the last attempt is left for its lost worker.
ExpiredLastAttemptStuck(row) ==
  IF row.window >= MaxAttempts THEN row ELSE Released(row, "queued")

\* claim_next_job's treatment of a running row whose claim expired.
Expired(row) ==
  Released(row, IF row.window >= MaxAttempts THEN "failed" ELSE "queued")

\* Plausible bug: attempt_window_count is not advanced with attempt_count.
ClaimedOutsideWindow(row, d) ==
  [row EXCEPT !.status = "running", !.claim = row.attempts + 1,
              !.lease = LeaseTime + d, !.attempts = row.attempts + 1]

\* Plausible bug: a token that is still on the row is kept.
ClaimedReusing(row, d) ==
  [status |-> "running", claim |-> IF row.claim # 0 THEN row.claim ELSE row.attempts + 1,
   lease |-> LeaseTime + d, attempts |-> row.attempts + 1, window |-> row.window + 1,
   born |-> row.born]

\* A new claim: a fresh token, a full lease from the claimer's reading.
Claimed(row, d) ==
  [status |-> "running", claim |-> row.attempts + 1, lease |-> LeaseTime + d,
   attempts |-> row.attempts + 1, window |-> row.window + 1, born |-> row.born]

\* Plausible bug: the fence looks at the status and the lease only.
FenceWithoutToken(j, c, d) ==
  /\ job[j].status = "running"
  /\ job[j].lease > d

\* require_claim: the row is running under this very token and the lease has
\* not passed at the caller's reading.
Fence(j, c, d) ==
  /\ job[j].status = "running"
  /\ job[j].claim = c
  /\ job[j].lease > d

-----------------------------------------------------------------------------
(* API and controller: transactions of jobs.py on a fresh session *)

\* enqueue_job
Enqueue(j) ==
  /\ job[j].status = "absent"
  /\ job' = [job EXCEPT ![j] =
       [status |-> "queued", claim |-> 0, lease |-> 0, attempts |-> 0, window |-> 0,
        born |-> Cardinality({k \in Jobs : job[k].status # "absent"}) + 1]]
  /\ UNCHANGED <<workflow, revisions, cooldown, worker, orphans, retries>>

\* cancel_job: queued or running work stops being anybody's.
CancelJob(j) ==
  /\ job[j].status \in {"queued", "running"}
  /\ job' = [job EXCEPT ![j] = Released(@, "cancelled")]
  /\ workflow' = IF workflow[j].status = "absent" THEN workflow
                 ELSE [workflow EXCEPT ![j].status = "cancelled"]
  /\ UNCHANGED <<revisions, cooldown, worker, orphans, retries>>

-----------------------------------------------------------------------------
(* Workers *)

\* claim_next_job, first statement: reconcile every expired claim that no
\* other transaction has locked (skip_locked).
Sweep(d, locked) ==
  [j \in Jobs |-> IF job[j].status = "running" /\ job[j].lease <= d /\ j \notin locked
                  THEN Expired(job[j]) ELSE job[j]]

\* ResearchWorker.run_once up to the claim: nothing is claimed or reconciled
\* while a search outage is recent; otherwise reconcile, then take the oldest
\* queued row that is not locked.
ClaimNext(w, d, locked) ==
  /\ worker[w].pc = "idle"
  /\ cooldown = 0
  /\ LET swept == Sweep(d, locked)
         eligible == {j \in Jobs \ locked : swept[j].status = "queued"}
     IN \/ /\ eligible = {}
           /\ job' = swept
           /\ UNCHANGED worker
        \/ \E j \in eligible :
             LET row == Claimed(swept[j], d) IN
             /\ \A k \in eligible : swept[j].born <= swept[k].born
             /\ job' = [swept EXCEPT ![j] = row]
             /\ worker' = [worker EXCEPT
                  ![w] = [pc |-> "claimed", job |-> j, claim |-> row.claim]]
  /\ UNCHANGED <<workflow, revisions, cooldown, orphans, retries>>

Busy(w) == worker[w].pc \in {"claimed", "working"}

\* Plausible bug: every dispatch gives the workflow a new deadline.
OpenedAfresh(row) == [status |-> "running", deadline |-> WorkflowTime]

\* create_workflow_for_job: a workflow that does not exist yet, or whose
\* deadline a retry has cleared, starts now; any other is reused as it is.
Opened(row) ==
  IF row.deadline = None
  THEN [status |-> "running", deadline |-> WorkflowTime]
  ELSE row

\* _dispatch: the fenced transaction that creates or reuses the workflow.
OpenWorkflow(w, d) ==
  LET j == worker[w].job IN
  /\ worker[w].pc = "claimed"
  /\ Fence(j, worker[w].claim, d)
  /\ workflow' = [workflow EXCEPT ![j] = Opened(@)]
  /\ worker' = [worker EXCEPT ![w].pc = "working"]
  /\ UNCHANGED <<job, revisions, cooldown, orphans, retries>>

\* Plausible bug: an expired claim is renewed while its token is on the row.
RenewableLate(j, c, d) == job[j].status = "running" /\ job[j].claim = c

\* The WHERE clause of renew_claim.
Renewable(j, c, d) == Fence(j, c, d)

\* A worker that stops before it has reaped its stage child leaves it behind,
\* for a moment (run_supervised terminates it) or for good (a crash).
WithChildOf(w) ==
  IF worker[w].pc = "working"
  THEN orphans \cup {<<worker[w].job, worker[w].claim>>} ELSE orphans

\* One round of _renew_loop that finds the claim current extends the lease.
Renew(w, d) ==
  LET j == worker[w].job IN
  /\ Busy(w)
  /\ Renewable(j, worker[w].claim, d)
  /\ job' = [job EXCEPT ![j].lease = LeaseTime + d]
  /\ UNCHANGED <<workflow, revisions, cooldown, worker, orphans, retries>>

\* One that does not cancels the execution, and run_once returns.
ClaimLost(w, d) ==
  /\ Busy(w)
  /\ ~ Renewable(worker[w].job, worker[w].claim, d)
  /\ worker' = [worker EXCEPT ![w] = Free]
  /\ orphans' = WithChildOf(w)
  /\ UNCHANGED <<job, workflow, revisions, cooldown, retries>>

\* A stage child (or the parent) that runs under claim c of job j.
Executing(j, c) ==
  \/ \E w \in Workers : worker[w] = [pc |-> "working", job |-> j, claim |-> c]
  \/ <<j, c>> \in orphans

\* Plausible bug: the new revision replaces the log instead of extending it.
PersistOverwriting(log, i, c) == <<[input |-> i, by |-> c]>>

\* persist_stage_result below the fence: a revision with the latest input is
\* reused, any other input appends a revision.
Persist(log, i, c) ==
  IF log # <<>> /\ log[Len(log)].input = i THEN log
  ELSE Append(log, [input |-> i, by |-> c])

\* persist_stage_result for a research, validation, discovery or progress
\* stage, called by a stage child or by _save_progress.
Checkpoint(j, c, s, i, d) ==
  /\ Executing(j, c)
  /\ s # PublicationStage
  /\ Fence(j, c, d)
  /\ Len(revisions[j][s]) < MaxRevisions
  /\ revisions' = [revisions EXCEPT ![j][s] = Persist(@, i, c)]
  /\ UNCHANGED <<job, workflow, cooldown, worker, orphans, retries>>

\* The "<stage>.search_health" checkpoint of a child that met a provider
\* outage: it carries a timestamp, so it is always a new latest outage.
RecordOutage(j, c, d) ==
  /\ Executing(j, c)
  /\ Fence(j, c, d)
  /\ cooldown' = CooldownTime
  /\ UNCHANGED <<job, workflow, revisions, worker, orphans, retries>>

\* _complete: the publication stage, complete_job and the workflow status in
\* one fenced transaction (for every outcome, budget_exhausted included).
Complete(w, i, d) ==
  LET j == worker[w].job
      c == worker[w].claim IN
  /\ worker[w].pc = "working"
  /\ Fence(j, c, d)
  /\ revisions' = [revisions EXCEPT ![j][PublicationStage] = Persist(@, i, c)]
  /\ job' = [job EXCEPT ![j] = Released(@, "succeeded")]
  /\ workflow' = [workflow EXCEPT ![j].status = "succeeded"]
  /\ worker' = [worker EXCEPT ![w] = Free]
  /\ UNCHANGED <<cooldown, orphans, retries>>

\* run_once's handler for any other exception: fail_job.
FailJob(w, d) ==
  LET j == worker[w].job IN
  /\ Busy(w)
  /\ Fence(j, worker[w].claim, d)
  /\ job' = [job EXCEPT ![j] = Released(@, "failed")]
  /\ workflow' = IF workflow[j].status = "absent" THEN workflow
                 ELSE [workflow EXCEPT ![j].status = "failed"]
  /\ worker' = [worker EXCEPT ![w] = Free]
  /\ UNCHANGED <<revisions, cooldown, orphans, retries>>

\* A fenced transaction raises ValueError, and the one run_once then tries
\* (fail_job or _complete) raises it again and is suppressed.
FencedOut(w, d) ==
  /\ Busy(w)
  /\ ~ Fence(worker[w].job, worker[w].claim, d)
  /\ worker' = [worker EXCEPT ![w] = Free]
  /\ UNCHANGED <<job, workflow, revisions, cooldown, orphans, retries>>

\* The worker process dies or is told to stop.
Crash(w) ==
  /\ Busy(w)
  /\ worker' = [worker EXCEPT ![w] = Down]
  /\ orphans' = WithChildOf(w)
  /\ UNCHANGED <<job, workflow, revisions, cooldown, retries>>

Restart(w) ==
  /\ worker[w].pc = "down"
  /\ worker' = [worker EXCEPT ![w] = Free]
  /\ UNCHANGED <<job, workflow, revisions, cooldown, orphans, retries>>

OrphanExit(o) ==
  /\ o \in orphans
  /\ orphans' = orphans \ {o}
  /\ UNCHANGED <<job, workflow, revisions, cooldown, worker, retries>>

-----------------------------------------------------------------------------
(* Time *)

\* A lease that every reading takes for expired need not be counted further.
AgedLease(row) ==
  IF row.status = "running" /\ row.lease > -Skew THEN [row EXCEPT !.lease = @ - 1] ELSE row

AgedDeadline(row) ==
  IF row.deadline # None /\ row.deadline # 0 THEN [row EXCEPT !.deadline = @ - 1] ELSE row

Tick ==
  /\ job' = [j \in Jobs |-> AgedLease(job[j])]
  /\ workflow' = [j \in Jobs |-> AgedDeadline(workflow[j])]
  /\ cooldown' = IF cooldown > 0 THEN cooldown - 1 ELSE 0
  /\ UNCHANGED <<revisions, worker, orphans, retries>>

-----------------------------------------------------------------------------

WorkerStep(w) ==
  \/ \E d \in Readings :
       \/ \E locked \in SUBSET Jobs : ClaimNext(w, d, locked)
       \/ OpenWorkflow(w, d) \/ Renew(w, d) \/ ClaimLost(w, d)
       \/ FailJob(w, d) \/ FencedOut(w, d)
       \/ \E i \in Inputs : Complete(w, i, d)
  \/ Crash(w) \/ Restart(w)

ChildStep ==
  \E j \in Jobs, d \in Readings :
    \E c \in 1..job[j].attempts :
      \/ RecordOutage(j, c, d)
      \/ \E s \in Stages, i \in Inputs : Checkpoint(j, c, s, i, d)

Next ==
  \/ \E j \in Jobs : Enqueue(j) \/ CancelJob(j)
  \/ \E w \in Workers : WorkerStep(w)
  \/ ChildStep
  \/ \E o \in orphans : OrphanExit(o)
  \/ Tick

Spec == Init /\ [][Next]_vars

\* run_once has an end: every await is an HTTP call with a timeout or a child
\* supervised up to the workflow's deadline, after which it only completes,
\* fails or finds out that it is fenced.
Finish(w) ==
  \E d \in Readings :
    \/ worker[w].pc = "claimed" /\ (OpenWorkflow(w, d) \/ FailJob(w, d) \/ FencedOut(w, d))
    \/ /\ worker[w].pc = "working"
       /\ workflow[worker[w].job].deadline = 0
       /\ (FailJob(w, d) \/ FencedOut(w, d) \/ \E i \in Inputs : Complete(w, i, d))

\* What the deployment keeps doing: the clock advances, a dead worker is
\* restarted, worker_loop polls for work and other transactions release their
\* row locks, an execution ends, and the renewal loop notices a lost claim.
Fairness ==
  /\ WF_vars(Tick)
  /\ \A w \in Workers :
       /\ WF_vars(Restart(w))
       /\ WF_vars(\E d \in Readings : ClaimNext(w, d, {}))
       /\ WF_vars(Finish(w))
       /\ WF_vars(\E d \in Readings : ClaimLost(w, d))

LiveSpec == Spec /\ Fairness

-----------------------------------------------------------------------------
(* Properties.  Those that are not temporal, and LostForGood, are checked  *)
(* and proved again under the routes of JobRoutes.                         *)

\* Every variable has the type its declaration says.
TypeOK ==
  /\ job \in [Jobs -> JobRow]
  /\ workflow \in [Jobs -> WorkflowRow]
  /\ revisions \in [Jobs -> [Stages -> Seq(Revision)]]
  /\ cooldown \in Nat
  /\ worker \in [Workers -> WorkerState]
  /\ orphans \subseteq Jobs \X Nat
  /\ retries \in [Jobs -> Nat]

\* Retry windows are bounded: claim_next_job never starts an attempt beyond
\* worker.max_attempts of one window, whatever mix of crashes, expiries and
\* operator retries came before.
WindowBounded ==
  \A j \in Jobs :
    /\ job[j].window <= MaxAttempts
    /\ job[j].status \in {"absent", "queued"} => job[j].window < MaxAttempts
    /\ job[j].status = "running" => job[j].window >= 1

\* Over its whole life a job is attempted at most max_attempts times for its
\* submission and for each operator retry (attempt_count, which is never
\* reset, stays within the windows that were opened).
AttemptBudget ==
  \A j \in Jobs :
    /\ job[j].attempts <= job[j].window + MaxAttempts * retries[j]
    /\ job[j].status = "absent" => job[j].attempts = 0 /\ job[j].window = 0

\* A token names one execution: two workers that still believe they execute
\* something, even after losing it, never hold the same token, and no token
\* is newer than the newest claim of its job.
TokensIssuedOnce ==
  /\ \A w \in Workers : Busy(w) =>
       /\ worker[w].job \in Jobs
       /\ worker[w].claim \in 1..job[worker[w].job].attempts
  /\ \A w, v \in Workers : Busy(w) /\ Busy(v) /\ w # v =>
       <<worker[w].job, worker[w].claim>> # <<worker[v].job, worker[v].claim>>
  /\ \A o \in orphans : o[2] \in 1..job[o[1]].attempts

\* Stage results are committed in the order of the claims they were produced
\* under: once a newer claim has written a stage, nothing a stale worker or an
\* orphaned stage child still computes can be appended after it
\* (docs/technical-guide.md: "Stale workers cannot write after claim loss").
RevisionsInClaimOrder ==
  \A j \in Jobs, s \in Stages :
    /\ \A k \in 1..Len(revisions[j][s]) : revisions[j][s][k].by \in 1..job[j].attempts
    /\ \A k, l \in 1..Len(revisions[j][s]) :
         k <= l => revisions[j][s][k].by <= revisions[j][s][l].by

\* A running row carries the token that was issued last.
NewestToken ==
  \A j \in Jobs : job[j].status = "running" => job[j].claim = job[j].attempts /\ job[j].claim >= 1

\* The inductive invariant that the theorems of JobQueueProofs rest on.
Inv ==
  /\ TypeOK
  /\ NewestToken
  /\ WindowBounded
  /\ AttemptBudget
  /\ TokensIssuedOnce
  /\ RevisionsInClaimOrder

\* Some clock reading still lets claim c of job j write.
Current(j, c) == \E d \in Readings : Fence(j, c, d)

\* A claim that was lost stays lost: once no reading accepts it, because it
\* expired, was swept, or its job was cancelled, requeued or deleted, no
\* renewal, new claim or requeueing of the row makes it acceptable again, so
\* what a worker or an orphan still computes under it is never committed.
LostForGood ==
  [][\A j \in Jobs : \A c \in 1..job[j].attempts : ~ Current(j, c) => ~ Current(j, c)']_vars

\* Every submitted job is settled: through crashes, lost claims and search
\* outages it ends up succeeded, failed or cancelled, never queued or running
\* forever.
EveryJobSettles ==
  \A j \in Jobs :
    job[j].status \in {"queued", "running"} ~> job[j].status \in Terminal

=============================================================================
