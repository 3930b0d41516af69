--------------------------- MODULE CrmPublication ---------------------------
(***************************************************************************)
(* Publication of research results to the Twenty CRM: the durable intents  *)
(* of src/malg/database/crm_writes.py, the replay protocol of              *)
(* CrmPublisher._publish and CrmPublisher.reconcile_pending in             *)
(* src/malg/crm/publisher.py, and worker_loop and run_once of              *)
(* src/malg/worker/service.py as far as they drive the two.                *)
(*                                                                         *)
(* The jobs themselves are the life cycle of JobLifecycle, which JobRoutes *)
(* implements; this module adds which running claims have lapsed (their    *)
(* lease is over, so that the fence rejects them).  A transaction is one   *)
(* action; between two of them anything may happen: the claim is lost, the *)
(* job is cancelled, another worker reconciles, a person edits the CRM, a  *)
(* request that timed out takes effect after all, or a request to retry or *)
(* to delete the job acts on what it read before.                          *)
(***************************************************************************)
EXTENDS Integers, Sequences, FiniteSets

CONSTANTS
  Jobs,         \* research jobs
  Workers,      \* worker processes
  Plan,         \* the records a job publishes, in order; ids are deterministic
  None,         \* no job
  MaxAttempts,  \* worker.max_attempts
  MaxRetries,   \* crm.max_retries: retries of an unavailable mutation
  MaxGrants,    \* bound: claims of one job over all its retries
  MaxEdits      \* bound: edits of CRM records by people

Records == {Plan[k] : k \in 1..Len(Plan)}

ASSUME PlanAssumption == Plan \in Seq(Records) /\ Plan # <<>>
ASSUME NoneAssumption == None \notin Jobs
ASSUME BoundsAssumption ==
  MaxAttempts \in Nat \ {0} /\ MaxRetries \in Nat /\ MaxGrants \in Nat /\ MaxEdits \in Nat

VARIABLES
  phase, grants, tries, ends,  \* the jobs: see JobLifecycle
  lapsed,    \* running jobs whose claim has expired
  cleared,   \* jobs that a request to delete them has found free of open writes
  outcome,   \* result_outcome of a job
  refs,      \* [Jobs -> SUBSET Records]: result_refs of a job
  intent,    \* [Jobs -> [Records -> Intent]]: crm_write_operations
  remote,    \* [Records -> RemoteStates]: what Twenty holds
  flight,    \* create requests sent and not yet applied or dropped
  worker,    \* [Workers -> WorkerState]
  edits      \* edits by people so far (only for the bound)

Life == INSTANCE JobLifecycle WITH
  Stages <- {"publication"}, PublicationStage <- "publication",
  log <- [j \in Jobs |-> [s \in {"publication"} |-> <<>>]]

jobVars == <<phase, grants, tries, ends, lapsed, cleared, outcome>>
vars == <<phase, grants, tries, ends, lapsed, cleared, outcome, refs, intent, remote, flight,
          worker, edits>>

-----------------------------------------------------------------------------
(* Types *)

\* "none" is a missing row.
IntentStatuses == {"none", "prepared", "confirmed", "conflict", "failed", "cancelled"}
Intent == [status : IntentStatuses, attempts : Nat]
Resolved == {"confirmed", "conflict", "cancelled"}
Unresolved == {"prepared", "failed"}

\* "ours" satisfies _identity_match for the intended fields, "foreign" does not.
RemoteStates == {"missing", "ours", "foreign"}

Requests == Jobs \X Records \X Nat

\* worker_loop: survey/observe/settle is reconcile_pending, over all jobs
\* (job = None) or, in _dispatch, over the claimed job; the others are the
\* steps of _publish between two transactions or requests.
Steps == {"idle", "observe", "settle", "ready", "claimed", "prepare", "read", "decide",
          "send", "wait", "ack", "reread", "resolve", "failing", "complete", "exhausted", "down"}

\* idx: position in Plan; seen: status of the intent when it was prepared;
\* got: what the last read returned; try: mutation attempt of this _publish;
\* err: how the last mutation failed; todo: operations still to be observed,
\* with their attempt_count in the snapshot; op: the one being observed, or
\* the create request of this _publish.
WorkerState ==
  [pc : Steps, job : Jobs \cup {None}, claim : Nat, idx : 1..Len(Plan), seen : IntentStatuses,
   got : RemoteStates, try : Nat, err : {"none", "rejected", "unavailable"},
   todo : SUBSET Requests, op : Requests \cup {<<>>}]

Blank ==
  [pc |-> "idle", job |-> None, claim |-> 0, idx |-> 1, seen |-> "none",
   got |-> "missing", try |-> 0, err |-> "none", todo |-> {}, op |-> <<>>]

Init ==
  /\ Life!Init
  /\ lapsed = {} /\ cleared = {}
  /\ outcome = [j \in Jobs |-> "none"]
  /\ refs = [j \in Jobs |-> {}]
  /\ intent = [j \in Jobs |-> [r \in Records |-> [status |-> "none", attempts |-> 0]]]
  /\ remote = [r \in Records |-> "missing"]
  /\ flight = {}
  /\ worker = [w \in Workers |-> Blank]
  /\ edits = 0

-----------------------------------------------------------------------------
(* The fence, the jobs and the outside world *)

\* require_claim.
Fence(j, c) == phase[j] = "running" /\ grants[j] = c /\ j \notin lapsed

Idle(w) == worker' = [worker EXCEPT ![w] = Blank]
Goto(w, pc) == worker' = [worker EXCEPT ![w].pc = pc]

Publishing == <<refs, intent, remote, flight, worker, edits>>

Submit(j) == Life!Submit(j) /\ UNCHANGED <<lapsed, cleared, outcome, Publishing>>

CancelJob(j) ==
  /\ Life!Cancel(j)
  /\ lapsed' = lapsed \ {j}
  /\ UNCHANGED <<cleared, outcome, Publishing>>

\* retry_failed_job on the row its session loaded earlier, when the job was
\* failed: the job may be running again by now, or may have ended.  The outcome
\* is written only if the loaded row had one.
RetryFailedJob(j) ==
  /\ Life!Retry(j)
  /\ lapsed' = lapsed \ {j}
  /\ outcome' \in {outcome, [outcome EXCEPT ![j] = "none"]}
  /\ UNCHANGED <<cleared, Publishing>>

\* The reads of delete_job, without a lock: the job had ended, and after that
\* every write is confirmed or cancelled.
ClearDelete(j) ==
  /\ ends[j] # {} /\ phase[j] # "deleted"
  /\ \A r \in Records : intent[j][r].status \in {"none", "confirmed", "cancelled"}
  /\ cleared' = cleared \cup {j}
  /\ UNCHANGED <<phase, grants, tries, ends, lapsed, outcome, Publishing>>

\* Its DELETE by primary key, at any time after those reads: the intents go with
\* the job (ON DELETE CASCADE), whatever has become of it and of them.
DeleteJob(j) ==
  /\ j \in cleared
  /\ Life!Remove(j)
  /\ lapsed' = lapsed \ {j}
  /\ intent' = [intent EXCEPT ![j] = [r \in Records |-> [status |-> "none", attempts |-> 0]]]
  /\ refs' = [refs EXCEPT ![j] = {}]
  /\ UNCHANGED <<cleared, outcome, remote, flight, worker, edits>>

\* The lease of a claim ends before it is renewed.
Lapse(j) ==
  /\ phase[j] = "running"
  /\ lapsed' = lapsed \cup {j}
  /\ UNCHANGED <<phase, grants, tries, ends, cleared, outcome, Publishing>>

\* A person deletes a CRM record, or edits its identity.
EditRecord(r, state) ==
  /\ remote[r] # "missing" /\ state \in {"missing", "foreign"}
  /\ edits < MaxEdits
  /\ remote' = [remote EXCEPT ![r] = state]
  /\ edits' = edits + 1
  /\ UNCHANGED <<jobVars, refs, intent, flight, worker>>

\* A create whose caller gave up waiting takes effect (unless the record
\* exists, which is a duplicate error nobody reads) or is lost.
Arrive(req) ==
  /\ req \in flight
  /\ flight' = flight \ {req}
  /\ remote' = [remote EXCEPT ![req[2]] = IF @ = "missing" THEN "ours" ELSE @]
  /\ UNCHANGED <<jobVars, refs, intent, worker, edits>>

Vanish(req) ==
  /\ req \in flight
  /\ flight' = flight \ {req}
  /\ UNCHANGED <<jobVars, refs, intent, remote, worker, edits>>

-----------------------------------------------------------------------------
(* reconcile_pending *)

\* The unresolved operations of some jobs, with the attempts made so far.
Pending(js) ==
  {<<x[1], x[2], intent[x[1]][x[2]].attempts>> :
     x \in {y \in js \X Records : intent[y[1]][y[2]].status \in Unresolved}}

\* Plausible bug: the operations of cancelled jobs are left alone.
StrandedUnlessCancelled == {j \in Jobs : phase[j] \in {"succeeded", "failed"} \/ j \in lapsed}

\* The jobs whose operations nobody else is going to settle.
Stranded == {j \in Jobs : phase[j] \in Life!Terminal \/ j \in lapsed}

\* Where a worker goes when it has dealt with an operation.
Resumed(me) ==
  [me EXCEPT !.op = <<>>,
             !.pc = IF me.todo # {} THEN "observe" ELSE IF me.job = None THEN "ready" ELSE "prepare"]

\* reconcile_pending(): unresolved operations of finished jobs and of running
\* jobs whose claim has lapsed.
Survey(w) ==
  /\ worker[w].pc = "idle"
  /\ worker' = [worker EXCEPT ![w] = Resumed([@ EXCEPT !.todo =
       Pending(Stranded)])]
  /\ UNCHANGED <<jobVars, refs, intent, remote, flight, edits>>

\* reconcile_pending(job_id) in _dispatch: the operations of the claimed job.
SurveyOwn(w) ==
  /\ worker[w].pc = "claimed"
  /\ worker' = [worker EXCEPT ![w] = Resumed([@ EXCEPT !.todo =
       Pending({worker[w].job})])]
  /\ UNCHANGED <<jobVars, refs, intent, remote, flight, edits>>

\* A missing record says nothing of a request that was sent, and the owner of
\* a job does not give up its own intents.
Observe(w, o) ==
  LET me == [worker[w] EXCEPT !.todo = @ \ {o}]
      settled == remote[o[2]] = "missing" /\ (o[3] > 0 \/ me.job # None) IN
  /\ worker[w].pc = "observe"
  /\ o \in worker[w].todo
  /\ worker' = [worker EXCEPT ![w] =
       IF settled THEN Resumed(me)
       ELSE [me EXCEPT !.pc = "settle", !.op = o, !.got = remote[o[2]]]]
  /\ UNCHANGED <<jobVars, refs, intent, remote, flight, edits>>

\* Twenty cannot be read: worker_loop goes on, _dispatch fails the job.
ObserveFails(w) ==
  /\ worker[w].pc = "observe"
  /\ worker' = [worker EXCEPT ![w] = [@ EXCEPT !.todo = {},
                                      !.pc = IF worker[w].job = None THEN "ready" ELSE "failing"]]
  /\ UNCHANGED <<jobVars, refs, intent, remote, flight, edits>>

\* Plausible bug: the attempt count of the snapshot is trusted.
CancellableBySnapshot(j, r) == ~ (phase[j] = "running" /\ j \notin lapsed)

\* reconcile_write's check, under the row locks, before it cancels an intent.
Cancellable(j, r) ==
  /\ intent[j][r].attempts = 0
  /\ ~ (phase[j] = "running" /\ j \notin lapsed)

\* Plausible bug: reconciliation overwrites what has been resolved meanwhile.
ReconciledAlways(i, status) == IF i.status = "none" THEN i ELSE [i EXCEPT !.status = status]

\* The rest of reconcile_write: only an unresolved intent is resolved.
Reconciled(i, status) == IF i.status \in Unresolved THEN [i EXCEPT !.status = status] ELSE i

\* The record was missing and the intent had never been attempted; when it may
\* not be cancelled the CrmWriteConflict ends worker_loop.
SettleCancelled(w) ==
  LET j == worker[w].op[1]
      r == worker[w].op[2] IN
  /\ worker[w].pc = "settle" /\ worker[w].got = "missing"
  /\ \/ /\ intent[j][r].status # "none" /\ ~ Cancellable(j, r)
        /\ worker' = [worker EXCEPT ![w] = [Blank EXCEPT !.pc = "down"]]
        /\ UNCHANGED intent
     \/ /\ intent[j][r].status # "none" => Cancellable(j, r)
        /\ worker' = [worker EXCEPT ![w] = Resumed(@)]
        /\ intent' = [intent EXCEPT ![j][r] = Reconciled(@, "cancelled")]
  /\ UNCHANGED <<jobVars, refs, remote, flight, edits>>

\* Plausible bug: a reconciled intent is confirmed without its reference.
RefsWithoutReconciled(j, r, got) == refs

\* _attach_ref after reconcile_write, which attaches whatever it decided.
RefsReconciled(j, r, got) ==
  IF got = "ours" THEN [refs EXCEPT ![j] = @ \cup {r}] ELSE refs

\* The record was there: it confirms the intent or conflicts with it.
SettleSeen(w) ==
  LET j == worker[w].op[1]
      r == worker[w].op[2] IN
  /\ worker[w].pc = "settle" /\ worker[w].got # "missing"
  /\ worker' = [worker EXCEPT ![w] = Resumed(@)]
  /\ intent' = [intent EXCEPT ![j][r] =
                  Reconciled(@, IF worker[w].got = "ours" THEN "confirmed" ELSE "conflict")]
  /\ refs' = IF intent[j][r].status = "none" THEN refs ELSE RefsReconciled(j, r, worker[w].got)
  /\ UNCHANGED <<jobVars, remote, flight, edits>>

-----------------------------------------------------------------------------
(* run_once: claiming and finishing *)

\* claim_next_job: reconcile lapsed claims, then perhaps claim a queued job.
ClaimNext(w, lost) ==
  /\ worker[w].pc = "ready"
  /\ lost \subseteq lapsed
  /\ \/ Life!Revoke(lost) /\ Idle(w) /\ lapsed' = lapsed \ lost
     \/ \E j \in Jobs :
          /\ grants[j] < MaxGrants
          /\ Life!Grant(lost, j)
          /\ lapsed' = lapsed \ (lost \cup {j})
          /\ worker' = [worker EXCEPT ![w] =
               [Blank EXCEPT !.pc = "claimed", !.job = j, !.claim = grants[j] + 1]]
  /\ UNCHANGED <<cleared, outcome, refs, intent, remote, flight, edits>>

Busy(w) == worker[w].job # None

\* The fence of the job a worker holds.
Owner(w) == Busy(w) /\ Fence(worker[w].job, worker[w].claim)

\* _complete: every record was published, or publication ran into the deadline.
Complete(w) ==
  LET j == worker[w].job IN
  /\ worker[w].pc \in {"complete", "exhausted"}
  /\ Owner(w)
  /\ Life!Succeed(j)
  /\ outcome' = [outcome EXCEPT ![j] = worker[w].pc]
  /\ Idle(w)
  /\ UNCHANGED <<lapsed, cleared, refs, intent, remote, flight, edits>>

\* fail_job after an exception.
FailJob(w) ==
  /\ worker[w].pc = "failing"
  /\ Owner(w)
  /\ Life!Fail(worker[w].job)
  /\ Idle(w)
  /\ UNCHANGED <<lapsed, cleared, outcome, refs, intent, remote, flight, edits>>

\* A fenced transaction is refused, or the renewal loop cancels the execution:
\* run_once returns and changes nothing.
ClaimLost(w) ==
  /\ Busy(w) /\ ~ Owner(w)
  /\ Idle(w)
  /\ UNCHANGED <<jobVars, refs, intent, remote, flight, edits>>

Crash(w) ==
  /\ worker[w].pc # "down"
  /\ worker' = [worker EXCEPT ![w] = [Blank EXCEPT !.pc = "down"]]
  /\ UNCHANGED <<jobVars, refs, intent, remote, flight, edits>>

Restart(w) ==
  /\ worker[w].pc = "down"
  /\ Idle(w)
  /\ UNCHANGED <<jobVars, refs, intent, remote, flight, edits>>

-----------------------------------------------------------------------------
(* _publish *)

Rec(w) == Plan[worker[w].idx]
IntentOf(w) == intent[worker[w].job][Rec(w)]

\* Plausible bug: publication ends before the last record.
AdvancedTooSoon(me) ==
  [me EXCEPT !.idx = IF @ < Len(Plan) THEN @ + 1 ELSE @, !.op = <<>>, !.seen = "none",
             !.got = "missing", !.try = 0, !.err = "none",
             !.pc = IF me.idx + 1 < Len(Plan) THEN "prepare" ELSE "complete"]

\* The next record of the plan, or the end of publication.
Advanced(me) ==
  [me EXCEPT !.idx = IF @ < Len(Plan) THEN @ + 1 ELSE @, !.op = <<>>, !.seen = "none",
             !.got = "missing", !.try = 0, !.err = "none",
             !.pc = IF me.idx < Len(Plan) THEN "prepare" ELSE "complete"]

Failing(me) == [me EXCEPT !.pc = "failing", !.todo = {}, !.op = <<>>]

\* prepare_write creates the intent or reuses it; a cancelled or conflicting
\* one prohibits publication.
Prepare(w) ==
  LET i == IntentOf(w)
      st == IF i.status = "none" THEN "prepared" ELSE i.status IN
  /\ worker[w].pc = "prepare"
  /\ Owner(w)
  /\ intent' = [intent EXCEPT ![worker[w].job][Rec(w)].status = st]
  /\ worker' = [worker EXCEPT ![w] =
       IF st \in {"cancelled", "conflict"} THEN Failing(@) ELSE [@ EXCEPT !.pc = "read", !.seen = st]]
  /\ UNCHANGED <<jobVars, refs, remote, flight, edits>>

\* _read, before a mutation and after one that failed; fenced on both sides.
Read(w) ==
  /\ worker[w].pc \in {"read", "reread"}
  /\ Owner(w)
  /\ worker' = [worker EXCEPT ![w] =
       [@ EXCEPT !.got = remote[Rec(w)], !.pc = IF worker[w].pc = "read" THEN "decide" ELSE "resolve"]]
  /\ UNCHANGED <<jobVars, refs, intent, remote, flight, edits>>

\* Twenty cannot be read, or its contract has changed.
ReadFails(w) ==
  /\ worker[w].pc \in {"claimed", "prepare", "read", "reread"}
  /\ worker' = [worker EXCEPT ![w] = Failing(@)]
  /\ UNCHANGED <<jobVars, refs, intent, remote, flight, edits>>

\* _require_claim finds that the workflow's deadline has passed.
DeadlinePassed(w) ==
  /\ \/ worker[w].pc \in {"prepare", "read", "reread", "ack"}
     \/ worker[w].pc \in {"decide", "resolve"} /\ worker[w].got = "missing"
  /\ Owner(w)
  /\ Goto(w, "exhausted")
  /\ UNCHANGED <<jobVars, refs, intent, remote, flight, edits>>

\* Plausible bug: a resolved intent is overwritten by a late outcome.
MarkableAlways(i, st) == TRUE

\* mark_write: resolved intents are not reopened, only marked the same again.
Markable(i, st) == i.status \in Resolved => i.status = st

\* _mark under the fence: on success the worker becomes next, a resolved
\* intent with another outcome raises CrmWriteConflict.
Mark(w, st, next) ==
  LET j == worker[w].job IN
  /\ Owner(w)
  /\ IF Markable(IntentOf(w), st)
     THEN /\ intent' = [intent EXCEPT ![j][Rec(w)].status = st]
          /\ refs' = IF st = "confirmed" THEN [refs EXCEPT ![j] = @ \cup {Rec(w)}] ELSE refs
          /\ worker' = [worker EXCEPT ![w] = next]
     ELSE worker' = [worker EXCEPT ![w] = Failing(@)] /\ UNCHANGED <<intent, refs>>
  /\ UNCHANGED <<jobVars, remote, flight, edits>>

\* The record is there, or the mutation was acknowledged.
Confirm(w) ==
  /\ worker[w].pc = "ack" \/ (worker[w].pc \in {"decide", "resolve"} /\ worker[w].got = "ours")
  /\ Mark(w, "confirmed", Advanced(worker[w]))

\* Somebody else's record has this identity.
Conflict(w) ==
  /\ worker[w].pc \in {"decide", "resolve"} /\ worker[w].got = "foreign"
  /\ ~ (worker[w].pc = "decide" /\ worker[w].seen = "confirmed")
  /\ Mark(w, "conflict", Failing(worker[w]))

\* What was confirmed earlier has been deleted or taken over by a person.
GoneSinceConfirmed(w) ==
  /\ worker[w].pc = "decide" /\ worker[w].seen = "confirmed"
  /\ worker[w].got # "ours"

NotRecreated(w) ==
  /\ GoneSinceConfirmed(w)
  /\ worker' = [worker EXCEPT ![w] = Failing(@)]
  /\ UNCHANGED <<jobVars, refs, intent, remote, flight, edits>>

Attempted(i) == [status |-> "prepared", attempts |-> i.attempts + 1]

\* record_mutation_attempt: counted and committed before the request is sent.
Attempt(w) ==
  LET j == worker[w].job IN
  /\ worker[w].pc = "decide" /\ worker[w].got = "missing" /\ ~ GoneSinceConfirmed(w)
  /\ Owner(w)
  /\ IF IntentOf(w).status \in Resolved
     THEN worker' = [worker EXCEPT ![w] = Failing(@)] /\ UNCHANGED intent
     ELSE /\ intent' = [intent EXCEPT ![j][Rec(w)] = Attempted(@)]
          /\ worker' = [worker EXCEPT ![w] =
               [@ EXCEPT !.pc = "send", !.op = <<j, Rec(w), IntentOf(w).attempts + 1>>]]
  /\ UNCHANGED <<jobVars, refs, remote, flight, edits>>

\* create_record, which is not fenced.
Send(w) ==
  /\ worker[w].pc = "send"
  /\ flight' = flight \cup {worker[w].op}
  /\ Goto(w, "wait")
  /\ UNCHANGED <<jobVars, refs, intent, remote, edits>>

RespondCreated(w) ==
  /\ worker[w].pc = "wait" /\ worker[w].op \in flight /\ remote[Rec(w)] = "missing"
  /\ flight' = flight \ {worker[w].op}
  /\ remote' = [remote EXCEPT ![Rec(w)] = "ours"]
  /\ Goto(w, "ack")
  /\ UNCHANGED <<jobVars, refs, intent, edits>>

\* An error that is not an outage; it may also concern the answer alone.
RespondRejected(w) ==
  /\ worker[w].pc = "wait" /\ worker[w].op \in flight
  /\ flight' = flight \ {worker[w].op}
  /\ remote' \in {remote, [remote EXCEPT ![Rec(w)] = IF @ = "missing" THEN "ours" ELSE @]}
  /\ worker' = [worker EXCEPT ![w] = [@ EXCEPT !.pc = "reread", !.err = "rejected"]]
  /\ UNCHANGED <<jobVars, refs, intent, edits>>

\* TwentyUnavailable: the request may have been applied, may be applied later,
\* or never.
RespondUnavailable(w) ==
  /\ worker[w].pc = "wait"
  /\ worker' = [worker EXCEPT ![w] = [@ EXCEPT !.pc = "reread", !.err = "unavailable"]]
  /\ UNCHANGED <<jobVars, refs, intent, remote, flight, edits>>

Rejected(w) ==
  /\ worker[w].pc = "resolve" /\ worker[w].got = "missing" /\ worker[w].err = "rejected"
  /\ Mark(w, "failed", Failing(worker[w]))

\* Nothing arrived: try again after a pause, while retries are left.
Backoff(w) ==
  /\ worker[w].pc = "resolve" /\ worker[w].got = "missing" /\ worker[w].err = "unavailable"
  /\ Owner(w)
  /\ worker' = [worker EXCEPT ![w] =
       IF worker[w].try < MaxRetries
       THEN [@ EXCEPT !.pc = "read", !.try = worker[w].try + 1, !.op = <<>>] ELSE Failing(@)]
  /\ UNCHANGED <<jobVars, refs, intent, remote, flight, edits>>

-----------------------------------------------------------------------------

Settle(w) == SettleCancelled(w) \/ SettleSeen(w)

Publish(w) ==
  \/ Prepare(w) \/ Read(w) \/ ReadFails(w) \/ DeadlinePassed(w) \/ Confirm(w) \/ Conflict(w)
  \/ NotRecreated(w) \/ Attempt(w) \/ Send(w) \/ RespondCreated(w) \/ RespondRejected(w)
  \/ RespondUnavailable(w) \/ Rejected(w) \/ Backoff(w)

\* A pass of worker_loop, started again when the process went down.
Run(w) ==
  \/ Survey(w) \/ SurveyOwn(w) \/ ObserveFails(w) \/ Settle(w) \/ Publish(w)
  \/ \E o \in worker[w].todo : Observe(w, o)
  \/ \E lost \in SUBSET lapsed : ClaimNext(w, lost)
  \/ Complete(w) \/ FailJob(w) \/ ClaimLost(w) \/ Restart(w)

Next ==
  \/ \E w \in Workers : Run(w) \/ Crash(w)
  \/ \E j \in Jobs :
       \/ Submit(j) \/ CancelJob(j) \/ RetryFailedJob(j) \/ ClearDelete(j) \/ DeleteJob(j)
       \/ Lapse(j)
  \/ \E r \in Records, state \in {"missing", "foreign"} : EditRecord(r, state)
  \/ \E req \in flight : Arrive(req) \/ Vanish(req)

Spec == Init /\ [][Next]_vars

\* Every await of a worker is bounded by a timeout or a deadline and a worker
\* that went down is restarted; it is not always down when it could survey,
\* Twenty answers now and then, and no operation is passed over for ever.
Fairness ==
  \A w \in Workers :
    /\ WF_vars(Run(w)) /\ SF_vars(Survey(w)) /\ SF_vars(Settle(w))
    /\ \A j \in Jobs, r \in Records :
         SF_vars(\E o \in worker[w].todo : o[1] = j /\ o[2] = r /\ Observe(w, o))

LiveSpec == Spec /\ Fairness

-----------------------------------------------------------------------------
(* Properties *)

\* Every variable has its type, and the lease of a job is over only while it runs.
TypeOK ==
  /\ phase \in [Jobs -> Life!Phases]
  /\ grants \in [Jobs -> 0..MaxGrants] /\ tries \in [Jobs -> 0..MaxAttempts]
  /\ lapsed \subseteq {j \in Jobs : phase[j] = "running"}
  /\ ends \in [Jobs -> SUBSET Life!Terminal] /\ cleared \subseteq Jobs
  /\ outcome \in [Jobs -> {"none", "complete", "exhausted"}]
  /\ refs \in [Jobs -> SUBSET Records]
  /\ intent \in [Jobs -> [Records -> Intent]]
  /\ remote \in [Records -> RemoteStates]
  /\ flight \subseteq Requests
  /\ worker \in [Workers -> WorkerState]
  /\ edits \in 0..MaxEdits

\* Whatever is under way to Twenty can be found in the journal: the intent of a
\* request that may still take effect has counted it and has not been
\* cancelled, whoever reconciles, cancels, retries or crashes meanwhile
\* (record_mutation_attempt before create_record, reconcile_write's guard).
Journaled ==
  \A req \in flight :
    phase[req[1]] # "deleted" =>
      /\ intent[req[1]][req[2]].attempts >= req[3]
      /\ intent[req[1]][req[2]].status \notin {"none", "cancelled"}

\* A confirmed effect is a reference of its job, whether the publishing worker
\* or a reconciling one confirmed it (_mark, reconcile_pending, _attach_ref).
ConfirmedReferenced ==
  \A j \in Jobs : \A r \in Records : intent[j][r].status = "confirmed" => r \in refs[j]

\* A job that reports a complete publication has every record confirmed, and
\* stays that way while other workers go on with their snapshots (_complete
\* against reconcile_pending).
CompleteMeansPublished ==
  \A j \in Jobs :
    phase[j] = "succeeded" /\ outcome[j] = "complete" =>
      \A r \in Records : intent[j][r].status = "confirmed" /\ r \in refs[j]

\* A resolved intent is never reopened or resolved otherwise, by nobody, until
\* the job and its journal are deleted (mark_write, record_mutation_attempt,
\* reconcile_write).
IntentsFinal ==
  [][\A j \in Jobs : \A r \in Records :
       intent[j][r].status \in Resolved =>
         intent'[j][r].status = intent[j][r].status \/ phase'[j] = "deleted"]_vars

\* An effect that Twenty shows, or that was never requested, does not stay
\* unresolved after its job has finished: reconciliation settles it
\* (reconcile_pending from worker_loop), unless the job runs again or the
\* record disappears.
Settleable(j, r) ==
  /\ phase[j] \in Life!Terminal /\ intent[j][r].status \in Unresolved
  /\ intent[j][r].attempts = 0 \/ remote[r] # "missing"

PendingSettles == \A j \in Jobs : \A r \in Records : Settleable(j, r) ~> ~ Settleable(j, r)

\* The journal keeps what WriteJournal promises as long as it exists: whoever
\* publishes, reconciles, cancels or retries a job, a create that may take effect
\* was counted before and is not cancelled, and outcomes are not revised
\* (crm_writes.py).  A deleted job takes its journal with it.
JournalStatus ==
  [i \in Jobs \X Records |->
     IF phase[i[1]] = "deleted" THEN "forgotten" ELSE intent[i[1]][i[2]].status]
Issued == {i \in Jobs \X Records : intent[i[1]][i[2]].attempts > 0}
Loose ==
  {<<req[1], req[2]>> : req \in flight \cup {worker[w].op : w \in {v \in Workers : worker[v].pc = "send"}}}

Journal ==
  INSTANCE WriteJournal WITH
    Writes <- Jobs \X Records, status <- JournalStatus, issued <- Issued, loose <- Loose

JournalSpec == Journal!Spec

=============================================================================
