--------------------------- MODULE JobQueueProofs ---------------------------
(***************************************************************************)
(* Proofs about JobQueue and JobRoutes, for every set of workers, stages,  *)
(* inputs and requests, every finite set of jobs and every value of the    *)
(* time and attempt constants.                                             *)
(*                                                                         *)
(* The argument has three layers.  Lemmas about the row operators say      *)
(* which facts about one job row Released, Expired, Claimed and Requeued   *)
(* keep (RowInv).  From them, RowsStep shows that no step breaks these     *)
(* facts and that attempt_count only grows.  The facts that relate rows to *)
(* the memory of workers (TokensIssuedOnce) and to the stage log           *)
(* (RevisionsInClaimOrder) rest on that growth.  The routes decide on rows *)
(* they have read earlier, so a queued row may have a claim left and a job *)
(* may be requeued out of any state: all that is said of the queue is      *)
(* proved from facts that withstand this (RoutesInv), among them what a    *)
(* request in flight has seen.                                             *)
(***************************************************************************)
EXTENDS JobRoutes, FiniteSetTheorems, TLAPS

USE DEF Readings, Terminal, Statuses

-----------------------------------------------------------------------------
(* One row of research_jobs *)

\* What Inv says of a row whose earlier retry windows allowed b attempts.
RowInv(row, b) ==
  /\ row \in JobRow
  /\ row.status = "running" => row.claim = row.attempts /\ row.attempts >= 1
  /\ row.window <= MaxAttempts
  /\ row.status \in {"absent", "queued"} => row.window < MaxAttempts
  /\ row.status = "running" => row.window >= 1
  /\ row.attempts <= row.window + b
  /\ row.status = "absent" => row.attempts = 0 /\ row.window = 0

\* Releasing a row into a final status, or into the queue while it has
\* attempts left, keeps the row facts.
LEMMA ReleasedRow ==
  ASSUME NEW row, NEW b \in Int, RowInv(row, b), NEW st,
         st \in Terminal \/ (st = "queued" /\ row.window < MaxAttempts)
  PROVE  RowInv(Released(row, st), b) /\ Released(row, st).attempts = row.attempts
  BY DEF RowInv, Released, JobRow

\* An expired claim leaves the row facts intact: it is queued again only with
\* attempts left.
LEMMA ExpiredRow ==
  ASSUME NEW row, NEW b \in Int, RowInv(row, b)
  PROVE  RowInv(Expired(row), b) /\ Expired(row).attempts = row.attempts
  <1>1. row.window \in Nat
    BY DEF RowInv, JobRow
  <1>2. CASE row.window >= MaxAttempts
    BY <1>2, ReleasedRow DEF Expired
  <1>3. CASE ~ (row.window >= MaxAttempts)
    BY <1>1, <1>3, BoundsAssumption, ReleasedRow DEF Expired
  <1> QED BY <1>2, <1>3

\* A claim of a queued row issues a token that no claim of it had before.
LEMMA ClaimedRow ==
  ASSUME NEW row, NEW b \in Int, RowInv(row, b), row.status = "queued",
         NEW d \in Readings
  PROVE  RowInv(Claimed(row, d), b) /\ Claimed(row, d).attempts = row.attempts + 1
  BY BoundsAssumption, TimeAssumption DEF RowInv, Claimed, JobRow

\* The passing of time touches only the lease of a running row.
LEMMA AgedRow ==
  ASSUME NEW row, NEW b \in Int, RowInv(row, b)
  PROVE  RowInv(AgedLease(row), b) /\ AgedLease(row).attempts = row.attempts
  BY TimeAssumption DEF RowInv, AgedLease, JobRow

-----------------------------------------------------------------------------
(* The table *)

Budget(j) == MaxAttempts * retries[j]

Rows ==
  /\ job \in [Jobs -> JobRow] /\ retries \in [Jobs -> Nat]
  /\ \A j \in Jobs : RowInv(job[j], Budget(j))

\* Attempt numbers, and so tokens, are never issued twice.
AttemptsGrow == \A j \in Jobs : job'[j].attempts >= job[j].attempts

\* Budgets are numbers.
LEMMA BudgetType ==
  ASSUME NEW j \in Jobs, retries \in [Jobs -> Nat] PROVE Budget(j) \in Int
  <1>1. retries[j] \in Nat /\ MaxAttempts \in Nat
    BY BoundsAssumption
  <1> QED BY <1>1 DEF Budget

\* A step that rewrites one row, keeping its facts, keeps the table's.
LEMMA OneRow ==
  ASSUME Rows, NEW j \in Jobs, NEW row,
         job' = [job EXCEPT ![j] = row], retries' = retries,
         RowInv(row, Budget(j)), row.attempts = job[j].attempts
  PROVE  Rows' /\ AttemptsGrow
  <1>1. row \in JobRow
    BY DEF RowInv
  <1>2. job' \in [Jobs -> JobRow] /\ retries' \in [Jobs -> Nat]
    BY <1>1 DEF Rows
  <1>3. ASSUME NEW k \in Jobs
        PROVE  RowInv(job'[k], Budget(k)') /\ job'[k].attempts >= job[k].attempts
    <2>1. Budget(k)' = Budget(k)
      BY DEF Budget
    <2>2. CASE k = j
      BY <2>1, <2>2 DEF Rows, JobRow
    <2>3. CASE k # j
      <3>1. job'[k] = job[k] /\ RowInv(job[k], Budget(k)) /\ job[k].attempts \in Nat
        BY <2>3 DEF Rows, JobRow
      <3> QED BY <2>1, <3>1
    <2> QED BY <2>2, <2>3
  <1> QED BY <1>2, <1>3 DEF Rows, AttemptsGrow

\* The same for a step that opens one more window of attempts for a row.
LEMMA OneMoreWindow ==
  ASSUME Rows, NEW j \in Jobs, NEW row,
         job' = [job EXCEPT ![j] = row], retries' = [retries EXCEPT ![j] = @ + 1],
         RowInv(row, Budget(j) + MaxAttempts), row.attempts = job[j].attempts
  PROVE  Rows' /\ AttemptsGrow
  <1>1. job' \in [Jobs -> JobRow] /\ retries' \in [Jobs -> Nat]
    BY DEF RowInv, Rows
  <1>2. ASSUME NEW k \in Jobs
        PROVE  /\ job[k].attempts \in Nat
               /\ RowInv(job[k], Budget(k)) /\ Budget(k) \in Int
    BY BudgetType DEF JobRow, Rows
  <1>3. ASSUME NEW k \in Jobs
        PROVE  RowInv(job'[k], Budget(k)') /\ job'[k].attempts >= job[k].attempts
    <2> USE DEF Rows
    <2>1. CASE k = j
      <3>1. Budget(k)' = MaxAttempts * (retries[j] + 1) /\ retries[j] \in Nat
        BY <2>1 DEF Budget
      <3>2. MaxAttempts * (retries[j] + 1) = MaxAttempts * retries[j] + MaxAttempts
        BY <3>1, BoundsAssumption
      <3>3. Budget(k)' = Budget(j) + MaxAttempts
        BY <3>1, <3>2 DEF Budget
      <3> QED BY <1>2, <2>1, <3>3
    <2>2. CASE k # j
      <3>1. Budget(k)' = Budget(k) /\ job'[k] = job[k]
        BY <2>2 DEF Budget
      <3> QED BY <1>2, <3>1
    <2> QED BY <2>1, <2>2
  <1> QED BY <1>1, <1>3 DEF AttemptsGrow, Rows

\* No step breaks the facts about job rows, and attempt_count never shrinks.
LEMMA RowsStep ==
  ASSUME Rows, [Next]_vars, worker \in [Workers -> WorkerState],
         \A w \in Workers : Busy(w) => worker[w].job \in Jobs
  PROVE  Rows' /\ AttemptsGrow
  <1>a. ASSUME NEW j \in Jobs
        PROVE  /\ job[j] \in JobRow /\ job[j].attempts \in Nat
               /\ RowInv(job[j], Budget(j)) /\ Budget(j) \in Int
    BY BudgetType DEF JobRow, Rows
  <1>u. ASSUME UNCHANGED <<job, retries>> PROVE Rows' /\ AttemptsGrow
    BY <1>a, <1>u DEF AttemptsGrow, Budget, Rows
  <1>1. ASSUME NEW j \in Jobs, Enqueue(j) PROVE Rows' /\ AttemptsGrow
    <2> DEFINE n == Cardinality({k \in Jobs : job[k].status # "absent"}) + 1
               row == [status |-> "queued", claim |-> 0, lease |-> 0,
                       attempts |-> 0, window |-> 0, born |-> n]
    <2>1. n \in Nat
      BY JobsAssumption, FS_Subset, FS_CardinalityType
    <2>2. Budget(j) >= 0
      <3>1. \A a, b \in Nat : a * b >= 0
        BY SMT
      <3>2. MaxAttempts \in Nat /\ retries[j] \in Nat
        BY BoundsAssumption DEF Rows
      <3> QED BY <3>1, <3>2 DEF Budget
    <2>3. RowInv(row, Budget(j))
      BY <1>a, <2>1, <2>2, BoundsAssumption DEF RowInv, JobRow
    <2>4. job[j].attempts = 0
      BY <1>a, <1>1 DEF Enqueue, RowInv
    <2> QED BY <1>1, <2>3, <2>4, OneRow DEF Enqueue
  <1>2. ASSUME NEW j \in Jobs, CancelJob(j) PROVE Rows' /\ AttemptsGrow
    <2>1. RowInv(Released(job[j], "cancelled"), Budget(j))
          /\ Released(job[j], "cancelled").attempts = job[j].attempts
      BY <1>a, ReleasedRow
    <2> QED BY <1>2, <1>a, <2>1, OneRow DEF CancelJob
  <1>5. ASSUME NEW w \in Workers, NEW d \in Readings, NEW locked \in SUBSET Jobs,
               ClaimNext(w, d, locked)
        PROVE  Rows' /\ AttemptsGrow
    <2> DEFINE swept == Sweep(d, locked)
    <2>1. ASSUME NEW j \in Jobs
          PROVE  /\ RowInv(swept[j], Budget(j))
                 /\ swept[j].attempts = job[j].attempts /\ swept[j] \in JobRow
      BY <1>a, ExpiredRow DEF Sweep, RowInv
    <2>2. swept \in [Jobs -> JobRow]
      BY <2>1 DEF Sweep
    <2>3. retries' = retries /\ retries \in [Jobs -> Nat] /\ \A j \in Jobs : Budget(j)' = Budget(j)
      BY <1>5 DEF ClaimNext, Budget, Rows
    <2> HIDE DEF swept
    <2>4. CASE job' = swept
      BY <1>a, <2>1, <2>2, <2>3, <2>4 DEF AttemptsGrow, Rows
    <2>5. ASSUME NEW j \in Jobs, swept[j].status = "queued",
                 job' = [swept EXCEPT ![j] = Claimed(swept[j], d)]
          PROVE  Rows' /\ AttemptsGrow
      <3>1. /\ RowInv(Claimed(swept[j], d), Budget(j))
            /\ Claimed(swept[j], d).attempts = job[j].attempts + 1
        BY <1>a, <2>1, <2>5, ClaimedRow
      <3>2. job' \in [Jobs -> JobRow]
        BY <2>2, <2>5, <3>1 DEF RowInv
      <3>3. ASSUME NEW k \in Jobs
            PROVE  RowInv(job'[k], Budget(k)') /\ job'[k].attempts >= job[k].attempts
        <4>1. CASE k = j
          BY <1>a, <2>2, <2>3, <2>5, <3>1, <4>1
        <4>2. CASE k # j
          BY <1>a, <2>1, <2>2, <2>3, <2>5, <4>2
        <4> QED BY <4>1, <4>2
      <3> QED BY <2>3, <3>2, <3>3 DEF AttemptsGrow, Rows
    <2> QED BY <1>5, <2>4, <2>5 DEF ClaimNext, swept
  <1>6. ASSUME NEW w \in Workers, NEW d \in Readings, Renew(w, d)
        PROVE  Rows' /\ AttemptsGrow
    <2> DEFINE j == worker[w].job
               row == [job[j] EXCEPT !.lease = LeaseTime + d]
    <2>1. j \in Jobs /\ job[j].status = "running" /\ LeaseTime + d \in Int
      BY <1>6, TimeAssumption DEF Renew, Renewable, Fence
    <2>2. row.attempts = job[j].attempts /\ RowInv(row, Budget(j))
      BY <1>a, <2>1 DEF RowInv, JobRow
    <2>3. job' = [job EXCEPT ![j] = row]
      BY <1>6 DEF Renew
    <2>4. retries' = retries
      BY <1>6 DEF Renew
    <2> HIDE DEF row, j
    <2> QED BY <1>a, <2>1, <2>2, <2>3, <2>4, OneRow
  <1>7. ASSUME NEW w \in Workers, NEW d \in Readings,
               FailJob(w, d) \/ \E i \in Inputs : Complete(w, i, d)
        PROVE  Rows' /\ AttemptsGrow
    <2> DEFINE j == worker[w].job
    <2>1. j \in Jobs /\ retries' = retries
      BY <1>7 DEF FailJob, Complete, Busy
    <2>2. PICK st \in {"failed", "succeeded"} : job' = [job EXCEPT ![j] = Released(job[j], st)]
      BY <1>7 DEF FailJob, Complete
    <2>3. RowInv(Released(job[j], st), Budget(j)) /\ Released(job[j], st).attempts = job[j].attempts
      BY <1>a, <2>1, ReleasedRow
    <2> HIDE DEF j
    <2> QED BY <1>a, <2>1, <2>2, <2>3, OneRow
  <1>8. CASE Tick
    <2>1. ASSUME NEW j \in Jobs
          PROVE  /\ job'[j] = AgedLease(job[j]) /\ Budget(j)' = Budget(j)
                 /\ RowInv(AgedLease(job[j]), Budget(j))
                 /\ AgedLease(job[j]).attempts = job[j].attempts
      BY <1>8, <1>a, AgedRow DEF Tick, Budget, Rows
    <2>2. ASSUME NEW j \in Jobs PROVE AgedLease(job[j]) \in JobRow
      BY <2>1 DEF RowInv
    <2>3. job' \in [Jobs -> JobRow] /\ retries' \in [Jobs -> Nat]
      BY <1>8, <2>2 DEF Tick, Rows
    <2> QED BY <1>a, <2>1, <2>3 DEF AttemptsGrow, Rows
  <1>9. ASSUME NEW w \in Workers, NEW d \in Readings,
               \/ OpenWorkflow(w, d) \/ ClaimLost(w, d) \/ FencedOut(w, d)
               \/ Crash(w) \/ Restart(w)
        PROVE  UNCHANGED <<job, retries>>
    BY <1>9 DEF OpenWorkflow, ClaimLost, FencedOut, Crash, Restart
  <1>10. ASSUME ChildStep \/ (\E o \in orphans : OrphanExit(o)) \/ UNCHANGED vars
         PROVE  UNCHANGED <<job, retries>>
    BY <1>10 DEF ChildStep, Checkpoint, RecordOutage, OrphanExit, vars
  <1>11. 0 \in Readings
    BY TimeAssumption
  <1> QED BY <1>1, <1>2, <1>5, <1>6, <1>7, <1>8, <1>9, <1>10, <1>11, <1>u
          DEF Next, WorkerStep

-----------------------------------------------------------------------------
(* The memory of workers and orphans *)

Tokens ==
  /\ worker \in [Workers -> WorkerState]
  /\ orphans \subseteq Jobs \X Nat
  /\ TokensIssuedOnce

\* A busy worker holds a token that has been issued.
LEMMA TokensOfBusy ==
  ASSUME Tokens, NEW w \in Workers, Busy(w)
  PROVE  /\ worker[w].job \in Jobs /\ worker[w].claim \in Nat
         /\ worker[w].claim \in 1..job[worker[w].job].attempts
  BY DEF Tokens, TokensIssuedOnce, WorkerState

\* A step in which every worker either keeps its claim or lets go of it, and
\* orphans come from workers, issues no token twice.
LEMMA TokensKept ==
  ASSUME Tokens, Rows, Rows', AttemptsGrow,
         worker' \in [Workers -> WorkerState],
         \A w \in Workers : Busy(w)' =>
            Busy(w) /\ worker'[w].job = worker[w].job /\ worker'[w].claim = worker[w].claim,
         \A o \in orphans' : o \in orphans
            \/ \E w \in Workers : Busy(w) /\ o = <<worker[w].job, worker[w].claim>>
  PROVE  Tokens'
  <1>1. ASSUME NEW j \in Jobs
        PROVE  /\ job[j].attempts \in Nat /\ job'[j].attempts \in Nat
               /\ job'[j].attempts >= job[j].attempts
    BY DEF Rows, JobRow, AttemptsGrow
  <1>2. ASSUME NEW w \in Workers, Busy(w)'
        PROVE  worker'[w].job \in Jobs /\ worker'[w].claim \in 1..job'[worker'[w].job].attempts
    BY <1>1, <1>2, TokensOfBusy
  <1>3. ASSUME NEW w \in Workers, NEW v \in Workers, Busy(w)', Busy(v)', w # v
        PROVE  <<worker'[w].job, worker'[w].claim>> # <<worker'[v].job, worker'[v].claim>>
    BY <1>3 DEF Tokens, TokensIssuedOnce
  <1>4. ASSUME NEW o \in orphans'
        PROVE  o \in Jobs \X Nat /\ o[2] \in 1..job'[o[1]].attempts
    <2>1. CASE o \in orphans
      BY <1>1, <2>1 DEF Tokens, TokensIssuedOnce
    <2>2. ASSUME NEW w \in Workers, Busy(w), o = <<worker[w].job, worker[w].claim>>
          PROVE  o \in Jobs \X Nat /\ o[2] \in 1..job'[o[1]].attempts
      BY <1>1, <2>2, TokensOfBusy
    <2> QED BY <2>1, <2>2
  <1> QED BY <1>2, <1>3, <1>4 DEF Tokens, TokensIssuedOnce

\* No step gives two executions the same token.
LEMMA TokensStep ==
  ASSUME Tokens, Rows, Rows', AttemptsGrow, [Next]_vars
  PROVE  Tokens'
  <1>t. worker \in [Workers -> WorkerState] /\ \A w \in Workers : worker[w] \in WorkerState
    BY DEF Tokens
  <1>1. ASSUME UNCHANGED worker, orphans' \subseteq orphans PROVE Tokens'
    <2>1. \A w \in Workers : Busy(w)' <=> Busy(w)
      BY <1>1 DEF Busy
    <2> QED BY <1>1, <1>t, <2>1, TokensKept
  <1>2. ASSUME NEW w \in Workers, NEW st,
               worker' = [worker EXCEPT ![w] = st], orphans' = orphans,
               st \in {Free, Down} \/ (Busy(w) /\ st = [worker[w] EXCEPT !.pc = "working"])
        PROVE  Tokens'
    <2>1. st \in WorkerState /\ worker' \in [Workers -> WorkerState]
      BY <1>2, <1>t DEF Free, Down, WorkerState
    <2>2. ASSUME NEW v \in Workers, Busy(v)'
          PROVE  Busy(v) /\ worker'[v].job = worker[v].job /\ worker'[v].claim = worker[v].claim
      BY <1>2, <1>t, <2>2 DEF Busy, Free, Down, WorkerState
    <2> QED BY <1>2, <2>1, <2>2, TokensKept
  <1>3. ASSUME NEW w \in Workers, NEW st \in {Free, Down}, Busy(w),
               worker' = [worker EXCEPT ![w] = st], orphans' = WithChildOf(w)
        PROVE  Tokens'
    <2>1. worker' \in [Workers -> WorkerState]
      BY <1>3, <1>t DEF Free, Down, WorkerState
    <2>2. ASSUME NEW v \in Workers, Busy(v)'
          PROVE  Busy(v) /\ worker'[v].job = worker[v].job /\ worker'[v].claim = worker[v].claim
      BY <1>3, <1>t, <2>2 DEF Busy, Free, Down
    <2>3. \A o \in orphans' : o \in orphans \/ o = <<worker[w].job, worker[w].claim>>
      BY <1>3 DEF WithChildOf
    <2> QED BY <1>3, <2>1, <2>2, <2>3, TokensKept
  <1>4. ASSUME NEW w \in Workers, NEW d \in Readings, NEW locked \in SUBSET Jobs,
               ClaimNext(w, d, locked)
        PROVE  Tokens'
    <2>1. CASE UNCHANGED worker
      BY <1>1, <1>4, <2>1 DEF ClaimNext
    <2>2. ASSUME NEW j \in Jobs, Sweep(d, locked)[j].status = "queued",
                 job' = [Sweep(d, locked) EXCEPT ![j] = Claimed(Sweep(d, locked)[j], d)],
                 worker' = [worker EXCEPT
                   ![w] = [pc |-> "claimed", job |-> j,
                           claim |-> Claimed(Sweep(d, locked)[j], d).claim]]
          PROVE  Tokens'
      <3>1. \A k \in Jobs : job[k].attempts \in Nat /\ job'[k].attempts \in Nat
                            /\ job'[k].attempts >= job[k].attempts
        BY DEF Rows, JobRow, AttemptsGrow
      <3>2. /\ Sweep(d, locked)[j].attempts = job[j].attempts
            /\ Claimed(Sweep(d, locked)[j], d).claim = job[j].attempts + 1
        BY DEF Sweep, Expired, Released, Claimed
      <3>3. job'[j].attempts = job[j].attempts + 1
        BY <2>2, <3>2 DEF Sweep, Claimed
      <3>4. worker' \in [Workers -> WorkerState] /\ orphans' = orphans
        BY <1>4, <1>t, <2>2, <3>1, <3>2 DEF ClaimNext, WorkerState
      <3>5. Busy(w)' /\ worker'[w].job = j /\ worker'[w].claim = job[j].attempts + 1
        BY <1>t, <2>2, <3>2 DEF Busy
      <3>6. ASSUME NEW v \in Workers, v # w
            PROVE  worker'[v] = worker[v] /\ (Busy(v)' <=> Busy(v))
        BY <1>t, <2>2, <3>6 DEF Busy
      <3>7. ASSUME NEW v \in Workers, v # w, Busy(v)
            PROVE  /\ worker[v].job \in Jobs /\ worker[v].claim \in 1..job'[worker[v].job].attempts
                   /\ <<worker[v].job, worker[v].claim>> # <<j, job[j].attempts + 1>>
        BY <3>1, <3>7, TokensOfBusy
      <3>8. \A o \in orphans' : o \in Jobs \X Nat /\ o[2] \in 1..job'[o[1]].attempts
        BY <3>1, <3>4 DEF Tokens, TokensIssuedOnce
      <3>9. \A v \in Workers : Busy(v)' =>
               worker'[v].job \in Jobs /\ worker'[v].claim \in 1..job'[worker'[v].job].attempts
        BY <3>1, <3>3, <3>5, <3>6, <3>7
      <3>10. ASSUME NEW u \in Workers, NEW v \in Workers, Busy(u)', Busy(v)', u # v
             PROVE  <<worker'[u].job, worker'[u].claim>> # <<worker'[v].job, worker'[v].claim>>
        BY <3>5, <3>6, <3>7, <3>10 DEF Tokens, TokensIssuedOnce
      <3> QED BY <3>4, <3>8, <3>9, <3>10 DEF Tokens, TokensIssuedOnce
    <2> HIDE DEF Readings
    <2> QED BY <1>4, <2>1, <2>2 DEF ClaimNext
  <1>5. ASSUME NEW w \in Workers, NEW d \in Readings,
               \/ FailJob(w, d) \/ FencedOut(w, d) \/ Restart(w) \/ OpenWorkflow(w, d)
               \/ \E i \in Inputs : Complete(w, i, d)
        PROVE  Tokens'
    BY <1>2, <1>5 DEF FailJob, FencedOut, Restart, OpenWorkflow, Complete, Busy
  <1>6. ASSUME NEW w \in Workers, NEW d \in Readings, ClaimLost(w, d) \/ Crash(w)
        PROVE  Tokens'
    BY <1>3, <1>6 DEF ClaimLost, Crash
  <1>7. ASSUME \/ \E j \in Jobs : Enqueue(j) \/ CancelJob(j)
               \/ \E w \in Workers, d \in Readings : Renew(w, d)
               \/ ChildStep \/ Tick \/ (\E o \in orphans : OrphanExit(o)) \/ UNCHANGED vars
        PROVE  Tokens'
    BY <1>1, <1>7 DEF Enqueue, CancelJob, Renew, ChildStep,
                      Checkpoint, RecordOutage, Tick, OrphanExit, vars
  <1>8. 0 \in Readings
    BY TimeAssumption
  <1> QED BY <1>4, <1>5, <1>6, <1>7, <1>8 DEF Next, WorkerStep

-----------------------------------------------------------------------------
(* Stage results *)

\* A stage log under a job with a attempts: committed in the order of claims.
LogInv(log, a) ==
  /\ log \in Seq(Revision)
  /\ \A k \in 1..Len(log) : log[k].by \in 1..a
  /\ \A k, l \in 1..Len(log) : k <= l => log[k].by <= log[l].by

\* A log that was in order stays so when more attempts have been made.
LEMMA LogGrows ==
  ASSUME NEW a \in Nat, NEW b \in Nat, a <= b, NEW log, LogInv(log, a)
  PROVE  LogInv(log, b)
  BY DEF LogInv

\* persist_stage_result under the newest claim keeps a stage log in order.
LEMMA PersistInOrder ==
  ASSUME NEW a \in Nat, a >= 1, NEW log, LogInv(log, a), NEW i \in Inputs
  PROVE  LogInv(Persist(log, i, a), a)
  <1> DEFINE rev == [input |-> i, by |-> a]
             new == Append(log, rev)
  <1>1. CASE Persist(log, i, a) = log
    BY <1>1
  <1>2. CASE Persist(log, i, a) = new
    <2>1. rev \in Revision /\ log \in Seq(Revision) /\ rev.by = a
      BY DEF Revision, LogInv
    <2>2. new \in Seq(Revision) /\ Len(new) = Len(log) + 1 /\ Len(log) \in Nat
      BY <2>1
    <2>3. \A k \in 1..Len(log) : new[k] = log[k] /\ log[k].by \in 1..a
      BY <2>1 DEF LogInv
    <2>4. new[Len(log) + 1] = rev
      BY <2>1
    <2>5. \A k \in 1..Len(new) : k \in 1..Len(log) \/ k = Len(log) + 1
      BY <2>2
    <2>6. \A k \in 1..Len(new) : new[k].by \in 1..a
      BY <2>1, <2>3, <2>4, <2>5
    <2>7. ASSUME NEW k \in 1..Len(new), NEW l \in 1..Len(new), k <= l
          PROVE  new[k].by <= new[l].by
      <3>1. CASE l = Len(log) + 1
        BY <2>1, <2>4, <2>6, <3>1
      <3>2. CASE l # Len(log) + 1
        BY <2>2, <2>3, <2>5, <2>7, <3>2 DEF LogInv
      <3> QED BY <3>1, <3>2
    <2> HIDE DEF new
    <2> QED BY <1>2, <2>2, <2>6, <2>7 DEF LogInv
  <1> QED BY <1>1, <1>2 DEF Persist

Logs ==
  /\ revisions \in [Jobs -> [Stages -> Seq(Revision)]]
  /\ \A j \in Jobs, s \in Stages : LogInv(revisions[j][s], job[j].attempts)

\* A write that passes the fence is made under the newest claim.
LEMMA FencedIsNewest ==
  ASSUME Rows, NEW j \in Jobs, NEW c, NEW d \in Readings, Fence(j, c, d)
  PROVE  c = job[j].attempts /\ c \in Nat /\ c >= 1
  BY DEF Rows, RowInv, JobRow, Fence

\* A step that persists at most one result, under the fence, keeps the logs.
LEMMA OneLog ==
  ASSUME Rows, Rows', AttemptsGrow, Logs, NEW j \in Jobs, NEW s \in Stages,
         NEW c, NEW d \in Readings, Fence(j, c, d), NEW i \in Inputs,
         revisions' = [revisions EXCEPT ![j][s] = Persist(@, i, c)]
  PROVE  Logs'
  <1>1. c = job[j].attempts /\ c \in Nat /\ c >= 1
    BY FencedIsNewest
  <1>2. \A k \in Jobs : /\ job[k].attempts \in Nat /\ job'[k].attempts \in Nat
                        /\ job[k].attempts <= job'[k].attempts
    BY DEF Rows, JobRow, AttemptsGrow
  <1>3. LogInv(Persist(revisions[j][s], i, c), c)
    BY <1>1, PersistInOrder DEF Logs
  <1>4. Persist(revisions[j][s], i, c) \in Seq(Revision)
    BY <1>3 DEF LogInv
  <1>5. revisions' \in [Jobs -> [Stages -> Seq(Revision)]]
    BY <1>4 DEF Logs
  <1>6. ASSUME NEW k \in Jobs, NEW t \in Stages
        PROVE  LogInv(revisions'[k][t], job[k].attempts)
    <2>1. CASE k = j /\ t = s
      BY <1>1, <1>3, <2>1 DEF Logs
    <2>2. CASE ~ (k = j /\ t = s)
      BY <2>2 DEF Logs
    <2> QED BY <2>1, <2>2
  <1> QED BY <1>2, <1>5, <1>6, LogGrows DEF Logs

\* No step appends a result out of the order of claims.
LEMMA LogsStep ==
  ASSUME Rows, Rows', AttemptsGrow, Tokens, Logs, [Next]_vars
  PROVE  Logs'
  <1>1. ASSUME UNCHANGED revisions PROVE Logs'
    <2>1. \A k \in Jobs : /\ job[k].attempts \in Nat /\ job'[k].attempts \in Nat
                          /\ job[k].attempts <= job'[k].attempts
      BY DEF Rows, JobRow, AttemptsGrow
    <2> QED BY <1>1, <2>1, LogGrows DEF Logs
  <1>2. ASSUME NEW j \in Jobs, NEW d \in Readings, NEW c \in 1..job[j].attempts,
               NEW s \in Stages, NEW i \in Inputs, Checkpoint(j, c, s, i, d)
        PROVE  Logs'
    BY <1>2, OneLog DEF Checkpoint
  <1>3. ASSUME NEW w \in Workers, NEW d \in Readings, NEW i \in Inputs, Complete(w, i, d)
        PROVE  Logs'
    <2>1. worker[w].job \in Jobs
      BY <1>3, TokensOfBusy DEF Complete, Busy
    <2>2. /\ Fence(worker[w].job, worker[w].claim, d)
          /\ revisions' = [revisions EXCEPT
               ![worker[w].job][PublicationStage] = Persist(@, i, worker[w].claim)]
      BY <1>3 DEF Complete
    <2> QED BY <2>1, <2>2, StagesAssumption, OneLog
  <1>4. ASSUME NEW w \in Workers, NEW d \in Readings,
               \/ \E locked \in SUBSET Jobs : ClaimNext(w, d, locked)
               \/ OpenWorkflow(w, d) \/ Renew(w, d) \/ ClaimLost(w, d) \/ FailJob(w, d)
               \/ FencedOut(w, d) \/ Crash(w) \/ Restart(w)
        PROVE  Logs'
    BY <1>1, <1>4 DEF ClaimNext, OpenWorkflow, Renew, ClaimLost, FailJob, FencedOut, Crash, Restart
  <1>5. ASSUME \/ \E j \in Jobs : Enqueue(j) \/ CancelJob(j)
               \/ \E j \in Jobs, c \in Nat, d \in Readings : RecordOutage(j, c, d)
               \/ Tick \/ (\E o \in orphans : OrphanExit(o)) \/ UNCHANGED vars
        PROVE  Logs'
    BY <1>1, <1>5 DEF Enqueue, CancelJob, RecordOutage, Tick,
                      OrphanExit, vars
  <1>6. 0 \in Readings /\ \A j \in Jobs : job[j].attempts \in Nat
    BY TimeAssumption DEF Rows, JobRow
  <1> QED BY <1>2, <1>3, <1>4, <1>5, <1>6 DEF Next, WorkerStep, ChildStep

-----------------------------------------------------------------------------
(* Workflows and the invariant *)

Workflows == workflow \in [Jobs -> WorkflowRow] /\ cooldown \in Nat

\* No step takes a workflow row or the cooldown out of its type.
LEMMA WorkflowsStep ==
  ASSUME Workflows, Tokens, [Next]_vars
  PROVE  Workflows'
  <1> USE DEF Workflows
  <1>1. ASSUME NEW j \in Jobs, NEW row \in WorkflowRow,
               workflow' = [workflow EXCEPT ![j] = row], cooldown' = cooldown
        PROVE  Workflows'
    BY <1>1
  <1>2. ASSUME NEW j \in Jobs
        PROVE  /\ Opened(workflow[j]) \in WorkflowRow
               /\ AgedDeadline(workflow[j]) \in WorkflowRow
               /\ [status |-> "queued", deadline |-> None] \in WorkflowRow
               /\ \A st \in Terminal \cup {"queued"} :
                    [workflow[j] EXCEPT !.status = st] \in WorkflowRow
    <2>1. /\ workflow[j] \in WorkflowRow
          /\ workflow[j].deadline # None => workflow[j].deadline \in Nat
      BY DEF WorkflowRow
    <2> QED BY <2>1, TimeAssumption, NoneAssumption DEF Opened, AgedDeadline, WorkflowRow
  <1>3. ASSUME NEW j \in Jobs, CancelJob(j) PROVE Workflows'
    BY <1>1, <1>2, <1>3 DEF CancelJob
  <1>4. ASSUME NEW w \in Workers, NEW d \in Readings,
               \/ OpenWorkflow(w, d) \/ FailJob(w, d) \/ \E i \in Inputs : Complete(w, i, d)
        PROVE  Workflows'
    <2>1. worker[w].job \in Jobs
      BY <1>4, TokensOfBusy DEF OpenWorkflow, FailJob, Complete, Busy
    <2> QED BY <1>1, <1>2, <1>4, <2>1 DEF OpenWorkflow, FailJob, Complete
  <1>5. ASSUME Tick PROVE Workflows'
    <2>1. cooldown' \in Nat
      BY <1>5 DEF Tick
    <2> QED BY <1>2, <1>5, <2>1 DEF Tick
  <1>6. ASSUME NEW w \in Workers, NEW d \in Readings,
               \/ \E locked \in SUBSET Jobs : ClaimNext(w, d, locked)
               \/ Renew(w, d) \/ ClaimLost(w, d) \/ FencedOut(w, d) \/ Crash(w) \/ Restart(w)
        PROVE  Workflows'
    BY <1>6 DEF ClaimNext, Renew, ClaimLost, FencedOut, Crash, Restart
  <1>7. ASSUME \/ \E j \in Jobs : Enqueue(j)
               \/ ChildStep \/ (\E o \in orphans : OrphanExit(o)) \/ UNCHANGED vars
        PROVE  Workflows'
    BY <1>7, TimeAssumption DEF Enqueue, ChildStep, Checkpoint, RecordOutage, OrphanExit, vars
  <1>8. 0 \in Readings
    BY TimeAssumption
  <1> QED BY <1>3, <1>4, <1>5, <1>6, <1>7, <1>8 DEF Next, WorkerStep

\* The parts of the proof and the invariant of JobQueue are the same facts.
LEMMA InvParts == Inv <=> Rows /\ Tokens /\ Logs /\ Workflows
  BY DEF Inv, TypeOK, NewestToken, WindowBounded, AttemptBudget, RevisionsInClaimOrder,
         Rows, RowInv, JobRow, Budget, Tokens, TokensIssuedOnce, Logs, LogInv, Workflows

\* Inv holds initially.
LEMMA InvInit == Init => Inv
  <1> SUFFICES ASSUME Init PROVE Inv
    OBVIOUS
  <1>1. Rows
    <2>1. \A j \in Jobs : Budget(j) = 0
      BY BoundsAssumption DEF Init, Budget
    <2> QED BY <2>1, BoundsAssumption DEF Init, Rows, RowInv, JobRow
  <1>2. Tokens
    BY DEF Init, Tokens, TokensIssuedOnce, Busy, Free, WorkerState
  <1>3. Logs
    BY DEF Init, Logs, LogInv
  <1>4. Workflows
    BY DEF Init, Workflows, WorkflowRow
  <1> QED BY <1>1, <1>2, <1>3, <1>4, InvParts

\* Every step keeps Inv.
LEMMA InvStep == Inv /\ [Next]_vars => Inv'
  <1> SUFFICES ASSUME Inv, [Next]_vars PROVE Inv'
    OBVIOUS
  <1>1. Rows /\ Tokens /\ Logs /\ Workflows
    BY InvParts
  <1>2. Rows' /\ AttemptsGrow
    BY <1>1, RowsStep, TokensOfBusy DEF Tokens
  <1>3. Tokens' /\ Logs' /\ Workflows'
    BY <1>1, <1>2, TokensStep, LogsStep, WorkflowsStep
  <1>4. (Inv <=> Rows /\ Tokens /\ Logs /\ Workflows)'
    BY InvParts, PTL
  <1> QED BY <1>2, <1>3, <1>4

-----------------------------------------------------------------------------
(* Lost claims *)

\* Some reading accepts claim c on this row.
Holds(row, c) == row.status = "running" /\ row.claim = c /\ \E d \in Readings : row.lease > d

Revives == \E j \in Jobs : \E c \in 1..job[j].attempts : Holds(job'[j], c) /\ ~ Holds(job[j], c)

\* No step of the queue makes a claim current that was not.
LEMMA NothingRevives ==
  ASSUME Rows, Tokens, [Next]_vars
  PROVE  ~ Revives
  <1>a. ASSUME NEW j \in Jobs
        PROVE  job[j] \in JobRow /\ job[j].attempts \in Nat /\ job[j].lease \in Int
    BY DEF Rows, JobRow
  <1>u. ASSUME UNCHANGED job PROVE ~ Revives
    BY <1>u DEF Revives
  <1>1. ASSUME NEW k \in Jobs, NEW row, job' = [job EXCEPT ![k] = row],
               \A c \in 1..job[k].attempts : Holds(row, c) => Holds(job[k], c)
        PROVE  ~ Revives
    BY <1>1 DEF Revives, Rows
  <1>2. ASSUME NEW row, NEW st, st # "running" PROVE \A c : ~ Holds(Released(row, st), c)
    BY <1>2 DEF Holds, Released
  <1>3. ASSUME NEW j \in Jobs, Enqueue(j) PROVE ~ Revives
    BY <1>1, <1>3 DEF Enqueue, Holds
  <1>4. ASSUME NEW j \in Jobs, CancelJob(j) PROVE ~ Revives
    BY <1>1, <1>2, <1>4 DEF CancelJob
  <1>5. ASSUME NEW w \in Workers, NEW d \in Readings, NEW locked \in SUBSET Jobs,
               ClaimNext(w, d, locked)
        PROVE  ~ Revives
    <2> DEFINE swept == Sweep(d, locked)
    <2>1. ASSUME NEW j \in Jobs, NEW c PROVE Holds(swept[j], c) => Holds(job[j], c)
      <3>1. ~ Holds(Expired(job[j]), c)
        BY <1>2 DEF Expired
      <3> QED BY <3>1 DEF Sweep
    <2>2. ASSUME NEW j \in Jobs, NEW c \in 1..job[j].attempts
          PROVE  ~ Holds(Claimed(swept[j], d), c)
      BY <1>a DEF Sweep, Expired, Released, Claimed, Holds
    <2>3. swept = [j \in Jobs |-> swept[j]]
      BY DEF Sweep
    <2>4. job' = swept \/ \E j \in Jobs : job' = [swept EXCEPT ![j] = Claimed(swept[j], d)]
      BY <1>5 DEF ClaimNext
    <2> HIDE DEF swept
    <2> QED BY <2>1, <2>2, <2>3, <2>4 DEF Revives
  <1>6. ASSUME NEW w \in Workers, NEW d \in Readings, Renew(w, d) PROVE ~ Revives
    <2> DEFINE k == worker[w].job
               row == [job[k] EXCEPT !.lease = LeaseTime + d]
    <2>1. k \in Jobs
      BY <1>6, TokensOfBusy DEF Renew
    <2>2. Holds(job[k], job[k].claim)
      BY <1>6 DEF Renew, Renewable, Fence, Holds
    <2>3. row.status = job[k].status /\ row.claim = job[k].claim
      BY <1>a, <2>1 DEF JobRow
    <2>4. \A c \in 1..job[k].attempts : Holds(row, c) => Holds(job[k], c)
      BY <2>2, <2>3 DEF Holds
    <2>5. job' = [job EXCEPT ![k] = row]
      BY <1>6 DEF Renew
    <2> HIDE DEF k, row
    <2> QED BY <1>1, <2>1, <2>4, <2>5
  <1>7. ASSUME NEW w \in Workers, NEW d \in Readings,
               FailJob(w, d) \/ \E i \in Inputs : Complete(w, i, d)
        PROVE  ~ Revives
    <2>1. worker[w].job \in Jobs
      BY <1>7, TokensOfBusy DEF FailJob, Complete, Busy
    <2> QED BY <1>1, <1>2, <1>7, <2>1 DEF FailJob, Complete
  <1>8. ASSUME Tick PROVE ~ Revives
    <2>1. ASSUME NEW j \in Jobs, NEW c PROVE Holds(AgedLease(job[j]), c) => Holds(job[j], c)
      <3>1. /\ AgedLease(job[j]).status = job[j].status /\ AgedLease(job[j]).claim = job[j].claim
            /\ AgedLease(job[j]).lease \in Int /\ AgedLease(job[j]).lease <= job[j].lease
        BY <1>a DEF AgedLease, JobRow
      <3>2. \A d \in Readings : d \in Int
        OBVIOUS
      <3> HIDE DEF Readings
      <3> QED BY <1>a, <3>1, <3>2 DEF Holds
    <2> QED BY <1>8, <2>1 DEF Tick, Revives
  <1>9. ASSUME NEW w \in Workers, NEW d \in Readings,
               \/ OpenWorkflow(w, d) \/ ClaimLost(w, d) \/ FencedOut(w, d)
               \/ Crash(w) \/ Restart(w)
        PROVE  UNCHANGED job
    BY <1>9 DEF OpenWorkflow, ClaimLost, FencedOut, Crash, Restart
  <1>10. ASSUME ChildStep \/ (\E o \in orphans : OrphanExit(o)) \/ UNCHANGED vars
         PROVE  UNCHANGED job
    BY <1>10 DEF ChildStep, Checkpoint, RecordOutage, OrphanExit, vars
  <1>11. 0 \in Readings
    BY TimeAssumption
  <1> QED BY <1>3, <1>4, <1>5, <1>6, <1>7, <1>8, <1>9, <1>10, <1>11, <1>u DEF Next, WorkerStep

-----------------------------------------------------------------------------
(* Theorems *)

\* The invariant of JobQueue holds for every number of jobs and workers and
\* every lease, deadline, cooldown and attempt limit.
THEOREM Invariance == Spec => []Inv
  BY InvInit, InvStep, PTL DEF Spec

\* The state always has the types declared for it.
THEOREM TypeCorrect == Spec => []TypeOK
  <1>1. Inv => TypeOK
    BY DEF Inv
  <1> QED BY <1>1, Invariance, PTL

\* Stale workers and orphaned children never append to a stage that a newer
\* claim has written.
THEOREM StaleWritersAreFenced == Spec => []RevisionsInClaimOrder
  <1>1. Inv => RevisionsInClaimOrder
    BY DEF Inv
  <1> QED BY <1>1, Invariance, PTL

\* A claim that no reading accepts any more is never accepted again.
THEOREM LostClaimsStayLost == Spec => LostForGood
  <1>1. Inv /\ [Next]_vars =>
          [\A j \in Jobs : \A c \in 1..job[j].attempts : ~ Current(j, c) => ~ Current(j, c)']_vars
    BY InvParts, NothingRevives DEF Revives, Holds, Current, Fence
  <1> QED BY <1>1, Invariance, PTL DEF Spec, LostForGood

-----------------------------------------------------------------------------
(* The routes of the API *)

\* What the routes have seen: a final state is remembered, and a request in
\* flight was admitted in one.
Seen ==
  /\ request \in [Requests -> RequestState]
  /\ ended \in [Jobs -> SUBSET Terminal]
  /\ \A j \in Jobs : job[j].status \in Terminal => job[j].status \in ended[j]
  /\ \A q \in Requests :
       /\ request[q].pc # "none" => request[q].job \in Jobs
       /\ request[q].pc = "retry" => "failed" \in ended[request[q].job]
       /\ request[q].pc = "delete" => ended[request[q].job] # {}

\* What holds under the routes: the facts of JobQueue, and Seen.
RoutesInv == Rows /\ Tokens /\ Logs /\ Workflows /\ Seen

\* A requeued row has a new window of attempts, whatever it was when the stale
\* load is flushed over it.
LEMMA RequeuedRow ==
  ASSUME NEW row, NEW b \in Int, RowInv(row, b)
  PROVE  /\ RowInv(Requeued(row), b + MaxAttempts)
         /\ Requeued(row).attempts = row.attempts
  <1> DEFINE new == Requeued(row)
  <1>1. /\ row \in JobRow /\ row.attempts \in Nat /\ row.window \in Nat /\ MaxAttempts \in Nat
        /\ row.window <= MaxAttempts /\ row.attempts <= row.window + b /\ MaxAttempts >= 1
    BY BoundsAssumption DEF RowInv, JobRow
  <1>2. /\ new \in JobRow /\ new.attempts = row.attempts /\ new.window = 0
        /\ new.status = "queued"
    BY <1>1 DEF Requeued, JobRow
  <1>3. row.attempts <= 0 + (b + MaxAttempts)
    BY <1>1
  <1> HIDE DEF new
  <1>4. RowInv(new, b + MaxAttempts)
    BY <1>1, <1>2, <1>3 DEF RowInv
  <1> QED BY <1>2, <1>4 DEF new

\* A commit of a route keeps the facts about the rows.
LEMMA RouteRows ==
  ASSUME RoutesInv, NEW q \in Requests, RetryCommit(q) \/ DeleteCommit(q)
  PROVE  Rows' /\ AttemptsGrow
  <1> DEFINE j == request[q].job
  <1>1. j \in Jobs
    BY DEF RoutesInv, Seen, RetryCommit, DeleteCommit
  <1>2. /\ Rows /\ job[j] \in JobRow /\ RowInv(job[j], Budget(j)) /\ Budget(j) \in Int
    BY <1>1, BudgetType DEF RoutesInv, Rows
  <1>3. CASE RetryCommit(q)
    <2>1. /\ job' = [job EXCEPT ![j] = Requeued(job[j])]
          /\ retries' = [retries EXCEPT ![j] = @ + 1]
      BY <1>3 DEF RetryCommit
    <2> HIDE DEF j
    <2> QED BY <1>1, <1>2, <2>1, RequeuedRow, OneMoreWindow
  <1>4. CASE DeleteCommit(q)
    <2> DEFINE row == [job[j] EXCEPT !.status = "deleted"]
    <2>1. job' = [job EXCEPT ![j] = row] /\ retries' = retries
      BY <1>4 DEF DeleteCommit
    <2>2. row.attempts = job[j].attempts /\ RowInv(row, Budget(j))
      BY <1>2 DEF RowInv, JobRow
    <2> HIDE DEF row, j
    <2> QED BY <1>1, <1>2, <2>1, <2>2, OneRow
  <1> QED BY <1>3, <1>4

\* It touches no worker, no result, and one workflow at most.
LEMMA RouteRest ==
  ASSUME RoutesInv, Rows', AttemptsGrow, NEW q \in Requests, RetryCommit(q) \/ DeleteCommit(q)
  PROVE  Tokens' /\ Logs' /\ Workflows'
  <1>1. UNCHANGED <<worker, orphans, revisions, cooldown>>
    BY DEF RetryCommit, DeleteCommit
  <1>2. Tokens'
    <2>1. \A w \in Workers : Busy(w)' <=> Busy(w)
      BY <1>1 DEF Busy
    <2>2. worker' \in [Workers -> WorkerState]
      BY <1>1 DEF RoutesInv, Tokens
    <2> QED BY <1>1, <2>1, <2>2, TokensKept DEF RoutesInv
  <1>3. Logs'
    <2>1. \A k \in Jobs : /\ job[k].attempts \in Nat /\ job'[k].attempts \in Nat
                          /\ job[k].attempts <= job'[k].attempts
      BY DEF RoutesInv, Rows, JobRow, AttemptsGrow
    <2> QED BY <1>1, <2>1, LogGrows DEF RoutesInv, Logs
  <1>4. Workflows'
    <2>1. [status |-> "queued", deadline |-> None] \in WorkflowRow
      BY DEF WorkflowRow
    <2>2. \/ workflow' = workflow
          \/ \E j \in Jobs :
               workflow' = [workflow EXCEPT ![j] = [status |-> "queued", deadline |-> None]]
      BY DEF RoutesInv, Seen, RetryCommit, DeleteCommit
    <2> QED BY <1>1, <2>1, <2>2 DEF RoutesInv, Workflows
  <1> QED BY <1>2, <1>3, <1>4

\* A request that starts has seen its job as the guard wants it, and one that
\* ends is forgotten.
LEMMA SeenStep ==
  ASSUME RoutesInv, Rows', [RoutesNext]_routesVars
  PROVE  Seen'
  <1> USE DEF RoutesInv
  <1> DEFINE Fits(r, e) ==
        /\ r \in RequestState
        /\ r.pc # "none" => r.job \in Jobs
        /\ r.pc = "retry" => "failed" \in e[r.job]
        /\ r.pc = "delete" => e[r.job] # {}
  <1>u. CASE UNCHANGED routesVars
    BY <1>u DEF routesVars, vars, Seen
  <1>n. CASE RoutesNext
    <2> HIDE DEF Terminal
    <2>t. ended' \in [Jobs -> SUBSET Terminal]
      <3>1. \A j \in Jobs : ended[j] \subseteq Terminal
        BY DEF Seen
      <3>2. \A j \in Jobs : ended[j] \cup ({job'[j].status} \cap Terminal) \in SUBSET Terminal
        BY <3>1
      <3> QED BY <1>n, <3>2 DEF RoutesNext
    <2>1. ASSUME NEW j \in Jobs
          PROVE  /\ \A e \in ended[j] : e \in ended'[j]
                 /\ job'[j].status \in Terminal => job'[j].status \in ended'[j]
      BY <1>n DEF RoutesNext
    <2>2. ASSUME NEW q \in Requests
          PROVE  Fits(request[q], ended) /\ Fits(request[q], ended')
      <3>1. Fits(request[q], ended)
        BY DEF Seen
      <3>2. CASE request[q].pc = "none"
        BY <3>1, <3>2
      <3>3. CASE request[q].pc # "none"
        BY <2>1, <3>1, <3>3
      <3> QED BY <3>2, <3>3
    <2>3. Fits(NoRequest, ended')
      BY DEF NoRequest, RequestState
    <2>4. ASSUME NEW q \in Requests, NEW r, Fits(r, ended'), request' = [request EXCEPT ![q] = r]
          PROVE  Seen'
      <3>1. request \in [Requests -> RequestState] /\ r \in RequestState
        BY <2>4 DEF Seen
      <3>2. request' \in [Requests -> RequestState]
        BY <2>4, <3>1
      <3>3. \A p \in Requests : request'[p] = IF p = q THEN r ELSE request[p]
        BY <2>4, <3>1
      <3> HIDE DEF Fits
      <3>4. \A p \in Requests : Fits(request'[p], ended')
        BY <2>2, <2>4, <3>3
      <3> USE DEF Fits
      <3> QED BY <2>t, <2>1, <3>2, <3>4 DEF Seen
    <2>5. ASSUME NEW q \in Requests, NEW j \in Jobs, RetryLoad(q, j) \/ DeleteLoad(q, j)
          PROVE  Seen'
      <3>1. PICK pc \in {"retry", "delete"} :
               /\ Starts(q, pc, j)
               /\ pc = "retry" => job[j].status = "failed"
               /\ job[j].status \in Terminal
        BY <2>5 DEF RetryLoad, DeleteLoad, Retryable, Terminal
      <3> DEFINE r == [pc |-> pc, job |-> j, opened |-> workflow[j].status # "absent"]
      <3>2. request' = [request EXCEPT ![q] = r]
        BY <3>1 DEF Starts
      <3>3. (workflow[j].status # "absent") \in BOOLEAN
        OBVIOUS
      <3>4. r \in RequestState /\ r.pc = pc /\ r.job = j
        BY <3>3 DEF RequestState
      <3>5. job[j].status \in ended'[j]
        <4>1. job[j].status \in ended[j]
          BY <3>1 DEF Seen
        <4> HIDE DEF Fits
        <4> QED BY <2>1, <4>1
      <3> HIDE DEF r
      <3>6. Fits(r, ended')
        BY <3>1, <3>4, <3>5
      <3> HIDE DEF Fits
      <3> QED BY <2>4, <3>2, <3>6
    <2>6. ASSUME NEW q \in Requests, RetryCommit(q) \/ DeleteCommit(q) \/ Refused(q)
          PROVE  Seen'
      <3>1. request' = [request EXCEPT ![q] = NoRequest]
        BY <2>6 DEF RetryCommit, DeleteCommit, Refused, Ends
      <3> HIDE DEF Fits
      <3> QED BY <2>3, <2>4, <3>1
    <2>7. ASSUME UNCHANGED request PROVE Seen'
      <3>1. request' \in [Requests -> RequestState] /\ \A q \in Requests : Fits(request'[q], ended')
        BY <2>2, <2>7 DEF Seen
      <3> QED BY <2>t, <2>1, <3>1 DEF Seen
    <2> QED BY <1>n, <2>5, <2>6, <2>7 DEF RoutesNext, Route
  <1> QED BY <1>u, <1>n

\* Every step is one of the queue, the commit of a route, or touches neither.
LEMMA RoutesCases ==
  ASSUME [RoutesNext]_routesVars
  PROVE  [Next]_vars \/ \E q \in Requests : RetryCommit(q) \/ DeleteCommit(q)
  BY DEF RoutesNext, Route, RetryLoad, DeleteLoad, Starts, Refused, routesVars

LEMMA RoutesStep ==
  ASSUME RoutesInv, [RoutesNext]_routesVars
  PROVE  RoutesInv'
  <1>1. CASE \E q \in Requests : RetryCommit(q) \/ DeleteCommit(q)
    BY <1>1, RouteRows, RouteRest, SeenStep DEF RoutesInv
  <1>2. CASE [Next]_vars
    <2>1. Rows' /\ AttemptsGrow
      BY <1>2, RowsStep, TokensOfBusy DEF RoutesInv, Tokens
    <2>2. Tokens' /\ Logs' /\ Workflows'
      BY <1>2, <2>1, TokensStep, LogsStep, WorkflowsStep DEF RoutesInv
    <2> QED BY <2>1, <2>2, SeenStep DEF RoutesInv
  <1> QED BY <1>1, <1>2, RoutesCases

\* The invariant holds under the API's own interleavings.
THEOREM RoutesInvariance == RoutesSpec => []RoutesInv
  <1>1. RoutesInit => RoutesInv
    <2> SUFFICES ASSUME RoutesInit PROVE RoutesInv
      OBVIOUS
    <2>1. NoRequest \in RequestState /\ NoRequest.pc = "none"
      BY DEF NoRequest, RequestState
    <2>2. Seen
      BY <2>1 DEF RoutesInit, Init, Seen
    <2>3. Rows /\ Tokens /\ Logs /\ Workflows
      BY InvInit, InvParts DEF RoutesInit
    <2> QED BY <2>2, <2>3 DEF RoutesInv
  <1> QED BY <1>1, RoutesStep, PTL DEF RoutesSpec

\* No job is attempted more often in its life than its windows allow, although
\* a retry may requeue a row that is not failed any more, or is being executed.
THEOREM AttemptsAreBudgeted == (Spec => []AttemptBudget) /\ (RoutesSpec => []AttemptBudget)
  <1>1. Inv => AttemptBudget
    BY DEF Inv
  <1>2. RoutesInv => AttemptBudget
    BY DEF RoutesInv, Rows, RowInv, Budget, AttemptBudget
  <1> QED BY <1>1, <1>2, Invariance, RoutesInvariance, PTL

\* No window of a job sees more than max_attempts claims, whatever state a stale
\* retry has requeued it from.
THEOREM WindowsAreBounded == (Spec => []WindowBounded) /\ (RoutesSpec => []WindowBounded)
  <1>1. Inv => WindowBounded
    BY DEF Inv
  <1>2. RoutesInv => WindowBounded
    BY DEF RoutesInv, Rows, RowInv, WindowBounded
  <1> QED BY <1>1, <1>2, Invariance, RoutesInvariance, PTL

\* The fence withstands rows that the routes requeue or delete under a running
\* worker: no stale worker appends to a stage that a newer claim has written.
THEOREM RoutesKeepTheFence == RoutesSpec => []RevisionsInClaimOrder
  <1>1. RoutesInv => RevisionsInClaimOrder
    BY DEF RoutesInv, Logs, LogInv, RevisionsInClaimOrder
  <1> QED BY <1>1, RoutesInvariance, PTL

\* A requeued row keeps its token, but no later claim brings it back: the routes
\* revive no claim either.
THEOREM RoutesReviveNoClaim == RoutesSpec => LostForGood
  <1>1. ASSUME RoutesInv, [RoutesNext]_routesVars PROVE ~ Revives
    <2>1. CASE [Next]_vars
      BY <1>1, <2>1, NothingRevives DEF RoutesInv
    <2>2. ASSUME NEW q \in Requests, RetryCommit(q) \/ DeleteCommit(q) PROVE ~ Revives
      <3> DEFINE k == request[q].job
      <3>1. k \in Jobs /\ job[k] \in JobRow
        BY <1>1, <2>2 DEF RoutesInv, Rows, Seen, RetryCommit, DeleteCommit
      <3>2. PICK row : job' = [job EXCEPT ![k] = row] /\ row.status # "running"
        <4>1. CASE RetryCommit(q)
          <5>1. job' = [job EXCEPT ![k] = Requeued(job[k])]
            BY <4>1 DEF RetryCommit
          <5>2. Requeued(job[k]).status = "queued"
            BY <3>1 DEF Requeued, JobRow
          <5> QED BY <5>1, <5>2
        <4>2. CASE DeleteCommit(q)
          <5>1. job' = [job EXCEPT ![k] = [job[k] EXCEPT !.status = "deleted"]]
            BY <4>2 DEF DeleteCommit
          <5>2. [job[k] EXCEPT !.status = "deleted"].status = "deleted"
            BY <3>1 DEF JobRow
          <5> QED BY <5>1, <5>2
        <4> QED BY <2>2, <4>1, <4>2
      <3> HIDE DEF k
      <3> QED BY <1>1, <3>1, <3>2 DEF RoutesInv, Rows, Revives, Holds
    <2> QED BY <1>1, <2>1, <2>2, RoutesCases
  <1>2. RoutesInv /\ [RoutesNext]_routesVars =>
          [\A j \in Jobs : \A c \in 1..job[j].attempts : ~ Current(j, c) => ~ Current(j, c)']_vars
    BY <1>1 DEF Revives, Holds, Current, Fence
  <1> QED BY <1>2, RoutesInvariance, PTL DEF RoutesSpec, LostForGood

\* A dispatch never moves a workflow's deadline, whoever runs it and however
\* often: only an operator retry of the job clears it.
THEOREM DeadlineIsFixed == RoutesSpec => DeadlineFixed
  <1> DEFINE Keeps(j) ==
        workflow[j].deadline # None =>
          \/ workflow'[j].deadline # None /\ workflow'[j].deadline <= workflow[j].deadline
          \/ workflow'[j].deadline = None /\ retries'[j] = retries[j] + 1
  <1>1. ASSUME RoutesInv, [RoutesNext]_routesVars, NEW j \in Jobs PROVE Keeps(j)
    <2> USE DEF RoutesInv
    <2>t. /\ workflow \in [Jobs -> WorkflowRow] /\ workflow[j] \in WorkflowRow
          /\ workflow[j].deadline # None => workflow[j].deadline \in Nat
          /\ workflow[j].deadline <= workflow[j].deadline \/ workflow[j].deadline = None
      BY <1>1 DEF Workflows, WorkflowRow
    <2>1. ASSUME workflow'[j].deadline = workflow[j].deadline PROVE Keeps(j)
      BY <2>t, <2>1
    <2>2. ASSUME NEW q \in Requests, RetryCommit(q) PROVE Keeps(j)
      <3> DEFINE k == request[q].job
      <3>1. k \in Jobs /\ retries \in [Jobs -> Nat]
        BY <1>1, <2>2 DEF RetryCommit, Seen, Rows
      <3>2. retries' = [retries EXCEPT ![k] = @ + 1]
        BY <2>2 DEF RetryCommit
      <3>3. \/ workflow' = workflow
            \/ workflow' = [workflow EXCEPT ![k] = [status |-> "queued", deadline |-> None]]
        BY <2>2 DEF RetryCommit
      <3> HIDE DEF k
      <3>4. CASE k = j
        BY <2>1, <2>t, <3>1, <3>2, <3>3, <3>4
      <3>5. CASE k # j
        BY <2>1, <2>t, <3>1, <3>3, <3>5
      <3> QED BY <3>4, <3>5
    <2>3. ASSUME NEW k \in Jobs, NEW row \in WorkflowRow,
                 workflow' = [workflow EXCEPT ![k] = row],
                 workflow[k].deadline # None => row.deadline = workflow[k].deadline
          PROVE  Keeps(j)
      BY <2>t, <2>1, <2>3
    <2>4. ASSUME NEW k \in Jobs
          PROVE  /\ workflow[k] \in WorkflowRow
                 /\ Opened(workflow[k]) \in WorkflowRow
                 /\ workflow[k].deadline # None => Opened(workflow[k]).deadline = workflow[k].deadline
                 /\ \A st \in Terminal :
                      /\ [workflow[k] EXCEPT !.status = st] \in WorkflowRow
                      /\ [workflow[k] EXCEPT !.status = st].deadline = workflow[k].deadline
      BY <1>1, TimeAssumption DEF Workflows, WorkflowRow, Opened
    <2>5. ASSUME NEW k \in Jobs, CancelJob(k) PROVE Keeps(j)
      BY <2>1, <2>3, <2>4, <2>5 DEF CancelJob
    <2>6. ASSUME NEW w \in Workers, NEW d \in Readings,
                 \/ OpenWorkflow(w, d) \/ FailJob(w, d) \/ \E i \in Inputs : Complete(w, i, d)
          PROVE  Keeps(j)
      <3>1. worker[w].job \in Jobs
        BY <1>1, <2>6, TokensOfBusy DEF OpenWorkflow, FailJob, Complete, Busy
      <3> QED BY <2>1, <2>3, <2>4, <2>6, <3>1 DEF OpenWorkflow, FailJob, Complete
    <2>7. ASSUME Tick PROVE Keeps(j)
      BY <2>7, <2>t, NoneAssumption DEF Tick, AgedDeadline, WorkflowRow
    <2>8. ASSUME \/ \E k \in Jobs : Enqueue(k)
                 \/ \E q \in Requests : DeleteCommit(q)
                 \/ ChildStep \/ (\E o \in orphans : OrphanExit(o)) \/ UNCHANGED vars
                 \/ \E w \in Workers, d \in Readings :
                      \/ \E locked \in SUBSET Jobs : ClaimNext(w, d, locked)
                      \/ Renew(w, d) \/ ClaimLost(w, d) \/ FencedOut(w, d)
                      \/ Crash(w) \/ Restart(w)
          PROVE  Keeps(j)
      BY <2>1, <2>8 DEF Enqueue, DeleteCommit, ChildStep, Checkpoint, RecordOutage, OrphanExit,
                        ClaimNext, Renew, ClaimLost, FencedOut, Crash, Restart, vars
    <2>9. 0 \in Readings
      BY TimeAssumption
    <2>10. CASE [Next]_vars
      BY <2>5, <2>6, <2>7, <2>8, <2>9, <2>10 DEF Next, WorkerStep
    <2> QED BY <1>1, <2>2, <2>8, <2>10, RoutesCases
  <1>2. RoutesInv /\ [RoutesNext]_routesVars => [\A j \in Jobs : Keeps(j)]_routesVars
    BY <1>1
  <1> QED BY <1>2, RoutesInvariance, PTL DEF RoutesSpec, DeadlineFixed

-----------------------------------------------------------------------------
(* JobRoutes implements JobLifecycle *)

\* Appending a revision appends its claim to the abstract log.
LEMMA BysAppend ==
  ASSUME NEW log \in Seq(Revision), NEW rev \in Revision
  PROVE  Bys(Append(log, rev)) = Append(Bys(log), rev.by)
  <1> DEFINE new == Append(log, rev)
  <1>1. /\ Len(new) = Len(log) + 1 /\ Len(log) \in Nat /\ new[Len(log) + 1] = rev
        /\ \A k \in 1..Len(log) : new[k] = log[k]
    OBVIOUS
  <1>2. /\ Bys(log) \in Seq(Nat) /\ Len(Bys(log)) = Len(log)
        /\ \A k \in 1..Len(log) : Bys(log)[k] = log[k].by
    <2>1. \A k \in 1..Len(log) : log[k] \in Revision
      OBVIOUS
    <2>2. \A k \in 1..Len(log) : log[k].by \in Nat
      BY <2>1 DEF Revision
    <2>3. Bys(log) \in [1..Len(log) -> Nat] /\ \A k \in 1..Len(log) : Bys(log)[k] = log[k].by
      BY <2>2 DEF Bys
    <2> QED BY <1>1, <2>3
  <1>3. rev.by \in Nat
    BY DEF Revision
  <1>4. /\ Append(Bys(log), rev.by) \in Seq(Nat)
        /\ Len(Append(Bys(log), rev.by)) = Len(log) + 1
        /\ Append(Bys(log), rev.by)[Len(log) + 1] = rev.by
        /\ \A k \in 1..Len(log) : Append(Bys(log), rev.by)[k] = log[k].by
    BY <1>2, <1>3
  <1>5. \A k \in 1..Len(new) : new[k].by = Append(Bys(log), rev.by)[k]
    BY <1>1, <1>4
  <1>6. DOMAIN Append(Bys(log), rev.by) = 1..Len(new)
    BY <1>1, <1>4
  <1>7. Append(Bys(log), rev.by) = [k \in 1..Len(new) |-> Append(Bys(log), rev.by)[k]]
    BY <1>4, <1>6
  <1> HIDE DEF new
  <1>8. Bys(new) = [k \in 1..Len(new) |-> Append(Bys(log), rev.by)[k]]
    BY <1>5 DEF Bys
  <1> QED BY <1>7, <1>8 DEF new

\* What a rewritten row does to the abstract view of the table.
LEMMA RowView ==
  ASSUME NEW j \in Jobs, NEW st, NEW n,
         \A k \in Jobs : /\ job'[k].attempts = job[k].attempts
                         /\ job'[k].status = IF k = j THEN st ELSE job[k].status
                         /\ job'[k].window = IF k = j THEN n ELSE job[k].window
  PROVE  /\ Phase' = [Phase EXCEPT ![j] = st]
         /\ Grants' = Grants
         /\ Tries' = [Tries EXCEPT ![j] = n]
         /\ n = job[j].window => Tries' = Tries
  <1>1. Phase' = [Phase EXCEPT ![j] = st]
    BY DEF Phase
  <1>2. Grants' = Grants
    BY DEF Grants
  <1>3. Tries' = [Tries EXCEPT ![j] = n]
    BY DEF Tries
  <1>4. n = job[j].window => Tries' = Tries
    BY DEF Tries
  <1> QED BY <1>1, <1>2, <1>3, <1>4

\* The same for a row that is released into a final status.
LEMMA ReleaseView ==
  ASSUME Rows, NEW j \in Jobs, NEW st, job' = [job EXCEPT ![j] = Released(@, st)]
  PROVE  Phase' = [Phase EXCEPT ![j] = st] /\ Grants' = Grants /\ Tries' = Tries
  <1>1. \A k \in Jobs : job'[k] = IF k = j THEN Released(job[j], st) ELSE job[k]
    BY DEF Rows
  <1>2. \A k \in Jobs : /\ job'[k].attempts = job[k].attempts
                        /\ job'[k].status = IF k = j THEN st ELSE job[k].status
                        /\ job'[k].window = IF k = j THEN job[j].window ELSE job[k].window
    BY <1>1 DEF Released
  <1> QED BY <1>2, RowView

\* A fenced write is a commit on behalf of the latest grant, or no change.
LEMMA LogView ==
  ASSUME Rows, Logs, NEW j \in Jobs, NEW s \in Stages, NEW c, NEW d \in Readings,
         Fence(j, c, d), NEW i \in Inputs,
         revisions' = [revisions EXCEPT ![j][s] = Persist(@, i, c)]
  PROVE  Log' = Log \/ Log' = [Log EXCEPT ![j][s] = Append(@, Grants[j])]
  <1> DEFINE rev == [input |-> i, by |-> c]
  <1>1. c = Grants[j] /\ c \in Nat
    BY FencedIsNewest DEF Grants
  <1>2. revisions[j][s] \in Seq(Revision) /\ rev \in Revision /\ rev.by = c
    BY <1>1 DEF Logs, Revision
  <1>3. CASE Persist(revisions[j][s], i, c) = revisions[j][s]
    <2>1. \A k \in Jobs, t \in Stages : revisions'[k][t] = revisions[k][t]
      BY <1>3 DEF Logs
    <2> QED BY <2>1 DEF Log
  <1>4. CASE Persist(revisions[j][s], i, c) = Append(revisions[j][s], rev)
    <2>1. Bys(revisions'[j][s]) = Append(Bys(revisions[j][s]), c)
      BY <1>2, <1>4, BysAppend DEF Logs
    <2>2. \A k \in Jobs, t \in Stages :
             (k # j \/ t # s) => revisions'[k][t] = revisions[k][t]
      BY DEF Logs
    <2>3. ASSUME NEW k \in Jobs, NEW t \in Stages
          PROVE  Log'[k][t] = IF k = j /\ t = s THEN Append(Log[j][s], c) ELSE Log[k][t]
      <3>1. Log'[k][t] = Bys(revisions'[k][t]) /\ Log[k][t] = Bys(revisions[k][t])
        BY DEF Log
      <3>2. CASE k = j /\ t = s
        BY <2>1, <3>1, <3>2
      <3>3. CASE ~ (k = j /\ t = s)
        BY <2>2, <3>1, <3>3
      <3> QED BY <3>2, <3>3
    <2>4. Log[j] = [t \in Stages |-> Log[j][t]]
      BY DEF Log
    <2>5. [Log[j] EXCEPT ![s] = Append(@, c)] =
             [t \in Stages |-> IF t = s THEN Append(Log[j][s], c) ELSE Log[j][t]]
      BY <2>4
    <2>6. ASSUME NEW k \in Jobs
          PROVE  Log'[k] = IF k = j THEN [Log[j] EXCEPT ![s] = Append(@, c)] ELSE Log[k]
      <3>1. /\ Log'[k] = [t \in Stages |-> Log'[k][t]]
            /\ Log[k] = [t \in Stages |-> Log[k][t]]
        BY DEF Log
      <3>2. CASE k = j
        BY <2>3, <2>5, <3>1, <3>2
      <3>3. CASE k # j
        BY <2>3, <3>1, <3>3
      <3> QED BY <3>2, <3>3
    <2>7. /\ Log' = [k \in Jobs |-> Log'[k]] /\ Log = [k \in Jobs |-> Log[k]]
      BY DEF Log
    <2>8. Log' = [Log EXCEPT ![j] = [Log[j] EXCEPT ![s] = Append(@, c)]]
      BY <2>6, <2>7
    <2> QED BY <1>1, <2>8
  <1> QED BY <1>3, <1>4 DEF Persist

\* The initial states of the queue are initial states of the life cycle.
LEMMA LifecycleInit == RoutesInit => Lifecycle!Init
  BY DEF RoutesInit, Init, Lifecycle!Init, Phase, Grants, Tries, Log, Bys

\* Every step of the queue is a step of the life cycle or changes nothing in it.
LEMMA LifecycleStep ==
  ASSUME RoutesInv, [RoutesNext]_routesVars
  PROVE  [Lifecycle!Next]_(Lifecycle!vars)
  <1> USE DEF Lifecycle!vars, Lifecycle!Terminal
  <1>i. Rows /\ Tokens /\ Logs /\ Seen
    BY DEF RoutesInv
  <1>h. /\ ended' = [j \in Jobs |-> ended'[j]] /\ ended = [j \in Jobs |-> ended[j]]
        /\ \A j \in Jobs : ended'[j] = ended[j] \cup ({job'[j].status} \cap Lifecycle!Terminal)
    <2>1. ended = [j \in Jobs |-> ended[j]]
      BY <1>i DEF Seen
    <2>2. CASE RoutesNext
      BY <2>1, <2>2 DEF RoutesNext
    <2>3. CASE UNCHANGED routesVars
      BY <1>i, <2>1, <2>3 DEF routesVars, vars, Seen
    <2> QED BY <2>2, <2>3
  <1>e. ASSUME NEW new, Phase' = new PROVE Lifecycle!Enters(new)
    <2>1. \A j \in Jobs : new[j] = job'[j].status
      BY <1>e DEF Phase
    <2>2. \A j \in Jobs : ended'[j] = ended[j] \cup ({new[j]} \cap Lifecycle!Terminal)
      BY <1>h, <2>1
    <2>3. ended' = [j \in Jobs |-> ended[j] \cup ({new[j]} \cap Lifecycle!Terminal)]
      BY <1>h, <2>2
    <2> QED BY <1>e, <2>3 DEF Lifecycle!Enters
  <1>f. ASSUME Phase' = Phase PROVE ended' = ended
    <2>1. \A j \in Jobs : job'[j].status = Phase'[j] /\ job[j].status = Phase[j]
      BY DEF Phase
    <2>2. \A j \in Jobs : ended'[j] = ended[j]
      BY <1>f, <1>h, <1>i, <2>1 DEF Seen
    <2> QED BY <1>h, <2>2
  <1>a. ASSUME NEW j \in Jobs
        PROVE  /\ Phase[j] = job[j].status /\ Grants[j] = job[j].attempts
               /\ Tries[j] = job[j].window /\ job[j] \in JobRow
    BY <1>i DEF Phase, Grants, Tries, Rows
  <1>u. ASSUME UNCHANGED job PROVE UNCHANGED <<Phase, Grants, Tries>>
    BY <1>u DEF Phase, Grants, Tries
  <1>v. ASSUME UNCHANGED revisions PROVE UNCHANGED Log
    BY <1>v DEF Log
  <1>1. ASSUME NEW j \in Jobs, Enqueue(j) PROVE Lifecycle!Submit(j)
    <2>1. job[j].status = "absent" /\ job[j].attempts = 0 /\ job[j].window = 0
      BY <1>1, <1>i DEF Enqueue, Rows, RowInv
    <2>2. \A k \in Jobs : /\ job'[k].attempts = job[k].attempts
                          /\ job'[k].status = IF k = j THEN "queued" ELSE job[k].status
                          /\ job'[k].window = IF k = j THEN job[j].window ELSE job[k].window
      BY <1>1, <1>i, <2>1 DEF Enqueue, Rows
    <2>3. Phase' = [Phase EXCEPT ![j] = "queued"] /\ Grants' = Grants /\ Tries' = Tries
      BY <2>2, RowView
    <2>4. Phase[j] = "absent" /\ Log' = Log
      BY <1>1, <1>a, <1>v, <2>1 DEF Enqueue
    <2> QED BY <1>e, <2>3, <2>4 DEF Lifecycle!Submit
  <1>2. ASSUME NEW j \in Jobs, CancelJob(j) PROVE Lifecycle!Cancel(j)
    <2>1. Phase' = [Phase EXCEPT ![j] = "cancelled"] /\ Grants' = Grants /\ Tries' = Tries
      BY <1>2, <1>i, ReleaseView DEF CancelJob
    <2> QED BY <1>2, <1>a, <1>e, <1>v, <2>1 DEF CancelJob, Lifecycle!Cancel
  <1>3. ASSUME NEW q \in Requests, RetryCommit(q) PROVE Lifecycle!Retry(request[q].job)
    <2> DEFINE j == request[q].job
    <2>1. j \in Jobs /\ "failed" \in ended[j]
      BY <1>3, <1>i DEF RetryCommit, Seen
    <2>2. \A k \in Jobs : job'[k] = IF k = j THEN Requeued(job[j]) ELSE job[k]
      BY <1>3, <1>i DEF RetryCommit, Rows
    <2>3. job[j].status # "deleted" /\ Log' = Log
      BY <1>3, <1>v DEF RetryCommit
    <2> HIDE DEF j
    <2>r. /\ Requeued(job[j]).status = "queued" /\ Requeued(job[j]).window = 0
          /\ Requeued(job[j]).attempts = job[j].attempts
      BY <1>a, <2>1 DEF Requeued, JobRow
    <2>4. \A k \in Jobs : /\ job'[k].attempts = job[k].attempts
                          /\ job'[k].status = IF k = j THEN "queued" ELSE job[k].status
                          /\ job'[k].window = IF k = j THEN 0 ELSE job[k].window
      BY <2>2, <2>r
    <2>5. /\ Phase' = [Phase EXCEPT ![j] = "queued"] /\ Grants' = Grants
          /\ Tries' = [Tries EXCEPT ![j] = 0]
      BY <2>1, <2>4, RowView
    <2> QED BY <1>a, <1>e, <2>1, <2>3, <2>5 DEF Lifecycle!Retry, j
  <1>4. ASSUME NEW q \in Requests, DeleteCommit(q) PROVE Lifecycle!Remove(request[q].job)
    <2> DEFINE j == request[q].job
               row == [job[j] EXCEPT !.status = "deleted"]
    <2>1. j \in Jobs /\ ended[j] # {}
      BY <1>4, <1>i DEF DeleteCommit, Seen
    <2>2. row.status = "deleted" /\ row.attempts = job[j].attempts /\ row.window = job[j].window
      BY <1>a, <2>1 DEF JobRow
    <2>3. job' = [job EXCEPT ![j] = row] /\ job[j].status # "deleted" /\ Log' = Log
      BY <1>4, <1>v DEF DeleteCommit
    <2> HIDE DEF row, j
    <2>4. \A k \in Jobs : job'[k] = IF k = j THEN row ELSE job[k]
      BY <1>i, <2>3 DEF Rows
    <2>5. \A k \in Jobs : /\ job'[k].attempts = job[k].attempts
                          /\ job'[k].status = IF k = j THEN "deleted" ELSE job[k].status
                          /\ job'[k].window = IF k = j THEN job[j].window ELSE job[k].window
      BY <2>2, <2>4
    <2>6. Phase' = [Phase EXCEPT ![j] = "deleted"] /\ Grants' = Grants /\ Tries' = Tries
      BY <2>1, <2>5, RowView
    <2> QED BY <1>a, <1>e, <2>1, <2>3, <2>6 DEF Lifecycle!Remove, j
  <1>5. ASSUME NEW w \in Workers, NEW d \in Readings, FailJob(w, d)
        PROVE  Lifecycle!Fail(worker[w].job)
    <2>1. worker[w].job \in Jobs
      BY <1>5, <1>i, TokensOfBusy DEF FailJob
    <2>2. /\ Phase' = [Phase EXCEPT ![worker[w].job] = "failed"]
          /\ Grants' = Grants /\ Tries' = Tries
      BY <1>5, <1>i, <2>1, ReleaseView DEF FailJob
    <2> QED BY <1>5, <1>a, <1>e, <1>v, <2>1, <2>2 DEF FailJob, Fence, Lifecycle!Fail
  <1>6. ASSUME NEW w \in Workers, NEW d \in Readings, NEW i \in Inputs, Complete(w, i, d)
        PROVE  Lifecycle!Succeed(worker[w].job)
    <2>1. worker[w].job \in Jobs
      BY <1>6, <1>i, TokensOfBusy DEF Complete, Busy
    <2>2. Log' = Log \/ Log' = [Log EXCEPT ![worker[w].job][PublicationStage] =
                                                     Append(@, Grants[worker[w].job])]
      BY <1>6, <1>i, <2>1, StagesAssumption, LogView DEF Complete
    <2>3. /\ Phase' = [Phase EXCEPT ![worker[w].job] = "succeeded"]
          /\ Grants' = Grants /\ Tries' = Tries
      BY <1>6, <1>i, <2>1, ReleaseView DEF Complete
    <2> QED BY <1>6, <1>a, <1>e, <2>1, <2>2, <2>3 DEF Complete, Fence, Lifecycle!Succeed
  <1>7. ASSUME NEW j \in Jobs, NEW d \in Readings, NEW c \in 1..job[j].attempts,
               NEW s \in Stages, NEW i \in Inputs, Checkpoint(j, c, s, i, d)
        PROVE  Lifecycle!Commit(j, s) \/ UNCHANGED Lifecycle!vars
    <2>1. UNCHANGED <<Phase, Grants, Tries>> /\ Phase[j] = "running"
      BY <1>7, <1>a, <1>u DEF Checkpoint, Fence
    <2>2. Log' = Log \/ Log' = [Log EXCEPT ![j][s] = Append(@, Grants[j])]
      BY <1>7, <1>i, LogView DEF Checkpoint
    <2> QED BY <1>f, <2>1, <2>2 DEF Lifecycle!Commit
  <1>8. ASSUME NEW w \in Workers, NEW d \in Readings, NEW locked \in SUBSET Jobs,
               ClaimNext(w, d, locked)
        PROVE  \E lost \in SUBSET Jobs :
                  Lifecycle!Revoke(lost) \/ \E j \in Jobs : Lifecycle!Grant(lost, j)
    <2> DEFINE swept == Sweep(d, locked)
               lost == {j \in Jobs : job[j].status = "running" /\ job[j].lease <= d /\ j \notin locked}
    <2>1. ASSUME NEW j \in Jobs
          PROVE  /\ swept[j].status = Lifecycle!AfterRevoking(lost)[j]
                 /\ swept[j].attempts = Grants[j] /\ swept[j].window = Tries[j]
      BY <1>a DEF Sweep, Expired, Released, Lifecycle!AfterRevoking
    <2>2. DOMAIN swept = Jobs /\ swept = [j \in Jobs |-> swept[j]]
      BY DEF Sweep
    <2>3. \A k \in lost : Phase[k] = "running"
      BY <1>a
    <2>4. Log' = Log
      BY <1>8, <1>v DEF ClaimNext
    <2>5. Lifecycle!AfterRevoking(lost) = [j \in Jobs |-> Lifecycle!AfterRevoking(lost)[j]]
      BY DEF Lifecycle!AfterRevoking
    <2> HIDE DEF swept, lost
    <2>6. CASE job' = swept
      <3>1. Phase' = Lifecycle!AfterRevoking(lost)
        BY <2>1, <2>5, <2>6 DEF Phase
      <3>2. Grants' = Grants /\ Tries' = Tries
        BY <2>1, <2>6, <1>a DEF Grants, Tries
      <3> QED BY <1>e, <2>3, <2>4, <3>1, <3>2 DEF Lifecycle!Revoke, lost
    <2>7. ASSUME NEW j \in Jobs, swept[j].status = "queued",
                 job' = [swept EXCEPT ![j] = Claimed(swept[j], d)]
          PROVE  Lifecycle!Grant(lost, j)
      <3>1. \A k \in Jobs : job'[k] = IF k = j THEN Claimed(swept[j], d) ELSE swept[k]
        BY <2>2, <2>7
      <3>2. /\ Claimed(swept[j], d).status = "running"
            /\ Claimed(swept[j], d).attempts = Grants[j] + 1
            /\ Claimed(swept[j], d).window = Tries[j] + 1
        BY <2>1 DEF Claimed
      <3>3. Phase' = [Lifecycle!AfterRevoking(lost) EXCEPT ![j] = "running"]
        BY <2>1, <2>5, <3>1, <3>2 DEF Phase
      <3>4. Grants' = [Grants EXCEPT ![j] = @ + 1] /\ Tries' = [Tries EXCEPT ![j] = @ + 1]
        BY <2>1, <3>1, <3>2 DEF Grants, Tries
      <3>5. Lifecycle!AfterRevoking(lost)[j] = "queued"
        BY <2>1, <2>7
      <3> QED BY <1>e, <2>3, <2>4, <3>3, <3>4, <3>5 DEF Lifecycle!Grant
    <2>8. lost \in SUBSET Jobs
      BY DEF lost
    <2> QED BY <1>8, <2>6, <2>7, <2>8 DEF ClaimNext, swept
  <1>9. ASSUME NEW w \in Workers, NEW d \in Readings, Renew(w, d)
        PROVE  UNCHANGED Lifecycle!vars
    <2> DEFINE j == worker[w].job
               row == [job[j] EXCEPT !.lease = LeaseTime + d]
    <2>1. j \in Jobs
      BY <1>9, <1>i, TokensOfBusy DEF Renew
    <2>2. row.status = job[j].status /\ row.attempts = job[j].attempts /\ row.window = job[j].window
      BY <2>1, <1>a DEF JobRow
    <2>3. \A k \in Jobs : job'[k] = IF k = j THEN row ELSE job[k]
      BY <1>9, <1>i, <2>1 DEF Renew, Rows
    <2> HIDE DEF row, j
    <2>4. UNCHANGED <<Phase, Grants, Tries>>
      BY <2>2, <2>3 DEF Phase, Grants, Tries
    <2> QED BY <1>9, <1>f, <1>v, <2>4 DEF Renew
  <1>10. ASSUME Tick PROVE UNCHANGED Lifecycle!vars
    <2>1. ASSUME NEW j \in Jobs
          PROVE  /\ job'[j].status = job[j].status /\ job'[j].attempts = job[j].attempts
                 /\ job'[j].window = job[j].window
      BY <1>10, <1>a DEF Tick, AgedLease, JobRow
    <2>2. UNCHANGED <<Phase, Grants, Tries>>
      BY <2>1 DEF Phase, Grants, Tries
    <2> QED BY <1>10, <1>f, <1>v, <2>2 DEF Tick
  <1>11. ASSUME NEW w \in Workers, NEW d \in Readings,
                OpenWorkflow(w, d) \/ ClaimLost(w, d) \/ FencedOut(w, d) \/ Crash(w) \/ Restart(w)
         PROVE  UNCHANGED Lifecycle!vars
    BY <1>11, <1>f, <1>u, <1>v DEF OpenWorkflow, ClaimLost, FencedOut, Crash, Restart
  <1>12. ASSUME \/ \E j \in Jobs, c \in Nat, d \in Readings : RecordOutage(j, c, d)
                \/ (\E o \in orphans : OrphanExit(o)) \/ UNCHANGED vars
         PROVE  UNCHANGED Lifecycle!vars
    BY <1>12, <1>f, <1>u, <1>v DEF RecordOutage, OrphanExit, vars
  <1>13. 0 \in Readings /\ \A j \in Jobs : job[j].attempts \in Nat
    BY <1>a, TimeAssumption DEF JobRow
  <1>14. ASSUME NEW w \in Workers, WorkerStep(w)
         PROVE  [Lifecycle!Next]_(Lifecycle!vars)
    <2>1. PICK d \in Readings :
             \/ \E locked \in SUBSET Jobs : ClaimNext(w, d, locked)
             \/ OpenWorkflow(w, d) \/ Renew(w, d) \/ ClaimLost(w, d)
             \/ FailJob(w, d) \/ FencedOut(w, d)
             \/ \E i \in Inputs : Complete(w, i, d)
             \/ Crash(w) \/ Restart(w)
      BY <1>13, <1>14 DEF WorkerStep
    <2>2. FailJob(w, d) \/ (\E i \in Inputs : Complete(w, i, d)) => worker[w].job \in Jobs
      BY <1>i, TokensOfBusy DEF FailJob, Complete, Busy
    <2>3. (\E locked \in SUBSET Jobs : ClaimNext(w, d, locked)) => Lifecycle!Next
      BY <1>8 DEF Lifecycle!Next
    <2>4. FailJob(w, d) \/ (\E i \in Inputs : Complete(w, i, d)) => Lifecycle!Next
      BY <1>5, <1>6, <2>2 DEF Lifecycle!Next
    <2> QED BY <1>9, <1>11, <2>1, <2>3, <2>4
  <1>15. ASSUME ChildStep PROVE [Lifecycle!Next]_(Lifecycle!vars)
    BY <1>7, <1>12, <1>13, <1>15 DEF ChildStep, Lifecycle!Next
  <1>16. ASSUME \E j \in Jobs : Enqueue(j) \/ CancelJob(j)
         PROVE  Lifecycle!Next
    BY <1>1, <1>2, <1>16 DEF Lifecycle!Next
  <1>17. ASSUME NEW q \in Requests, RetryCommit(q) \/ DeleteCommit(q)
         PROVE  Lifecycle!Next
    <2>1. request[q].job \in Jobs
      BY <1>17, <1>i DEF RetryCommit, DeleteCommit, Seen
    <2> QED BY <1>3, <1>4, <1>17, <2>1 DEF Lifecycle!Next
  <1>18. CASE [Next]_vars
    BY <1>10, <1>12, <1>14, <1>15, <1>16, <1>18 DEF Next
  <1> QED BY <1>17, <1>18, RoutesCases

\* The queue with its routes keeps every promise of the life cycle, for any
\* number of jobs, workers, stages and requests: exclusive numbered grants,
\* results only on behalf of the latest grant, bounded attempts, and no
\* requeueing or deletion of a job that had not failed, or ended, before.
THEOREM QueueImplementsLifecycle == RoutesSpec => LifecycleSpec
  <1>1. RoutesInv /\ [RoutesNext]_routesVars => [Lifecycle!Next]_(Lifecycle!vars)
    BY LifecycleStep
  <1> QED BY <1>1, LifecycleInit, RoutesInvariance, PTL DEF RoutesSpec, LifecycleSpec, Lifecycle!Spec

=============================================================================
