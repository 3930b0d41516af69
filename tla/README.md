# Formal models of malg

malg researches B2B accounts autonomously. An HTTP API accepts research jobs, a
durable queue in a SQL database hands them to worker processes, workers run each
research stage in a supervised child process, and results are published to the
Twenty CRM through a journal of write intents. This directory specifies the
parts of that machinery whose correctness depends on the order of steps of
several actors, checks them with TLC on small instances, and proves the central
ones with TLAPS for every instance.

All paths are relative to the repository; line numbers are in `PROJECT.json`
(`map`), which relates every definition to the code it models.

## 1. The system

### Components, their state and operations

| Component | Code | State | Operations |
|---|---|---|---|
| Durable job queue | `src/malg/database/jobs.py`, `research.py` | `research_jobs` (status, claim token, lease, attempt counters), `research_workflows` (deadline, attempts), `research_stage_results` (immutable revisions) | enqueue, claim (with reconciliation of expired claims), renew, fence, complete, fail, cancel, retry, delete; open a workflow; append a checkpoint |
| Worker | `src/malg/worker/service.py` | the job and token it holds, two tasks (execution, renewal) | `run_once`, `_renew_loop`, `_dispatch`, the ICP and account pipelines, `_complete`, `worker_loop` |
| Supervised stage | `src/malg/worker/execution.py`, `service.py` | parent and child process, a pipe, deadlines, the workflow's attempt counters | spawn, poll, terminate, reap; initialize, reserve an attempt, persist, report a failure |
| CRM publication | `src/malg/database/crm_writes.py`, `src/malg/crm/publisher.py` | `crm_write_operations` (status, attempts), the job's `result_refs`, records in Twenty | prepare, mark, record an attempt, reconcile; `_publish`, `reconcile_pending`, `fill_missing`, `match_*` |
| Job API | `src/malg/api/routers/jobs.py` | a session per request, with its identity map | create, retry, cancel, delete, reads |
| Account controller | `src/malg/account_research_controller.py`, `database/` and `api/routers/account_research_controller.py` | one policy row with a revision and a lease | edit the policy, reconcile (keep one matching job queued) |
| Search cache | `src/malg/database/search_cache.py`, `core/web_search.py` | one row per query: response, lease, shared failure | lookup, finish, release, the search loop |
| Pipelines | `src/malg/worker/service.py` | what a claim holds in memory of its candidates and bundles; checkpoints, progress | `_dispatch`, `_account_pipeline`, `_icp_pipeline`, `_research_people`, `_research_opportunities`, `_enrich_record`, `_verify_scope`, `_save_progress`, `_complete` |
| Matching and identity | `src/malg/crm/matching.py`, `identity.py`, `publisher.py` | none of its own: the records Twenty holds | `match_company`, `match_person`, `deterministic_id`, `_identity_match` |
| Reasoning strategy | `src/malg/core/research_strategy.py` | turns, corrections, calls made, URLs observed, an outage | the bounded tool-calling loop |
| Budgets | `src/malg/core/budget.py` | attempts and deadlines of a stage and of its workflow | reserve, checkpoint, deny |
| Retrieval and evidence | `src/malg/core/retrieval.py`, `claims.py` | pages fetched, threads that fetch, measurements; claims | fetch, redirect, finish late; validate, one round of citation repair |
| CRM schema | `src/malg/crm/schema.py`, `__main__.py` | Twenty's metadata, what an inspection has seen | inspect, plan, check, apply |
| Traces | `src/malg/database/traces.py`, `core/agent_tracing.py` | numbered events per run | start, append, finish |
| Others | discovery validator, agents and prompts, memory, statistics, configuration, frontend, deployment | | see "Not modelled" |

### How they interact

* The API and the controller insert rows; workers take them. Everything after
  that is coordinated by **rows**: a worker owns a job as long as the row holds
  its token and the lease has not expired, and every write (`require_claim`)
  locks the row and checks both.
* A worker runs two tasks per job. The renewal task extends the lease and
  **cancels** the execution when it finds the claim lost.
* The execution starts one child per research stage. Child and parent share a
  pipe and the database: the child commits the stage's checkpoint, the parent
  reads it back. An exit code is not a result.
* Publication asks Twenty over HTTP. Requests time out and may take effect
  later, so an intent is journaled before, and reconciled after. Every idle
  worker reconciles everybody's intents.
* Inside the child the language model drives a loop of tool calls; each request
  that leaves it is reserved from the stage's, the workflow's and the claim's
  allowance first, and every tool call is measured once.
* Between the stages the worker matches what was found against the live CRM. A
  claim that ends early leaves checkpoints and intents; the next one starts over
  and decides again from them.
* Searches of all children on all hosts meet in the search cache.
* Jobs are admitted, dispatched and published only while a check of the CRM
  contract passes; operators apply that contract from the command line.

### What is hard here

Lost claims and late writers; orphaned children; leases judged by different
clocks; requests that take effect after their timeout; snapshots used after an
await; ORM sessions that lock a row and then look at an older copy of it;
signals that arrive where nothing is awaited; a replay that must come to the
decisions of an earlier claim over a CRM that has changed; an inspection that
reads several pages of something that moves; and, as a consequence of all
these, the question whether everything that was started ever ends.
`PROJECT.json` (`hazards`) lists each of these at its line, with the properties
that would catch it going wrong, or the reason why no property covers it yet.

### What makes each component correct

* **Queue**: claims of a job are given one after the other, and one that was lost
  stays lost; results are appended in the order of claims; attempts stay within the
  windows of `max_attempts` that operators open; a re-dispatch never extends a
  deadline; every job is settled.
* **Stage**: what the parent returns is what was committed; a checkpoint is
  never replaced; no child works after it was reaped; failures keep their code;
  supervision ends; a workflow's allowance is shared by all its children.
* **Publication**: while the job exists, whatever may still take effect is in the
  journal; resolved intents stay resolved; a confirmed effect is a reference of its
  job; complete means published; what can be settled is settled.
* **Routes**: retry and deletion decide on what they have read before, so their
  decisions need not hold at the commit; the fence, the attempt windows and the
  deadline withstand that.
* **Controller**: it enqueues one job for the policy in force, and goes on doing so.
* **Pipelines**: what is reported is published as a whole; a company is reported
  with one bundle, however often a claim starts over; no identity gets two records,
  unless people change the CRM or an update that was given up arrives after all; at
  most one bundle begins after the parents have changed; a denial that ends the
  research of a job stays its end.
* **Enrichment**: people win every race; what the journal says was observed.
* **Research loop**: what committed research cites was fetched, and what must be
  cited is; a denial ends the stage as one; an outage ends the searching, and a loop
  that then gets nowhere is put down to it; everything is measured once.
* **Schema**: a gate that opens has seen a whole contract of MALG's; nothing foreign is
  adopted; repetition completes it.
* **Search cache**: one request upstream per query; only the newest lease
  publishes; a follower is not left waiting.

## 2. The modules

| Module | Models | Built on |
|---|---|---|
| `JobLifecycle` | what the queue promises: phases, numbered grants, a log of results | |
| `JobQueue` | the queue, workers, stage children as writers of checkpoints, clocks | |
| `JobRoutes` | the queue with retry and delete requests that decide on stale session state | extends `JobQueue`; implements `JobLifecycle` |
| `WriteJournal` | what the journal of CRM writes promises: what was issued, what may still take effect, which outcome is known | |
| `CrmPublication` | journal, publisher, reconciliation, Twenty, people | its jobs are an instance of `JobLifecycle`; implements `WriteJournal` for creates |
| `FieldEnrichment` | one existing record whose empty fields are filled, people who edit it | implements `WriteJournal` for updates |
| `AccountPipeline` | a job from its first stage to its outcome, over several claims | abstracts `StageExecution` and `ResearchLoop` (`Study`), `CrmPublication` (`Prepare`, `Create`, `Confirm`), `FieldEnrichment` (`SendUpdate`, `ApplyUpdate`, `Enrich`) and `JobRoutes` (`Claim`, `Lost`, `Retry`) |
| `StageExecution` | parent, child, pipe, signals, checkpoint | its claims abstract `JobQueue` |
| `ResearchLoop` | what the child does: tool loop, budget, retrieval, evidence, classification of the end | `StageExecution`'s child; its searches abstract `SearchCache` |
| `CrmSchema` | runs of check and apply against Twenty's metadata | |
| `AccountController` | policy row, API edits, reconcilers | its queue abstracts `JobQueue` |
| `SearchCache` | one query's row and the searches that share it | |

`<Module>Proofs.tla` holds the theorems about a module and their proofs. The
theorems about `JobRoutes` are in `JobQueueProofs`, because they rest on the same
lemmas; those about the two components that take turns at a row by leases,
`AccountController` and `SearchCache`, are in `RowLeaseProofs`, which extends both
(hence the names `CacheSpec`, `CacheNext` and so on in `SearchCache`). `JobLifecycle` and
`WriteJournal` are abstract: what is proved is that other modules implement them.

`MC<Module>.tla` and `MC<Module>.cfg`, or `MC<Module>_<run>.cfg` where a module
has two runs, hold the instances. Operators
introduced by a comment "Plausible bug" are not part of a specification: each is
a mutation of the definition after it that some property must detect
(`mutants`).

### Correspondence with the code

**JobQueue.** A function of `jobs.py` that locks the row and decides on what it then
reads is one action; `retry_failed_job` and `delete_job`, which decide on what was read
before, are in `JobRoutes` only. `job[j]` is the row; `claim` represents `claim_token`,
a uuid4, by the `attempt_count` that the same statement sets, so that no property is
about the uniqueness of tokens: the model presupposes it. `lease` stands for
`claim_expires_at - now`, `window` for `attempt_window_count`. `ClaimNext` is the whole claim transaction:
the outage cooldown, the reconciliation of every unlocked expired claim, the oldest
queued row. Other transactions' row locks are the argument `locked` (SKIP LOCKED). Each
host reads its own clock before waiting for the lock: readings differ from the database
time by `d \in -Skew..Skew`. `worker[w]` is what a process remembers, true or not;
`orphans` are children whose parent is gone. `Checkpoint`, `RecordOutage` and `Complete`
are the fenced commits.

**JobRoutes.** `retry_research_job` loads the job, awaits the CRM, then calls
`retry_failed_job` in the same session. SQLAlchemy returns the object the session
already holds, without refreshing it, from a `SELECT ... FOR UPDATE` (no
`populate_existing`), and flushes the attributes that differ from the loaded
ones. `RetryLoad`/`RetryCommit` model that; `DeleteLoad`/`DeleteCommit` model a
read without a lock followed by a DELETE by primary key. There is no other retry or
deletion in the models of the queue. `ended` is history: which final states a job has
been in, and hence what such a request can have seen.

**StageExecution.** Parent states are the points of `run_supervised` and
`_research` between which a child can act: before `poll()`, before
`is_alive()`, in the `finally` clause, before loading the checkpoint. Child
states are the points of `_child_stage_async` at which it awaits something
(`starting`, `working`, `closing`, `reporting`; SIGTERM acts only there) or must
commit (`persisting`, `denied`, `failing`). The claim is JobQueue's, reduced to
"current or not". Which limit or which clock ends a stage is a choice: the
workflow-wide limit is counted, limits local to a stage are part of
`Conclude`, and a deadline may have passed whenever the parent looks.

**CrmPublication.** `worker[w].pc` names the step of `_publish` or
`reconcile_pending` that comes next; transactions and requests are the steps.
`flight` holds create requests that were sent; each may arrive, arrive after its
sender has given up, or vanish. `remote` is what Twenty shows: nothing, a record
with our identity, or a foreign one. In the eyes of `WriteJournal` a write is a job
and a record; its outcome is the intent's status, or "forgotten" once the job has
been deleted (`JournalStatus`), it was issued when its attempt count is positive
(`Issued`), and it may still take effect while a request is in flight or about to be
sent (`Loose`). `ClearDelete` stands for the reads of `delete_job`, of the status and of
the intents, without a lock; `DeleteJob` for its DELETE at any time after them, whatever
the job and its intents have become. `RetryFailedJob` needs only that the job has
failed at some time (`ends`).

**FieldEnrichment.** `worker[w].pc` names the step of `fill_missing`,
`reconcile_pending` or `_enrich_record` that comes next. An update in `flight`
carries the version it was decided on; Twenty applies it only where the filter of
`TwentyClient.fill_missing` still matches (`Admits`), now or later. `known` and
`held` are history: how many edits the sender had seen, and which values the
record has had. What is left of the loop over the fields is `rest`, the set of
places in `Order` it has still to come to; it takes the first (`First`). The model
keeps every status of an intent and its attempts; the values of a field are
"empty", "proposed" and "other", which is what `_contains_value` and
`_empty_value` tell apart. A write of `WriteJournal` is a field here, and nothing is
forgotten.

**AccountPipeline.** `pc` and `mem` are the position and the local variables of
`_dispatch` and its pipelines, lost with the claim; `saved` are the checkpoints by
stage key, `intent` the journal by record id, `companies`, `people`, `records`
what Twenty holds. `Study` is a whole supervised stage with any finding a stage
may commit. The ids of records are tuples made of what `deterministic_id` hashes,
so that two descriptions of one company meet or do not meet as in the code. A
plan's `Rows` are in the order of `publish_account`, and `todo` is the set of
places among them that are still to be published, least first. `Begin` matches the
company again, as `publish_account` does; `Prepare` is `_check` and
`prepare_write`; `Create`, `Confirm` and `PublishFails` are the branches of
`_publish`. `SendUpdate` and `ApplyUpdate` are the updates by which `fill_missing` adds
the identities a record lacks; `Enrich` ends that, and updates that were given up may
stay in `flight`, as may those of a claim that ended. `strays` is history: the identities
that such updates have filled in. `changed` is a fact about the workflow's parents that
nobody takes back in the model. The worker's other tasks are reduced to the ways a claim
ends.

**ResearchLoop.** One action per return from an await of the strategy, the LLM adapter,
the search client, `fetch` and its thread. The model may answer with any call, in any
order, well formed or not. `loop` holds the counters of `RetrievalStrategy.execute`;
`owed` counts tool requests that were begun and not measured. The thread of a cancelled
fetch measures it late (`FetchReturnsLate`): that it gets to do so is due to the end of
`asyncio.run`, which waits for the executor's threads. A claim that is lost when a
search reserves its attempt is an outage (`SearchFails`), since the client takes the
`ValueError` for an answer it cannot parse; elsewhere it ends the stage. `draft` keeps
of a result what `validate_research_evidence` looks at: data, whether the outcome is
sure (complete or partial), an engagement signal, and the pages cited, those of business
fields first. The SDK may wrap the exception of a denial (`Denied` chooses), which is
why the handlers look at `budget.exhausted` too (`Classified`).

**CrmSchema.** An inspection reads page by page, so that other runs and an
administrator act between two pages. A mutation names the objects by the ids its
run has seen; Twenty rejects it when they are gone. The operations of a plan are the
places in the manifest of what the inspection has not seen (`Planned`), and the
loop of `reconcile` takes the first of them (`Due`). A run that is cut off leaves
mutations that may still land. `since` is history: how many changes the administrator had
made when the inspection began on which a run's verdict rests.

**AccountController.** A request holds `loaded`, the copy in its identity map;
`Flushed` is the unit of work's rule that only attributes that differ from the
loaded value are written. Reconcilers lock the row; between `SeesEmpty` and
`Insert` they hold the lock, and the job table can change.

**SearchCache.** `lookup` is split where another transaction can come in between
its read and its conditional UPDATE. Cancellation is modelled where the code
runs statements in threads, which cannot be cancelled: inside `lookup`
(`ClaimForNobody`) and inside `finish` (`CancelFinish`, after which release and
publication run beside each other).

## 3. What is checked

| Run | Shows | Bounds |
|---|---|---|
| `queue_one_job` | results are in the order of claims and lost claims stay lost, over several expiries and claims | 1 job, 2 workers, 2 stages, 2 inputs, 3 attempts, lease 2, skew 1 |
| `queue_two_jobs` | every job ends, although one claim transaction reconciles several claims and takes another job | 2 jobs, 2 workers, 1 stage, 2 attempts, lease 1, no skew |
| `routes_fence` | attempt windows, result order, lost claims and deadlines survive stale retries and deletions of running jobs; the queue with its routes implements `JobLifecycle` | 1 job, 2 workers, 2 stages, 2 inputs, 2 requests, 1 attempt, 2 retries, lease 2, skew 1 |
| `crm_one_record` | journal, references and completeness under every interleaving of two workers, people and late requests; the publication implements `WriteJournal` | 1 record, 2 workers, 2 claims, 1 HTTP retry, 1 edit |
| `crm_two_records` | partial publication (Company, then Membership) over two executions; reconciliation settles what it can | 2 records, 1 worker, 2 claims, 2 edits |
| `enrichment` | people win every race against late and repeated updates; the journal says what was observed; the enrichment implements `WriteJournal` | 1 field, 2 workers, 2 claims, 1 HTTP retry, 2 edits |
| `pipeline` | bundles are whole and one per company; duplicates arise from late updates and from people only; the scope window; denials stay | account, ICP and campaign jobs; 2 descriptions of one company, with its page and without, 2 of one person, 2 of one ICP, 1 record of others for the same company, known by the page only; 2 companies wanted, 2 candidates, 1 person and opportunity each, 2 claims, 1 edit |
| `research_loop` | what a stage commits cites what it has fetched, denials end the stage, outages end the searching, everything is measured once | 2 URLs, 2 queries, 3 turns, 2 calls a response, allowance of 3 calls, 3 LLM, 2 search and 2 fetch attempts, 1 LLM retry, 2 claims |
| `stage_execution` | two executions of one stage, the first perhaps an orphan; supervision ends although the child may hang | 2 claims, a workflow limit of 1 attempt |
| `controller` | the controller acts only on the policy in force, once, and goes on after deaths and errors | 2 configurations, 2 requests, 2 reconcilers, 2 leases, 2 revisions, 1 failure |
| `search_cache` | one request upstream, the newest lease publishes, no search waits for ever | 3 callers, 1 search each |
| `schema` | the gate is wrong only if the administrator acts during or after its last inspection; nothing foreign is adopted, repetition completes the contract | 2 objects on 2 pages, 1 relation, 2 runs, 1 mishap, 2 changes by an administrator |

### Observations

Behaviours of the code that the models contain and a maintainer may want to know.
The properties that are checked allow for them; where that makes a property weaker
than a docstring or than what one would expect, it is said here.

* Queue and routes. A retry that awaited the CRM requeues a job that has been
  requeued, run or cancelled since (`RetryCommit`): the row it locks is the object
  its session loaded before. It then leaves the claim columns as they are, so that a
  queued row can carry a claim token, and clears the deadline of a job that has not
  failed. A deletion removes a job that was requeued after its status was read
  (`DeleteCommit`), also one whose publication has begun since. "Requeue one failed job"
  and "Delete terminal work only after every remote write is resolved" (docstrings of
  `retry_failed_job` and `delete_job`) are therefore true of what the requests have
  read, not of what they change: succeeded and cancelled are not final, and
  `JobLifecycle` promises no more than that a job which is requeued once failed and one
  that is removed once ended, and `WriteJournal` allows a write to be forgotten at any time.
* Controller. `put_configuration` checks `enabled` before it awaits the CRM, so it
  can replace the configuration of a policy enabled meanwhile (`PutCommit`). Two
  state changes with the same revision both succeed, and the one that equals the
  loaded value writes nothing (`PatchCommit`).
* Stage. A child with nothing left to await commits its result after SIGTERM, and
  the parent reports an exhausted budget over it (`Persist`, `DenyInParent`); the
  next execution finds the checkpoint.
* Publication. `reconcile_pending` of an idle worker cancels an intent that was
  prepared and never attempted while its job waits to be retried; the retry then
  fails on that record every time (`Sweep`, then `Prepare`).
* Enrichment. A field whose intent was prepared by a claim that died is prepared
  again with the version the next claim has read. If anything else about the
  record has changed, that is another intent under the same identity, and
  `prepare_write` raises `CrmWriteConflict` on every later claim. A field whose
  retries ran out without an answer stays "prepared" (`GiveUp`), which keeps its
  job from being deleted until a reconciliation finds a value.
  An update that is given up after its last retry raises nothing, and the
  enrichment goes on to the next field and the pipeline to the next record; the
  update may still be applied.
* Research loop. After an outage a stage that ends because of its turns or its
  context ends as an exhausted budget, one whose model fails ends as failed, and one
  whose proposal is discarded for its citations commits insufficient evidence: only a
  finish without data and the idle limit raise the provider's failure. That is less
  than "If known evidence cannot produce a result, the provider failure propagates for
  retry" (`docs/technical-guide.md`), and `OutageContained` says no more than the
  code does.
* Research loop. A result with data that is neither complete nor partial, such as one
  that needs review, is committed without any citation if it proposes none:
  `validate_research_evidence` misses observations only of a complete or partial
  outcome or of an engagement signal (`Bare`).
* Research loop. A fetch that was rejected because its URL had not been observed counts
  as made, so that it stays a repetition after the URL is observed.
* Pipelines. A claim that starts over may lose bundles an earlier one has reported
  as progress. With two tries per company (the code makes `target * 3` for people and
  `target * 2` for opportunities): the opportunity stage of candidate 0 ends with a
  limit, so that its person is published at candidate 1 and the claim is lost; the
  replay finds that person at candidate 0 doubtful, studies another, is denied, and
  the job completes as "budget_exhausted" without bundles. Two people of one name in
  one bundle have the same effect. `OneBundlePerCompany` says what does hold: a
  company that is reported again is reported with the same records.
* Pipelines. A denial of a people or opportunity stage does not always stay the end
  of a job's research, since what comes before it depends on the CRM. With two people
  per company: candidate 0 is skipped because its two people share a profile link,
  candidate 1 publishes the same company with two people that have none, and the
  opportunity stage of candidate 2 is denied. The next claim matches both people of
  candidate 0 and adds the link to them; a person of candidate 2 with that link is
  doubtful now, so that candidate 2 is skipped before its denied stage, and candidate
  3 is researched under the new allowance. `DenialSticks` is therefore about the
  stages before the CRM is asked (discovery and validation of a candidate).
* Pipelines. A deadline that passes inside `match_person` is taken for a limit of
  one candidate, which is then dropped; after a retry a later claim takes that
  candidate up again. A denial that reaches `run_once` completes the job as
  "budget_exhausted" without bundles although some are published. The same
  company, described with other facts by a second candidate, finds the intent of
  the first and fails with `CrmWriteConflict` on every claim; the same company
  without differences is counted twice. `_research_people` tells planned people
  apart by the id of their record only (`service.py:1488`), and a person matched
  by name keeps the id of the record that was found: with more than one person per
  company (`PerCompany` = 2) a bundle can hold two records with one profile link,
  one of them found by name and enriched, the other created. `NoDuplicates`
  therefore excepts two people of one company if `PerCompany` is larger than 1.
* Pipelines. Two records of one identity also come from `fill_missing`. Its update of
  a company's domain or link, or of a person's link, is given up silently, or its claim
  ends; another description with that identity matches nothing and creates a record; the
  first update is then applied. `NoDuplicates` excepts the identities for which that can
  have happened (`strays`), and no others: with one person per company, as in the run
  and by default, there is no further way as long as people leave the CRM alone.
* Pipelines. Two ICPs that differ in their names only are one record, and the second one
  fails likewise.
* Schema. An inspection torn by another apply can see a relation without its
  inverse and report a conflict although nothing is foreign.

### Bounds, and why they are enough

Two actors of a kind are what most hazards need: an old owner and a new one, a reader
that is overtaken and the one that overtakes it. Three callers are used for the search
cache, where an owner, its successor and a follower meet. Three attempts make an expiry
that requeues follow another one before the last one fails the job; with one attempt and
two retries the routes open a second and a third window, each of which may be spent
under a worker that still believes in an earlier one; a skew of 1 against a lease of 2
lets two hosts disagree about a lease that is neither fresh nor long over. One HTTP
retry separates "try again" from "give up". Counters that the code does not bound
(leases, revisions, edits, retries, searches, failures) are bounded by the constants
commented "bound", in the guards of the actions that advance them; `Replenished` says so
where it counts, because a reconciler without leases left can do nothing. Two revisions
of the policy allow more edits than two: an edit that was loaded before another one was
committed sets the revision back, so that policies are disabled, replaced and repeat a
revision while a reconciler waits.

In the pipeline two claims make one replay; two candidates make one dropped and
one published, or two that are the same company; the record of others, known by the
company's page only, makes ambiguity and, while its domain is being filled in, a second
record of the company. In the research
loop three turns hold a first one, one after an outage or a correction, and the
last one that offers only `finish`; two calls a response let an outage fall
between them; two fetch attempts allow one redirect or a second page. One field
is enough for enrichment: fields have intents of their own and share only the
record's version, which edits elsewhere move as well (`EditElsewhere`).

Liveness is checked where it costs little: with one workflow attempt, one search
per caller, no skew and no HTTP retry. Those dimensions belong to the safety
runs of the same module, where there is one, and have no part in the question
whether something ends.

Symmetry is used only for sets whose elements nothing orders, and in no run
that checks liveness.

Deadlock checking is off everywhere: in every module the system may come to rest
(all jobs settled, all counters used up), and what must not come to rest is the
subject of the liveness runs.

### Fairness, and why the code justifies it

* `JobQueue`: the clock advances; a dead worker is restarted (a container with a
  restart policy); `worker_loop` polls; an execution ends, since every await is
  an HTTP call with a timeout or a child supervised up to the deadline; the
  renewal loop runs. Nothing is assumed of children or operators, and a worker
  may crash at any time. A claim is fair only when no other transaction holds
  a lock, as those are short.
* `CrmPublication`: a worker proceeds (weak); it surveys, and Twenty answers,
  again and again (strong), since an outage that never ends can settle
  nothing; no operation of a snapshot is passed over for ever, since the code
  iterates over it.
* `StageExecution`: the parent proceeds (weak); a deadline passes for a parent
  that looks at the clock again and again (strong). Nothing is assumed of the
  child.
* `AccountController`: `controller_loop` polls, leases and retry times pass.
* `SearchCache`: a search that is not cancelled goes on, and leases expire.
* `CrmSchema`: a run goes on and Twenty handles what was sent (weak); one runner
  starts to apply again and again (strong), as the guide has the schema Job
  repeated and a second apply report no operations. Mishaps are bounded, and
  nothing is assumed of the other runs or of the administrator.

## 4. What is proved

Every invariant, action property and refinement that a run checks is a theorem of its
specification for every value of the constants; only liveness is left to TLC. Each
proof has the same shape: the conjunction `IInv` (`Inv` in
`JobQueueProofs`) is inductive, and the properties follow from it or from one of
its steps. The parts of an invariant are named where they are defined, and each
action has a lemma or a step of its own.

| Module | Theorem | States |
|---|---|---|
| `JobQueueProofs` | `StaleWritersAreFenced` | `RevisionsInClaimOrder` of `JobQueue` |
| | `LostClaimsStayLost` | `LostForGood` of `JobQueue` |
| | `WindowsAreBounded` | `WindowBounded`, of `JobQueue` and of `JobRoutes` |
| | `AttemptsAreBudgeted` | `AttemptBudget`, of `JobQueue` and of `JobRoutes` |
| | `DeadlineIsFixed` | `DeadlineFixed` of `JobRoutes` |
| | `RoutesKeepTheFence` | `RevisionsInClaimOrder` of `JobRoutes` |
| | `RoutesReviveNoClaim` | `LostForGood` of `JobRoutes` |
| | `QueueImplementsLifecycle` | `RoutesSpec => LifecycleSpec`: the queue with its routes refines `JobLifecycle` |
| `CrmPublicationProofs` | `RequestsAreJournaled` | `Journaled` |
| | `ConfirmationsAreReferenced` | `ConfirmedReferenced` |
| | `CompletionIsHonest` | `CompleteMeansPublished` |
| | `ResolutionsAreFinal` | `IntentsFinal` |
| | `JournalIsKept` | `Spec => JournalSpec`: the publication refines `WriteJournal` |
| `StageExecutionProofs` | `TypeCorrect` | `TypeOK`, with the workflow's allowance |
| | `ResultsAreDurable` | `ResultIsDurable` |
| | `ReapedChildrenAreDead` | `NoWorkAfterReap` |
| | `FailuresAreReported` | `FailureReported` |
| | `CheckpointsAreImmutable` | `CheckpointImmutable` |
| `RowLeaseProofs` | `OneJobWaits` | `OneFreshJob` of `AccountController` |
| | `OnlyThePolicyIsServed` | `PolicyInForce` of `AccountController` |
| | `QueriesAreAskedOnce` | `SingleFlight` of `SearchCache` |
| | `NewestLeasePublishes` | `PublishedByNewestLease` of `SearchCache` |
| `FieldEnrichmentProofs` | `OutcomesAreObserved` | `OutcomesObserved` |
| | `PeopleAlwaysWin` | `PeopleWin` |
| | `JournalIsKept` | `Spec => JournalSpec`: the enrichment refines `WriteJournal` |
| | `UpdatesAreAccounted` | `Accounted` of `WriteJournal`, drawn from that refinement |
| `ResearchLoopProofs` | `EndsAreHonest` | `HonestEnd` |
| | `RequestsAreMeasuredOnce` | `MeasuredOnce` |
| | `OutagesAreContained` | `OutageContained` |
| `AccountPipelineProofs` | `ReportedBundlesAreWhole` | `BundlesPublished` |
| | `OneBundleIsOvertaken` | `ScopeWindow` |
| | `IdentitiesAreNotDuplicated` | `NoDuplicates`, if `StrangersDiffer` |
| | `CompaniesHaveOneBundle` | `OneBundlePerCompany`, if strangers' ids are their own |
| | `DenialsStick` | `DenialSticks` |
| `CrmSchemaProofs` | `GatesAreSound` | `GateSound` |
| | `NothingForeignIsAdopted` | `ForeignUntouched` |

`Invariance`, in every module, is the theorem that the inductive invariant
holds, and `TypeCorrect` that the type invariant does (`AccountPipeline` has none
of its own: `Shaped` says what the proof needs). `RoutesInvariance` is
`Invariance` for `JobRoutes`, `CacheInvariance` for `SearchCache`.

`WindowBounded` and `IntentsFinal` are theorems only: the run of the routes checks
`AttemptBudget`, and that of the publication `JournalSpec`, which says that outcomes
are final and more.

### Assumptions

The constants are of the kind their comments say: bounds and limits are natural
numbers, counts that must be positive are, `None` and `NoUrl` are not among what
they stand beside, a plan or an order of fields is a non-empty sequence. Beyond
that:

* `JobQueue`: finitely many jobs, and `LeaseTime > Skew`, since a lease that a
  claimer could itself see expired would be no lease.
* `AccountPipeline`: `StrangersDiffer`, a hypothesis of `IdentitiesAreNotDuplicated`
  only. The companies Twenty has before the job are finitely many, and no two of
  them share an identity: if they did, `NoDuplicates` would be false before the job
  has done anything.
* `AccountPipeline`, for `CompaniesHaveOneBundle` only: no company Twenty has before
  the job has an id that MALG gives to a membership. Both are UUIDs, and MALG's are
  hashes of its own namespace.

The bounds in the guards (claims, retries, edits, revisions) are natural numbers of
any size, so that the theorems hold for all executions in which those counters
are finite.

### The arguments, and why the invariants are needed

**Queue.** The order of revisions is not inductive: a fenced writer appends under the
newest claim there is only because a running row carries the token that was issued last
(`NewestToken`), and because no worker or orphan remembers one that was never issued
(`TokensIssuedOnce`). A claim that was lost stays lost because the only step that makes
a row running again issues a token no earlier claim has, and because a renewal asks for
everything the fence asks for. The retry window needs `window < MaxAttempts` for every
queued row, which expiry and retry must establish. The lemmas go from one row
(`ReleasedRow`, `ExpiredRow`, `ClaimedRow`, `AgedRow`) to the table (`RowsStep`,
including that attempts only grow), to the workers' memory (`TokensStep`) and the log
(`LogsStep`).

**Routes.** A stale retry flushes columns over a row that is running, so a queued row
can still have its claim. `RoutesInv` is the part of the invariant that survives that:
tokens and log rely only on `attempt_count` never falling, which no route writes, and
the budget is kept because a retry opens a whole window whatever the row was. The
refinement of `JobLifecycle` is of this specification. It maps a row to its status,
`attempts` to grants, `window` to tries, the log to the claims in it and `ended` to the
history of final states; that a request in flight has seen one of these states, which
the row may have left since, is what carries its commit to the abstract `Retry` and
`Remove`.

**Publication.** Neither `Journaled` nor `CompleteMeansPublished` rests on the fence: a
request leaves, and an outcome is committed, after the claim may have been lost.
Both rest on the journal only growing until its job is deleted, which may happen at any
time once the reads of `delete_job` have passed: attempt counts do
not fall, an attempted intent is never cancelled, a confirmed one stays so.
`Requested` and `Working` say what requests and workers remember in that form,
and `Grows` carries them over every step.

**Journal.** That publication and enrichment implement `WriteJournal` is shown step by
step: a change of an intent is one of `Intends`, `Issues` and `Resolves`, which are
steps of the abstract journal (`JournalMoves`); a request that arrives, is answered
or vanishes is its `Land` or, when another request of the same write is still under
way, nothing (`LooseMoves`, `Landed`); the deletion of a job is its `Forget`. All
other steps stutter (`QuietSteps`). The invariant of the safety proofs does not
suffice: a worker that attempts or marks a write must have an intent, which
`prepare_write` found or made several steps before (`Found`). In the publication
that is true only until the job is deleted; the fence then keeps the worker from
the journal. A cancelled write was never issued because `reconcile_write` looks at
the attempt count under the lock (`Cancellable`), not at the snapshot's.

**Stage.** A parent and its child share a pipe and a life, and nothing with those of
other claims but the job and its checkpoint. `Paired` relates the two, `Channel`
by cases on what the pipe holds while somebody listens: that a failure keeps its
code needs the report to be in the pipe, or read, whenever the exit can be
seen. `Backed` relates an outcome to the checkpoint, which is written once.

**Controller.** Both properties are about the moment a job is enqueued, but what makes
them true happened when the row was locked. `Reserved` says what the lock keeps:
the row is still the one the reservation was made for, and no job of the
controller waits. `Pending` is about the sessions' snapshots: a row is enabled only
with a configuration because a flush leaves alone an attribute that equals the
loaded one.

**Search cache.** No step compares two callers; each compares its token with the
row's. `TokensDiffer` says that tokens are issued once, `Bearer` that a caller whose
lease has not expired is the one the row names.

**Enrichment.** Neither property rests on the job or its claims. `Fresh`: what was read
under the version the record still has knows of every edit. `Seen`: what was
once read stays in the history of the record while the worker goes on with it.

**Research loop.** Each thing that must be true at the end is followed from the step at
which it is decided: a denial ends the stage at once (`Bounded`), an outage leaves no
step that searches and no proposal without data (`Contained`), a result is kept only if
what it cites was fetched and what it must cite is there (`Honest`), and what is owed is
what a tool, or a thread that a cancellation has left behind, is still at (`Tooled`).

**Pipelines.** A bundle is whole because what is off the list `todo` has been found in
Twenty under the id the bundle names, by this claim or an earlier one (`Underway`),
and because no intent changes the data it was prepared with: an opportunity whose
intent is of an earlier claim names the person of this one. No identity has two
records because a plan, once made, stays what the CRM is searched for (`Aimed`): from
the search to the creation only the plan's own records appear, a record under the
id of a person has what identifies the person (`Identified`), and an identity that
is filled in while the plan is being published belonged to nobody. One that is filled in
later is a stray from that step on, so that whatever it comes to share is excepted
(`ApplyKeeps`, `StrayKeeps`). This half of the invariant is under the condition
that nobody has edited the CRM (`Unedited`); `Listed` is what holds in any case.

A company has one bundle because nothing in a bundle is the claim's own choice once
the first opportunity of the company has an intent: its records are functions of
the company's id and of the people the intents name (`Told`), and an intent never
changes its data. `Owned` says that of every bundle reported or held, so that two
bundles with one company are equal without any comparison of the claims they come
from. A denial sticks because checkpoints are never replaced and a claim comes past
a candidate only over accepted ones: `Ordered` says that the stages of a candidate
are checkpointed in their order, and that no denial that ends the research lies
behind the index of the claim at hand.

**Schema.** Nothing foreign is adopted because an object's id is never used again.
`Sure`: whoever remembers the id an object still has remembers its present owner,
however many deletions and creations lie between; `Meant`: a mutation that was sent,
perhaps by a run that is gone, names only ids of objects that were seen to be MALG's.
The gate is sound because, while no administrator acts, metadata only grow: what an
inspection has seen on its pages since `since` is still so at its end (`Trusts`), and
what it has not seen is absent from its view, which `IsComplete` asks for element by
element. What the administrator made before that is in the view, and what is foreign
there is a conflict.

### Only model-checked

* Liveness, everywhere: `EveryJobSettles`, `PendingSettles`, `SearchEnds`,
  `StageEnds`, `Replenished`, `Converges`. Reasoning about fairness and `ENABLED`
  is out of the prover's reach.
* Nothing else that a run checks. Stronger forms of two properties are false, and the
  observations in section 3 tell the executions that show it: that a replay comes to
  the same bundles, and that every denial stays the end of the research.

`StageExecution`'s type invariant is part of its run, since it states the
allowance. The other type invariants are theorems only, and left out of the runs.

## 5. What is not modelled

* Traces and statistics of tools: records for people to read, written best-effort;
  no component decides anything from them. That every request is measured once is
  `ResearchLoop`'s.
* Agent memory: one document store, one transaction per operation.
* The discovery types and their transition validator, which only tests call.
* Text processing and I/O: parsing and excerpting of pages, canonical URLs,
  normalized search results, classification of engine messages, prompts, request
  construction, the projection of CRM records. They have no state that several
  actors change; where a decision depends on them, the model chooses.
* Pacing of searches and of HTTP retries: the models have no durations except the
  queue's leases and deadlines.
* Read-only queries, API wiring and authentication, configuration, Eurostat,
  frontend, migrations, containers. `PROJECT.json` lists each.
* In the pipelines: the feedback that rejected candidates give to later stages and
  the discoveries reused as leads (what research says is a choice in any case);
  the contract gate before a dispatch, which is a check of `CrmSchema`; the different
  outcomes of a campaign's only stage; more than one edit in the CRM; a retry that takes
  effect after another one (`JobRoutes` and `CrmPublication` have it).
* Database failures other than a rollback of the transaction at hand.

## 6. Plan

The order is by what goes wrong most expensively.

1. Done: `JobLifecycle`, `JobQueue`, `CrmPublication`, `JobRoutes`,
   `StageExecution`, `AccountController`, `SearchCache`, `AccountPipeline`,
   `FieldEnrichment`, `ResearchLoop`, `CrmSchema`.
2. Done: the proofs of section 4, with the refinements of `JobLifecycle` and
   `WriteJournal`.
3. Open: an abstract single-flight register for the search cache and an abstract stage
   that ends once, refined by `SearchCache` and `StageExecution`, on which
   `AccountPipeline` and `ResearchLoop` could be built instead of abstracting the two
   by hand; `AccountPipeline` with its intents as a third implementation of
   `WriteJournal`.
4. Open: more than one change of the CRM in the pipeline's run, and two attempts per
   company, when the state space allows it (the theorems hold for both).

## 7. Running

    tlc -workers 2 -config MCJobQueue_one.cfg MCJobQueue.tla
    tlapm JobQueueProofs.tla

and likewise for the other configurations and the other `*Proofs` modules.

Every run takes about four minutes or less on two cores.
