------------------------- MODULE AccountController -------------------------
(***************************************************************************)
(* The account-research controller: a singleton policy row that the API    *)
(* edits (src/malg/api/routers/account_research_controller.py) and that a  *)
(* reconciler in every API process reads to keep one matching job queued   *)
(* (src/malg/account_research_controller.py and                            *)
(* src/malg/database/account_research_controller.py).                      *)
(*                                                                         *)
(* A reconciler works under a row lock; the API routes do not: they load   *)
(* the row, check it, and at commit write, without a version check, the    *)
(* attributes whose new value differs from the loaded one (SQLAlchemy's    *)
(* unit of work).  Between a load and its commit other transactions run:   *)
(* put_configuration even awaits the CRM there.                            *)
(***************************************************************************)
EXTENDS Integers, FiniteSets

CONSTANTS
  Configs,      \* request payloads a policy may name
  Requests,     \* API requests that may be in flight together
  Reconcilers,  \* API processes that run controller_loop
  None,         \* SQL NULL
  MaxRevision,  \* bound: revisions of the policy
  MaxLeases,    \* bound: reconciliation leases issued
  MaxFailures,  \* bound: reconciliations that end in an error
  MaxQueue      \* bound: queued jobs of one configuration

ASSUME NoneIsNoConfig == None \notin Configs
ASSUME NoneIsNoReconciler == None \notin Reconcilers
ASSUME BoundsAssumption ==
  MaxRevision \in Nat /\ MaxLeases \in Nat /\ MaxFailures \in Nat /\ MaxQueue \in Nat

VARIABLES
  row,      \* the account_research_controller row
  request,  \* [Requests -> ...]: an API request between its load and its commit
  rec,      \* [Reconcilers -> ...]: reconcile_once between its transactions
  lock,     \* the reconciler that holds the row lock across statements, or None
  queued,   \* [Configs -> Nat]: queued jobs whose payload is that configuration
  fresh,    \* [Configs -> Nat]: those the controller enqueued and nobody took yet
  leases,   \* leases issued so far, the last token
  failures  \* failed reconciliations so far (only for the bound)

vars == <<row, request, rec, lock, queued, fresh, leases, failures>>

-----------------------------------------------------------------------------
(* Types *)

\* token 0 is lease_token NULL; live: lease_expires_at is in the future; retry
\* is next_retry_at.
Row == [enabled : BOOLEAN, revision : Nat, configuration : Configs \cup {None},
        token : Nat, live : BOOLEAN, retry : {"null", "future", "past"}]

NoRow == [enabled |-> FALSE, revision |-> 0, configuration |-> None,
          token |-> 0, live |-> FALSE, retry |-> "null"]

\* loaded is the snapshot in the session's identity map.
RequestState == [pc : {"none", "put", "patch"}, loaded : Row,
                 enabled : BOOLEAN, configuration : Configs \cup {None}]

NoRequest == [pc |-> "none", loaded |-> NoRow, enabled |-> FALSE, configuration |-> None]

RecState == [pc : {"idle", "admitting", "admitted", "inserting", "failing"},
             configuration : Configs \cup {None}, revision : Nat, token : Nat]

NoRec == [pc |-> "idle", configuration |-> None, revision |-> 0, token |-> 0]

Init ==
  /\ row = NoRow
  /\ request = [q \in Requests |-> NoRequest]
  /\ rec = [r \in Reconcilers |-> NoRec]
  /\ lock = None
  /\ queued = [c \in Configs |-> 0]
  /\ fresh = [c \in Configs |-> 0]
  /\ leases = 0
  /\ failures = 0

-----------------------------------------------------------------------------
(* API requests *)

\* The value of an attribute after a flush: written only when it was changed
\* from the loaded value, so a concurrent commit of it survives otherwise.
Flushed(loaded, new, current) == IF new = loaded THEN current ELSE new

\* put_configuration up to its await: refused unless the loaded row is disabled.
PutLoad(q, c) ==
  /\ request[q].pc = "none"
  /\ row.revision < MaxRevision
  /\ ~ row.enabled
  /\ request' = [request EXCEPT
       ![q] = [pc |-> "put", loaded |-> row, enabled |-> FALSE, configuration |-> c]]
  /\ UNCHANGED <<row, rec, lock, queued, fresh, leases, failures>>

\* Its commit, after admit_job has accepted the configuration.
PutCommit(q) ==
  LET old == request[q].loaded
  IN
  /\ request[q].pc = "put"
  /\ lock = None
  /\ row' = [row EXCEPT
       !.configuration = Flushed(old.configuration, request[q].configuration, @),
       !.revision = old.revision + 1,
       !.retry = Flushed(old.retry, "null", @)]
  /\ request' = [request EXCEPT ![q] = NoRequest]
  /\ UNCHANGED <<rec, lock, queued, fresh, leases, failures>>

\* admit_job refuses, or the client goes away: the session is rolled back.
PutRefused(q) ==
  /\ request[q].pc = "put"
  /\ request' = [request EXCEPT ![q] = NoRequest]
  /\ UNCHANGED <<row, rec, lock, queued, fresh, leases, failures>>

\* What set_controller_state requires besides the revision it was given.
Patchable(e) == e => row.configuration # None

\* set_controller_state up to its commit.  The client sends the revision it
\* last saw, and only an equal one passes.
PatchLoad(q, e) ==
  /\ request[q].pc = "none"
  /\ row.revision < MaxRevision
  /\ Patchable(e)
  /\ request' = [request EXCEPT
       ![q] = [pc |-> "patch", loaded |-> row, enabled |-> e, configuration |-> None]]
  /\ UNCHANGED <<row, rec, lock, queued, fresh, leases, failures>>

PatchCommit(q) ==
  LET old == request[q].loaded
  IN
  /\ request[q].pc = "patch"
  /\ lock = None
  /\ row' = [row EXCEPT
       !.enabled = Flushed(old.enabled, request[q].enabled, @),
       !.revision = old.revision + 1,
       !.token = Flushed(old.token, 0, @),
       !.live = IF old.token = 0 THEN @ ELSE FALSE]
  /\ request' = [request EXCEPT ![q] = NoRequest]
  /\ UNCHANGED <<rec, lock, queued, fresh, leases, failures>>

-----------------------------------------------------------------------------
(* Reconcilers *)

\* Plausible bug: the running jobs are counted instead, as
\* matching_running_count does for the status page.
MatchingRunning(c) == 0

\* matching_queued_count.
Matching(c) == queued[c]

\* Plausible bug: only a lease that was given back can be followed by another.
LeaseFreeWhenReturned == row.token = 0

\* No reconciliation is under way, or its lease has expired.
LeaseFree == ~ row.live

\* acquire_lease takes a lease only when replenishment is due; otherwise it
\* changes nothing that matters here.
Acquire(r) ==
  LET c == row.configuration
  IN
  /\ rec[r].pc = "idle"
  /\ lock = None
  /\ row.enabled
  /\ c # None
  /\ row.retry # "future"
  /\ LeaseFree
  /\ Matching(c) = 0
  /\ leases < MaxLeases
  /\ leases' = leases + 1
  /\ row' = [row EXCEPT !.token = leases + 1, !.live = TRUE]
  /\ rec' = [rec EXCEPT ![r] = [pc |-> "admitting", configuration |-> c,
                                revision |-> row.revision, token |-> leases + 1]]
  /\ UNCHANGED <<request, lock, queued, fresh, failures>>

\* The awaited admit_job accepts the request.
Admit(r) ==
  /\ rec[r].pc = "admitting"
  /\ rec' = [rec EXCEPT ![r].pc = "admitted"]
  /\ UNCHANGED <<row, request, lock, queued, fresh, leases, failures>>

\* It answers with an HTTPException, or the saved payload is no longer valid.
AdmitFails(r) ==
  /\ rec[r].pc = "admitting"
  /\ failures < MaxFailures
  /\ failures' = failures + 1
  /\ rec' = [rec EXCEPT ![r].pc = "failing"]
  /\ UNCHANGED <<row, request, lock, queued, fresh, leases>>

\* The error is recorded, and the lease returned, by its holder only.
RecordError(r) ==
  /\ rec[r].pc = "failing"
  /\ lock = None
  /\ row' = IF row.token = rec[r].token
            THEN [row EXCEPT !.retry = "future", !.token = 0, !.live = FALSE]
            ELSE row
  /\ rec' = [rec EXCEPT ![r] = NoRec]
  /\ UNCHANGED <<request, lock, queued, fresh, leases, failures>>

\* Plausible bug: the revision and the token are thought to imply the configuration.
CurrentWithoutConfiguration(r) ==
  row.enabled /\ row.revision = rec[r].revision /\ row.token = rec[r].token

\* The reservation still stands, seen under the row lock after the await.
Current(r) ==
  /\ row.enabled
  /\ row.revision = rec[r].revision
  /\ row.token = rec[r].token
  /\ row.configuration = rec[r].configuration

\* The row is locked and found changed: the transaction ends here.
Abandon(r) ==
  /\ rec[r].pc = "admitted"
  /\ lock = None
  /\ ~ Current(r)
  /\ rec' = [rec EXCEPT ![r] = NoRec]
  /\ UNCHANGED <<row, request, lock, queued, fresh, leases, failures>>

\* The row is locked, unchanged, but a matching job has arrived meanwhile.
AlreadyQueued(r) ==
  /\ rec[r].pc = "admitted"
  /\ lock = None
  /\ Current(r)
  /\ Matching(rec[r].configuration) > 0
  /\ row' = [row EXCEPT !.token = 0, !.live = FALSE, !.retry = "null"]
  /\ rec' = [rec EXCEPT ![r] = NoRec]
  /\ UNCHANGED <<request, lock, queued, fresh, leases, failures>>

\* The row is locked, unchanged, and the matching queue is seen empty.
SeesEmpty(r) ==
  /\ rec[r].pc = "admitted"
  /\ lock = None
  /\ Current(r)
  /\ Matching(rec[r].configuration) = 0
  /\ lock' = r
  /\ rec' = [rec EXCEPT ![r].pc = "inserting"]
  /\ UNCHANGED <<row, request, queued, fresh, leases, failures>>

\* enqueue_job and the commit, which releases the row lock.
Insert(r) ==
  LET c == rec[r].configuration
  IN
  /\ rec[r].pc = "inserting"
  /\ row' = [row EXCEPT !.token = 0, !.live = FALSE, !.retry = "null"]
  /\ queued' = [queued EXCEPT ![c] = @ + 1]
  /\ fresh' = [fresh EXCEPT ![c] = @ + 1]
  /\ rec' = [rec EXCEPT ![r] = NoRec]
  /\ lock' = None
  /\ UNCHANGED <<request, leases, failures>>

\* Any other exception, or the end of the process: controller_loop starts over
\* and the open transaction, if there is one, is rolled back.
Dies(r) ==
  /\ rec[r].pc # "idle"
  /\ failures < MaxFailures
  /\ failures' = failures + 1
  /\ rec' = [rec EXCEPT ![r] = NoRec]
  /\ lock' = IF lock = r THEN None ELSE lock
  /\ UNCHANGED <<row, request, queued, fresh, leases>>

-----------------------------------------------------------------------------
(* The job queue, and time *)

\* A matching job is submitted by an operator, retried, or given back when the
\* claim of a lost worker expires.  research_jobs has no part in the row lock.
Arrives(c) ==
  /\ queued[c] < MaxQueue
  /\ queued' = [queued EXCEPT ![c] = @ + 1]
  /\ UNCHANGED <<row, request, rec, lock, fresh, leases, failures>>

\* A worker claims, or an operator cancels, a queued job: one the controller
\* enqueued or another.
Leaves(c) ==
  /\ queued[c] > 0
  /\ queued' = [queued EXCEPT ![c] = @ - 1]
  /\ \/ fresh[c] > 0 /\ fresh' = [fresh EXCEPT ![c] = @ - 1]
     \/ fresh[c] < queued[c] /\ UNCHANGED fresh
  /\ UNCHANGED <<row, request, rec, lock, leases, failures>>

LeaseExpires ==
  /\ row.live
  /\ lock = None
  /\ row' = [row EXCEPT !.live = FALSE]
  /\ UNCHANGED <<request, rec, lock, queued, fresh, leases, failures>>

RetryDue ==
  /\ row.retry = "future"
  /\ lock = None
  /\ row' = [row EXCEPT !.retry = "past"]
  /\ UNCHANGED <<request, rec, lock, queued, fresh, leases, failures>>

-----------------------------------------------------------------------------

Api(q) ==
  \/ \E c \in Configs : PutLoad(q, c)
  \/ \E e \in BOOLEAN : PatchLoad(q, e)
  \/ PutCommit(q) \/ PutRefused(q) \/ PatchCommit(q)

\* What reconcile_once does next, when nothing goes wrong.
Reconcile(r) ==
  \/ Acquire(r) \/ Admit(r) \/ RecordError(r)
  \/ Abandon(r) \/ AlreadyQueued(r) \/ SeesEmpty(r) \/ Insert(r)

Next ==
  \/ \E q \in Requests : Api(q)
  \/ \E r \in Reconcilers : Reconcile(r) \/ AdmitFails(r) \/ Dies(r)
  \/ \E c \in Configs : Arrives(c) \/ Leaves(c)
  \/ LeaseExpires
  \/ RetryDue

Spec == Init /\ [][Next]_vars

\* controller_loop polls for ever, its transactions get the row lock that every
\* transaction gives back, and the two deadlines pass.
Fairness ==
  /\ \A r \in Reconcilers : WF_vars(Reconcile(r))
  /\ WF_vars(LeaseExpires)
  /\ WF_vars(RetryDue)

LiveSpec == Spec /\ Fairness

-----------------------------------------------------------------------------
(* Properties *)

\* Every variable has its type; a row is enabled only with a configuration,
\* and the lock is held exactly while its holder inserts.
TypeOK ==
  /\ row \in Row
  /\ row.enabled => row.configuration # None
  /\ request \in [Requests -> RequestState]
  /\ rec \in [Reconcilers -> RecState]
  /\ \A r \in Reconcilers : rec[r].pc = "inserting" <=> lock = r
  /\ queued \in [Configs -> Nat]
  /\ fresh \in [Configs -> Nat]
  /\ \A c \in Configs : fresh[c] <= queued[c]
  /\ leases \in 0..MaxLeases
  /\ failures \in 0..MaxFailures

\* However many processes reconcile, and whatever leases expire under them,
\* the controller never has two jobs of its own waiting that nobody has taken
\* (reconcile_once: "enqueue one job when the matching queue is empty").
OneFreshJob == \A c \in Configs : fresh[c] <= 1

\* A job is enqueued only for the policy in force at that moment: a policy
\* that was disabled or replaced while the reconciler awaited the CRM, by API
\* requests in any overlap, is never acted on.
PolicyInForce ==
  [][\A c \in Configs :
       fresh'[c] > fresh[c] => row.enabled /\ row.configuration = c]_vars

\* An enabled policy is replenished: with the CRM failing only so often, its
\* queue gets a matching job, or the policy changes; no lease or retry time
\* left behind by a lost reconciler keeps it empty for ever.
Replenished ==
  \A c \in Configs :
    (row.enabled /\ row.configuration = c)
      ~> (queued[c] > 0 \/ ~ row.enabled \/ row.configuration # c \/ leases = MaxLeases)

=============================================================================
