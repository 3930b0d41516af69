---------------------------- MODULE SearchCache ----------------------------
(***************************************************************************)
(* Single-flight web search: the cache row of one query                    *)
(* (src/malg/database/search_cache.py) and the callers that share it       *)
(* across worker processes (SearXNGClient.search in                        *)
(* src/malg/core/web_search.py).                                           *)
(*                                                                         *)
(* Rows of different queries are independent, so one is modelled.  Every   *)
(* deadline is compared with the database clock, which only moves forward: *)
(* each is a flag that an expiry action turns.  A transaction's clock is   *)
(* the time it began; where a statement waits for the row a reading can be *)
(* old, which in lookup only turns a claim into one more poll (left out)   *)
(* and in finish lets a lease count that has just run out (kept).          *)
(* A row that does not exist is one whose columns are all NULL: its        *)
(* insertion is part of the first lookup's transaction.                    *)
(***************************************************************************)
EXTENDS Integers, FiniteSets

CONSTANTS
  Callers,     \* searches for this query that may be in progress together
  MaxSearches  \* bound: searches each caller makes

ASSUME SearchesAssumption == MaxSearches \in Nat

VARIABLES
  entry,     \* the search_cache row
  issued,    \* lease tokens issued so far: the last one
  caller,    \* [Callers -> ...]: where each caller is in search
  searches   \* searches each caller has begun (only for the bound)

cacheVars == <<entry, issued, caller, searches>>

-----------------------------------------------------------------------------
(* Types *)

\* token: lease_token, 0 for NULL; leased: lease_expires_at is in the future;
\* response: the lease under which the stored response was published, 0 for
\* none; fresh: expires_at is in the future; failing: failure_until is.
Entry == [token : Nat, leased : BOOLEAN, response : Nat, fresh : BOOLEAN,
          failing : BOOLEAN]

\* lookup: about to call SearchCache.lookup; claiming: inside it, before its
\* conditional UPDATE; owner: holds a lease, waits for a request slot;
\* upstream: the HTTP request is out; healthy: a payload is to be published;
\* releasing: the lease is to be given back; both: cancelled while the thread
\* that publishes runs; late: released, and that thread still runs.
\* timely is history: the lease has not expired under its holder.
CallerState ==
  [pc : {"idle", "lookup", "claiming", "owner", "upstream", "healthy",
         "releasing", "both", "late"},
   token : Nat, failed : BOOLEAN, timely : BOOLEAN]

Idle == [pc |-> "idle", token |-> 0, failed |-> FALSE, timely |-> FALSE]

CacheInit ==
  /\ entry = [token |-> 0, leased |-> FALSE, response |-> 0, fresh |-> FALSE,
              failing |-> FALSE]
  /\ issued = 0
  /\ caller = [c \in Callers |-> Idle]
  /\ searches = [c \in Callers |-> 0]

-----------------------------------------------------------------------------
(* SearchCache: the effect of its statements on the row *)

\* Plausible bug: the UPDATE trusts what the transaction has read before.
ClaimableAsRead == TRUE

\* Plausible bug: a lease is only free once its owner gave it back.
ClaimableWhenReleased == entry.token = 0 /\ ~ entry.fresh /\ ~ entry.failing

\* The WHERE clause of lookup's UPDATE.
Claimable ==
  /\ entry.token = 0 \/ ~ entry.leased
  /\ ~ entry.fresh
  /\ ~ entry.failing

\* Its SET clause: a new lease.
Leased == [entry EXCEPT !.token = issued + 1, !.leased = TRUE]

\* Plausible bug: any lease that is current lets its bearer publish.
PublishableByTime(t) == entry.leased

\* The WHERE clause of finish, but for the age of its clock reading.
Publishable(t) == entry.token = t

\* The SET clause of finish.
Published(t) ==
  [token |-> 0, leased |-> FALSE, response |-> t, fresh |-> TRUE, failing |-> FALSE]

\* finish by the holder of token t: a lease that has expired counts only for
\* a clock reading taken before it did.
Finish(t) ==
  \/ Publishable(t) /\ entry' = Published(t)
  \/ ~ (Publishable(t) /\ entry.leased) /\ UNCHANGED entry

\* release by the holder of token t.
Released(t, f) ==
  IF entry.token = t
  THEN [entry EXCEPT !.token = 0, !.leased = FALSE, !.failing = f]
  ELSE entry

-----------------------------------------------------------------------------
(* SearXNGClient.search *)

Moves(c, pc) == caller' = [caller EXCEPT ![c].pc = pc]
Stops(c) == caller' = [caller EXCEPT ![c] = Idle]

Search(c) ==
  /\ caller[c].pc = "idle"
  /\ searches[c] < MaxSearches
  /\ searches' = [searches EXCEPT ![c] = @ + 1]
  /\ Moves(c, "lookup")
  /\ UNCHANGED <<entry, issued>>

\* lookup's read: a fresh response answers the search, a recent failure fails
\* it ("shared_failure"), anything else goes on to the UPDATE.
Lookup(c) ==
  /\ caller[c].pc = "lookup"
  /\ IF entry.fresh \/ entry.failing THEN Stops(c) ELSE Moves(c, "claiming")
  /\ UNCHANGED <<entry, issued, searches>>

\* lookup's UPDATE: the caller owns the refresh, or waits and polls again.
Claim(c) ==
  /\ caller[c].pc = "claiming"
  /\ IF Claimable
     THEN /\ entry' = Leased
          /\ issued' = issued + 1
          /\ caller' = [caller EXCEPT ![c] =
               [pc |-> "owner", token |-> issued + 1, failed |-> FALSE, timely |-> TRUE]]
     ELSE Moves(c, "lookup") /\ UNCHANGED <<entry, issued>>
  /\ UNCHANGED searches

\* The search is cancelled while lookup runs in its thread: the thread claims
\* the lease for nobody.
ClaimForNobody(c) ==
  /\ caller[c].pc = "claiming"
  /\ Claimable
  /\ entry' = Leased
  /\ issued' = issued + 1
  /\ Stops(c)
  /\ UNCHANGED searches

\* _wait_for_request_slot is done and the request goes out.
Send(c) ==
  /\ caller[c].pc = "owner"
  /\ Moves(c, "upstream")
  /\ UNCHANGED <<entry, issued, searches>>

\* A payload without engine errors.
Answer(c) ==
  /\ caller[c].pc = "upstream"
  /\ Moves(c, "healthy")
  /\ UNCHANGED <<entry, issued, searches>>

\* An exhausted limit, an HTTP error, an invalid or degraded payload, or an
\* error while publishing: the lease is given back as a failure, except for
\* limits and cancellations, which are not failures of the provider.
Fail(c) ==
  /\ caller[c].pc \in {"owner", "upstream", "healthy"}
  /\ \E f \in BOOLEAN :
       caller' = [caller EXCEPT ![c].pc = "releasing", ![c].failed = f]
  /\ UNCHANGED <<entry, issued, searches>>

FinishAwaited(c) ==
  /\ caller[c].pc = "healthy"
  /\ Finish(caller[c].token)
  /\ Stops(c)
  /\ UNCHANGED <<issued, searches>>

\* Cancelled while finish runs in its thread, which cannot be stopped: the
\* shielded release runs beside it.
CancelFinish(c) ==
  /\ caller[c].pc = "healthy"
  /\ Moves(c, "both")
  /\ UNCHANGED <<entry, issued, searches>>

FinishInThread(c) ==
  /\ caller[c].pc \in {"both", "late"}
  /\ Finish(caller[c].token)
  /\ IF caller[c].pc = "both" THEN Moves(c, "releasing") ELSE Stops(c)
  /\ UNCHANGED <<issued, searches>>

Release(c) ==
  /\ caller[c].pc \in {"releasing", "both"}
  /\ entry' = Released(caller[c].token, caller[c].failed)
  /\ IF caller[c].pc = "both" THEN Moves(c, "late") ELSE Stops(c)
  /\ UNCHANGED <<issued, searches>>

\* The stage child is killed, or the process dies.
Crash(c) ==
  /\ caller[c].pc # "idle"
  /\ Stops(c)
  /\ UNCHANGED <<entry, issued, searches>>

-----------------------------------------------------------------------------
(* Time *)

LeaseRunsOut ==
  /\ entry.leased
  /\ entry' = [entry EXCEPT !.leased = FALSE]
  /\ caller' = [c \in Callers |->
       IF caller[c].token = entry.token THEN [caller[c] EXCEPT !.timely = FALSE]
       ELSE caller[c]]
  /\ UNCHANGED <<issued, searches>>

ResponseExpires ==
  /\ entry.fresh
  /\ entry' = [entry EXCEPT !.fresh = FALSE]
  /\ UNCHANGED <<issued, caller, searches>>

FailureExpires ==
  /\ entry.failing
  /\ entry' = [entry EXCEPT !.failing = FALSE]
  /\ UNCHANGED <<issued, caller, searches>>

-----------------------------------------------------------------------------

\* What a search does next of its own accord.
Proceeds(c) ==
  \/ Lookup(c) \/ Claim(c) \/ Send(c) \/ Answer(c) \/ Fail(c)
  \/ FinishAwaited(c) \/ FinishInThread(c) \/ Release(c)

CacheNext ==
  \/ \E c \in Callers :
       Search(c) \/ Proceeds(c) \/ ClaimForNobody(c) \/ CancelFinish(c) \/ Crash(c)
  \/ LeaseRunsOut \/ ResponseExpires \/ FailureExpires

CacheSpec == CacheInit /\ [][CacheNext]_cacheVars

\* A search goes on: it polls every 0.1 s, the HTTP request has a timeout, and
\* its threads run to the end.  The lease of a lost owner expires.
CacheFairness ==
  /\ \A c \in Callers : WF_cacheVars(Proceeds(c))
  /\ WF_cacheVars(LeaseRunsOut)

CacheLiveSpec == CacheSpec /\ CacheFairness

-----------------------------------------------------------------------------
(* Properties *)

\* Every variable has its type, and lease_token and lease_expires_at are set
\* and cleared together.
CacheTypeOK ==
  /\ entry \in Entry
  /\ entry.leased => entry.token # 0
  /\ issued \in Nat
  /\ entry.token \in {0, issued}
  /\ caller \in [Callers -> CallerState]
  /\ searches \in [Callers -> 0..MaxSearches]

\* One query is asked upstream once: two requests for it are out together only
\* if the lease of one of them has expired (lookup: "bypassing coordination
\* would duplicate traffic").
SingleFlight ==
  \A c, d \in Callers :
    /\ caller[c].pc = "upstream" /\ caller[c].timely
    /\ caller[d].pc = "upstream" /\ caller[d].timely
    => c = d

\* A stored response is replaced only under the newest lease: an owner that
\* was cancelled, was slow or lost its lease never overwrites a refresh
\* (SearchCache: "an obsolete owner cannot overwrite a refresh").
PublishedByNewestLease ==
  [][entry'.response # entry.response => entry'.response = issued]_cacheVars

\* Every search ends, with results or an error: a follower never polls for
\* ever behind an owner that was killed, was cancelled inside lookup or left
\* a failure behind (SearchCache: "Leases expire after worker loss").
SearchEnds == \A c \in Callers : caller[c].pc = "lookup" ~> caller[c].pc = "idle"

=============================================================================
