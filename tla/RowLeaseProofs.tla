--------------------------- MODULE RowLeaseProofs ---------------------------
(***************************************************************************)
(* Proofs about the two components in which processes take turns at a row  *)
(* by a lease with an expiry: the search cache (SearchCache, for any       *)
(* number of callers and searches) and the account controller              *)
(* (AccountController, for any number of configurations, API requests and  *)
(* reconcilers, and all bounds).  The two share no state and no name.      *)
(*                                                                         *)
(* In the cache the argument is about tokens: a lease is issued once, a    *)
(* caller whose lease has not expired is the one the row names, and        *)
(* whoever publishes checks that the row still names it.  No step compares *)
(* two callers with each other; each compares its token with the row's.    *)
(*                                                                         *)
(* In the controller both safety properties are about the moment a job is  *)
(* enqueued, but what makes them true happened earlier: the policy was     *)
(* compared, and the queue was seen empty, when the row was locked.  So    *)
(* the invariant says what the lock keeps: the row is still the one the    *)
(* reservation was made for and no job of the controller is waiting,       *)
(* although the API routes and the queue take no part in the lock.  That a *)
(* row is enabled only with a configuration needs the sessions' snapshots  *)
(* as well: a flush leaves an attribute alone that equals the loaded one.  *)
(***************************************************************************)
EXTENDS AccountController, SearchCache, TLAPS

-----------------------------------------------------------------------------
(* Search cache: the inductive invariant *)

\* From its claim to the end of its request a caller acts under its lease.
Holding == {"owner", "upstream", "healthy"}

\* A caller has a token exactly while it works under a lease or cleans up after
\* one, and unless that lease has expired the row still names it.
Bearer(c) ==
  /\ caller[c].token <= issued
  /\ caller[c].token = 0 <=> caller[c].pc \in {"idle", "lookup", "claiming"}
  /\ caller[c].pc \in Holding /\ caller[c].timely => entry.token = caller[c].token /\ entry.leased

\* No lease is given to two callers.
TokensDiffer ==
  \A c, d \in Callers : caller[c].token = caller[d].token => c = d \/ caller[c].token = 0

CacheInv == CacheTypeOK /\ TokensDiffer /\ \A c \in Callers : Bearer(c)

-----------------------------------------------------------------------------

\* Nobody holds a lease in the beginning.
LEMMA CacheStarts ==
  CacheInit => CacheInv
  BY SearchesAssumption DEF CacheInit, CacheInv, CacheTypeOK, Entry, CallerState, Idle,
         TokensDiffer, Bearer, Holding

\* A step of one caller that leaves the row and the tokens alone.
LEMMA CallerMoves ==
  ASSUME CacheInv, NEW c \in Callers, NEW s \in CallerState,
         caller' = [caller EXCEPT ![c] = s], UNCHANGED <<entry, issued, searches>>,
         s.token \in {0, caller[c].token},
         s.token = 0 <=> s.pc \in {"idle", "lookup", "claiming"},
         s.pc \in Holding => caller[c].pc \in Holding /\ s.timely = caller[c].timely
  PROVE  CacheInv'
  <1>1. CacheTypeOK'
    BY DEF CacheInv, CacheTypeOK
  <1>2. TokensDiffer'
    BY DEF CacheInv, CacheTypeOK, TokensDiffer
  <1>3. ASSUME NEW d \in Callers PROVE Bearer(d)'
    BY <1>3 DEF CacheInv, CacheTypeOK, Bearer, CallerState, Holding
  <1> QED BY <1>1, <1>2, <1>3 DEF CacheInv

\* The two states a claim can lead to.
LEMMA AfterClaim ==
  ASSUME NEW n \in Nat
  PROVE  /\ Idle \in CallerState /\ Idle.token = 0 /\ Idle.pc = "idle"
         /\ LET s == [pc |-> "owner", token |-> n + 1, failed |-> FALSE, timely |-> TRUE]
            IN  s \in CallerState /\ s.token = n + 1 /\ s.pc = "owner"
  BY DEF Idle, CallerState

\* A step that grants a new lease, to c or to nobody.
LEMMA LeaseGranted ==
  ASSUME CacheInv, NEW c \in Callers, NEW s \in CallerState,
         Claimable, entry' = Leased, issued' = issued + 1,
         caller' = [caller EXCEPT ![c] = s], UNCHANGED searches,
         s.token \in {0, issued + 1},
         s.token = 0 <=> s.pc \in {"idle", "lookup", "claiming"}
  PROVE  CacheInv'
  <1>1. entry' \in Entry /\ entry'.token = issued + 1 /\ entry'.leased /\ issued' \in Nat
    <2>1. entry \in Entry /\ issued \in Nat
      BY DEF CacheInv, CacheTypeOK
    <2>2. Leased \in Entry
      <3> DEFINE e == [entry EXCEPT !.token = issued + 1]
      <3>1. e \in Entry
        BY <2>1 DEF Entry
      <3>2. Leased = [e EXCEPT !.leased = TRUE]
        BY DEF Leased
      <3> HIDE DEF e
      <3>3. [e EXCEPT !.leased = TRUE] \in Entry
        BY <3>1 DEF Entry
      <3> QED BY <3>2, <3>3
    <2>3. Leased.token = issued + 1 /\ Leased.leased = TRUE
      BY <2>1 DEF Leased, Entry
    <2> QED BY <2>1, <2>2, <2>3
  <1>2. CacheTypeOK'
    BY <1>1 DEF CacheInv, CacheTypeOK
  <1>3. TokensDiffer'
    BY DEF CacheInv, CacheTypeOK, TokensDiffer, Bearer, CallerState
  <1>4. ASSUME NEW d \in Callers PROVE Bearer(d)'
    <2>1. CASE d = c
      BY <1>1, <2>1 DEF CacheInv, CacheTypeOK, Bearer, Holding
    <2>2. CASE d # c
      <3>1. caller'[d] = caller[d] /\ Bearer(d) /\ caller[d].token \in Nat
        BY <2>2 DEF CacheInv, CacheTypeOK, CallerState
      <3>2. ~ (caller[d].pc \in Holding /\ caller[d].timely)
        <4>1. caller[d].pc \in Holding => caller[d].token # 0
          BY <3>1 DEF Bearer, Holding
        <4> QED BY <3>1, <4>1 DEF Claimable, Bearer
      <3> QED BY <1>1, <3>1, <3>2 DEF Bearer, CacheInv, CacheTypeOK
    <2> QED BY <2>1, <2>2
  <1> QED BY <1>2, <1>3, <1>4 DEF CacheInv

\* A step of c after which the row names no lease or one that is not c's, and c
\* no longer acts under its lease.
LEMMA LeaseReturned ==
  ASSUME CacheInv, NEW c \in Callers, NEW s \in CallerState, NEW e \in Entry,
         caller[c].token # 0,
         caller' = [caller EXCEPT ![c] = s], entry' = e, UNCHANGED <<issued, searches>>,
         e = entry \/ (entry.token = caller[c].token /\ e.token = 0 /\ ~ e.leased),
         s.token \in {0, caller[c].token}, s.pc \notin Holding,
         s.token = 0 <=> s.pc \in {"idle", "lookup", "claiming"}
  PROVE  CacheInv'
  <1>1. CacheTypeOK'
    BY DEF CacheInv, CacheTypeOK
  <1>2. TokensDiffer'
    BY DEF CacheInv, CacheTypeOK, TokensDiffer
  <1>3. ASSUME NEW d \in Callers PROVE Bearer(d)'
    <2>1. CASE d = c
      BY <2>1 DEF CacheInv, CacheTypeOK, Bearer, CallerState
    <2>2. CASE d # c
      <3>1. caller'[d] = caller[d] /\ caller[d].token # caller[c].token
        BY <2>2 DEF CacheInv, CacheTypeOK, TokensDiffer
      <3> QED BY <3>1 DEF CacheInv, CacheTypeOK, Bearer
    <2> QED BY <2>1, <2>2
  <1> QED BY <1>1, <1>2, <1>3 DEF CacheInv

\* What finish and release leave in the row.
LEMMA RowAfter ==
  ASSUME CacheInv, NEW t \in Nat \ {0}, NEW f \in BOOLEAN,
         Finish(t) \/ entry' = Released(t, f)
  PROVE  /\ entry' \in Entry
         /\ entry' = entry \/ (entry.token = t /\ entry'.token = 0 /\ ~ entry'.leased)
  <1>1. entry \in Entry
    BY DEF CacheInv, CacheTypeOK
  <1>2. CASE entry' = entry
    BY <1>1, <1>2
  <1>3. CASE entry' = Published(t) /\ entry.token = t
    <2>1. Published(t) \in Entry /\ Published(t).token = 0 /\ ~ Published(t).leased
      BY DEF Published, Entry
    <2> QED BY <1>3, <2>1
  <1>4. CASE entry' = Released(t, f) /\ entry.token = t
    <2>1. /\ Released(t, f) \in Entry /\ Released(t, f).token = 0
          /\ ~ Released(t, f).leased
      BY <1>1, <1>4 DEF Released, Entry
    <2> QED BY <1>4, <2>1
  <1> QED BY <1>2, <1>3, <1>4 DEF Finish, Publishable, Released

\* The state of a caller that moves on, or that fails.
At(c, pc) == [caller[c] EXCEPT !.pc = pc]
Failed(c, f) == [caller[c] EXCEPT !.pc = "releasing", !.failed = f]

\* Such a caller keeps its type and its token.
LEMMA Moved ==
  ASSUME CacheInv, NEW c \in Callers,
         NEW pc \in {"lookup", "claiming", "upstream", "healthy", "releasing", "both", "late"}
  PROVE  /\ caller[c].token = 0 <=> caller[c].pc \in {"idle", "lookup", "claiming"}
         /\ At(c, pc) \in CallerState /\ At(c, pc).pc = pc
         /\ At(c, pc).token = caller[c].token /\ At(c, pc).timely = caller[c].timely
  <1>1. caller[c] \in CallerState /\ Bearer(c)
    BY DEF CacheInv, CacheTypeOK
  <1> QED BY <1>1 DEF CallerState, Bearer, At

LEMMA MovedToFailure ==
  ASSUME CacheInv, NEW c \in Callers, NEW f \in BOOLEAN, caller[c].pc \in Holding
  PROVE  /\ Failed(c, f) \in CallerState /\ Failed(c, f).pc = "releasing"
         /\ Failed(c, f).token = caller[c].token /\ caller[c].token # 0
  <1>1. caller[c] \in CallerState /\ Bearer(c)
    BY DEF CacheInv, CacheTypeOK
  <1> QED BY <1>1 DEF CallerState, Bearer, Failed, Holding

\* Moves in these terms.
LEMMA MovesTo ==
  ASSUME NEW c, NEW pc, Moves(c, pc)
  PROVE  caller' = [caller EXCEPT ![c] = At(c, pc)]
  BY DEF Moves, At

\* Every step keeps the invariant.
LEMMA CacheStep ==
  CacheInv /\ [CacheNext]_cacheVars => CacheInv'
  <1> SUFFICES ASSUME CacheInv, [CacheNext]_cacheVars PROVE CacheInv'
    OBVIOUS
  <1> DEFINE Waiting == {"idle", "lookup", "claiming"}
  <1>t. Idle \in CallerState /\ Idle.token = 0 /\ Idle.pc = "idle"
    BY AfterClaim DEF CacheInv, CacheTypeOK
  <1>1. ASSUME NEW c \in Callers, NEW pc \in {"lookup", "claiming"},
               caller[c].pc \in Waiting, Moves(c, pc), UNCHANGED <<entry, issued>>,
               searches' \in [Callers -> 0..MaxSearches]
        PROVE  CacheInv'
    <2>1. /\ At(c, pc) \in CallerState /\ At(c, pc).token = 0 /\ At(c, pc).pc = pc
          /\ caller[c].token = 0 /\ caller' = [caller EXCEPT ![c] = At(c, pc)]
      BY <1>1, Moved, MovesTo
    <2>2. caller' \in [Callers -> CallerState]
      BY <2>1 DEF CacheInv, CacheTypeOK
    <2>3. CacheTypeOK'
      BY <1>1, <2>2 DEF CacheInv, CacheTypeOK
    <2>4. ASSUME NEW d \in Callers
          PROVE  /\ caller'[d].token = caller[d].token
                 /\ caller'[d] = caller[d] \/ caller'[d].pc \in {"lookup", "claiming"}
                 /\ d = c => caller'[d].pc \in {"lookup", "claiming"} /\ caller'[d].token = 0
      BY <1>1, <2>1, <2>4 DEF CacheInv, CacheTypeOK
    <2>5. TokensDiffer'
      BY <2>4 DEF CacheInv, TokensDiffer
    <2>6. ASSUME NEW d \in Callers PROVE Bearer(d)'
      <3>1. CASE d = c
        BY <1>1, <2>4, <3>1 DEF Bearer, Holding, CacheInv, CacheTypeOK
      <3>2. CASE d # c
        <4>1. caller'[d] = caller[d]
          BY <2>1, <3>2 DEF CacheInv, CacheTypeOK
        <4> QED BY <1>1, <4>1 DEF CacheInv, Bearer
      <3> QED BY <3>1, <3>2
    <2> QED BY <2>3, <2>5, <2>6 DEF CacheInv
  <1>2. ASSUME NEW c \in Callers, Search(c) PROVE CacheInv'
    <2>1. searches' \in [Callers -> 0..MaxSearches]
      BY <1>2, SearchesAssumption DEF Search, CacheInv, CacheTypeOK
    <2> QED BY <1>1, <1>2, <2>1 DEF Search
  <1>3. ASSUME NEW c \in Callers, Lookup(c) \/ (Claim(c) /\ ~ Claimable)
        PROVE  CacheInv'
    <2>1. searches' \in [Callers -> 0..MaxSearches]
      BY <1>3 DEF Lookup, Claim, CacheInv, CacheTypeOK
    <2>2. CASE Stops(c)
      BY <1>3, <1>t, <2>2, CallerMoves DEF Lookup, Claim, Stops, Moves, Holding
    <2> QED BY <1>1, <1>3, <2>1, <2>2 DEF Lookup, Claim
  <1>4. ASSUME NEW c \in Callers, (Claim(c) /\ Claimable) \/ ClaimForNobody(c)
        PROVE  CacheInv'
    <2>1. issued \in Nat
      BY DEF CacheInv, CacheTypeOK
    <2> DEFINE s == [pc |-> "owner", token |-> issued + 1, failed |-> FALSE, timely |-> TRUE]
    <2>2. s \in CallerState /\ s.token = issued + 1 /\ s.pc = "owner" /\ s.token # 0
      BY <2>1, AfterClaim
    <2>3. /\ Claimable /\ entry' = Leased /\ issued' = issued + 1 /\ UNCHANGED searches
          /\ caller' = [caller EXCEPT ![c] = s] \/ caller' = [caller EXCEPT ![c] = Idle]
      BY <1>4 DEF Claim, ClaimForNobody, Stops
    <2> HIDE DEF s
    <2>4. CASE caller' = [caller EXCEPT ![c] = s]
      BY <2>2, <2>3, <2>4, LeaseGranted
    <2>5. CASE caller' = [caller EXCEPT ![c] = Idle]
      BY <1>t, <2>3, <2>5, LeaseGranted
    <2> QED BY <2>3, <2>4, <2>5
  <1>5. ASSUME NEW c \in Callers, Send(c) \/ Answer(c) \/ CancelFinish(c)
        PROVE  CacheInv'
    <2>1. PICK pc \in {"upstream", "healthy", "both"} : Moves(c, pc)
      BY <1>5 DEF Send, Answer, CancelFinish
    <2>2. caller[c].pc \in Holding /\ UNCHANGED <<entry, issued, searches>>
      BY <1>5 DEF Send, Answer, CancelFinish, Holding
    <2>3. /\ At(c, pc) \in CallerState /\ At(c, pc).token = caller[c].token /\ caller[c].token # 0
          /\ At(c, pc).pc = pc /\ At(c, pc).timely = caller[c].timely
          /\ caller' = [caller EXCEPT ![c] = At(c, pc)]
      BY <2>1, <2>2, Moved, MovesTo DEF Holding
    <2> QED BY <2>1, <2>2, <2>3, CallerMoves
  <1>6. ASSUME NEW c \in Callers, Fail(c) PROVE CacheInv'
    <2>1. PICK f \in BOOLEAN : caller' = [caller EXCEPT ![c] = Failed(c, f)]
      BY <1>6 DEF Fail, Failed
    <2>2. caller[c].pc \in Holding /\ UNCHANGED <<entry, issued, searches>>
      BY <1>6 DEF Fail, Holding
    <2>3. /\ Failed(c, f) \in CallerState /\ Failed(c, f).pc = "releasing"
          /\ Failed(c, f).token = caller[c].token /\ caller[c].token # 0
      BY <2>1, <2>2, MovedToFailure
    <2> QED BY <2>1, <2>2, <2>3, CallerMoves DEF Holding
  <1>7. ASSUME NEW c \in Callers,
               FinishAwaited(c) \/ FinishInThread(c) \/ Release(c)
        PROVE  CacheInv'
    <2>1. caller[c].token \in Nat \ {0} /\ caller[c].failed \in BOOLEAN
      <3>1. caller[c].pc \in {"healthy", "both", "late", "releasing"} /\ caller[c] \in CallerState
        BY <1>7 DEF FinishAwaited, FinishInThread, Release, CacheInv, CacheTypeOK
      <3> QED BY <3>1 DEF CacheInv, Bearer, CallerState
    <2>2. /\ entry' \in Entry
          /\ entry' = entry \/ (entry.token = caller[c].token /\ entry'.token = 0 /\ ~ entry'.leased)
      BY <1>7, <2>1, RowAfter DEF FinishAwaited, FinishInThread, Release
    <2>3. CASE Stops(c)
      BY <1>7, <1>t, <2>1, <2>2, <2>3, LeaseReturned
         DEF FinishAwaited, FinishInThread, Release, Stops, Moves, Holding
    <2>4. ASSUME NEW pc \in {"releasing", "late"}, Moves(c, pc) PROVE CacheInv'
      <3>1. /\ At(c, pc) \in CallerState /\ At(c, pc).token = caller[c].token
            /\ At(c, pc).pc = pc /\ caller' = [caller EXCEPT ![c] = At(c, pc)]
        BY <2>4, Moved, MovesTo
      <3>2. UNCHANGED <<issued, searches>>
        BY <1>7 DEF FinishAwaited, FinishInThread, Release
      <3> QED BY <2>1, <2>2, <2>4, <3>1, <3>2, LeaseReturned DEF Holding
    <2> QED BY <1>7, <2>3, <2>4 DEF FinishAwaited, FinishInThread, Release
  <1>8. ASSUME NEW c \in Callers, Crash(c) PROVE CacheInv'
    BY <1>8, <1>t, CallerMoves DEF Crash, Stops, Holding
  <1>10. CASE LeaseRunsOut
    <2>1. ASSUME NEW c \in Callers
          PROVE  /\ caller'[c] \in CallerState /\ caller'[c].token = caller[c].token
                 /\ caller'[c].pc = caller[c].pc
                 /\ caller'[c].timely => caller[c].timely /\ caller[c].token # entry.token
      <3> DEFINE s == [caller[c] EXCEPT !.timely = FALSE]
      <3>1. caller[c] \in CallerState
        BY DEF CacheInv, CacheTypeOK
      <3>2. /\ s \in CallerState /\ s.token = caller[c].token /\ s.pc = caller[c].pc /\ ~ s.timely
        BY <3>1 DEF CallerState
      <3>3. caller'[c] = IF caller[c].token = entry.token THEN s ELSE caller[c]
        BY <1>10 DEF LeaseRunsOut
      <3> HIDE DEF s
      <3> QED BY <3>1, <3>2, <3>3
    <2>2. entry' \in Entry /\ ~ entry'.leased /\ entry'.token = entry.token
      BY <1>10 DEF LeaseRunsOut, CacheInv, CacheTypeOK, Entry
    <2>3. CacheTypeOK'
      <3>1. caller' \in [Callers -> CallerState]
        BY <1>10, <2>1 DEF LeaseRunsOut
      <3> QED BY <1>10, <2>2, <3>1 DEF LeaseRunsOut, CacheInv, CacheTypeOK
    <2>4. TokensDiffer'
      BY <2>1 DEF CacheInv, TokensDiffer
    <2>5. ASSUME NEW c \in Callers PROVE Bearer(c)'
      BY <1>10, <2>1, <2>2 DEF LeaseRunsOut, CacheInv, Bearer
    <2> QED BY <2>3, <2>4, <2>5 DEF CacheInv
  <1>11. CASE ResponseExpires \/ FailureExpires \/ UNCHANGED cacheVars
    <2>1. /\ entry' \in Entry /\ entry'.token = entry.token /\ entry'.leased = entry.leased
          /\ UNCHANGED <<issued, caller, searches>>
      BY <1>11 DEF ResponseExpires, FailureExpires, cacheVars, CacheInv,
                   CacheTypeOK, Entry
    <2> QED BY <2>1 DEF CacheInv, CacheTypeOK, TokensDiffer, Bearer
  <1> QED BY <1>1, <1>2, <1>3, <1>4, <1>5, <1>6, <1>7, <1>8, <1>10, <1>11 DEF CacheNext, Proceeds

-----------------------------------------------------------------------------
(* Search cache: theorems *)

\* The invariant holds for any number of callers and searches.
THEOREM CacheInvariance ==
  CacheSpec => []CacheInv
  BY CacheStarts, CacheStep, PTL DEF CacheSpec

\* The state always has the types declared for it.
THEOREM CacheTypeCorrect ==
  CacheSpec => []CacheTypeOK
  <1>1. CacheInv => CacheTypeOK
    BY DEF CacheInv
  <1> QED BY <1>1, CacheInvariance, PTL

\* One query is asked upstream once, as long as leases last.
THEOREM QueriesAreAskedOnce ==
  CacheSpec => []SingleFlight
  <1>1. CacheInv => SingleFlight
    BY DEF CacheInv, TokensDiffer, Bearer, Holding, SingleFlight
  <1> QED BY <1>1, CacheInvariance, PTL

\* No obsolete owner overwrites a refresh: only the newest lease publishes.
THEOREM NewestLeasePublishes ==
  CacheSpec => PublishedByNewestLease
  <1> DEFINE Newest == entry'.response # entry.response => entry'.response = issued
  <1>1. ASSUME CacheInv, [CacheNext]_cacheVars PROVE Newest
    <2>1. ASSUME NEW c \in Callers, FinishAwaited(c) \/ FinishInThread(c) PROVE Newest
      <3>1. caller[c].token # 0 /\ Finish(caller[c].token)
        BY <1>1, <2>1 DEF FinishAwaited, FinishInThread, CacheInv, Bearer
      <3> QED BY <1>1, <3>1 DEF Finish, Publishable, Published, CacheInv, CacheTypeOK
    <2>2. ASSUME NEW c \in Callers,
                 \/ Search(c) \/ Lookup(c) \/ Claim(c) \/ ClaimForNobody(c)
                 \/ Send(c) \/ Answer(c) \/ Fail(c) \/ CancelFinish(c)
                 \/ Release(c) \/ Crash(c)
          PROVE  entry'.response = entry.response
      BY <1>1, <2>2
         DEF Search, Lookup, Claim, ClaimForNobody, Leased,
             Send, Answer, Fail, CancelFinish, Release,
             Released, Crash, CacheInv, CacheTypeOK, Entry
    <2>3. CASE \/ LeaseRunsOut \/ ResponseExpires \/ FailureExpires
               \/ UNCHANGED cacheVars
      BY <1>1, <2>3
         DEF LeaseRunsOut, ResponseExpires, FailureExpires, cacheVars, CacheInv,
             CacheTypeOK, Entry
    <2> QED BY <1>1, <2>1, <2>2, <2>3 DEF CacheNext, Proceeds
  <1>2. CacheInv /\ [CacheNext]_cacheVars => [Newest]_cacheVars
    BY <1>1
  <1> QED BY <1>2, CacheInvariance, PTL DEF CacheSpec, PublishedByNewestLease

-----------------------------------------------------------------------------
USE NoneIsNoConfig, NoneIsNoReconciler, BoundsAssumption

-----------------------------------------------------------------------------
(* Controller: the inductive invariant *)

\* What an API request that is in flight relies on: a configuration is never
\* taken away again.
Pending(q) ==
  /\ request[q].pc = "put" => request[q].configuration # None
  /\ request[q].pc = "patch" /\ request[q].enabled => request[q].loaded.configuration # None
  /\ request[q].loaded.configuration # None => row.configuration # None

\* What a reconciliation relies on: it is for a configuration and, once the
\* row is locked, for the policy in force, with no job of its own waiting.
Reserved(r) ==
  /\ rec[r].pc # "idle" => rec[r].configuration # None
  /\ rec[r].pc = "inserting" => Current(r) /\ fresh[rec[r].configuration] = 0

IInv ==
  /\ TypeOK
  /\ lock \in Reconcilers \cup {None}
  /\ \A q \in Requests : Pending(q)
  /\ \A r \in Reconcilers : Reserved(r)
  /\ OneFreshJob

-----------------------------------------------------------------------------
(* The records *)

\* The constant records have their types.
LEMMA NoRecords ==
  /\ NoRow \in Row /\ ~ NoRow.enabled /\ NoRow.configuration = None
  /\ NoRequest \in RequestState /\ NoRequest.pc = "none" /\ NoRequest.loaded = NoRow
  /\ NoRec \in RecState /\ NoRec.pc = "idle"
  <1>1. NoRow \in Row /\ ~ NoRow.enabled /\ NoRow.configuration = None
    BY DEF NoRow, Row
  <1>2. NoRequest \in RequestState /\ NoRequest.pc = "none" /\ NoRequest.loaded = NoRow
    BY <1>1 DEF NoRequest, RequestState
  <1>3. NoRec \in RecState /\ NoRec.pc = "idle"
    BY DEF NoRec, RecState
  <1> QED BY <1>1, <1>2, <1>3

\* Nothing is configured in the beginning.
LEMMA InvInit == Init => IInv
  <1> SUFFICES ASSUME Init PROVE IInv
    OBVIOUS
  <1>1. TypeOK
    BY NoRecords DEF Init, TypeOK
  <1>2. ASSUME NEW q \in Requests PROVE Pending(q)
    BY NoRecords DEF Init, Pending
  <1>3. ASSUME NEW r \in Reconcilers PROVE Reserved(r)
    BY NoRecords DEF Init, Reserved
  <1> QED BY <1>1, <1>2, <1>3 DEF Init, IInv, OneFreshJob

-----------------------------------------------------------------------------
(* Steps *)

\* A snapshot taken by an API request.
LEMMA SnapshotType ==
  ASSUME NEW k \in {"put", "patch"}, NEW w \in Row, NEW e \in BOOLEAN, NEW c \in Configs \cup {None}
  PROVE  LET s == [pc |-> k, loaded |-> w, enabled |-> e, configuration |-> c]
         IN  /\ s \in RequestState
             /\ s.pc = k /\ s.loaded = w /\ s.enabled = e /\ s.configuration = c
  BY DEF RequestState

\* A reservation.
LEMMA ReservationType ==
  ASSUME NEW c \in Configs, NEW n \in Nat, NEW t \in Nat
  PROVE  LET s == [pc |-> "admitting", configuration |-> c, revision |-> n, token |-> t]
         IN  s \in RecState /\ s.pc = "admitting" /\ s.configuration = c
  BY DEF RecState

\* The rows that statements leave, field by field.
LEMMA RowTypes ==
  ASSUME NEW w \in Row, NEW e \in BOOLEAN, NEW n \in Nat, NEW c \in Configs \cup {None},
         NEW t \in Nat, NEW b \in BOOLEAN, NEW y \in {"null", "future", "past"}
  PROVE  /\ [w EXCEPT !.configuration = c, !.revision = n, !.retry = y] \in Row
         /\ [w EXCEPT !.enabled = e, !.revision = n, !.token = t, !.live = b] \in Row
         /\ [w EXCEPT !.token = t, !.live = b] \in Row
         /\ [w EXCEPT !.token = t, !.live = b, !.retry = y] \in Row
         /\ [w EXCEPT !.retry = y, !.token = t, !.live = b] \in Row
         /\ [w EXCEPT !.live = b] \in Row
         /\ [w EXCEPT !.retry = y] \in Row
  BY DEF Row

\* A step outside the row lock that writes the row, ends requests, and moves
\* reconcilers, none of them to the insertion.
LEMMA Unlocked ==
  ASSUME IInv, lock = None, UNCHANGED <<lock, queued, fresh>>,
         row' \in Row, row'.enabled => row'.configuration # None,
         row.configuration # None => row'.configuration # None,
         request' \in [Requests -> RequestState],
         \A q \in Requests : request'[q] = request[q] \/ request'[q] = NoRequest,
         rec' \in [Reconcilers -> RecState],
         \A r \in Reconcilers :
           \/ rec'[r] = rec[r]
           \/ rec'[r].pc # "inserting" /\ (rec'[r].pc # "idle" => rec'[r].configuration # None),
         leases' \in 0..MaxLeases, failures' \in 0..MaxFailures
  PROVE  IInv'
  <1>1. ASSUME NEW r \in Reconcilers PROVE rec'[r].pc # "inserting"
    BY DEF IInv, TypeOK
  <1>2. TypeOK'
    BY <1>1 DEF IInv, TypeOK
  <1>3. ASSUME NEW q \in Requests PROVE Pending(q)'
    BY NoRecords DEF IInv, Pending
  <1>4. ASSUME NEW r \in Reconcilers PROVE Reserved(r)'
    BY <1>1 DEF IInv, Reserved
  <1> QED BY <1>2, <1>3, <1>4 DEF IInv, OneFreshJob

\* A step that leaves the row, the queue and the requests alone, in which r
\* goes on, gives up, or locks the row.
LEMMA GoesOn ==
  ASSUME IInv, UNCHANGED <<row, request, queued, fresh, leases>>,
         failures' \in 0..MaxFailures,
         NEW r \in Reconcilers, NEW s \in RecState, rec' = [rec EXCEPT ![r] = s],
         s.pc # "idle" => s.configuration # None,
         \/ s.pc # "inserting" /\ lock' = (IF lock = r THEN None ELSE lock)
         \/ /\ s.pc = "inserting" /\ lock = None /\ lock' = r
            /\ Current(r) /\ fresh[rec[r].configuration] = 0
            /\ s.configuration = rec[r].configuration
            /\ s.revision = rec[r].revision /\ s.token = rec[r].token
  PROVE  IInv'
  <1>1. TypeOK'
    <2>1. ASSUME NEW p \in Reconcilers PROVE (rec[p].pc = "inserting" <=> lock = p)'
      BY DEF IInv, TypeOK
    <2> QED BY <2>1 DEF IInv, TypeOK
  <1>2. ASSUME NEW p \in Reconcilers PROVE Reserved(p)'
    <2>1. CASE p = r
      BY <2>1 DEF IInv, TypeOK, Reserved, Current
    <2>2. CASE p # r
      BY <2>2 DEF IInv, TypeOK, Reserved, Current
    <2> QED BY <2>1, <2>2
  <1> QED BY <1>1, <1>2 DEF IInv, Pending, OneFreshJob

\* The row a committing request leaves.
LEMMA PutRow ==
  ASSUME IInv, NEW q \in Requests, PutCommit(q)
  PROVE  /\ row' \in Row /\ row'.enabled = row.enabled /\ row'.configuration # None
  <1>1. /\ row \in Row /\ request[q].loaded \in Row /\ request[q].configuration \in Configs
        /\ request[q].loaded.configuration # None => row.configuration # None
    <2>1. request[q] \in RequestState /\ Pending(q) /\ request[q].pc = "put"
      BY DEF PutCommit, IInv, TypeOK
    <2> QED BY <2>1 DEF IInv, TypeOK, RequestState, Pending
  <1> DEFINE old == request[q].loaded
             c == Flushed(old.configuration, request[q].configuration, row.configuration)
             y == Flushed(old.retry, "null", row.retry)
             n == old.revision + 1
  <1>2. c \in Configs /\ y \in {"null", "future", "past"} /\ n \in Nat
    BY <1>1 DEF Flushed, Row
  <1>3. row' = [row EXCEPT !.configuration = c, !.revision = n, !.retry = y]
    BY DEF PutCommit
  <1> HIDE DEF c, y, n
  <1>4. \A k \in Configs \cup {None} :
          [row EXCEPT !.configuration = k, !.revision = n, !.retry = y] \in Row
    BY <1>1, <1>2, RowTypes
  <1> QED BY <1>1, <1>2, <1>3, <1>4 DEF Row

LEMMA PatchRow ==
  ASSUME IInv, NEW q \in Requests, PatchCommit(q)
  PROVE  /\ row' \in Row /\ row'.configuration = row.configuration
         /\ row'.enabled => row.configuration # None
  <1>1. /\ row \in Row /\ request[q].loaded \in Row /\ request[q].enabled \in BOOLEAN
        /\ request[q].enabled => row.configuration # None
    <2>1. request[q] \in RequestState /\ Pending(q) /\ request[q].pc = "patch"
      BY DEF PatchCommit, IInv, TypeOK
    <2> QED BY <2>1 DEF IInv, TypeOK, RequestState, Pending
  <1> DEFINE old == request[q].loaded
             e == Flushed(old.enabled, request[q].enabled, row.enabled)
             n == old.revision + 1
             t == Flushed(old.token, 0, row.token)
             b == IF old.token = 0 THEN row.live ELSE FALSE
  <1>2. n \in Nat /\ t \in Nat
    BY <1>1 DEF Flushed, Row
  <1>3. e \in BOOLEAN /\ (e => row.configuration # None)
    BY <1>1 DEF Flushed, Row, IInv, TypeOK
  <1>4. b \in BOOLEAN
    BY <1>1 DEF Row
  <1>5. row' = [row EXCEPT !.enabled = e, !.revision = n, !.token = t, !.live = b]
    BY DEF PatchCommit
  <1> HIDE DEF e, n, t, b
  <1> DEFINE w == [row EXCEPT !.enabled = e, !.revision = n, !.token = t, !.live = b]
  <1>6. w \in Row
    BY <1>1, <1>2, <1>3, <1>4 DEF Row
  <1>7. w.configuration = row.configuration /\ w.enabled = e
    BY <1>1, <1>2, <1>3, <1>4 DEF Row
  <1> HIDE DEF w
  <1> QED BY <1>3, <1>5, <1>6, <1>7 DEF w

\* The row a reconciler leaves: its policy is as it was.
LEMMA LeaseRow ==
  ASSUME IInv, NEW r \in Reconcilers,
         Acquire(r) \/ RecordError(r) \/ AlreadyQueued(r) \/ Insert(r)
  PROVE  row' \in Row /\ row'.enabled = row.enabled /\ row'.configuration = row.configuration
  <1>1. row \in Row /\ leases + 1 \in Nat
    BY DEF IInv, TypeOK
  <1>2. CASE Acquire(r)
    <2>1. row' = [row EXCEPT !.token = leases + 1, !.live = TRUE]
      BY <1>2 DEF Acquire
    <2>2. [row EXCEPT !.token = leases + 1, !.live = TRUE] \in Row
      BY <1>1, RowTypes
    <2> QED BY <1>1, <2>1, <2>2 DEF Row
  <1>3. CASE RecordError(r)
    <2>1. CASE row' = [row EXCEPT !.retry = "future", !.token = 0, !.live = FALSE]
      <3>1. [row EXCEPT !.retry = "future", !.token = 0, !.live = FALSE] \in Row
        BY <1>1, RowTypes
      <3> QED BY <1>1, <2>1, <3>1 DEF Row
    <2> QED BY <1>1, <1>3, <2>1 DEF RecordError
  <1>4. CASE AlreadyQueued(r) \/ Insert(r)
    <2>1. row' = [row EXCEPT !.token = 0, !.live = FALSE, !.retry = "null"]
      BY <1>4 DEF AlreadyQueued, Insert
    <2>2. [row EXCEPT !.token = 0, !.live = FALSE, !.retry = "null"] \in Row
      BY <1>1, RowTypes
    <2> QED BY <1>1, <2>1, <2>2 DEF Row
  <1> QED BY <1>2, <1>3, <1>4

\* A deadline that passes changes no more than that.
LEMMA DeadlineRow ==
  ASSUME IInv, LeaseExpires \/ RetryDue
  PROVE  row' \in Row /\ row'.enabled = row.enabled /\ row'.configuration = row.configuration
  <1>1. row \in Row
    BY DEF IInv, TypeOK
  <1>2. CASE LeaseExpires
    <2>1. row' = [row EXCEPT !.live = FALSE]
      BY <1>2 DEF LeaseExpires
    <2>2. [row EXCEPT !.live = FALSE] \in Row
      BY <1>1, RowTypes
    <2> QED BY <1>1, <2>1, <2>2 DEF Row
  <1>3. CASE RetryDue
    <2>1. row' = [row EXCEPT !.retry = "past"]
      BY <1>3 DEF RetryDue
    <2>2. [row EXCEPT !.retry = "past"] \in Row
      BY <1>1, RowTypes
    <2> QED BY <1>1, <2>1, <2>2 DEF Row
  <1> QED BY <1>2, <1>3

\* Every step keeps the invariant.
LEMMA InvStep == IInv /\ [Next]_vars => IInv'
  <1> SUFFICES ASSUME IInv, [Next]_vars PROVE IInv'
    OBVIOUS
  <1>1. /\ request \in [Requests -> RequestState] /\ rec \in [Reconcilers -> RecState]
        /\ row \in Row /\ leases \in 0..MaxLeases /\ failures \in 0..MaxFailures
        /\ row.enabled => row.configuration # None
    BY DEF IInv, TypeOK
  <1>2. ASSUME NEW q \in Requests, NEW k \in {"put", "patch"}, NEW e \in BOOLEAN,
               NEW c \in Configs \cup {None},
               request' = [request EXCEPT
                 ![q] = [pc |-> k, loaded |-> row, enabled |-> e, configuration |-> c]],
               k = "put" => c # None, k = "patch" /\ e => row.configuration # None,
               UNCHANGED <<row, rec, lock, queued, fresh, leases, failures>>
        PROVE  IInv'
    <2> DEFINE s == [pc |-> k, loaded |-> row, enabled |-> e, configuration |-> c]
    <2>1. /\ s \in RequestState
          /\ s.pc = k /\ s.loaded = row /\ s.enabled = e /\ s.configuration = c
      BY <1>1, SnapshotType
    <2>2. request' = [request EXCEPT ![q] = s]
      BY <1>2
    <2> HIDE DEF s
    <2>3. TypeOK'
      BY <1>1, <1>2, <2>1, <2>2 DEF IInv, TypeOK
    <2>4. ASSUME NEW p \in Requests PROVE Pending(p)'
      BY <1>1, <1>2, <2>1, <2>2 DEF IInv, Pending
    <2>5. ASSUME NEW r \in Reconcilers PROVE Reserved(r)'
      BY <1>2 DEF IInv, Reserved, Current
    <2> QED BY <1>2, <2>3, <2>4, <2>5 DEF IInv, OneFreshJob
  <1>3. ASSUME NEW q \in Requests, Api(q) PROVE IInv'
    <2>1. ASSUME NEW c \in Configs, PutLoad(q, c) PROVE IInv'
      BY <1>2, <2>1 DEF PutLoad
    <2>2. ASSUME NEW e \in BOOLEAN, PatchLoad(q, e) PROVE IInv'
      BY <1>2, <2>2 DEF PatchLoad, Patchable
    <2>3. CASE PutRefused(q)
      <3>1. TypeOK'
        BY <1>1, <2>3, NoRecords DEF PutRefused, IInv, TypeOK
      <3>2. ASSUME NEW p \in Requests PROVE Pending(p)'
        BY <1>1, <2>3, NoRecords DEF PutRefused, IInv, Pending
      <3>3. ASSUME NEW r \in Reconcilers PROVE Reserved(r)'
        BY <2>3 DEF PutRefused, IInv, Reserved, Current
      <3> QED BY <2>3, <3>1, <3>2, <3>3 DEF PutRefused, IInv, OneFreshJob
    <2>4. CASE PutCommit(q) \/ PatchCommit(q)
      <3>1. /\ request' = [request EXCEPT ![q] = NoRequest] /\ lock = None
            /\ UNCHANGED <<rec, lock, queued, fresh, leases, failures>>
        BY <2>4 DEF PutCommit, PatchCommit
      <3>2. /\ row' \in Row
            /\ row'.enabled => row'.configuration # None
            /\ row.configuration # None => row'.configuration # None
        BY <1>1, <2>4, PutRow, PatchRow
      <3>3. /\ request' \in [Requests -> RequestState]
            /\ \A p \in Requests : request'[p] = request[p] \/ request'[p] = NoRequest
        BY <1>1, <3>1, NoRecords
      <3> QED BY <1>1, <3>1, <3>2, <3>3, Unlocked
    <2> QED BY <1>3, <2>1, <2>2, <2>3, <2>4 DEF Api
  <1>4. ASSUME NEW r \in Reconcilers, Acquire(r) PROVE IInv'
    <2> DEFINE s == [pc |-> "admitting", configuration |-> row.configuration,
                     revision |-> row.revision, token |-> leases + 1]
    <2>1. /\ rec' = [rec EXCEPT ![r] = s] /\ lock = None /\ row.configuration \in Configs
          /\ leases' \in 0..MaxLeases /\ UNCHANGED <<request, lock, queued, fresh, failures>>
      BY <1>1, <1>4 DEF Acquire, Row
    <2>2. s \in RecState /\ s.pc = "admitting" /\ s.configuration # None
      BY <1>1, <2>1, ReservationType DEF Row
    <2> HIDE DEF s
    <2>3. /\ rec' \in [Reconcilers -> RecState]
          /\ \A p \in Reconcilers :
               \/ rec'[p] = rec[p]
               \/ rec'[p].pc # "inserting" /\ (rec'[p].pc # "idle" => rec'[p].configuration # None)
      BY <1>1, <2>1, <2>2
    <2> QED BY <1>1, <1>4, <2>1, <2>3, LeaseRow, Unlocked
  <1>5. ASSUME NEW r \in Reconcilers, RecordError(r) \/ AlreadyQueued(r) PROVE IInv'
    <2>1. /\ rec' = [rec EXCEPT ![r] = NoRec] /\ lock = None
          /\ UNCHANGED <<request, lock, queued, fresh, leases, failures>>
      BY <1>5 DEF RecordError, AlreadyQueued
    <2>2. /\ rec' \in [Reconcilers -> RecState]
          /\ \A p \in Reconcilers :
               \/ rec'[p] = rec[p]
               \/ rec'[p].pc # "inserting" /\ (rec'[p].pc # "idle" => rec'[p].configuration # None)
      BY <1>1, <2>1, NoRecords
    <2> QED BY <1>1, <1>5, <2>1, <2>2, LeaseRow, Unlocked
  <1>6. ASSUME NEW r \in Reconcilers,
               Admit(r) \/ AdmitFails(r) \/ Abandon(r) \/ SeesEmpty(r) \/ Dies(r)
        PROVE  IInv'
    <2>1. Reserved(r) /\ rec[r] \in RecState /\ rec[r].pc # "idle"
          /\ (rec[r].pc = "inserting" <=> lock = r)
      BY <1>1, <1>6 DEF Admit, AdmitFails, Abandon, SeesEmpty, Dies, IInv, TypeOK
    <2>2. ASSUME NEW pc \in {"admitted", "failing", "inserting"}
          PROVE  LET s == [rec[r] EXCEPT !.pc = pc]
                 IN  /\ s \in RecState /\ s.pc = pc /\ s.configuration = rec[r].configuration
                     /\ s.revision = rec[r].revision /\ s.token = rec[r].token
      BY <2>1 DEF RecState
    <2>3. ASSUME NEW pc \in {"admitted", "failing"}, rec' = [rec EXCEPT ![r].pc = pc],
                 rec[r].pc = "admitting", failures' \in 0..MaxFailures,
                 UNCHANGED <<row, request, lock, queued, fresh, leases>>
          PROVE  IInv'
      <3> DEFINE s == [rec[r] EXCEPT !.pc = pc]
      <3>1. s \in RecState /\ s.pc = pc /\ s.configuration = rec[r].configuration
        BY <2>2
      <3>2. rec' = [rec EXCEPT ![r] = s]
        BY <2>3
      <3> HIDE DEF s
      <3> QED BY <2>1, <2>3, <3>1, <3>2, GoesOn DEF Reserved
    <2>4. CASE Admit(r) \/ AdmitFails(r)
      <3>1. /\ rec[r].pc = "admitting" /\ failures' \in 0..MaxFailures
            /\ UNCHANGED <<row, request, lock, queued, fresh, leases>>
        BY <1>1, <2>4 DEF Admit, AdmitFails
      <3>2. rec' = [rec EXCEPT ![r].pc = "admitted"] \/ rec' = [rec EXCEPT ![r].pc = "failing"]
        BY <2>4 DEF Admit, AdmitFails
      <3> QED BY <2>3, <3>1, <3>2
    <2>5. CASE Abandon(r) \/ Dies(r)
      <3>1. /\ rec' = [rec EXCEPT ![r] = NoRec] /\ failures' \in 0..MaxFailures
            /\ lock' = (IF lock = r THEN None ELSE lock)
            /\ UNCHANGED <<row, request, queued, fresh, leases>>
        BY <1>1, <2>5 DEF Abandon, Dies
      <3> QED BY <3>1, NoRecords, GoesOn
    <2>6. CASE SeesEmpty(r)
      <3> DEFINE s == [rec[r] EXCEPT !.pc = "inserting"]
      <3>1. /\ s \in RecState /\ s.pc = "inserting" /\ s.configuration = rec[r].configuration
            /\ s.revision = rec[r].revision /\ s.token = rec[r].token
        BY <2>2
      <3>2. rec' = [rec EXCEPT ![r] = s]
        BY <2>6 DEF SeesEmpty
      <3> HIDE DEF s
      <3>3. fresh[rec[r].configuration] = 0
        <4>1. rec[r].configuration \in Configs /\ queued[rec[r].configuration] = 0
          BY <2>1, <2>6 DEF SeesEmpty, Matching, Reserved, RecState
        <4> QED BY <4>1 DEF IInv, TypeOK
      <3> QED BY <1>1, <2>1, <2>6, <3>1, <3>2, <3>3, GoesOn DEF SeesEmpty, Reserved
    <2> QED BY <1>6, <2>4, <2>5, <2>6
  <1>7. ASSUME NEW r \in Reconcilers, Insert(r) PROVE IInv'
    <2>1. /\ lock = r /\ rec[r].configuration \in Configs /\ fresh[rec[r].configuration] = 0
      <3>1. Reserved(r) /\ rec[r] \in RecState /\ rec[r].pc = "inserting" /\ lock = r
        BY <1>1, <1>7 DEF Insert, IInv, TypeOK
      <3> QED BY <3>1 DEF Reserved, RecState
    <2>2. row' \in Row /\ row'.enabled = row.enabled /\ row'.configuration = row.configuration
      BY <1>7, LeaseRow
    <2>3. TypeOK'
      <3>1. rec' \in [Reconcilers -> RecState]
        BY <1>1, <1>7, NoRecords DEF Insert
      <3>2. ASSUME NEW p \in Reconcilers PROVE (rec[p].pc = "inserting" <=> lock = p)'
        BY <1>1, <1>7, <2>1, NoRecords DEF Insert, IInv, TypeOK
      <3>3. /\ queued' \in [Configs -> Nat] /\ fresh' \in [Configs -> Nat]
            /\ \A c \in Configs : fresh'[c] <= queued'[c]
        BY <1>7, <2>1 DEF Insert, IInv, TypeOK
      <3> QED BY <1>1, <1>7, <2>2, <3>1, <3>2, <3>3 DEF Insert, TypeOK
    <2>4. ASSUME NEW p \in Reconcilers PROVE Reserved(p)'
      BY <1>1, <1>7, <2>1, NoRecords DEF Insert, IInv, TypeOK, Reserved
    <2>5. ASSUME NEW q \in Requests PROVE Pending(q)'
      BY <1>7, <2>2 DEF Insert, IInv, Pending
    <2>6. OneFreshJob'
      BY <1>7, <2>1 DEF Insert, IInv, TypeOK, OneFreshJob
    <2> QED BY <1>7, <2>3, <2>4, <2>5, <2>6 DEF Insert, IInv
  <1>8. ASSUME NEW c \in Configs, Arrives(c) \/ Leaves(c) PROVE IInv'
    <2>1. /\ queued' \in [Configs -> Nat] /\ fresh' \in [Configs -> Nat]
          /\ \A d \in Configs : fresh'[d] <= queued'[d] /\ fresh'[d] <= fresh[d]
      BY <1>8 DEF Arrives, Leaves, IInv, TypeOK
    <2>2. TypeOK'
      BY <1>8, <2>1 DEF Arrives, Leaves, IInv, TypeOK
    <2>3. ASSUME NEW r \in Reconcilers PROVE Reserved(r)'
      <3>1. Reserved(r) /\ rec[r] \in RecState
        BY <1>1 DEF IInv
      <3> QED BY <1>8, <2>1, <3>1 DEF Arrives, Leaves, Reserved, Current, RecState, IInv, TypeOK
    <2>4. OneFreshJob'
      BY <2>1 DEF IInv, TypeOK, OneFreshJob
    <2> QED BY <1>8, <2>2, <2>3, <2>4 DEF Arrives, Leaves, IInv, Pending
  <1>9. CASE LeaseExpires \/ RetryDue
    <2>1. lock = None /\ UNCHANGED <<request, rec, lock, queued, fresh, leases, failures>>
      BY <1>9 DEF LeaseExpires, RetryDue
    <2>2. row' \in Row /\ row'.enabled = row.enabled /\ row'.configuration = row.configuration
      BY <1>9, DeadlineRow
    <2> QED BY <1>1, <2>1, <2>2, Unlocked
  <1>10. CASE UNCHANGED vars
    BY <1>10 DEF vars, IInv, TypeOK, Pending, Reserved, Current, OneFreshJob
  <1> QED BY <1>3, <1>4, <1>5, <1>6, <1>7, <1>8, <1>9, <1>10 DEF Next, Reconcile

-----------------------------------------------------------------------------
(* Controller: theorems *)

\* The invariant holds for any number of configurations, API requests and
\* reconcilers.
THEOREM Invariance == Spec => []IInv
  BY InvInit, InvStep, PTL DEF Spec

\* The state always has the types declared for it.
THEOREM TypeCorrect == Spec => []TypeOK
  <1>1. IInv => TypeOK
    BY DEF IInv
  <1> QED BY <1>1, Invariance, PTL

\* The controller never has two jobs of its own waiting that nobody has taken.
THEOREM OneJobWaits == Spec => []OneFreshJob
  <1>1. IInv => OneFreshJob
    BY DEF IInv
  <1> QED BY <1>1, Invariance, PTL

\* A job is enqueued only for the policy in force at that moment.
THEOREM OnlyThePolicyIsServed == Spec => PolicyInForce
  <1> DEFINE Served ==
        \A c \in Configs : fresh'[c] > fresh[c] => row.enabled /\ row.configuration = c
  <1>1. ASSUME IInv, [Next]_vars PROVE Served
    <2>1. ASSUME NEW r \in Reconcilers, Insert(r) PROVE Served
      <3>1. Reserved(r) /\ rec[r].pc = "inserting" /\ fresh \in [Configs -> Nat]
        BY <1>1, <2>1 DEF Insert, IInv, TypeOK
      <3> QED BY <2>1, <3>1 DEF Insert, Reserved, Current
    <2>2. ASSUME NEW c \in Configs, Leaves(c) PROVE Served
      BY <1>1, <2>2 DEF Leaves, IInv, TypeOK
    <2>3. CASE UNCHANGED fresh
      BY <1>1, <2>3 DEF IInv, TypeOK
    <2> QED BY <1>1, <2>1, <2>2, <2>3
         DEF Next, Api, Reconcile, PutLoad, PutCommit, PutRefused, PatchLoad, PatchCommit,
             Acquire, Admit, AdmitFails, RecordError, Abandon, AlreadyQueued, SeesEmpty, Dies,
             Arrives, LeaseExpires, RetryDue, vars
  <1>2. IInv /\ [Next]_vars => [Served]_vars
    BY <1>1
  <1> QED BY <1>2, Invariance, PTL DEF Spec, PolicyInForce

=============================================================================
