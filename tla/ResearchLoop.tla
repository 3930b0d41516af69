---------------------------- MODULE ResearchLoop ----------------------------
(***************************************************************************)
(* What an account stage's child does between the lines of StageExecution: *)
(* the tool loop of RetrievalStrategy (src/malg/core/research_strategy.py) *)
(* over the LLM adapter, the search client and RetrievalService.fetch, the *)
(* budget they reserve their requests from (src/malg/core/budget.py), the  *)
(* validation of the evidence and its one repair                           *)
(* (src/malg/core/claims.py), and the way _child_stage_async classifies    *)
(* the end.                                                                *)
(*                                                                         *)
(* The language model is the environment: it may call any tool with any    *)
(* argument, offered or not, well formed or not.  A fetch runs in a thread *)
(* that a cancelled stage leaves behind.                                   *)
(***************************************************************************)
EXTENDS Integers, Sequences, FiniteSets

CONSTANTS
  Urls,        \* canonical public URLs
  Inputs,      \* those the stage's inputs mention
  Queries,     \* normalized search queries
  NoUrl,       \* no URL, and the citation of a quote no page holds
  MaxTurns,    \* max_reasoning_turns
  MaxIdle,     \* max_no_progress_turns
  MaxRetries,  \* llm.max_retries
  MaxClaims,   \* bound: observations of a result
  MaxActions,  \* bound: tool calls of one response
  Allowance,   \* context allowance, in tool calls
  Limit        \* [Kinds -> Nat]: attempts the stage allows of each kind

Kinds == {"llm", "search", "fetch"}

ASSUME UrlsAssumption == Inputs \subseteq Urls /\ NoUrl \notin Urls
ASSUME BoundsAssumption ==
  /\ MaxTurns \in Nat \ {0} /\ MaxIdle \in Nat \ {0}
  /\ MaxRetries \in Nat /\ MaxClaims \in Nat /\ MaxActions \in Nat /\ Allowance \in Nat
  /\ Limit \in [Kinds -> Nat]

VARIABLES
  pc,       \* where the child is
  loop,     \* the strategy's counters, see Loop
  known,    \* known_urls
  seen,     \* signatures of the calls that were executed
  outage,   \* search_failure is set
  spent,    \* [Kinds -> Nat]: ResearchBudget._attempts
  denied,   \* ResearchBudget._exhaustion is set
  cache,    \* [Urls -> Page]: RetrievalService._cache
  thread,   \* the URL being fetched in a thread
  asked,    \* [Urls -> Nat]: fetches that left for a URL (history)
  owed,     \* tool requests begun and not yet measured (history)
  saved,    \* candidates checkpointed under the claim
  draft,    \* the result as the model proposed it, then as it is kept
  outcome   \* how the stage has ended

evidenceVars == <<cache, thread, asked>>
vars == <<pc, loop, known, seen, outage, spent, denied, evidenceVars, owed, saved, draft, outcome>>

-----------------------------------------------------------------------------
(* Types *)

CorrectionLimit == 2

Tools == {"search", "fetch", "save_candidate", "finish"}

\* progressed and acted describe the response at hand, try the LLM's retries,
\* target is the page to fetch.
Loop == [turn : Nat, idle : Nat, rejected : Nat, context : Nat, acted : Nat, try : Nat,
         progressed : BOOLEAN, offered : SUBSET Tools, target : Urls \cup {NoUrl}]

\* A page without excerpts is no evidence, but it is cached all the same.
Pages == {"none", "evidence", "nothing"}

\* excerpt_start makes two signatures of one page.
Signatures == ({"search"} \X Queries) \cup ({"fetch", "fetch again", "save_candidate"} \X Urls)

\* sure: the outcome is complete or partial; signal: there is an engagement
\* signal; claims: for each observation the page its quote is cited from, those
\* of business fields first, and then those of the signal.
Draft == [data : BOOLEAN, sure : BOOLEAN, signal : BOOLEAN, fields : Nat,
          claims : Seq(Urls \cup {NoUrl})]
NoDraft == [data |-> FALSE, sure |-> FALSE, signal |-> FALSE, fields |-> 0, claims |-> <<>>]

Outcomes == {"none", "result", "budget_exhausted", "search_unavailable", "contract_failure",
             "failed", "cancelled"}

Init ==
  /\ pc = "turn"
  /\ loop = [turn |-> 1, idle |-> 0, rejected |-> 0, context |-> 0, acted |-> 0, try |-> 0,
             progressed |-> FALSE, offered |-> {}, target |-> NoUrl]
  /\ known = Inputs /\ seen = {} /\ outage = FALSE
  /\ spent = [k \in Kinds |-> 0] /\ denied = FALSE
  /\ cache = [u \in Urls |-> "none"] /\ thread = NoUrl /\ asked = [u \in Urls |-> 0]
  /\ owed = 0 /\ saved = {} /\ draft = NoDraft /\ outcome = "none"

-----------------------------------------------------------------------------
(* How the stage ends *)

\* _child_stage_async's handlers, in their order; exhausted is budget.exhausted.
Classified(error, exhausted) ==
  CASE error = "contract" -> "contract_failure"
    [] error = "search" -> "search_unavailable"
    [] error = "budget" \/ exhausted -> "budget_exhausted"
    [] OTHER -> "failed"

Ends(error, exhausted) == pc' = "over" /\ outcome' = Classified(error, exhausted)

\* SIGTERM cancels the task at whatever it awaits.  A search in flight measures
\* itself as cancelled; a fetch leaves that to its thread.
Cancel ==
  /\ pc \in {"asking", "searching", "fetching", "repairing"}
  /\ pc' = "over" /\ outcome' = "cancelled"
  /\ owed' = IF pc = "searching" THEN owed - 1 ELSE owed
  /\ UNCHANGED <<loop, known, seen, outage, spent, denied, evidenceVars, saved, draft>>

-----------------------------------------------------------------------------
(* The budget *)

MayReserve(kind) == spent[kind] < Limit[kind]

\* reserve_attempt, when the workflow and the claim allow it too.
Reserve(kind) ==
  /\ MayReserve(kind)
  /\ spent' = [spent EXCEPT ![kind] = @ + 1]
  /\ UNCHANGED denied

\* The stage's or the workflow's limit, the search client's own, or the
\* deadline; the SDK may wrap what reserve_attempt raises.
Denied(measured) ==
  /\ denied' = TRUE
  /\ \E error \in {"budget", "generation"} : Ends(error, TRUE)
  /\ owed' = owed - measured
  /\ UNCHANGED <<loop, known, seen, outage, spent, evidenceVars, saved, draft>>

\* The fence of a reservation or of a commit finds that the claim is gone.
Lost(measured) ==
  /\ Ends("claim", denied)
  /\ owed' = owed - measured
  /\ UNCHANGED <<loop, known, seen, outage, spent, denied, evidenceVars, saved, draft>>

-----------------------------------------------------------------------------
(* One turn *)

\* The last turn, and the last one before the loop gives up, offer only finish.
Offered ==
  IF loop.turn = MaxTurns \/ loop.idle = MaxIdle - 1 THEN {"finish"}
  ELSE IF outage THEN Tools \ {"search"} ELSE Tools

BeginTurn ==
  /\ pc = "turn"
  /\ IF loop.turn > MaxTurns \/ loop.context > Allowance
     THEN Ends("budget", denied) /\ UNCHANGED loop
     ELSE /\ pc' = "ask"
          /\ loop' = [loop EXCEPT !.offered = Offered, !.acted = 0, !.try = 0, !.progressed = FALSE]
          /\ UNCHANGED outcome
  /\ UNCHANGED <<known, seen, outage, spent, denied, evidenceVars, owed, saved, draft>>

\* OpenAIChatClient.acall reserves every attempt of its own.
Ask ==
  /\ pc = "ask"
  /\ \/ /\ Reserve("llm") /\ pc' = "asking"
        /\ UNCHANGED <<loop, known, seen, outage, evidenceVars, owed, saved, draft, outcome>>
     \/ Denied(0)
     \/ Lost(0)

Responds ==
  /\ pc = "asking" /\ pc' = "act"
  /\ UNCHANGED <<loop, known, seen, outage, spent, denied, evidenceVars, owed, saved, draft, outcome>>

\* A timeout is tried again; another error, the last timeout or a rejected
\* grammar is raised.
AskFails ==
  /\ pc = "asking"
  /\ \/ /\ loop.try < MaxRetries
        /\ loop' = [loop EXCEPT !.try = @ + 1]
        /\ pc' = "ask" /\ UNCHANGED outcome
     \/ /\ \E error \in {"generation", "contract"} : Ends(error, denied)
        /\ UNCHANGED loop
  /\ UNCHANGED <<known, seen, outage, spent, denied, evidenceVars, owed, saved, draft>>

-----------------------------------------------------------------------------
(* Tool calls *)

Called == [loop EXCEPT !.acted = @ + 1, !.context = @ + 1]

Exceeded(rejected) == rejected > CorrectionLimit

\* A rejected call gets a correction, or ends the stage when none is left.
Rejects(count) ==
  /\ loop' = [count EXCEPT !.rejected = @ + 1]
  /\ IF Exceeded(loop.rejected + 1) THEN Ends("contract", denied)
                                    ELSE pc' = "act" /\ UNCHANGED outcome

\* The next call of the response, to a tool it was offered.
Calls(tool) == pc = "act" /\ loop.acted < MaxActions /\ tool \in loop.offered

\* Malformed arguments, an unknown tool or one that was not offered.
BadCall ==
  /\ pc = "act" /\ loop.acted < MaxActions
  /\ Rejects(Called)
  /\ UNCHANGED <<known, seen, outage, spent, denied, evidenceVars, owed, saved, draft>>

\* The same call again; repeating a search that is suspended is no repetition.
RepeatedCall(s) ==
  /\ Calls(IF s[1] = "fetch again" THEN "fetch" ELSE s[1])
  /\ s \in seen /\ ~ (s[1] = "search" /\ outage)
  /\ Rejects(Called)
  /\ UNCHANGED <<known, seen, outage, spent, denied, evidenceVars, owed, saved, draft>>

\* Plausible bug: only the next turn's list of tools suspends the search.
SuspendedNextTurn == FALSE

\* Search is suspended, for the calls of the same response too.
Suspended == outage

SearchCall(q) ==
  /\ Calls("search")
  /\ loop' = Called
  /\ IF Suspended
     THEN pc' = "act" /\ UNCHANGED <<seen, owed>>
     ELSE /\ <<"search", q>> \notin seen
          /\ seen' = seen \cup {<<"search", q>>}
          /\ owed' = owed + 1 /\ pc' = "search"
  /\ UNCHANGED <<known, outage, spent, denied, evidenceVars, saved, draft, outcome>>

FetchCall(s) ==
  /\ Calls("fetch") /\ s[1] \in {"fetch", "fetch again"} /\ s \notin seen
  /\ seen' = seen \cup {s}
  /\ IF s[2] \notin known THEN Rejects(Called) /\ UNCHANGED owed
     ELSE /\ pc' = "fetch" /\ loop' = [Called EXCEPT !.target = s[2]]
          /\ owed' = owed + 1 /\ UNCHANGED outcome
  /\ UNCHANGED <<known, outage, spent, denied, evidenceVars, saved, draft>>

\* checkpoint_candidate commits the discovery before it is acknowledged.
SaveCall(u) ==
  /\ Calls("save_candidate") /\ <<"save_candidate", u>> \notin seen
  /\ \/ /\ seen' = seen \cup {<<"save_candidate", u>>}
        /\ IF u \notin known THEN Rejects(Called) /\ UNCHANGED saved
           ELSE /\ saved' = saved \cup {u} /\ pc' = "act"
                /\ loop' = [Called EXCEPT !.progressed = TRUE] /\ UNCHANGED outcome
        /\ UNCHANGED <<known, outage, spent, denied, evidenceVars, owed, draft>>
     \/ u \in known /\ Lost(0)

\* A result without data cannot be told from an outage: the outage is raised.
FinishCall(proposal) ==
  /\ Calls("finish")
  /\ IF outage /\ ~ proposal.data
     THEN Ends("search", denied) /\ UNCHANGED draft
     ELSE draft' = proposal /\ pc' = "validate" /\ UNCHANGED outcome
  /\ loop' = Called
  /\ UNCHANGED <<known, seen, outage, spent, denied, evidenceVars, owed, saved>>

\* The end of a response; one without any call is rejected too.
EndTurn ==
  LET idle == IF loop.progressed THEN 0 ELSE loop.idle + 1
      rejected == IF loop.acted = 0 THEN loop.rejected + 1 ELSE loop.rejected IN
  /\ pc = "act"
  /\ loop' = [loop EXCEPT !.turn = @ + 1, !.idle = idle, !.rejected = rejected]
  /\ CASE Exceeded(rejected) -> Ends("contract", denied)
       [] ~ Exceeded(rejected) /\ idle >= MaxIdle -> Ends(IF outage THEN "search" ELSE "budget", denied)
       [] OTHER -> pc' = "turn" /\ UNCHANGED outcome
  /\ UNCHANGED <<known, seen, outage, spent, denied, evidenceVars, owed, saved, draft>>

-----------------------------------------------------------------------------
(* SearxngSearchClient.search, whose cache is SearchCache's *)

\* The shared cache has the response, or the provider gives one.
SearchFinds(results) ==
  /\ pc \in {"search", "searching"}
  /\ known' = known \cup results
  /\ loop' = [loop EXCEPT !.progressed = @ \/ results # {}]
  /\ owed' = owed - 1 /\ pc' = "act"
  /\ UNCHANGED <<seen, outage, spent, denied, evidenceVars, saved, draft, outcome>>

SearchSend ==
  /\ pc = "search"
  /\ \/ /\ Reserve("search") /\ pc' = "searching"
        /\ UNCHANGED <<loop, known, seen, outage, evidenceVars, owed, saved, draft, outcome>>
     \/ Denied(1)

\* The provider is down, or was for another worker, or the reservation finds that
\* the claim is gone: that is a ValueError, which the client takes for an answer it
\* cannot parse.
SearchFails ==
  /\ pc \in {"search", "searching"}
  /\ outage' = TRUE
  /\ owed' = owed - 1 /\ pc' = "act"
  /\ UNCHANGED <<loop, known, seen, spent, denied, evidenceVars, saved, draft, outcome>>

\* Plausible bug: the strategy measures again what the client has measured.
MeasuredTwice == 2

\* finish_tool_request, called by the client alone (record_invocation=False).
Measured == 1

\* The client refuses the query or its language, in good health.
SearchRefused ==
  /\ pc = "search"
  /\ Rejects(loop)
  /\ owed' = owed - Measured
  /\ UNCHANGED <<known, seen, outage, spent, denied, evidenceVars, saved, draft>>

-----------------------------------------------------------------------------
(* RetrievalService.fetch *)

\* What the loop takes from a page; links is empty for one that failed.
Observes(page, links) ==
  /\ known' = known \cup links
  /\ loop' = [loop EXCEPT !.progressed = @ \/ page = "evidence", !.target = NoUrl]
  /\ owed' = owed - 1 /\ pc' = "act"
  /\ UNCHANGED <<seen, outage, spent, denied, saved, draft, outcome>>

FetchCached ==
  /\ pc = "fetch" /\ cache[loop.target] # "none"
  /\ Observes(cache[loop.target], {})
  /\ UNCHANGED evidenceVars

FetchSend ==
  /\ pc = "fetch" /\ cache[loop.target] = "none"
  /\ \/ /\ Reserve("fetch") /\ pc' = "fetching"
        /\ thread' = loop.target /\ asked' = [asked EXCEPT ![loop.target] = @ + 1]
        /\ UNCHANGED <<loop, known, seen, outage, cache, owed, saved, draft, outcome>>
     \/ Denied(1)
     \/ Lost(1)

\* The thread follows a redirect, cancelled or not.  A denial there is raised by
\* the fetch if it is still awaited; the thread is then done.
Redirect ==
  /\ thread # NoUrl
  /\ \/ /\ Reserve("fetch")
        /\ UNCHANGED <<pc, outcome, thread, owed>>
     \/ /\ denied' = TRUE /\ thread' = NoUrl /\ owed' = owed - 1
        /\ IF pc = "fetching" THEN \E error \in {"budget", "generation"} : Ends(error, TRUE)
                              ELSE UNCHANGED <<pc, outcome>>
        /\ UNCHANGED spent
  /\ UNCHANGED <<loop, known, seen, outage, cache, asked, saved, draft>>

\* Failed pages are cached like the others.
Cached(page) == page

FetchReturns(page, links) ==
  /\ pc = "fetching" /\ (page = "nothing" => links = {})
  /\ cache' = [cache EXCEPT ![thread] = Cached(page)]
  /\ thread' = NoUrl
  /\ Observes(page, links)
  /\ UNCHANGED asked

\* finish_cancelled: the thread of a cancelled fetch ends and measures it.
FetchReturnsLate ==
  /\ pc # "fetching" /\ thread # NoUrl
  /\ thread' = NoUrl /\ owed' = owed - 1
  /\ UNCHANGED <<pc, loop, known, seen, outage, spent, denied, cache, asked, saved, draft, outcome>>

-----------------------------------------------------------------------------
(* Evidence *)

\* validate_claim_proposal: the quote is on a page this stage has fetched.
Cited(u) == u # NoUrl /\ cache[u] = "evidence"
Positions == 1..Len(draft.claims)
Issues == {k \in Positions : ~ Cited(draft.claims[k])}

\* Observations the outcome or the engagement signal demands are missing; any
\* other result may keep data without citing anything.
Bare(d) == (d.sure /\ d.fields = 0) \/ (d.signal /\ d.fields = Len(d.claims))

Discarded == pc' = "commit" /\ draft' = NoDraft

\* validate_research_evidence keeps a result whose observations are complete and
\* all cited, or discards all its data.
Kept(claims) ==
  LET kept == [draft EXCEPT !.claims = claims] IN
  \/ /\ ~ Bare(kept) /\ \A k \in DOMAIN claims : Cited(claims[k])
     /\ pc' = "commit" /\ draft' = kept
  \/ /\ Bare(kept) \/ \E k \in DOMAIN claims : ~ Cited(claims[k])
     /\ Discarded

\* Wrong citations are repaired if there are pages to cite, but missing ones are
\* not, and nor are those of a signal that comes without other observations.
Repairable ==
  /\ Issues # {} /\ draft.fields > 0 /\ ~ Bare(draft)
  /\ \E u \in Urls : cache[u] = "evidence"

\* validate_account_evidence: one repair at most.
Validate ==
  /\ pc = "validate"
  /\ IF ~ draft.data THEN pc' = "commit" /\ UNCHANGED draft
     ELSE IF Repairable THEN pc' = "repair" /\ UNCHANGED draft
     ELSE Kept(draft.claims)
  /\ loop' = [loop EXCEPT !.try = 0]
  /\ UNCHANGED <<known, seen, outage, spent, denied, evidenceVars, owed, saved, outcome>>

\* An attempt of the repair, a loop of its own that offers only finish; it goes
\* on after a correction or a response without a call.
Repair ==
  /\ pc = "repair"
  /\ \/ /\ Reserve("llm") /\ pc' = "repairing"
        /\ UNCHANGED <<loop, known, seen, outage, evidenceVars, owed, saved, draft, outcome>>
     \/ Denied(0)
     \/ Lost(0)

RepairGoesOn ==
  /\ pc = "repairing" /\ loop.try < MaxTurns - 1
  /\ loop' = [loop EXCEPT !.try = @ + 1]
  /\ pc' = "repair"
  /\ UNCHANGED <<known, seen, outage, spent, denied, evidenceVars, owed, saved, draft, outcome>>

\* Plausible bug: the corrected observations are taken as they come.
RepairedUnchecked(claims) ==
  pc' = "commit" /\ draft' = [draft EXCEPT !.claims = claims]

\* The citations of the positions at issue are replaced, and everything is
\* validated again.
Repaired(claims) == Kept(claims)

\* Corrections of other positions are refused, like a repair that fails.
RepairAnswers(corrections) ==
  /\ pc = "repairing"
  /\ IF DOMAIN corrections # Issues THEN Discarded
     ELSE Repaired([k \in Positions |-> IF k \in Issues THEN corrections[k] ELSE draft.claims[k]])
  /\ UNCHANGED <<loop, known, seen, outage, spent, denied, evidenceVars, owed, saved, outcome>>

\* The repair's own limits, a rejected grammar, or too many rejections.
RepairFails ==
  /\ pc = "repairing"
  /\ \E error \in {"budget", "contract"} : Ends(error, denied)
  /\ UNCHANGED <<loop, known, seen, outage, spent, denied, evidenceVars, owed, saved, draft>>

\* persist_stage_result with the sources and the claims, in one fenced transaction.
Commit ==
  /\ pc = "commit"
  /\ \/ /\ pc' = "over" /\ outcome' = "result"
        /\ UNCHANGED <<loop, known, seen, outage, spent, denied, evidenceVars, owed, saved, draft>>
     \/ Lost(0)

-----------------------------------------------------------------------------

\* What the model may propose: complete and partial results have data, and a
\* signal's observations a signal.
Proposals ==
  {NoDraft} \cup
  {d \in [data : {TRUE}, sure : BOOLEAN, signal : BOOLEAN, fields : 0..MaxClaims,
          claims : UNION {[1..n -> Urls \cup {NoUrl}] : n \in 0..MaxClaims}] :
     d.fields <= Len(d.claims) /\ (d.fields < Len(d.claims) => d.signal)}

ToolCall ==
  \/ BadCall \/ EndTurn
  \/ \E s \in seen : RepeatedCall(s)
  \/ \E q \in Queries : SearchCall(q)
  \/ \E s \in Signatures : FetchCall(s)
  \/ \E u \in Urls : SaveCall(u)
  \/ \E proposal \in Proposals : FinishCall(proposal)

Retrieval ==
  \/ \E results \in SUBSET Urls : SearchFinds(results)
  \/ SearchSend \/ SearchFails \/ SearchRefused
  \/ FetchCached \/ FetchSend \/ Redirect \/ FetchReturnsLate
  \/ \E page \in Pages \ {"none"}, links \in SUBSET Urls : FetchReturns(page, links)

Evidence ==
  \/ Validate \/ Repair \/ RepairGoesOn \/ RepairFails \/ Commit
  \/ \E positions \in SUBSET Positions :
       \E corrections \in [positions -> Urls \cup {NoUrl}] : RepairAnswers(corrections)

Next == BeginTurn \/ Ask \/ Responds \/ AskFails \/ ToolCall \/ Retrieval \/ Evidence \/ Cancel

Spec == Init /\ [][Next]_vars

-----------------------------------------------------------------------------
(* Properties *)

\* The allowances of the stage: no kind of request exceeds its limit, even
\* when redirects of a cancelled fetch go on reserving (ResearchBudget); two
\* corrections and no more (RetrievalStrategy.execute); and a page is fetched
\* once, however often and with whatever result (RetrievalService._cache).
TypeOK ==
  /\ loop \in Loop /\ loop.rejected <= CorrectionLimit + 1 /\ known \subseteq Urls /\ seen \subseteq Signatures /\ saved \subseteq Urls
  /\ outage \in BOOLEAN /\ denied \in BOOLEAN /\ outcome \in Outcomes
  /\ cache \in [Urls -> Pages] /\ thread \in Urls \cup {NoUrl} /\ draft \in Draft
  /\ \A k \in Kinds : spent[k] \in 0..Limit[k]
  /\ \A u \in Urls : asked[u] \in 0..1

\* What is committed as research is research: its every quote is on a page that
\* this stage has fetched, whatever a repair has changed, a complete or partial
\* result and an engagement signal have quotes, and no denial was swallowed on
\* the way, whatever the SDK made of the exception (validate_account_evidence,
\* ResearchBudget.exhaustion).  A result that only needs review may have none.
HonestEnd ==
  pc = "over" =>
    /\ outcome = "result" /\ draft.data =>
         /\ draft.sure => draft.fields > 0
         /\ draft.signal => draft.fields # Len(draft.claims)
         /\ \A k \in Positions : Cited(draft.claims[k])
    /\ denied => outcome \in {"budget_exhausted", "cancelled"}

\* After an outage no search leaves for the rest of the stage, not even from
\* later calls of the same response; and a loop that gets nowhere without it is
\* put down to the outage: the budget is blamed only for a denial, for the limits
\* of turns and context, and for a repair (RetrievalStrategy.execute).
OutageContained ==
  [][outage =>
       /\ spent'["search"] = spent["search"]
       /\ outcome = "none" /\ outcome' = "budget_exhausted" =>
            denied' \/ loop.turn > MaxTurns \/ loop.context > Allowance \/ pc = "repairing"]_vars

\* Every tool request is measured once: while its tool is still at work it is
\* owed, and nothing else is, through denials, refusals and the late end of a
\* cancelled fetch.
MeasuredOnce ==
  owed = IF pc \in {"search", "searching", "fetch", "fetching"} \/ thread # NoUrl THEN 1 ELSE 0

=============================================================================
