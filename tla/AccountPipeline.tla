-------------------------- MODULE AccountPipeline --------------------------
(***************************************************************************)
(* What ResearchWorker._dispatch (src/malg/worker/service.py) does with a  *)
(* claimed job from its first stage to its completion: candidates are      *)
(* researched one stage at a time, matched against the live CRM, published *)
(* as bundles through CrmPublisher (src/malg/crm/publisher.py), reported   *)
(* as progress and counted for the outcome.  A claim that ends early is    *)
(* followed by another one, which starts over from the checkpoints.        *)
(*                                                                         *)
(* StageExecution and ResearchLoop are inside Study, CrmPublication inside *)
(* Prepare, Create and Confirm, FieldEnrichment inside SendUpdate,         *)
(* ApplyUpdate and Enrich, JobRoutes inside Claim, Lost and Retry.         *)
(***************************************************************************)
EXTENDS Integers, Sequences, FiniteSets

CONSTANTS
  Kinds,           \* kinds of job: "account", "icp" and "campaign"
  None,            \* no link, no token, no data
  Accounts,        \* what research may say of a company
  DomainOf, LinkOf,   \* its domain, and its LinkedIn page or None
  People,          \* what research may say of a person
  TokenOf, NameOf, \* LinkedIn page or e-mail, or None, and the name
  Texts,           \* what research may say of an opportunity
  Icps, TargetOf,  \* what research may say of an ICP; that without its name
  Strangers,       \* companies of the CRM that this job does not create
  Target,          \* company_count, or icp_count
  PerCompany,      \* people_per_company and opportunities_per_company
  Candidates,      \* candidates a job may try
  Attempts,        \* stages tried for the people, or opportunities, of a company
  MaxClaims,       \* bound: claims of the job
  MaxEdits         \* bound: changes of the CRM by people

ASSUME KindsAssumption == Kinds \subseteq {"account", "icp", "campaign"}
ASSUME TargetAssumption == Target \in Nat \ {0} /\ PerCompany \in Nat \ {0}
ASSUME BoundsAssumption ==
  Candidates \in Nat /\ Attempts \in Nat /\ MaxClaims \in Nat /\ MaxEdits \in Nat

VARIABLES
  job,        \* the kind of the job
  pc,         \* where the job, and its claim, are
  claims,     \* claims so far
  mem,        \* what the claim holds in memory, see Fresh
  saved,      \* stage key -> checkpoint: research_stage_results
  intent,     \* record id -> crm_write_operations
  companies,  \* record id -> identities of a Company of Twenty
  people,     \* record id -> a Person of Twenty
  records,    \* ids of the other records of Twenty
  deleted,    \* ids of deleted records
  flight,     \* updates sent to Twenty and not yet applied: fill_missing
  strays,     \* identities filled in after their publication moved on (history)
  changed,    \* the parents differ from the workflow's crm_inputs
  late,       \* the workflow's deadline is over
  edits,      \* changes by people so far
  progress,   \* bundles of all revisions of the progress checkpoint
  result,     \* the completed job's outcome and bundles
  overtaken   \* bundles begun after the parents changed (history)

crmVars == <<companies, people, records, deleted, flight, strays>>
envVars == <<job, changed, late, edits>>
reportVars == <<progress, result, overtaken>>
vars == <<pc, claims, mem, saved, intent, crmVars, envVars, reportVars>>

-----------------------------------------------------------------------------
(* Types *)

NoResult == [outcome |-> "none", bundles |-> <<>>]

\* index, attempt: the stage; account, company, persons, texts: the bundle, in
\* account also the data of an ICP or a campaign; todo: the places of what is
\* still to publish; seen: ICPs so far.
Fresh == [index |-> 0, attempt |-> 0, account |-> None, company |-> <<>>, persons |-> <<>>,
          texts |-> <<>>, todo |-> {}, seen |-> {}, bundles |-> <<>>,
          exhausted |-> FALSE, review |-> FALSE]

\* f with y for x, unless it has a value for x.
With(f, x, y) == [z \in DOMAIN f \cup {x} |-> IF z \in DOMAIN f THEN f[z] ELSE y]

Init ==
  /\ job \in Kinds
  /\ pc = "queued" /\ claims = 0 /\ mem = Fresh
  /\ saved = <<>> /\ intent = <<>>
  /\ \E there \in SUBSET Strangers : companies = [c \in {s.id : s \in there} |->
       [domains |-> UNION {s.domains : s \in {t \in there : t.id = c}},
        links |-> UNION {s.links : s \in {t \in there : t.id = c}}]]
  /\ people = <<>> /\ records = {} /\ deleted = {} /\ flight = {} /\ strays = {}
  /\ changed = FALSE /\ late = FALSE /\ edits = 0
  /\ progress = {} /\ result = NoResult /\ overtaken = 0

-----------------------------------------------------------------------------
(* Identity and matching (src/malg/crm/identity.py, matching.py) *)

\* deterministic_id, from what identifies the record.
CompanyIdOf(a) == <<"company", DomainOf[a]>>
PersonIdOf(p, company) ==
  IF TokenOf[p] # None THEN <<"person", TokenOf[p]>> ELSE <<"person", company, NameOf[p]>>
IcpIdOf(i) == <<"icp", TargetOf[i]>>

\* Plausible bug: a page is looked for among companies with a known domain.
ByLinkOfKnown(a) ==
  {c \in DOMAIN companies : LinkOf[a] \in companies[c].links /\ companies[c].domains # {}}

\* find_companies, by domain and by link.
ByDomain(a) == {c \in DOMAIN companies : DomainOf[a] \in companies[c].domains}
ByLink(a) == {c \in DOMAIN companies : LinkOf[a] \in companies[c].links}

\* _identity_match: what both sides state agrees, and something is stated by both.
SameCompany(c, a) ==
  /\ companies[c].domains = {} \/ DomainOf[a] \in companies[c].domains
  /\ LinkOf[a] = None \/ companies[c].links = {} \/ LinkOf[a] \in companies[c].links
  /\ c \in ByDomain(a) \cup ByLink(a)

\* choose_company_match has a review reason, or the match is not the company.
Ambiguous(a) ==
  \/ Cardinality(ByDomain(a)) > 1 \/ Cardinality(ByLink(a)) > 1
  \/ ByDomain(a) # {} /\ ByLink(a) # {} /\ ByDomain(a) # ByLink(a)
  \/ \E c \in ByDomain(a) \cup ByLink(a) : ~ SameCompany(c, a)

\* The one company that matches, or the one to create.
CompanyFor(a) ==
  IF ByDomain(a) \cup ByLink(a) = {} THEN CompanyIdOf(a)
  ELSE CHOOSE c \in ByDomain(a) \cup ByLink(a) : TRUE

\* find_people: strong identities anywhere, the name only within the company.
ByToken(p) == {i \in DOMAIN people : TokenOf[p] # None /\ people[i].token = TokenOf[p]}
ByName(p, company) ==
  {i \in DOMAIN people : people[i].company = company /\ people[i].name = NameOf[p]}

SamePerson(i, p, company) ==
  /\ people[i].company = company
  /\ IF TokenOf[p] # None /\ people[i].token # None
     THEN people[i].token = TokenOf[p] ELSE people[i].name = NameOf[p]

\* choose_person_match: a strong match before a name.
PersonMatches(p, company) == IF ByToken(p) # {} THEN ByToken(p) ELSE ByName(p, company)

\* The matches of a person that is not to be used.
Doubtful(p, company) ==
  \/ Cardinality(PersonMatches(p, company)) > 1
  \/ \E i \in PersonMatches(p, company) : ~ SamePerson(i, p, company)

-----------------------------------------------------------------------------
(* How a claim ends *)

Keep(m) == mem' = m /\ UNCHANGED <<claims, saved, intent, crmVars, envVars>>

\* An error of a request, of a stage or of the contract: fail_job.
Fail == pc' = "failed" /\ Keep(Fresh) /\ UNCHANGED reportVars

\* _complete, whose outcome and bundles become the job's.
Complete(outcome, bundles) ==
  /\ pc' = "over" /\ Keep(Fresh)
  /\ result' = [outcome |-> outcome, bundles |-> bundles]
  /\ UNCHANGED <<progress, overtaken>>

\* run_once's handler of a denial or a deadline nobody else has handled.
Exhausted == Complete("budget_exhausted", <<>>)

Working == pc \notin {"queued", "failed", "over"}

Fails == Working /\ Fail

\* A crash, or the lease is lost: the job is claimed again.
Lost ==
  /\ Working /\ pc' = "queued" /\ Keep(Fresh) /\ UNCHANGED reportVars

\* POST /jobs/{id}/retry, which renews the deadline and the allowances but
\* leaves the checkpoints.  Here it is taken while the job is failed; the one that
\* takes effect after another retry is left to JobRoutes and CrmPublication.
Retry ==
  /\ pc = "failed" /\ pc' = "queued"
  /\ late' = FALSE
  /\ UNCHANGED <<claims, mem, saved, intent, crmVars, job, changed, edits, reportVars>>

Exists(id) == id \in DOMAIN companies \cup DOMAIN people \cup records

\* _identity_match: the record Twenty holds under the id is the one that is meant.
SameRecord(id, object, data) ==
  CASE object = "company" -> SameCompany(id, data)
    [] object = "person" -> SamePerson(id, data[1], data[2])
    [] OTHER -> TRUE

\* reconcile_pending: what Twenty holds decides an unresolved intent.
Reconciled(id) ==
  LET i == intent[id] IN
  IF i.status \notin {"prepared", "failed"} \/ ~ Exists(id) THEN i
  ELSE [i EXCEPT !.status = IF SameRecord(id, i.object, i.data) THEN "confirmed" ELSE "conflict"]

\* _dispatch reconciles the job's intents and compares the parents with the
\* workflow's.
Claim ==
  /\ pc = "queued" /\ claims < MaxClaims /\ claims' = claims + 1
  /\ intent' = [id \in DOMAIN intent |-> Reconciled(id)]
  /\ pc' = IF changed THEN "failed" ELSE "candidate"
  /\ UNCHANGED <<mem, saved, crmVars, envVars, reportVars>>

\* The sweep of worker_loop cancels an intent that was never attempted.
Sweep(id) ==
  /\ ~ Working /\ pc # "over" /\ intent[id].status = "prepared" /\ ~ Exists(id)
  /\ intent' = [intent EXCEPT ![id].status = "cancelled"]
  /\ UNCHANGED <<pc, claims, mem, saved, crmVars, envVars, reportVars>>

-----------------------------------------------------------------------------
(* Stages *)

\* The loops over candidates, and over the attempts for one company.
Stops == Len(mem.bundles) >= Target \/ mem.index >= Candidates

AtStage ==
  \/ pc = "candidate" /\ ~ Stops
  \/ pc = "validation"
  \/ pc = "people" /\ Len(mem.persons) < PerCompany /\ mem.attempt < Attempts
  \/ pc = "opportunities" /\ Len(mem.texts) < PerCompany /\ mem.attempt < Attempts

\* The host-owned stage keys.
StageKey == <<mem.index, pc, mem.attempt>>

\* "limit" is a denial _local_attempt_limit admits, "denied" any other one.
Denials == {"limit", "denied"}
Finding(outcome, data) == [outcome |-> outcome, data |-> data]

\* What a supervised stage may commit; nothing but a denial past the deadline.
Findings ==
  {Finding("denied", None)} \cup
  IF late THEN {}
  ELSE {Finding("limit", None), Finding("rejected", None)} \cup
       CASE pc = "candidate" ->
              [outcome : {"accepted"},
               data : CASE job = "account" -> Accounts [] job = "icp" -> Icps [] OTHER -> Texts]
              \cup IF job = "account" THEN {Finding("review", None)} ELSE {}
         [] pc = "validation" -> {Finding("accepted", None), Finding("review", None)}
         [] pc = "people" -> [outcome : {"accepted"}, data : People]
         [] pc = "opportunities" -> [outcome : {"accepted"}, data : Texts]

\* Plausible bug: a checkpointed denial is no checkpoint.
ReusedUnlessDenied(key) == key \in DOMAIN saved /\ saved[key].outcome \notin Denials

\* _research reuses any checkpoint of the key, whatever its input was.
Reused(key) == key \in DOMAIN saved

\* _research runs the stage, whose result or denial is committed.
Study ==
  /\ AtStage /\ ~ Reused(StageKey)
  /\ \E r \in Findings :
       saved' = [k \in DOMAIN saved \cup {StageKey} |-> IF k = StageKey THEN r ELSE saved[k]]
  /\ UNCHANGED <<pc, claims, mem, intent, crmVars, envVars, reportVars>>

\* The checkpoint of the stage at hand.
Has(outcomes) ==
  AtStage /\ StageKey \in DOMAIN saved /\ saved[StageKey].outcome \in outcomes
Data == saved[StageKey].data

Goto(place, m) == pc' = place /\ Keep(m) /\ UNCHANGED reportVars

NextCandidate(m) ==
  Goto("candidate", [Fresh EXCEPT !.index = m.index + 1, !.seen = m.seen, !.bundles = m.bundles,
                                  !.exhausted = m.exhausted, !.review = m.review])

\* A local denial yields to the next candidate of an account job; another one
\* ends the loop.  A campaign has no loop.
StageDenied ==
  /\ Has(Denials)
  /\ IF job = "campaign" THEN Exhausted
     ELSE IF job = "account" /\ saved[StageKey].outcome = "limit" THEN NextCandidate(mem)
     ELSE Goto("finish", [mem EXCEPT !.exhausted = TRUE])

\* No data, or data that is not accepted.
StageRejected ==
  /\ Has({"rejected", "review"})
  /\ CASE pc \in {"people", "opportunities"} -> Goto(pc, [mem EXCEPT !.attempt = @ + 1])
       [] job = "campaign" -> Complete("insufficient_evidence", <<>>)
       [] OTHER -> NextCandidate([mem EXCEPT !.review = @ \/ saved[StageKey].outcome = "review"])

\* An accepted account is validated by a stage of its own.
AccountAccepted ==
  /\ job = "account" /\ pc = "candidate" /\ Has({"accepted"})
  /\ Goto("validation", [mem EXCEPT !.account = Data])

Validated ==
  /\ pc = "validation" /\ Has({"accepted"})
  /\ Goto("match", mem)

\* match_company, before there are people to look for.
MatchCompany ==
  /\ pc = "match"
  /\ IF late THEN Exhausted
     ELSE IF Ambiguous(mem.account) THEN NextCandidate(mem)
     ELSE Goto("people", [mem EXCEPT !.company = CompanyFor(mem.account)])

\* _research_people: match_person, whose deadline counts as a local limit; a
\* person of doubt or one who is planned already takes an attempt.
PersonFound ==
  LET p == Data
      matches == PersonMatches(p, mem.company)
      id == IF matches = {} THEN PersonIdOf(p, mem.company) ELSE CHOOSE i \in matches : TRUE
      planned == {mem.persons[k].id : k \in DOMAIN mem.persons}
      next == [mem EXCEPT !.attempt = @ + 1] IN
  /\ pc = "people" /\ Has({"accepted"})
  /\ IF late THEN NextCandidate(mem)
     ELSE IF Doubtful(p, mem.company) \/ id \in planned THEN Goto("people", next)
     ELSE Goto("people", [next EXCEPT !.persons =
                            Append(@, [data |-> p, id |-> id, matched |-> matches # {}])])

\* _research_opportunities: one whose name is taken takes an attempt.
OpportunityFound ==
  LET next == [mem EXCEPT !.attempt = @ + 1] IN
  /\ pc = "opportunities" /\ Has({"accepted"})
  /\ Goto("opportunities",
          IF Data \in {mem.texts[k] : k \in DOMAIN mem.texts} THEN next
          ELSE [next EXCEPT !.texts = Append(@, Data)])

\* The loops over the attempts end, with enough or too little.
Enough ==
  \/ /\ pc = "people" /\ ~ AtStage
     /\ IF Len(mem.persons) < PerCompany THEN NextCandidate(mem)
        ELSE Goto("opportunities", [mem EXCEPT !.attempt = 0])
  \/ /\ pc = "opportunities" /\ ~ AtStage
     /\ IF Len(mem.texts) < PerCompany THEN NextCandidate(mem) ELSE Goto("verify", mem)

-----------------------------------------------------------------------------
(* Publication *)

Item(object, id, data) == [object |-> object, id |-> id, data |-> data]

\* The records of a bundle, in rows: the company, each person, each opportunity
\* with a note and its target, whose ids are those of the job, the company and
\* the position.
Contact(p) ==
  LET enrichment == Item("enrich person", p.id, p.data) IN
  IF p.matched THEN <<enrichment>>
  ELSE <<Item("person", p.id, <<p.data, mem.company>>), enrichment>>

Offer(k) ==
  LET pitch == <<mem.texts[k], mem.persons[((k - 1) % PerCompany) + 1].id>> IN
  <<Item("opportunity", <<"opportunity", mem.company, k>>, pitch),
    Item("note", <<"note", mem.company, k>>, pitch),
    Item("noteTarget", <<"noteTarget", mem.company, k>>, None)>>

Bundle ==
  [r \in 0..2 * PerCompany |->
     CASE r = 0 -> <<Item("company", mem.company, mem.account),
                     Item("membership", <<"membership", mem.company>>, mem.account),
                     Item("enrich company", mem.company, mem.account)>>
       [] r \in 1..PerCompany -> Contact(mem.persons[r])
       [] OTHER -> Offer(r - PerCompany)]

\* What is published: an ICP or a campaign alone, or a bundle.
Rows ==
  CASE job = "icp" -> [r \in {0} |-> <<Item("icp", IcpIdOf(mem.account), mem.account)>>]
    [] job = "campaign" -> [r \in {0} |-> <<Item("campaign", <<"campaign">>, mem.account)>>]
    [] OTHER -> Bundle

\* The places in the rows, their order and what is there.
Places == {p \in (DOMAIN Rows) \X (1..3) : p[2] \in DOMAIN Rows[p[1]]}
Before(p, q) == p[1] < q[1] \/ (p[1] = q[1] /\ p[2] <= q[2])
ItemAt(p) == Rows[p[1]][p[2]]

\* The ids of all that is published.
Refs == {ItemAt(p).id : p \in Places}

\* An ICP that was seen is skipped; the name counts.  A campaign has no parents
\* to verify.
IcpAccepted ==
  /\ job = "icp" /\ Has({"accepted"})
  /\ IF Data \in mem.seen THEN NextCandidate(mem)
     ELSE Goto("verify", [mem EXCEPT !.seen = @ \cup {Data}, !.account = Data])

CampaignAccepted ==
  /\ job = "campaign" /\ Has({"accepted"})
  /\ Goto("prepare", [mem EXCEPT !.account = Data, !.todo = Places])

\* Plausible bug: the parents are verified for the first bundle only.
VerifiedFirst == mem.bundles # <<>> \/ ~ changed

\* The parents as Twenty holds them are those of the workflow.
Verified == ~ changed

Verify ==
  /\ pc = "verify"
  /\ IF Verified THEN Goto("begin", mem) ELSE Fail

\* publish_account matches the company again: the CRM may have changed since.
\* The people keep the ids that were planned for them.
Begin ==
  /\ pc = "begin"
  /\ IF late THEN Exhausted
     ELSE IF job = "account" /\ Ambiguous(mem.account) THEN NextCandidate(mem)
     ELSE /\ pc' = "prepare"
          /\ Keep(IF job = "account" THEN [mem EXCEPT !.company = CompanyFor(mem.account), !.todo = Places]
                                     ELSE [mem EXCEPT !.todo = Places])
          /\ overtaken' = IF changed THEN overtaken + 1 ELSE overtaken
          /\ UNCHANGED <<progress, result>>

Place == CHOOSE p \in mem.todo : \A q \in mem.todo : Before(p, q)
Now == ItemAt(Place)

\* Plausible bug: the id of an intent is taken to say what its fields are.
SameIdOnly(existing, data) == "data" \in DOMAIN existing

\* _same_intent: what was prepared once is not prepared with other fields.
SameIntent(existing, data) == existing.data = data

\* _check and prepare_write.
Prepare ==
  /\ pc = "prepare" /\ mem.todo # {} /\ Now.object \notin {"enrich company", "enrich person"}
  /\ IF late THEN Exhausted
     ELSE IF Now.id \in DOMAIN intent /\
             (~ SameIntent(intent[Now.id], Now.data) \/ intent[Now.id].status \in {"conflict", "cancelled"}) THEN Fail
     ELSE /\ pc' = "create"
          /\ intent' = With(intent, Now.id,
               [object |-> Now.object, data |-> Now.data, status |-> "prepared"])
          /\ UNCHANGED <<claims, mem, saved, crmVars, envVars, reportVars>>

Marked(status) == intent' = [intent EXCEPT ![Now.id].status = status]

\* create_record, of an id that Twenty does not have.
Create ==
  /\ pc = "create" /\ ~ Exists(Now.id) /\ ~ late
  /\ intent[Now.id].status # "confirmed"
  /\ pc' = "confirm"
  /\ CASE Now.object = "company" ->
            /\ companies' = With(companies, Now.id, [domains |-> {DomainOf[Now.data]},
                                                     links |-> {LinkOf[Now.data]} \ {None}])
            /\ UNCHANGED <<people, records>>
       [] Now.object = "person" ->
            /\ people' = With(people, Now.id, [token |-> TokenOf[Now.data[1]],
                                  name |-> NameOf[Now.data[1]], company |-> Now.data[2]])
            /\ UNCHANGED <<companies, records>>
       [] OTHER -> records' = records \cup {Now.id} /\ UNCHANGED <<companies, people>>
  /\ UNCHANGED <<claims, mem, saved, intent, deleted, flight, strays, envVars, reportVars>>

Published == [mem EXCEPT !.todo = @ \ {Place}]

\* Plausible bug: the intent an earlier claim has prepared is taken for the record.
FoundPrepared == intent[Now.id].status = "prepared"

\* The read before the mutation finds the record.
Found == Exists(Now.id) /\ SameRecord(Now.id, Now.object, Now.data)

\* _mark confirms the record that was created, or found.
Confirm ==
  /\ \/ pc = "confirm"
     \/ pc = "create" /\ ~ late /\ Found
  /\ Marked("confirmed")
  /\ pc' = "prepare" /\ mem' = Published
  /\ UNCHANGED <<claims, saved, crmVars, envVars, reportVars>>

\* Another record under the id, a confirmed one that is gone, or the refusal of
\* an id that was deleted.
PublishFails ==
  /\ pc = "create" /\ ~ late
  /\ \/ Exists(Now.id) /\ ~ Found
     \/ ~ Exists(Now.id) /\ (intent[Now.id].status = "confirmed" \/ Now.id \in deleted)
  /\ IF intent[Now.id].status = "confirmed" THEN UNCHANGED intent
     ELSE Marked(IF Exists(Now.id) THEN "conflict" ELSE "failed")
  /\ pc' = "failed" /\ mem' = Fresh
  /\ UNCHANGED <<claims, saved, crmVars, envVars, reportVars>>

\* The item at hand is what _enrich_record fills in.
Enriching == pc = "prepare" /\ mem.todo # {} /\ Now.object \in {"enrich company", "enrich person"}

\* The deadline is compared before every request.
PublishLate ==
  /\ late
  /\ \/ pc = "create"
     \/ Enriching
  /\ Exhausted

Update(field, value) == [id |-> Now.id, field |-> field, value |-> value]

\* The identities that research has for the record, one update for each.
Proposals ==
  {u \in IF Now.object = "enrich company"
         THEN {Update("domains", DomainOf[Now.data]), Update("links", LinkOf[Now.data])}
         ELSE {Update("token", TokenOf[Now.data])} : u.value # None}

\* The record is there and lacks what the update fills in.
Lacking(u) ==
  IF u.field = "token" THEN u.id \in DOMAIN people /\ people[u.id].token = None
  ELSE u.id \in DOMAIN companies /\ companies[u.id][u.field] = {}

\* fill_missing sends an update for an identity that the record lacks.
SendUpdate ==
  /\ Enriching /\ ~ late
  /\ \E u \in Proposals : Lacking(u) /\ flight' = flight \cup {u}
  /\ UNCHANGED <<pc, claims, mem, saved, intent, companies, people, records, deleted, strays,
                 envVars, reportVars>>

\* Twenty applies an update, at once or when its sender has given it up or its
\* claim is over.  The other updates of the record, which were decided on the
\* version before, are dropped.
ApplyUpdate(u) ==
  /\ Lacking(u)
  /\ IF u.field = "token"
     THEN people' = [people EXCEPT ![u.id].token = u.value] /\ UNCHANGED companies
     ELSE companies' = [companies EXCEPT ![u.id][u.field] = {u.value}] /\ UNCHANGED people
  /\ flight' = {v \in flight : v.id # u.id}
  /\ strays' = IF Enriching /\ u \in Proposals THEN strays ELSE strays \cup {u.value}
  /\ UNCHANGED <<pc, claims, mem, saved, intent, records, deleted, envVars, reportVars>>

\* _enrich_record ends: whatever was lacking is filled in, or its update was given
\* up after the last retry, without an error, and may be in flight.
Enrich ==
  /\ Enriching /\ Exists(Now.id)
  /\ mem' = Published
  /\ UNCHANGED <<pc, claims, saved, intent, crmVars, envVars, reportVars>>

\* The bundle is counted and, but for a campaign, saved as progress.
SaveProgress ==
  LET bundles == Append(mem.bundles, Refs) IN
  /\ pc = "prepare" /\ mem.todo = {}
  /\ IF job = "campaign" THEN Complete("complete", bundles)
     ELSE /\ pc' = "candidate"
          /\ Keep([Fresh EXCEPT !.index = mem.index + 1, !.seen = mem.seen, !.bundles = bundles,
                                !.review = mem.review])
          /\ progress' = progress \cup {bundles[k] : k \in DOMAIN bundles}
          /\ UNCHANGED <<result, overtaken>>

Finish ==
  /\ \/ pc = "finish"
     \/ pc = "candidate" /\ Stops
  /\ Complete(CASE Len(mem.bundles) = Target -> "complete"
                [] Len(mem.bundles) \in 1..(Target - 1) -> "partial"
                [] mem.bundles = <<>> /\ mem.exhausted -> "budget_exhausted"
                [] mem.bundles = <<>> /\ ~ mem.exhausted /\ mem.review -> "needs_review"
                [] OTHER -> "insufficient_evidence",
              mem.bundles)

-----------------------------------------------------------------------------
(* The CRM's other users, and time *)

Edited == edits < MaxEdits /\ edits' = edits + 1

AddCompany(s) ==
  /\ Edited /\ Working /\ ~ Exists(s.id) /\ s.id \notin deleted
  /\ companies' = With(companies, s.id, [domains |-> s.domains, links |-> s.links])
  /\ UNCHANGED <<pc, claims, mem, saved, intent, people, records, deleted, flight, strays, job, changed,
                 late, reportVars>>

Delete(id) ==
  /\ Edited /\ Working
  /\ deleted' = deleted \cup {id}
  /\ companies' = [c \in DOMAIN companies \ {id} |-> companies[c]]
  /\ people' = [p \in DOMAIN people \ {id} |-> people[p]]
  /\ UNCHANGED <<pc, claims, mem, saved, intent, records, flight, strays, job, changed, late,
                 reportVars>>

ChangeParents ==
  /\ Edited /\ Working /\ ~ changed /\ changed' = TRUE
  /\ UNCHANGED <<pc, claims, mem, saved, intent, crmVars, job, late, reportVars>>

DeadlinePasses ==
  /\ Working /\ ~ late /\ late' = TRUE
  /\ UNCHANGED <<pc, claims, mem, saved, intent, crmVars, job, changed, edits, reportVars>>

-----------------------------------------------------------------------------

Research == Study \/ StageDenied \/ StageRejected \/ AccountAccepted \/ Validated \/ MatchCompany
            \/ PersonFound \/ OpportunityFound \/ Enough \/ IcpAccepted \/ CampaignAccepted

Publication == Verify \/ Begin \/ Prepare \/ Create \/ Confirm \/ PublishFails \/ PublishLate
               \/ SendUpdate \/ Enrich \/ SaveProgress \/ Finish

Others == ChangeParents \/ DeadlinePasses
          \/ (\E s \in Strangers : AddCompany(s))
          \/ (\E id \in DOMAIN intent : Sweep(id))
          \/ (\E u \in flight : ApplyUpdate(u))
          \/ \E id \in DOMAIN companies \cup DOMAIN people : Delete(id)

Next == Claim \/ Fails \/ Lost \/ Retry \/ Research \/ Publication \/ Others

Spec == Init /\ [][Next]_vars

-----------------------------------------------------------------------------
(* Properties *)

\* The bundles of the progress and of the result.
Reported == progress \cup {result.bundles[k] : k \in DOMAIN result.bundles}

\* A bundle that is reported as progress or as a result is whole, whichever
\* claims have published its parts: every record of it is in Twenty, or was
\* until someone deleted it, and each of its opportunities names a person of the
\* bundle (docs/technical-guide.md: complete bundles remain required).
BundlesPublished ==
  \A b \in Reported :
    /\ \A id \in b : Exists(id) \/ id \in deleted
    /\ job = "account" => \E c \in b : \A k \in 1..PerCompany :
         /\ {<<"membership", c>>, <<"opportunity", c, k>>, <<"note", c, k>>, <<"noteTarget", c, k>>}
              \subseteq b
         /\ intent[<<"opportunity", c, k>>].data[2] \in b

\* A company is reported with one bundle, whichever claims and candidates come to
\* it: a later one finds the people of the company's first opportunities in their
\* intents, reports the same records, or fails (_same_intent).
OneBundlePerCompany ==
  job = "account" =>
    \A b, e \in Reported : \A c \in b : <<"membership", c>> \in b \cap e => b = e

\* The job never makes two records of one identity, by creating a record or by
\* filling in an identity, unless people have changed the CRM in between
\* (choose_company_match, choose_person_match: never merge ambiguity).  The
\* exception is an identity whose update fill_missing has given up, or a claim
\* that ended has left behind, and that was applied later: another record of it
\* may have been made meanwhile.  No other identity is affected.  And people
\* planned together for one company may come to share a token, since
\* _research_people compares the ids they were given; only strays, which can make
\* the company another one, take them to different companies.
NoDuplicates ==
  edits = 0 =>
    /\ \A c, e \in DOMAIN companies : c # e =>
         /\ companies[c].domains \cap companies[e].domains \subseteq strays
         /\ companies[c].links \cap companies[e].links \subseteq strays
    /\ \A i, j \in DOMAIN people : i # j /\ people[i].token = people[j].token =>
         \/ people[i].token \in strays \cup {None}
         \/ PerCompany > 1 /\ (strays = {} => people[i].company = people[j].company)

\* After the parents have changed at most one bundle is begun, the one whose
\* parents had just been verified, whatever claims follow (_verify_scope).
ScopeWindow == overtaken <= 1

\* The stages that come before the CRM is asked, whose denial ends the research.
Ends(d) ==
  /\ d[2] \in {"candidate", "validation"}
  /\ saved[d].outcome \in IF job = "account" THEN {"denied"} ELSE Denials

\* A denial of a candidate that ends the workflow stays the end of its research:
\* neither a crash nor a retry, which renews the allowances, nor a change of the
\* CRM takes it past the candidate that was denied (_research replays the
\* checkpointed denial).
DenialSticks ==
  [][\A d \in DOMAIN saved : Ends(d) =>
       /\ saved'[d] = saved[d]
       /\ \A k \in DOMAIN saved' \ DOMAIN saved : k[1] <= d[1]]_saved

=============================================================================
