----------------------- MODULE AccountPipelineProofs -----------------------
(***************************************************************************)
(* Proofs about AccountPipeline, for any accounts, people, texts and ICPs, *)
(* any size of a bundle and all bounds.                                    *)
(*                                                                         *)
(* A bundle is whole because what is off the list of things to publish has *)
(* been found in Twenty under the id the bundle names, by this claim or an *)
(* earlier one, and because no intent changes the data it was prepared     *)
(* with: an opportunity whose intent is of an earlier claim names the      *)
(* person of this one (_same_intent).                                      *)
(*                                                                         *)
(* No identity has two records because a plan, once made, stays what the   *)
(* CRM is searched for (Aimed): between the search and the creation only   *)
(* the plan's own records appear.  An update that was given up and is      *)
(* applied later is the exception, for the identity it carries only: what  *)
(* is claimed of the other identities does not lean on that one, and what  *)
(* leans on the plan's company is claimed without strays (Sought).         *)
(*                                                                         *)
(* A company has one bundle because a bundle can be read off the intents   *)
(* of its company, which never change their data (Of, Owned), and a denial *)
(* of a candidate stays because no claim comes past it without an accepted *)
(* checkpoint under the same key (Ordered).                                *)
(***************************************************************************)
EXTENDS AccountPipeline, SequenceTheorems, FiniteSetTheorems, NaturalsInduction, TLAPS

-----------------------------------------------------------------------------
(* The inductive invariant *)

\* Twenty has the record, or had it until someone deleted it.
Made(id) == Exists(id) \/ id \in deleted

\* Each opportunity of the company has its records, and names a person of b.
Pitched(c, b) ==
  \A k \in 1..PerCompany :
    /\ {<<"membership", c>>, <<"opportunity", c, k>>, <<"note", c, k>>, <<"noteTarget", c, k>>}
         \subseteq b
    /\ <<"opportunity", c, k>> \in DOMAIN intent
    /\ intent[<<"opportunity", c, k>>].data[2] \in b

Whole(b) ==
  /\ \A id \in b : Made(id)
  /\ job = "account" => \E c \in b : Pitched(c, b)

Members(s) == {s[k] : k \in DOMAIN s}

\* mem has its fields, its bundles are a list, and every intent has its data.
Shaped ==
  /\ DOMAIN mem = DOMAIN Fresh
  /\ mem.bundles \in Seq(Members(mem.bundles))
  /\ \A id \in DOMAIN intent : "data" \in DOMAIN intent[id]

\* Every bundle that was reported, or that the claim holds, is whole.
Collected == \A b \in progress \cup Members(result.bundles) \cup Members(mem.bundles) : Whole(b)

\* The data an intent was prepared with are those of the item.
Intended(i) == i.id \in DOMAIN intent /\ intent[i.id].data = i.data

\* The record of the item is there, and an opportunity is the one that was meant.
Settled(i) == Made(i.id) /\ (i.object = "opportunity" => Intended(i))

Publishing == {"prepare", "create", "confirm"}

\* What is off the list is settled, and the item at hand has its intent.
Underway ==
  /\ pc \in Publishing => \A p \in Places : p \in mem.todo \/ Settled(ItemAt(p))
  /\ pc \in {"create", "confirm"} => Intended(Now)
  /\ pc = "confirm" => Made(Now.id)

\* The parents are verified before each bundle, and never change back.
Windowed == overtaken \in {0, 1} /\ (overtaken = 1 => changed /\ pc # "begin")

IInv == Shaped /\ Collected /\ Underway /\ Windowed

-----------------------------------------------------------------------------
(* The rows of a bundle *)

\* The bundle at hand is the same.
SamePlan ==
  /\ job' = job /\ mem'.company = mem.company /\ mem'.account = mem.account
  /\ mem'.persons = mem.persons /\ mem'.texts = mem.texts

LEMMA RowsKept ==
  ASSUME SamePlan
  PROVE  Rows' = Rows /\ Places' = Places /\ \A p : ItemAt(p)' = ItemAt(p)
  <1>1. ASSUME NEW p PROVE Contact(p)' = Contact(p)
    BY DEF SamePlan, Contact
  <1>2. ASSUME NEW k PROVE Offer(k)' = Offer(k)
    BY DEF SamePlan, Offer
  <1>3. Bundle' = Bundle
    <2> DEFINE head == <<Item("company", mem.company, mem.account),
                         Item("membership", <<"membership", mem.company>>, mem.account),
                         Item("enrich company", mem.company, mem.account)>>
               row(r) == CASE r = 0 -> head
                           [] r \in 1..PerCompany -> Contact(mem.persons[r])
                           [] OTHER -> Offer(r - PerCompany)
    <2>1. head' = head
      BY DEF SamePlan
    <2>2. Bundle = [r \in 0..2 * PerCompany |-> row(r)]
      BY DEF Bundle
    <2>3. Bundle' = [r \in 0..2 * PerCompany |-> row(r)']
      BY DEF Bundle
    <2>4. \A r : row(r)' = row(r)
      BY <1>1, <1>2, <2>1 DEF SamePlan
    <2> HIDE DEF row
    <2> QED BY <2>2, <2>3, <2>4
  <1>4. Rows' = Rows
    BY <1>3 DEF SamePlan, Rows
  <1> QED BY <1>4 DEF Places, ItemAt

\* The shape of the rows depends on the people alone.
LEMMA PlacesKept ==
  ASSUME job' = job, mem'.persons = mem.persons
  PROVE  Places' = Places
  <1>1. ASSUME NEW p PROVE DOMAIN (Contact(p)') = DOMAIN Contact(p)
    BY DEF Contact
  <1>2. ASSUME NEW k PROVE DOMAIN (Offer(k)') = 1..3 /\ DOMAIN Offer(k) = 1..3
    BY DEF Offer
  <1>3. ASSUME NEW r \in 0..2 * PerCompany
        PROVE  DOMAIN (Bundle'[r]) = DOMAIN Bundle[r]
    <2>1. CASE r = 0
      <3>1. DOMAIN Bundle[r] = 1..3
        BY <2>1 DEF Bundle
      <3>2. DOMAIN (Bundle'[r]) = 1..3
        BY <2>1 DEF Bundle
      <3> QED BY <3>1, <3>2
    <2>2. CASE r # 0 /\ r \in 1..PerCompany
      <3>1. Bundle[r] = Contact(mem.persons[r])
        BY <2>2 DEF Bundle
      <3>2. Bundle'[r] = Contact(mem.persons[r])'
        BY <2>2 DEF Bundle
      <3>3. DOMAIN (Contact(mem.persons[r])') = DOMAIN Contact(mem.persons[r])
        BY DEF Contact
      <3> QED BY <3>1, <3>2, <3>3
    <2>3. CASE r # 0 /\ r \notin 1..PerCompany
      <3>1. Bundle[r] = Offer(r - PerCompany)
        BY <2>3 DEF Bundle
      <3>2. Bundle'[r] = Offer(r - PerCompany)'
        BY <2>3 DEF Bundle
      <3> QED BY <1>2, <3>1, <3>2
    <2> QED BY <2>1, <2>2, <2>3
  <1>4. DOMAIN Bundle = 0..2 * PerCompany /\ DOMAIN (Bundle') = 0..2 * PerCompany
    BY DEF Bundle
  <1>5. DOMAIN (Rows') = DOMAIN Rows
    BY <1>4 DEF Rows
  <1>6. ASSUME NEW r \in DOMAIN Rows PROVE DOMAIN (Rows'[r]) = DOMAIN Rows[r]
    <2>1. CASE job \in {"icp", "campaign"}
      BY <2>1 DEF Rows
    <2>2. CASE job \notin {"icp", "campaign"}
      <3>1. Rows = Bundle /\ Rows' = Bundle'
        BY <2>2 DEF Rows
      <3> QED BY <1>3, <1>4, <3>1
    <2> QED BY <2>1, <2>2
  <1> QED BY <1>5, <1>6 DEF Places

\* The item at hand is the same.
LEMMA ItemKept ==
  ASSUME SamePlan, mem'.todo = mem.todo
  PROVE  Now' = Now
  <1>1. Place' = Place
    BY DEF Place, Before
  <1>2. Rows' = Rows
    BY RowsKept
  <1> QED BY <1>1, <1>2 DEF Now, ItemAt

-----------------------------------------------------------------------------
(* What every step leaves in place *)

\* Records do not come undone and intents keep their data.
Lasting ==
  /\ job' = job
  /\ \A id : Made(id) => Made(id)'
  /\ \A id \in DOMAIN intent : id \in DOMAIN intent' /\ intent'[id].data = intent[id].data
  /\ \A id \in DOMAIN intent' : "data" \in DOMAIN intent'[id]

\* A step that touches neither the CRM nor the intents.
LEMMA UntouchedLasts ==
  ASSUME Shaped, UNCHANGED <<job, intent, crmVars>>
  PROVE  Lasting
  BY DEF Lasting, Shaped, Made, Exists, crmVars

\* Claim decides the intents, none loses its data.
LEMMA ClaimLasts ==
  ASSUME Shaped, Claim
  PROVE  Lasting
  <1>1. \A id : Made(id) => Made(id)'
    BY DEF Claim, Made, Exists, crmVars
  <1>2. \A id \in DOMAIN intent : "data" \in DOMAIN intent[id]
    BY DEF Shaped
  <1>3. intent' = [id \in DOMAIN intent |-> Reconciled(id)] /\ job' = job
    BY DEF Claim, envVars
  <1>4. ASSUME NEW id \in DOMAIN intent
        PROVE  "data" \in DOMAIN Reconciled(id) /\ Reconciled(id).data = intent[id].data
    BY <1>2 DEF Reconciled
  <1> HIDE DEF Reconciled
  <1> QED BY <1>1, <1>3, <1>4 DEF Lasting

\* An intent of the item at hand is marked, or of another one swept.
LEMMA MarkedLasts ==
  ASSUME Shaped, UNCHANGED <<job, crmVars>>, NEW id, NEW status,
         intent' = [intent EXCEPT ![id].status = status]
  PROVE  Lasting
  <1>1. \A i : Made(i) => Made(i)'
    BY DEF Made, Exists, crmVars
  <1>2. \A i \in DOMAIN intent : "data" \in DOMAIN intent[i]
    BY DEF Shaped
  <1> QED BY <1>1, <1>2 DEF Lasting

\* Prepare adds the intent of the item, or finds it with the data of the item.
LEMMA PrepareLasts ==
  ASSUME Shaped, Prepare
  PROVE  Lasting /\ (pc' = "create" => mem' = mem /\ Intended(Now)')
  <1>1. CASE UNCHANGED <<job, intent, crmVars>> /\ pc' # "create"
    BY <1>1, UntouchedLasts
  <1>2. CASE ~ (UNCHANGED <<job, intent, crmVars>> /\ pc' # "create")
    <2> DEFINE new == [object |-> Now.object, data |-> Now.data, status |-> "prepared"]
    <2>1. /\ UNCHANGED <<mem, job, crmVars>>
          /\ intent' = With(intent, Now.id, new)
          /\ Now.id \in DOMAIN intent => intent[Now.id].data = Now.data
      BY <1>2 DEF Prepare, Exhausted, Complete, Fail, Keep, SameIntent, envVars
    <2>2. \A i : Made(i) => Made(i)'
      BY <2>1 DEF Made, Exists, crmVars
    <2>3. \A i \in DOMAIN intent : "data" \in DOMAIN intent[i]
      BY DEF Shaped
    <2>4. new.data = Now.data /\ "data" \in DOMAIN new
      OBVIOUS
    <2>5. Now' = Now
      BY <2>1, ItemKept DEF SamePlan
    <2> HIDE DEF new
    <2>6. Lasting
      BY <2>1, <2>2, <2>3, <2>4 DEF Lasting, With
    <2>7. Intended(Now)'
      BY <2>1, <2>4, <2>5 DEF Intended, With
    <2> QED BY <2>1, <2>6, <2>7
  <1> QED BY <1>1, <1>2

\* Create gives Twenty the record of the item.
LEMMA CreateLasts ==
  ASSUME Shaped, Create
  PROVE  Lasting /\ Exists(Now.id)'
  <1>1. UNCHANGED <<intent, deleted, mem, job>>
    BY DEF Create, envVars
  <1>2. Now' = Now
    BY <1>1, ItemKept DEF SamePlan
  <1>3. /\ DOMAIN companies \subseteq DOMAIN companies'
        /\ DOMAIN people \subseteq DOMAIN people'
        /\ records \subseteq records'
        /\ Now.id \in DOMAIN companies' \cup DOMAIN people' \cup records'
    <2>1. CASE Now.object = "company"
      BY <2>1 DEF Create, With
    <2>2. CASE Now.object = "person"
      BY <2>2 DEF Create, With
    <2>3. CASE Now.object \notin {"company", "person"}
      <3>1. records' = records \cup {Now.id} /\ UNCHANGED <<companies, people>>
        BY <2>3 DEF Create
      <3> QED BY <3>1
    <2> QED BY <2>1, <2>2, <2>3
  <1> QED BY <1>1, <1>2, <1>3 DEF Lasting, Shaped, Made, Exists

\* No step undoes a record, or changes the data of an intent.
LEMMA NextLasts ==
  ASSUME Shaped, [Next]_vars
  PROVE  Lasting
  <1>1. CASE Claim \/ Prepare \/ Create
    BY <1>1, ClaimLasts, PrepareLasts, CreateLasts
  <1>2. CASE Confirm \/ PublishFails \/ \E id \in DOMAIN intent : Sweep(id)
    <2>1. UNCHANGED <<job, crmVars>>
      BY <1>2 DEF Confirm, PublishFails, Sweep, envVars
    <2>2. \/ UNCHANGED intent
          \/ \E id, status : intent' = [intent EXCEPT ![id].status = status]
      BY <1>2 DEF Confirm, PublishFails, Sweep, Marked
    <2> QED BY <2>1, <2>2, UntouchedLasts, MarkedLasts
  <1>3. ASSUME NEW u, ApplyUpdate(u)
        PROVE  Lasting
    <2>1. UNCHANGED <<job, intent, records, deleted>>
      BY <1>3 DEF ApplyUpdate, envVars
    <2>2. DOMAIN companies' = DOMAIN companies /\ DOMAIN people' = DOMAIN people
      BY <1>3 DEF ApplyUpdate
    <2> QED BY <2>1, <2>2 DEF Lasting, Shaped, Made, Exists
  <1>4. CASE \E s \in Strangers : AddCompany(s)
    BY <1>4 DEF AddCompany, With, Lasting, Shaped, Made, Exists
  <1>5. CASE \E id \in DOMAIN companies \cup DOMAIN people : Delete(id)
    BY <1>5 DEF Delete, Lasting, Shaped, Made, Exists
  <1>6. CASE Enrich \/ UNCHANGED vars
    BY <1>6, UntouchedLasts DEF Enrich, vars, envVars
  <1>7. CASE Fails \/ Lost \/ Retry \/ ChangeParents \/ DeadlinePasses \/ Study
    BY <1>7, UntouchedLasts
       DEF Fails, Fail, Lost, Retry, ChangeParents, DeadlinePasses, Study, Keep, envVars
  <1>8. CASE StageDenied \/ StageRejected \/ AccountAccepted \/ Validated \/ MatchCompany
             \/ PersonFound \/ OpportunityFound \/ Enough \/ IcpAccepted \/ CampaignAccepted
    BY <1>8, UntouchedLasts
       DEF StageDenied, StageRejected, AccountAccepted, Validated, MatchCompany, PersonFound,
           OpportunityFound, Enough, IcpAccepted, CampaignAccepted, NextCandidate, Goto,
           Exhausted, Complete, Keep, envVars
  <1>9. CASE Verify \/ Begin \/ PublishLate \/ SaveProgress \/ Finish
    BY <1>9, UntouchedLasts
       DEF Verify, Begin, PublishLate, SaveProgress, Finish, NextCandidate, Goto, Fail,
           Exhausted, Complete, Keep, envVars
  <1>10. CASE SendUpdate
    BY <1>10 DEF SendUpdate, envVars, Lasting, Shaped, Made, Exists
  <1> QED
    BY <1>1, <1>2, <1>3, <1>4, <1>5, <1>6, <1>7, <1>8, <1>9, <1>10
       DEF Next, Research, Publication, Others

\* A whole bundle stays whole.
LEMMA WholeStays ==
  ASSUME Lasting, NEW b, Whole(b)
  PROVE  Whole(b)'
  <1>1. \A id \in b : Made(id)'
    BY DEF Lasting, Whole
  <1>2. ASSUME NEW c, Pitched(c, b) PROVE Pitched(c, b)'
    BY <1>2 DEF Lasting, Pitched
  <1> QED BY <1>1, <1>2 DEF Lasting, Whole

-----------------------------------------------------------------------------
(* The steps outside a publication *)

\* The bundles in memory are kept, or given up.
Carried == mem'.bundles \in {<<>>, mem.bundles}

\* The step leads to no publication, and reports no bundle the claim did not hold.
Quiet ==
  /\ pc' \notin Publishing
  /\ DOMAIN mem' = DOMAIN Fresh /\ Carried
  /\ progress' = progress
  /\ result'.bundles \in {<<>>, mem.bundles, result.bundles}

LEMMA FreshFacts ==
  /\ DOMAIN Fresh = {"index", "attempt", "account", "company", "persons", "texts", "todo",
                     "seen", "bundles", "exhausted", "review"}
  /\ Fresh.bundles = <<>>
  /\ <<>> \in Seq(Members(<<>>)) /\ Members(<<>>) = {}
  BY DEF Fresh, Members

LEMMA QuietKeeps ==
  ASSUME Shaped, Collected, Lasting, Quiet
  PROVE  Shaped' /\ Collected' /\ Underway'
  <1>1. Shaped'
    BY FreshFacts DEF Shaped, Lasting, Quiet, Carried
  <1>2. /\ Members(mem'.bundles) \subseteq Members(mem.bundles)
        /\ Members(result'.bundles) \subseteq Members(mem.bundles) \cup Members(result.bundles)
    BY FreshFacts DEF Quiet, Carried
  <1>3. ASSUME NEW b \in progress' \cup Members(result'.bundles) \cup Members(mem'.bundles)
        PROVE  Whole(b)'
    <2>1. b \in progress \cup Members(result.bundles) \cup Members(mem.bundles)
      BY <1>2 DEF Quiet
    <2> QED BY <2>1, WholeStays DEF Collected
  <1>4. Collected'
    BY <1>3 DEF Collected, Members
  <1>5. Underway'
    BY DEF Underway, Quiet, Publishing
  <1> QED BY <1>1, <1>4, <1>5

\* The ends of a claim and of a candidate are quiet.
LEMMA EndsAreQuiet ==
  ASSUME Shaped, NEW m, m.bundles = mem.bundles, NEW outcome
  PROVE  /\ Fail => Quiet
         /\ Exhausted => Quiet
         /\ Complete(outcome, <<>>) => Quiet
         /\ Complete(outcome, mem.bundles) => Quiet
         /\ NextCandidate(m) => Quiet
  <1>1. /\ Fail => Quiet
        /\ Exhausted => Quiet
        /\ Complete(outcome, <<>>) => Quiet
        /\ Complete(outcome, mem.bundles) => Quiet
    BY FreshFacts
       DEF Fail, Exhausted, Complete, Keep, reportVars, Quiet, Carried, Publishing
  <1>2. ASSUME NextCandidate(m) PROVE Quiet
    <2> DEFINE next == [Fresh EXCEPT !.index = m.index + 1, !.seen = m.seen,
                                     !.bundles = m.bundles, !.exhausted = m.exhausted,
                                     !.review = m.review]
    <2>1. DOMAIN next = DOMAIN Fresh /\ next.bundles = mem.bundles
      BY FreshFacts
    <2>2. pc' = "candidate" /\ mem' = next /\ UNCHANGED reportVars
      BY <1>2 DEF NextCandidate, Goto, Keep
    <2> HIDE DEF next
    <2> QED BY <2>1, <2>2 DEF Quiet, Carried, Publishing, reportVars
  <1> QED BY <1>1, <1>2

\* A step to another place, with the bundles there were.
LEMMA GotoIsQuiet ==
  ASSUME Shaped, NEW place, NEW m, place \notin Publishing,
         DOMAIN m = DOMAIN Fresh, m.bundles = mem.bundles, Goto(place, m)
  PROVE  Quiet
  BY DEF Goto, Keep, Quiet, Carried, reportVars

\* Research publishes nothing but a campaign.
LEMMA ResearchIsQuiet ==
  ASSUME Shaped, Research, ~ CampaignAccepted
  PROVE  Quiet
  <1>1. CASE Study
    BY <1>1 DEF Study, AtStage, Shaped, Quiet, Carried, Publishing, reportVars
  <1>2. CASE StageDenied
    <2>1. Exhausted \/ NextCandidate(mem) \/ Goto("finish", [mem EXCEPT !.exhausted = TRUE])
      BY <1>2 DEF StageDenied
    <2> QED BY <2>1, EndsAreQuiet, GotoIsQuiet, FreshFacts DEF Shaped, Publishing
  <1>3. CASE StageRejected
    <2> DEFINE m == [mem EXCEPT !.review = @ \/ saved[StageKey].outcome = "review"]
               n == [mem EXCEPT !.attempt = @ + 1]
    <2>1. /\ m.bundles = mem.bundles
          /\ n.bundles = mem.bundles /\ DOMAIN n = DOMAIN Fresh
      BY FreshFacts DEF Shaped
    <2>2. \/ Complete("insufficient_evidence", <<>>) \/ NextCandidate(m)
          \/ pc \in {"people", "opportunities"} /\ Goto(pc, n)
      BY <1>3 DEF StageRejected
    <2> HIDE DEF m, n
    <2> QED BY <2>1, <2>2, EndsAreQuiet, GotoIsQuiet DEF Publishing
  <1>4. CASE AccountAccepted
    <2>1. Goto("validation", [mem EXCEPT !.account = Data])
      BY <1>4 DEF AccountAccepted
    <2> QED BY <2>1, GotoIsQuiet, FreshFacts DEF Shaped, Publishing
  <1>5. CASE Validated
    <2>1. Goto("match", mem)
      BY <1>5 DEF Validated
    <2> QED BY <2>1, GotoIsQuiet DEF Shaped, Publishing
  <1>6. CASE MatchCompany
    <2>1. \/ Exhausted \/ NextCandidate(mem)
          \/ Goto("people", [mem EXCEPT !.company = CompanyFor(mem.account)])
      BY <1>6 DEF MatchCompany
    <2> QED BY <2>1, EndsAreQuiet, GotoIsQuiet, FreshFacts DEF Shaped, Publishing
  <1>7. CASE PersonFound
    <2> DEFINE n == [mem EXCEPT !.attempt = @ + 1]
               o(x) == [n EXCEPT !.persons = Append(@, x)]
    <2>1. /\ n.bundles = mem.bundles /\ DOMAIN n = DOMAIN Fresh
          /\ \A x : o(x).bundles = mem.bundles /\ DOMAIN o(x) = DOMAIN Fresh
      BY FreshFacts DEF Shaped
    <2>2. NextCandidate(mem) \/ Goto("people", n) \/ \E x : Goto("people", o(x))
      BY <1>7 DEF PersonFound
    <2> HIDE DEF n, o
    <2> QED BY <2>1, <2>2, EndsAreQuiet, GotoIsQuiet DEF Publishing
  <1>8. CASE OpportunityFound
    <2> DEFINE n == [mem EXCEPT !.attempt = @ + 1]
               o == [n EXCEPT !.texts = Append(@, Data)]
    <2>1. /\ n.bundles = mem.bundles /\ DOMAIN n = DOMAIN Fresh
          /\ o.bundles = mem.bundles /\ DOMAIN o = DOMAIN Fresh
      BY FreshFacts DEF Shaped
    <2>2. Goto("opportunities", n) \/ Goto("opportunities", o)
      BY <1>8 DEF OpportunityFound
    <2> HIDE DEF n, o
    <2> QED BY <2>1, <2>2, GotoIsQuiet DEF Publishing
  <1>9. CASE Enough
    <2>1. \/ NextCandidate(mem) \/ Goto("opportunities", [mem EXCEPT !.attempt = 0])
          \/ Goto("verify", mem)
      BY <1>9 DEF Enough
    <2> QED BY <2>1, EndsAreQuiet, GotoIsQuiet, FreshFacts DEF Shaped, Publishing
  <1>10. CASE IcpAccepted
    <2> DEFINE m == [mem EXCEPT !.seen = @ \cup {Data}, !.account = Data]
    <2>1. m.bundles = mem.bundles /\ DOMAIN m = DOMAIN Fresh
      BY FreshFacts DEF Shaped
    <2>2. NextCandidate(mem) \/ Goto("verify", m)
      BY <1>10 DEF IcpAccepted
    <2> HIDE DEF m
    <2> QED BY <2>1, <2>2, EndsAreQuiet, GotoIsQuiet DEF Publishing
  <1> QED
    BY <1>1, <1>2, <1>3, <1>4, <1>5, <1>6, <1>7, <1>8, <1>9, <1>10 DEF Research

-----------------------------------------------------------------------------
(* The steps of a publication *)

\* The bundles there were are those there are.
SameBundles ==
  /\ DOMAIN mem' = DOMAIN Fresh /\ mem'.bundles = mem.bundles
  /\ progress' = progress /\ result'.bundles = result.bundles

LEMMA SameBundlesKeep ==
  ASSUME Shaped, Collected, Lasting, SameBundles
  PROVE  Shaped' /\ Collected'
  <1>1. Shaped'
    BY FreshFacts DEF Shaped, Lasting, SameBundles
  <1>2. ASSUME NEW b \in progress' \cup Members(result'.bundles) \cup Members(mem'.bundles)
        PROVE  Whole(b)'
    BY <1>2, WholeStays DEF Collected, SameBundles
  <1>3. Collected'
    BY <1>2 DEF Collected, Members
  <1> QED BY <1>1, <1>3

\* A publication begins with everything on the list.
LEMMA BeginKeeps ==
  ASSUME Shaped, Collected, Lasting, SameBundles,
         pc' = "prepare", mem'.persons = mem.persons, mem'.todo = Places
  PROVE  Shaped' /\ Collected' /\ Underway'
  <1>1. Places' = Places
    BY PlacesKept DEF Lasting
  <1>2. \A p \in Places' : p \in mem'.todo
    BY <1>1
  <1>3. Underway'
    BY <1>2 DEF Underway, Publishing
  <1> QED BY <1>3, SameBundlesKeep

\* It goes on with the same list.
LEMMA StayKeeps ==
  ASSUME IInv, Lasting, mem' = mem, SameBundles,
         pc' \in Publishing => pc \in Publishing,
         pc' \in {"create", "confirm"} => pc \in {"create", "confirm"} \/ Intended(Now)',
         pc' = "confirm" => pc = "confirm" \/ Made(Now.id)'
  PROVE  Shaped' /\ Collected' /\ Underway'
  <1>1. SamePlan /\ mem'.todo = mem.todo
    BY DEF SamePlan, Lasting
  <1>2. Places' = Places /\ (\A p : ItemAt(p)' = ItemAt(p)) /\ Now' = Now
    BY <1>1, RowsKept, ItemKept
  <1>3. ASSUME pc' \in Publishing, NEW p \in Places'
        PROVE  p \in mem'.todo \/ Settled(ItemAt(p))'
    <2>1. p \in mem.todo \/ Settled(ItemAt(p))
      BY <1>2, <1>3 DEF IInv, Underway
    <2>2. Settled(ItemAt(p)) => Settled(ItemAt(p))'
      <3> DEFINE i == ItemAt(p)
      <3>1. i' = i
        BY <1>2
      <3> QED BY <3>1 DEF Lasting, Settled, Intended
    <2> QED BY <1>1, <2>1, <2>2
  <1>4. pc' \in {"create", "confirm"} => Intended(Now)'
    <2>1. Intended(Now) => Intended(Now)'
      BY <1>2 DEF Lasting, Intended
    <2> QED BY <2>1 DEF IInv, Underway
  <1>5. pc' = "confirm" => Made(Now.id)'
    <2>1. Made(Now.id) => Made(Now.id)'
      BY <1>2 DEF Lasting
    <2> QED BY <2>1 DEF IInv, Underway
  <1>6. Underway'
    BY <1>3, <1>4, <1>5 DEF Underway
  <1> QED BY <1>6, SameBundlesKeep DEF IInv

\* What leaves the list is settled.
LEMMA PublishedKeeps ==
  ASSUME IInv, Lasting, pc \in Publishing, pc' = "prepare", mem' = Published,
         UNCHANGED <<progress, result>>, Settled(Now)
  PROVE  Shaped' /\ Collected' /\ Underway'
  <1>1. /\ mem'.todo = mem.todo \ {Place} /\ mem'.bundles = mem.bundles
        /\ DOMAIN mem' = DOMAIN Fresh
        /\ mem'.company = mem.company /\ mem'.account = mem.account
        /\ mem'.persons = mem.persons /\ mem'.texts = mem.texts
    BY FreshFacts DEF Published, IInv, Shaped
  <1>2. SamePlan /\ SameBundles
    BY <1>1 DEF SamePlan, SameBundles, Lasting
  <1>3. Places' = Places /\ \A p : ItemAt(p)' = ItemAt(p)
    BY <1>2, RowsKept
  <1>4. ASSUME NEW p \in Places' PROVE p \in mem'.todo \/ Settled(ItemAt(p))'
    <2>1. p \in mem.todo \/ Settled(ItemAt(p))
      BY <1>3 DEF IInv, Underway
    <2>2. p = Place => Settled(ItemAt(p))
      BY DEF Now
    <2>3. Settled(ItemAt(p)) => Settled(ItemAt(p))'
      <3> DEFINE i == ItemAt(p)
      <3>1. i' = i
        BY <1>3
      <3> QED BY <3>1 DEF Lasting, Settled, Intended
    <2> QED BY <1>1, <2>1, <2>2, <2>3
  <1>5. Underway'
    BY <1>4 DEF Underway, Publishing
  <1> QED BY <1>2, <1>5, SameBundlesKeep DEF IInv

\* Each opportunity is for the person at its position.
LEMMA SamePosition ==
  ASSUME NEW n \in Nat \ {0}, NEW k \in 1..n
  PROVE  ((k - 1) % n) + 1 = k
  OBVIOUS

\* Where the records of a bundle are.
LEMMA BundleFacts ==
  ASSUME job = "account"
  PROVE  /\ mem.company \in Refs
         /\ \A k \in 1..PerCompany :
              /\ {<<"membership", mem.company>>, <<"opportunity", mem.company, k>>,
                  <<"note", mem.company, k>>, <<"noteTarget", mem.company, k>>} \subseteq Refs
              /\ mem.persons[k].id \in Refs
              /\ \E p \in Places : \E text :
                   ItemAt(p) = Item("opportunity", <<"opportunity", mem.company, k>>,
                                    <<text, mem.persons[k].id>>)
  <1>1. Rows = Bundle /\ DOMAIN Bundle = 0..2 * PerCompany /\ PerCompany \in Nat \ {0}
    BY TargetAssumption DEF Rows, Bundle
  <1>2. ASSUME NEW r \in 0..2 * PerCompany, NEW n \in 1..3, n \in DOMAIN Bundle[r]
        PROVE  /\ <<r, n>> \in Places /\ ItemAt(<<r, n>>) = Bundle[r][n]
               /\ Bundle[r][n].id \in Refs
    BY <1>1, <1>2 DEF Places, ItemAt, Refs
  <1>3. /\ 0 \in 0..2 * PerCompany /\ DOMAIN Bundle[0] = 1..3
        /\ Bundle[0][1].id = mem.company
        /\ Bundle[0][2].id = <<"membership", mem.company>>
    <2> DEFINE head == <<Item("company", mem.company, mem.account),
                         Item("membership", <<"membership", mem.company>>, mem.account),
                         Item("enrich company", mem.company, mem.account)>>
    <2>1. 0 \in 0..2 * PerCompany /\ 0 \notin 1..PerCompany
      BY <1>1
    <2>2. Bundle[0] = head
      BY <2>1 DEF Bundle
    <2>3. /\ DOMAIN head = 1..3 /\ head[1].id = mem.company
          /\ head[2].id = <<"membership", mem.company>>
      BY DEF Item
    <2> QED BY <2>1, <2>2, <2>3
  <1>4. mem.company \in Refs /\ <<"membership", mem.company>> \in Refs
    <2>1. 1 \in 1..3 /\ 2 \in 1..3
      OBVIOUS
    <2> QED BY <1>2, <1>3, <2>1
  <1>5. ASSUME NEW k \in 1..PerCompany
        PROVE  mem.persons[k].id \in Refs
    <2>1. k \in 0..2 * PerCompany /\ k # 0
      BY <1>1
    <2>2. Bundle[k] = Contact(mem.persons[k])
      BY <2>1 DEF Bundle
    <2>3. /\ 1 \in DOMAIN Contact(mem.persons[k])
          /\ Contact(mem.persons[k])[1].id = mem.persons[k].id
      <3>1. CASE mem.persons[k].matched
        <4> DEFINE enrichment == Item("enrich person", mem.persons[k].id, mem.persons[k].data)
        <4>1. enrichment.id = mem.persons[k].id
          BY DEF Item
        <4>2. Contact(mem.persons[k]) = <<enrichment>>
          BY <3>1 DEF Contact
        <4> HIDE DEF enrichment
        <4>3. 1 \in DOMAIN <<enrichment>> /\ <<enrichment>>[1] = enrichment
          OBVIOUS
        <4> QED BY <4>1, <4>2, <4>3
      <3>2. CASE ~ mem.persons[k].matched
        BY <3>2 DEF Contact, Item
      <3> QED BY <3>1, <3>2
    <2>4. 1 \in 1..3
      OBVIOUS
    <2> QED BY <1>2, <2>1, <2>2, <2>3, <2>4
  <1>6. ASSUME NEW k \in 1..PerCompany
        PROVE  /\ {<<"opportunity", mem.company, k>>, <<"note", mem.company, k>>,
                   <<"noteTarget", mem.company, k>>} \subseteq Refs
               /\ \E p \in Places : \E text :
                    ItemAt(p) = Item("opportunity", <<"opportunity", mem.company, k>>,
                                     <<text, mem.persons[k].id>>)
    <2> DEFINE j == ((k - 1) % PerCompany) + 1
               r == PerCompany + k
    <2>1. j = k
      BY <1>1, SamePosition
    <2>2. r \in 0..2 * PerCompany /\ r # 0 /\ r \notin 1..PerCompany /\ r - PerCompany = k
      BY <1>1
    <2>3. Bundle[r] = Offer(k)
      BY <2>2 DEF Bundle
    <2>4. /\ DOMAIN Offer(k) = 1..3
          /\ Offer(k)[1] = Item("opportunity", <<"opportunity", mem.company, k>>,
                                <<mem.texts[k], mem.persons[j].id>>)
          /\ Offer(k)[2].id = <<"note", mem.company, k>>
          /\ Offer(k)[3].id = <<"noteTarget", mem.company, k>>
      BY DEF Offer, Item
    <2>5. Offer(k)[1].id = <<"opportunity", mem.company, k>>
      BY <2>4 DEF Item
    <2> HIDE DEF r, j
    <2>6. ASSUME NEW n \in 1..3
          PROVE  /\ <<r, n>> \in Places /\ ItemAt(<<r, n>>) = Offer(k)[n]
                 /\ Offer(k)[n].id \in Refs
      BY <1>2, <2>2, <2>3, <2>4
    <2>7. 1 \in 1..3 /\ 2 \in 1..3 /\ 3 \in 1..3
      OBVIOUS
    <2>8. Offer(k)[1].id \in Refs /\ Offer(k)[2].id \in Refs /\ Offer(k)[3].id \in Refs
      BY <2>6, <2>7
    <2>9. <<r, 1>> \in Places /\ ItemAt(<<r, 1>>) = Offer(k)[1]
      BY <2>6, <2>7
    <2> QED BY <2>1, <2>4, <2>5, <2>8, <2>9
  <1> QED BY <1>4, <1>5, <1>6

\* A bundle with nothing left on the list is whole.
LEMMA RefsAreWhole ==
  ASSUME Underway, pc = "prepare", mem.todo = {}
  PROVE  Whole(Refs)
  <1>1. \A p \in Places : Settled(ItemAt(p))
    BY DEF Underway, Publishing
  <1>2. \A id \in Refs : Made(id)
    BY <1>1 DEF Refs, Settled
  <1>3. ASSUME job = "account" PROVE mem.company \in Refs /\ Pitched(mem.company, Refs)
    <2>1. ASSUME NEW k \in 1..PerCompany
          PROVE  /\ <<"opportunity", mem.company, k>> \in DOMAIN intent
                 /\ intent[<<"opportunity", mem.company, k>>].data[2] \in Refs
      <3>1. PICK p \in Places : \E text :
              ItemAt(p) = Item("opportunity", <<"opportunity", mem.company, k>>,
                               <<text, mem.persons[k].id>>)
        BY <1>3, BundleFacts
      <3>2. /\ ItemAt(p).object = "opportunity"
            /\ ItemAt(p).id = <<"opportunity", mem.company, k>>
            /\ ItemAt(p).data[2] = mem.persons[k].id
        BY <3>1 DEF Item
      <3>3. Intended(ItemAt(p))
        BY <1>1, <3>2 DEF Settled
      <3>4. ItemAt(p).data[2] \in Refs
        <4>1. mem.persons[k].id \in Refs
          BY <1>3, BundleFacts
        <4> QED BY <3>2, <4>1
      <3> QED BY <3>2, <3>3, <3>4 DEF Intended
    <2> QED BY <1>3, <2>1, BundleFacts DEF Pitched
  <1> QED BY <1>2, <1>3 DEF Whole

\* A list with one more member.
LEMMA AppendFacts ==
  ASSUME NEW s, s \in Seq(Members(s)), NEW x
  PROVE  /\ Append(s, x) \in Seq(Members(Append(s, x)))
         /\ Members(Append(s, x)) = Members(s) \cup {x}
  <1> DEFINE S == Members(s) \cup {x}
             t == Append(s, x)
  <1>1. Len(s) \in Nat /\ DOMAIN s = 1..Len(s) /\ s \in Seq(S)
    <2>1. s \in [1..Len(s) -> Members(s)] /\ Len(s) \in Nat
      BY LenProperties
    <2>2. s \in [1..Len(s) -> S]
      BY <2>1
    <2> QED BY <2>1, <2>2, IsASeq
  <1>2. /\ t \in Seq(S) /\ Len(t) = Len(s) + 1 /\ DOMAIN t = 1..Len(s) + 1
        /\ \A k \in 1..Len(s) : t[k] = s[k]
        /\ t[Len(s) + 1] = x
    <2>1. x \in S
      OBVIOUS
    <2> HIDE DEF S
    <2>2. t \in Seq(S) /\ Len(t) = Len(s) + 1
      BY <1>1, <2>1, AppendProperties
    <2>3. (\A k \in 1..Len(s) : t[k] = s[k]) /\ t[Len(s) + 1] = x
      BY <1>1, <2>1, AppendProperties
    <2>4. DOMAIN t = 1..Len(s) + 1
      BY <1>1, <2>2, LenProperties
    <2> QED BY <2>2, <2>3, <2>4
  <1> HIDE DEF t
  <1>3. Members(t) = S
    <2>1. \A k \in 1..Len(s) + 1 : k \in 1..Len(s) \/ k = Len(s) + 1
      BY <1>1
    <2>2. 1..Len(s) \subseteq 1..Len(s) + 1 /\ Len(s) + 1 \in 1..Len(s) + 1
      BY <1>1
    <2> QED BY <1>1, <1>2, <2>1, <2>2 DEF Members
  <1> QED BY <1>2, <1>3 DEF t

\* The bundle that was published joins the others.
LEMMA SaveProgressKeeps ==
  ASSUME IInv, Lasting, SaveProgress
  PROVE  Shaped' /\ Collected' /\ Underway'
  <1>1. PICK b : b = Refs
    OBVIOUS
  <1> DEFINE bundles == Append(mem.bundles, b)
             all == Members(mem.bundles) \cup {b}
  <1>2. bundles \in Seq(Members(bundles)) /\ Members(bundles) = all
    BY AppendFacts DEF IInv, Shaped
  <1>3. \A c \in progress \cup Members(result.bundles) \cup all : Whole(c)'
    <2>1. Whole(b)
      BY <1>1, RefsAreWhole DEF SaveProgress, IInv
    <2> QED BY <2>1, WholeStays DEF IInv, Collected
  <1>4. \/ /\ pc' = "over" /\ mem' = Fresh /\ progress' = progress
           /\ result'.bundles = bundles
        \/ /\ pc' = "candidate" /\ DOMAIN mem' = DOMAIN Fresh /\ mem'.bundles = bundles
           /\ progress' = progress \cup Members(bundles) /\ result' = result
    <2>1. CASE job = "campaign"
      BY <1>1, <2>1 DEF SaveProgress, Complete, Keep
    <2>2. CASE job # "campaign"
      <3> DEFINE next == [Fresh EXCEPT !.index = mem.index + 1, !.seen = mem.seen,
                                       !.bundles = bundles, !.review = mem.review]
      <3>1. DOMAIN next = DOMAIN Fresh /\ next.bundles = bundles
        BY FreshFacts
      <3>2. /\ pc' = "candidate" /\ mem' = next /\ result' = result
            /\ progress' = progress \cup {bundles[k] : k \in DOMAIN bundles}
        BY <1>1, <2>2 DEF SaveProgress, Keep
      <3> HIDE DEF next, bundles
      <3> QED BY <3>1, <3>2 DEF Members
    <2> QED BY <2>1, <2>2
  <1> HIDE DEF bundles
  <1>5. Shaped'
    BY <1>2, <1>4, FreshFacts DEF Shaped, Lasting
  <1>6. ASSUME NEW c \in progress' \cup Members(result'.bundles) \cup Members(mem'.bundles)
        PROVE  Whole(c)'
    <2>1. c \in progress \cup Members(result.bundles) \cup all
      BY <1>2, <1>4, FreshFacts
    <2> QED BY <1>3, <2>1
  <1>7. Collected'
    BY <1>6 DEF Collected, Members
  <1>8. Underway'
    BY <1>4 DEF Underway, Publishing
  <1> QED BY <1>5, <1>7, <1>8

-----------------------------------------------------------------------------
(* The window between the verification and the bundle *)

LEMMA WindowKept ==
  ASSUME Windowed, [Next]_vars
  PROVE  Windowed'
  <1>1. CASE Verify
    BY <1>1 DEF Verify, Verified, Goto, Fail, Keep, envVars, reportVars, Windowed
  <1>2. CASE Begin
    BY <1>2 DEF Begin, Exhausted, Complete, NextCandidate, Goto, Keep, envVars, reportVars, Windowed
  <1>3. CASE ~ Verify /\ ~ Begin
    <2>1. overtaken' = overtaken /\ (changed => changed') /\ (pc' = "begin" => pc = "begin")
      <3>1. CASE Claim \/ Fails \/ Lost \/ Retry \/ Study \/ UNCHANGED vars
        BY <3>1 DEF Claim, Fails, Fail, Lost, Retry, Study, vars, Keep, envVars, reportVars
      <3>2. CASE StageDenied \/ AccountAccepted \/ Validated \/ MatchCompany \/ StageRejected
        BY <3>2 DEF StageDenied, AccountAccepted, Validated, MatchCompany, StageRejected,
                    NextCandidate, Goto, Exhausted, Complete, Keep, envVars, reportVars
      <3>3. CASE PersonFound \/ OpportunityFound \/ Enough \/ IcpAccepted \/ CampaignAccepted
        BY <3>3 DEF PersonFound, OpportunityFound, Enough, IcpAccepted, CampaignAccepted,
                    NextCandidate, Goto, Keep, envVars, reportVars
      <3>4. CASE Prepare
        BY <3>4 DEF Prepare, Exhausted, Complete, Fail, Keep, envVars, reportVars
      <3>5. CASE Create
        BY <3>5 DEF Create, envVars, reportVars
      <3>6. CASE Confirm
        BY <3>6 DEF Confirm, envVars, reportVars
      <3>7. CASE PublishFails
        BY <3>7 DEF PublishFails, envVars, reportVars
      <3>8. CASE Enrich
        BY <3>8 DEF Enrich, envVars, reportVars
      <3>9. CASE PublishLate
        BY <3>9 DEF PublishLate, Exhausted, Complete, Keep, envVars
      <3>10. CASE SaveProgress
        BY <3>10 DEF SaveProgress, Complete, Keep, envVars
      <3>11. CASE Finish
        BY <3>11 DEF Finish, Complete, Keep, envVars
      <3>12. CASE ChangeParents \/ DeadlinePasses
        BY <3>12 DEF ChangeParents, DeadlinePasses, reportVars
      <3>13. CASE \E s \in Strangers : AddCompany(s)
        BY <3>13 DEF AddCompany, reportVars
      <3>14. CASE \E id \in DOMAIN intent : Sweep(id)
        BY <3>14 DEF Sweep, envVars, reportVars
      <3>15. CASE \E id \in DOMAIN companies \cup DOMAIN people : Delete(id)
        BY <3>15 DEF Delete, reportVars
      <3>16. CASE \E u \in flight : ApplyUpdate(u)
        BY <3>16 DEF ApplyUpdate, envVars, reportVars
      <3>17. CASE SendUpdate
        BY <3>17 DEF SendUpdate, envVars, reportVars
      <3> QED
        BY <1>3, <3>1, <3>2, <3>3, <3>4, <3>5, <3>6, <3>7, <3>8, <3>9, <3>10, <3>11, <3>12,
           <3>13, <3>14, <3>15, <3>16, <3>17
           DEF Next, Research, Publication, Others
    <2> QED BY <2>1 DEF Windowed
  <1> QED BY <1>1, <1>2, <1>3

-----------------------------------------------------------------------------
(* The invariant *)

LEMMA InitEstablishes ==
  ASSUME Init
  PROVE  IInv
  <1>1. Shaped
    BY FreshFacts DEF Init, Shaped
  <1>2. Collected
    BY FreshFacts DEF Init, Collected, NoResult, Members
  <1>3. Underway /\ Windowed
    BY DEF Init, Underway, Publishing, Windowed
  <1> QED BY <1>1, <1>2, <1>3 DEF IInv

LEMMA PublicationKeeps ==
  ASSUME IInv, Lasting, Publication
  PROVE  Shaped' /\ Collected' /\ Underway'
  <1> USE DEF IInv
  <1>1. CASE Verify
    <2>1. Goto("begin", mem) \/ Fail
      BY <1>1 DEF Verify
    <2> QED BY <2>1, EndsAreQuiet, GotoIsQuiet, QuietKeeps DEF Shaped, Publishing
  <1>2. CASE Begin
    <2>1. CASE Exhausted \/ NextCandidate(mem)
      BY <2>1, EndsAreQuiet, QuietKeeps
    <2>2. CASE ~ (Exhausted \/ NextCandidate(mem))
      <3>1. /\ pc' = "prepare" /\ UNCHANGED <<progress, result>>
            /\ \/ mem' = [mem EXCEPT !.company = CompanyFor(mem.account), !.todo = Places]
               \/ mem' = [mem EXCEPT !.todo = Places]
        BY <1>2, <2>2 DEF Begin, Keep
      <3>2. /\ DOMAIN mem' = DOMAIN Fresh /\ mem'.bundles = mem.bundles
            /\ mem'.persons = mem.persons /\ mem'.todo = Places
        BY <3>1, FreshFacts DEF Shaped
      <3> QED BY <3>1, <3>2, BeginKeeps DEF SameBundles
    <2> QED BY <2>1, <2>2
  <1>3. CASE Prepare
    <2>1. CASE Exhausted \/ Fail
      BY <2>1, EndsAreQuiet, QuietKeeps
    <2>2. CASE ~ (Exhausted \/ Fail)
      <3>1. pc' = "create" /\ UNCHANGED <<mem, progress, result>> /\ pc \in Publishing
        BY <1>3, <2>2 DEF Prepare, reportVars, Publishing
      <3>2. Intended(Now)'
        BY <1>3, <3>1, PrepareLasts
      <3> QED BY <3>1, <3>2, StayKeeps DEF SameBundles, Shaped
    <2> QED BY <2>1, <2>2
  <1>4. CASE Create
    <2>1. /\ pc = "create" /\ pc' = "confirm" /\ UNCHANGED <<mem, progress, result>>
      BY <1>4 DEF Create, reportVars
    <2>2. Made(Now.id)'
      BY <1>4, CreateLasts DEF Made
    <2> QED BY <2>1, <2>2, StayKeeps DEF SameBundles, Shaped, Publishing
  <1>5. CASE Confirm
    <2>1. /\ pc \in {"create", "confirm"} /\ pc' = "prepare" /\ mem' = Published
          /\ UNCHANGED <<progress, result>>
      BY <1>5 DEF Confirm, reportVars
    <2>2. Settled(Now)
      BY <1>5, <2>1 DEF Confirm, Found, Made, Settled, Underway
    <2> QED BY <2>1, <2>2, PublishedKeeps DEF Publishing
  <1>6. CASE PublishFails
    BY <1>6, QuietKeeps, FreshFacts
       DEF PublishFails, Quiet, Carried, Publishing, reportVars
  <1>7. CASE PublishLate
    BY <1>7, EndsAreQuiet, QuietKeeps DEF PublishLate
  <1>8. CASE Enrich
    <2>1. /\ pc = "prepare" /\ pc' = "prepare" /\ mem' = Published
          /\ UNCHANGED <<progress, result>>
      BY <1>8 DEF Enrich, Enriching, reportVars
    <2>2. Settled(Now)
      BY <1>8 DEF Enrich, Enriching, Made, Settled
    <2> QED BY <2>1, <2>2, PublishedKeeps DEF Publishing
  <1>9. CASE SaveProgress
    BY <1>9, SaveProgressKeeps
  <1>10. CASE Finish
    <2>1. \E outcome : Complete(outcome, mem.bundles)
      BY <1>10 DEF Finish
    <2> QED BY <2>1, EndsAreQuiet, QuietKeeps
  <1>11. CASE SendUpdate
    <2>1. UNCHANGED <<pc, mem, progress, result>>
      BY <1>11 DEF SendUpdate, reportVars
    <2> QED BY <2>1, StayKeeps DEF SameBundles, Shaped
  <1> QED
    BY <1>1, <1>2, <1>3, <1>4, <1>5, <1>6, <1>7, <1>8, <1>9, <1>10, <1>11 DEF Publication

LEMMA StepKeeps ==
  ASSUME IInv, [Next]_vars
  PROVE  IInv'
  <1>1. Lasting /\ Windowed'
    BY NextLasts, WindowKept DEF IInv
  <1>2. CASE Claim \/ Fails \/ Lost \/ Retry \/ \E id \in DOMAIN intent : Sweep(id)
    <2>1. CASE Fails
      BY <1>1, <2>1, EndsAreQuiet, QuietKeeps DEF Fails, IInv
    <2>2. CASE ~ Fails
      <3>1. Quiet
        BY <1>2, <2>2, FreshFacts
           DEF Claim, Lost, Retry, Sweep, Working, Keep, Quiet, Carried, Publishing, reportVars,
               IInv, Shaped
      <3> QED BY <1>1, <3>1, QuietKeeps DEF IInv
    <2> QED BY <1>1, <2>1, <2>2 DEF IInv
  <1>3. CASE Research
    <2>1. CASE CampaignAccepted
      <3>1. /\ pc' = "prepare" /\ UNCHANGED <<progress, result>>
            /\ mem' = [mem EXCEPT !.account = Data, !.todo = Places]
        BY <2>1 DEF CampaignAccepted, Goto, Keep, reportVars
      <3>2. /\ DOMAIN mem' = DOMAIN Fresh /\ mem'.bundles = mem.bundles
            /\ mem'.persons = mem.persons /\ mem'.todo = Places
        BY <3>1, FreshFacts DEF IInv, Shaped
      <3> QED BY <1>1, <3>1, <3>2, BeginKeeps DEF SameBundles, IInv
    <2>2. CASE ~ CampaignAccepted
      BY <1>1, <1>3, <2>2, ResearchIsQuiet, QuietKeeps DEF IInv
    <2> QED BY <2>1, <2>2
  <1>4. CASE Publication
    BY <1>1, <1>4, PublicationKeeps DEF IInv
  <1>5. CASE \/ ChangeParents \/ DeadlinePasses \/ UNCHANGED vars
             \/ \E s \in Strangers : AddCompany(s)
             \/ \E id \in DOMAIN companies \cup DOMAIN people : Delete(id)
             \/ \E u \in flight : ApplyUpdate(u)
    <2>1. UNCHANGED <<pc, mem, progress, result>>
      BY <1>5 DEF ChangeParents, DeadlinePasses, AddCompany, Delete, ApplyUpdate, vars, reportVars
    <2> QED BY <1>1, <2>1, StayKeeps DEF SameBundles, IInv, Shaped
  <1> QED BY <1>2, <1>3, <1>4, <1>5 DEF Next, Others

\* The inductive invariant holds in every reachable state.
THEOREM Invariance == Spec => []IInv
  BY InitEstablishes, StepKeeps, PTL DEF Spec

\* Every bundle that is reported, as progress or as a result, is whole, whichever
\* claims have published its parts.
THEOREM ReportedBundlesAreWhole == Spec => []BundlesPublished
  <1>1. ASSUME IInv PROVE BundlesPublished
    <2>1. ASSUME NEW b \in progress \cup Members(result.bundles) PROVE Whole(b)
      BY <1>1, <2>1 DEF IInv, Collected
    <2> QED BY <2>1 DEF BundlesPublished, Reported, Members, Whole, Made, Pitched
  <1> QED BY <1>1, Invariance, PTL

\* No second bundle is begun after the parents have changed, whatever claims
\* follow.
THEOREM OneBundleIsOvertaken == Spec => []ScopeWindow
  <1>1. ASSUME IInv PROVE ScopeWindow
    BY <1>1 DEF IInv, Windowed, ScopeWindow
  <1> QED BY <1>1, Invariance, PTL

-----------------------------------------------------------------------------
(* A denial is the end *)

Idle == {"queued", "failed", "over"}

\* The keys of a candidate, and of its validation.
Chosen(i) == <<i, "candidate", 0>>
Checked(i) == <<i, "validation", 0>>

Accepted(key) == key \in DOMAIN saved /\ saved[key].outcome = "accepted"

\* The stages of a candidate come in their order, and no claim has passed a
\* candidate whose denial ends the research.
Ordered ==
  /\ mem.index \in Nat
  /\ pc \in Idle => mem = Fresh
  /\ pc \in {"candidate", "validation"} => mem.attempt = 0
  /\ pc \in {"validation", "match", "people", "opportunities"} => job = "account"
  /\ \A d \in DOMAIN saved :
       /\ d = <<d[1], d[2], d[3]>> /\ d[1] \in Nat
       /\ d[2] \in {"candidate", "validation"} => d[3] = 0
       /\ d[2] = "validation" => job = "account" /\ Accepted(Chosen(d[1]))
       /\ d[1] < mem.index => ~ Ends(d)
  /\ pc \notin Idle \cup {"candidate", "finish"} => Accepted(Chosen(mem.index))
  /\ pc \notin Idle \cup {"candidate", "finish", "validation"} /\ job = "account" =>
       Accepted(Checked(mem.index))

\* The candidate at hand is not one whose denial ends the research.
Passable == \A d \in DOMAIN saved : d[1] = mem.index => ~ Ends(d)

\* What was accepted was not denied.
LEMMA AcceptedPasses ==
  ASSUME Ordered, Accepted(Chosen(mem.index)),
         job = "account" => Accepted(Checked(mem.index))
  PROVE  Passable
  BY DEF Ordered, Accepted, Chosen, Checked, Passable, Ends, Denials

\* The stages are as they were.
SameStages == saved' = saved /\ job' = job

\* The next candidate.
Advances ==
  /\ SameStages /\ Passable /\ pc' = "candidate"
  /\ mem'.index = mem.index + 1 /\ mem'.attempt = 0

\* The end of a claim.
Drops == SameStages /\ pc' \in Idle \cup {"candidate"} /\ mem' = Fresh

\* The candidate at hand goes on.
Proceeds ==
  /\ SameStages /\ pc \notin Idle /\ pc' \notin Idle /\ mem'.index = mem.index
  /\ pc' \in {"candidate", "validation"} => mem'.attempt = 0
  /\ pc' \in {"validation", "match", "people", "opportunities"} => job = "account"
  /\ pc' \in {"candidate", "finish"} \/ Accepted(Chosen(mem.index))
  /\ pc' \in {"candidate", "finish", "validation"} \/ job # "account" \/ Accepted(Checked(mem.index))

LEMMA FreshIndex == Fresh.index = 0 /\ Fresh.attempt = 0
  BY DEF Fresh

LEMMA MovesKeepOrder ==
  ASSUME Ordered, Advances \/ Drops \/ Proceeds \/ (SameStages /\ UNCHANGED <<pc, mem>>)
  PROVE  Ordered'
  <1>1. \A d \in DOMAIN saved : (Ends(d)' <=> Ends(d)) /\ (Accepted(d)' <=> Accepted(d))
    BY DEF Ends, Accepted, Advances, Drops, Proceeds, SameStages
  <1>2. \A key : Accepted(key)' <=> Accepted(key)
    BY DEF Accepted, Advances, Drops, Proceeds, SameStages
  <1>3. saved' = saved /\ job' = job
    BY DEF Advances, Drops, Proceeds, SameStages
  <1>4. CASE Advances
    <2>1. \A d \in DOMAIN saved : d[1] < mem.index + 1 => d[1] < mem.index \/ d[1] = mem.index
      BY DEF Ordered
    <2> QED BY <1>1, <1>2, <1>3, <1>4, <2>1 DEF Advances, Ordered, Idle, Passable
  <1>5. CASE Drops
    <2>1. \A d \in DOMAIN saved : ~ (d[1] < 0)
      BY DEF Ordered
    <2> QED BY <1>1, <1>2, <1>3, <1>5, <2>1, FreshIndex DEF Drops, Ordered, Idle
  <1>6. CASE Proceeds
    BY <1>1, <1>2, <1>3, <1>6 DEF Proceeds, Ordered, Idle, Chosen, Checked
  <1>7. CASE SameStages /\ UNCHANGED <<pc, mem>>
    BY <1>1, <1>2, <1>3, <1>7 DEF Ordered, Idle, Chosen, Checked
  <1> QED BY <1>4, <1>5, <1>6, <1>7

\* Study adds the stage at hand, and changes no other.
LEMMA StudyKeepsOrder ==
  ASSUME Ordered, Study
  PROVE  /\ Ordered'
         /\ \A d \in DOMAIN saved : saved'[d] = saved[d]
         /\ \A k \in DOMAIN saved' \ DOMAIN saved : k = StageKey
  <1>1. PICK r : saved' = [k \in DOMAIN saved \cup {StageKey} |->
                             IF k = StageKey THEN r ELSE saved[k]]
    BY DEF Study
  <1>2. /\ StageKey \notin DOMAIN saved /\ UNCHANGED <<pc, mem, job>>
        /\ pc \in {"candidate", "validation", "people", "opportunities"}
    BY DEF Study, Reused, AtStage, envVars
  <1>3. /\ StageKey = <<mem.index, pc, mem.attempt>> /\ StageKey[1] = mem.index
        /\ StageKey[2] = pc /\ StageKey[3] = mem.attempt
    BY DEF StageKey
  <1>4. DOMAIN saved' = DOMAIN saved \cup {StageKey} /\ \A d \in DOMAIN saved : saved'[d] = saved[d]
    BY <1>1, <1>2
  <1>5. /\ \A key : Accepted(key) => Accepted(key)'
        /\ \A d \in DOMAIN saved : Ends(d)' <=> Ends(d)
    BY <1>2, <1>4 DEF Accepted, Ends
  <1>6. pc = "validation" => Accepted(Chosen(mem.index))
    BY DEF Ordered, Idle
  <1>7. \A d \in DOMAIN saved' :
          /\ d = <<d[1], d[2], d[3]>> /\ d[1] \in Nat
          /\ d[2] \in {"candidate", "validation"} => d[3] = 0
          /\ d[2] = "validation" => job = "account" /\ Accepted(Chosen(d[1]))'
          /\ d[1] < mem.index => ~ Ends(d)'
    <2>1. SUFFICES ASSUME NEW d \in DOMAIN saved'
                   PROVE  /\ d = <<d[1], d[2], d[3]>> /\ d[1] \in Nat
                          /\ d[2] \in {"candidate", "validation"} => d[3] = 0
                          /\ d[2] = "validation" => job = "account" /\ Accepted(Chosen(d[1]))'
                          /\ d[1] < mem.index => ~ Ends(d)'
      OBVIOUS
    <2>2. CASE d \in DOMAIN saved
      BY <1>5, <2>2 DEF Ordered, Chosen
    <2>3. CASE d = StageKey
      BY <1>2, <1>3, <1>5, <1>6, <2>3 DEF Ordered, Chosen
    <2> QED BY <1>4, <2>1, <2>2, <2>3
  <1>8. Ordered'
    BY <1>2, <1>5, <1>7 DEF Ordered, Idle, Chosen, Checked
  <1> QED BY <1>4, <1>8

\* A claim passes the candidate at hand only where that is no end.
LEMMA NextIsPassable ==
  ASSUME Ordered, Working, pc # "finish",
         \/ pc \notin {"candidate", "validation"}
         \/ Has({"rejected", "review"})
         \/ job = "account" /\ Has({"limit"})
         \/ job # "account" /\ Has({"accepted"})
  PROVE  Passable
  <1> USE DEF Working, Idle, Chosen, Checked
  <1>1. CASE pc \notin {"candidate", "validation"}
    BY <1>1, AcceptedPasses DEF Ordered
  <1>2. CASE pc = "candidate"
    <2>1. StageKey = Chosen(mem.index) /\ StageKey \in DOMAIN saved
      BY <1>2 DEF StageKey, Has, Ordered
    <2>2. ~ Ends(StageKey)
      BY <1>2 DEF Has, Ends, Denials
    <2>3. ASSUME NEW d \in DOMAIN saved, d[1] = mem.index, Ends(d) PROVE FALSE
      <3>1. CASE d[2] = "candidate"
        BY <2>1, <2>2, <2>3, <3>1 DEF Ordered
      <3>2. CASE d[2] = "validation"
        BY <1>2, <2>1, <2>3, <3>2 DEF Ordered, Accepted, Has
      <3> QED BY <2>3, <3>1, <3>2 DEF Ends
    <2> QED BY <2>3 DEF Passable
  <1>3. CASE pc = "validation"
    <2>1. StageKey = Checked(mem.index) /\ StageKey \in DOMAIN saved
      BY <1>3 DEF StageKey, Has, Ordered
    <2>2. ~ Ends(StageKey)
      BY <1>3 DEF Has, Ends, Denials
    <2>3. Accepted(Chosen(mem.index))
      BY <1>3 DEF Ordered
    <2>4. ASSUME NEW d \in DOMAIN saved, d[1] = mem.index, Ends(d) PROVE FALSE
      <3>1. CASE d[2] = "candidate"
        BY <2>3, <2>4, <3>1 DEF Ordered, Accepted, Ends, Denials
      <3>2. CASE d[2] = "validation"
        BY <2>1, <2>2, <2>4, <3>2 DEF Ordered
      <3> QED BY <2>4, <3>1, <3>2 DEF Ends
    <2> QED BY <2>4 DEF Passable
  <1> QED BY <1>1, <1>2, <1>3

\* The ends of a claim, and the next candidate.
LEMMA EndsDrop ==
  ASSUME Shaped, Passable, NEW m, m.index = mem.index, NEW outcome, NEW bundles
  PROVE  /\ Fail => Drops
         /\ Exhausted => Drops
         /\ Complete(outcome, bundles) => Drops
         /\ NextCandidate(m) => Advances
  <1>1. /\ Fail => Drops
        /\ Exhausted => Drops
        /\ Complete(outcome, bundles) => Drops
    BY DEF Fail, Exhausted, Complete, Keep, envVars, Drops, SameStages, Idle
  <1>2. ASSUME NextCandidate(m) PROVE Advances
    <2> DEFINE next == [Fresh EXCEPT !.index = m.index + 1, !.seen = m.seen,
                                     !.bundles = m.bundles, !.exhausted = m.exhausted,
                                     !.review = m.review]
    <2>1. next.index = mem.index + 1 /\ next.attempt = 0
      BY FreshFacts, FreshIndex
    <2>2. pc' = "candidate" /\ mem' = next /\ SameStages
      BY <1>2 DEF NextCandidate, Goto, Keep, envVars, SameStages
    <2> HIDE DEF next
    <2> QED BY <2>1, <2>2 DEF Advances
  <1> QED BY <1>1, <1>2

\* The ends of a claim, wherever it is.
LEMMA EndsAlwaysDrop ==
  ASSUME NEW outcome, NEW bundles, Fail \/ Exhausted \/ Complete(outcome, bundles)
  PROVE  Drops
  BY DEF Fail, Exhausted, Complete, Keep, envVars, Drops, SameStages, Idle

\* The candidate at hand is on, with other data in memory.
LEMMA GotoProceeds ==
  ASSUME Ordered, Working, NEW place, NEW m, Goto(place, m), m.index = mem.index,
         place \notin Idle, pc # "finish",
         place \in {"candidate", "validation"} => m.attempt = 0,
         place \in {"validation", "match", "people", "opportunities"} => job = "account",
         place \in {"candidate", "finish"} \/ pc # "candidate" \/ Accepted(Chosen(mem.index)),
         \/ place \in {"candidate", "finish", "validation"} \/ job # "account"
         \/ pc \notin {"candidate", "validation"} \/ Accepted(Checked(mem.index))
  PROVE  Proceeds
  BY DEF Goto, Keep, envVars, Proceeds, SameStages, Working, Idle, Ordered

\* The stages of a candidate lead on, or to the next one.
LEMMA ResearchKeepsOrder ==
  ASSUME Shaped, Ordered, job \in Kinds, Research, ~ Study
  PROVE  Advances \/ Drops \/ Proceeds
  <1> USE DEF Working, Idle
  <1>1. Working /\ pc # "finish"
    BY DEF Research, StageDenied, StageRejected, AccountAccepted, Validated, MatchCompany,
           PersonFound, OpportunityFound, Enough, IcpAccepted, CampaignAccepted, Has, AtStage
  <1>2. CASE StageDenied
    <2> DEFINE m == [mem EXCEPT !.exhausted = TRUE]
    <2>1. m.index = mem.index
      BY FreshFacts DEF Shaped
    <2>2. \/ Exhausted
          \/ job = "account" /\ Has({"limit"}) /\ NextCandidate(mem)
          \/ Goto("finish", m)
      BY <1>2 DEF StageDenied, Has
    <2> HIDE DEF m
    <2>3. CASE Goto("finish", m)
      BY <1>1, <2>1, <2>3, GotoProceeds
    <2>4. CASE job = "account" /\ Has({"limit"}) /\ NextCandidate(mem)
      BY <1>1, <2>4, NextIsPassable, EndsDrop
    <2> QED BY <2>2, <2>3, <2>4, EndsAlwaysDrop
  <1>3. CASE StageRejected
    <2> DEFINE m == [mem EXCEPT !.review = @ \/ saved[StageKey].outcome = "review"]
               n == [mem EXCEPT !.attempt = @ + 1]
    <2>1. m.index = mem.index /\ n.index = mem.index
      BY FreshFacts DEF Shaped
    <2>2. \/ Complete("insufficient_evidence", <<>>) \/ NextCandidate(m)
          \/ pc \in {"people", "opportunities"} /\ Goto(pc, n)
      BY <1>3 DEF StageRejected
    <2>3. Has({"rejected", "review"})
      BY <1>3 DEF StageRejected
    <2> HIDE DEF m, n
    <2>4. CASE NextCandidate(m)
      BY <1>1, <2>1, <2>3, <2>4, NextIsPassable, EndsDrop
    <2>5. CASE pc \in {"people", "opportunities"} /\ Goto(pc, n)
      BY <1>1, <2>1, <2>5, GotoProceeds DEF Ordered
    <2> QED BY <2>2, <2>4, <2>5, EndsAlwaysDrop
  <1>4. CASE AccountAccepted
    <2> DEFINE m == [mem EXCEPT !.account = Data]
    <2>1. m.index = mem.index /\ m.attempt = mem.attempt
      BY FreshFacts DEF Shaped
    <2>2. job = "account" /\ pc = "candidate" /\ Goto("validation", m)
      BY <1>4 DEF AccountAccepted
    <2> HIDE DEF m
    <2>3. Accepted(Chosen(mem.index))
      BY <1>4 DEF AccountAccepted, Has, StageKey, Ordered, Accepted, Chosen
    <2> QED BY <1>1, <2>1, <2>2, <2>3, GotoProceeds DEF Ordered
  <1>5. CASE Validated
    <2>1. pc = "validation" /\ job = "account" /\ Goto("match", mem)
      BY <1>5 DEF Validated, Ordered
    <2>2. Accepted(Checked(mem.index))
      BY <1>5 DEF Validated, Has, StageKey, Ordered, Accepted, Checked
    <2> QED BY <1>1, <2>1, <2>2, GotoProceeds
  <1>6. CASE MatchCompany
    <2> DEFINE m == [mem EXCEPT !.company = CompanyFor(mem.account)]
    <2>1. m.index = mem.index
      BY FreshFacts DEF Shaped
    <2>2. pc = "match" /\ (Exhausted \/ NextCandidate(mem) \/ Goto("people", m))
      BY <1>6 DEF MatchCompany
    <2> HIDE DEF m
    <2>3. job = "account"
      BY <2>2 DEF Ordered
    <2>4. CASE NextCandidate(mem)
      BY <1>1, <2>2, <2>4, NextIsPassable, EndsDrop
    <2>5. CASE Goto("people", m)
      BY <1>1, <2>1, <2>2, <2>3, <2>5, GotoProceeds
    <2> QED BY <2>2, <2>4, <2>5, EndsAlwaysDrop
  <1>7. CASE PersonFound
    <2> DEFINE n == [mem EXCEPT !.attempt = @ + 1]
               o(x) == [n EXCEPT !.persons = Append(@, x)]
    <2>1. n.index = mem.index /\ \A x : o(x).index = mem.index
      BY FreshFacts DEF Shaped
    <2>2. /\ pc = "people"
          /\ NextCandidate(mem) \/ Goto("people", n) \/ \E x : Goto("people", o(x))
      BY <1>7 DEF PersonFound
    <2> HIDE DEF n, o
    <2>3. CASE NextCandidate(mem)
      BY <1>1, <2>2, <2>3, NextIsPassable, EndsDrop
    <2>4. CASE ~ NextCandidate(mem)
      BY <1>1, <2>1, <2>2, <2>4, GotoProceeds DEF Ordered
    <2> QED BY <2>3, <2>4
  <1>8. CASE OpportunityFound
    <2> DEFINE n == [mem EXCEPT !.attempt = @ + 1]
               o == [n EXCEPT !.texts = Append(@, Data)]
    <2>1. n.index = mem.index /\ o.index = mem.index
      BY FreshFacts DEF Shaped
    <2>2. /\ pc = "opportunities"
          /\ Goto("opportunities", n) \/ Goto("opportunities", o)
      BY <1>8 DEF OpportunityFound
    <2> HIDE DEF n, o
    <2> QED BY <1>1, <2>1, <2>2, GotoProceeds DEF Ordered
  <1>9. CASE Enough
    <2> DEFINE n == [mem EXCEPT !.attempt = 0]
    <2>1. n.index = mem.index
      BY FreshFacts DEF Shaped
    <2>2. /\ pc \in {"people", "opportunities"}
          /\ NextCandidate(mem) \/ Goto("opportunities", n) \/ Goto("verify", mem)
      BY <1>9 DEF Enough
    <2> HIDE DEF n
    <2>3. CASE NextCandidate(mem)
      BY <1>1, <2>2, <2>3, NextIsPassable, EndsDrop
    <2>4. CASE ~ NextCandidate(mem)
      BY <1>1, <2>1, <2>2, <2>4, GotoProceeds DEF Ordered
    <2> QED BY <2>3, <2>4
  <1>10. CASE IcpAccepted
    <2> DEFINE m == [mem EXCEPT !.seen = @ \cup {Data}, !.account = Data]
    <2>1. m.index = mem.index
      BY FreshFacts DEF Shaped
    <2>2. job = "icp" /\ Has({"accepted"}) /\ (NextCandidate(mem) \/ Goto("verify", m))
      BY <1>10 DEF IcpAccepted
    <2> HIDE DEF m
    <2>3. CASE NextCandidate(mem)
      BY <1>1, <2>2, <2>3, NextIsPassable, EndsDrop
    <2>4. CASE Goto("verify", m)
      <3>1. pc = "candidate" /\ Accepted(Chosen(mem.index))
        BY <2>2 DEF Has, AtStage, StageKey, Ordered, Accepted, Chosen
      <3> QED BY <1>1, <2>1, <2>2, <2>4, <3>1, GotoProceeds
    <2> QED BY <2>2, <2>3, <2>4
  <1>11. CASE CampaignAccepted
    <2> DEFINE m == [mem EXCEPT !.account = Data, !.todo = Places]
    <2>1. m.index = mem.index
      BY FreshFacts DEF Shaped
    <2>2. job = "campaign" /\ Has({"accepted"}) /\ Goto("prepare", m)
      BY <1>11 DEF CampaignAccepted
    <2> HIDE DEF m
    <2>3. pc = "candidate" /\ Accepted(Chosen(mem.index))
      BY <2>2 DEF Has, AtStage, StageKey, Ordered, Accepted, Chosen
    <2> QED BY <1>1, <2>1, <2>2, <2>3, GotoProceeds
  <1> QED
    BY <1>2, <1>3, <1>4, <1>5, <1>6, <1>7, <1>8, <1>9, <1>10, <1>11 DEF Research

\* A publication leads on, to the next candidate, or to an end.
LEMMA PublicationKeepsOrder ==
  ASSUME Shaped, Ordered, Publication
  PROVE  Advances \/ Drops \/ Proceeds
  <1> USE DEF Working, Idle
  <1>1. CASE Finish
    BY <1>1, EndsAlwaysDrop DEF Finish
  <1>2. CASE PublishLate
    BY <1>2, EndsAlwaysDrop DEF PublishLate
  <1>3. CASE Verify
    <2>1. pc = "verify" /\ (Goto("begin", mem) \/ Fail)
      BY <1>3 DEF Verify
    <2> QED BY <2>1, EndsAlwaysDrop, GotoProceeds
  <1>4. CASE Begin
    <2>1. pc = "begin"
      BY <1>4 DEF Begin
    <2>2. CASE Exhausted
      BY <2>2, EndsAlwaysDrop
    <2>3. CASE NextCandidate(mem)
      BY <2>1, <2>3, NextIsPassable, EndsDrop
    <2>4. CASE ~ Exhausted /\ ~ NextCandidate(mem)
      <3> DEFINE m == [mem EXCEPT !.company = CompanyFor(mem.account), !.todo = Places]
                 n == [mem EXCEPT !.todo = Places]
      <3>1. m.index = mem.index /\ n.index = mem.index
        BY FreshFacts DEF Shaped
      <3>2. pc' = "prepare" /\ mem' \in {m, n} /\ SameStages
        BY <1>4, <2>4 DEF Begin, Keep, SameStages, envVars
      <3> HIDE DEF m, n
      <3> QED BY <2>1, <3>1, <3>2 DEF Proceeds, Ordered
    <2> QED BY <2>2, <2>3, <2>4
  <1>5. CASE Prepare
    <2>1. CASE Exhausted \/ Fail
      BY <2>1, EndsAlwaysDrop
    <2>2. CASE ~ (Exhausted \/ Fail)
      <3>1. pc = "prepare" /\ pc' = "create" /\ mem' = mem /\ SameStages
        BY <1>5, <2>2 DEF Prepare, SameStages, envVars
      <3> QED BY <3>1 DEF Proceeds, Ordered
    <2> QED BY <2>1, <2>2
  <1>6. CASE Create
    <2>1. pc = "create" /\ pc' = "confirm" /\ mem' = mem /\ SameStages
      BY <1>6 DEF Create, SameStages, envVars
    <2> QED BY <2>1 DEF Proceeds, Ordered
  <1>7. CASE Confirm \/ Enrich
    <2>1. /\ pc \in {"prepare", "create", "confirm"} /\ pc' = "prepare" /\ mem' = Published
          /\ SameStages
      BY <1>7 DEF Confirm, Enrich, Enriching, SameStages, envVars
    <2>2. Published.index = mem.index
      BY FreshFacts DEF Published, Shaped
    <2> QED BY <2>1, <2>2 DEF Proceeds, Ordered
  <1>8. CASE PublishFails
    BY <1>8 DEF PublishFails, Drops, SameStages, envVars
  <1>9. CASE SaveProgress
    <2>1. pc = "prepare" /\ Passable
      BY <1>9, NextIsPassable DEF SaveProgress
    <2>2. CASE job = "campaign"
      BY <1>9, <2>2, EndsAlwaysDrop DEF SaveProgress
    <2>3. CASE job # "campaign"
      <3>1. PICK b : b = Append(mem.bundles, Refs)
        OBVIOUS
      <3> DEFINE next == [Fresh EXCEPT !.index = mem.index + 1, !.seen = mem.seen,
                                       !.bundles = b, !.review = mem.review]
      <3>2. next.index = mem.index + 1 /\ next.attempt = 0
        BY FreshFacts, FreshIndex
      <3>3. pc' = "candidate" /\ mem' = next /\ SameStages
        BY <1>9, <2>3, <3>1 DEF SaveProgress, Keep, SameStages, envVars
      <3> HIDE DEF next
      <3> QED BY <2>1, <3>2, <3>3 DEF Advances
    <2> QED BY <2>2, <2>3
  <1>10. CASE SendUpdate
    BY <1>10 DEF SendUpdate, Enriching, Proceeds, Ordered, SameStages, envVars
  <1> QED BY <1>1, <1>2, <1>3, <1>4, <1>5, <1>6, <1>7, <1>8, <1>9, <1>10 DEF Publication

LEMMA StepKeepsOrder ==
  ASSUME Shaped, Ordered, job \in Kinds, [Next]_vars
  PROVE  Ordered' /\ (Study \/ saved' = saved)
  <1>1. CASE Study
    BY <1>1, StudyKeepsOrder
  <1>2. CASE ~ Study
    <2>1. Advances \/ Drops \/ Proceeds \/ (SameStages /\ UNCHANGED <<pc, mem>>)
      <3>1. CASE Research
        BY <1>2, <3>1, ResearchKeepsOrder
      <3>2. CASE Publication
        BY <3>2, PublicationKeepsOrder
      <3>3. CASE Claim \/ Retry
        <4>1. /\ pc \in Idle /\ pc' \in Idle \cup {"candidate"} /\ mem' = mem /\ SameStages
          BY <3>3 DEF Claim, Retry, SameStages, envVars, Idle
        <4> QED BY <4>1 DEF Drops, Ordered
      <3>4. CASE Fails \/ Lost
        BY <3>4 DEF Fails, Fail, Lost, Keep, envVars, Drops, SameStages, Idle
      <3>5. CASE \/ ChangeParents \/ DeadlinePasses \/ UNCHANGED vars
                 \/ \E s \in Strangers : AddCompany(s)
                 \/ \E id \in DOMAIN intent : Sweep(id)
                 \/ \E id \in DOMAIN companies \cup DOMAIN people : Delete(id)
                 \/ \E u \in flight : ApplyUpdate(u)
        BY <3>5 DEF ChangeParents, DeadlinePasses, AddCompany, Sweep, Delete, ApplyUpdate, vars,
                    envVars, SameStages
      <3> QED BY <3>1, <3>2, <3>3, <3>4, <3>5 DEF Next, Others
    <2> QED BY <1>2, <2>1, MovesKeepOrder DEF Advances, Drops, Proceeds, SameStages
  <1> QED BY <1>1, <1>2

\* A denial of a candidate that ends the research stays its end, whatever crashes,
\* retries and changes of the CRM follow.
THEOREM DenialsStick == Spec => DenialSticks
  <1> DEFINE Inv == IInv /\ Ordered /\ job \in Kinds
             Step == \A d \in DOMAIN saved : Ends(d) =>
                       /\ saved'[d] = saved[d]
                       /\ \A k \in DOMAIN saved' \ DOMAIN saved : k[1] <= d[1]
  <1>1. Init => Inv
    <2>1. SUFFICES ASSUME Init PROVE Inv
      OBVIOUS
    <2>2. pc = "queued" /\ mem = Fresh /\ DOMAIN saved = {} /\ job \in Kinds
      BY <2>1 DEF Init
    <2> QED BY <2>1, <2>2, InitEstablishes, FreshIndex DEF Ordered, Idle
  <1>2. Inv /\ [Next]_vars => Inv'
    <2>1. SUFFICES ASSUME Inv, [Next]_vars PROVE Inv'
      OBVIOUS
    <2>2. job' = job
      BY <2>1, NextLasts DEF IInv, Lasting
    <2> QED BY <2>1, <2>2, StepKeeps, StepKeepsOrder DEF IInv
  <1>3. Inv /\ [Next]_vars => [Step]_saved
    <2>1. SUFFICES ASSUME Inv, [Next]_vars, saved' # saved PROVE Step
      OBVIOUS
    <2>2. Study
      BY <2>1, StepKeepsOrder DEF IInv
    <2>3. /\ \A d \in DOMAIN saved : saved'[d] = saved[d]
          /\ \A k \in DOMAIN saved' \ DOMAIN saved : k[1] = mem.index
      BY <2>1, <2>2, StudyKeepsOrder DEF StageKey
    <2>4. \A d \in DOMAIN saved : Ends(d) => mem.index <= d[1]
      BY <2>1 DEF Ordered
    <2> QED BY <2>3, <2>4
  <1> QED BY <1>1, <1>2, <1>3, PTL DEF Spec, DenialSticks

-----------------------------------------------------------------------------
(* No duplicates: the invariant *)

\* The CRM is finite and starts without duplicates.
StrangersDiffer ==
  /\ IsFiniteSet(Strangers)
  /\ \A s, t \in Strangers : s.id # t.id => s.domains \cap t.domains = {} /\ s.links \cap t.links = {}

\* The places from the search for people to the publication.
Seeking == {"people", "opportunities", "verify", "begin"}
Planning == Seeking \cup Publishing

\* Twenty has finitely many records, each with its fields.
Tidy ==
  /\ IsFiniteSet(DOMAIN companies) /\ IsFiniteSet(DOMAIN people)
  /\ \A c \in DOMAIN companies : DOMAIN companies[c] = {"domains", "links"}
  /\ \A i \in DOMAIN people : DOMAIN people[i] = {"token", "name", "company"}

\* The people of the plan are a list, complete when it is published.
Planned ==
  /\ mem.persons \in Seq(Members(mem.persons)) /\ Len(mem.persons) <= PerCompany
  /\ pc \in {"validation", "match", "people", "opportunities"} => job = "account"
  /\ pc \notin Planning \cup {"finish"} => mem.persons = <<>>
  /\ pc \in Planning \ {"people"} /\ job = "account" => Len(mem.persons) = PerCompany
  /\ pc \in Publishing => mem.todo \subseteq Places
  /\ pc \in {"create", "confirm"} => mem.todo # {}

\* What holds whatever people change.
Listed == job \in Kinds /\ edits \in Nat /\ Tidy /\ Planned

\* No two companies share a domain or a page, but for strays.
Apart ==
  \A c, e \in DOMAIN companies : c # e =>
    /\ companies[c].domains \cap companies[e].domains \subseteq strays
    /\ companies[c].links \cap companies[e].links \subseteq strays

\* Two people share a token, but for strays, only within one plan of several people.
Shared(token, company, i) ==
  token \notin strays \cup {None} /\ people[i].token = token =>
    PerCompany > 1 /\ (strays = {} => people[i].company = company)

Lone ==
  \A i, j \in DOMAIN people : i # j => Shared(people[j].token, people[j].company, i)

\* A record under the id of a person has what identifies the person.
Identified ==
  strays = {} => \A p, c : PersonIdOf(p, c) \in DOMAIN people =>
    LET record == people[PersonIdOf(p, c)] IN
    IF TokenOf[p] # None THEN record.token = TokenOf[p]
    ELSE record.company = c /\ record.name = NameOf[p]

\* No company but c has the identities of a, but for strays.
Sole(c, a) ==
  \A e \in DOMAIN companies \ {c} :
    /\ DomainOf[a] \in companies[e].domains => DomainOf[a] \in strays
    /\ LinkOf[a] \in companies[e].links => LinkOf[a] \in strays

\* A person of the plan: its record is one of the company, and no other record
\* has its token, but for that of another person of the plan.
Sought(q) ==
  /\ strays = {} /\ q.id \in DOMAIN people => people[q.id].company = mem.company
  /\ \A i \in DOMAIN people \ {q.id} : Shared(TokenOf[q.data], mem.company, i)
  /\ strays = {} /\ ~ q.matched => q.id = PersonIdOf(q.data, mem.company)

\* The plan names what the CRM has of the company and its people.  A stray may make
\* the company another one before the publication begins.
Aimed ==
  /\ pc \in Seeking /\ job = "account" /\ strays = {} => mem.company = CompanyFor(mem.account)
  /\ pc \in Publishing /\ job = "account" => Sole(mem.company, mem.account)
  /\ pc \in Planning => \A k \in DOMAIN mem.persons : Sought(mem.persons[k])

\* The CRM is as the job alone has made it.
Unmixed == Apart /\ Lone /\ Identified /\ Aimed

Unedited == edits = 0 => Unmixed

-----------------------------------------------------------------------------
(* What the choices of the model choose *)

\* A finite set of which it is not so that there are several members.
LEMMA AtMostOne ==
  ASSUME NEW S, IsFiniteSet(S), ~ (Cardinality(S) > 1), NEW x \in S, NEW y \in S
  PROVE  x = y
  <1>1. SUFFICES ASSUME x # y PROVE FALSE
    OBVIOUS
  <1> DEFINE T == S \ {x}
  <1>2. IsFiniteSet(T) /\ Cardinality(T) = Cardinality(S) - 1
    BY FS_RemoveElement
  <1>3. T # {}
    BY <1>1
  <1>4. Cardinality(S) \in Nat /\ Cardinality(T) \in Nat
    BY <1>2, FS_CardinalityType
  <1> HIDE DEF T
  <1>5. Cardinality(T) # 0
    BY <1>2, <1>3, FS_EmptySet
  <1> QED BY <1>2, <1>4, <1>5

\* A company that matches without ambiguity is the only one to have the identities.
LEMMA MatchFacts ==
  ASSUME IsFiniteSet(DOMAIN companies), NEW a, ~ Ambiguous(a)
  PROVE  Sole(CompanyFor(a), a)
  <1> DEFINE D == ByDomain(a)
             L == ByLink(a)
  <1>1. IsFiniteSet(D) /\ IsFiniteSet(L)
    BY FS_Subset DEF ByDomain, ByLink
  <1>2. ~ (Cardinality(D) > 1) /\ ~ (Cardinality(L) > 1) /\ (D # {} /\ L # {} => D = L)
    BY DEF Ambiguous
  <1>3. D \cup L # {} => CompanyFor(a) \in D \cup L
    BY DEF CompanyFor
  <1>4. \A e \in DOMAIN companies :
          /\ DomainOf[a] \in companies[e].domains => e \in D
          /\ LinkOf[a] \in companies[e].links => e \in L
    BY DEF ByDomain, ByLink
  <1> HIDE DEF D, L
  <1>5. \A x, y \in D : x = y
    BY <1>1, <1>2, AtMostOne
  <1>6. \A x, y \in L : x = y
    BY <1>1, <1>2, AtMostOne
  <1>7. \A e \in D \cup L : e = CompanyFor(a)
    BY <1>2, <1>3, <1>5, <1>6
  <1> QED BY <1>4, <1>7 DEF Sole

\* The id of a person tells the person's token, or the company and the name.
LEMMA PersonIds ==
  ASSUME NEW p, NEW c, NEW q, NEW d, PersonIdOf(p, c) = PersonIdOf(q, d)
  PROVE  IF TokenOf[p] # None THEN TokenOf[q] = TokenOf[p]
         ELSE TokenOf[q] = None /\ d = c /\ NameOf[q] = NameOf[p]
  <1>1. \A x, y, z, u : <<"person", x>> # <<"person", y, z>> /\ Len(<<"person", x>>) = 2
          /\ Len(<<"person", y, z>>) = 3
    OBVIOUS
  <1>2. \A x, y : <<"person", x>> = <<"person", y>> => x = y
    OBVIOUS
  <1>3. \A x, y, z, u : <<"person", x, y>> = <<"person", z, u>> => x = z /\ y = u
    OBVIOUS
  <1> QED BY <1>1, <1>2, <1>3 DEF PersonIdOf

\* The rows have numbers, and a list has a first place.
LEMMA PlaceFacts ==
  ASSUME mem.todo \subseteq Places, mem.todo # {}
  PROVE  Place \in Places
  <1> DEFINE rows == {p[1] : p \in mem.todo}
  <1>1. DOMAIN Rows \subseteq Nat
    <2>1. DOMAIN Bundle = 0..2 * PerCompany
      BY DEF Bundle
    <2> QED BY <2>1, TargetAssumption DEF Rows
  <1>2. \A p \in mem.todo : p = <<p[1], p[2]>> /\ p[1] \in Nat /\ p[2] \in Nat
    BY <1>1 DEF Places
  <1>3. ASSUME NEW S \in SUBSET Nat, S # {} PROVE \E k \in S : \A m \in S : k <= m
    <2>1. \E k \in S : \A m \in S : ~ (<<m, k>> \in OpToRel(<, Nat))
      BY <1>3, NatLessThanWellFounded, WFMin
    <2>2. ASSUME NEW k \in Nat, NEW m \in Nat, ~ (<<m, k>> \in OpToRel(<, Nat)) PROVE k <= m
      BY <2>2 DEF OpToRel
    <2> QED BY <1>3, <2>1, <2>2
  <1>4. PICK r \in rows : \A s \in rows : r <= s
    BY <1>2, <1>3
  <1> DEFINE spots == {n \in Nat : <<r, n>> \in mem.todo}
  <1>5. spots # {}
    BY <1>2, <1>4
  <1>6. PICK n \in spots : \A m \in spots : n <= m
    BY <1>3, <1>5
  <1>7. <<r, n>> \in mem.todo
    BY <1>6
  <1>8. \A q \in mem.todo : Before(<<r, n>>, q)
    <2>1. SUFFICES ASSUME NEW q \in mem.todo PROVE Before(<<r, n>>, q)
      OBVIOUS
    <2>2. q[1] \in rows /\ r <= q[1] /\ r \in Nat /\ q[1] \in Nat
      BY <1>2, <1>4
    <2>3. CASE r = q[1]
      <3>1. q[2] \in spots
        BY <1>2, <2>3
      <3> QED BY <1>6, <2>3, <3>1 DEF Before
    <2>4. CASE r # q[1]
      BY <2>2, <2>4 DEF Before
    <2> QED BY <2>3, <2>4
  <1>9. Place \in mem.todo
    BY <1>7, <1>8 DEF Place
  <1> QED BY <1>9

\* What is published of a company and of its people.
LEMMA NowFacts ==
  ASSUME job \in Kinds, mem.todo \subseteq Places, mem.todo # {}
  PROVE  /\ Now.object \in {"company", "enrich company"} =>
              job = "account" /\ Now.id = mem.company /\ Now.data = mem.account
         /\ Now.object = "person" => \E k \in 1..PerCompany :
              /\ job = "account" /\ ~ mem.persons[k].matched
              /\ Now.id = mem.persons[k].id /\ Now.data = <<mem.persons[k].data, mem.company>>
         /\ Now.object = "enrich person" => \E k \in 1..PerCompany :
              job = "account" /\ Now.id = mem.persons[k].id /\ Now.data = mem.persons[k].data
  <1>1. PICK r, n : r \in DOMAIN Rows /\ n \in 1..3 /\ n \in DOMAIN Rows[r] /\ Now = Rows[r][n]
    BY PlaceFacts DEF Places, Now, ItemAt
  <1>2. CASE job \in {"icp", "campaign"}
    <2>1. PICK i : Rows[r] = <<i>> /\ i.object \in {"icp", "campaign"}
      BY <1>1, <1>2 DEF Rows, Item
    <2>2. Now = i
      BY <1>1, <2>1
    <2> QED BY <2>1, <2>2
  <1>3. CASE job \notin {"icp", "campaign"}
    <2>1. job = "account" /\ Rows = Bundle /\ r \in 0..2 * PerCompany
      BY <1>1, <1>3, KindsAssumption DEF Rows, Bundle
    <2>2. CASE r = 0
      <3> DEFINE head == <<Item("company", mem.company, mem.account),
                           Item("membership", <<"membership", mem.company>>, mem.account),
                           Item("enrich company", mem.company, mem.account)>>
      <3>1. Bundle[0] = head
        <4>1. 0 \in 0..2 * PerCompany /\ 0 \notin 1..PerCompany
          BY TargetAssumption
        <4> QED BY <4>1 DEF Bundle
      <3>2. /\ head[1].object = "company" /\ head[1].id = mem.company /\ head[1].data = mem.account
            /\ head[2].object = "membership"
            /\ head[3].object = "enrich company" /\ head[3].id = mem.company
            /\ head[3].data = mem.account
        BY DEF Item
      <3> HIDE DEF head
      <3>3. Now \in {head[1], head[2], head[3]}
        BY <1>1, <2>1, <2>2, <3>1
      <3> QED BY <2>1, <3>2, <3>3
    <2>3. CASE r # 0 /\ r \in 1..PerCompany
      <3> DEFINE q == mem.persons[r]
                 creation == Item("person", q.id, <<q.data, mem.company>>)
                 enrichment == Item("enrich person", q.id, q.data)
      <3>1. Bundle[r] = Contact(q)
        BY <2>1, <2>3 DEF Bundle
      <3>2. \/ Now = enrichment
            \/ ~ q.matched /\ Now = creation
        <4>1. Contact(q) = IF q.matched THEN <<enrichment>> ELSE <<creation, enrichment>>
          BY DEF Contact
        <4> HIDE DEF creation, enrichment, q
        <4>2. \A n1 \in DOMAIN <<enrichment>> : <<enrichment>>[n1] = enrichment
          OBVIOUS
        <4>3. \A n1 \in DOMAIN <<creation, enrichment>> :
                <<creation, enrichment>>[n1] \in {creation, enrichment}
          OBVIOUS
        <4> QED BY <1>1, <2>1, <3>1, <4>1, <4>2, <4>3
      <3>3. /\ creation.object = "person" /\ creation.id = q.id
            /\ creation.data = <<q.data, mem.company>>
            /\ enrichment.object = "enrich person" /\ enrichment.id = q.id
            /\ enrichment.data = q.data
        BY DEF Item
      <3> HIDE DEF creation, enrichment
      <3> QED BY <2>1, <2>3, <3>2, <3>3
    <2>4. CASE r # 0 /\ r \notin 1..PerCompany
      <3>1. Bundle[r] = Offer(r - PerCompany)
        BY <2>1, <2>4 DEF Bundle
      <3>2. \A k : \A n1 \in 1..3 : Offer(k)[n1].object \in {"opportunity", "note", "noteTarget"}
        BY DEF Offer, Item
      <3>3. Now.object \in {"opportunity", "note", "noteTarget"}
        BY <1>1, <2>1, <3>1, <3>2
      <3> QED BY <3>3
    <2> QED BY <2>2, <2>3, <2>4
  <1> QED BY <1>2, <1>3

-----------------------------------------------------------------------------
(* What the CRM and the plan become *)

\* The CRM changes by what is published, and by people.
LEMMA CrmKept ==
  ASSUME [Next]_vars, ~ Create, ~ \E u \in flight : ApplyUpdate(u),
         ~ \E s \in Strangers : AddCompany(s),
         ~ \E id \in DOMAIN companies \cup DOMAIN people : Delete(id)
  PROVE  UNCHANGED <<companies, people, strays>>
  <1>1. CASE Claim \/ Fails \/ Lost \/ Retry \/ UNCHANGED vars
    BY <1>1 DEF Claim, Fails, Fail, Lost, Retry, Keep, vars, crmVars
  <1>2. CASE Research
    BY <1>2
       DEF Research, Study, StageDenied, StageRejected, AccountAccepted, Validated, MatchCompany,
           PersonFound, OpportunityFound, Enough, IcpAccepted, CampaignAccepted, NextCandidate,
           Goto, Exhausted, Complete, Keep, crmVars
  <1>3. CASE Verify \/ Begin \/ PublishLate \/ SaveProgress \/ Finish
    BY <1>3
       DEF Verify, Begin, PublishLate, SaveProgress, Finish, NextCandidate, Goto, Fail,
           Exhausted, Complete, Keep, crmVars
  <1>4. CASE Prepare
    BY <1>4 DEF Prepare, Fail, Exhausted, Complete, Keep, crmVars
  <1>5. CASE Confirm \/ PublishFails \/ SendUpdate \/ Enrich
    BY <1>5 DEF Confirm, PublishFails, SendUpdate, Enrich, crmVars
  <1>6. CASE ChangeParents \/ DeadlinePasses \/ \E id \in DOMAIN intent : Sweep(id)
    BY <1>6 DEF ChangeParents, DeadlinePasses, Sweep, crmVars
  <1> QED BY <1>1, <1>2, <1>3, <1>4, <1>5, <1>6 DEF Next, Publication, Others

\* The changes by people are counted.
LEMMA EditsCounted ==
  ASSUME [Next]_vars, edits \in Nat
  PROVE  /\ edits' \in Nat
         /\ edits' = 0 => /\ edits = 0
                          /\ ~ \E s \in Strangers : AddCompany(s)
                          /\ ~ \E id \in DOMAIN companies \cup DOMAIN people : Delete(id)
  <1>1. CASE \/ ChangeParents \/ \E s \in Strangers : AddCompany(s)
             \/ \E id \in DOMAIN companies \cup DOMAIN people : Delete(id)
    <2>1. edits' = edits + 1
      BY <1>1 DEF ChangeParents, AddCompany, Delete, Edited
    <2> QED BY <2>1
  <1>2. CASE ~ (\/ ChangeParents \/ \E s \in Strangers : AddCompany(s)
                \/ \E id \in DOMAIN companies \cup DOMAIN people : Delete(id))
    <2>1. edits' = edits
      <3>1. CASE Claim \/ Fails \/ Lost \/ Retry \/ UNCHANGED vars
        BY <3>1 DEF Claim, Fails, Fail, Lost, Retry, Keep, vars, envVars
      <3>2. CASE Research
        BY <3>2
           DEF Research, Study, StageDenied, StageRejected, AccountAccepted, Validated,
               MatchCompany, PersonFound, OpportunityFound, Enough, IcpAccepted,
               CampaignAccepted, NextCandidate, Goto, Exhausted, Complete, Keep, envVars
      <3>3. CASE Verify \/ Begin \/ PublishLate \/ SaveProgress \/ Finish
        BY <3>3
           DEF Verify, Begin, PublishLate, SaveProgress, Finish, NextCandidate, Goto, Fail,
               Exhausted, Complete, Keep, envVars
      <3>4. CASE Prepare
        BY <3>4 DEF Prepare, Fail, Exhausted, Complete, Keep, envVars
      <3>5. CASE Create \/ SendUpdate \/ Enrich \/ \E u \in flight : ApplyUpdate(u)
        BY <3>5 DEF Create, SendUpdate, Enrich, ApplyUpdate, envVars
      <3>6. CASE Confirm \/ PublishFails
        BY <3>6 DEF Confirm, PublishFails, envVars
      <3>7. CASE DeadlinePasses \/ \E id \in DOMAIN intent : Sweep(id)
        BY <3>7 DEF DeadlinePasses, Sweep, envVars
      <3> QED
        BY <1>2, <3>1, <3>2, <3>3, <3>4, <3>5, <3>6, <3>7 DEF Next, Publication, Others
    <2> QED BY <1>2, <2>1
  <1> QED BY <1>1, <1>2

\* Twenty stays finite, and its records keep their fields.
LEMMA TidyKept ==
  ASSUME Tidy, [Next]_vars
  PROVE  Tidy'
  <1>1. CASE Create
    <2>1. CASE Now.object = "company"
      <3> DEFINE new == [domains |-> {DomainOf[Now.data]}, links |-> {LinkOf[Now.data]} \ {None}]
      <3>1. UNCHANGED people /\ companies' = With(companies, Now.id, new)
        BY <1>1, <2>1 DEF Create
      <3>2. DOMAIN new = {"domains", "links"}
        OBVIOUS
      <3> HIDE DEF new
      <3>3. IsFiniteSet(DOMAIN companies')
        BY <3>1, FS_AddElement DEF Tidy, With
      <3> QED BY <3>1, <3>2, <3>3 DEF Tidy, With
    <2>2. CASE Now.object = "person"
      <3> DEFINE new == [token |-> TokenOf[Now.data[1]], name |-> NameOf[Now.data[1]],
                         company |-> Now.data[2]]
      <3>1. UNCHANGED companies /\ people' = With(people, Now.id, new)
        BY <1>1, <2>2 DEF Create
      <3>2. DOMAIN new = {"token", "name", "company"}
        OBVIOUS
      <3> HIDE DEF new
      <3>3. IsFiniteSet(DOMAIN people')
        BY <3>1, FS_AddElement DEF Tidy, With
      <3> QED BY <3>1, <3>2, <3>3 DEF Tidy, With
    <2>3. CASE Now.object \notin {"company", "person"}
      BY <1>1, <2>3 DEF Create, Tidy
    <2> QED BY <2>1, <2>2, <2>3
  <1>2. ASSUME NEW u, ApplyUpdate(u) PROVE Tidy'
    <2>1. DOMAIN companies' = DOMAIN companies /\ DOMAIN people' = DOMAIN people
      BY <1>2 DEF ApplyUpdate
    <2>2. /\ \A c \in DOMAIN companies : DOMAIN companies'[c] = DOMAIN companies[c]
          /\ \A i \in DOMAIN people : DOMAIN people'[i] = DOMAIN people[i]
      BY <1>2 DEF ApplyUpdate
    <2> QED BY <2>1, <2>2 DEF Tidy
  <1>3. ASSUME NEW s \in Strangers, AddCompany(s) PROVE Tidy'
    <2> DEFINE new == [domains |-> s.domains, links |-> s.links]
    <2>1. UNCHANGED people /\ companies' = With(companies, s.id, new)
      BY <1>3 DEF AddCompany
    <2>2. DOMAIN new = {"domains", "links"}
      OBVIOUS
    <2> HIDE DEF new
    <2>3. IsFiniteSet(DOMAIN companies')
      BY <2>1, FS_AddElement DEF Tidy, With
    <2> QED BY <2>1, <2>2, <2>3 DEF Tidy, With
  <1>4. ASSUME NEW id, Delete(id) PROVE Tidy'
    <2>1. /\ DOMAIN companies' = DOMAIN companies \ {id}
          /\ DOMAIN people' = DOMAIN people \ {id}
          /\ \A c \in DOMAIN companies' : companies'[c] = companies[c]
          /\ \A i \in DOMAIN people' : people'[i] = people[i]
      BY <1>4 DEF Delete
    <2> QED BY <2>1, FS_RemoveElement DEF Tidy
  <1>5. CASE UNCHANGED <<companies, people>>
    BY <1>5 DEF Tidy
  <1> QED BY <1>1, <1>2, <1>3, <1>4, <1>5, CrmKept

SameCrm == UNCHANGED <<companies, people, strays>>
SameAim == mem'.company = mem.company /\ mem'.account = mem.account

\* The plan is given up.
Away ==
  /\ SameCrm /\ pc' \notin Planning
  /\ pc' \in {"validation", "match"} => job = "account"
  /\ pc' # "finish" => mem'.persons = <<>>
  /\ mem'.persons \in {<<>>, mem.persons}

\* A plan begins with no people: of a company that is matched, or of an ICP or a
\* campaign.
Opened ==
  /\ SameCrm /\ pc \notin Planning \cup {"finish"} /\ mem'.persons = mem.persons
  /\ \/ /\ pc' = "people" /\ job = "account"
        /\ mem'.company = CompanyFor(mem.account) /\ mem'.account = mem.account
     \/ pc' = "verify" /\ job = "icp"
     \/ pc' = "prepare" /\ job = "campaign" /\ mem'.todo = Places

\* A person joins the plan.
Joined ==
  /\ SameCrm /\ SameAim /\ pc = "people" /\ pc' = "people" /\ Len(mem.persons) < PerCompany
  /\ \E p, id :
       /\ mem'.persons = Append(mem.persons,
            [data |-> p, id |-> id, matched |-> PersonMatches(p, mem.company) # {}])
       /\ ~ Doubtful(p, mem.company)
       /\ IF PersonMatches(p, mem.company) = {} THEN id = PersonIdOf(p, mem.company)
          ELSE id \in PersonMatches(p, mem.company)

\* The plan goes on.
Going ==
  /\ SameCrm /\ SameAim /\ pc \in Seeking /\ pc' \in Seeking /\ mem'.persons = mem.persons
  /\ pc' \in {"people", "opportunities"} => job = "account"
  /\ pc' # "people" => pc # "people" \/ Len(mem.persons) >= PerCompany

\* The plan is to be published.
Started ==
  /\ SameCrm /\ pc = "begin" /\ pc' = "prepare" /\ mem'.persons = mem.persons
  /\ mem'.account = mem.account /\ mem'.todo = Places
  /\ IF job = "account" THEN mem'.company = CompanyFor(mem.account) /\ ~ Ambiguous(mem.account)
     ELSE mem'.company = mem.company

\* Its publication goes on.
Publishes ==
  /\ SameAim /\ pc \in Publishing /\ pc' \in Publishing /\ mem'.persons = mem.persons
  /\ mem'.todo \subseteq mem.todo
  /\ pc' \in {"create", "confirm"} => mem'.todo # {}

Rests == SameCrm /\ pc' = pc /\ mem' = mem

LEMMA EndsAreAway ==
  ASSUME SameCrm, NEW m, NEW outcome, NEW bundles
  PROVE  /\ Fail => Away
         /\ Exhausted => Away
         /\ Complete(outcome, bundles) => Away
         /\ NextCandidate(m) => Away
  <1>1. Fresh.persons = <<>>
    BY DEF Fresh
  <1>2. /\ Fail => Away
        /\ Exhausted => Away
        /\ Complete(outcome, bundles) => Away
    BY <1>1 DEF Fail, Exhausted, Complete, Keep, Away, Planning, Seeking, Publishing
  <1>3. ASSUME NextCandidate(m) PROVE Away
    <2> DEFINE next == [Fresh EXCEPT !.index = m.index + 1, !.seen = m.seen,
                                     !.bundles = m.bundles, !.exhausted = m.exhausted,
                                     !.review = m.review]
    <2>1. next.persons = <<>>
      BY <1>1, FreshFacts
    <2>2. pc' = "candidate" /\ mem' = next
      BY <1>3 DEF NextCandidate, Goto, Keep
    <2> HIDE DEF next
    <2> QED BY <2>1, <2>2 DEF Away, Planning, Seeking, Publishing
  <1> QED BY <1>2, <1>3

\* What research does to the plan.
LEMMA ResearchMoves ==
  ASSUME Shaped, Planned, SameCrm, Research
  PROVE  Away \/ Opened \/ Joined \/ Going \/ Rests
  <1> USE DEF Planning, Seeking, Publishing
  <1>1. CASE Study
    BY <1>1 DEF Study, Rests
  <1>2. CASE StageDenied
    <2> DEFINE m == [mem EXCEPT !.exhausted = TRUE]
    <2>1. m.persons = mem.persons
      BY FreshFacts DEF Shaped
    <2>2. Exhausted \/ NextCandidate(mem) \/ (pc' = "finish" /\ mem' = m)
      <3> HIDE DEF m
      <3> QED BY <1>2 DEF StageDenied, Goto, Keep, m
    <2> HIDE DEF m
    <2>3. CASE pc' = "finish" /\ mem' = m
      BY <2>1, <2>3 DEF Away
    <2> QED BY <2>2, <2>3, EndsAreAway
  <1>3. CASE StageRejected
    <2> DEFINE m == [mem EXCEPT !.review = @ \/ saved[StageKey].outcome = "review"]
               n == [mem EXCEPT !.attempt = @ + 1]
    <2>1. n.persons = mem.persons /\ n.company = mem.company /\ n.account = mem.account
      BY FreshFacts DEF Shaped
    <2>2. \/ Complete("insufficient_evidence", <<>>) \/ NextCandidate(m)
          \/ /\ pc \in {"people", "opportunities"} /\ pc' = pc /\ mem' = n
      BY <1>3 DEF StageRejected, Goto, Keep
    <2> HIDE DEF m, n
    <2>3. CASE pc \in {"people", "opportunities"} /\ pc' = pc /\ mem' = n
      BY <2>1, <2>3 DEF Going, SameAim, Planned
    <2> QED BY <2>2, <2>3, EndsAreAway
  <1>4. CASE AccountAccepted
    <2> DEFINE m == [mem EXCEPT !.account = Data]
    <2>1. m.persons = mem.persons
      BY FreshFacts DEF Shaped
    <2>2. job = "account" /\ pc = "candidate" /\ pc' = "validation" /\ mem' = m
      BY <1>4 DEF AccountAccepted, Goto, Keep
    <2> HIDE DEF m
    <2> QED BY <2>1, <2>2 DEF Away, Planned
  <1>5. CASE Validated
    BY <1>5 DEF Validated, Goto, Keep, Away, Planned
  <1>6. CASE MatchCompany
    <2> DEFINE m == [mem EXCEPT !.company = CompanyFor(mem.account)]
    <2>1. /\ m.persons = mem.persons /\ m.account = mem.account
          /\ m.company = CompanyFor(mem.account)
      BY FreshFacts DEF Shaped
    <2>2. Exhausted \/ NextCandidate(mem) \/ (pc = "match" /\ pc' = "people" /\ mem' = m)
      BY <1>6 DEF MatchCompany, Goto, Keep
    <2> HIDE DEF m
    <2>3. CASE pc = "match" /\ pc' = "people" /\ mem' = m
      BY <2>1, <2>3 DEF Opened, Planned
    <2> QED BY <2>2, <2>3, EndsAreAway
  <1>7. CASE PersonFound
    <2> DEFINE matches == PersonMatches(Data, mem.company)
               id == IF matches = {} THEN PersonIdOf(Data, mem.company)
                     ELSE CHOOSE i \in matches : TRUE
               x == [data |-> Data, id |-> id, matched |-> matches # {}]
               n == [mem EXCEPT !.attempt = @ + 1]
               o == [n EXCEPT !.persons = Append(@, x)]
    <2>1. /\ n.persons = mem.persons /\ n.company = mem.company /\ n.account = mem.account
          /\ o.persons = Append(mem.persons, x) /\ o.company = mem.company
          /\ o.account = mem.account
      BY FreshFacts DEF Shaped
    <2>2. \/ NextCandidate(mem)
          \/ pc = "people" /\ pc' = "people" /\ mem' = n
          \/ /\ pc = "people" /\ pc' = "people" /\ mem' = o
             /\ ~ Doubtful(Data, mem.company)
      BY <1>7 DEF PersonFound, Goto, Keep
    <2>3. pc = "people" => Len(mem.persons) < PerCompany
      BY <1>7 DEF PersonFound, Has, AtStage
    <2>4. IF matches = {} THEN id = PersonIdOf(Data, mem.company) ELSE id \in matches
      OBVIOUS
    <2> HIDE DEF n, o, id
    <2>5. CASE pc = "people" /\ pc' = "people" /\ mem' = n
      BY <2>1, <2>5 DEF Going, SameAim, Planned
    <2>6. CASE /\ pc = "people" /\ pc' = "people" /\ mem' = o
               /\ ~ Doubtful(Data, mem.company)
      BY <2>1, <2>3, <2>4, <2>6 DEF Joined, SameAim
    <2> QED BY <2>2, <2>5, <2>6, EndsAreAway
  <1>8. CASE OpportunityFound
    <2> DEFINE n == [mem EXCEPT !.attempt = @ + 1]
               o == [n EXCEPT !.texts = Append(@, Data)]
    <2>1. /\ n.persons = mem.persons /\ n.company = mem.company /\ n.account = mem.account
          /\ o.persons = mem.persons /\ o.company = mem.company /\ o.account = mem.account
      BY FreshFacts DEF Shaped
    <2>2. pc = "opportunities" /\ pc' = "opportunities" /\ mem' \in {n, o}
      BY <1>8 DEF OpportunityFound, Goto, Keep
    <2> HIDE DEF n, o
    <2> QED BY <2>1, <2>2 DEF Going, SameAim, Planned
  <1>9. CASE Enough
    <2> DEFINE n == [mem EXCEPT !.attempt = 0]
    <2>1. n.persons = mem.persons /\ n.company = mem.company /\ n.account = mem.account
      BY FreshFacts DEF Shaped
    <2>2. \/ NextCandidate(mem)
          \/ /\ pc = "people" /\ ~ (Len(mem.persons) < PerCompany)
             /\ pc' = "opportunities" /\ mem' = n
          \/ pc = "opportunities" /\ pc' = "verify" /\ mem' = mem
      BY <1>9 DEF Enough, Goto, Keep
    <2>3. ~ (Len(mem.persons) < PerCompany) => Len(mem.persons) >= PerCompany
      <3>1. Len(mem.persons) \in Nat /\ PerCompany \in Nat
        BY LenProperties, TargetAssumption DEF Planned
      <3> QED BY <3>1
    <2> HIDE DEF n
    <2>4. CASE ~ NextCandidate(mem)
      BY <2>1, <2>2, <2>3, <2>4 DEF Going, SameAim, Planned
    <2> QED BY <2>4, EndsAreAway
  <1>10. CASE IcpAccepted
    <2> DEFINE m == [mem EXCEPT !.seen = @ \cup {Data}, !.account = Data]
    <2>1. m.persons = mem.persons
      BY FreshFacts DEF Shaped
    <2>2. job = "icp" /\ pc = "candidate"
      BY <1>10 DEF IcpAccepted, Has, AtStage, Planned
    <2>3. NextCandidate(mem) \/ (pc' = "verify" /\ mem' = m)
      BY <1>10 DEF IcpAccepted, Goto, Keep
    <2> HIDE DEF m
    <2> QED BY <2>1, <2>2, <2>3, EndsAreAway DEF Opened
  <1>11. CASE CampaignAccepted
    <2> DEFINE m == [mem EXCEPT !.account = Data, !.todo = Places]
    <2>1. m.persons = mem.persons /\ m.todo = Places
      BY FreshFacts DEF Shaped
    <2>2. job = "campaign" /\ pc = "candidate" /\ pc' = "prepare" /\ mem' = m
      BY <1>11 DEF CampaignAccepted, Has, AtStage, Goto, Keep, Planned
    <2> HIDE DEF m
    <2> QED BY <2>1, <2>2 DEF Opened
  <1> QED
    BY <1>1, <1>2, <1>3, <1>4, <1>5, <1>6, <1>7, <1>8, <1>9, <1>10, <1>11 DEF Research

\* What any step does to the plan.
LEMMA Moves ==
  ASSUME IInv, Planned, [Next]_vars
  PROVE  Away \/ Opened \/ Joined \/ Going \/ Started \/ Publishes \/ (mem' = mem /\ pc' = pc)
  <1> DEFINE Edit == \/ \E s \in Strangers : AddCompany(s)
                     \/ \E id \in DOMAIN companies \cup DOMAIN people : Delete(id)
             Sent == SendUpdate \/ \E u \in flight : ApplyUpdate(u)
  <1>1. CASE Edit \/ Sent
    BY <1>1 DEF AddCompany, Delete, SendUpdate, ApplyUpdate
  <1>2. CASE Create
    <2>1. pc = "create" /\ pc' = "confirm" /\ mem' = mem
      BY <1>2 DEF Create
    <2> QED BY <2>1 DEF Publishes, SameAim, Publishing, Planned
  <1>3. CASE Enrich \/ Confirm
    <2>1. pc \in Publishing /\ pc' = "prepare" /\ mem' = Published
      BY <1>3 DEF Enrich, Enriching, Confirm, Publishing
    <2>2. /\ Published.persons = mem.persons /\ Published.company = mem.company
          /\ Published.account = mem.account /\ Published.todo = mem.todo \ {Place}
      BY FreshFacts DEF Published, IInv, Shaped
    <2> QED BY <2>1, <2>2 DEF Publishes, SameAim, Publishing
  <1>4. CASE ~ Edit /\ ~ Sent /\ ~ Create /\ ~ Enrich /\ ~ Confirm
    <2>1. SameCrm
      BY <1>4, CrmKept DEF SameCrm
    <2>2. CASE Research
      BY <2>1, <2>2, ResearchMoves DEF IInv, Rests
    <2>3. CASE Fails \/ Lost
      <3>1. Fresh.persons = <<>>
        BY DEF Fresh
      <3> QED BY <2>1, <2>3, <3>1
            DEF Fails, Fail, Lost, Keep, Away, Planning, Seeking, Publishing
    <2>4. CASE Claim \/ Retry
      <3>1. /\ pc \in {"queued", "failed"} /\ pc' \in {"queued", "failed", "candidate"}
            /\ mem' = mem
        BY <2>4 DEF Claim, Retry
      <3>2. mem.persons = <<>>
        BY <3>1 DEF Planned, Planning, Seeking, Publishing
      <3> QED BY <2>1, <3>1, <3>2 DEF Away, Planning, Seeking, Publishing
    <2>5. CASE Verify
      <3>1. (pc = "verify" /\ pc' = "begin" /\ mem' = mem) \/ Fail
        BY <2>5 DEF Verify, Goto, Keep
      <3> QED BY <2>1, <3>1, EndsAreAway DEF Going, SameAim, Seeking
    <2>6. CASE Begin
      <3>1. CASE Exhausted \/ NextCandidate(mem)
        BY <2>1, <3>1, EndsAreAway
      <3>2. CASE ~ (Exhausted \/ NextCandidate(mem))
        <4> DEFINE m == [mem EXCEPT !.company = CompanyFor(mem.account), !.todo = Places]
                   n == [mem EXCEPT !.todo = Places]
        <4>1. /\ m.persons = mem.persons /\ m.account = mem.account /\ m.todo = Places
              /\ m.company = CompanyFor(mem.account)
              /\ n.persons = mem.persons /\ n.account = mem.account /\ n.todo = Places
              /\ n.company = mem.company
          BY FreshFacts DEF IInv, Shaped
        <4>2. /\ pc = "begin" /\ pc' = "prepare" /\ mem' = IF job = "account" THEN m ELSE n
              /\ job = "account" => ~ Ambiguous(mem.account)
          BY <2>6, <3>2 DEF Begin, Keep
        <4> HIDE DEF m, n
        <4> QED BY <2>1, <4>1, <4>2 DEF Started
      <3> QED BY <3>1, <3>2
    <2>7. CASE Prepare
      <3>1. \/ Exhausted \/ Fail
            \/ pc = "prepare" /\ pc' = "create" /\ mem' = mem /\ mem.todo # {}
        BY <2>7 DEF Prepare
      <3> QED BY <2>1, <3>1, EndsAreAway DEF Publishes, SameAim, Publishing
    <2>8. CASE PublishFails
      <3>1. Fresh.persons = <<>>
        BY DEF Fresh
      <3> QED BY <2>1, <2>8, <3>1 DEF PublishFails, Away, Planning, Seeking, Publishing
    <2>9. CASE PublishLate \/ Finish
      BY <2>1, <2>9, EndsAreAway DEF PublishLate, Finish
    <2>10. CASE SaveProgress
      <3>1. CASE job = "campaign"
        BY <2>1, <2>10, <3>1, EndsAreAway DEF SaveProgress
      <3>2. CASE job # "campaign"
        <4>1. PICK b : b = Append(mem.bundles, Refs)
          OBVIOUS
        <4> DEFINE next == [Fresh EXCEPT !.index = mem.index + 1, !.seen = mem.seen,
                                         !.bundles = b, !.review = mem.review]
        <4>2. next.persons = <<>>
          <5>1. Fresh.persons = <<>>
            BY DEF Fresh
          <5> QED BY <5>1, FreshFacts
        <4>3. pc' = "candidate" /\ mem' = next
          BY <2>10, <3>2, <4>1 DEF SaveProgress, Keep
        <4> HIDE DEF next
        <4> QED BY <2>1, <4>2, <4>3 DEF Away, Planning, Seeking, Publishing
      <3> QED BY <3>1, <3>2
    <2>11. CASE \/ ChangeParents \/ DeadlinePasses \/ UNCHANGED vars
                \/ \E id \in DOMAIN intent : Sweep(id)
      BY <2>11 DEF ChangeParents, DeadlinePasses, Sweep, vars
    <2> QED BY <1>4, <2>2, <2>3, <2>4, <2>5, <2>6, <2>7, <2>8, <2>9, <2>10, <2>11
          DEF Next, Publication, Others
  <1> QED BY <1>1, <1>2, <1>3, <1>4

\* A list with no members, or one more.
LEMMA PersonsFacts ==
  ASSUME Planned, mem'.persons \in {<<>>, mem.persons}
  PROVE  mem'.persons \in Seq(Members(mem'.persons)) /\ Len(mem'.persons) <= PerCompany
  <1>1. Len(<<>>) = 0 /\ <<>> \in Seq(Members(<<>>))
    OBVIOUS
  <1>2. CASE mem'.persons = <<>>
    BY <1>1, <1>2, TargetAssumption
  <1>3. CASE mem'.persons = mem.persons
    BY <1>3 DEF Planned
  <1> QED BY <1>2, <1>3

\* The people of a plan remain a list, complete when it is published.
LEMMA PlannedKept ==
  ASSUME Planned, job \in Kinds, job' = job,
         Away \/ Opened \/ Joined \/ Going \/ Started \/ Publishes \/ (mem' = mem /\ pc' = pc)
  PROVE  Planned'
  <1> USE DEF Planning, Seeking, Publishing
  <1>1. Len(mem.persons) \in Nat /\ PerCompany \in Nat /\ PerCompany > 0
    BY LenProperties, TargetAssumption DEF Planned
  <1>2. CASE Away
    BY <1>2, PersonsFacts DEF Away, Planned, Members
  <1>3. CASE Opened
    <2>1. Places' = Places
      BY <1>3, PlacesKept DEF Opened
    <2> QED BY <1>3, <2>1, PersonsFacts DEF Opened, Planned, Members
  <1>4. CASE Joined
    <2>1. PICK x : mem'.persons = Append(mem.persons, x)
      BY <1>4 DEF Joined
    <2>2. mem'.persons \in Seq(Members(mem'.persons))
      BY <2>1, AppendFacts DEF Planned
    <2>3. Len(mem'.persons) = Len(mem.persons) + 1
      BY <2>1, AppendProperties DEF Planned
    <2>4. Len(mem'.persons) <= PerCompany
      BY <1>1, <1>4, <2>3 DEF Joined
    <2>5. pc = "people" /\ pc' = "people"
      BY <1>4 DEF Joined
    <2>6. job' = "account"
      BY <2>5 DEF Planned
    <2>7. (Members(mem.persons))' = Members(mem'.persons)
      BY DEF Members
    <2> QED BY <2>2, <2>4, <2>5, <2>6, <2>7 DEF Planned
  <1>5. CASE Going
    BY <1>1, <1>5, PersonsFacts DEF Going, Planned, Members
  <1>6. CASE Started
    <2>1. Places' = Places
      BY <1>6, PlacesKept DEF Started
    <2> QED BY <1>6, <2>1, PersonsFacts DEF Started, Planned, Members
  <1>7. CASE Publishes
    <2>1. Places' = Places
      BY <1>7, PlacesKept DEF Publishes
    <2> QED BY <1>7, <2>1, PersonsFacts DEF Publishes, Planned, Members
  <1>8. CASE mem' = mem /\ pc' = pc
    <2>1. Places' = Places
      BY <1>8, PlacesKept
    <2> QED BY <1>8, <2>1 DEF Planned, Members
  <1> QED BY <1>2, <1>3, <1>4, <1>5, <1>6, <1>7, <1>8

-----------------------------------------------------------------------------
(* What is created and what is filled in duplicates nothing *)

\* The facts about a person of the plan last while the CRM and the company do.
LEMMA SoughtKept ==
  ASSUME UNCHANGED <<people, strays>>, strays = {} => mem'.company = mem.company, NEW q, Sought(q)
  PROVE  Sought(q)'
  BY DEF Sought, Shared, PersonIdOf

\* A person who is found without doubt is the only one to have the token.
LEMMA FoundFacts ==
  ASSUME IsFiniteSet(DOMAIN people), Identified, NEW p, NEW id, NEW matched,
         matched = (PersonMatches(p, mem.company) # {}), ~ Doubtful(p, mem.company),
         IF PersonMatches(p, mem.company) = {} THEN id = PersonIdOf(p, mem.company)
         ELSE id \in PersonMatches(p, mem.company)
  PROVE  /\ strays = {} /\ id \in DOMAIN people => people[id].company = mem.company
         /\ \A i \in DOMAIN people \ {id} : Shared(TokenOf[p], mem.company, i)
         /\ ~ matched => id = PersonIdOf(p, mem.company)
  <1> DEFINE M == PersonMatches(p, mem.company)
  <1>1. M \in {ByToken(p), ByName(p, mem.company)} /\ (ByToken(p) # {} => M = ByToken(p))
    BY DEF PersonMatches
  <1>2. IsFiniteSet(M)
    <2>1. ByToken(p) \in SUBSET DOMAIN people /\ ByName(p, mem.company) \in SUBSET DOMAIN people
      BY DEF ByToken, ByName
    <2> QED BY <1>1, <2>1, FS_Subset
  <1>3. ~ (Cardinality(M) > 1) /\ \A i \in M : people[i].company = mem.company
    BY DEF Doubtful, SamePerson
  <1>4. \A x, y \in M : x = y
    <2> HIDE DEF M
    <2> QED BY <1>2, <1>3, AtMostOne
  <1>5. strays = {} /\ id \in DOMAIN people => people[id].company = mem.company
    <2>1. CASE M # {}
      BY <1>3, <2>1
    <2>2. CASE M = {}
      <3>1. ByToken(p) = {} /\ ByName(p, mem.company) = {}
        BY <1>1, <2>2 DEF PersonMatches
      <3>2. ASSUME strays = {}, id \in DOMAIN people PROVE FALSE
        <4>1. id = PersonIdOf(p, mem.company)
          BY <2>2
        <4>2. IF TokenOf[p] # None THEN people[id].token = TokenOf[p]
              ELSE people[id].company = mem.company /\ people[id].name = NameOf[p]
          BY <3>2, <4>1 DEF Identified
        <4> QED BY <3>1, <3>2, <4>2 DEF ByToken, ByName
      <3> QED BY <3>2
    <2> QED BY <2>1, <2>2
  <1>6. ASSUME NEW i \in DOMAIN people, i # id, TokenOf[p] # None, people[i].token = TokenOf[p]
        PROVE  FALSE
    <2>1. i \in ByToken(p)
      BY <1>6 DEF ByToken
    <2>2. i \in M /\ id \in M
      BY <1>1, <2>1
    <2> QED BY <1>4, <1>6, <2>2
  <1>7. \A i \in DOMAIN people \ {id} : Shared(TokenOf[p], mem.company, i)
    BY <1>6 DEF Shared
  <1> QED BY <1>5, <1>7

\* While the CRM is the same, the plan agrees with it.
LEMMA AimedKept ==
  ASSUME Listed, Unmixed, job' = job, SameCrm,
         Away \/ Opened \/ Joined \/ Going \/ Started \/ Publishes \/ (mem' = mem /\ pc' = pc)
  PROVE  Aimed'
  <1> USE DEF Planning, Seeking, Publishing
  <1>1. ASSUME mem'.account = mem.account PROVE CompanyFor(mem.account)' = CompanyFor(mem.account)
    BY <1>1 DEF SameCrm, CompanyFor, CompanyIdOf, ByDomain, ByLink
  <1>2. ASSUME NEW c, NEW a, Sole(c, a), mem'.company = c, mem'.account = a
        PROVE  Sole(mem.company, mem.account)'
    BY <1>2 DEF SameCrm, Sole
  <1>3. CASE Away
    BY <1>3 DEF Away, Aimed
  <1>4. CASE Opened
    <2>1. mem'.persons = <<>> /\ \A k \in DOMAIN mem'.persons : Sought(mem.persons[k])'
      BY <1>4 DEF Opened, Listed, Planned
    <2>2. CASE pc' = "people"
      <3>1. mem'.company = CompanyFor(mem.account)'
        BY <1>1, <1>4, <2>2 DEF Opened
      <3> QED BY <2>1, <2>2, <3>1 DEF Aimed
    <2>3. CASE pc' # "people"
      BY <1>4, <2>1, <2>3 DEF Opened, Aimed
    <2> QED BY <2>2, <2>3
  <1>5. CASE Joined
    <2>1. PICK p, id :
            /\ mem'.persons = Append(mem.persons,
                 [data |-> p, id |-> id, matched |-> PersonMatches(p, mem.company) # {}])
            /\ ~ Doubtful(p, mem.company)
            /\ IF PersonMatches(p, mem.company) = {} THEN id = PersonIdOf(p, mem.company)
               ELSE id \in PersonMatches(p, mem.company)
      BY <1>5 DEF Joined
    <2> DEFINE matched == PersonMatches(p, mem.company) # {}
               x == [data |-> p, id |-> id, matched |-> matched]
    <2>2. /\ strays = {} /\ id \in DOMAIN people => people[id].company = mem.company
          /\ \A i \in DOMAIN people \ {id} : Shared(TokenOf[p], mem.company, i)
          /\ ~ matched => id = PersonIdOf(p, mem.company)
      <3>1. IsFiniteSet(DOMAIN people) /\ Identified
        BY DEF Listed, Tidy, Unmixed
      <3> QED BY <2>1, <3>1, FoundFacts
    <2>3. x.data = p /\ x.id = id /\ (x.matched <=> matched)
      OBVIOUS
    <2>4. mem'.persons = Append(mem.persons, x)
      BY <2>1
    <2> HIDE DEF x, matched
    <2>5. Sought(x)
      BY <2>2, <2>3 DEF Sought
    <2>6. \A k \in DOMAIN mem.persons : Sought(mem.persons[k])
      BY <1>5 DEF Joined, Unmixed, Aimed
    <2>7. ASSUME NEW k \in DOMAIN mem'.persons PROVE Sought(mem'.persons[k])
      <3>1. mem.persons \in Seq(Members(mem.persons) \cup {x})
        <4>1. mem.persons \in [1..Len(mem.persons) -> Members(mem.persons)] /\ Len(mem.persons) \in Nat
          BY LenProperties DEF Listed, Planned
        <4>2. mem.persons \in [1..Len(mem.persons) -> Members(mem.persons) \cup {x}]
          BY <4>1
        <4> QED BY <4>1, <4>2, IsASeq
      <3>2. /\ DOMAIN mem.persons = 1..Len(mem.persons) /\ Len(mem.persons) \in Nat
            /\ DOMAIN mem'.persons = 1..Len(mem.persons) + 1
            /\ \A j \in 1..Len(mem.persons) : mem'.persons[j] = mem.persons[j]
            /\ mem'.persons[Len(mem.persons) + 1] = x
        BY <2>4, <3>1, AppendProperties, LenProperties
      <3>3. k \in 1..Len(mem.persons) \/ k = Len(mem.persons) + 1
        BY <2>7, <3>2
      <3> QED BY <2>5, <2>6, <3>2, <3>3
    <2>8. mem'.company = CompanyFor(mem.account)' \/ job # "account" \/ strays' # {}
      BY <1>1, <1>5 DEF Joined, SameCrm, SameAim, Unmixed, Aimed
    <2>9. ASSUME NEW k \in DOMAIN mem'.persons PROVE Sought(mem.persons[k])'
      <3>1. PICK q : q = mem'.persons[k]
        OBVIOUS
      <3>2. Sought(q)'
        BY <1>5, <2>7, <3>1, SoughtKept DEF SameCrm, Joined, SameAim
      <3> QED BY <3>1, <3>2 DEF Sought, Shared
    <2> QED BY <1>5, <2>8, <2>9 DEF Joined, Aimed
  <1>6. CASE Going
    <2>1. \A k \in DOMAIN mem'.persons : Sought(mem.persons[k])'
      <3>1. SUFFICES ASSUME NEW k \in DOMAIN mem.persons PROVE Sought(mem.persons[k])'
        BY <1>6 DEF Going
      <3>2. PICK q : q = mem.persons[k]
        OBVIOUS
      <3>3. Sought(q)'
        BY <1>6, <3>2, SoughtKept DEF SameCrm, Going, SameAim, Unmixed, Aimed
      <3> QED BY <1>6, <3>2, <3>3 DEF Going, Sought, Shared
    <2>2. mem'.company = CompanyFor(mem.account)' \/ job # "account" \/ strays' # {}
      BY <1>1, <1>6 DEF Going, SameCrm, SameAim, Unmixed, Aimed
    <2> QED BY <1>6, <2>1, <2>2 DEF Going, Aimed
  <1>7. CASE Started
    <2>1. strays = {} => mem'.company = mem.company
      BY <1>7 DEF Started, Unmixed, Aimed
    <2>2. \A k \in DOMAIN mem'.persons : Sought(mem.persons[k])'
      <3>1. SUFFICES ASSUME NEW k \in DOMAIN mem.persons PROVE Sought(mem.persons[k])'
        BY <1>7 DEF Started
      <3>2. PICK q : q = mem.persons[k]
        OBVIOUS
      <3>3. Sought(q)'
        BY <1>7, <2>1, <3>2, SoughtKept DEF SameCrm, Started, Unmixed, Aimed
      <3> QED BY <1>7, <3>2, <3>3 DEF Started, Sought, Shared
    <2>3. job = "account" => Sole(mem.company, mem.account)'
      BY <1>2, <1>7, MatchFacts DEF Started, Listed, Tidy
    <2> QED BY <1>7, <2>2, <2>3 DEF Started, Aimed
  <1>8. CASE Publishes \/ (mem' = mem /\ pc' = pc)
    <2>1. /\ SameAim /\ mem'.persons = mem.persons
          /\ pc' \in Publishing => pc \in Publishing
          /\ pc' \in Seeking => pc \in Seeking
      BY <1>8 DEF Publishes, SameAim
    <2>2. ASSUME pc' \in Planning
          PROVE  \A k \in DOMAIN mem'.persons : Sought(mem.persons[k])'
      <3>1. SUFFICES ASSUME NEW k \in DOMAIN mem.persons PROVE Sought(mem.persons[k])'
        BY <2>1
      <3>2. PICK q : q = mem.persons[k]
        OBVIOUS
      <3>3. Sought(q)'
        BY <2>1, <2>2, <3>2, SoughtKept DEF SameCrm, SameAim, Unmixed, Aimed
      <3> QED BY <2>1, <3>2, <3>3 DEF Sought, Shared
    <2>3. pc' \in Seeking /\ job = "account" /\ strays = {} =>
            mem'.company = CompanyFor(mem.account)'
      BY <1>1, <2>1 DEF SameAim, Unmixed, Aimed
    <2>4. pc' \in Publishing /\ job = "account" => Sole(mem.company, mem.account)'
      BY <1>2, <2>1 DEF SameAim, Unmixed, Aimed
    <2> QED BY <1>8, <2>2, <2>3, <2>4 DEF SameCrm, Aimed
  <1> QED BY <1>3, <1>4, <1>5, <1>6, <1>7, <1>8

\* A company that is created, or filled in, has no identity of another one.
LEMMA CompanyChange ==
  ASSUME Apart, NEW c, NEW a, Sole(c, a), strays' = strays,
         DOMAIN companies' \subseteq DOMAIN companies \cup {c},
         \A e \in DOMAIN companies \ {c} : companies'[e] = companies[e],
         c \in DOMAIN companies' =>
           /\ \A x \in companies'[c].domains :
                x = DomainOf[a] \/ (c \in DOMAIN companies /\ x \in companies[c].domains)
           /\ \A x \in companies'[c].links :
                x = LinkOf[a] \/ (c \in DOMAIN companies /\ x \in companies[c].links)
  PROVE  Apart' /\ Sole(c, a)'
  <1>1. Sole(c, a)'
    BY DEF Sole
  <1>2. ASSUME NEW d \in DOMAIN companies', NEW e \in DOMAIN companies', d # e
        PROVE  /\ \A x : x \in companies'[d].domains /\ x \in companies'[e].domains => x \in strays
               /\ \A x : x \in companies'[d].links /\ x \in companies'[e].links => x \in strays
    <2>1. CASE d # c /\ e # c
      BY <1>2, <2>1 DEF Apart
    <2>2. CASE d = c
      BY <1>2, <2>2 DEF Apart, Sole
    <2>3. CASE e = c
      BY <1>2, <2>3 DEF Apart, Sole
    <2> QED BY <2>1, <2>2, <2>3
  <1>3. Apart'
    BY <1>2 DEF Apart
  <1> QED BY <1>1, <1>3

\* A person of the plan who is created, or filled in, has no token of another one,
\* but for those of the plan.
LEMMA PersonChange ==
  ASSUME Lone, Identified, strays' = strays,
         mem'.persons = mem.persons, mem'.company = mem.company,
         DOMAIN mem.persons = 1..PerCompany,
         \A j \in 1..PerCompany : Sought(mem.persons[j]),
         NEW k \in 1..PerCompany, NEW q, q = mem.persons[k],
         DOMAIN people' = DOMAIN people \cup {q.id},
         \A i \in DOMAIN people \ {q.id} : people'[i] = people[i],
         strays = {} => people'[q.id].company = mem.company,
         IF q.id \in DOMAIN people
         THEN /\ people'[q.id].name = people[q.id].name
              /\ people'[q.id].token =
                   IF people[q.id].token = None THEN TokenOf[q.data] ELSE people[q.id].token
         ELSE /\ strays = {} => q.id = PersonIdOf(q.data, mem.company)
              /\ people'[q.id].name = NameOf[q.data]
              /\ people'[q.id].token = TokenOf[q.data]
  PROVE  Lone' /\ Identified' /\ \A j \in DOMAIN mem'.persons : Sought(mem.persons[j])'
  <1> DEFINE token == people'[q.id].token
  <1>1. Sought(q)
    OBVIOUS
  <1>2. \A i \in DOMAIN people \ {q.id} : Shared(token, mem.company, i)
    <2>1. CASE token = TokenOf[q.data]
      BY <1>1, <2>1 DEF Sought
    <2>2. CASE token # TokenOf[q.data]
      <3>1. q.id \in DOMAIN people /\ token = people[q.id].token
        BY <2>2
      <3>2. strays = {} => people[q.id].company = mem.company
        BY <1>1, <3>1 DEF Sought
      <3> HIDE DEF token
      <3> QED BY <3>1, <3>2 DEF Lone, Shared
    <2> QED BY <2>1, <2>2
  <1>3. Lone'
    <2>1. SUFFICES ASSUME NEW i \in DOMAIN people', NEW j \in DOMAIN people', i # j,
                          people'[j].token \notin strays \cup {None},
                          people'[i].token = people'[j].token
                   PROVE  /\ PerCompany > 1
                          /\ strays = {} => people'[i].company = people'[j].company
      BY DEF Lone, Shared
    <2>2. CASE i # q.id /\ j # q.id
      BY <2>1, <2>2 DEF Lone, Shared
    <2>3. CASE j = q.id
      BY <1>2, <2>1, <2>3 DEF Shared
    <2>4. CASE i = q.id
      BY <1>2, <2>1, <2>4 DEF Shared
    <2> QED BY <2>2, <2>3, <2>4
  <1>4. Identified'
    <2>1. SUFFICES ASSUME strays = {}, NEW p, NEW c, PersonIdOf(p, c) \in DOMAIN people'
                   PROVE  IF TokenOf[p] # None THEN people'[PersonIdOf(p, c)].token = TokenOf[p]
                          ELSE /\ people'[PersonIdOf(p, c)].company = c
                               /\ people'[PersonIdOf(p, c)].name = NameOf[p]
      <3>1. \A p, c : PersonIdOf(p, c)' = PersonIdOf(p, c)
        BY DEF PersonIdOf
      <3> QED BY <2>1, <3>1 DEF Identified
    <2>2. CASE PersonIdOf(p, c) # q.id
      BY <2>1, <2>2 DEF Identified
    <2>3. CASE PersonIdOf(p, c) = q.id /\ q.id \in DOMAIN people
      <3>1. IF TokenOf[p] # None THEN people[q.id].token = TokenOf[p]
            ELSE people[q.id].company = c /\ people[q.id].name = NameOf[p]
        BY <2>1, <2>3 DEF Identified
      <3>2. people[q.id].company = mem.company
        BY <1>1, <2>1, <2>3 DEF Sought
      <3> QED BY <2>1, <2>3, <3>1, <3>2
    <2>4. CASE PersonIdOf(p, c) = q.id /\ q.id \notin DOMAIN people
      BY <2>1, <2>4, PersonIds
    <2> QED BY <2>2, <2>3, <2>4
  <1>5. ASSUME NEW j \in DOMAIN mem'.persons PROVE Sought(mem.persons[j])'
    <2>1. PICK o : o = mem.persons[j] /\ Sought(o)
      OBVIOUS
    <2>2. strays = {} /\ o.id \in DOMAIN people' => people'[o.id].company = mem.company
      BY <2>1 DEF Sought
    <2>3. ASSUME NEW i \in DOMAIN people' \ {o.id}, TokenOf[o.data] \notin strays \cup {None},
                 people'[i].token = TokenOf[o.data]
          PROVE  PerCompany > 1 /\ (strays = {} => people'[i].company = mem.company)
      <3>1. CASE i # q.id
        BY <2>1, <2>3, <3>1 DEF Sought, Shared
      <3>2. CASE i = q.id
        <4>1. j # k /\ j \in 1..PerCompany /\ PerCompany \in Nat
          BY <2>1, <2>3, <3>2, TargetAssumption
        <4> QED BY <3>2, <4>1
      <3> QED BY <3>1, <3>2
    <2>4. strays = {} /\ ~ o.matched => o.id = PersonIdOf(o.data, mem.company)
      BY <2>1 DEF Sought
    <2>5. \A p, c : PersonIdOf(p, c)' = PersonIdOf(p, c)
      BY DEF PersonIdOf
    <2>6. mem'.persons[j] = o
      BY <2>1
    <2> QED BY <2>2, <2>3, <2>4, <2>5, <2>6 DEF Sought, Shared, PersonIdOf
  <1> QED BY <1>3, <1>4, <1>5

\* The plan that is published, and what is published of it now.
LEMMA PublishedPlan ==
  ASSUME Listed, Unmixed, pc \in Publishing, mem.todo # {},
         Now.object \in {"company", "enrich company", "person", "enrich person"}
  PROVE  /\ job = "account" /\ DOMAIN mem.persons = 1..PerCompany
         /\ Sole(mem.company, mem.account)
         /\ \A j \in 1..PerCompany : Sought(mem.persons[j])
  <1>1. job = "account"
    BY NowFacts DEF Listed, Planned
  <1>2. DOMAIN mem.persons = 1..PerCompany
    <2>1. Len(mem.persons) = PerCompany /\ mem.persons \in Seq(Members(mem.persons))
      BY <1>1 DEF Listed, Planned, Planning, Seeking, Publishing
    <2> QED BY <2>1, LenProperties
  <1> QED BY <1>1, <1>2 DEF Unmixed, Aimed, Planning

LEMMA CreateKeeps ==
  ASSUME IInv, Listed, Unmixed, job' = job, Create
  PROVE  Unmixed'
  <1>1. /\ pc = "create" /\ pc' = "confirm" /\ mem' = mem /\ mem.todo # {}
        /\ mem.todo \subseteq Places /\ ~ Exists(Now.id)
    BY DEF Create, Listed, Planned, Publishing
  <1>2. pc \in Publishing /\ pc' \in Publishing /\ pc' \notin Seeking
    BY <1>1 DEF Publishing, Seeking
  <1>3. CASE Now.object = "company"
    <2>1. PICK c, a : c = mem.company /\ a = mem.account
      OBVIOUS
    <2> DEFINE new == [domains |-> {DomainOf[a]}, links |-> {LinkOf[a]} \ {None}]
    <2>2. Now.id = c /\ Now.data = a
      BY <1>1, <1>3, <2>1, NowFacts DEF Listed
    <2>3. /\ companies' = With(companies, c, new) /\ UNCHANGED <<people, strays>>
          /\ c \notin DOMAIN companies
      BY <1>1, <1>3, <2>2 DEF Create, Exists
    <2>4. new.domains = {DomainOf[a]} /\ new.links = {LinkOf[a]} \ {None}
      OBVIOUS
    <2> HIDE DEF new
    <2>5. Sole(c, a) /\ Apart
      BY <1>2, <1>3, <1>1, <2>1, PublishedPlan DEF Unmixed
    <2>6. Apart' /\ Sole(c, a)'
      <3>1. /\ DOMAIN companies' = DOMAIN companies \cup {c} /\ companies'[c] = new
            /\ \A e \in DOMAIN companies \ {c} : companies'[e] = companies[e]
        BY <2>3 DEF With
      <3> QED BY <2>3, <2>4, <2>5, <3>1, CompanyChange
    <2>7. Lone' /\ Identified'
      BY <2>3 DEF Unmixed, Lone, Shared, Identified, PersonIdOf
    <2>8. Sole(mem.company, mem.account)'
      BY <1>1, <2>1, <2>6 DEF Sole
    <2>9. \A k \in DOMAIN mem'.persons : Sought(mem.persons[k])'
      <3>1. SUFFICES ASSUME NEW k \in DOMAIN mem.persons PROVE Sought(mem.persons[k])'
        BY <1>1
      <3>2. PICK q : q = mem.persons[k]
        OBVIOUS
      <3>3. Sought(q)'
        BY <1>1, <1>2, <2>3, <3>2, SoughtKept DEF Unmixed, Aimed, Planning
      <3> QED BY <1>1, <3>2, <3>3 DEF Sought, Shared
    <2> QED BY <1>2, <2>6, <2>7, <2>8, <2>9 DEF Unmixed, Aimed
  <1>4. CASE Now.object = "person"
    <2>1. PICK k \in 1..PerCompany :
            /\ ~ mem.persons[k].matched /\ Now.id = mem.persons[k].id
            /\ Now.data = <<mem.persons[k].data, mem.company>>
      BY <1>1, <1>4, NowFacts DEF Listed
    <2>2. PICK q : q = mem.persons[k]
      OBVIOUS
    <2> DEFINE new == [token |-> TokenOf[q.data], name |-> NameOf[q.data], company |-> mem.company]
    <2>3. /\ people' = With(people, q.id, new) /\ UNCHANGED <<companies, strays>>
          /\ q.id \notin DOMAIN people
      BY <1>1, <1>4, <2>1, <2>2 DEF Create, Exists
    <2>4. new.token = TokenOf[q.data] /\ new.name = NameOf[q.data] /\ new.company = mem.company
      OBVIOUS
    <2> HIDE DEF new
    <2>5. /\ job = "account" /\ DOMAIN mem.persons = 1..PerCompany
          /\ Sole(mem.company, mem.account)
          /\ \A j \in 1..PerCompany : Sought(mem.persons[j])
      BY <1>1, <1>2, <1>4, PublishedPlan
    <2>6. /\ DOMAIN people' = DOMAIN people \cup {q.id} /\ people'[q.id] = new
          /\ \A i \in DOMAIN people \ {q.id} : people'[i] = people[i]
      BY <2>3 DEF With
    <2>7. strays = {} => q.id = PersonIdOf(q.data, mem.company)
      BY <2>1, <2>2, <2>5 DEF Sought
    <2>8. Lone' /\ Identified' /\ \A j \in DOMAIN mem'.persons : Sought(mem.persons[j])'
      BY <1>1, <2>2, <2>3, <2>4, <2>5, <2>6, <2>7, PersonChange DEF Unmixed
    <2>9. Apart' /\ Sole(mem.company, mem.account)'
      BY <1>1, <2>3, <2>5 DEF Unmixed, Apart, Sole
    <2> QED BY <1>2, <2>8, <2>9 DEF Unmixed, Aimed
  <1>5. CASE Now.object \notin {"company", "person"}
    <2>1. SameCrm
      BY <1>5 DEF Create, SameCrm
    <2>2. Publishes
      BY <1>1, <1>2 DEF Publishes, SameAim
    <2>3. Aimed'
      BY <2>1, <2>2, AimedKept
    <2> QED BY <2>1, <2>3 DEF SameCrm, Unmixed, Apart, Lone, Shared, Identified, PersonIdOf
  <1> QED BY <1>3, <1>4, <1>5

\* An update of the item at hand is one of the plan that is published.
LEMMA ApplyKeeps ==
  ASSUME Listed, Unmixed, job' = job, NEW u, ApplyUpdate(u), Enriching, u \in Proposals
  PROVE  Unmixed'
  <1>1. /\ pc = "prepare" /\ mem.todo # {} /\ mem.todo \subseteq Places
        /\ UNCHANGED <<pc, mem, strays>>
    BY DEF ApplyUpdate, Enriching, Listed, Planned, Publishing
  <1>2. pc \in Publishing /\ pc' \in Publishing /\ pc' \notin Seeking
    BY <1>1 DEF Publishing, Seeking
  <1>3. CASE Now.object = "enrich company"
    <2>1. PICK c, a : c = mem.company /\ a = mem.account
      OBVIOUS
    <2>2. Now.id = c /\ Now.data = a
      BY <1>1, <1>3, <2>1, NowFacts DEF Listed
    <2>3. /\ u.id = c
          /\ \/ u.field = "domains" /\ u.value = DomainOf[a]
             \/ u.field = "links" /\ u.value = LinkOf[a]
      <3>1. u \in {Update("domains", DomainOf[a]), Update("links", LinkOf[a])}
        BY <1>3, <2>2 DEF Proposals
      <3>2. u = Update("domains", DomainOf[a]) \/ u = Update("links", LinkOf[a])
        BY <3>1
      <3> QED BY <2>2, <3>2 DEF Update
    <2>4. /\ companies' = [companies EXCEPT ![c][u.field] = {u.value}] /\ people' = people
          /\ c \in DOMAIN companies /\ DOMAIN companies[c] = {"domains", "links"}
      BY <2>3 DEF ApplyUpdate, Lacking, Listed, Tidy
    <2>5. Sole(c, a) /\ Apart
      BY <1>1, <1>2, <1>3, <2>1, PublishedPlan DEF Unmixed
    <2>6. Apart' /\ Sole(c, a)'
      <3>1. /\ DOMAIN companies' = DOMAIN companies
            /\ \A e \in DOMAIN companies \ {c} : companies'[e] = companies[e]
        BY <2>4
      <3>2. /\ \A x \in companies'[c].domains : x = DomainOf[a] \/ x \in companies[c].domains
            /\ \A x \in companies'[c].links : x = LinkOf[a] \/ x \in companies[c].links
        <4>1. CASE u.field = "domains" /\ u.value = DomainOf[a]
          <5>1. /\ companies'[c].domains = {DomainOf[a]}
                /\ companies'[c].links = companies[c].links
            BY <2>4, <4>1
          <5> QED BY <5>1
        <4>2. CASE u.field = "links" /\ u.value = LinkOf[a]
          <5>1. /\ companies'[c].links = {LinkOf[a]}
                /\ companies'[c].domains = companies[c].domains
            BY <2>4, <4>2
          <5> QED BY <5>1
        <4> QED BY <2>3, <4>1, <4>2
      <3> QED BY <1>1, <2>4, <2>5, <3>1, <3>2, CompanyChange
    <2>7. Lone' /\ Identified'
      BY <1>1, <2>4 DEF Unmixed, Lone, Shared, Identified, PersonIdOf
    <2>8. Sole(mem.company, mem.account)'
      BY <1>1, <2>1, <2>6 DEF Sole
    <2>9. \A k \in DOMAIN mem'.persons : Sought(mem.persons[k])'
      <3>1. SUFFICES ASSUME NEW k \in DOMAIN mem.persons PROVE Sought(mem.persons[k])'
        BY <1>1
      <3>2. PICK q : q = mem.persons[k]
        OBVIOUS
      <3>3. Sought(q)'
        BY <1>1, <1>2, <2>4, <3>2, SoughtKept DEF Unmixed, Aimed, Planning
      <3> QED BY <1>1, <3>2, <3>3 DEF Sought, Shared
    <2> QED BY <1>2, <2>6, <2>7, <2>8, <2>9 DEF Unmixed, Aimed
  <1>4. CASE Now.object = "enrich person"
    <2>1. PICK k \in 1..PerCompany : Now.id = mem.persons[k].id /\ Now.data = mem.persons[k].data
      BY <1>1, <1>4, NowFacts DEF Listed
    <2>2. PICK q : q = mem.persons[k]
      OBVIOUS
    <2>3. u.field = "token" /\ u.id = q.id /\ u.value = TokenOf[q.data]
      <3>1. u \in {Update("token", TokenOf[q.data])}
        BY <1>4, <2>1, <2>2 DEF Proposals
      <3>2. u = Update("token", TokenOf[q.data])
        BY <3>1
      <3> QED BY <2>1, <2>2, <3>2 DEF Update
    <2>4. /\ companies' = companies /\ q.id \in DOMAIN people /\ people[q.id].token = None
          /\ people' = [people EXCEPT ![q.id].token = TokenOf[q.data]]
      BY <2>3 DEF ApplyUpdate, Lacking
    <2>5. /\ job = "account" /\ DOMAIN mem.persons = 1..PerCompany
          /\ Sole(mem.company, mem.account)
          /\ \A j \in 1..PerCompany : Sought(mem.persons[j])
      BY <1>1, <1>2, <1>4, PublishedPlan
    <2>6. Lone' /\ Identified' /\ \A j \in DOMAIN mem'.persons : Sought(mem.persons[j])'
      <3>1. strays = {} => people[q.id].company = mem.company
        BY <2>2, <2>4, <2>5 DEF Sought
      <3>2. DOMAIN people[q.id] = {"token", "name", "company"}
        BY <2>4 DEF Listed, Tidy
      <3>3. /\ DOMAIN people' = DOMAIN people
            /\ \A i \in DOMAIN people \ {q.id} : people'[i] = people[i]
            /\ people'[q.id].company = people[q.id].company
            /\ people'[q.id].name = people[q.id].name
            /\ people'[q.id].token = TokenOf[q.data]
        BY <2>4, <3>2
      <3>4. DOMAIN people' = DOMAIN people \cup {q.id}
        BY <2>4, <3>3
      <3> QED BY <1>1, <2>2, <2>4, <2>5, <3>1, <3>3, <3>4, PersonChange DEF Unmixed
    <2>7. Apart' /\ Sole(mem.company, mem.account)'
      BY <1>1, <2>4, <2>5 DEF Unmixed, Apart, Sole
    <2> QED BY <1>2, <2>6, <2>7 DEF Unmixed, Aimed
  <1> QED BY <1>3, <1>4 DEF Enriching

\* A stray brings no identity but its own.
LEMMA StrayKeeps ==
  ASSUME Listed, Unmixed, job' = job, NEW u, ApplyUpdate(u), ~ (Enriching /\ u \in Proposals)
  PROVE  Unmixed'
  <1>1. UNCHANGED <<pc, mem>> /\ strays' = strays \cup {u.value}
    BY DEF ApplyUpdate
  <1>2. u.value \in strays' /\ strays \subseteq strays' /\ strays' # {}
    BY <1>1
  <1>3. /\ DOMAIN companies' = DOMAIN companies
        /\ \A c \in DOMAIN companies : \A x :
             /\ x \in companies'[c].domains => x \in companies[c].domains \cup strays'
             /\ x \in companies'[c].links => x \in companies[c].links \cup strays'
    <2>1. CASE companies' = companies
      BY <2>1
    <2>2. CASE companies' # companies
      <3>1. companies' = [companies EXCEPT ![u.id][u.field] = {u.value}]
        BY <2>2 DEF ApplyUpdate
      <3>2. ASSUME NEW c \in DOMAIN companies
            PROVE  /\ companies'[c].domains \in {companies[c].domains, {u.value}}
                   /\ companies'[c].links \in {companies[c].links, {u.value}}
        <4>1. DOMAIN companies[c] = {"domains", "links"}
          BY DEF Listed, Tidy
        <4>2. CASE c # u.id
          BY <3>1, <4>2
        <4>3. CASE c = u.id
          <5>1. companies'[c] = [companies[c] EXCEPT ![u.field] = {u.value}]
            BY <3>1, <4>3
          <5>2. CASE u.field = "domains"
            BY <4>1, <5>1, <5>2
          <5>3. CASE u.field = "links"
            BY <4>1, <5>1, <5>3
          <5>4. CASE u.field \notin {"domains", "links"}
            BY <4>1, <5>1, <5>4
          <5> QED BY <5>2, <5>3, <5>4
        <4> QED BY <4>2, <4>3
      <3>3. DOMAIN companies' = DOMAIN companies
        BY <3>1
      <3> QED BY <1>2, <3>2, <3>3
    <2> QED BY <2>1, <2>2
  <1>4. /\ DOMAIN people' = DOMAIN people
        /\ \A i \in DOMAIN people : people'[i].token \in {people[i].token} \cup strays'
    <2>1. CASE people' = people
      BY <2>1
    <2>2. CASE people' # people
      <3>1. people' = [people EXCEPT ![u.id].token = u.value]
        BY <2>2 DEF ApplyUpdate
      <3>2. \A i \in DOMAIN people : DOMAIN people[i] = {"token", "name", "company"}
        BY DEF Listed, Tidy
      <3> QED BY <1>2, <3>1, <3>2
    <2> QED BY <2>1, <2>2
  <1>5. Apart'
    BY <1>2, <1>3 DEF Unmixed, Apart
  <1>6. \A c, a : Sole(c, a) => Sole(c, a)'
    BY <1>2, <1>3 DEF Sole
  <1>7. Lone' /\ Identified'
    <2>1. SUFFICES ASSUME NEW i \in DOMAIN people, NEW j \in DOMAIN people, i # j,
                          people'[j].token \notin strays' \cup {None},
                          people'[i].token = people'[j].token
                   PROVE  PerCompany > 1
      BY <1>2, <1>4 DEF Lone, Shared, Identified
    <2>2. people[i].token = people[j].token /\ people[j].token \notin strays \cup {None}
      BY <1>2, <1>4, <2>1
    <2> QED BY <2>1, <2>2 DEF Unmixed, Lone, Shared
  <1>8. ASSUME NEW k \in DOMAIN mem.persons, Sought(mem.persons[k])
        PROVE  Sought(mem.persons[k])'
    <2>1. PICK q : q = mem.persons[k] /\ Sought(q)
      BY <1>8
    <2>2. ASSUME NEW i \in DOMAIN people \ {q.id}, TokenOf[q.data] \notin strays' \cup {None},
                 people'[i].token = TokenOf[q.data]
          PROVE  PerCompany > 1
      <3>1. people[i].token = TokenOf[q.data] /\ TokenOf[q.data] \notin strays \cup {None}
        BY <1>2, <1>4, <2>2
      <3> QED BY <2>1, <3>1 DEF Sought, Shared
    <2>3. mem'.persons[k] = q
      BY <1>1, <2>1
    <2> QED BY <1>2, <1>4, <2>2, <2>3 DEF Sought, Shared
  <1>9. Aimed'
    <2>1. pc' \in Publishing /\ job' = "account" => Sole(mem.company, mem.account)'
      <3>1. PICK c, a : c = mem.company /\ a = mem.account
        OBVIOUS
      <3>2. pc \in Publishing /\ job = "account" => Sole(c, a)'
        BY <1>6, <3>1 DEF Unmixed, Aimed
      <3> QED BY <1>1, <3>1, <3>2 DEF Sole
    <2>2. pc' \in Planning => \A k \in DOMAIN mem'.persons : Sought(mem.persons[k])'
      BY <1>1, <1>8 DEF Unmixed, Aimed
    <2> QED BY <1>2, <2>1, <2>2 DEF Aimed
  <1> QED BY <1>5, <1>7, <1>9 DEF Unmixed

-----------------------------------------------------------------------------
(* One bundle for each company *)

\* The id is not that of a membership.
Plain(id) == \A c : id # <<"membership", c>>

\* The records of Twenty, the company and the people of the plan are no memberships.
PlainIds ==
  /\ \A id \in DOMAIN companies \cup DOMAIN people : Plain(id)
  /\ pc \in Planning /\ job = "account" => Plain(mem.company)
  /\ \A k \in DOMAIN mem.persons : Plain(mem.persons[k].id)

\* The records of the company's bundle, as its intents tell them.
Told(c) ==
  {c, <<"membership", c>>}
    \cup UNION {{<<"opportunity", c, k>>, <<"note", c, k>>, <<"noteTarget", c, k>>,
                 intent[<<"opportunity", c, k>>].data[2]} : k \in 1..PerCompany}

\* The bundle is the company's, as its intents tell it.
Of(c, b) ==
  /\ \A k \in 1..PerCompany : <<"opportunity", c, k>> \in DOMAIN intent
  /\ b = Told(c)
  /\ \A e : <<"membership", e>> \in b => e = c

\* Every bundle that was reported, or that the claim holds, is that of a company.
Owned ==
  job = "account" =>
    \A b \in progress \cup Members(result.bundles) \cup Members(mem.bundles) : \E c : Of(c, b)

OneInv == IInv /\ job \in Kinds /\ Planned /\ PlainIds /\ Owned

LEMMA OfStays ==
  ASSUME Lasting, NEW c, NEW b, Of(c, b)
  PROVE  Of(c, b)'
  <1>1. \A k \in 1..PerCompany :
          /\ <<"opportunity", c, k>> \in DOMAIN intent'
          /\ intent'[<<"opportunity", c, k>>].data = intent[<<"opportunity", c, k>>].data
    BY DEF Of, Lasting
  <1>2. Told(c)' = Told(c)
    BY <1>1 DEF Told
  <1> QED BY <1>1, <1>2 DEF Of

\* There is nothing else in a bundle.
LEMMA RefFacts ==
  ASSUME job = "account", NEW p \in Places
  PROVE  \/ ItemAt(p).id \in {mem.company, <<"membership", mem.company>>}
         \/ \E k \in 1..PerCompany :
              ItemAt(p).id \in {mem.persons[k].id, <<"opportunity", mem.company, k>>,
                                <<"note", mem.company, k>>, <<"noteTarget", mem.company, k>>}
  <1>1. Rows = Bundle /\ DOMAIN Bundle = 0..2 * PerCompany /\ PerCompany \in Nat \ {0}
    BY TargetAssumption DEF Rows, Bundle
  <1>2. PICK r, n : r \in 0..2 * PerCompany /\ n \in 1..3 /\ n \in DOMAIN Bundle[r]
                    /\ ItemAt(p) = Bundle[r][n]
    BY <1>1 DEF Places, ItemAt
  <1>3. CASE r = 0
    <2> DEFINE head == <<Item("company", mem.company, mem.account),
                         Item("membership", <<"membership", mem.company>>, mem.account),
                         Item("enrich company", mem.company, mem.account)>>
    <2>1. 0 \in 0..2 * PerCompany /\ 0 \notin 1..PerCompany
      BY <1>1
    <2>2. Bundle[0] = head
      BY <2>1 DEF Bundle
    <2>3. /\ head[1].id = mem.company /\ head[2].id = <<"membership", mem.company>>
          /\ head[3].id = mem.company
      BY DEF Item
    <2> HIDE DEF head
    <2>4. ItemAt(p) \in {head[1], head[2], head[3]}
      BY <1>2, <1>3, <2>2
    <2> QED BY <2>3, <2>4
  <1>4. CASE r # 0 /\ r \in 1..PerCompany
    <2> DEFINE q == mem.persons[r]
               creation == Item("person", q.id, <<q.data, mem.company>>)
               enrichment == Item("enrich person", q.id, q.data)
    <2>1. Bundle[r] = Contact(q)
      BY <1>2, <1>4 DEF Bundle
    <2>2. ItemAt(p) \in {creation, enrichment}
      <3>1. Contact(q) = IF q.matched THEN <<enrichment>> ELSE <<creation, enrichment>>
        BY DEF Contact
      <3> HIDE DEF creation, enrichment, q
      <3>2. \A m \in DOMAIN <<enrichment>> : <<enrichment>>[m] = enrichment
        OBVIOUS
      <3>3. \A m \in DOMAIN <<creation, enrichment>> :
              <<creation, enrichment>>[m] \in {creation, enrichment}
        OBVIOUS
      <3> QED BY <1>2, <2>1, <3>1, <3>2, <3>3
    <2>3. creation.id = q.id /\ enrichment.id = q.id
      BY DEF Item
    <2> HIDE DEF creation, enrichment
    <2> QED BY <1>4, <2>2, <2>3
  <1>5. CASE r # 0 /\ r \notin 1..PerCompany
    <2>1. Bundle[r] = Offer(r - PerCompany)
      BY <1>2, <1>5 DEF Bundle
    <2>2. PICK k \in 1..PerCompany : k = r - PerCompany
      BY <1>1, <1>2, <1>5
    <2>3. \A m \in 1..3 :
            Offer(k)[m].id \in {<<"opportunity", mem.company, k>>, <<"note", mem.company, k>>,
                                <<"noteTarget", mem.company, k>>}
      BY DEF Offer, Item
    <2> QED BY <1>2, <2>1, <2>2, <2>3
  <1> QED BY <1>2, <1>3, <1>4, <1>5

\* A bundle with nothing left on the list is that of its company.
LEMMA RefsAreOf ==
  ASSUME Underway, PlainIds, Planned, job = "account", pc = "prepare", mem.todo = {}
  PROVE  Of(mem.company, Refs)
  <1> DEFINE c == mem.company
             opportunity(k) == <<"opportunity", c, k>>
  <1>1. \A p \in Places : Settled(ItemAt(p))
    BY DEF Underway, Publishing
  <1>2. ASSUME NEW k \in 1..PerCompany
        PROVE  /\ opportunity(k) \in DOMAIN intent
               /\ intent[opportunity(k)].data[2] = mem.persons[k].id
    <2>1. PICK p \in Places : \E text :
            ItemAt(p) = Item("opportunity", opportunity(k), <<text, mem.persons[k].id>>)
      BY BundleFacts
    <2>2. /\ ItemAt(p).object = "opportunity" /\ ItemAt(p).id = opportunity(k)
          /\ ItemAt(p).data[2] = mem.persons[k].id
      BY <2>1 DEF Item
    <2>3. Intended(ItemAt(p))
      BY <1>1, <2>2 DEF Settled
    <2> QED BY <2>2, <2>3 DEF Intended
  <1>3. Told(c) = {c, <<"membership", c>>}
          \cup UNION {{opportunity(k), <<"note", c, k>>, <<"noteTarget", c, k>>,
                       mem.persons[k].id} : k \in 1..PerCompany}
    BY <1>2 DEF Told
  <1>4. Refs \subseteq Told(c)
    <2>1. SUFFICES ASSUME NEW p \in Places PROVE ItemAt(p).id \in Told(c)
      BY DEF Refs
    <2> QED BY <1>3, <2>1, RefFacts
  <1>5. Told(c) \subseteq Refs
    <2>1. c \in Refs
      BY BundleFacts
    <2>2. \A k \in 1..PerCompany :
            {<<"membership", c>>, opportunity(k), <<"note", c, k>>, <<"noteTarget", c, k>>,
             mem.persons[k].id} \subseteq Refs
      BY BundleFacts
    <2>3. 1 \in 1..PerCompany
      BY TargetAssumption
    <2> QED BY <1>3, <2>1, <2>2, <2>3
  <1>6. ASSUME NEW e, <<"membership", e>> \in Refs PROVE e = c
    <2>1. Plain(c) /\ \A k \in 1..PerCompany : Plain(mem.persons[k].id)
      <3>1. DOMAIN mem.persons = 1..PerCompany
        <4>1. Len(mem.persons) = PerCompany /\ mem.persons \in Seq(Members(mem.persons))
          BY DEF Planned, Planning, Seeking, Publishing
        <4> QED BY <4>1, LenProperties
      <3> QED BY <3>1 DEF PlainIds, Planning, Publishing
    <2>2. \A k : <<"membership", e>> \notin {opportunity(k), <<"note", c, k>>, <<"noteTarget", c, k>>}
      <3>1. \A k : /\ Len(opportunity(k)) = 3 /\ Len(<<"note", c, k>>) = 3
                   /\ Len(<<"noteTarget", c, k>>) = 3 /\ Len(<<"membership", e>>) = 2
        OBVIOUS
      <3> QED BY <3>1
    <2>3. \A k \in 1..PerCompany : <<"membership", e>> # mem.persons[k].id
      BY <2>1 DEF Plain
    <2>4. <<"membership", e>> \in {c, <<"membership", c>>}
      BY <1>3, <1>4, <1>6, <2>2, <2>3
    <2>5. <<"membership", e>> = <<"membership", c>>
      BY <2>1, <2>4 DEF Plain
    <2> QED BY <2>5
  <1> QED BY <1>2, <1>4, <1>5, <1>6 DEF Of

\* What a step may add to the records of Twenty is what is published, and a stranger.
LEMMA CrmIds ==
  ASSUME IInv, job \in Kinds, Planned, [Next]_vars,
         NEW id \in DOMAIN companies' \cup DOMAIN people'
  PROVE  \/ id \in DOMAIN companies \cup DOMAIN people
         \/ \E s \in Strangers : id = s.id
         \/ /\ pc \in Planning /\ job = "account"
            /\ id = mem.company \/ \E k \in DOMAIN mem.persons : id = mem.persons[k].id
  <1>1. CASE Create
    <2>1. /\ pc = "create" /\ mem.todo # {} /\ mem.todo \subseteq Places
      BY <1>1 DEF Create, Planned, Publishing
    <2>2. \/ id \in DOMAIN companies \cup DOMAIN people
          \/ id = Now.id /\ Now.object \in {"company", "person"}
      BY <1>1 DEF Create, With
    <2>3. job = "account" => DOMAIN mem.persons = 1..PerCompany
      <3>1. job = "account" =>
              Len(mem.persons) = PerCompany /\ mem.persons \in Seq(Members(mem.persons))
        BY <2>1 DEF Planned, Planning, Seeking, Publishing
      <3> QED BY <3>1, LenProperties
    <2> QED BY <2>1, <2>2, <2>3, NowFacts DEF Planning, Publishing
  <1>2. ASSUME NEW u, ApplyUpdate(u) PROVE id \in DOMAIN companies \cup DOMAIN people
    <2>1. DOMAIN companies' = DOMAIN companies /\ DOMAIN people' = DOMAIN people
      BY <1>2 DEF ApplyUpdate
    <2> QED BY <2>1
  <1>3. ASSUME NEW s \in Strangers, AddCompany(s)
        PROVE  id \in DOMAIN companies \cup DOMAIN people \/ id = s.id
    BY <1>3 DEF AddCompany, With
  <1>4. ASSUME NEW i, Delete(i) PROVE id \in DOMAIN companies \cup DOMAIN people
    BY <1>4 DEF Delete
  <1>5. CASE UNCHANGED <<companies, people>>
    BY <1>5
  <1> QED BY <1>1, <1>2, <1>3, <1>4, <1>5, CrmKept

LEMMA PlainKept ==
  ASSUME OneInv, \A s \in Strangers : Plain(s.id), [Next]_vars
  PROVE  PlainIds'
  <1> USE DEF Planning, Seeking, Publishing
  <1>1. Away \/ Opened \/ Joined \/ Going \/ Started \/ Publishes \/ (mem' = mem /\ pc' = pc)
    BY Moves DEF OneInv
  <1>2. \A id \in DOMAIN companies' \cup DOMAIN people' : Plain(id)
    BY CrmIds DEF OneInv, PlainIds
  <1>3. job' = job
    BY NextLasts DEF OneInv, IInv, Lasting
  <1>4. ASSUME NEW a PROVE Plain(CompanyFor(a))
    <2>1. Plain(CompanyIdOf(a))
      BY DEF Plain, CompanyIdOf
    <2>2. ByDomain(a) \cup ByLink(a) \subseteq DOMAIN companies
      BY DEF ByDomain, ByLink
    <2> QED BY <2>1, <2>2 DEF CompanyFor, OneInv, PlainIds
  <1>5. ASSUME NEW p, NEW c PROVE Plain(PersonIdOf(p, c))
    <2>1. \A t, n, e : /\ <<"person", t>> # <<"membership", e>>
                       /\ Len(<<"person", c, n>>) = 3 /\ Len(<<"membership", e>>) = 2
      OBVIOUS
    <2> QED BY <2>1 DEF Plain, PersonIdOf
  <1>6. pc' \in Planning /\ job' = "account" => Plain(mem'.company)
    BY <1>1, <1>3, <1>4
       DEF Away, Opened, Joined, Going, Started, Publishes, SameAim, OneInv, PlainIds
  <1>7. \A k \in DOMAIN mem'.persons : Plain(mem'.persons[k].id)
    <2>1. CASE Joined
      <3>1. PICK p, id, x :
              /\ x.id = id /\ mem'.persons = Append(mem.persons, x)
              /\ IF PersonMatches(p, mem.company) = {} THEN id = PersonIdOf(p, mem.company)
                 ELSE id \in PersonMatches(p, mem.company)
        BY <2>1 DEF Joined
      <3>2. Plain(x.id)
        <4>1. PersonMatches(p, mem.company) \subseteq DOMAIN people
          BY DEF PersonMatches, ByToken, ByName
        <4> QED BY <1>5, <3>1, <4>1 DEF OneInv, PlainIds
      <3>3. Members(mem'.persons) = Members(mem.persons) \cup {x}
        BY <3>1, AppendFacts DEF OneInv, Planned
      <3>4. \A q \in Members(mem'.persons) : Plain(q.id)
        BY <3>2, <3>3 DEF OneInv, PlainIds, Members
      <3> QED BY <3>4 DEF Members
    <2>2. CASE ~ Joined
      <3>1. mem'.persons \in {<<>>, mem.persons}
        BY <1>1, <2>2 DEF Away, Opened, Going, Started, Publishes
      <3> QED BY <3>1 DEF OneInv, PlainIds
    <2> QED BY <2>1, <2>2
  <1> QED BY <1>2, <1>6, <1>7 DEF PlainIds

\* The bundles that were reported, or that the claim holds.
Held == progress \cup Members(result.bundles) \cup Members(mem.bundles)

\* No step but SaveProgress adds a bundle.
LEMMA BundlesKept ==
  ASSUME IInv, [Next]_vars, ~ SaveProgress
  PROVE  Held' \subseteq Held
  <1>1. CASE Quiet
    <2>1. /\ Members(mem'.bundles) \subseteq Members(mem.bundles)
          /\ Members(result'.bundles) \subseteq Members(mem.bundles) \cup Members(result.bundles)
      BY <1>1, FreshFacts DEF Quiet, Carried
    <2> QED BY <1>1, <2>1 DEF Held, Quiet, Members
  <1>2. CASE UNCHANGED <<progress, result>> /\ mem'.bundles = mem.bundles
    BY <1>2 DEF Held, Members
  <1>3. CASE Claim \/ Fails \/ Lost \/ Retry \/ \E id \in DOMAIN intent : Sweep(id)
    <2>1. CASE Fails
      BY <1>1, <2>1, EndsAreQuiet DEF Fails, IInv
    <2>2. CASE ~ Fails
      <3>1. Quiet
        BY <1>3, <2>2, FreshFacts
           DEF Claim, Lost, Retry, Sweep, Working, Keep, Quiet, Carried, Publishing, reportVars,
               IInv, Shaped
      <3> QED BY <1>1, <3>1
    <2> QED BY <2>1, <2>2
  <1>4. CASE Research
    <2>1. CASE CampaignAccepted
      <3>1. /\ UNCHANGED <<progress, result>>
            /\ mem' = [mem EXCEPT !.account = Data, !.todo = Places]
        BY <2>1 DEF CampaignAccepted, Goto, Keep, reportVars
      <3>2. mem'.bundles = mem.bundles
        BY <3>1, FreshFacts DEF IInv, Shaped
      <3> QED BY <1>2, <3>1, <3>2
    <2> QED BY <1>1, <1>4, <2>1, ResearchIsQuiet DEF IInv
  <1>5. CASE Verify
    <2>1. Goto("begin", mem) \/ Fail
      BY <1>5 DEF Verify
    <2> QED BY <1>1, <2>1, EndsAreQuiet, GotoIsQuiet DEF IInv, Shaped, Publishing
  <1>6. CASE Begin
    <2>1. CASE Exhausted \/ NextCandidate(mem)
      BY <1>1, <2>1, EndsAreQuiet DEF IInv
    <2>2. CASE ~ (Exhausted \/ NextCandidate(mem))
      <3>1. /\ UNCHANGED <<progress, result>>
            /\ \/ mem' = [mem EXCEPT !.company = CompanyFor(mem.account), !.todo = Places]
               \/ mem' = [mem EXCEPT !.todo = Places]
        BY <1>6, <2>2 DEF Begin, Keep
      <3>2. mem'.bundles = mem.bundles
        BY <3>1, FreshFacts DEF IInv, Shaped
      <3> QED BY <1>2, <3>1, <3>2
    <2> QED BY <2>1, <2>2
  <1>7. CASE Prepare
    <2>1. CASE Exhausted \/ Fail
      BY <1>1, <2>1, EndsAreQuiet DEF IInv
    <2>2. CASE ~ (Exhausted \/ Fail)
      BY <1>2, <1>7, <2>2 DEF Prepare, reportVars
    <2> QED BY <2>1, <2>2
  <1>8. CASE Create
    BY <1>2, <1>8 DEF Create, reportVars
  <1>9. CASE Confirm \/ Enrich
    <2>1. UNCHANGED <<progress, result>> /\ mem' = Published
      BY <1>9 DEF Confirm, Enrich, reportVars
    <2>2. Published.bundles = mem.bundles
      BY FreshFacts DEF Published, IInv, Shaped
    <2> QED BY <1>2, <2>1, <2>2
  <1>10. CASE PublishFails
    <2>1. Quiet
      BY <1>10, FreshFacts DEF PublishFails, Quiet, Carried, Publishing, reportVars
    <2> QED BY <1>1, <2>1
  <1>11. CASE PublishLate \/ Finish
    <2>1. Exhausted \/ \E outcome : Complete(outcome, mem.bundles)
      BY <1>11 DEF PublishLate, Finish
    <2> QED BY <1>1, <2>1, EndsAreQuiet DEF IInv
  <1>12. CASE \/ ChangeParents \/ DeadlinePasses \/ UNCHANGED vars
              \/ \E s \in Strangers : AddCompany(s)
              \/ \E id \in DOMAIN companies \cup DOMAIN people : Delete(id)
              \/ SendUpdate \/ \E u \in flight : ApplyUpdate(u)
    BY <1>2, <1>12
       DEF ChangeParents, DeadlinePasses, AddCompany, Delete, SendUpdate, ApplyUpdate, vars,
           reportVars
  <1> QED
    BY <1>3, <1>4, <1>5, <1>6, <1>7, <1>8, <1>9, <1>10, <1>11, <1>12 DEF Next, Publication, Others

\* SaveProgress adds the bundle that was published.
LEMMA BundleAdded ==
  ASSUME IInv, SaveProgress
  PROVE  Held' \subseteq Held \cup {Refs}
  <1>1. PICK b : b = Refs
    OBVIOUS
  <1> DEFINE bundles == Append(mem.bundles, b)
  <1>2. Members(bundles) = Members(mem.bundles) \cup {b}
    BY AppendFacts DEF IInv, Shaped
  <1>3. /\ mem'.bundles \in {<<>>, bundles} /\ result'.bundles \in {bundles, result.bundles}
        /\ progress' \in {progress, progress \cup Members(bundles)}
    <2>1. CASE job = "campaign"
      BY <1>1, <2>1, FreshFacts DEF SaveProgress, Complete, Keep
    <2>2. CASE job # "campaign"
      <3> DEFINE next == [Fresh EXCEPT !.index = mem.index + 1, !.seen = mem.seen,
                                       !.bundles = bundles, !.review = mem.review]
      <3>1. next.bundles = bundles
        BY FreshFacts
      <3>2. /\ mem' = next /\ result' = result
            /\ progress' = progress \cup {bundles[k] : k \in DOMAIN bundles}
        BY <1>1, <2>2 DEF SaveProgress, Keep
      <3> HIDE DEF next, bundles
      <3> QED BY <3>1, <3>2 DEF Members
    <2> QED BY <2>1, <2>2
  <1> HIDE DEF bundles
  <1>4. /\ Members(mem'.bundles) \subseteq Members(mem.bundles) \cup {b}
        /\ Members(result'.bundles) \subseteq Members(result.bundles) \cup Members(mem.bundles) \cup {b}
        /\ progress' \subseteq progress \cup Members(mem.bundles) \cup {b}
    BY <1>2, <1>3, FreshFacts
  <1> QED BY <1>1, <1>4 DEF Held, Members

LEMMA StepKeepsOwners ==
  ASSUME OneInv, \A s \in Strangers : Plain(s.id), [Next]_vars
  PROVE  OneInv'
  <1>1. IInv' /\ Lasting /\ job' = job
    BY StepKeeps, NextLasts DEF OneInv, IInv, Lasting
  <1>2. Planned'
    BY <1>1, Moves, PlannedKept DEF OneInv
  <1>3. PlainIds'
    BY PlainKept
  <1>4. ASSUME job = "account", NEW b \in Held' PROVE \E c : Of(c, b)'
    <2>1. CASE b \in Held
      BY <1>1, <1>4, <2>1, OfStays DEF OneInv, Owned, Held
    <2>2. CASE b \notin Held
      <3>1. SaveProgress /\ b = Refs
        BY <1>4, <2>2, BundlesKept, BundleAdded DEF OneInv
      <3>2. Of(mem.company, b)
        BY <1>4, <3>1, RefsAreOf DEF SaveProgress, OneInv, IInv
      <3>3. PICK c : Of(c, b)
        BY <3>2
      <3>4. Of(c, b)'
        BY <1>1, <3>3, OfStays
      <3> QED BY <3>4
    <2> QED BY <2>1, <2>2
  <1>5. Owned'
    BY <1>1, <1>4 DEF Owned, Held, Members
  <1> QED BY <1>1, <1>2, <1>3, <1>5 DEF OneInv

LEMMA InitOwns ==
  ASSUME Init, \A s \in Strangers : Plain(s.id)
  PROVE  OneInv
  <1>1. IInv /\ job \in Kinds
    BY InitEstablishes DEF Init
  <1>2. pc = "queued" /\ mem = Fresh /\ Fresh.persons = <<>> /\ DOMAIN <<>> = {}
    BY DEF Init, Fresh
  <1>3. Planned
    <2>1. Len(<<>>) = 0 /\ <<>> \in Seq(Members(<<>>))
      OBVIOUS
    <2> QED BY <1>2, <2>1, TargetAssumption DEF Planned, Planning, Seeking, Publishing
  <1>4. PlainIds
    <2>1. DOMAIN companies \subseteq {s.id : s \in Strangers} /\ people = <<>>
      BY DEF Init
    <2> QED BY <1>2, <2>1 DEF PlainIds, Planning, Seeking, Publishing
  <1>5. Owned
    BY <1>2, FreshFacts DEF Init, NoResult, Owned
  <1> QED BY <1>1, <1>3, <1>4, <1>5 DEF OneInv

\* A company is reported with one bundle, whichever claims and candidates come to
\* it, if no company of the CRM has an id that MALG gives to memberships.
THEOREM CompaniesHaveOneBundle ==
  ASSUME \A s \in Strangers : Plain(s.id)
  PROVE  Spec => []OneBundlePerCompany
  <1>1. Init => OneInv
    BY InitOwns
  <1>2. OneInv /\ [Next]_vars => OneInv'
    BY StepKeepsOwners
  <1>3. ASSUME OneInv PROVE OneBundlePerCompany
    <2>1. SUFFICES ASSUME job = "account", NEW b \in Reported, NEW e \in Reported, NEW c \in b,
                          <<"membership", c>> \in b \cap e
                   PROVE  b = e
      BY DEF OneBundlePerCompany
    <2>2. PICK x : Of(x, b)
      BY <1>3, <2>1 DEF OneInv, Owned, Reported, Members
    <2>3. PICK y : Of(y, e)
      BY <1>3, <2>1 DEF OneInv, Owned, Reported, Members
    <2>4. x = c /\ y = c
      BY <2>1, <2>2, <2>3 DEF Of
    <2> QED BY <2>2, <2>3, <2>4 DEF Of
  <1> QED BY <1>1, <1>2, <1>3, PTL DEF Spec

-----------------------------------------------------------------------------
(* No duplicates *)

LEMMA InitTidy ==
  ASSUME StrangersDiffer, Init
  PROVE  Listed /\ Unedited
  <1>1. PICK there \in SUBSET Strangers : companies = [c \in {s.id : s \in there} |->
          [domains |-> UNION {s.domains : s \in {t \in there : t.id = c}},
           links |-> UNION {s.links : s \in {t \in there : t.id = c}}]]
    BY DEF Init
  <1> DEFINE ids == {s.id : s \in there}
             D(c) == UNION {s.domains : s \in {t \in there : t.id = c}}
             L(c) == UNION {s.links : s \in {t \in there : t.id = c}}
  <1>2. /\ DOMAIN companies = ids
        /\ \A c \in ids : companies[c].domains = D(c) /\ companies[c].links = L(c)
    BY <1>1
  <1>3. IsFiniteSet(ids)
    <2> DEFINE f == [s \in there |-> s.id]
    <2>1. f \in Surjection(there, ids)
      BY DEF Surjection
    <2>2. IsFiniteSet(there)
      BY FS_Subset DEF StrangersDiffer
    <2> QED BY <2>1, <2>2, FS_Surjection
  <1>4. Apart
    <2>1. SUFFICES ASSUME NEW c \in ids, NEW e \in ids, c # e
                   PROVE  D(c) \cap D(e) = {} /\ L(c) \cap L(e) = {}
      <3> HIDE DEF ids, D, L
      <3> QED BY <1>2, <2>1 DEF Apart
    <2>2. ASSUME NEW s \in there, NEW t \in there, s.id = c, t.id = e
          PROVE  s.domains \cap t.domains = {} /\ s.links \cap t.links = {}
      BY <2>1, <2>2 DEF StrangersDiffer
    <2> QED BY <2>2
  <1>5. people = <<>> /\ DOMAIN people = {}
    BY DEF Init
  <1>6. Tidy
    <2>1. \A c \in DOMAIN companies : DOMAIN companies[c] = {"domains", "links"}
      BY <1>1
    <2> HIDE DEF ids, D, L
    <2> QED BY <1>2, <1>3, <1>5, <2>1, FS_EmptySet DEF Tidy
  <1>7. pc = "queued" /\ mem.persons = <<>>
    BY DEF Init, Fresh
  <1>8. Planned
    <2>1. Len(<<>>) = 0 /\ <<>> \in Seq(Members(<<>>))
      OBVIOUS
    <2> QED BY <1>7, <2>1, TargetAssumption DEF Planned, Planning, Seeking, Publishing
  <1>9. Unmixed
    BY <1>4, <1>5, <1>7 DEF Unmixed, Lone, Identified, Aimed, Planning, Seeking, Publishing
  <1> QED BY <1>6, <1>8, <1>9 DEF Init, Listed, Unedited

LEMMA StepTidy ==
  ASSUME IInv, Listed, Unedited, [Next]_vars
  PROVE  Listed' /\ Unedited'
  <1>1. job' = job
    BY NextLasts DEF IInv, Lasting
  <1>2. Away \/ Opened \/ Joined \/ Going \/ Started \/ Publishes \/ (mem' = mem /\ pc' = pc)
    BY Moves DEF Listed
  <1>3. Listed'
    BY <1>1, <1>2, EditsCounted, TidyKept, PlannedKept DEF Listed
  <1>4. ASSUME edits' = 0 PROVE Unmixed'
    <2>1. /\ edits = 0 /\ ~ \E s \in Strangers : AddCompany(s)
          /\ ~ \E id \in DOMAIN companies \cup DOMAIN people : Delete(id)
      BY <1>4, EditsCounted DEF Listed
    <2>2. Unmixed
      BY <2>1 DEF Unedited
    <2>3. CASE Create
      BY <1>1, <2>2, <2>3, CreateKeeps
    <2>4. ASSUME NEW u, ApplyUpdate(u) PROVE Unmixed'
      BY <1>1, <2>2, <2>4, ApplyKeeps, StrayKeeps
    <2>5. CASE ~ Create /\ ~ \E u \in flight : ApplyUpdate(u)
      <3>1. SameCrm
        BY <2>1, <2>5, CrmKept DEF SameCrm
      <3>2. Aimed'
        BY <1>1, <1>2, <2>2, <3>1, AimedKept
      <3> QED BY <2>2, <3>1, <3>2 DEF SameCrm, Unmixed, Apart, Lone, Shared, Identified, PersonIdOf
    <2> QED BY <2>3, <2>4, <2>5
  <1> QED BY <1>3, <1>4 DEF Unedited

\* The job never makes two records of one identity unless people have changed the
\* CRM or an update of that very identity was applied after its publication had
\* moved on, but for people planned together for one company, if the CRM has
\* started without two companies of one identity.
THEOREM IdentitiesAreNotDuplicated ==
  ASSUME StrangersDiffer
  PROVE  Spec => []NoDuplicates
  <1>1. Init => Listed /\ Unedited
    BY InitTidy
  <1>2. IInv /\ Listed /\ Unedited /\ [Next]_vars => (Listed /\ Unedited)'
    BY StepTidy
  <1>3. ASSUME Unedited PROVE NoDuplicates
    BY <1>3 DEF Unedited, Unmixed, Apart, Lone, Shared, NoDuplicates
  <1> QED BY <1>1, <1>2, <1>3, Invariance, PTL DEF Spec

=============================================================================
