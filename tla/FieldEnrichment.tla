-------------------------- MODULE FieldEnrichment --------------------------
(***************************************************************************)
(* Enrichment of one CRM record that exists already: the fields which      *)
(* ResearchWorker._enrich_record (src/malg/worker/service.py) finds empty  *)
(* are filled one by one by CrmPublisher.fill_missing                      *)
(* (src/malg/crm/publisher.py), each through an intent of its own, while   *)
(* people edit the record, requests time out and take effect late, claims  *)
(* are lost and other workers reconcile.                                   *)
(*                                                                         *)
(* One job, whose claims are those of JobQueue reduced to a number and to  *)
(* whether the lease is over.                                              *)
(***************************************************************************)
EXTENDS Integers, Sequences, FiniteSets

CONSTANTS
  Order,        \* the fields of the record in the order of _FIELD_NAMES
  Workers,      \* worker processes
  MaxRetries,   \* crm.max_retries: mutations of one field after the first
  MaxClaims,    \* bound: claims of the job
  MaxEdits      \* bound: edits of the record by people

Fields == {Order[k] : k \in 1..Len(Order)}

ASSUME OrderAssumption == Order \in Seq(Fields) /\ Order # <<>>
ASSUME BoundsAssumption == MaxRetries \in Nat /\ MaxClaims \in Nat /\ MaxEdits \in Nat

VARIABLES
  phase,    \* status of the job
  claim,    \* the latest claim of the job
  lapsed,   \* the lease of that claim is over
  intent,   \* [Fields -> Intent]: crm_write_operations of the record
  record,   \* what Twenty holds
  flight,   \* updates sent and not yet applied or dropped
  worker,   \* [Workers -> WorkerState]
  edits,    \* edits by people so far
  held      \* <<field, value>> pairs the record has held (history)

jobVars == <<phase, claim, lapsed>>
crmVars == <<record, edits, held>>
vars == <<phase, claim, lapsed, intent, record, flight, worker, edits, held>>

-----------------------------------------------------------------------------
(* Types *)

\* "proposed" satisfies _contains_value, "other" is anything else that is not
\* empty.
Values == {"empty", "proposed", "other"}
Record == [exists : BOOLEAN, version : Nat, value : [Fields -> Values]]

\* version is observed_record_version, part of what makes an intent the same.
Intent == [status : {"none", "prepared", "confirmed", "conflict", "failed", "cancelled"},
           version : Nat, attempts : Nat]
Resolved == {"confirmed", "conflict", "cancelled"}
Unresolved == {"prepared", "failed"}

\* An update carries the version it was decided on; known is the number of
\* edits its sender had seen (history).
Updates == [field : Fields, version : Nat, nr : Nat, known : Nat]

\* idle/observe/settle: reconcile_pending; load: _enrich_record; the others are
\* the steps of fill_missing between two transactions or requests.
Steps == {"idle", "observe", "settle", "ready", "claimed", "load", "prepare", "read", "decide",
          "send", "wait", "ack", "rejected", "reread", "resolve", "differs", "failing",
          "complete"}

\* rest: the places in Order of the fields still to fill; base: the version
\* _enrich_record observed; got: the last read; todo, op: reconcile_pending's
\* snapshot and the operation at hand, or the update being sent.
WorkerState ==
  [pc : Steps, claim : Nat, rest : SUBSET (1..Len(Order)), base : Nat,
   got : [value : Values \cup {"gone"}, version : Nat, known : Nat], try : Nat, todo : SUBSET (Fields \X Nat), op : Updates]

NoUpdate == [field |-> Order[1], version |-> 0, nr |-> 0, known |-> 0]
Unread == [value |-> "gone", version |-> 0, known |-> 0]
Blank == [pc |-> "idle", claim |-> 0, rest |-> {}, base |-> 0, got |-> Unread, try |-> 0,
          todo |-> {}, op |-> NoUpdate]

Init ==
  /\ phase = "queued" /\ claim = 0 /\ lapsed = FALSE
  /\ intent = [f \in Fields |-> [status |-> "none", version |-> 0, attempts |-> 0]]
  /\ record = [exists |-> TRUE, version |-> 0, value |-> [f \in Fields |-> "empty"]]
  /\ flight = {}
  /\ worker = [w \in Workers |-> Blank]
  /\ edits = 0
  /\ held = {}

-----------------------------------------------------------------------------
(* The job *)

\* require_claim.
Owner(w) == worker[w].claim = claim /\ phase = "running" /\ ~ lapsed
Busy(w) == worker[w].claim > 0
Goto(w, pc) == worker' = [worker EXCEPT ![w].pc = pc]
Leave(w) == worker' = [worker EXCEPT ![w] = Blank]

\* Cancellation, and the operator's retry of a failed job.
CancelJob ==
  /\ phase \in {"queued", "running"}
  /\ phase' = "finished" /\ lapsed' = FALSE
  /\ UNCHANGED <<claim, intent, crmVars, flight, worker>>

RetryJob ==
  /\ phase = "failed" /\ claim < MaxClaims
  /\ phase' = "queued"
  /\ UNCHANGED <<claim, lapsed, intent, crmVars, flight, worker>>

Lapse ==
  /\ phase = "running" /\ ~ lapsed
  /\ lapsed' = TRUE
  /\ UNCHANGED <<phase, claim, intent, crmVars, flight, worker>>

\* claim_next_job, which takes over a claim that has expired or fails the job
\* for good.
ClaimNext(w) ==
  /\ worker[w].pc = "ready"
  /\ \/ /\ phase = "queued" \/ (phase = "running" /\ lapsed)
        /\ claim < MaxClaims
        /\ phase' = "running" /\ claim' = claim + 1 /\ lapsed' = FALSE
        /\ worker' = [worker EXCEPT ![w] = [Blank EXCEPT !.pc = "claimed", !.claim = claim + 1]]
     \/ /\ phase = "running" /\ lapsed
        /\ phase' = "failed" /\ lapsed' = FALSE
        /\ Leave(w) /\ UNCHANGED claim
     \/ Leave(w) /\ UNCHANGED jobVars
  /\ UNCHANGED <<intent, crmVars, flight>>

Complete(w) ==
  /\ worker[w].pc = "complete" /\ Owner(w)
  /\ phase' = "finished" /\ Leave(w)
  /\ UNCHANGED <<claim, lapsed, intent, crmVars, flight>>

FailJob(w) ==
  /\ worker[w].pc \in {"failing", "differs"} /\ Owner(w)
  /\ phase' = "failed" /\ Leave(w)
  /\ UNCHANGED <<claim, lapsed, intent, crmVars, flight>>

\* A fence refuses the worker, the renewal loop cancels its execution, or the
\* process dies and is started again.
Stop(w) ==
  /\ worker[w] # Blank
  /\ Leave(w)
  /\ UNCHANGED <<jobVars, intent, crmVars, flight>>

-----------------------------------------------------------------------------
(* Twenty *)

Written(f, v) == [record EXCEPT !.version = @ + 1, !.value[f] = v]

\* A person enters or removes a value.
Edit(f, v) ==
  /\ edits < MaxEdits /\ record.exists /\ v \in {"empty", "other"} /\ v # record.value[f]
  /\ record' = Written(f, v)
  /\ held' = held \cup {<<f, v>>}
  /\ edits' = edits + 1
  /\ UNCHANGED <<jobVars, intent, flight, worker>>

\* A person deletes the record, or edits what is not modelled of it.
EditElsewhere(still) ==
  /\ edits < MaxEdits /\ record.exists
  /\ record' = [record EXCEPT !.version = @ + 1, !.exists = still]
  /\ edits' = edits + 1
  /\ UNCHANGED <<jobVars, intent, flight, worker, held>>

\* Plausible bug: the filter of the mutation names the record and the emptiness
\* of the field, not the version.
AdmitsAnyVersion(u) == record.exists /\ record.value[u.field] = "empty"

\* The filter of TwentyClient.fill_missing, which Twenty evaluates in the
\* statement that writes the field.
Admits(u) ==
  /\ record.exists
  /\ record.version = u.version
  /\ record.value[u.field] = "empty"

Apply(u) ==
  IF Admits(u) THEN record' = Written(u.field, "proposed") /\ held' = held \cup {<<u.field, "proposed">>}
               ELSE UNCHANGED <<record, held>>

\* An update whose sender is not waiting for it takes effect, or is lost.
Arrive(u) ==
  /\ u \in flight
  /\ flight' = flight \ {u}
  /\ Apply(u) \/ UNCHANGED <<record, held>>
  /\ UNCHANGED <<jobVars, intent, worker, edits>>

-----------------------------------------------------------------------------
(* reconcile_pending *)

Pending == {<<f, intent[f].attempts>> : f \in {g \in Fields : intent[g].status \in Unresolved}}
Stranded == phase \in {"finished", "failed"} \/ (phase = "running" /\ lapsed)

\* Where a worker goes when it has dealt with an operation.
Resumed(me) ==
  [me EXCEPT !.op = NoUpdate, !.got = Unread,
             !.pc = IF me.todo # {} THEN "observe" ELSE IF me.claim = 0 THEN "ready" ELSE "load"]

Survey(w) ==
  /\ \/ worker[w].pc = "idle"
     \/ worker[w].pc = "claimed"
  /\ worker' = [worker EXCEPT ![w] =
       Resumed([@ EXCEPT !.todo = IF Busy(w) \/ Stranded THEN Pending ELSE {}])]
  /\ UNCHANGED <<jobVars, intent, crmVars, flight>>

\* Nothing is concluded from a field that is still empty, nor from a missing
\* record when an update may have been sent.
Observe(w, o) ==
  LET me == [worker[w] EXCEPT !.todo = @ \ {o}]
      seen == IF record.exists THEN record.value[o[1]] ELSE "gone"
      open == seen = "empty" \/ (seen = "gone" /\ (o[2] > 0 \/ Busy(w))) IN
  /\ worker[w].pc = "observe" /\ o \in worker[w].todo
  /\ worker' = [worker EXCEPT ![w] =
       IF open THEN Resumed(me)
               ELSE [me EXCEPT !.pc = "settle", !.op.field = o[1], !.got.value = seen]]
  /\ UNCHANGED <<jobVars, intent, crmVars, flight>>

\* Plausible bug: a missing record confirms what was reconciled.
DecidedOptimistically(value) == IF value = "other" THEN "conflict" ELSE "confirmed"

\* What an observed value says of the intent to write another one.
Decided(value) ==
  CASE value = "proposed" -> "confirmed" [] value = "other" -> "conflict" [] OTHER -> "cancelled"

\* Plausible bug: the attempt count of the snapshot is trusted.
CancellableBySnapshot(f) == ~ (phase = "running" /\ ~ lapsed)

\* An intent that was issued, or whose job is being executed, is not cancelled.
Cancellable(f) == intent[f].attempts = 0 /\ ~ (phase = "running" /\ ~ lapsed)

\* reconcile_write: what may not be cancelled raises a CrmWriteConflict, which ends
\* worker_loop, and a resolved intent is left as it is.
Settle(w) ==
  LET f == worker[w].op.field
      status == Decided(worker[w].got.value)
      refused == status = "cancelled" /\ ~ Cancellable(f) IN
  /\ worker[w].pc = "settle"
  /\ intent' = IF refused \/ intent[f].status \notin Unresolved THEN intent
               ELSE [intent EXCEPT ![f].status = status]
  /\ worker' = [worker EXCEPT ![w] = IF refused THEN Blank ELSE Resumed(@)]
  /\ UNCHANGED <<jobVars, crmVars, flight>>

-----------------------------------------------------------------------------
(* _enrich_record and fill_missing *)

\* The fields are filled in the order of _FIELD_NAMES.
First(rest) == CHOOSE k \in rest : \A m \in rest : k <= m
Field(w) == Order[First(worker[w].rest)]

\* The next field to fill, or the end.
Advanced(me) ==
  [me EXCEPT !.rest = @ \ {First(me.rest)}, !.try = 0, !.got = Unread, !.op = NoUpdate,
             !.pc = IF me.rest = {First(me.rest)} THEN "complete" ELSE "prepare"]

Failing(me) == [me EXCEPT !.pc = "failing", !.todo = {}, !.op = NoUpdate]

\* get_account or get_person: the empty fields and the version they were empty in.
Load(w) ==
  LET missing == {k \in 1..Len(Order) : record.value[Order[k]] = "empty"} IN
  /\ worker[w].pc = "load"
  /\ worker' = [worker EXCEPT ![w] =
       IF ~ record.exists THEN Failing(@)
       ELSE [@ EXCEPT !.rest = missing, !.base = record.version,
                      !.pc = IF missing = {} THEN "complete" ELSE "prepare"]]
  /\ UNCHANGED <<jobVars, intent, crmVars, flight>>

\* prepare_write creates the intent or finds the one of an earlier execution,
\* which must have been prepared for the same version.
Prepare(w) ==
  LET i == intent[Field(w)] IN
  /\ worker[w].pc = "prepare" /\ Owner(w)
  /\ \/ /\ i.status = "none"
        /\ intent' = [intent EXCEPT ![Field(w)] =
                        [status |-> "prepared", version |-> worker[w].base, attempts |-> 0]]
        /\ Goto(w, "read")
     \/ /\ i.status # "none" /\ i.version # worker[w].base
        /\ Goto(w, "differs") /\ UNCHANGED intent
     \/ /\ i.status # "none" /\ i.version = worker[w].base
        /\ worker' = [worker EXCEPT ![w] =
             IF i.status \in Resolved THEN Advanced(@) ELSE [@ EXCEPT !.pc = "read"]]
        /\ UNCHANGED intent
  /\ UNCHANGED <<jobVars, crmVars, flight>>

\* _read, before a mutation and after the last one; fenced on both sides.
Read(w) ==
  /\ worker[w].pc \in {"read", "reread"} /\ Owner(w)
  /\ worker' = [worker EXCEPT ![w] =
       IF worker[w].pc = "read" /\ ~ record.exists THEN Failing(@)
       ELSE [@ EXCEPT !.got = [value |-> IF record.exists THEN record.value[Field(w)] ELSE "gone",
                               version |-> record.version, known |-> edits],
                      !.pc = IF worker[w].pc = "read" THEN "decide" ELSE "resolve"]]
  /\ UNCHANGED <<jobVars, intent, crmVars, flight>>

\* Twenty cannot be read, or its contract has changed: worker_loop goes on,
\* _dispatch fails the job.
ReadFails(w) ==
  /\ worker[w].pc \in {"observe", "load", "prepare", "read", "reread"}
  /\ worker' = [worker EXCEPT ![w] =
       IF Busy(w) THEN Failing(@) ELSE [Blank EXCEPT !.pc = "ready"]]
  /\ UNCHANGED <<jobVars, intent, crmVars, flight>>

\* _require_claim finds that the workflow's deadline has passed; run_once
\* completes the job as it is.
DeadlinePassed(w) ==
  /\ worker[w].pc \in {"prepare", "read", "send", "ack", "reread"} /\ Owner(w)
  /\ Goto(w, "complete")
  /\ UNCHANGED <<jobVars, intent, crmVars, flight>>

\* mark_write, in a transaction of its own; a resolved intent with another
\* outcome raises CrmWriteConflict.
Mark(w, status, next) ==
  LET i == intent[Field(w)] IN
  /\ Owner(w)
  /\ IF i.status \in Resolved /\ i.status # status
     THEN worker' = [worker EXCEPT ![w] = Failing(@)] /\ UNCHANGED intent
     ELSE /\ intent' = [intent EXCEPT ![Field(w)].status = status]
          /\ worker' = [worker EXCEPT ![w] = next]
  /\ UNCHANGED <<jobVars, crmVars, flight>>

\* The field has a value, the proposed one or another.
Conclude(w) ==
  /\ worker[w].pc \in {"decide", "resolve"} /\ worker[w].got.value \in {"proposed", "other"}
  /\ Mark(w, Decided(worker[w].got.value), Advanced(worker[w]))

\* Still empty, or gone, after the last mutation: the intent stays as it is.
GiveUp(w) ==
  /\ worker[w].pc = "resolve" /\ worker[w].got.value \in {"empty", "gone"}
  /\ worker' = [worker EXCEPT ![w] = Advanced(@)]
  /\ UNCHANGED <<jobVars, intent, crmVars, flight>>

\* record_mutation_attempt: counted and committed before the update is sent.
Attempt(w) ==
  LET i == intent[Field(w)] IN
  /\ worker[w].pc = "decide" /\ worker[w].got.value = "empty" /\ Owner(w)
  /\ IF i.status \in Resolved
     THEN worker' = [worker EXCEPT ![w] = Failing(@)] /\ UNCHANGED intent
     ELSE /\ intent' = [intent EXCEPT ![Field(w)].status = "prepared", ![Field(w)].attempts = @ + 1]
          /\ worker' = [worker EXCEPT ![w] = [@ EXCEPT !.pc = "send",
               !.op = [field |-> Field(w), version |-> worker[w].got.version,
                       nr |-> i.attempts + 1, known |-> worker[w].got.known]]]
  /\ UNCHANGED <<jobVars, crmVars, flight>>

\* The update leaves; nothing fences it.
Send(w) ==
  /\ worker[w].pc = "send"
  /\ flight' = flight \cup {worker[w].op}
  /\ Goto(w, "wait")
  /\ UNCHANGED <<jobVars, intent, crmVars>>

\* After TwentyConflict or TwentyUnavailable: read again, a last time when no
\* retries are left.
Retrying(me) ==
  IF me.try < MaxRetries THEN [me EXCEPT !.pc = "read", !.try = @ + 1, !.op = NoUpdate]
  ELSE [me EXCEPT !.pc = "reread", !.op = NoUpdate]

\* One updated record is a success, none is TwentyConflict.
Answered(me, admitted) == IF admitted THEN [me EXCEPT !.pc = "ack"] ELSE Retrying(me)

Answer(w) ==
  /\ worker[w].pc = "wait" /\ worker[w].op \in flight
  /\ flight' = flight \ {worker[w].op}
  /\ Apply(worker[w].op)
  /\ worker' = [worker EXCEPT ![w] = Answered(@, Admits(worker[w].op))]
  /\ UNCHANGED <<jobVars, intent, edits>>

\* Any other TwentyError; it may concern the answer alone.
Refuse(w) ==
  /\ worker[w].pc = "wait" /\ worker[w].op \in flight
  /\ flight' = flight \ {worker[w].op}
  /\ Apply(worker[w].op) \/ UNCHANGED <<record, held>>
  /\ Goto(w, "rejected")
  /\ UNCHANGED <<jobVars, intent, edits>>

\* TwentyUnavailable: the update may have been applied, may be applied later,
\* or never.
TimeOut(w) ==
  /\ worker[w].pc = "wait"
  /\ worker' = [worker EXCEPT ![w] = Retrying(@)]
  /\ UNCHANGED <<jobVars, intent, crmVars, flight>>

Acknowledge(w) ==
  \/ worker[w].pc = "ack" /\ Mark(w, "confirmed", Advanced(worker[w]))
  \/ worker[w].pc = "rejected" /\ Mark(w, "failed", Failing(worker[w]))

-----------------------------------------------------------------------------

\* The fields of one record, from the first read to the last mark.
Enrich(w) ==
  \/ Load(w) \/ Prepare(w) \/ Read(w) \/ ReadFails(w) \/ DeadlinePassed(w) \/ Conclude(w)
  \/ GiveUp(w) \/ Attempt(w) \/ Send(w) \/ Answer(w) \/ Refuse(w) \/ TimeOut(w) \/ Acknowledge(w)

Run(w) ==
  \/ Survey(w) \/ Settle(w) \/ ClaimNext(w) \/ Enrich(w)
  \/ \E o \in worker[w].todo : Observe(w, o)
  \/ Complete(w) \/ FailJob(w) \/ Stop(w)

Next ==
  \/ \E w \in Workers : Run(w)
  \/ CancelJob \/ RetryJob \/ Lapse
  \/ \E f \in Fields, v \in {"empty", "other"} : Edit(f, v)
  \/ \E still \in BOOLEAN : EditElsewhere(still)
  \/ \E u \in flight : Arrive(u)

Spec == Init /\ [][Next]_vars

-----------------------------------------------------------------------------
(* Properties *)

\* Every variable has its type; a field is attempted at most 1 + MaxRetries
\* times by one execution (fill_missing).
TypeOK ==
  /\ phase \in {"queued", "running", "failed", "finished"}
  /\ claim \in 0..MaxClaims /\ lapsed \in BOOLEAN /\ edits \in 0..MaxEdits
  /\ intent \in [Fields -> Intent]
  /\ record \in Record
  /\ flight \subseteq Updates
  /\ \A w \in Workers :
       /\ worker[w].pc \in Steps /\ worker[w].claim \in 0..claim
       /\ worker[w].rest \subseteq 1..Len(Order) /\ worker[w].op \in Updates
       /\ worker[w].try \in 0..MaxRetries   \* at most 1 + max_retries mutations of a field
  /\ held \subseteq Fields \X Values

\* What the journal says of a field has been true: a confirmed field has held
\* the proposed value and a conflicting one another value, whatever was read,
\* lost, retried or reconciled in between (fill_missing, reconcile_pending).
OutcomesObserved ==
  \A f \in Fields :
    /\ intent[f].status = "confirmed" => <<f, "proposed">> \in held
    /\ intent[f].status = "conflict" => <<f, "other">> \in held

\* People win every race: an update changes a field only when nobody has edited
\* the record since its sender read it, so that neither a value they entered is
\* replaced nor one they removed comes back, however late the update arrives
\* (the version and emptiness predicates of TwentyClient.fill_missing).
PeopleWin ==
  [][record' # record /\ edits' = edits =>
       \E u \in flight : u.known = edits /\ record' = Written(u.field, "proposed")
                         /\ record.value[u.field] = "empty"]_vars

\* The journal keeps what WriteJournal promises: an update that may take effect
\* was counted before and is not cancelled, and outcomes are not revised, however
\* publishers and reconcilers meet (crm_writes.py).
JournalStatus == [f \in Fields |-> intent[f].status]
Issued == {f \in Fields : intent[f].attempts > 0}
Loose ==
  {u.field : u \in flight \cup {worker[w].op : w \in {v \in Workers : worker[v].pc = "send"}}}

Journal ==
  INSTANCE WriteJournal WITH
    Writes <- Fields, status <- JournalStatus, issued <- Issued, loose <- Loose

JournalSpec == Journal!Spec

=============================================================================
