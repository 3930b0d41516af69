------------------------ MODULE CrmPublicationProofs ------------------------
(***************************************************************************)
(* Proofs about CrmPublication, for any number of jobs and workers, every  *)
(* plan and all bounds.                                                    *)
(*                                                                         *)
(* Neither Journaled nor CompleteMeansPublished rests on the fence: a      *)
(* request leaves, and an outcome is committed, after the claim may have   *)
(* been lost.  Both rest on the journal only growing until its job is      *)
(* deleted: attempt counts do not fall, an attempted intent is never       *)
(* cancelled, a confirmed one stays confirmed.  The invariant ties what    *)
(* the workers remember to the journal in that form (Requested, Working),  *)
(* and Grows carries it over every step.                                   *)
(*                                                                         *)
(* That every step is one of WriteJournal, or none in its eyes, needs one  *)
(* fact more (Found): whoever publishes a record has an intent for it,     *)
(* unless the job has been deleted, and then no intent is left.            *)
(***************************************************************************)
EXTENDS CrmPublication, TLAPS

-----------------------------------------------------------------------------
(* The inductive invariant *)

\* An attempted intent is not cancelled, and a confirmed one is referenced.
Sound(j, r) ==
  /\ intent[j][r].attempts > 0 => intent[j][r].status \notin {"none", "cancelled"}
  /\ intent[j][r].status = "confirmed" => r \in refs[j]

\* A create request was counted before it was sent.
Requested(req) ==
  /\ req[3] >= 1
  /\ phase[req[1]] # "deleted" => intent[req[1]][req[2]].attempts >= req[3]

\* What a worker is about to send is counted, what it settles is an operation,
\* and the records it has gone past are confirmed.
Working(w) ==
  /\ worker[w].pc = "send" => worker[w].op \in Requests /\ Requested(worker[w].op)
  /\ worker[w].pc = "settle" => worker[w].op \in Requests
  /\ worker[w].pc = "claimed" => worker[w].job # None
  /\ worker[w].job # None /\ phase[worker[w].job] # "deleted" =>
       \A k \in 1..Len(Plan) :
         k < worker[w].idx \/ worker[w].pc = "complete" =>
           intent[worker[w].job][Plan[k]].status = "confirmed"

\* A job that waits has attempts left.
Open(j) == phase[j] \in {"absent", "queued"} => tries[j] < MaxAttempts

IInv ==
  /\ TypeOK
  /\ \A j \in Jobs : Open(j)
  /\ \A j \in Jobs : \A r \in Records : Sound(j, r)
  /\ \A req \in flight : Requested(req)
  /\ \A w \in Workers : Working(w)
  /\ CompleteMeansPublished

-----------------------------------------------------------------------------
(* The states of a worker *)

\* The plan has a first record.
LEMMA PlanFacts ==
  /\ Len(Plan) \in Nat \ {0}
  /\ \A k \in 1..Len(Plan) : Plan[k] \in Records
  /\ \A r \in Records : \E k \in 1..Len(Plan) : r = Plan[k]
  <1>1. Len(Plan) \in Nat \ {0}
    BY PlanAssumption
  <1> QED BY <1>1 DEF Records

\* A worker without a task.
LEMMA BlankFacts ==
  /\ Blank \in WorkerState /\ Blank.pc = "idle" /\ Blank.job = None
  /\ [Blank EXCEPT !.pc = "down"] \in WorkerState
  /\ [Blank EXCEPT !.pc = "down"].pc = "down" /\ [Blank EXCEPT !.pc = "down"].job = None
  BY PlanFacts DEF Blank, WorkerState, Steps, IntentStatuses, RemoteStates

\* A worker that has claimed a job.
LEMMA ClaimedFacts ==
  ASSUME NEW j \in Jobs, NEW n \in Nat
  PROVE  LET s == [Blank EXCEPT !.pc = "claimed", !.job = j, !.claim = n]
         IN  s \in WorkerState /\ s.pc = "claimed" /\ s.job = j /\ s.idx = 1
  <1> DEFINE s == [Blank EXCEPT !.pc = "claimed", !.job = j, !.claim = n]
  <1>1. Blank \in WorkerState /\ Blank.idx = 1
    BY BlankFacts DEF Blank
  <1>2. "claimed" \in Steps
    BY DEF Steps
  <1> HIDE DEF Blank
  <1>3. s \in WorkerState /\ s.pc = "claimed" /\ s.job = j /\ s.idx = Blank.idx
    BY <1>1, <1>2 DEF WorkerState
  <1> QED BY <1>1, <1>3

\* A worker that goes on from an operation.
LEMMA ResumedFacts ==
  ASSUME NEW me \in WorkerState
  PROVE  /\ Resumed(me) \in WorkerState /\ Resumed(me).pc \in {"observe", "ready", "prepare"}
         /\ Resumed(me).job = me.job /\ Resumed(me).idx = me.idx
  BY DEF Resumed, WorkerState, Steps

\* A worker whose execution fails.
LEMMA FailingFacts ==
  ASSUME NEW me \in WorkerState
  PROVE  /\ Failing(me) \in WorkerState /\ Failing(me).pc = "failing"
         /\ Failing(me).job = me.job /\ Failing(me).idx = me.idx
  BY DEF Failing, WorkerState, Steps

\* A worker that goes on to the next record, or has published the last.
LEMMA AdvancedFacts ==
  ASSUME NEW me \in WorkerState
  PROVE  /\ Advanced(me) \in WorkerState /\ Advanced(me).job = me.job
         /\ \/ Advanced(me).pc = "prepare" /\ Advanced(me).idx = me.idx + 1
            \/ Advanced(me).pc = "complete" /\ Advanced(me).idx = me.idx /\ me.idx = Len(Plan)
  <1>1. me.idx \in 1..Len(Plan) /\ Len(Plan) \in Nat
    BY PlanFacts DEF WorkerState
  <1> DEFINE s(n, p) == [me EXCEPT !.idx = n, !.op = <<>>, !.seen = "none", !.got = "missing",
                                   !.try = 0, !.err = "none", !.pc = p]
  <1>2. ASSUME NEW n \in 1..Len(Plan), NEW p \in {"prepare", "complete"}
        PROVE  s(n, p) \in WorkerState /\ s(n, p).job = me.job /\ s(n, p).pc = p /\ s(n, p).idx = n
    BY DEF WorkerState, Steps, IntentStatuses, RemoteStates
  <1>3. CASE me.idx < Len(Plan)
    <2>1. me.idx + 1 \in 1..Len(Plan)
      BY <1>1, <1>3
    <2>2. Advanced(me) = s(me.idx + 1, "prepare")
      BY <1>3 DEF Advanced
    <2> HIDE DEF s
    <2> QED BY <1>2, <2>1, <2>2
  <1>4. CASE ~ (me.idx < Len(Plan))
    <2>1. me.idx = Len(Plan)
      BY <1>1, <1>4
    <2>2. Advanced(me) = s(me.idx, "complete")
      BY <1>4 DEF Advanced
    <2> HIDE DEF s
    <2> QED BY <1>1, <1>2, <2>1, <2>2
  <1> QED BY <1>3, <1>4

\* A worker at another step.
LEMMA PcFacts ==
  ASSUME NEW me \in WorkerState, NEW p \in Steps
  PROVE  LET s == [me EXCEPT !.pc = p]
         IN  s \in WorkerState /\ s.pc = p /\ s.job = me.job /\ s.idx = me.idx /\ s.op = me.op
  BY DEF WorkerState

\* No job exists in the beginning.
LEMMA InvInit == Init => IInv
  <1> SUFFICES ASSUME Init PROVE IInv
    OBVIOUS
  <1>1. TypeOK
    BY BlankFacts, BoundsAssumption
       DEF Init, TypeOK, Life!Init, Life!Phases, Intent, IntentStatuses, RemoteStates
  <1>2. ASSUME NEW w \in Workers PROVE Working(w)
    BY BlankFacts DEF Init, Working
  <1>3. CompleteMeansPublished
    BY DEF Init, Life!Init, CompleteMeansPublished
  <1>4. ASSUME NEW j \in Jobs PROVE Open(j) /\ \A r \in Records : Sound(j, r)
    BY BoundsAssumption DEF Init, Life!Init, Open, Sound
  <1> QED BY <1>1, <1>2, <1>3, <1>4 DEF IInv, Init

-----------------------------------------------------------------------------
(* Steps *)

\* What no step takes from an intent.
Kept(j, r) ==
  /\ intent'[j][r].attempts >= intent[j][r].attempts
  /\ intent[j][r].status = "confirmed" => intent'[j][r].status = "confirmed"

\* While the journal only grows, what was requested stays counted, and what a
\* worker has gone past stays confirmed.
LEMMA Grows ==
  ASSUME IInv, TypeOK',
         \A j \in Jobs : phase[j] = "deleted" => phase'[j] = "deleted",
         \A j \in Jobs : Open(j)',
         \A j \in Jobs : \A r \in Records : Sound(j, r)',
         \A j \in Jobs : \A r \in Records : phase'[j] = "deleted" \/ Kept(j, r),
         \A req \in flight' : req \in flight \/ Requested(req)',
         \A w \in Workers : worker'[w] = worker[w] \/ Working(w)',
         \A j \in Jobs : phase'[j] = "succeeded" /\ outcome'[j] = "complete" =>
           \/ phase[j] = "succeeded" /\ outcome[j] = "complete"
           \/ \A r \in Records : intent'[j][r].status = "confirmed"
  PROVE  IInv'
  <1>1. ASSUME NEW req \in Requests, Requested(req) PROVE Requested(req)'
    <2>1. req[1] \in Jobs /\ req[2] \in Records /\ req[3] \in Nat
      BY <1>1 DEF Requests
    <2>2. phase'[req[1]] # "deleted" => Kept(req[1], req[2])
      BY <2>1
    <2>3. intent[req[1]][req[2]].attempts \in Nat /\ intent'[req[1]][req[2]].attempts \in Nat
      BY <2>1 DEF IInv, TypeOK, Intent
    <2> QED BY <1>1, <2>1, <2>2, <2>3 DEF Requested, Kept
  <1>2. ASSUME NEW req \in flight' PROVE Requested(req)'
    BY <1>1, <1>2 DEF IInv, TypeOK
  <1>3. ASSUME NEW w \in Workers PROVE Working(w)'
    <2>1. CASE worker'[w] = worker[w]
      <3>1. worker[w].pc = "send" =>
              worker[w].op \in Requests /\ \E req \in Requests : req = worker[w].op /\ Requested(req)'
        BY <1>1 DEF IInv, Working
      <3>2. ASSUME worker[w].job # None, phase'[worker[w].job] # "deleted",
                   NEW k \in 1..Len(Plan), k < worker[w].idx \/ worker[w].pc = "complete"
            PROVE  intent'[worker[w].job][Plan[k]].status = "confirmed"
        <4>1. worker[w].job \in Jobs
          BY <3>2 DEF IInv, TypeOK, WorkerState
        <4>2. phase[worker[w].job] # "deleted" /\ Plan[k] \in Records
          BY <3>2, <4>1, PlanFacts
        <4>3. intent[worker[w].job][Plan[k]].status = "confirmed"
          BY <3>2, <4>2 DEF IInv, Working
        <4>4. Kept(worker[w].job, Plan[k])
          BY <3>2, <4>1, <4>2
        <4> QED BY <4>3, <4>4 DEF Kept
      <3>3. /\ worker[w].pc = "settle" => worker[w].op \in Requests
            /\ worker[w].pc = "claimed" => worker[w].job # None
        BY DEF IInv, Working
      <3> QED BY <2>1, <3>1, <3>2, <3>3 DEF Working
    <2> QED BY <2>1
  <1>4. CompleteMeansPublished'
    <2>1. ASSUME NEW j \in Jobs, phase'[j] = "succeeded", outcome'[j] = "complete", NEW r \in Records
          PROVE  intent'[j][r].status = "confirmed" /\ r \in refs'[j]
      <3>1. CASE phase[j] = "succeeded" /\ outcome[j] = "complete"
        <4>1. intent[j][r].status = "confirmed"
          BY <3>1 DEF IInv, CompleteMeansPublished
        <4>2. Kept(j, r) /\ Sound(j, r)'
          BY <2>1
        <4> QED BY <4>1, <4>2 DEF Kept, Sound
      <3>2. CASE \A x \in Records : intent'[j][x].status = "confirmed"
        BY <3>2 DEF Sound
      <3> QED BY <2>1, <3>1, <3>2
    <2> QED BY <2>1 DEF CompleteMeansPublished
  <1> QED BY <1>2, <1>3, <1>4 DEF IInv

\* Steps that leave the journal alone, whatever the jobs do.
LEMMA JournalStays ==
  ASSUME IInv, TypeOK', UNCHANGED <<refs, intent>>,
         \A j \in Jobs : phase[j] = "deleted" => phase'[j] = "deleted",
         \A j \in Jobs : Open(j)',
         \A req \in flight' : req \in flight \/ Requested(req)',
         \A w \in Workers : worker'[w] = worker[w] \/ Working(w)',
         \A j \in Jobs : phase'[j] = "succeeded" /\ outcome'[j] = "complete" =>
           \/ phase[j] = "succeeded" /\ outcome[j] = "complete"
           \/ \A r \in Records : intent[j][r].status = "confirmed"
  PROVE  IInv'
  <1>1. ASSUME NEW j \in Jobs, NEW r \in Records PROVE Sound(j, r)' /\ Kept(j, r)
    <2>1. intent[j][r].attempts \in Nat
      BY DEF IInv, TypeOK, Intent
    <2>2. Sound(j, r)
      BY DEF IInv
    <2> QED BY <2>1, <2>2 DEF Sound, Kept
  <1> QED BY <1>1, Grows

\* A step of one worker that leaves the journal alone.
LEMMA WorkerMoves ==
  ASSUME IInv, UNCHANGED <<jobVars, refs, intent, edits>>, remote' \in [Records -> RemoteStates],
         NEW w \in Workers, NEW s \in WorkerState, worker' = [worker EXCEPT ![w] = s],
         flight' \subseteq flight \cup {req \in Requests : Requested(req)},
         s.pc \notin {"send", "complete", "claimed"}, s.pc = "settle" => s.op \in Requests,
         s.job = None \/ (s.job = worker[w].job /\ s.idx = worker[w].idx)
  PROVE  IInv'
  <1>1. TypeOK'
    BY DEF IInv, TypeOK, jobVars
  <1>2. ASSUME NEW req \in Requests, Requested(req) PROVE Requested(req)'
    BY <1>2 DEF Requested, jobVars
  <1>3. ASSUME NEW v \in Workers PROVE worker'[v] = worker[v] \/ Working(v)'
    <2>1. CASE v = w
      <3>1. worker'[v] = s /\ Working(w)
        BY <2>1 DEF IInv, TypeOK
      <3> QED BY <2>1, <3>1 DEF Working, jobVars
    <2>2. CASE v # w
      BY <2>2 DEF IInv, TypeOK
    <2> QED BY <2>1, <2>2
  <1>4. ASSUME NEW j \in Jobs PROVE Open(j)'
    BY DEF IInv, Open, jobVars
  <1> QED BY <1>1, <1>2, <1>3, <1>4, JournalStays DEF jobVars

\* One intent becomes i, as the journal allows it.
Writes(j, r, i) ==
  /\ i \in Intent /\ intent' = [intent EXCEPT ![j][r] = i]
  /\ refs' \in [Jobs -> SUBSET Records] /\ \A k \in Jobs : refs[k] \subseteq refs'[k]
  /\ i.attempts >= intent[j][r].attempts
  /\ intent[j][r].status = "confirmed" => i.status = "confirmed"
  /\ i.attempts > 0 => i.status \notin {"none", "cancelled"}
  /\ i.status = "confirmed" => r \in refs'[j]

\* A worker becomes s: it goes on within the record it works on, or past it when
\* that is confirmed.
GoesOn(w, s, j, r, i) ==
  /\ s \in WorkerState /\ worker' = [worker EXCEPT ![w] = s]
  /\ s.pc \notin {"settle", "claimed"}
  /\ s.pc = "send" => /\ s.op \in Requests /\ s.op[1] = j /\ s.op[2] = r
                      /\ s.op[3] >= 1 /\ i.attempts >= s.op[3]
  /\ \/ s.pc # "complete" /\ s.job = worker[w].job /\ s.idx = worker[w].idx
     \/ s.pc # "complete" /\ s.job = None
     \/ /\ s.job = worker[w].job /\ worker[w].job = j /\ r = Plan[worker[w].idx]
        /\ i.status = "confirmed"
        /\ \/ s.pc # "complete" /\ s.idx = worker[w].idx + 1
           \/ s.pc = "complete" /\ s.idx = worker[w].idx /\ s.idx = Len(Plan)

\* A step of one worker that writes one intent.
LEMMA IntentMoves ==
  ASSUME IInv, UNCHANGED <<jobVars, remote, flight, edits>>,
         NEW w \in Workers, NEW s, NEW j \in Jobs, NEW r \in Records, NEW i,
         Writes(j, r, i), GoesOn(w, s, j, r, i)
  PROVE  IInv'
  <1> USE DEF Writes, GoesOn
  <1>1. intent \in [Jobs -> [Records -> Intent]] /\ refs \in [Jobs -> SUBSET Records]
    BY DEF IInv, TypeOK
  <1>2. /\ intent' \in [Jobs -> [Records -> Intent]] /\ intent'[j][r] = i
        /\ \A k \in Jobs, x \in Records : k # j \/ x # r => intent'[k][x] = intent[k][x]
    BY <1>1
  <1>3. TypeOK'
    BY <1>2 DEF IInv, TypeOK, jobVars
  <1>4. ASSUME NEW k \in Jobs, NEW x \in Records PROVE Sound(k, x)' /\ Kept(k, x)
    <2>1. CASE k = j /\ x = r
      BY <1>2, <2>1 DEF Sound, Kept
    <2>2. CASE k # j \/ x # r
      <3>1. intent'[k][x] = intent[k][x] /\ Sound(k, x) /\ intent[k][x].attempts \in Nat
        BY <1>1, <1>2, <2>2 DEF IInv, Intent
      <3> QED BY <3>1 DEF Sound, Kept
    <2> QED BY <2>1, <2>2
  <1>5. ASSUME NEW v \in Workers PROVE worker'[v] = worker[v] \/ Working(v)'
    <2>1. CASE v # w
      BY <2>1 DEF IInv, TypeOK
    <2>2. CASE v = w
      <3>1. worker'[v] = s
        BY <2>2 DEF IInv, TypeOK
      <3>2. s.pc = "send" => s.op \in Requests /\ s.op[3] >= 1 /\ intent'[s.op[1]][s.op[2]].attempts >= s.op[3]
        BY <1>2
      <3>3. ASSUME s.job # None, phase'[s.job] # "deleted", NEW k \in 1..Len(Plan),
                   k < s.idx \/ s.pc = "complete"
            PROVE  intent'[s.job][Plan[k]].status = "confirmed"
        <4>1. s.job = worker[w].job /\ s.job \in Jobs /\ Plan[k] \in Records /\ k \in Nat
          BY <3>3, PlanFacts DEF WorkerState
        <4>2. worker[w].idx \in 1..Len(Plan) /\ Len(Plan) \in Nat
          BY PlanFacts DEF IInv, TypeOK, WorkerState
        <4>3. CASE k < worker[w].idx
          <5>1. intent[s.job][Plan[k]].status = "confirmed"
            BY <3>3, <4>1, <4>3 DEF IInv, Working, jobVars
          <5>2. Kept(s.job, Plan[k])
            BY <1>4, <4>1
          <5> QED BY <5>1, <5>2 DEF Kept
        <4>4. CASE ~ (k < worker[w].idx)
          <5>1. k = worker[w].idx /\ s.job = j /\ r = Plan[k] /\ i.status = "confirmed"
            BY <3>3, <4>1, <4>2, <4>4
          <5> QED BY <1>2, <5>1
        <4> QED BY <4>3, <4>4
      <3> QED BY <3>1, <3>2, <3>3 DEF Working, Requested
    <2> QED BY <2>1, <2>2
  <1>6. ASSUME NEW k \in Jobs PROVE Open(k)'
    BY DEF IInv, Open, jobVars
  <1> QED BY <1>3, <1>4, <1>5, <1>6, Grows DEF jobVars

\* A step of the jobs, in which perhaps one worker begins or ends an execution.
LEMMA JobsMove ==
  ASSUME IInv, UNCHANGED <<refs, intent, remote, flight, edits>>,
         phase' \in [Jobs -> Life!Phases], grants' \in [Jobs -> 0..MaxGrants],
         tries' \in [Jobs -> 0..MaxAttempts],
         lapsed' \subseteq {j \in Jobs : phase'[j] = "running"},
         outcome' \in [Jobs -> {"none", "complete", "exhausted"}],
         ends' \in [Jobs -> SUBSET Life!Terminal], cleared' \subseteq Jobs,
         \A j \in Jobs : phase[j] = "deleted" => phase'[j] = "deleted",
         \A j \in Jobs : Open(j)',
         \A j \in Jobs : phase'[j] = "succeeded" /\ outcome'[j] = "complete" =>
           \/ phase[j] = "succeeded" /\ outcome[j] = "complete"
           \/ \A r \in Records : intent[j][r].status = "confirmed",
         NEW s \in WorkerState, s.pc \notin {"send", "settle", "complete"},
         s.job = None \/ s.idx = 1, s.pc = "claimed" => s.job # None,
         worker' = worker \/ \E w \in Workers : worker' = [worker EXCEPT ![w] = s]
  PROVE  IInv'
  <1>1. /\ worker' \in [Workers -> WorkerState]
        /\ \A w \in Workers : worker'[w] = worker[w] \/ worker'[w] = s
    BY DEF IInv, TypeOK
  <1>2. TypeOK'
    BY <1>1 DEF IInv, TypeOK
  <1>3. ASSUME NEW w \in Workers PROVE worker'[w] = worker[w] \/ Working(w)'
    <2>1. CASE worker'[w] = s
      <3>1. \A k \in 1..Len(Plan) : s.job # None => ~ (k < s.idx)
        BY PlanFacts
      <3> QED BY <2>1, <3>1 DEF Working
    <2> QED BY <1>1, <2>1
  <1> QED BY <1>2, <1>3, JournalStays

\* The jobs keep their types, and those that wait have attempts left.
LEMMA JobsTyped ==
  ASSUME IInv
  PROVE  /\ phase \in [Jobs -> Life!Phases] /\ grants \in [Jobs -> 0..MaxGrants]
         /\ tries \in [Jobs -> 0..MaxAttempts] /\ lapsed \subseteq {j \in Jobs : phase[j] = "running"}
         /\ outcome \in [Jobs -> {"none", "complete", "exhausted"}]
         /\ \A j \in Jobs : phase[j] \in {"absent", "queued"} => tries[j] < MaxAttempts
  BY DEF IInv, TypeOK, Open

\* Whatever phase a job enters, its history is one of final states.
LEMMA EndsTyped ==
  ASSUME IInv, NEW new, Life!Enters(new) \/ UNCHANGED ends
  PROVE  ends' \in [Jobs -> SUBSET Life!Terminal]
  BY DEF IInv, TypeOK, Life!Enters

\* Steps of one job that end or begin no execution.
LEMMA JobSteps ==
  ASSUME IInv, NEW j \in Jobs,
         Submit(j) \/ CancelJob(j) \/ RetryFailedJob(j) \/ ClearDelete(j) \/ Lapse(j)
  PROVE  IInv'
  <1>1. UNCHANGED <<refs, intent, remote, flight, worker, edits, grants>>
    BY DEF Submit, CancelJob, RetryFailedJob, ClearDelete, Lapse, Publishing, jobVars,
           Life!Submit, Life!Cancel, Life!Retry
  <1>2. /\ phase' \in [Jobs -> Life!Phases] /\ tries' \in [Jobs -> 0..MaxAttempts]
        /\ lapsed' \subseteq {k \in Jobs : phase'[k] = "running"}
        /\ \A k \in Jobs : phase[k] = "deleted" => phase'[k] = "deleted"
        /\ \A k \in Jobs : phase'[k] = "succeeded" => phase[k] = "succeeded"
        /\ \A k \in Jobs : phase'[k] \in {"absent", "queued"} => tries'[k] < MaxAttempts
    <2>1. CASE Submit(j)
      BY <2>1, JobsTyped DEF Submit, Life!Submit, Life!Enters, Life!Phases
    <2>2. CASE CancelJob(j)
      BY <2>2, JobsTyped DEF CancelJob, Life!Cancel, Life!Enters, Life!Phases
    <2>3. CASE RetryFailedJob(j)
      BY <2>3, JobsTyped, BoundsAssumption DEF RetryFailedJob, Life!Retry, Life!Enters, Life!Phases
    <2>4. CASE Lapse(j) \/ ClearDelete(j)
      BY <2>4, JobsTyped DEF Lapse, ClearDelete
    <2> QED BY <2>1, <2>2, <2>3, <2>4
  <1>3. ASSUME NEW k \in Jobs PROVE Open(k)'
    BY <1>2 DEF Open
  <1>4. /\ grants' \in [Jobs -> 0..MaxGrants]
        /\ outcome' \in [Jobs -> {"none", "complete", "exhausted"}]
        /\ \A k \in Jobs : outcome'[k] = "complete" => outcome[k] = "complete"
    BY <1>1, JobsTyped DEF Submit, CancelJob, RetryFailedJob, ClearDelete, Lapse, Publishing
  <1>5. \E new : Life!Enters(new) \/ UNCHANGED ends
    BY DEF Submit, CancelJob, RetryFailedJob, ClearDelete, Lapse, Life!Submit, Life!Cancel, Life!Retry
  <1>6. ends' \in [Jobs -> SUBSET Life!Terminal] /\ cleared' \subseteq Jobs
    <2>1. cleared' \subseteq Jobs
      BY DEF IInv, TypeOK, Submit, CancelJob, RetryFailedJob, ClearDelete, Lapse
    <2> QED BY <1>5, <2>1, EndsTyped
  <1> QED BY <1>1, <1>2, <1>3, <1>4, <1>6, BlankFacts, JobsMove

\* The end of an execution: a job that reports a complete publication has gone
\* past all of its records.
LEMMA ExecutionEnds ==
  ASSUME IInv, NEW w \in Workers, Complete(w) \/ FailJob(w)
  PROVE  IInv'
  <1> DEFINE j == worker[w].job
  <1>1. /\ UNCHANGED <<refs, intent, remote, flight, edits, lapsed, cleared, grants, tries>>
        /\ worker' = [worker EXCEPT ![w] = Blank]
        /\ j \in Jobs /\ phase[j] = "running" /\ j \notin lapsed
    <2>1. worker[w] \in WorkerState
      BY DEF IInv, TypeOK
    <2> QED BY <2>1 DEF Complete, FailJob, Life!Succeed, Life!Fail, Idle, Owner, Busy, Fence, WorkerState
  <1>2. /\ phase' = [phase EXCEPT ![j] = "succeeded"] \/ phase' = [phase EXCEPT ![j] = "failed"]
        /\ outcome' = outcome \/ outcome' = [outcome EXCEPT ![j] = worker[w].pc]
        /\ phase' = [phase EXCEPT ![j] = "succeeded"] =>
             /\ worker[w].pc \in {"complete", "exhausted"}
             /\ outcome' = [outcome EXCEPT ![j] = worker[w].pc]
        /\ outcome' = outcome \/ worker[w].pc \in {"complete", "exhausted"}
    <2>1. CASE Complete(w)
      BY <2>1 DEF Complete, Life!Succeed, Life!Enters
    <2>2. CASE FailJob(w)
      <3>1. phase' = [phase EXCEPT ![j] = "failed"] /\ outcome' = outcome
        BY <2>2 DEF FailJob, Life!Fail, Life!Enters
      <3>2. phase'[j] = "failed"
        BY <1>1, <3>1, JobsTyped
      <3>3. phase' # [phase EXCEPT ![j] = "succeeded"]
        BY <1>1, <3>2, JobsTyped
      <3> QED BY <3>1, <3>3
    <2> QED BY <2>1, <2>2
  <1>3. /\ phase' \in [Jobs -> Life!Phases] /\ outcome' \in [Jobs -> {"none", "complete", "exhausted"}]
        /\ lapsed' \subseteq {k \in Jobs : phase'[k] = "running"}
        /\ \A k \in Jobs : phase[k] = "deleted" => phase'[k] = "deleted"
    BY <1>1, <1>2, JobsTyped DEF Life!Phases
  <1>4. ASSUME NEW k \in Jobs PROVE Open(k)'
    BY <1>1, <1>2, JobsTyped DEF Open
  <1>5. ASSUME NEW k \in Jobs, phase'[k] = "succeeded", outcome'[k] = "complete"
        PROVE  \/ phase[k] = "succeeded" /\ outcome[k] = "complete"
               \/ \A r \in Records : intent[k][r].status = "confirmed"
    <2>1. CASE k = j
      <3>1. phase' = [phase EXCEPT ![j] = "succeeded"]
        BY <1>1, <1>2, <1>5, <2>1, JobsTyped
      <3>2. worker[w].pc = "complete"
        BY <1>1, <1>2, <1>5, <2>1, <3>1, JobsTyped
      <3>3. \A i \in 1..Len(Plan) : intent[j][Plan[i]].status = "confirmed"
        BY <1>1, <3>2, NoneAssumption DEF IInv, Working
      <3> QED BY <2>1, <3>3, PlanFacts
    <2>2. CASE k # j
      BY <1>1, <1>2, <1>5, <2>2, JobsTyped
    <2> QED BY <2>1, <2>2
  <1>6. tries' \in [Jobs -> 0..MaxAttempts] /\ grants' \in [Jobs -> 0..MaxGrants]
    BY <1>1, JobsTyped
  <1>7. \E new : Life!Enters(new)
    BY DEF Complete, FailJob, Life!Succeed, Life!Fail
  <1>8. ends' \in [Jobs -> SUBSET Life!Terminal] /\ cleared' \subseteq Jobs
    BY <1>1, <1>7, EndsTyped DEF IInv, TypeOK
  <1> HIDE DEF j
  <1> QED BY <1>1, <1>3, <1>4, <1>5, <1>6, <1>8, BlankFacts, JobsMove

\* Revoked claims go back to the queue only with attempts left, and a job is
\* granted from the queue.
LEMMA Claiming ==
  ASSUME IInv, NEW w \in Workers, NEW lost \in SUBSET lapsed, ClaimNext(w, lost)
  PROVE  IInv'
  <1> DEFINE After == Life!AfterRevoking(lost)
  <1>1. /\ After \in [Jobs -> Life!Phases]
        /\ \A k \in Jobs : k \notin lost => After[k] = phase[k]
        /\ \A k \in lost : After[k] \in {"queued", "failed"}
        /\ \A k \in Jobs : After[k] \in {"absent", "queued"} => tries[k] < MaxAttempts
    <2>1. ASSUME NEW k \in Jobs
          PROVE  /\ After[k] \in Life!Phases
                 /\ k \notin lost => After[k] = phase[k]
                 /\ k \in lost => After[k] \in {"queued", "failed"}
                 /\ After[k] \in {"absent", "queued"} => tries[k] < MaxAttempts
      <3>1. tries[k] \in Nat /\ MaxAttempts \in Nat /\ phase[k] \in Life!Phases
        BY JobsTyped, BoundsAssumption
      <3>2. After[k] = IF k \notin lost THEN phase[k]
                       ELSE IF tries[k] >= MaxAttempts THEN "failed" ELSE "queued"
        BY DEF Life!AfterRevoking
      <3> HIDE DEF After
      <3> QED BY <3>1, <3>2, JobsTyped DEF Life!Phases
    <2>2. After \in [Jobs -> Life!Phases]
      BY <2>1 DEF Life!AfterRevoking
    <2>3. lost \subseteq Jobs
      BY JobsTyped
    <2> HIDE DEF After
    <2> QED BY <2>1, <2>2, <2>3
  <1>2. \A k \in lapsed : phase[k] = "running" /\ k \in Jobs
    BY JobsTyped
  <1>3. CASE Life!Revoke(lost) /\ Idle(w) /\ lapsed' = lapsed \ lost
    <2>1. /\ phase' = After /\ Life!Enters(After)
          /\ UNCHANGED <<grants, tries, cleared, outcome, refs, intent, remote, flight, edits>>
          /\ worker' = [worker EXCEPT ![w] = Blank] /\ lapsed' = lapsed \ lost
      BY <1>3 DEF Life!Revoke, Life!Enters, ClaimNext, Idle
    <2> HIDE DEF After
    <2>2. /\ phase' \in [Jobs -> Life!Phases]
          /\ lapsed' \subseteq {k \in Jobs : phase'[k] = "running"}
          /\ \A k \in Jobs : phase[k] = "deleted" => phase'[k] = "deleted"
          /\ \A k \in Jobs : phase'[k] = "succeeded" => phase[k] = "succeeded"
      BY <1>1, <1>2, <2>1
    <2>3. ASSUME NEW k \in Jobs PROVE Open(k)'
      BY <1>1, <2>1 DEF Open
    <2>4. /\ grants' \in [Jobs -> 0..MaxGrants] /\ tries' \in [Jobs -> 0..MaxAttempts]
          /\ outcome' \in [Jobs -> {"none", "complete", "exhausted"}]
          /\ ends' \in [Jobs -> SUBSET Life!Terminal] /\ cleared' \subseteq Jobs
      BY <2>1, JobsTyped, EndsTyped DEF IInv, TypeOK
    <2> QED BY <2>1, <2>2, <2>3, <2>4, BlankFacts, JobsMove
  <1>4. ASSUME NEW j \in Jobs, grants[j] < MaxGrants, Life!Grant(lost, j),
               lapsed' = lapsed \ (lost \cup {j}),
               worker' = [worker EXCEPT ![w] =
                 [Blank EXCEPT !.pc = "claimed", !.job = j, !.claim = grants[j] + 1]]
        PROVE  IInv'
    <2> DEFINE s == [Blank EXCEPT !.pc = "claimed", !.job = j, !.claim = grants[j] + 1]
    <2>1. /\ phase' = [After EXCEPT ![j] = "running"] /\ After[j] = "queued"
          /\ grants' = [grants EXCEPT ![j] = @ + 1] /\ tries' = [tries EXCEPT ![j] = @ + 1]
          /\ Life!Enters([After EXCEPT ![j] = "running"])
          /\ UNCHANGED <<cleared, outcome, refs, intent, remote, flight, edits>>
      BY <1>4 DEF Life!Grant, Life!Enters, ClaimNext
    <2>2. /\ grants' \in [Jobs -> 0..MaxGrants] /\ tries' \in [Jobs -> 0..MaxAttempts]
          /\ outcome' \in [Jobs -> {"none", "complete", "exhausted"}] /\ grants[j] + 1 \in Nat
      <3>1. grants[j] \in Nat /\ tries[j] \in Nat /\ tries[j] < MaxAttempts
        BY <1>1, <2>1, JobsTyped
      <3>2. grants[j] + 1 \in 0..MaxGrants /\ tries[j] + 1 \in 0..MaxAttempts
        BY <1>4, <3>1, BoundsAssumption
      <3> QED BY <2>1, <3>1, <3>2, JobsTyped
    <2>3. s \in WorkerState /\ s.pc = "claimed" /\ s.idx = 1 /\ s.job # None
      BY <2>2, ClaimedFacts, NoneAssumption
    <2>4. worker' = [worker EXCEPT ![w] = s]
      BY <1>4
    <2> HIDE DEF s, After
    <2>5. /\ phase' \in [Jobs -> Life!Phases]
          /\ lapsed' \subseteq {k \in Jobs : phase'[k] = "running"}
          /\ \A k \in Jobs : phase[k] = "deleted" => phase'[k] = "deleted"
          /\ \A k \in Jobs : phase'[k] = "succeeded" => phase[k] = "succeeded"
      <3>1. "running" \in Life!Phases
        BY DEF Life!Phases
      <3>2. phase[j] # "deleted"
        BY <1>1, <1>2, <2>1
      <3> QED BY <1>1, <1>2, <1>4, <2>1, <3>1, <3>2
    <2>6. ASSUME NEW k \in Jobs PROVE Open(k)'
      BY <1>1, <2>1, JobsTyped DEF Open
    <2>7. ends' \in [Jobs -> SUBSET Life!Terminal] /\ cleared' \subseteq Jobs
      BY <2>1, EndsTyped DEF IInv, TypeOK
    <2> QED BY <2>1, <2>2, <2>3, <2>4, <2>5, <2>6, <2>7, JobsMove
  <1> QED BY <1>3, <1>4 DEF ClaimNext

\* Deleting a job takes its journal and its references away together.
LEMMA Deleting ==
  ASSUME IInv, NEW j \in Jobs, DeleteJob(j)
  PROVE  IInv'
  <1> DEFINE none == [status |-> "none", attempts |-> 0]
  <1>1. none \in Intent /\ none.status = "none" /\ none.attempts = 0
    BY DEF Intent, IntentStatuses
  <1>2. /\ intent' = [intent EXCEPT ![j] = [r \in Records |-> none]]
        /\ refs' = [refs EXCEPT ![j] = {}] /\ phase' = [phase EXCEPT ![j] = "deleted"]
        /\ lapsed' = lapsed \ {j}
        /\ Life!Enters([phase EXCEPT ![j] = "deleted"])
        /\ UNCHANGED <<grants, tries, cleared, outcome, remote, flight, worker, edits>>
    BY DEF DeleteJob, Life!Remove, Life!Enters
  <1> HIDE DEF none
  <1>3. TypeOK'
    <2>1. intent' \in [Jobs -> [Records -> Intent]] /\ refs' \in [Jobs -> SUBSET Records]
      BY <1>1, <1>2 DEF IInv, TypeOK
    <2>2. phase' \in [Jobs -> Life!Phases] /\ lapsed' \subseteq {k \in Jobs : phase'[k] = "running"}
      BY <1>2, JobsTyped DEF Life!Phases
    <2>3. ends' \in [Jobs -> SUBSET Life!Terminal]
      BY <1>2, EndsTyped
    <2> QED BY <1>2, <2>1, <2>2, <2>3 DEF IInv, TypeOK
  <1>4. ASSUME NEW k \in Jobs PROVE (phase[k] = "deleted" => phase'[k] = "deleted") /\ Open(k)'
    BY <1>2, JobsTyped DEF Open
  <1>5. ASSUME NEW k \in Jobs, NEW r \in Records
        PROVE  Sound(k, r)' /\ (phase'[k] = "deleted" \/ Kept(k, r))
    <2>1. CASE k = j
      <3>1. intent'[k][r] = none /\ phase'[k] = "deleted"
        BY <1>2, <2>1 DEF IInv, TypeOK
      <3> QED BY <1>1, <3>1 DEF Sound
    <2>2. CASE k # j
      <3>1. intent'[k][r] = intent[k][r] /\ refs'[k] = refs[k] /\ intent[k][r].attempts \in Nat
        BY <1>2, <2>2 DEF IInv, TypeOK, Intent
      <3>2. Sound(k, r)
        BY DEF IInv
      <3> QED BY <3>1, <3>2 DEF Sound, Kept
    <2> QED BY <2>1, <2>2
  <1>6. ASSUME NEW k \in Jobs, phase'[k] = "succeeded" PROVE phase[k] = "succeeded"
    BY <1>2, <1>6, JobsTyped
  <1> QED BY <1>2, <1>3, <1>4, <1>5, <1>6, Grows

\* What happens in Twenty and on the way there.
LEMMA Outside ==
  ASSUME IInv, UNCHANGED <<jobVars, refs, intent, worker>>,
         remote' \in [Records -> RemoteStates], flight' \subseteq flight, edits' \in 0..MaxEdits
  PROVE  IInv'
  <1>1. TypeOK'
    BY DEF IInv, TypeOK, jobVars
  <1>2. ASSUME NEW j \in Jobs PROVE Open(j)'
    BY DEF IInv, Open, jobVars
  <1> QED BY <1>1, <1>2, JournalStays DEF jobVars

\* A person edits a record, or a late request arrives or vanishes.
LEMMA OutsideSteps ==
  ASSUME IInv,
         \/ \E r \in Records, state \in {"missing", "foreign"} : EditRecord(r, state)
         \/ \E req \in flight : Arrive(req) \/ Vanish(req)
  PROVE  IInv'
  <1>1. /\ remote \in [Records -> RemoteStates] /\ edits \in 0..MaxEdits /\ flight \subseteq Requests
    BY DEF IInv, TypeOK
  <1>2. ASSUME NEW r \in Records, NEW state \in {"missing", "foreign"}, EditRecord(r, state)
        PROVE  IInv'
    <2>1. remote' \in [Records -> RemoteStates] /\ edits' \in 0..MaxEdits
      BY <1>1, <1>2, BoundsAssumption DEF EditRecord, RemoteStates
    <2> QED BY <1>2, <2>1, Outside DEF EditRecord
  <1>3. ASSUME NEW req \in flight, Arrive(req) \/ Vanish(req) PROVE IInv'
    <2>1. remote' \in [Records -> RemoteStates] /\ edits' \in 0..MaxEdits /\ flight' \subseteq flight
      <3>1. req[2] \in Records
        BY <1>1 DEF Requests
      <3> QED BY <1>1, <1>3, <3>1 DEF Arrive, Vanish, RemoteStates
    <2> QED BY <1>3, <2>1, Outside DEF Arrive, Vanish
  <1> QED BY <1>2, <1>3

\* A snapshot of unresolved operations names operations.
LEMMA PendingType ==
  ASSUME IInv, NEW js \in SUBSET Jobs
  PROVE  Pending(js) \subseteq Requests
  <1>1. ASSUME NEW x \in Jobs \X Records
        PROVE  <<x[1], x[2], intent[x[1]][x[2]].attempts>> \in Requests
    <2>1. x[1] \in Jobs /\ x[2] \in Records
      OBVIOUS
    <2>2. intent[x[1]][x[2]] \in Intent
      BY <2>1 DEF IInv, TypeOK
    <2> QED BY <2>1, <2>2 DEF Requests, Intent
  <1> QED BY <1>1 DEF Pending

\* Reconciliation before it concludes anything.
LEMMA SurveySteps ==
  ASSUME IInv, NEW w \in Workers,
         Survey(w) \/ SurveyOwn(w) \/ ObserveFails(w) \/ \E o \in worker[w].todo : Observe(w, o)
  PROVE  IInv'
  <1>1. worker[w] \in WorkerState /\ remote \in [Records -> RemoteStates]
    BY DEF IInv, TypeOK
  <1>2. ASSUME NEW js \in SUBSET Jobs, UNCHANGED <<jobVars, refs, intent, remote, flight, edits>>,
               worker' = [worker EXCEPT ![w] = Resumed([@ EXCEPT !.todo = Pending(js)])]
        PROVE  IInv'
    <2> DEFINE me == [worker[w] EXCEPT !.todo = Pending(js)]
    <2>1. me \in WorkerState /\ me.job = worker[w].job /\ me.idx = worker[w].idx
      BY <1>1, PendingType DEF WorkerState
    <2>2. worker' = [worker EXCEPT ![w] = Resumed(me)]
      BY <1>2
    <2> HIDE DEF me
    <2> QED BY <1>1, <1>2, <2>1, <2>2, ResumedFacts, WorkerMoves
  <1>3. CASE Survey(w)
    <2>1. Stranded \in SUBSET Jobs
      BY DEF Stranded
    <2> QED BY <1>2, <1>3, <2>1 DEF Survey
  <1>4. CASE SurveyOwn(w)
    <2>1. worker[w].job \in Jobs
      BY <1>1, <1>4 DEF SurveyOwn, IInv, Working, WorkerState
    <2> QED BY <1>2, <1>4, <2>1 DEF SurveyOwn
  <1>5. CASE ObserveFails(w)
    <2> DEFINE s(p) == [worker[w] EXCEPT !.todo = {}, !.pc = p]
    <2>1. ASSUME NEW p \in {"ready", "failing"}
          PROVE  /\ s(p) \in WorkerState /\ s(p).pc = p
                 /\ s(p).job = worker[w].job /\ s(p).idx = worker[w].idx
      BY <1>1 DEF WorkerState, Steps
    <2>2. /\ \E p \in {"ready", "failing"} : worker' = [worker EXCEPT ![w] = s(p)]
          /\ UNCHANGED <<jobVars, refs, intent, remote, flight, edits>>
      BY <1>5 DEF ObserveFails
    <2> HIDE DEF s
    <2> QED BY <1>1, <2>1, <2>2, WorkerMoves
  <1>6. ASSUME NEW o \in worker[w].todo, Observe(w, o) PROVE IInv'
    <2> DEFINE me == [worker[w] EXCEPT !.todo = @ \ {o}]
               s == [me EXCEPT !.pc = "settle", !.op = o, !.got = remote[o[2]]]
    <2>1. me \in WorkerState /\ me.job = worker[w].job /\ me.idx = worker[w].idx
      BY <1>1 DEF WorkerState
    <2>2. /\ UNCHANGED <<jobVars, refs, intent, remote, flight, edits>>
          /\ worker' = [worker EXCEPT ![w] = Resumed(me)] \/ worker' = [worker EXCEPT ![w] = s]
      BY <1>6 DEF Observe
    <2>3. CASE worker' = [worker EXCEPT ![w] = Resumed(me)]
      <3> HIDE DEF me
      <3> QED BY <1>1, <2>1, <2>2, <2>3, ResumedFacts, WorkerMoves
    <2>4. CASE worker' = [worker EXCEPT ![w] = s]
      <3>1. o \in Requests /\ remote[o[2]] \in RemoteStates
        BY <1>1 DEF WorkerState, Requests
      <3> HIDE DEF me
      <3>2. s \in WorkerState /\ s.pc = "settle" /\ s.op = o /\ s.job = me.job /\ s.idx = me.idx
        BY <2>1, <3>1 DEF WorkerState, Steps
      <3> HIDE DEF s
      <3> QED BY <1>1, <2>1, <2>2, <2>4, <3>1, <3>2, WorkerMoves
    <2> QED BY <2>2, <2>3, <2>4
  <1> QED BY <1>3, <1>4, <1>5, <1>6

\* An execution that is given up, and a process that goes down or comes back.
LEMMA Interruptions ==
  ASSUME IInv, NEW w \in Workers, ClaimLost(w) \/ Crash(w) \/ Restart(w)
  PROVE  IInv'
  <1>1. remote \in [Records -> RemoteStates]
    BY DEF IInv, TypeOK
  <1> DEFINE down == [Blank EXCEPT !.pc = "down"]
  <1>2. /\ UNCHANGED <<jobVars, refs, intent, remote, flight, edits>>
        /\ worker' = [worker EXCEPT ![w] = Blank] \/ worker' = [worker EXCEPT ![w] = down]
    BY DEF ClaimLost, Crash, Restart, Idle
  <1>3. down \in WorkerState /\ down.pc = "down" /\ down.job = None
    BY BlankFacts
  <1> HIDE DEF down
  <1> QED BY <1>1, <1>2, <1>3, BlankFacts, WorkerMoves

\* Steps of _publish that read or fail.
LEMMA ReadSteps ==
  ASSUME IInv, NEW w \in Workers,
         Read(w) \/ ReadFails(w) \/ DeadlinePassed(w) \/ NotRecreated(w) \/ Backoff(w)
  PROVE  IInv'
  <1>1. worker[w] \in WorkerState /\ remote \in [Records -> RemoteStates] /\ Rec(w) \in Records
    BY PlanFacts DEF IInv, TypeOK, WorkerState, Rec
  <1>2. UNCHANGED <<jobVars, refs, intent, remote, flight, edits>>
    BY DEF Read, ReadFails, DeadlinePassed, NotRecreated, Backoff
  <1>3. CASE worker' = [worker EXCEPT ![w] = Failing(worker[w])]
    BY <1>1, <1>2, <1>3, FailingFacts, WorkerMoves
  <1>4. CASE DeadlinePassed(w)
    <2> DEFINE s == [worker[w] EXCEPT !.pc = "exhausted"]
    <2>1. worker' = [worker EXCEPT ![w] = s]
      BY <1>4 DEF DeadlinePassed, Goto
    <2>2. s \in WorkerState /\ s.pc = "exhausted" /\ s.job = worker[w].job /\ s.idx = worker[w].idx
      BY <1>1, PcFacts DEF Steps
    <2> HIDE DEF s
    <2> QED BY <1>1, <1>2, <2>1, <2>2, WorkerMoves
  <1>5. CASE Read(w)
    <2> DEFINE s(p) == [worker[w] EXCEPT !.got = remote[Rec(w)], !.pc = p]
    <2>1. ASSUME NEW p \in {"decide", "resolve"}
          PROVE  /\ s(p) \in WorkerState /\ s(p).pc = p
                 /\ s(p).job = worker[w].job /\ s(p).idx = worker[w].idx
      BY <1>1 DEF WorkerState, Steps
    <2>2. \E p \in {"decide", "resolve"} : worker' = [worker EXCEPT ![w] = s(p)]
      BY <1>5 DEF Read
    <2> HIDE DEF s
    <2> QED BY <1>1, <1>2, <2>1, <2>2, WorkerMoves
  <1>6. CASE Backoff(w)
    <2> DEFINE s == [worker[w] EXCEPT !.pc = "read", !.try = worker[w].try + 1, !.op = <<>>]
    <2>1. ASSUME NEW n \in Nat
          PROVE  LET m == [worker[w] EXCEPT !.pc = "read", !.try = n, !.op = <<>>]
                 IN  /\ m \in WorkerState /\ m.pc = "read"
                     /\ m.job = worker[w].job /\ m.idx = worker[w].idx
      BY <1>1 DEF WorkerState, Steps
    <2>2. worker[w].try + 1 \in Nat
      BY <1>1 DEF WorkerState
    <2>3. s \in WorkerState /\ s.pc = "read" /\ s.job = worker[w].job /\ s.idx = worker[w].idx
      BY <2>1, <2>2
    <2>4. worker' = [worker EXCEPT ![w] = s] \/ worker' = [worker EXCEPT ![w] = Failing(worker[w])]
      <3>1. CASE worker[w].try < MaxRetries
        BY <1>6, <3>1 DEF Backoff
      <3>2. CASE ~ (worker[w].try < MaxRetries)
        BY <1>6, <3>2 DEF Backoff
      <3> QED BY <3>1, <3>2
    <2> HIDE DEF s
    <2> QED BY <1>1, <1>2, <1>3, <2>3, <2>4, WorkerMoves
  <1> QED BY <1>3, <1>4, <1>5, <1>6 DEF ReadFails, NotRecreated

\* The request leaves, and its answer comes or does not.
LEMMA RequestSteps ==
  ASSUME IInv, NEW w \in Workers,
         Send(w) \/ RespondCreated(w) \/ RespondRejected(w) \/ RespondUnavailable(w)
  PROVE  IInv'
  <1>1. worker[w] \in WorkerState /\ remote \in [Records -> RemoteStates] /\ Rec(w) \in Records
    BY PlanFacts DEF IInv, TypeOK, WorkerState, Rec
  <1>2. UNCHANGED <<jobVars, refs, intent, edits>> /\ remote' \in [Records -> RemoteStates]
    BY <1>1 DEF Send, RespondCreated, RespondRejected, RespondUnavailable, RemoteStates
  <1>3. flight' \subseteq flight \cup {req \in Requests : Requested(req)}
    <2>1. CASE Send(w)
      <3>1. worker[w].op \in Requests /\ Requested(worker[w].op)
        BY <2>1 DEF Send, IInv, Working
      <3> QED BY <2>1, <3>1 DEF Send
    <2> QED BY <2>1 DEF RespondCreated, RespondRejected, RespondUnavailable
  <1>4. CASE Send(w) \/ RespondCreated(w)
    <2> DEFINE s(p) == [worker[w] EXCEPT !.pc = p]
    <2>1. \E p \in {"wait", "ack"} : worker' = [worker EXCEPT ![w] = s(p)]
      BY <1>4 DEF Send, RespondCreated, Goto
    <2>2. ASSUME NEW p \in {"wait", "ack"}
          PROVE  /\ s(p) \in WorkerState /\ s(p).pc = p
                 /\ s(p).job = worker[w].job /\ s(p).idx = worker[w].idx
      <3>1. p \in Steps
        BY DEF Steps
      <3> QED BY <1>1, <3>1, PcFacts
    <2> HIDE DEF s
    <2> QED BY <1>2, <1>3, <2>1, <2>2, WorkerMoves
  <1>5. CASE RespondRejected(w) \/ RespondUnavailable(w)
    <2> DEFINE s(e) == [worker[w] EXCEPT !.pc = "reread", !.err = e]
    <2>1. \E e \in {"rejected", "unavailable"} : worker' = [worker EXCEPT ![w] = s(e)]
      BY <1>5 DEF RespondRejected, RespondUnavailable
    <2>2. ASSUME NEW e \in {"rejected", "unavailable"}
          PROVE  /\ s(e) \in WorkerState /\ s(e).pc = "reread"
                 /\ s(e).job = worker[w].job /\ s(e).idx = worker[w].idx
      BY <1>1 DEF WorkerState, Steps
    <2> HIDE DEF s
    <2> QED BY <1>2, <1>3, <2>1, <2>2, WorkerMoves
  <1> QED BY <1>4, <1>5

\* The intent and the record a worker of a job works on.
LEMMA OwnerFacts ==
  ASSUME IInv, NEW w \in Workers
  PROVE  /\ worker[w] \in WorkerState /\ remote \in [Records -> RemoteStates]
         /\ refs \in [Jobs -> SUBSET Records] /\ intent \in [Jobs -> [Records -> Intent]]
         /\ Rec(w) = Plan[worker[w].idx] /\ Rec(w) \in Records
         /\ Owner(w) => worker[w].job \in Jobs
  BY PlanFacts DEF IInv, TypeOK, WorkerState, Rec, Owner, Busy

\* An intent with another status.
LEMMA StatusFacts ==
  ASSUME NEW i \in Intent, NEW st \in IntentStatuses
  PROVE  LET x == [i EXCEPT !.status = st]
         IN  x \in Intent /\ x.status = st /\ x.attempts = i.attempts /\ i.attempts \in Nat
  BY DEF Intent

\* A worker marks the intent of the record it works on.
LEMMA Marking ==
  ASSUME IInv, NEW w \in Workers, NEW st \in {"confirmed", "conflict", "failed"},
         NEW next \in WorkerState, Mark(w, st, next),
         next = Failing(worker[w]) \/ (st = "confirmed" /\ next = Advanced(worker[w]))
  PROVE  IInv'
  <1> DEFINE j == worker[w].job
             r == Rec(w)
             i == [intent[j][r] EXCEPT !.status = st]
  <1>1. /\ worker[w] \in WorkerState /\ remote \in [Records -> RemoteStates] /\ j \in Jobs
        /\ refs \in [Jobs -> SUBSET Records] /\ intent[j][r] \in Intent /\ Sound(j, r)
        /\ r \in Records /\ r = Plan[worker[w].idx]
        /\ UNCHANGED <<jobVars, remote, flight, edits>>
    BY OwnerFacts DEF Mark, IInv
  <1>2. CASE worker' = [worker EXCEPT ![w] = Failing(worker[w])] /\ UNCHANGED <<intent, refs>>
    BY <1>1, <1>2, FailingFacts, WorkerMoves
  <1>3. CASE /\ Markable(intent[j][r], st)
             /\ intent' = [intent EXCEPT ![j][r].status = st]
             /\ refs' = IF st = "confirmed" THEN [refs EXCEPT ![j] = @ \cup {r}] ELSE refs
             /\ worker' = [worker EXCEPT ![w] = next]
    <2>1. i \in Intent /\ i.status = st /\ i.attempts = intent[j][r].attempts /\ i.attempts \in Nat
      <3>1. st \in IntentStatuses
        BY DEF IntentStatuses
      <3> QED BY <1>1, <3>1, StatusFacts
    <2>2. intent' = [intent EXCEPT ![j][r] = i]
      BY <1>3
    <2> HIDE DEF i
    <2>3. /\ refs' \in [Jobs -> SUBSET Records] /\ \A k \in Jobs : refs[k] \subseteq refs'[k]
          /\ st = "confirmed" => r \in refs'[j]
      BY <1>1, <1>3
    <2>4. intent[j][r].status = "confirmed" => st = "confirmed"
      BY <1>3 DEF Markable, Resolved
    <2> HIDE DEF j, r
    <2>7. Writes(j, r, i)
      BY <1>1, <2>1, <2>2, <2>3, <2>4 DEF Writes, Sound
    <2>5. CASE next = Failing(worker[w])
      <3>1. GoesOn(w, next, j, r, i)
        BY <1>1, <1>3, <2>5, FailingFacts DEF GoesOn
      <3> QED BY <1>1, <2>7, <3>1, IntentMoves
    <2>6. CASE st = "confirmed" /\ next = Advanced(worker[w])
      <3>1. worker[w].job = j
        BY DEF j
      <3>2. GoesOn(w, next, j, r, i)
        BY <1>1, <1>3, <2>1, <2>6, <3>1, AdvancedFacts DEF GoesOn
      <3> QED BY <1>1, <2>7, <3>2, IntentMoves
    <2> QED BY <2>5, <2>6
  <1> QED BY <1>2, <1>3 DEF Mark, IntentOf

\* Steps of _publish that mark an intent.
LEMMA MarkSteps ==
  ASSUME IInv, NEW w \in Workers, Confirm(w) \/ Conflict(w) \/ Rejected(w)
  PROVE  IInv'
  <1>1. Advanced(worker[w]) \in WorkerState /\ Failing(worker[w]) \in WorkerState
    BY OwnerFacts, AdvancedFacts, FailingFacts
  <1> QED BY <1>1, Marking DEF Confirm, Conflict, Rejected

\* The intent is created, or found.
LEMMA Preparing ==
  ASSUME IInv, NEW w \in Workers, Prepare(w)
  PROVE  IInv'
  <1> DEFINE j == worker[w].job
             r == Rec(w)
             st == IF intent[j][r].status = "none" THEN "prepared" ELSE intent[j][r].status
             i == [intent[j][r] EXCEPT !.status = st]
             s == [worker[w] EXCEPT !.pc = "read", !.seen = st]
  <1>1. /\ worker[w] \in WorkerState /\ j \in Jobs /\ refs \in [Jobs -> SUBSET Records]
        /\ intent[j][r] \in Intent /\ Sound(j, r) /\ r \in Records
        /\ UNCHANGED <<jobVars, refs, remote, flight, edits>>
        /\ intent' = [intent EXCEPT ![j][r].status = st]
    BY OwnerFacts DEF Prepare, IInv, IntentOf
  <1>2. st \in IntentStatuses
    BY <1>1 DEF Intent, IntentStatuses
  <1>3. i \in Intent /\ i.status = st /\ i.attempts = intent[j][r].attempts /\ i.attempts \in Nat
    BY <1>1, <1>2, StatusFacts
  <1>4. /\ intent[j][r].status = "confirmed" => st = "confirmed"
        /\ intent[j][r].attempts > 0 => st \notin {"none", "cancelled"}
        /\ st = "confirmed" => r \in refs[j]
    BY <1>1 DEF Sound
  <1>5. worker' = [worker EXCEPT ![w] = Failing(worker[w])] \/ worker' = [worker EXCEPT ![w] = s]
    BY DEF Prepare, IntentOf
  <1>6. intent' = [intent EXCEPT ![j][r] = i]
    BY <1>1
  <1>7. s \in WorkerState /\ s.pc = "read" /\ s.job = worker[w].job /\ s.idx = worker[w].idx
    BY <1>1, <1>2 DEF WorkerState, Steps
  <1> HIDE DEF s, i, st, r, j
  <1>8. Writes(j, r, i)
    <2>1. refs' \in [Jobs -> SUBSET Records] /\ \A k \in Jobs : refs[k] \subseteq refs'[k]
      BY <1>1
    <2>2. /\ i.attempts >= intent[j][r].attempts
          /\ intent[j][r].status = "confirmed" => i.status = "confirmed"
          /\ i.attempts > 0 => i.status \notin {"none", "cancelled"}
      BY <1>3, <1>4
    <2>3. i.status = "confirmed" => r \in refs'[j]
      BY <1>1, <1>3, <1>4
    <2> QED BY <1>3, <1>6, <2>1, <2>2, <2>3 DEF Writes
  <1>9. GoesOn(w, Failing(worker[w]), j, r, i) \/ GoesOn(w, s, j, r, i)
    BY <1>1, <1>5, <1>7, FailingFacts DEF GoesOn
  <1> QED BY <1>1, <1>8, <1>9, IntentMoves

\* The attempt is counted, and the request is made ready.
LEMMA Attempting ==
  ASSUME IInv, NEW w \in Workers, Attempt(w)
  PROVE  IInv'
  <1> DEFINE j == worker[w].job
             r == Rec(w)
             n == intent[j][r].attempts + 1
             i == Attempted(intent[j][r])
             s == [worker[w] EXCEPT !.pc = "send", !.op = <<j, r, n>>]
  <1>1. /\ worker[w] \in WorkerState /\ remote \in [Records -> RemoteStates] /\ j \in Jobs
        /\ refs \in [Jobs -> SUBSET Records] /\ intent[j][r] \in Intent /\ Sound(j, r)
        /\ r \in Records /\ UNCHANGED <<jobVars, refs, remote, flight, edits>>
    BY OwnerFacts DEF Attempt, IInv
  <1>2. CASE worker' = [worker EXCEPT ![w] = Failing(worker[w])] /\ UNCHANGED intent
    BY <1>1, <1>2, FailingFacts, WorkerMoves
  <1>3. CASE /\ intent[j][r].status \notin Resolved
             /\ intent' = [intent EXCEPT ![j][r] = i]
             /\ worker' = [worker EXCEPT ![w] = s]
    <2>1. n \in Nat /\ n >= 1 /\ intent[j][r].attempts \in Nat /\ n >= intent[j][r].attempts
      BY <1>1 DEF Intent
    <2>2. i \in Intent /\ i.status = "prepared" /\ i.attempts = n
      BY <2>1 DEF Attempted, Intent, IntentStatuses
    <2>3. <<j, r, n>> \in Requests
      BY <1>1, <2>1 DEF Requests
    <2>4. ASSUME NEW o \in Requests
          PROVE  LET m == [worker[w] EXCEPT !.pc = "send", !.op = o]
                 IN  /\ m \in WorkerState /\ m.pc = "send" /\ m.op = o
                     /\ m.job = worker[w].job /\ m.idx = worker[w].idx
      BY <1>1 DEF WorkerState, Steps
    <2>5. /\ s \in WorkerState /\ s.pc = "send" /\ s.op = <<j, r, n>>
          /\ s.job = worker[w].job /\ s.idx = worker[w].idx
      BY <2>3, <2>4
    <2>6. s.op \in Requests /\ s.op[1] = j /\ s.op[2] = r /\ s.op[3] = n
      BY <2>3, <2>5
    <2>7. intent[j][r].status # "confirmed"
      BY <1>3 DEF Resolved
    <2> HIDE DEF s, i, n, r, j
    <2>8. Writes(j, r, i)
      BY <1>1, <1>3, <2>1, <2>2, <2>7 DEF Writes
    <2>9. GoesOn(w, s, j, r, i)
      BY <1>3, <2>1, <2>2, <2>5, <2>6 DEF GoesOn
    <2> QED BY <1>1, <2>8, <2>9, IntentMoves
  <1> QED BY <1>2, <1>3 DEF Attempt, IntentOf

\* Only an unresolved intent is resolved by a reconciliation.
LEMMA ReconciledFacts ==
  ASSUME NEW i \in Intent, NEW st \in IntentStatuses
  PROVE  /\ Reconciled(i, st) \in Intent /\ Reconciled(i, st).attempts = i.attempts
         /\ i.attempts \in Nat
         /\ \/ Reconciled(i, st).status = i.status /\ i.status \notin Unresolved
            \/ Reconciled(i, st).status = st /\ i.status \in Unresolved
  <1>1. CASE i.status \in Unresolved
    <2>1. Reconciled(i, st) = [i EXCEPT !.status = st]
      BY <1>1 DEF Reconciled
    <2> QED BY <1>1, <2>1, StatusFacts
  <1>2. CASE i.status \notin Unresolved
    BY <1>2 DEF Reconciled, Intent
  <1> QED BY <1>1, <1>2

\* A reconciling worker concludes: it cancels only what was never attempted, and
\* attaches what it confirms.
LEMMA Settling ==
  ASSUME IInv, NEW w \in Workers, Settle(w)
  PROVE  IInv'
  <1> DEFINE j == worker[w].op[1]
             r == worker[w].op[2]
             next == Resumed(worker[w])
             down == [Blank EXCEPT !.pc = "down"]
             i(st) == Reconciled(intent[j][r], st)
  <1>1. /\ worker[w] \in WorkerState /\ remote \in [Records -> RemoteStates]
        /\ refs \in [Jobs -> SUBSET Records]
    BY OwnerFacts
  <1>2. j \in Jobs /\ r \in Records
    <2>1. worker[w].op \in Requests
      BY DEF IInv, Working, Settle, SettleCancelled, SettleSeen
    <2> QED BY <2>1 DEF Requests
  <1>3. intent[j][r] \in Intent /\ Sound(j, r)
    BY <1>2, OwnerFacts DEF IInv
  <1>4. /\ next \in WorkerState /\ next.pc \in {"observe", "ready", "prepare"}
        /\ next.job = worker[w].job /\ next.idx = worker[w].idx
    BY <1>1, ResumedFacts
  <1>5. down \in WorkerState /\ down.pc = "down" /\ down.job = None
    BY BlankFacts
  <1>6. ASSUME NEW st \in {"confirmed", "conflict", "cancelled"}
        PROVE  /\ i(st) \in Intent /\ i(st).attempts = intent[j][r].attempts
               /\ intent[j][r].attempts \in Nat
               /\ \/ i(st).status = intent[j][r].status /\ intent[j][r].status \notin Unresolved
                  \/ i(st).status = st /\ intent[j][r].status \in Unresolved
    <2>1. st \in IntentStatuses
      BY DEF IntentStatuses
    <2> QED BY <1>3, <2>1, ReconciledFacts
  <1>7. CASE SettleCancelled(w)
    <2>1. CASE worker' = [worker EXCEPT ![w] = down] /\ UNCHANGED intent
      <3>1. UNCHANGED <<jobVars, refs, intent, remote, flight, edits>>
        BY <1>7, <2>1 DEF SettleCancelled
      <3> HIDE DEF down
      <3> QED BY <1>1, <1>5, <2>1, <3>1, WorkerMoves
    <2>2. CASE /\ intent[j][r].status # "none" => Cancellable(j, r)
               /\ worker' = [worker EXCEPT ![w] = next]
               /\ intent' = [intent EXCEPT ![j][r] = i("cancelled")]
      <3> DEFINE x == i("cancelled")
      <3>1. UNCHANGED <<jobVars, refs, remote, flight, edits>>
        BY <1>7 DEF SettleCancelled
      <3>2. /\ x \in Intent /\ x.attempts = intent[j][r].attempts /\ intent[j][r].attempts \in Nat
            /\ \/ x.status = intent[j][r].status /\ intent[j][r].status \notin Unresolved
               \/ x.status = "cancelled" /\ intent[j][r].status \in Unresolved
        BY <1>6
      <3>3. intent[j][r].status # "none" => intent[j][r].attempts = 0
        BY <2>2 DEF Cancellable
      <3>4. intent' = [intent EXCEPT ![j][r] = x]
        BY <2>2
      <3> HIDE DEF x, i, next, j, r
      <3>5. Writes(j, r, x)
        BY <1>1, <1>3, <3>1, <3>2, <3>3, <3>4 DEF Writes, Sound, Unresolved
      <3>6. GoesOn(w, next, j, r, x)
        BY <1>4, <2>2 DEF GoesOn
      <3> QED BY <1>2, <3>1, <3>5, <3>6, IntentMoves
    <2> QED BY <1>7, <2>1, <2>2 DEF SettleCancelled
  <1>8. CASE SettleSeen(w)
    <2>1. /\ UNCHANGED <<jobVars, remote, flight, edits>> /\ worker' = [worker EXCEPT ![w] = next]
          /\ \/ worker[w].got = "ours" /\ intent' = [intent EXCEPT ![j][r] = i("confirmed")]
             \/ worker[w].got # "ours" /\ intent' = [intent EXCEPT ![j][r] = i("conflict")]
          /\ \/ refs' = refs /\ (intent[j][r].status = "none" \/ worker[w].got # "ours")
             \/ refs' = [refs EXCEPT ![j] = @ \cup {r}]
      BY <1>8 DEF SettleSeen, RefsReconciled
    <2>2. ASSUME NEW st \in {"confirmed", "conflict"}, intent' = [intent EXCEPT ![j][r] = i(st)],
                 st = "conflict" \/ worker[w].got = "ours"
          PROVE  IInv'
      <3> DEFINE x == i(st)
      <3>1. /\ x \in Intent /\ x.attempts = intent[j][r].attempts /\ intent[j][r].attempts \in Nat
            /\ \/ x.status = intent[j][r].status /\ intent[j][r].status \notin Unresolved
               \/ x.status = st /\ intent[j][r].status \in Unresolved
        BY <1>6
      <3>2. intent' = [intent EXCEPT ![j][r] = x]
        BY <2>2
      <3> HIDE DEF x, i, next, j, r
      <3>3. /\ refs' \in [Jobs -> SUBSET Records] /\ \A k \in Jobs : refs[k] \subseteq refs'[k]
            /\ x.status = "confirmed" => r \in refs'[j]
        BY <1>1, <1>2, <1>3, <2>1, <2>2, <3>1 DEF Sound, Unresolved
      <3>4. Writes(j, r, x)
        BY <1>3, <3>1, <3>2, <3>3 DEF Writes, Sound, Unresolved
      <3>5. GoesOn(w, next, j, r, x)
        BY <1>4, <2>1 DEF GoesOn
      <3> QED BY <1>2, <2>1, <3>4, <3>5, IntentMoves
    <2> QED BY <2>1, <2>2
  <1> QED BY <1>7, <1>8 DEF Settle

-----------------------------------------------------------------------------
(* Theorems *)

\* Every step keeps the invariant.
LEMMA InvStep == IInv /\ [Next]_vars => IInv'
  <1> SUFFICES ASSUME IInv, [Next]_vars PROVE IInv'
    OBVIOUS
  <1>1. ASSUME NEW w \in Workers, Publish(w) PROVE IInv'
    BY <1>1, ReadSteps, RequestSteps, MarkSteps, Preparing, Attempting DEF Publish
  <1>2. ASSUME NEW w \in Workers, Run(w) \/ Crash(w) PROVE IInv'
    BY <1>1, <1>2, SurveySteps, Settling, Claiming, ExecutionEnds, Interruptions DEF Run
  <1>3. ASSUME NEW j \in Jobs,
               \/ Submit(j) \/ CancelJob(j) \/ RetryFailedJob(j) \/ ClearDelete(j) \/ DeleteJob(j)
               \/ Lapse(j)
        PROVE  IInv'
    BY <1>3, JobSteps, Deleting
  <1>4. CASE UNCHANGED vars
    <2>1. UNCHANGED <<jobVars, refs, intent, remote, flight, worker, edits>>
      BY <1>4 DEF vars, jobVars
    <2> QED BY <2>1, Outside DEF IInv, TypeOK
  <1> QED BY <1>2, <1>3, <1>4, OutsideSteps DEF Next

\* The invariant of every execution of crm_writes and its callers.
THEOREM Invariance == Spec => []IInv
  BY InvInit, InvStep, PTL DEF Spec

\* Every variable has its type, and only running jobs have lapsed.
THEOREM TypeCorrect == Spec => []TypeOK
  <1>1. IInv => TypeOK
    BY DEF IInv
  <1> QED BY <1>1, Invariance, PTL

\* Whatever is under way to Twenty is counted in the journal and not cancelled:
\* record_mutation_attempt commits before create_record, and reconcile_write
\* cancels only what was never attempted.
THEOREM RequestsAreJournaled == Spec => []Journaled
  <1>1. IInv => Journaled
    <2> SUFFICES ASSUME IInv, NEW req \in flight, phase[req[1]] # "deleted"
                 PROVE  /\ intent[req[1]][req[2]].attempts >= req[3]
                        /\ intent[req[1]][req[2]].status \notin {"none", "cancelled"}
      BY DEF Journaled
    <2>1. req[1] \in Jobs /\ req[2] \in Records /\ req[3] \in Nat
      BY DEF IInv, TypeOK, Requests
    <2>2. intent[req[1]][req[2]].attempts \in Nat /\ Sound(req[1], req[2]) /\ Requested(req)
      BY <2>1 DEF IInv, TypeOK, Intent
    <2> QED BY <2>1, <2>2 DEF Requested, Sound
  <1> QED BY <1>1, Invariance, PTL

\* A confirmed effect is a reference of its job, whoever confirmed it.
THEOREM ConfirmationsAreReferenced == Spec => []ConfirmedReferenced
  <1>1. IInv => ConfirmedReferenced
    BY DEF IInv, Sound, ConfirmedReferenced
  <1> QED BY <1>1, Invariance, PTL

\* A job that reports a complete publication has published every record of its
\* plan, in spite of what other workers still do from their snapshots.
THEOREM CompletionIsHonest == Spec => []CompleteMeansPublished
  <1>1. IInv => CompleteMeansPublished
    BY DEF IInv
  <1> QED BY <1>1, Invariance, PTL

\* A resolved intent is never reopened nor resolved otherwise while its job
\* exists: mark_write and record_mutation_attempt refuse, reconcile_write leaves
\* it alone.
THEOREM ResolutionsAreFinal == Spec => IntentsFinal
  <1> DEFINE Final == \A j \in Jobs : \A r \in Records :
                        intent[j][r].status \in Resolved =>
                          intent'[j][r].status = intent[j][r].status \/ phase'[j] = "deleted"
  <1>1. ASSUME IInv, Next PROVE Final
    <2>1. CASE UNCHANGED intent
      BY <2>1
    <2>2. ASSUME NEW j \in Jobs, NEW r \in Records, NEW i,
                 intent' = [intent EXCEPT ![j][r] = i],
                 intent[j][r].status \in Resolved => i.status = intent[j][r].status
          PROVE  Final
      BY <1>1, <2>2 DEF IInv, TypeOK
    <2> HIDE DEF Final
    <2>3. ASSUME NEW w \in Workers, Prepare(w) PROVE Final
      <3> DEFINE e == intent[worker[w].job][Rec(w)]
                 st == IF e.status = "none" THEN "prepared" ELSE e.status
                 i == [e EXCEPT !.status = st]
      <3>1. worker[w].job \in Jobs /\ Rec(w) \in Records /\ e \in Intent
        BY <1>1, <2>3, OwnerFacts DEF Prepare
      <3>2. st \in IntentStatuses
        BY <3>1 DEF Intent, IntentStatuses
      <3>3. i.status = st
        BY <3>1, <3>2, StatusFacts
      <3>4. intent' = [intent EXCEPT ![worker[w].job][Rec(w)] = i]
        BY <2>3 DEF Prepare, IntentOf
      <3>5. e.status \in Resolved => st = e.status
        BY DEF Resolved
      <3> HIDE DEF i, st
      <3> QED BY <2>2, <3>1, <3>3, <3>4, <3>5
    <2>4. ASSUME NEW w \in Workers, NEW st \in {"confirmed", "conflict", "failed"}, NEW next,
                 Mark(w, st, next)
          PROVE  Final
      <3> DEFINE e == intent[worker[w].job][Rec(w)]
                 i == [e EXCEPT !.status = st]
      <3>1. worker[w].job \in Jobs /\ Rec(w) \in Records /\ e \in Intent /\ st \in IntentStatuses
        BY <1>1, <2>4, OwnerFacts DEF Mark, IntentStatuses
      <3>2. i.status = st
        BY <3>1, StatusFacts
      <3>3. \/ UNCHANGED intent
            \/ /\ intent' = [intent EXCEPT ![worker[w].job][Rec(w)] = i]
               /\ e.status \in Resolved => e.status = st
        BY <2>4 DEF Mark, IntentOf, Markable
      <3> HIDE DEF i
      <3> QED BY <2>1, <2>2, <3>1, <3>2, <3>3
    <2>5. ASSUME NEW w \in Workers, Attempt(w) PROVE Final
      <3>1. worker[w].job \in Jobs /\ Rec(w) \in Records
        BY <1>1, <2>5, OwnerFacts DEF Attempt
      <3>2. \/ UNCHANGED intent
            \/ /\ intent' = [intent EXCEPT ![worker[w].job][Rec(w)] =
                               Attempted(intent[worker[w].job][Rec(w)])]
               /\ intent[worker[w].job][Rec(w)].status \notin Resolved
        BY <2>5 DEF Attempt, IntentOf
      <3> QED BY <2>1, <2>2, <3>1, <3>2
    <2>6. ASSUME NEW w \in Workers, Settle(w) PROVE Final
      <3> DEFINE e == intent[worker[w].op[1]][worker[w].op[2]]
      <3>1. worker[w].op[1] \in Jobs /\ worker[w].op[2] \in Records
        <4>1. worker[w].op \in Requests
          BY <1>1, <2>6 DEF IInv, Working, Settle, SettleCancelled, SettleSeen
        <4> QED BY <4>1 DEF Requests
      <3>2. ASSUME NEW st \in IntentStatuses,
                   intent' = [intent EXCEPT ![worker[w].op[1]][worker[w].op[2]] = Reconciled(e, st)]
            PROVE  Final
        <4>1. e.status \in Resolved => Reconciled(e, st).status = e.status
          BY DEF Reconciled, Resolved, Unresolved
        <4> QED BY <2>2, <3>1, <3>2, <4>1
      <3>3. \/ UNCHANGED intent
            \/ \E st \in {"confirmed", "conflict", "cancelled"} :
                 intent' = [intent EXCEPT ![worker[w].op[1]][worker[w].op[2]] = Reconciled(e, st)]
        BY <2>6 DEF Settle, SettleCancelled, SettleSeen
      <3>4. \A st \in {"confirmed", "conflict", "cancelled"} : st \in IntentStatuses
        BY DEF IntentStatuses
      <3> HIDE DEF e
      <3> QED BY <2>1, <3>2, <3>3, <3>4
    <2>7. ASSUME NEW j \in Jobs, DeleteJob(j) PROVE Final
      BY <1>1, <2>7 DEF Final, DeleteJob, Life!Remove, Life!Enters, IInv, TypeOK
    <2>8. ASSUME NEW w \in Workers, Publish(w) PROVE Final
      <3>1. CASE Confirm(w) \/ Conflict(w) \/ Rejected(w)
        BY <2>4, <3>1 DEF Confirm, Conflict, Rejected
      <3>2. CASE \/ Read(w) \/ ReadFails(w) \/ DeadlinePassed(w) \/ NotRecreated(w) \/ Backoff(w)
                 \/ Send(w) \/ RespondCreated(w) \/ RespondRejected(w) \/ RespondUnavailable(w)
        BY <2>1, <3>2 DEF Read, ReadFails, DeadlinePassed, NotRecreated, Backoff, Send,
                          RespondCreated, RespondRejected, RespondUnavailable
      <3> QED BY <2>3, <2>5, <2>8, <3>1, <3>2 DEF Publish
    <2>9. ASSUME NEW w \in Workers, Run(w) \/ Crash(w) PROVE Final
      <3>1. CASE \/ Survey(w) \/ SurveyOwn(w) \/ ObserveFails(w) \/ Complete(w) \/ FailJob(w)
                 \/ ClaimLost(w) \/ Restart(w) \/ Crash(w)
                 \/ \E o \in worker[w].todo : Observe(w, o)
                 \/ \E lost \in SUBSET lapsed : ClaimNext(w, lost)
        BY <2>1, <3>1 DEF Survey, SurveyOwn, ObserveFails, Complete, FailJob, ClaimLost, Restart,
                          Crash, Observe, ClaimNext
      <3> QED BY <2>6, <2>8, <2>9, <3>1 DEF Run
    <2>10. ASSUME NEW j \in Jobs,
                  Submit(j) \/ CancelJob(j) \/ RetryFailedJob(j) \/ ClearDelete(j) \/ Lapse(j)
           PROVE  UNCHANGED intent
      BY <2>10 DEF Submit, CancelJob, RetryFailedJob, ClearDelete, Lapse, Publishing
    <2>11. ASSUME \/ \E r \in Records, state \in {"missing", "foreign"} : EditRecord(r, state)
                  \/ \E req \in flight : Arrive(req) \/ Vanish(req)
           PROVE  UNCHANGED intent
      BY <2>11 DEF EditRecord, Arrive, Vanish
    <2> QED BY <1>1, <2>1, <2>7, <2>9, <2>10, <2>11 DEF Next
  <1>2. IInv /\ [Next]_vars => [Final]_vars
    BY <1>1
  <1> QED BY <1>2, Invariance, PTL DEF Spec, IntentsFinal

-----------------------------------------------------------------------------
(* CrmPublication implements WriteJournal *)

\* The steps of _publish after prepare_write.
Prepared == {"read", "decide", "send", "wait", "ack", "reread", "resolve"}

\* Who publishes a record has found or created its intent, unless the job has been
\* deleted; a deleted job has no journal.
FoundBy(w) ==
  worker[w].pc \in Prepared =>
    /\ worker[w].job \in Jobs
    /\ phase[worker[w].job] # "deleted" =>
         intent[worker[w].job][Plan[worker[w].idx]].status # "none"

Found ==
  /\ \A w \in Workers : FoundBy(w)
  /\ \A j \in Jobs : \A r \in Records : phase[j] = "deleted" => intent[j][r].status = "none"

\* The three ways the journal of a job changes: intent i takes the place of that of
\* record r.
Intends(j, r, i) == intent[j][r].status = "none" /\ i.status = "prepared" /\ i.attempts = 0
Issues(j, r, i) ==
  /\ intent[j][r].status \in Unresolved
  /\ i.status = "prepared" /\ i.attempts = intent[j][r].attempts + 1
Resolves(j, r, i) ==
  /\ intent[j][r].status \in Unresolved
  /\ i.status \in {"failed"} \cup Resolved /\ i.attempts = intent[j][r].attempts
  /\ i.status = "cancelled" => i.attempts = 0

\* No job is deleted.
NoneDeleted == \A j \in Jobs : phase'[j] = "deleted" <=> phase[j] = "deleted"

\* No intent of a job is forgotten, and nothing comes back of a deleted one.
Remembers ==
  \A j \in Jobs : \A r \in Records :
    /\ phase[j] = "deleted" => intent'[j][r].status = intent[j][r].status
    /\ intent'[j][r].status = "none" => intent[j][r].status = "none"

\* A step with which the journal does not change.
LEMMA SameJournal ==
  ASSUME UNCHANGED intent, NoneDeleted
  PROVE  UNCHANGED <<JournalStatus, Issued>> /\ Remembers
  BY DEF JournalStatus, Issued, NoneDeleted, Remembers

\* A step with which one intent changes.
LEMMA JournalMoves ==
  ASSUME IInv, Found, UNCHANGED phase, NEW j \in Jobs, NEW r \in Records, NEW i \in Intent,
         Intends(j, r, i) \/ Issues(j, r, i) \/ Resolves(j, r, i), phase[j] # "deleted",
         intent' = [intent EXCEPT ![j][r] = i]
  PROVE  /\ JournalStatus[<<j, r>>] = intent[j][r].status
         /\ JournalStatus' = [JournalStatus EXCEPT ![<<j, r>>] = i.status]
         /\ Issued' = IF i.attempts > 0 THEN Issued \cup {<<j, r>>} ELSE Issued \ {<<j, r>>}
         /\ i.attempts > 0 <=> Issues(j, r, i) \/ <<j, r>> \in Issued
         /\ Remembers /\ NoneDeleted
  <1>1. /\ intent \in [Jobs -> [Records -> Intent]] /\ intent[j][r] \in Intent
        /\ intent[j][r].attempts \in Nat /\ Sound(j, r)
    BY DEF IInv, TypeOK, Intent
  <1>2. \A k \in Jobs, x \in Records :
          intent'[k][x] = IF k = j /\ x = r THEN i ELSE intent[k][x]
    BY <1>1
  <1>3. JournalStatus[<<j, r>>] = intent[j][r].status /\ (<<j, r>> \in Issued <=> intent[j][r].attempts > 0)
    BY DEF JournalStatus, Issued
  <1>4. \A p \in Jobs \X Records :
          /\ p[1] \in Jobs /\ p[2] \in Records
          /\ intent'[p[1]][p[2]] = IF p = <<j, r>> THEN i ELSE intent[p[1]][p[2]]
    BY <1>2
  <1>5. JournalStatus' = [JournalStatus EXCEPT ![<<j, r>>] = i.status]
    <2>1. \A p \in Jobs \X Records :
            (IF phase[p[1]] = "deleted" THEN "forgotten" ELSE intent'[p[1]][p[2]].status)
            = IF p = <<j, r>> THEN i.status
              ELSE IF phase[p[1]] = "deleted" THEN "forgotten" ELSE intent[p[1]][p[2]].status
      BY <1>4
    <2> QED BY <2>1 DEF JournalStatus
  <1>6. Issued' = IF i.attempts > 0 THEN Issued \cup {<<j, r>>} ELSE Issued \ {<<j, r>>}
    <2>1. \A p \in Jobs \X Records :
            p \in Issued' <=> IF p = <<j, r>> THEN i.attempts > 0 ELSE p \in Issued
      BY <1>4 DEF Issued
    <2>2. Issued \subseteq Jobs \X Records /\ Issued' \subseteq Jobs \X Records
          /\ <<j, r>> \in Jobs \X Records
      BY DEF Issued
    <2> QED BY <2>1, <2>2
  <1>7. i.attempts > 0 <=> Issues(j, r, i) \/ <<j, r>> \in Issued
    <2>1. CASE Intends(j, r, i)
      BY <1>1, <1>3, <2>1 DEF Intends, Issues, Sound, Unresolved
    <2>2. CASE Issues(j, r, i)
      BY <1>1, <2>2 DEF Issues
    <2>3. CASE Resolves(j, r, i) /\ ~ Issues(j, r, i)
      BY <1>1, <1>3, <2>3 DEF Resolves
    <2> QED BY <2>1, <2>2, <2>3
  <1>8. i.status # "none"
    BY DEF Intends, Issues, Resolves, Resolved
  <1>9. Remembers /\ NoneDeleted
    BY <1>2, <1>8 DEF Remembers, NoneDeleted
  <1> QED BY <1>3, <1>5, <1>6, <1>7, <1>9

\* The requests that have left and those that are about to.
Under == flight \cup {worker[w].op : w \in {v \in Workers : worker[v].pc = "send"}}

\* What is under way in the journal's eyes, when a request is added or taken away.
LEMMA LooseMoves ==
  ASSUME NEW u \in Requests
  PROVE  /\ Under' = Under => Loose' = Loose
         /\ Under' = Under \cup {u} => Loose' = Loose \cup {<<u[1], u[2]>>}
         /\ Under' \subseteq Under /\ Under \subseteq Under' \cup {u}
              => Loose' = Loose \/ Loose' = Loose \ {<<u[1], u[2]>>}
  <1>1. Loose = {<<x[1], x[2]>> : x \in Under} /\ Loose' = {<<x[1], x[2]>> : x \in Under'}
    BY DEF Loose, Under
  <1> QED BY <1>1

\* What is under way, when a worker goes on as s.
LEMMA UnderMoves ==
  ASSUME IInv, NEW w \in Workers, NEW s, worker' = [worker EXCEPT ![w] = s]
  PROVE  /\ s.pc # "send" /\ worker[w].pc # "send" /\ flight' = flight => Under' = Under
         /\ s.pc = "send" /\ worker[w].pc # "send" /\ flight' = flight
              => Under' = Under \cup {s.op}
         /\ s.pc # "send" /\ worker[w].pc = "send" /\ flight' = flight \cup {worker[w].op}
              => Under' = Under
         /\ s.pc # "send" /\ flight' \subseteq flight /\ flight \subseteq flight' \cup {worker[w].op}
              => Under' \subseteq Under /\ Under \subseteq Under' \cup {worker[w].op}
  <1>1. \A v \in Workers : worker'[v] = IF v = w THEN s ELSE worker[v]
    BY DEF IInv, TypeOK
  <1> QED BY <1>1 DEF Under

\* A step of a worker keeps Found when the journal remembers and has what the worker
\* goes on with.
LEMMA FoundMoves ==
  ASSUME IInv, Found, NEW w \in Workers, NEW s, worker' = [worker EXCEPT ![w] = s],
         NoneDeleted, Remembers,
         s.pc \in Prepared =>
           /\ s.job \in Jobs
           /\ phase[s.job] # "deleted" => intent'[s.job][Plan[s.idx]].status # "none"
  PROVE  Found'
  <1>1. \A v \in Workers : worker'[v] = IF v = w THEN s ELSE worker[v]
    BY DEF IInv, TypeOK
  <1>2. ASSUME NEW v \in Workers PROVE FoundBy(v)'
    <2>1. CASE v = w
      BY <1>1, <2>1 DEF FoundBy, NoneDeleted
    <2>2. CASE v # w
      <3>1. Plan[worker[v].idx] \in Records /\ FoundBy(v) /\ worker'[v] = worker[v]
        BY <1>1, <2>2, PlanFacts DEF IInv, TypeOK, WorkerState, Found
      <3> QED BY <3>1 DEF FoundBy, NoneDeleted, Remembers
    <2> QED BY <2>1, <2>2
  <1> QED BY <1>2 DEF Found, NoneDeleted, Remembers

\* A step of the journal, with Found kept.
JournalKept == [Journal!Next]_(Journal!vars) /\ Found'

\* A request that lands, or nothing in the eyes of the journal.
LEMMA Landed ==
  ASSUME UNCHANGED <<JournalStatus, Issued>>, NEW u \in Requests,
         Loose' = Loose \/ Loose' = Loose \ {<<u[1], u[2]>>}
  PROVE  [Journal!Next]_(Journal!vars)
  <1>1. <<u[1], u[2]>> \in Jobs \X Records
    BY DEF Requests
  <1>2. CASE Loose' = Loose
    BY <1>2 DEF Journal!vars
  <1>3. CASE Loose' = Loose \ {<<u[1], u[2]>>}
    <2>1. Journal!Land(<<u[1], u[2]>>)
      BY <1>3 DEF Journal!Land
    <2> QED BY <1>1, <2>1 DEF Journal!Next
  <1> QED BY <1>2, <1>3

\* A worker goes on as s without touching the journal: it ends something, or goes on
\* with its record.
LEMMA QuietSteps ==
  ASSUME IInv, Found, UNCHANGED intent, NoneDeleted,
         NEW w \in Workers, NEW s, worker' = [worker EXCEPT ![w] = s], s.pc # "send",
         s.pc \in Prepared =>
           worker[w].pc \in Prepared /\ s.job = worker[w].job /\ s.idx = worker[w].idx,
         \/ flight' = flight
         \/ worker[w].pc = "send" /\ flight' = flight \cup {worker[w].op}
         \/ worker[w].op \in flight /\ flight' = flight \ {worker[w].op}
  PROVE  JournalKept
  <1>1. UNCHANGED <<JournalStatus, Issued>> /\ Remembers
    BY SameJournal
  <1>2. Found'
    <2>1. FoundBy(w)
      BY DEF Found
    <2> QED BY <1>1, <2>1, FoundMoves DEF FoundBy
  <1>3. CASE Under' = Under
    BY <1>1, <1>2, <1>3 DEF Loose, Under, JournalKept, Journal!vars
  <1>4. CASE Under' # Under
    <2>1. /\ flight' \subseteq flight /\ flight \subseteq flight' \cup {worker[w].op}
          /\ worker[w].op \in Requests
      <3>1. worker[w].pc = "send" \/ worker[w].op \in flight
        BY <1>4, UnderMoves
      <3>2. worker[w].op \in Requests
        BY <3>1 DEF IInv, TypeOK, Working
      <3>3. ~ (worker[w].pc = "send" /\ flight' = flight \cup {worker[w].op})
        BY <1>4, UnderMoves
      <3> QED BY <3>2, <3>3
    <2>2. Under' \subseteq Under /\ Under \subseteq Under' \cup {worker[w].op}
      BY <2>1, UnderMoves
    <2> QED BY <1>1, <1>2, <2>1, <2>2, LooseMoves, Landed DEF JournalKept
  <1> QED BY <1>3, <1>4

\* Reconciliation reads, and executions begin and end.
LEMMA ExecutionJournal ==
  ASSUME IInv, Found, NEW w \in Workers,
         \/ Survey(w) \/ SurveyOwn(w) \/ ObserveFails(w) \/ \E o \in worker[w].todo : Observe(w, o)
         \/ \E lost \in SUBSET lapsed : ClaimNext(w, lost)
         \/ Complete(w) \/ FailJob(w) \/ ClaimLost(w) \/ Restart(w) \/ Crash(w)
  PROVE  JournalKept
  <1> DEFINE me == worker[w]
  <1> USE DEF Prepared
  <1>1. me \in WorkerState /\ \A j \in Jobs : phase[j] \in Life!Phases
    BY OwnerFacts DEF IInv, TypeOK
  <1>2. UNCHANGED <<intent, flight>>
    BY DEF Survey, SurveyOwn, ObserveFails, Observe, ClaimNext, Complete, FailJob, ClaimLost, Restart, Crash
  <1>3. ASSUME NEW s, worker' = [worker EXCEPT ![w] = s], s.pc \notin Prepared, NoneDeleted
        PROVE  JournalKept
    BY <1>2, <1>3, QuietSteps
  <1>4. Blank.pc \notin Prepared /\ [Blank EXCEPT !.pc = "down"].pc \notin Prepared
    BY BlankFacts
  <1>5. CASE \/ Survey(w) \/ SurveyOwn(w) \/ ObserveFails(w)
             \/ ClaimLost(w) \/ Restart(w) \/ Crash(w)
    <2>1. NoneDeleted
      BY <1>5 DEF NoneDeleted, Survey, SurveyOwn, ObserveFails, ClaimLost, Restart, Crash, jobVars
    <2>2. CASE ClaimLost(w) \/ Restart(w) \/ Crash(w)
      BY <1>3, <1>4, <2>1, <2>2 DEF ClaimLost, Restart, Crash, Idle
    <2>3. ASSUME NEW js \in SUBSET Jobs,
                 worker' = [worker EXCEPT ![w] = Resumed([me EXCEPT !.todo = Pending(js)])]
          PROVE  JournalKept
      <3> DEFINE m == [me EXCEPT !.todo = Pending(js)]
      <3>1. m \in WorkerState
        BY <1>1, PendingType DEF WorkerState
      <3>2. worker' = [worker EXCEPT ![w] = Resumed(m)]
        BY <2>3
      <3> HIDE DEF m
      <3>3. Resumed(m).pc \in {"observe", "ready", "prepare"}
        BY <3>1, ResumedFacts
      <3> QED BY <1>3, <2>1, <3>2, <3>3
    <2>4. CASE Survey(w)
      <3>1. Stranded \in SUBSET Jobs
        BY DEF Stranded
      <3> QED BY <2>3, <2>4, <3>1 DEF Survey
    <2>5. CASE SurveyOwn(w)
      <3>1. me.job \in Jobs
        BY <1>1, <2>5 DEF SurveyOwn, IInv, Working, WorkerState
      <3> QED BY <2>3, <2>5, <3>1 DEF SurveyOwn
    <2>6. CASE ObserveFails(w)
      <3> DEFINE s(p) == [me EXCEPT !.todo = {}, !.pc = p]
      <3>1. \A p \in {"ready", "failing"} : s(p).pc = p
        BY <1>1 DEF WorkerState
      <3>2. \E p \in {"ready", "failing"} : worker' = [worker EXCEPT ![w] = s(p)]
        BY <2>6 DEF ObserveFails
      <3> HIDE DEF s
      <3> QED BY <1>3, <2>1, <3>1, <3>2
    <2> QED BY <1>5, <2>2, <2>4, <2>5, <2>6
  <1>6. ASSUME NEW o \in me.todo, Observe(w, o) PROVE JournalKept
    <2> DEFINE m == [me EXCEPT !.todo = @ \ {o}]
               s == [m EXCEPT !.pc = "settle", !.op = o, !.got = remote[o[2]]]
    <2>1. m \in WorkerState
      BY <1>1 DEF WorkerState
    <2>2. worker' = [worker EXCEPT ![w] = Resumed(m)] \/ worker' = [worker EXCEPT ![w] = s]
      BY <1>6 DEF Observe
    <2>3. NoneDeleted
      BY <1>6 DEF Observe, NoneDeleted, jobVars
    <2> HIDE DEF m
    <2>4. s.pc = "settle" /\ Resumed(m).pc \in {"observe", "ready", "prepare"}
      BY <2>1, ResumedFacts DEF WorkerState
    <2> HIDE DEF s
    <2> QED BY <1>3, <2>2, <2>3, <2>4
  <1>7. CASE Complete(w) \/ FailJob(w)
    <2>1. /\ me.job \in Jobs /\ phase[me.job] = "running"
          /\ \/ phase' = [phase EXCEPT ![me.job] = "succeeded"]
             \/ phase' = [phase EXCEPT ![me.job] = "failed"]
      BY <1>7, OwnerFacts DEF Complete, FailJob, Life!Succeed, Life!Fail, Life!Enters
    <2>2. NoneDeleted
      BY <2>1 DEF NoneDeleted, IInv, TypeOK
    <2> QED BY <1>3, <1>4, <1>7, <2>2 DEF Complete, FailJob, Idle
  <1>8. ASSUME NEW lost \in SUBSET lapsed, ClaimNext(w, lost) PROVE JournalKept
    <2> DEFINE After == Life!AfterRevoking(lost)
    <2>1. \A j \in lost : phase[j] = "running"
      BY DEF IInv, TypeOK
    <2>2. After = [j \in Jobs |-> After[j]] /\ \A j \in Jobs : After[j] = "deleted" <=> phase[j] = "deleted"
      BY <2>1 DEF Life!AfterRevoking
    <2>3. CASE Life!Revoke(lost) /\ Idle(w)
      <3>1. NoneDeleted
        BY <2>2, <2>3 DEF NoneDeleted, Life!Revoke, Life!Enters
      <3> QED BY <1>3, <1>4, <2>3, <3>1 DEF Idle
    <2>4. ASSUME NEW j \in Jobs, Life!Grant(lost, j),
                 worker' = [worker EXCEPT ![w] =
                   [Blank EXCEPT !.pc = "claimed", !.job = j, !.claim = grants[j] + 1]]
          PROVE  JournalKept
      <3> DEFINE s == [Blank EXCEPT !.pc = "claimed", !.job = j, !.claim = grants[j] + 1]
      <3>1. phase' = [After EXCEPT ![j] = "running"] /\ After[j] = "queued"
        BY <2>4 DEF Life!Grant, Life!Enters
      <3>2. NoneDeleted
        <4> HIDE DEF After
        <4> QED BY <2>2, <3>1 DEF NoneDeleted
      <3>3. s.pc = "claimed"
        BY DEF Blank
      <3>4. worker' = [worker EXCEPT ![w] = s]
        BY <2>4
      <3> HIDE DEF s
      <3> QED BY <1>3, <3>2, <3>3, <3>4
    <2> QED BY <1>8, <2>3, <2>4 DEF ClaimNext
  <1> QED BY <1>5, <1>6, <1>7, <1>8

\* A worker reads, fails, gives up waiting, or goes on with its record.
LEMMA PublishJournal ==
  ASSUME IInv, Found, NEW w \in Workers,
         \/ Read(w) \/ ReadFails(w) \/ DeadlinePassed(w) \/ NotRecreated(w) \/ Backoff(w)
         \/ Send(w) \/ RespondCreated(w) \/ RespondRejected(w) \/ RespondUnavailable(w)
  PROVE  JournalKept
  <1> DEFINE me == worker[w]
             Same(s) == s.job = me.job /\ s.idx = me.idx
  <1>1. me \in WorkerState
    BY OwnerFacts
  <1>2. UNCHANGED intent /\ NoneDeleted
    BY DEF NoneDeleted, jobVars, Read, ReadFails, DeadlinePassed, NotRecreated, Backoff, Send,
           RespondCreated, RespondRejected, RespondUnavailable
  <1>3. Failing(me).pc = "failing"
    BY <1>1, FailingFacts
  <1>4. CASE Read(w) \/ ReadFails(w) \/ DeadlinePassed(w) \/ NotRecreated(w) \/ Backoff(w)
    <2> DEFINE g(p) == [me EXCEPT !.got = remote[Rec(w)], !.pc = p]
               b == [me EXCEPT !.pc = "read", !.try = me.try + 1, !.op = <<>>]
               d == [me EXCEPT !.pc = "exhausted"]
    <2>1. /\ UNCHANGED flight
          /\ \/ worker' = [worker EXCEPT ![w] = Failing(me)]
             \/ worker' = [worker EXCEPT ![w] = d]
             \/ me.pc \in Prepared /\ worker' = [worker EXCEPT ![w] = g("decide")]
             \/ me.pc \in Prepared /\ worker' = [worker EXCEPT ![w] = g("resolve")]
             \/ me.pc \in Prepared /\ worker' = [worker EXCEPT ![w] = b]
      <3>1. CASE Read(w)
        BY <3>1 DEF Read, Prepared
      <3>2. CASE Backoff(w)
        <4>1. CASE me.try < MaxRetries
          BY <3>2, <4>1 DEF Backoff, Prepared
        <4>2. CASE ~ (me.try < MaxRetries)
          BY <3>2, <4>2 DEF Backoff
        <4> QED BY <3>2, <4>1, <4>2 DEF Backoff
      <3> QED BY <1>4, <3>1, <3>2 DEF ReadFails, DeadlinePassed, NotRecreated, Goto
    <2>2. /\ d.pc = "exhausted" /\ b.pc = "read" /\ Same(b)
          /\ \A p \in {"decide", "resolve"} : g(p).pc = p /\ Same(g(p))
      BY <1>1 DEF WorkerState
    <2> HIDE DEF g, b, d
    <2>3. PICK s : /\ worker' = [worker EXCEPT ![w] = s]
                   /\ \/ s.pc \in {"failing", "exhausted"}
                      \/ s.pc \in {"decide", "resolve", "read"} /\ Same(s) /\ me.pc \in Prepared
      BY <1>3, <2>1, <2>2
    <2> QED BY <1>2, <2>1, <2>3, QuietSteps DEF Prepared
  <1>5. CASE Send(w) \/ RespondCreated(w) \/ RespondRejected(w) \/ RespondUnavailable(w)
    <2> DEFINE g(p) == [me EXCEPT !.pc = p]
               e(x) == [me EXCEPT !.pc = "reread", !.err = x]
    <2>1. /\ me.pc \in Prepared
          /\ \/ flight' = flight
             \/ me.pc = "send" /\ flight' = flight \cup {me.op}
             \/ me.op \in flight /\ flight' = flight \ {me.op}
          /\ \/ \E p \in {"wait", "ack"} : worker' = [worker EXCEPT ![w] = g(p)]
             \/ \E x \in {"rejected", "unavailable"} : worker' = [worker EXCEPT ![w] = e(x)]
      BY <1>5 DEF Send, RespondCreated, RespondRejected, RespondUnavailable, Goto, Prepared
    <2>2. /\ \A p \in {"wait", "ack"} : g(p).pc = p /\ Same(g(p))
          /\ \A x \in {"rejected", "unavailable"} : e(x).pc = "reread" /\ Same(e(x))
      BY <1>1 DEF WorkerState
    <2> HIDE DEF g, e
    <2>3. PICK s : /\ worker' = [worker EXCEPT ![w] = s]
                   /\ s.pc \in {"wait", "ack", "reread"} /\ Same(s)
      BY <2>1, <2>2
    <2> QED BY <1>2, <2>1, <2>3, QuietSteps DEF Prepared
  <1> QED BY <1>4, <1>5

\* A worker goes on as s while one intent changes.
LEMMA WritingSteps ==
  ASSUME IInv, Found, UNCHANGED <<phase, flight>>,
         NEW w \in Workers, NEW s, worker' = [worker EXCEPT ![w] = s], worker[w].pc # "send",
         NEW j \in Jobs, NEW r \in Records, NEW i \in Intent, phase[j] # "deleted",
         intent' = [intent EXCEPT ![j][r] = i],
         \/ s.pc # "send" /\ (Intends(j, r, i) \/ Resolves(j, r, i))
         \/ /\ s.pc = "send" /\ Issues(j, r, i)
            /\ s.op \in Requests /\ s.op[1] = j /\ s.op[2] = r,
         s.pc \in Prepared => s.job = j /\ Plan[s.idx] = r
  PROVE  JournalKept
  <1> DEFINE p == <<j, r>>
  <1>1. p \in Jobs \X Records
    OBVIOUS
  <1>2. /\ JournalStatus[p] = intent[j][r].status
        /\ JournalStatus' = [JournalStatus EXCEPT ![p] = i.status]
        /\ Issued' = IF i.attempts > 0 THEN Issued \cup {p} ELSE Issued \ {p}
        /\ i.attempts > 0 <=> Issues(j, r, i) \/ p \in Issued
        /\ Remembers /\ NoneDeleted
    BY JournalMoves
  <1>3. Found'
    <2>1. intent'[j][r].status = i.status /\ i.status # "none"
      BY DEF IInv, TypeOK, Intends, Issues, Resolves, Resolved
    <2> QED BY <1>2, <2>1, FoundMoves
  <1>4. s.pc # "send" => Loose' = Loose
    <2>1. s.pc # "send" => Under' = Under
      BY UnderMoves
    <2> QED BY <2>1 DEF Loose, Under
  <1>5. s.pc = "send" => Loose' = Loose \cup {p}
    BY UnderMoves, LooseMoves
  <1> HIDE DEF p
  <1>6. CASE s.pc # "send" /\ Intends(j, r, i)
    <2>1. i.status = "prepared" /\ ~ (i.attempts > 0) /\ intent[j][r].status = "none"
      BY <1>6 DEF Intends
    <2>2. Issued' = Issued
      BY <1>2, <2>1
    <2>3. Journal!Intend(p)
      BY <1>2, <1>4, <1>6, <2>1, <2>2 DEF Journal!Intend
    <2> QED BY <1>1, <1>3, <2>3 DEF JournalKept, Journal!Next
  <1>7. CASE s.pc # "send" /\ Resolves(j, r, i)
    <2>1. /\ intent[j][r].status \in Journal!Unresolved /\ i.status \in {"failed"} \cup Journal!Resolved
          /\ i.status = "cancelled" => ~ (i.attempts > 0) /\ ~ Issues(j, r, i)
          /\ ~ Issues(j, r, i) \/ i.attempts = intent[j][r].attempts
      BY <1>7 DEF Resolves, Issues, Journal!Unresolved, Journal!Resolved, Unresolved, Resolved
    <2>2. ~ Issues(j, r, i)
      BY <1>7 DEF Resolves, Issues, IInv, TypeOK, Intent
    <2>3. Issued' = Issued
      BY <1>2, <2>2
    <2>4. Journal!Resolve(p, i.status)
      BY <1>2, <1>4, <1>7, <2>1, <2>3 DEF Journal!Resolve
    <2>5. i.status \in Journal!Statuses
      BY <2>1 DEF Journal!Statuses, Journal!Unresolved
    <2> QED BY <1>1, <1>3, <2>4, <2>5 DEF JournalKept, Journal!Next
  <1>8. CASE s.pc = "send" /\ Issues(j, r, i)
    <2>1. /\ intent[j][r].status \in Journal!Unresolved /\ i.status = "prepared" /\ i.attempts > 0
      BY <1>2, <1>8 DEF Issues, Journal!Unresolved, Unresolved
    <2>2. Journal!Issue(p)
      BY <1>2, <1>5, <1>8, <2>1 DEF Journal!Issue
    <2> QED BY <1>1, <1>3, <2>2 DEF JournalKept, Journal!Next
  <1> QED BY <1>6, <1>7, <1>8

\* prepare_write intends a record, or finds its intent.
LEMMA PrepareJournal ==
  ASSUME IInv, Found, NEW w \in Workers, Prepare(w)
  PROVE  JournalKept
  <1> DEFINE j == worker[w].job
             r == Rec(w)
             st == IF intent[j][r].status = "none" THEN "prepared" ELSE intent[j][r].status
             i == [intent[j][r] EXCEPT !.status = st]
             s == [worker[w] EXCEPT !.pc = "read", !.seen = st]
  <1>1. /\ worker[w] \in WorkerState /\ j \in Jobs /\ r \in Records /\ r = Plan[worker[w].idx]
        /\ intent[j][r] \in Intent /\ Sound(j, r) /\ phase[j] = "running"
        /\ UNCHANGED <<jobVars, flight>> /\ worker[w].pc = "prepare"
        /\ intent' = [intent EXCEPT ![j][r].status = st]
        /\ intent \in [Jobs -> [Records -> Intent]]
    BY OwnerFacts DEF Prepare, IInv, IntentOf, Owner, Fence
  <1>2. st \in IntentStatuses /\ st # "none"
    BY <1>1 DEF Intent, IntentStatuses
  <1>3. i \in Intent /\ i.status = st /\ i.attempts = intent[j][r].attempts /\ i.attempts \in Nat
    BY <1>1, <1>2, StatusFacts
  <1>4. worker' = [worker EXCEPT ![w] = Failing(worker[w])] \/ worker' = [worker EXCEPT ![w] = s]
    BY DEF Prepare, IntentOf
  <1>5. intent' = [intent EXCEPT ![j][r] = i]
    BY <1>1
  <1>6. s.pc = "read" /\ s.job = j /\ s.idx = worker[w].idx /\ Failing(worker[w]).pc = "failing"
    BY <1>1, <1>2, FailingFacts DEF WorkerState
  <1>7. PICK x : /\ worker' = [worker EXCEPT ![w] = x] /\ x.pc \in {"read", "failing"}
                 /\ x.pc = "read" => x.job = j /\ x.idx = worker[w].idx
    BY <1>4, <1>6
  <1>8. CASE intent[j][r].status = "none"
    <2>1. Intends(j, r, i)
      <3>1. st = "prepared" /\ ~ (intent[j][r].attempts > 0)
        BY <1>1, <1>8 DEF Sound
      <3> HIDE DEF i, st
      <3>2. i.status = "prepared" /\ i.attempts = 0
        BY <1>3, <3>1
      <3> QED BY <1>8, <3>2 DEF Intends
    <2>2. /\ x.pc # "send" /\ UNCHANGED <<phase, flight>> /\ phase[j] # "deleted"
          /\ worker[w].pc # "send"
      BY <1>1, <1>7 DEF jobVars
    <2>3. x.pc \in Prepared => x.job = j /\ Plan[x.idx] = r
      BY <1>1, <1>7 DEF Prepared
    <2> HIDE DEF i, s, st, j, r
    <2>4. j \in Jobs /\ r \in Records /\ i \in Intent /\ worker' = [worker EXCEPT ![w] = x]
      BY <1>1, <1>3, <1>7
    <2> QED BY <1>5, <2>1, <2>2, <2>3, <2>4, WritingSteps
  <1>9. CASE intent[j][r].status # "none"
    <2>1. i = intent[j][r]
      BY <1>1, <1>9 DEF Intent
    <2> HIDE DEF i, s, st, r
    <2>2. UNCHANGED intent
      BY <1>1, <1>5, <2>1
    <2> HIDE DEF j
    <2>3. Found'
      <3>1. NoneDeleted /\ Remembers
        BY <1>1, <2>2 DEF NoneDeleted, Remembers, jobVars
      <3>2. Plan[x.idx] = r \/ x.pc = "failing"
        BY <1>1, <1>7
      <3>3. x.pc \in Prepared => x.job = j /\ Plan[x.idx] = r
        BY <1>7, <3>2 DEF Prepared
      <3> QED BY <1>1, <1>7, <1>9, <2>2, <3>1, <3>3, FoundMoves
    <2>4. Under' = Under
      BY <1>1, <1>7, UnderMoves
    <2>5. UNCHANGED <<JournalStatus, Issued>>
      BY <1>1, <2>2 DEF JournalStatus, Issued, jobVars
    <2> QED BY <2>3, <2>4, <2>5 DEF Loose, Under, JournalKept, Journal!vars
  <1> QED BY <1>8, <1>9

\* A mark resolves the intent, or repeats its outcome.
LEMMA MarkJournal ==
  ASSUME IInv, Found, NEW w \in Workers, Confirm(w) \/ Conflict(w) \/ Rejected(w)
  PROVE  JournalKept
  <1> DEFINE j == worker[w].job
             r == Rec(w)
  <1>1. PICK st \in {"confirmed", "conflict", "failed"}, next \in {Advanced(worker[w]), Failing(worker[w])} :
          Mark(w, st, next)
    BY DEF Confirm, Conflict, Rejected
  <1>2. /\ worker[w] \in WorkerState /\ j \in Jobs /\ r \in Records
        /\ intent[j][r] \in Intent /\ phase[j] = "running"
        /\ UNCHANGED <<jobVars, flight>> /\ worker[w].pc \in Prepared \ {"send"}
        /\ intent \in [Jobs -> [Records -> Intent]]
    BY <1>1, OwnerFacts DEF Mark, Confirm, Conflict, Rejected, Owner, Fence, Prepared
  <1>3. intent[j][r].status # "none"
    BY <1>2 DEF Found, FoundBy, Rec
  <1>4. /\ \/ UNCHANGED intent
           \/ Markable(intent[j][r], st) /\ intent' = [intent EXCEPT ![j][r].status = st]
        /\ \/ worker' = [worker EXCEPT ![w] = next]
           \/ worker' = [worker EXCEPT ![w] = Failing(worker[w])]
    BY <1>1 DEF Mark, IntentOf
  <1>5. PICK x : worker' = [worker EXCEPT ![w] = x] /\ x.pc \notin Prepared
    BY <1>2, <1>4, AdvancedFacts, FailingFacts DEF Prepared
  <1>6. CASE UNCHANGED intent
    <2>1. NoneDeleted
      BY <1>2 DEF NoneDeleted, jobVars
    <2> QED BY <1>2, <1>5, <1>6, <2>1, QuietSteps DEF Prepared
  <1>7. CASE Markable(intent[j][r], st) /\ intent' = [intent EXCEPT ![j][r].status = st]
    <2> DEFINE i == [intent[j][r] EXCEPT !.status = st]
    <2>1. st \in IntentStatuses
      BY DEF IntentStatuses
    <2>2. i \in Intent /\ i.status = st /\ i.attempts = intent[j][r].attempts /\ i.attempts \in Nat
      BY <1>2, <2>1, StatusFacts
    <2>3. intent' = [intent EXCEPT ![j][r] = i]
      BY <1>7
    <2>4. CASE intent[j][r].status \in Resolved
      <3>1. i = intent[j][r]
        BY <1>2, <1>7, <2>4 DEF Markable, Intent
      <3>2. UNCHANGED intent
        BY <1>2, <2>3, <3>1
      <3> QED BY <1>6, <3>2
    <2>5. CASE intent[j][r].status \notin Resolved
      <3>1. intent[j][r].status \in Unresolved /\ st \in {"failed"} \cup Resolved
        BY <1>2, <1>3, <2>5 DEF Unresolved, Resolved, Intent, IntentStatuses
      <3>2. Resolves(j, r, i)
        BY <2>2, <3>1 DEF Resolves
      <3>3. /\ x.pc # "send" /\ UNCHANGED <<phase, flight>> /\ phase[j] # "deleted"
            /\ worker[w].pc # "send"
        BY <1>2, <1>5 DEF jobVars, Prepared
      <3> HIDE DEF i, j, r
      <3>4. j \in Jobs /\ r \in Records /\ i \in Intent
        BY <1>2, <2>2
      <3> QED BY <1>5, <2>3, <3>2, <3>3, <3>4, WritingSteps
    <2> QED BY <2>4, <2>5
  <1> QED BY <1>4, <1>6, <1>7

\* An attempt is an issue.
LEMMA AttemptJournal ==
  ASSUME IInv, Found, NEW w \in Workers, Attempt(w)
  PROVE  JournalKept
  <1> DEFINE j == worker[w].job
             r == Rec(w)
             n == intent[j][r].attempts + 1
             i == Attempted(intent[j][r])
             s == [worker[w] EXCEPT !.pc = "send", !.op = <<j, r, n>>]
  <1>1. /\ worker[w] \in WorkerState /\ j \in Jobs /\ r \in Records /\ r = Plan[worker[w].idx]
        /\ intent[j][r] \in Intent /\ phase[j] = "running"
        /\ UNCHANGED <<jobVars, flight>> /\ worker[w].pc = "decide"
    BY OwnerFacts DEF Attempt, Owner, Fence
  <1>2. intent[j][r].status # "none"
    BY <1>1 DEF Found, FoundBy, Prepared
  <1>3. CASE worker' = [worker EXCEPT ![w] = Failing(worker[w])] /\ UNCHANGED intent
    <2>1. NoneDeleted /\ Failing(worker[w]).pc = "failing"
      BY <1>1, FailingFacts DEF NoneDeleted, jobVars
    <2> QED BY <1>1, <1>3, <2>1, QuietSteps DEF Prepared
  <1>4. CASE /\ intent[j][r].status \notin Resolved
             /\ intent' = [intent EXCEPT ![j][r] = i]
             /\ worker' = [worker EXCEPT ![w] = s]
    <2>1. n \in Nat
      BY <1>1 DEF Intent
    <2>2. i \in Intent /\ i.status = "prepared" /\ i.attempts = n
      BY <2>1 DEF Attempted, Intent, IntentStatuses
    <2>3. <<j, r, n>> \in Requests
      BY <1>1, <2>1 DEF Requests
    <2>4. /\ s.pc = "send" /\ s.op = <<j, r, n>>
          /\ s.job = worker[w].job /\ s.idx = worker[w].idx
      BY <1>1 DEF WorkerState
    <2>5. s.op \in Requests /\ s.op[1] = j /\ s.op[2] = r
      BY <2>3, <2>4
    <2>6. Issues(j, r, i)
      BY <1>1, <1>2, <1>4, <2>2 DEF Issues, Unresolved, Resolved, Intent, IntentStatuses
    <2>7. s.job = j /\ Plan[s.idx] = r /\ s.pc = "send"
      BY <1>1, <2>4
    <2> HIDE DEF s, i, n, r, j
    <2> QED BY <1>1, <1>4, <2>2, <2>5, <2>6, <2>7, WritingSteps DEF jobVars
  <1> QED BY <1>3, <1>4 DEF Attempt, IntentOf

\* A reconciliation resolves the intent, finds it resolved, or finds none.
LEMMA SettleJournal ==
  ASSUME IInv, Found, NEW w \in Workers, Settle(w)
  PROVE  JournalKept
  <1> DEFINE j == worker[w].op[1]
             r == worker[w].op[2]
             down == [Blank EXCEPT !.pc = "down"]
             i(st) == Reconciled(intent[j][r], st)
  <1>1. /\ worker[w] \in WorkerState /\ worker[w].op \in Requests /\ worker[w].pc = "settle"
        /\ UNCHANGED <<jobVars, flight>> /\ intent \in [Jobs -> [Records -> Intent]]
    BY OwnerFacts DEF IInv, Working, Settle, SettleCancelled, SettleSeen
  <1>2. j \in Jobs /\ r \in Records /\ intent[j][r] \in Intent
    BY <1>1 DEF Requests
  <1>3. down.pc = "down" /\ Resumed(worker[w]).pc \in {"observe", "ready", "prepare"}
    BY <1>1, BlankFacts, ResumedFacts
  <1>4. PICK s : /\ worker' = [worker EXCEPT ![w] = s] /\ s.pc \in {"down", "observe", "ready", "prepare"}
                 /\ \/ UNCHANGED intent
                    \/ \E st \in {"confirmed", "conflict", "cancelled"} :
                         /\ intent' = [intent EXCEPT ![j][r] = i(st)]
                         /\ st = "cancelled" => intent[j][r].status = "none" \/ intent[j][r].attempts = 0
    <2>1. CASE SettleCancelled(w)
      <3>1. CASE worker' = [worker EXCEPT ![w] = down] /\ UNCHANGED intent
        BY <1>3, <3>1
      <3>2. CASE /\ intent[j][r].status # "none" => Cancellable(j, r)
                 /\ worker' = [worker EXCEPT ![w] = Resumed(worker[w])]
                 /\ intent' = [intent EXCEPT ![j][r] = i("cancelled")]
        BY <1>3, <3>2 DEF Cancellable
      <3> QED BY <2>1, <3>1, <3>2 DEF SettleCancelled
    <2>2. CASE SettleSeen(w)
      <3>1. /\ worker' = [worker EXCEPT ![w] = Resumed(worker[w])]
            /\ \/ intent' = [intent EXCEPT ![j][r] = i("confirmed")]
               \/ intent' = [intent EXCEPT ![j][r] = i("conflict")]
        BY <2>2 DEF SettleSeen
      <3> QED BY <1>3, <3>1
    <2> QED BY <2>1, <2>2 DEF Settle
  <1>5. s.pc \notin Prepared /\ worker[w].pc \notin Prepared
    BY <1>1, <1>4 DEF Prepared
  <1>6. CASE UNCHANGED intent
    <2>1. NoneDeleted
      BY <1>1 DEF NoneDeleted, jobVars
    <2> QED BY <1>1, <1>4, <1>5, <1>6, <2>1, QuietSteps DEF Prepared
  <1>7. ASSUME NEW st \in {"confirmed", "conflict", "cancelled"},
               intent' = [intent EXCEPT ![j][r] = i(st)],
               st = "cancelled" => intent[j][r].status = "none" \/ intent[j][r].attempts = 0
        PROVE  JournalKept
    <2>1. CASE intent[j][r].status \notin Unresolved
      <3>1. UNCHANGED intent
        BY <1>1, <1>2, <1>7, <2>1 DEF Reconciled
      <3> QED BY <1>6, <3>1
    <2>2. CASE intent[j][r].status \in Unresolved
      <3> DEFINE x == i(st)
      <3>1. st \in IntentStatuses /\ st \in Resolved
        BY DEF IntentStatuses, Resolved
      <3>2. x \in Intent /\ x.status = st /\ x.attempts = intent[j][r].attempts
        BY <1>2, <2>2, <3>1, ReconciledFacts
      <3>3. intent[j][r].status # "none" /\ phase[j] # "deleted"
        BY <1>2, <2>2 DEF Unresolved, Found
      <3> HIDE DEF x, i, j, r
      <3>4. Resolves(j, r, x)
        BY <1>7, <2>2, <3>1, <3>2, <3>3 DEF Resolves
      <3>5. intent' = [intent EXCEPT ![j][r] = x]
        BY <1>7 DEF x
      <3>6. s.pc # "send" /\ worker[w].pc # "send" /\ UNCHANGED <<phase, flight>>
        BY <1>1, <1>4 DEF jobVars
      <3> QED BY <1>2, <1>4, <1>5, <3>2, <3>3, <3>4, <3>5, <3>6, WritingSteps
    <2> QED BY <2>1, <2>2
  <1> QED BY <1>4, <1>6, <1>7

\* The journal of a deleted job is forgotten.
LEMMA DeletingJournal ==
  ASSUME IInv, Found, NEW j \in Jobs, DeleteJob(j)
  PROVE  JournalKept
  <1> DEFINE none == [status |-> "none", attempts |-> 0]
             gone == {j} \X Records
  <1>1. /\ intent' = [intent EXCEPT ![j] = [r \in Records |-> none]]
        /\ phase' = [phase EXCEPT ![j] = "deleted"]
        /\ UNCHANGED <<flight, worker>>
    BY DEF DeleteJob, Life!Remove, Life!Enters
  <1>2. none.status = "none" /\ none.attempts = 0
    OBVIOUS
  <1> HIDE DEF none
  <1>3. \A k \in Jobs : \A r \in Records :
          /\ intent'[k][r] = IF k = j THEN none ELSE intent[k][r]
          /\ phase'[k] = IF k = j THEN "deleted" ELSE phase[k]
    BY <1>1 DEF IInv, TypeOK
  <1>4. Found'
    <2>1. ASSUME NEW w \in Workers, worker[w].pc \in Prepared, phase'[worker[w].job] # "deleted"
          PROVE  worker[w].job \in Jobs /\ intent'[worker[w].job][Plan[worker[w].idx]].status # "none"
      <3>1. worker[w].job \in Jobs /\ FoundBy(w) /\ Plan[worker[w].idx] \in Records
        BY <2>1, OwnerFacts, PlanFacts DEF Found, FoundBy, WorkerState
      <3>2. worker[w].job # j
        BY <1>1, <2>1, <3>1 DEF IInv, TypeOK
      <3> QED BY <1>3, <2>1, <3>1, <3>2 DEF FoundBy
    <2>2. \A w \in Workers : worker[w].pc \in Prepared => worker[w].job \in Jobs
      BY DEF Found, FoundBy
    <2>3. ASSUME NEW k \in Jobs, NEW r \in Records, phase'[k] = "deleted"
          PROVE  intent'[k][r].status = "none"
      BY <1>2, <1>3, <2>3 DEF Found
    <2> QED BY <1>1, <2>1, <2>2, <2>3 DEF Found, FoundBy
  <1>5. \A p \in Jobs \X Records :
          /\ p[1] \in Jobs /\ p[2] \in Records /\ (p \in gone <=> p[1] = j)
          /\ intent'[p[1]][p[2]] = IF p \in gone THEN none ELSE intent[p[1]][p[2]]
          /\ phase'[p[1]] = IF p \in gone THEN "deleted" ELSE phase[p[1]]
    <2>1. ASSUME NEW p \in Jobs \X Records
          PROVE  p[1] \in Jobs /\ p[2] \in Records /\ (p \in gone <=> p[1] = j)
      OBVIOUS
    <2> QED BY <1>3, <2>1
  <1>6. gone \in SUBSET (Jobs \X Records) /\ \A p \in gone : p[1] = j /\ p[2] \in Records
    OBVIOUS
  <1> HIDE DEF gone
  <1>7. JournalStatus' = [p \in Jobs \X Records |-> IF p \in gone THEN "forgotten" ELSE JournalStatus[p]]
    BY <1>5 DEF JournalStatus
  <1>8. Issued' = Issued \ gone
    <2>1. \A p \in Jobs \X Records : p \in Issued' <=> p \in Issued /\ p \notin gone
      BY <1>2, <1>5 DEF Issued
    <2> QED BY <2>1 DEF Issued
  <1>9. Loose' = Loose
    BY <1>1 DEF Loose
  <1>10. Journal!Forget(gone)
    BY <1>7, <1>8, <1>9 DEF Journal!Forget
  <1> QED BY <1>4, <1>6, <1>10 DEF JournalKept, Journal!Next

\* What happens to the jobs and in Twenty lands a request at most.
LEMMA OutsideJournal ==
  ASSUME IInv, Found,
         \/ \E j \in Jobs :
              Submit(j) \/ CancelJob(j) \/ RetryFailedJob(j) \/ ClearDelete(j) \/ Lapse(j)
         \/ \E r \in Records, state \in {"missing", "foreign"} : EditRecord(r, state)
         \/ \E req \in flight : Arrive(req) \/ Vanish(req)
         \/ UNCHANGED vars
  PROVE  JournalKept
  <1>1. UNCHANGED <<intent, worker>>
    BY DEF Submit, CancelJob, RetryFailedJob, ClearDelete, Lapse, EditRecord, Arrive, Vanish, vars,
           Publishing
  <1>2. NoneDeleted
    <2>1. ASSUME NEW j \in Jobs, Submit(j) \/ CancelJob(j) \/ RetryFailedJob(j)
          PROVE  NoneDeleted
      <3>1. PICK p \in {"queued", "cancelled"} : phase' = [phase EXCEPT ![j] = p] /\ phase[j] # "deleted"
        BY <2>1 DEF Submit, CancelJob, RetryFailedJob, Life!Submit, Life!Cancel, Life!Retry,
                    Life!Enters
      <3> QED BY <3>1 DEF NoneDeleted, IInv, TypeOK
    <2> QED BY <2>1 DEF NoneDeleted, ClearDelete, Lapse, EditRecord, Arrive, Vanish, vars, jobVars
  <1>3. UNCHANGED <<JournalStatus, Issued>> /\ Remembers
    BY <1>1, <1>2, SameJournal
  <1>4. Found'
    <2>1. ASSUME NEW w \in Workers PROVE FoundBy(w)'
      BY <1>1, <1>2 DEF Found, FoundBy, NoneDeleted
    <2> QED BY <1>1, <1>2, <2>1 DEF Found, NoneDeleted
  <1>5. CASE UNCHANGED flight
    BY <1>1, <1>3, <1>4, <1>5 DEF JournalKept, Journal!vars, Loose
  <1>6. ASSUME NEW req \in flight, Arrive(req) \/ Vanish(req) PROVE JournalKept
    <2>1. req \in Requests /\ flight' = flight \ {req}
      BY <1>6 DEF IInv, TypeOK, Arrive, Vanish
    <2>2. Under' \subseteq Under /\ Under \subseteq Under' \cup {req}
      BY <1>1, <2>1 DEF Under
    <2>3. Loose' = Loose \/ Loose' = Loose \ {<<req[1], req[2]>>}
      BY <2>1, <2>2, LooseMoves
    <2> QED BY <1>3, <1>4, <2>1, <2>3, Landed DEF JournalKept
  <1> QED BY <1>5, <1>6 DEF Submit, CancelJob, RetryFailedJob, ClearDelete, Lapse, EditRecord, vars,
                            Publishing

\* Every step is a step of WriteJournal or none.
LEMMA JournalStep == IInv /\ Found /\ [Next]_vars => JournalKept
  <1> SUFFICES ASSUME IInv, Found, [Next]_vars PROVE JournalKept
    OBVIOUS
  <1>1. ASSUME NEW w \in Workers, Publish(w) PROVE JournalKept
    BY <1>1, PublishJournal, PrepareJournal, MarkJournal, AttemptJournal DEF Publish
  <1>2. ASSUME NEW w \in Workers, Run(w) \/ Crash(w) PROVE JournalKept
    BY <1>1, <1>2, ExecutionJournal, SettleJournal DEF Run
  <1>3. ASSUME NEW j \in Jobs, DeleteJob(j) PROVE JournalKept
    BY <1>3, DeletingJournal
  <1> QED BY <1>2, <1>3, OutsideJournal DEF Next

\* Nothing is intended in the beginning.
LEMMA JournalInit == Init => Journal!Init /\ Found
  <1> SUFFICES ASSUME Init PROVE Journal!Init /\ Found
    OBVIOUS
  <1>1. worker = [w \in Workers |-> Blank] /\ Blank.pc = "idle" /\ flight = {}
    BY DEF Init, Blank
  <1>2. /\ \A j \in Jobs : \A r \in Records : intent[j][r].status = "none" /\ intent[j][r].attempts = 0
        /\ \A j \in Jobs : phase[j] = "absent"
    BY DEF Init, Life!Init
  <1>3. Found /\ Loose = {}
    BY <1>1, <1>2 DEF Found, FoundBy, Prepared, Loose
  <1>4. \A p \in Jobs \X Records : p[1] \in Jobs /\ p[2] \in Records
    OBVIOUS
  <1> QED BY <1>2, <1>3, <1>4 DEF Journal!Init, JournalStatus, Issued

\* The journal of published records keeps every promise of WriteJournal, for any
\* number of jobs and workers, every plan and all bounds: a create that may take
\* effect was counted before and is not cancelled, and outcomes are not revised
\* while the journal exists, although stale requests retry and delete jobs that
\* run (crm_writes.py, _publish, reconcile_pending).
THEOREM JournalIsKept == Spec => JournalSpec
  <1>1. IInv /\ Found /\ [Next]_vars => [Journal!Next]_(Journal!vars) /\ Found'
    BY JournalStep DEF JournalKept
  <1> QED BY <1>1, JournalInit, Invariance, PTL DEF Spec, JournalSpec, Journal!Spec

=============================================================================
