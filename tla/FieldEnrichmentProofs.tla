------------------------ MODULE FieldEnrichmentProofs ------------------------
(***************************************************************************)
(* Proofs about FieldEnrichment, for any fields, any number of workers and *)
(* all bounds.                                                             *)
(*                                                                         *)
(* Neither property rests on the job or its claims.  People win because    *)
(* every edit takes the version of the record away from the updates that   *)
(* were decided before it (Fresh), and the journal is true because what    *)
(* was once read stays in the history of the record while the worker goes  *)
(* on with it (Seen).  That the journal is kept as WriteJournal has it     *)
(* rests on one fact more: who fills a field has found its intent (Found). *)
(***************************************************************************)
EXTENDS FieldEnrichment, NaturalsInduction, WellFoundedInduction, TLAPS

-----------------------------------------------------------------------------
(* The inductive invariant *)

\* The field a worker works on.
Current(me) == Order[First(me.rest)]

\* Whoever read x knows of every edit, unless the record has another version by now.
Fresh(x, rec, n) == x.version <= rec.version /\ (x.version = rec.version => x.known = n)

\* A value that says something was held.
Seen(f, v, h) == v \in {"proposed", "other"} => <<f, v>> \in h

\* The steps of fill_missing with a field at hand.
Filling == {"prepare", "read", "decide", "send", "wait", "ack", "rejected", "reread", "resolve"}

\* What a worker goes on with is fresh, or has been seen.
Working(me, rec, n, h) ==
  /\ me.try <= MaxRetries
  /\ me.pc \in Filling => me.rest # {}
  /\ me.pc \in {"send", "wait"} => me.op.field = Current(me)
  /\ me.pc = "decide" => Fresh(me.got, rec, n)
  /\ me.pc = "send" => Fresh(me.op, rec, n)
  /\ me.pc \in {"decide", "resolve"} => Seen(Current(me), me.got.value, h)
  /\ me.pc = "settle" => Seen(me.op.field, me.got.value, h)
  /\ me.pc = "ack" => Seen(Current(me), "proposed", h)

IInv ==
  /\ TypeOK /\ worker \in [Workers -> WorkerState]
  /\ \A f \in Fields : Seen(f, record.value[f], held)
  /\ \A u \in flight : Fresh(u, record, edits)
  /\ \A w \in Workers : Working(worker[w], record, edits, held)
  /\ OutcomesObserved

-----------------------------------------------------------------------------
(* The fields and the states of a worker *)

\* A set of places has a first one.
LEMMA FirstFacts ==
  ASSUME NEW s \in SUBSET (1..Len(Order)), s # {}
  PROVE  First(s) \in s /\ Order[First(s)] \in Fields
  <1>1. Len(Order) \in Nat /\ s \subseteq Nat
    BY OrderAssumption
  <1>2. \E k \in s : \A m \in s : ~ (<<m, k>> \in OpToRel(<, Nat))
    BY <1>1, NatLessThanWellFounded, WFMin
  <1>3. ASSUME NEW k \in Nat, NEW m \in Nat, ~ (<<m, k>> \in OpToRel(<, Nat)) PROVE k <= m
    BY <1>3 DEF OpToRel
  <1>4. \E k \in s : \A m \in s : k <= m
    BY <1>1, <1>2, <1>3
  <1> QED BY <1>4 DEF First, Fields

\* There is a first field.
LEMMA OrderFacts == Order[1] \in Fields /\ Len(Order) \in Nat \ {0}
  <1>1. Len(Order) \in Nat \ {0}
    BY OrderAssumption
  <1> QED BY <1>1 DEF Fields

\* The update and the reading of a worker that has none.
LEMMA NothingFacts ==
  /\ NoUpdate \in Updates
  /\ Unread \in [value : Values \cup {"gone"}, version : Nat, known : Nat]
  BY OrderFacts DEF NoUpdate, Unread, Updates

\* A worker without a task.
LEMMA BlankFacts ==
  /\ Blank \in WorkerState /\ Blank.pc = "idle" /\ Blank.claim = 0 /\ Blank.try = 0
  /\ [Blank EXCEPT !.pc = "ready"] \in WorkerState
  /\ [Blank EXCEPT !.pc = "ready"].pc = "ready" /\ [Blank EXCEPT !.pc = "ready"].claim = 0
  /\ [Blank EXCEPT !.pc = "ready"].try = 0
  BY NothingFacts DEF Blank, WorkerState, Steps

\* A worker that has claimed the job.
LEMMA ClaimedFacts ==
  ASSUME NEW n \in Nat
  PROVE  LET s == [Blank EXCEPT !.pc = "claimed", !.claim = n]
         IN  s \in WorkerState /\ s.pc = "claimed" /\ s.claim = n /\ s.try = 0
  <1> HIDE DEF Blank
  <1> QED BY BlankFacts DEF WorkerState, Steps

\* A worker that goes on from an operation.
LEMMA ResumedFacts ==
  ASSUME NEW me \in WorkerState
  PROVE  /\ Resumed(me) \in WorkerState /\ Resumed(me).pc \in {"observe", "ready", "load"}
         /\ Resumed(me).claim = me.claim /\ Resumed(me).try = me.try
  BY NothingFacts DEF Resumed, WorkerState, Steps

\* A worker that goes on to the next field, or has filled the last.
LEMMA AdvancedFacts ==
  ASSUME NEW me \in WorkerState
  PROVE  /\ Advanced(me) \in WorkerState /\ Advanced(me).claim = me.claim /\ Advanced(me).try = 0
         /\ \/ Advanced(me).pc = "complete"
            \/ Advanced(me).pc = "prepare" /\ (me.rest # {} => Advanced(me).rest # {})
  <1> DEFINE s(p) == [me EXCEPT !.rest = me.rest \ {First(me.rest)}, !.try = 0, !.got = Unread,
                                !.op = NoUpdate, !.pc = p]
  <1>1. ASSUME NEW p \in {"complete", "prepare"}
        PROVE  /\ s(p) \in WorkerState /\ s(p).claim = me.claim /\ s(p).try = 0 /\ s(p).pc = p
               /\ s(p).rest = me.rest \ {First(me.rest)}
    BY NothingFacts DEF WorkerState, Steps
  <1>2. CASE me.rest = {First(me.rest)}
    <2>1. Advanced(me) = s("complete")
      BY <1>2 DEF Advanced
    <2> HIDE DEF s
    <2> QED BY <1>1, <2>1
  <1>3. CASE me.rest # {First(me.rest)}
    <2>1. Advanced(me) = s("prepare")
      BY <1>3 DEF Advanced
    <2> HIDE DEF s
    <2>2. me.rest # {} => me.rest \ {First(me.rest)} # {}
      BY <1>3
    <2> QED BY <1>1, <2>1, <2>2
  <1> QED BY <1>2, <1>3

\* A worker whose execution fails.
LEMMA FailingFacts ==
  ASSUME NEW me \in WorkerState
  PROVE  /\ Failing(me) \in WorkerState /\ Failing(me).pc = "failing"
         /\ Failing(me).claim = me.claim /\ Failing(me).try = me.try
  BY NothingFacts DEF Failing, WorkerState, Steps

\* A worker that tries again, or reads a last time.
LEMMA RetryingFacts ==
  ASSUME NEW me \in WorkerState, me.try <= MaxRetries
  PROVE  /\ Retrying(me) \in WorkerState /\ Retrying(me).pc \in {"read", "reread"}
         /\ Retrying(me).claim = me.claim /\ Retrying(me).try <= MaxRetries
         /\ Retrying(me).rest = me.rest
  <1> DEFINE s(n) == [me EXCEPT !.pc = "read", !.try = n, !.op = NoUpdate]
             t == [me EXCEPT !.pc = "reread", !.op = NoUpdate]
  <1>1. me.try \in Nat /\ MaxRetries \in Nat
    BY BoundsAssumption DEF WorkerState
  <1>2. ASSUME NEW n \in Nat
        PROVE  /\ s(n) \in WorkerState /\ s(n).pc = "read" /\ s(n).claim = me.claim
               /\ s(n).try = n /\ s(n).rest = me.rest
    BY NothingFacts DEF WorkerState, Steps
  <1>3. /\ t \in WorkerState /\ t.pc = "reread" /\ t.claim = me.claim
        /\ t.try = me.try /\ t.rest = me.rest
    BY NothingFacts DEF WorkerState, Steps
  <1>4. CASE me.try < MaxRetries
    <2>1. Retrying(me) = s(me.try + 1)
      BY <1>4 DEF Retrying
    <2> HIDE DEF s
    <2> QED BY <1>1, <1>2, <1>4, <2>1
  <1>5. CASE ~ (me.try < MaxRetries)
    <2>1. Retrying(me) = t
      BY <1>5 DEF Retrying
    <2> HIDE DEF t
    <2> QED BY <1>3, <2>1
  <1> QED BY <1>4, <1>5

\* A worker at another step.
LEMMA PcFacts ==
  ASSUME NEW me \in WorkerState, NEW p \in Steps
  PROVE  LET s == [me EXCEPT !.pc = p]
         IN  /\ s \in WorkerState /\ s.pc = p /\ s.claim = me.claim /\ s.try = me.try
             /\ s.rest = me.rest /\ s.op = me.op /\ s.got = me.got
  BY DEF WorkerState

\* A record after a write.
LEMMA WrittenFacts ==
  ASSUME record \in Record, NEW f \in Fields, NEW v \in Values
  PROVE  /\ Written(f, v) \in Record /\ Written(f, v).version = record.version + 1
         /\ Written(f, v).value = [record.value EXCEPT ![f] = v]
  <1> DEFINE e == [record EXCEPT !.version = record.version + 1]
  <1>1. e \in Record /\ e.version = record.version + 1 /\ e.value = record.value
    BY DEF Record
  <1>2. Written(f, v) = [e EXCEPT !.value = [record.value EXCEPT ![f] = v]]
    BY DEF Written
  <1>3. [record.value EXCEPT ![f] = v] \in [Fields -> Values]
    BY DEF Record
  <1> HIDE DEF e
  <1>4. LET x == [e EXCEPT !.value = [record.value EXCEPT ![f] = v]]
        IN  /\ x \in Record /\ x.version = e.version
            /\ x.value = [record.value EXCEPT ![f] = v]
    BY <1>1, <1>3 DEF Record
  <1> QED BY <1>1, <1>2, <1>4

\* Nothing has been read or written in the beginning.
LEMMA InvInit == Init => IInv
  <1> SUFFICES ASSUME Init PROVE IInv
    OBVIOUS
  <1>1. worker \in [Workers -> WorkerState] /\ \A w \in Workers : worker[w] = Blank
    BY BlankFacts DEF Init
  <1>2. record \in Record /\ \A f \in Fields : record.value[f] = "empty"
    BY DEF Init, Record, Values
  <1>3. intent \in [Fields -> Intent] /\ \A f \in Fields : intent[f].status = "none"
    BY DEF Init, Intent
  <1>4. phase \in {"queued", "running", "failed", "finished"} /\ claim \in 0..MaxClaims
        /\ lapsed \in BOOLEAN /\ edits \in 0..MaxEdits /\ claim = 0
    <2>1. lapsed \in BOOLEAN /\ phase \in {"queued", "running", "failed", "finished"}
      BY DEF Init
    <2>2. claim \in 0..MaxClaims /\ edits \in 0..MaxEdits /\ claim = 0
      BY BoundsAssumption DEF Init
    <2> QED BY <2>1, <2>2
  <1>5. TypeOK
    BY <1>1, <1>2, <1>3, <1>4, BlankFacts, BoundsAssumption DEF TypeOK, WorkerState, Init
  <1>6. ASSUME NEW w \in Workers PROVE Working(worker[w], record, edits, held)
    BY <1>1, BlankFacts, BoundsAssumption DEF Working, Filling
  <1> QED BY <1>1, <1>2, <1>3, <1>5, <1>6 DEF IInv, Init, Seen, OutcomesObserved

-----------------------------------------------------------------------------
(* Steps *)

\* What may happen to the record: nothing, or a change that takes its version away.
Passes ==
  /\ record' \in Record /\ edits' \in 0..MaxEdits
  /\ held \subseteq held' /\ held' \subseteq Fields \X Values
  /\ \/ record'.version > record.version
     \/ record'.version = record.version /\ edits' = edits
  /\ \A f \in Fields : Seen(f, record'.value[f], held')

\* What may happen to the journal: an outcome is recorded when it has been seen.
Writes ==
  /\ intent' \in [Fields -> Intent]
  /\ \A f \in Fields :
       intent'[f].status \notin {"confirmed", "conflict"} \/ intent'[f].status = intent[f].status
       \/ (intent'[f].status = "confirmed" /\ <<f, "proposed">> \in held)
       \/ (intent'[f].status = "conflict" /\ <<f, "other">> \in held)

\* What was fresh or seen stays so while the record only passes on.
LEMMA Lasts ==
  ASSUME IInv, Passes
  PROVE  /\ \A x \in Updates : Fresh(x, record, edits) => Fresh(x, record', edits')
         /\ \A w \in Workers : Working(worker[w], record', edits', held')
  <1>1. record.version \in Nat /\ record'.version \in Nat
    BY DEF IInv, TypeOK, Passes, Record
  <1>2. ASSUME NEW x, x.version \in Nat, Fresh(x, record, edits) PROVE Fresh(x, record', edits')
    BY <1>1, <1>2 DEF Fresh, Passes
  <1>3. ASSUME NEW w \in Workers PROVE Working(worker[w], record', edits', held')
    <2>1. Working(worker[w], record, edits, held) /\ worker[w] \in WorkerState
      BY DEF IInv
    <2>2. worker[w].got.version \in Nat /\ worker[w].op.version \in Nat
      BY <2>1 DEF WorkerState, Updates
    <2>3. ASSUME NEW f, NEW v, Seen(f, v, held) PROVE Seen(f, v, held')
      BY <2>3 DEF Seen, Passes
    <2> QED BY <1>2, <2>1, <2>2, <2>3 DEF Working
  <1> QED BY <1>2, <1>3 DEF Updates

\* A step in which each worker stays or goes on with what it has.
LEMMA Grows ==
  ASSUME IInv, Passes, Writes,
         phase' \in {"queued", "running", "failed", "finished"},
         claim' \in 0..MaxClaims, claim <= claim', lapsed' \in BOOLEAN,
         flight' \subseteq Updates, \A u \in flight' : u \in flight \/ Fresh(u, record', edits'),
         worker' \in [Workers -> WorkerState],
         \A w \in Workers :
           \/ worker'[w] = worker[w]
           \/ worker'[w].claim <= claim' /\ Working(worker'[w], record', edits', held')
  PROVE  IInv'
  <1>1. ASSUME NEW w \in Workers
        PROVE  worker'[w].claim <= claim' /\ Working(worker'[w], record', edits', held')
    <2>1. worker[w].claim \in Nat /\ worker[w].claim <= claim /\ claim \in Nat /\ claim' \in Nat
      BY DEF IInv, TypeOK
    <2> QED BY <2>1, Lasts
  <1>2. \A u \in flight' : Fresh(u, record', edits')
    BY Lasts DEF IInv, TypeOK
  <1>3. OutcomesObserved'
    BY DEF IInv, OutcomesObserved, Writes, Passes
  <1>4. TypeOK'
    <2>1. ASSUME NEW w \in Workers
          PROVE  /\ worker'[w].pc \in Steps /\ worker'[w].claim \in 0..claim'
                 /\ worker'[w].rest \subseteq 1..Len(Order) /\ worker'[w].op \in Updates
                 /\ worker'[w].try \in 0..MaxRetries
      <3>1. worker'[w] \in WorkerState /\ claim' \in Nat
        OBVIOUS
      <3>2. worker'[w].claim \in Nat /\ worker'[w].try \in Nat /\ worker'[w].try <= MaxRetries
        BY <1>1, <3>1 DEF WorkerState, Working
      <3> QED BY <1>1, <3>1, <3>2, BoundsAssumption DEF WorkerState
    <2> QED BY <2>1 DEF TypeOK, Passes, Writes
  <1>5. \A f \in Fields : Seen(f, record'.value[f], held')
    BY DEF Passes
  <1> QED BY <1>1, <1>2, <1>3, <1>4, <1>5 DEF IInv

\* The variables have their types.
LEMMA Typed ==
  ASSUME IInv
  PROVE  /\ phase \in {"queued", "running", "failed", "finished"}
         /\ claim \in 0..MaxClaims /\ claim \in Nat /\ lapsed \in BOOLEAN /\ edits \in 0..MaxEdits
         /\ intent \in [Fields -> Intent] /\ record \in Record /\ flight \subseteq Updates
         /\ worker \in [Workers -> WorkerState] /\ held \subseteq Fields \X Values
         /\ \A w \in Workers : worker[w] \in WorkerState /\ worker[w].claim <= claim
                               /\ worker[w].claim \in Nat /\ worker[w].try <= MaxRetries
                               /\ Working(worker[w], record, edits, held)
         /\ \A f \in Fields : Seen(f, record.value[f], held) /\ record.value[f] \in Values
  <1>1. claim \in 0..MaxClaims /\ MaxClaims \in Nat
    BY BoundsAssumption DEF IInv, TypeOK
  <1>2. ASSUME NEW w \in Workers
        PROVE  worker[w] \in WorkerState /\ worker[w].claim <= claim
               /\ worker[w].claim \in Nat /\ worker[w].try <= MaxRetries
               /\ Working(worker[w], record, edits, held)
    BY <1>1 DEF IInv, TypeOK, Working
  <1> QED BY <1>1, <1>2 DEF IInv, TypeOK, Record

\* The record does not change.
LEMMA Stays ==
  ASSUME IInv, UNCHANGED crmVars
  PROVE  Passes
  <1>1. record.version \in Nat
    BY Typed DEF Record
  <1> QED BY <1>1, Typed DEF Passes, crmVars

\* The journal does not change.
LEMMA Kept ==
  ASSUME IInv, UNCHANGED intent
  PROVE  Writes
  BY Typed DEF Writes

\* Steps of the job alone.
LEMMA JobSteps ==
  ASSUME IInv, CancelJob \/ RetryJob \/ Lapse \/ UNCHANGED vars
  PROVE  IInv'
  <1>1. UNCHANGED <<crmVars, intent, flight, worker, claim>>
    BY DEF CancelJob, RetryJob, Lapse, vars, crmVars
  <1>2. Passes /\ Writes
    BY <1>1, Stays, Kept
  <1>3. phase' \in {"queued", "running", "failed", "finished"} /\ lapsed' \in BOOLEAN
    BY Typed DEF CancelJob, RetryJob, Lapse, vars
  <1>4. claim' \in 0..MaxClaims /\ claim <= claim'
    BY <1>1, Typed
  <1>5. flight' \subseteq Updates /\ worker' \in [Workers -> WorkerState]
    BY <1>1, Typed
  <1> QED BY <1>1, <1>2, <1>3, <1>4, <1>5, Grows

\* A step of a worker that goes on as s.
LEMMA WorkerMoves ==
  ASSUME IInv, UNCHANGED jobVars, Passes, Writes,
         flight' \subseteq Updates, \A u \in flight' : u \in flight \/ Fresh(u, record', edits'),
         NEW w \in Workers, NEW s \in WorkerState, worker' = [worker EXCEPT ![w] = s],
         s.claim = worker[w].claim \/ s.claim = 0, Working(s, record', edits', held')
  PROVE  IInv'
  <1>1. s.claim <= claim'
    BY Typed DEF jobVars
  <1>2. \A v \in Workers : worker'[v] = worker[v] \/ worker'[v] = s
    BY Typed
  <1>3. /\ phase' \in {"queued", "running", "failed", "finished"} /\ lapsed' \in BOOLEAN
        /\ claim' \in 0..MaxClaims /\ claim <= claim'
    BY Typed DEF jobVars
  <1>4. worker' \in [Workers -> WorkerState]
    BY Typed
  <1> QED BY <1>1, <1>2, <1>3, <1>4, Grows

\* A step of a worker that touches neither the record nor what is under way.
LEMMA QuietMoves ==
  ASSUME IInv, UNCHANGED <<jobVars, crmVars, flight>>, Writes,
         NEW w \in Workers, NEW s \in WorkerState, worker' = [worker EXCEPT ![w] = s],
         s.claim = worker[w].claim \/ s.claim = 0, Working(s, record, edits, held)
  PROVE  IInv'
  <1>1. Passes /\ Working(s, record', edits', held')
    BY Stays DEF crmVars
  <1>2. flight' = flight /\ flight' \subseteq Updates
    BY Typed
  <1> QED BY <1>1, <1>2, WorkerMoves

\* A worker that has nothing at hand, or only a field to begin with.
LEMMA NothingAtHand ==
  ASSUME NEW s, s.try <= MaxRetries,
         \/ s.pc \in Steps \ (Filling \cup {"settle"})
         \/ s.pc \in {"prepare", "read", "rejected", "reread"} /\ s.rest # {}
  PROVE  Working(s, record, edits, held)
  BY DEF Working, Filling, Steps

\* An execution begins or ends.
LEMMA ExecutionSteps ==
  ASSUME IInv, NEW w \in Workers, ClaimNext(w) \/ Complete(w) \/ FailJob(w) \/ Stop(w)
  PROVE  IInv'
  <1>1. UNCHANGED <<crmVars, intent, flight>>
    BY DEF ClaimNext, Complete, FailJob, Stop
  <1>2. Passes /\ Writes /\ flight' \subseteq Updates
    BY <1>1, Stays, Kept, Typed
  <1>3. ASSUME NEW s \in WorkerState, worker' = [worker EXCEPT ![w] = s],
               s.pc \in {"idle", "claimed"}, s.try = 0, s.claim <= claim',
               phase' \in {"queued", "running", "failed", "finished"}, lapsed' \in BOOLEAN,
               claim' \in 0..MaxClaims, claim <= claim'
        PROVE  IInv'
    <2>1. Working(s, record', edits', held')
      BY <1>3, BoundsAssumption DEF Working, Filling
    <2>2. worker' \in [Workers -> WorkerState] /\ \A v \in Workers : worker'[v] = worker[v] \/ worker'[v] = s
      BY <1>3, Typed
    <2> QED BY <1>1, <1>2, <1>3, <2>1, <2>2, Grows
  <1>4. CASE Leave(w) /\ UNCHANGED claim
    <2>1. phase' \in {"queued", "running", "failed", "finished"} /\ lapsed' \in BOOLEAN
      BY <1>4, Typed DEF ClaimNext, Complete, FailJob, Stop, jobVars
    <2>2. Blank.claim <= claim' /\ claim' \in 0..MaxClaims /\ claim <= claim'
      BY <1>4, Typed, BlankFacts
    <2> QED BY <1>3, <1>4, <2>1, <2>2, BlankFacts DEF Leave
  <1>5. CASE /\ phase' = "running" /\ claim' = claim + 1 /\ lapsed' = FALSE /\ claim < MaxClaims
             /\ worker' = [worker EXCEPT ![w] = [Blank EXCEPT !.pc = "claimed", !.claim = claim + 1]]
    <2> DEFINE s == [Blank EXCEPT !.pc = "claimed", !.claim = claim + 1]
    <2>1. claim + 1 \in 0..MaxClaims /\ claim + 1 \in Nat /\ claim <= claim + 1
      BY <1>5, Typed, BoundsAssumption
    <2>2. s \in WorkerState /\ s.pc = "claimed" /\ s.claim = claim + 1 /\ s.try = 0
      BY <2>1, ClaimedFacts
    <2>3. worker' = [worker EXCEPT ![w] = s]
      BY <1>5
    <2>4. lapsed' \in BOOLEAN /\ phase' \in {"queued", "running", "failed", "finished"}
      BY <1>5
    <2> HIDE DEF s
    <2>5. s.claim <= claim' /\ claim' \in 0..MaxClaims /\ claim <= claim'
      BY <1>5, <2>1, <2>2
    <2> QED BY <1>3, <2>2, <2>3, <2>4, <2>5
  <1>6. \/ Leave(w) /\ UNCHANGED claim
        \/ /\ phase' = "running" /\ claim' = claim + 1 /\ lapsed' = FALSE /\ claim < MaxClaims
           /\ worker' = [worker EXCEPT ![w] = [Blank EXCEPT !.pc = "claimed", !.claim = claim + 1]]
    BY DEF ClaimNext, Complete, FailJob, Stop, jobVars
  <1> QED BY <1>4, <1>5, <1>6

\* An edit takes the version of the record, and an update arrives as it may.
LEMMA Edits ==
  ASSUME IInv,
         \/ \E f \in Fields, v \in {"empty", "other"} : Edit(f, v)
         \/ \E still \in BOOLEAN : EditElsewhere(still)
  PROVE  IInv'
  <1>1. UNCHANGED <<jobVars, intent, flight, worker>>
    BY DEF Edit, EditElsewhere
  <1>2. Passes
    <2>1. edits' = edits + 1 /\ edits < MaxEdits
      BY DEF Edit, EditElsewhere
    <2>2. edits' \in 0..MaxEdits
      BY <2>1, Typed, BoundsAssumption
    <2>3. record.version \in Nat
      BY Typed DEF Record
    <2>4. ASSUME NEW f \in Fields, NEW v \in {"empty", "other"}, Edit(f, v) PROVE Passes
      <3>1. record' = Written(f, v) /\ held' = held \cup {<<f, v>>} /\ v \in Values
        BY <2>4 DEF Edit, Values
      <3>2. /\ record' \in Record /\ record'.version = record.version + 1
            /\ record'.value = [record.value EXCEPT ![f] = v]
        BY <3>1, Typed, WrittenFacts
      <3>3. ASSUME NEW g \in Fields PROVE Seen(g, record'.value[g], held')
        BY <3>1, <3>2, Typed DEF Seen, Record
      <3>4. record'.version > record.version
        BY <2>3, <3>2
      <3>5. held \subseteq held' /\ held' \subseteq Fields \X Values
        BY <3>1, Typed
      <3> QED BY <2>2, <3>2, <3>3, <3>4, <3>5 DEF Passes
    <2>5. ASSUME NEW still \in BOOLEAN, EditElsewhere(still) PROVE Passes
      <3>1. record' = [record EXCEPT !.version = record.version + 1, !.exists = still] /\ held' = held
        BY <2>5 DEF EditElsewhere
      <3>2. /\ record' \in Record /\ record'.version = record.version + 1
            /\ record'.value = record.value
        <4> DEFINE e == [record EXCEPT !.version = record.version + 1]
        <4>1. e \in Record /\ e.version = record.version + 1 /\ e.value = record.value
          BY Typed DEF Record
        <4>2. record' = [e EXCEPT !.exists = still]
          BY <3>1
        <4> HIDE DEF e
        <4> QED BY <4>1, <4>2 DEF Record
      <3>3. record'.version > record.version
        BY <2>3, <3>2
      <3> QED BY <2>2, <3>1, <3>2, <3>3, Typed DEF Passes
    <2> QED BY <2>4, <2>5
  <1> QED BY <1>1, <1>2, Kept, Typed, Grows DEF jobVars

\* An update takes effect, or does not.
LEMMA Applying ==
  ASSUME IInv, NEW u \in Updates, Apply(u) \/ UNCHANGED <<record, held>>, UNCHANGED edits
  PROVE  Passes /\ (Apply(u) /\ Admits(u) => <<u.field, "proposed">> \in held')
  <1>1. CASE UNCHANGED <<record, held>> /\ ~ (Apply(u) /\ Admits(u))
    BY <1>1, Stays DEF crmVars
  <1>2. CASE Apply(u) /\ Admits(u)
    <2>1. /\ record' = Written(u.field, "proposed") /\ held' = held \cup {<<u.field, "proposed">>}
          /\ u.field \in Fields /\ "proposed" \in Values
      BY <1>2 DEF Apply, Updates, Values
    <2>2. /\ record' \in Record /\ record'.version = record.version + 1
          /\ record'.value = [record.value EXCEPT ![u.field] = "proposed"]
      BY <2>1, Typed, WrittenFacts
    <2>3. ASSUME NEW g \in Fields PROVE Seen(g, record'.value[g], held')
      BY <2>1, <2>2, Typed DEF Seen, Record
    <2>4. record'.version > record.version
      BY <2>2, Typed DEF Record
    <2>5. held \subseteq held' /\ held' \subseteq Fields \X Values
      BY <2>1, Typed
    <2> QED BY <2>1, <2>2, <2>3, <2>4, <2>5, Typed DEF Passes
  <1>3. CASE Apply(u) /\ ~ Admits(u)
    <2>1. UNCHANGED <<record, held>>
      BY <1>3 DEF Apply
    <2> QED BY <1>3, <2>1, Stays DEF crmVars
  <1> QED BY <1>1, <1>2, <1>3

\* An update arrives that nobody waits for.
LEMMA Arriving ==
  ASSUME IInv, NEW u \in flight, Arrive(u)
  PROVE  IInv'
  <1>1. UNCHANGED <<jobVars, intent, worker, edits>> /\ flight' \subseteq flight
    BY DEF Arrive
  <1>2. Passes
    BY <1>1, Typed, Applying DEF Arrive
  <1>3. flight' \subseteq Updates
    BY <1>1, Typed
  <1> QED BY <1>1, <1>2, <1>3, Kept, Typed, Grows DEF jobVars

\* Reconciliation reads.
LEMMA SurveySteps ==
  ASSUME IInv, NEW w \in Workers, Survey(w) \/ \E o \in worker[w].todo : Observe(w, o)
  PROVE  IInv'
  <1>1. worker[w] \in WorkerState /\ worker[w].try <= MaxRetries
    BY Typed
  <1>2. UNCHANGED <<jobVars, crmVars, flight, intent>> /\ Writes
    BY Kept DEF Survey, Observe
  <1>3. ASSUME NEW me \in WorkerState, me.claim = worker[w].claim, me.try = worker[w].try,
               worker' = [worker EXCEPT ![w] = Resumed(me)]
        PROVE  IInv'
    <2>1. /\ Resumed(me) \in WorkerState /\ Resumed(me).pc \in {"observe", "ready", "load"}
          /\ Resumed(me).claim = me.claim /\ Resumed(me).try = me.try
      BY ResumedFacts
    <2>2. Working(Resumed(me), record, edits, held)
      BY <1>1, <1>3, <2>1, NothingAtHand DEF Filling, Steps
    <2> QED BY <1>2, <1>3, <2>1, <2>2, QuietMoves
  <1>4. CASE Survey(w)
    <2> DEFINE t == IF Busy(w) \/ Stranded THEN Pending ELSE {}
               me == [worker[w] EXCEPT !.todo = t]
    <2>1. worker' = [worker EXCEPT ![w] = Resumed(me)]
      BY <1>4 DEF Survey
    <2>2. t \in SUBSET (Fields \X Nat)
      BY Typed DEF Pending, Intent
    <2> HIDE DEF t
    <2>3. me \in WorkerState /\ me.claim = worker[w].claim /\ me.try = worker[w].try
      BY <1>1, <2>2 DEF WorkerState
    <2> HIDE DEF me
    <2> QED BY <1>3, <2>1, <2>3
  <1>5. ASSUME NEW o \in worker[w].todo, Observe(w, o) PROVE IInv'
    <2> DEFINE me == [worker[w] EXCEPT !.todo = worker[w].todo \ {o}]
               seen == IF record.exists THEN record.value[o[1]] ELSE "gone"
               s == [me EXCEPT !.pc = "settle", !.op.field = o[1], !.got.value = seen]
    <2>1. worker' = [worker EXCEPT ![w] = Resumed(me)] \/ worker' = [worker EXCEPT ![w] = s]
      BY <1>5 DEF Observe
    <2>2. me \in WorkerState /\ me.claim = worker[w].claim /\ me.try = worker[w].try
      BY <1>1 DEF WorkerState
    <2>3. o[1] \in Fields /\ seen \in Values \cup {"gone"} /\ Seen(o[1], seen, held)
      <3>1. o[1] \in Fields
        BY <1>1 DEF WorkerState
      <3> QED BY <3>1, Typed DEF Seen
    <2> HIDE DEF seen, me
    <2>4. /\ s \in WorkerState /\ s.pc = "settle" /\ s.claim = me.claim /\ s.try = me.try
          /\ s.op.field = o[1] /\ s.got.value = seen
      BY <2>2, <2>3 DEF WorkerState, Steps, Updates
    <2> HIDE DEF s
    <2>5. Working(s, record, edits, held)
      BY <1>1, <2>2, <2>3, <2>4 DEF Working, Filling
    <2> QED BY <1>2, <1>3, <2>1, <2>2, <2>4, <2>5, QuietMoves
  <1> QED BY <1>4, <1>5

\* An outcome is marked that has been seen.
LEMMA Marked ==
  ASSUME IInv, NEW f \in Fields,
         NEW status \in {"prepared", "confirmed", "conflict", "failed", "cancelled"},
         intent' = [intent EXCEPT ![f].status = status],
         status = "confirmed" => <<f, "proposed">> \in held,
         status = "conflict" => <<f, "other">> \in held
  PROVE  Writes
  <1>1. intent[f] \in Intent /\ intent \in [Fields -> Intent]
    BY Typed
  <1>2. [intent[f] EXCEPT !.status = status] \in Intent
        /\ [intent[f] EXCEPT !.status = status].status = status
    BY <1>1 DEF Intent
  <1>3. intent' = [intent EXCEPT ![f] = [intent[f] EXCEPT !.status = status]]
    OBVIOUS
  <1> DEFINE i == [intent[f] EXCEPT !.status = status]
  <1> HIDE DEF i
  <1>4. intent' \in [Fields -> Intent]
        /\ \A g \in Fields : intent'[g] = IF g = f THEN i ELSE intent[g]
    BY <1>1, <1>2, <1>3 DEF i
  <1>5. i.status = status
    BY <1>2 DEF i
  <1> QED BY <1>4, <1>5 DEF Writes

\* What an observed value says has been seen with it.
LEMMA DecidedFacts ==
  ASSUME NEW v, NEW f, NEW h, Seen(f, v, h)
  PROVE  /\ Decided(v) \in {"confirmed", "conflict", "cancelled"}
         /\ Decided(v) = "confirmed" => <<f, "proposed">> \in h
         /\ Decided(v) = "conflict" => <<f, "other">> \in h
  <1>1. CASE v = "proposed"
    BY <1>1 DEF Decided, Seen
  <1>2. CASE v = "other"
    BY <1>2 DEF Decided, Seen
  <1>3. CASE v # "proposed" /\ v # "other"
    BY <1>3 DEF Decided
  <1> QED BY <1>1, <1>2, <1>3

\* Reconciliation marks what it has read.
LEMMA SettleSteps ==
  ASSUME IInv, NEW w \in Workers, Settle(w)
  PROVE  IInv'
  <1> DEFINE f == worker[w].op.field
             status == Decided(worker[w].got.value)
  <1>1. worker[w] \in WorkerState /\ worker[w].try <= MaxRetries /\ worker[w].pc = "settle"
    BY Typed DEF Settle
  <1>2. f \in Fields /\ Seen(f, worker[w].got.value, held)
    BY <1>1, Typed DEF WorkerState, Updates, Working
  <1>3. Writes
    <2>1. intent' = intent \/ intent' = [intent EXCEPT ![f].status = status]
      BY DEF Settle
    <2>2. /\ status \in {"confirmed", "conflict", "cancelled"}
          /\ status = "confirmed" => <<f, "proposed">> \in held
          /\ status = "conflict" => <<f, "other">> \in held
      BY <1>2, DecidedFacts
    <2> HIDE DEF f, status
    <2> QED BY <1>2, <2>1, <2>2, Kept, Marked
  <1>4. UNCHANGED <<jobVars, crmVars, flight>>
    BY DEF Settle
  <1>5. \E s \in {Blank, Resumed(worker[w])} : worker' = [worker EXCEPT ![w] = s]
    BY DEF Settle
  <1>6. ASSUME NEW s \in {Blank, Resumed(worker[w])}
        PROVE  /\ s \in WorkerState /\ s.pc \in {"idle", "observe", "ready", "load"}
               /\ s.claim = worker[w].claim \/ s.claim = 0
               /\ s.try <= MaxRetries
    <2>1. CASE s = Blank
      BY <2>1, BlankFacts, BoundsAssumption
    <2>2. CASE s = Resumed(worker[w])
      BY <1>1, <2>2, ResumedFacts
    <2> QED BY <2>1, <2>2
  <1>7. PICK s \in {Blank, Resumed(worker[w])} : worker' = [worker EXCEPT ![w] = s]
    BY <1>5
  <1>8. Working(s, record, edits, held)
    BY <1>6, NothingAtHand DEF Filling, Steps
  <1> QED BY <1>3, <1>4, <1>6, <1>7, <1>8, QuietMoves

\* A worker whose execution fails, at any step.
LEMMA FailingMoves ==
  ASSUME IInv, UNCHANGED <<jobVars, crmVars, flight>>, Writes,
         NEW w \in Workers, worker' = [worker EXCEPT ![w] = Failing(worker[w])]
  PROVE  IInv'
  <1>1. /\ worker[w] \in WorkerState /\ worker[w].try <= MaxRetries
    BY Typed
  <1>2. /\ Failing(worker[w]) \in WorkerState /\ Failing(worker[w]).pc = "failing"
        /\ Failing(worker[w]).claim = worker[w].claim /\ Failing(worker[w]).try = worker[w].try
    BY <1>1, FailingFacts
  <1>3. Working(Failing(worker[w]), record, edits, held)
    BY <1>1, <1>2, NothingAtHand DEF Filling, Steps
  <1> QED BY <1>2, <1>3, QuietMoves

\* A worker that goes on to the next field.
LEMMA AdvancedMoves ==
  ASSUME IInv, UNCHANGED <<jobVars, crmVars, flight>>, Writes,
         NEW w \in Workers, worker' = [worker EXCEPT ![w] = Advanced(worker[w])],
         worker[w].pc \in Filling
  PROVE  IInv'
  <1>1. worker[w] \in WorkerState /\ worker[w].rest # {}
    BY Typed DEF Working
  <1>2. /\ Advanced(worker[w]) \in WorkerState /\ Advanced(worker[w]).claim = worker[w].claim
        /\ Advanced(worker[w]).try = 0
        /\ \/ Advanced(worker[w]).pc = "complete"
           \/ Advanced(worker[w]).pc = "prepare" /\ Advanced(worker[w]).rest # {}
    BY <1>1, AdvancedFacts
  <1>3. Working(Advanced(worker[w]), record, edits, held)
    BY <1>2, NothingAtHand, BoundsAssumption DEF Filling, Steps
  <1> QED BY <1>2, <1>3, QuietMoves

\* A worker that only goes to another step, with nothing new at hand.
LEMMA GotoMoves ==
  ASSUME IInv, UNCHANGED <<jobVars, crmVars, flight>>, Writes, NEW w \in Workers,
         NEW p \in Steps, Goto(w, p),
         \/ p \in {"differs", "complete"}
         \/ p = "read" /\ worker[w].pc \in Filling
  PROVE  IInv'
  <1> DEFINE s == [worker[w] EXCEPT !.pc = p]
  <1>1. worker[w] \in WorkerState /\ worker[w].try <= MaxRetries
        /\ (worker[w].pc \in Filling => worker[w].rest # {})
    BY Typed DEF Working
  <1>2. worker' = [worker EXCEPT ![w] = s]
    BY DEF Goto
  <1>3. /\ s \in WorkerState /\ s.pc = p /\ s.claim = worker[w].claim /\ s.try = worker[w].try
        /\ s.rest = worker[w].rest
    BY <1>1, PcFacts
  <1> HIDE DEF s
  <1>4. Working(s, record, edits, held)
    BY <1>1, <1>3, NothingAtHand DEF Filling, Steps
  <1> QED BY <1>2, <1>3, <1>4, QuietMoves

\* The record is loaded.
LEMMA LoadSteps ==
  ASSUME IInv, NEW w \in Workers, Load(w)
  PROVE  IInv'
  <1> DEFINE missing == {k \in 1..Len(Order) : record.value[Order[k]] = "empty"}
             s(p) == [worker[w] EXCEPT !.rest = missing, !.base = record.version, !.pc = p]
  <1>1. worker[w] \in WorkerState /\ worker[w].try <= MaxRetries /\ record.version \in Nat
    BY Typed DEF Record
  <1>2. UNCHANGED <<jobVars, crmVars, flight>> /\ Writes
    BY Kept DEF Load
  <1>3. missing \in SUBSET (1..Len(Order))
    OBVIOUS
  <1>4. \/ worker' = [worker EXCEPT ![w] = Failing(worker[w])]
        \/ worker' = [worker EXCEPT ![w] = s("complete")]
        \/ worker' = [worker EXCEPT ![w] = s("prepare")] /\ missing # {}
    BY DEF Load
  <1> HIDE DEF missing
  <1>5. ASSUME NEW p \in {"complete", "prepare"}
        PROVE  /\ s(p) \in WorkerState /\ s(p).pc = p /\ s(p).claim = worker[w].claim
               /\ s(p).try = worker[w].try /\ s(p).rest = missing
    BY <1>1, <1>3 DEF WorkerState, Steps
  <1> HIDE DEF s
  <1>6. ASSUME NEW p \in {"complete", "prepare"}, p = "prepare" => missing # {}
        PROVE  Working(s(p), record, edits, held)
    BY <1>1, <1>5, <1>6, NothingAtHand DEF Filling, Steps
  <1> QED BY <1>2, <1>4, <1>5, <1>6, QuietMoves, FailingMoves

\* An intent is created or found.
LEMMA PrepareSteps ==
  ASSUME IInv, NEW w \in Workers, Prepare(w)
  PROVE  IInv'
  <1>1. worker[w] \in WorkerState /\ worker[w].pc = "prepare" /\ worker[w].rest # {}
    BY Typed DEF Prepare, Working, Filling
  <1>2. Field(w) \in Fields /\ worker[w].base \in Nat
    BY <1>1, FirstFacts DEF Field, WorkerState
  <1>3. UNCHANGED <<jobVars, crmVars, flight>>
    BY DEF Prepare
  <1>4. CASE /\ intent' = [intent EXCEPT ![Field(w)] =
                  [status |-> "prepared", version |-> worker[w].base, attempts |-> 0]]
             /\ Goto(w, "read")
    <2> DEFINE i == [status |-> "prepared", version |-> worker[w].base, attempts |-> 0]
    <2>1. i \in Intent /\ i.status = "prepared"
      BY <1>2 DEF Intent
    <2>2. intent' = [intent EXCEPT ![Field(w)] = i]
      BY <1>4
    <2> HIDE DEF i
    <2>3. Writes
      BY <1>2, <2>1, <2>2, Typed DEF Writes
    <2> QED BY <1>1, <1>3, <1>4, <2>3, GotoMoves DEF Steps, Filling
  <1>5. CASE Goto(w, "differs") /\ UNCHANGED intent
    BY <1>3, <1>5, Kept, GotoMoves DEF Steps
  <1>6. CASE Goto(w, "read") /\ UNCHANGED intent
    BY <1>1, <1>3, <1>6, Kept, GotoMoves DEF Steps, Filling
  <1>7. CASE worker' = [worker EXCEPT ![w] = Advanced(worker[w])] /\ UNCHANGED intent
    BY <1>1, <1>3, <1>7, Kept, AdvancedMoves DEF Filling
  <1> QED BY <1>4, <1>5, <1>6, <1>7 DEF Prepare, Goto

\* The record is read.
LEMMA ReadSteps ==
  ASSUME IInv, NEW w \in Workers, Read(w)
  PROVE  IInv'
  <1> DEFINE v == IF record.exists THEN record.value[Field(w)] ELSE "gone"
             g == [value |-> v, version |-> record.version, known |-> edits]
             s(p) == [worker[w] EXCEPT !.got = g, !.pc = p]
  <1>1. /\ worker[w] \in WorkerState /\ worker[w].try <= MaxRetries /\ record.version \in Nat
        /\ worker[w].rest # {} /\ edits \in Nat
    BY Typed DEF Record, Read, Working, Filling
  <1>2. Field(w) \in Fields /\ Field(w) = Current(worker[w])
    BY <1>1, FirstFacts DEF Field, WorkerState, Current
  <1>3. UNCHANGED <<jobVars, crmVars, flight>> /\ Writes
    BY Kept DEF Read
  <1>4. \/ worker' = [worker EXCEPT ![w] = Failing(worker[w])]
        \/ worker' = [worker EXCEPT ![w] = s("decide")]
        \/ worker' = [worker EXCEPT ![w] = s("resolve")]
    BY DEF Read
  <1>5. v \in Values \cup {"gone"} /\ Seen(Field(w), v, held)
    BY <1>2, Typed DEF Seen
  <1> HIDE DEF v
  <1>6. /\ g \in [value : Values \cup {"gone"}, version : Nat, known : Nat]
        /\ g.value = v /\ g.version = record.version /\ g.known = edits
    BY <1>1, <1>5
  <1> HIDE DEF g
  <1>7. ASSUME NEW p \in {"decide", "resolve"}
        PROVE  /\ s(p) \in WorkerState /\ s(p).pc = p /\ s(p).claim = worker[w].claim
               /\ s(p).try = worker[w].try /\ s(p).rest = worker[w].rest /\ s(p).got = g
    BY <1>1, <1>6 DEF WorkerState, Steps
  <1> HIDE DEF s
  <1>8. ASSUME NEW p \in {"decide", "resolve"} PROVE Working(s(p), record, edits, held)
    <2>1. Current(s(p)) = Field(w)
      BY <1>2, <1>7 DEF Current
    <2>2. Fresh(s(p).got, record, edits)
      BY <1>1, <1>6, <1>7 DEF Fresh
    <2> QED BY <1>1, <1>5, <1>6, <1>7, <2>1, <2>2 DEF Working, Filling
  <1> QED BY <1>3, <1>4, <1>7, <1>8, QuietMoves, FailingMoves

\* Twenty cannot be read, or the deadline has passed.
LEMMA Interruptions ==
  ASSUME IInv, NEW w \in Workers, ReadFails(w) \/ DeadlinePassed(w)
  PROVE  IInv'
  <1>1. UNCHANGED <<jobVars, crmVars, flight>> /\ Writes
    BY Kept DEF ReadFails, DeadlinePassed
  <1>2. CASE DeadlinePassed(w)
    BY <1>1, <1>2, GotoMoves DEF DeadlinePassed, Steps
  <1>3. CASE worker' = [worker EXCEPT ![w] = Failing(worker[w])]
    BY <1>1, <1>3, FailingMoves
  <1>4. CASE worker' = [worker EXCEPT ![w] = [Blank EXCEPT !.pc = "ready"]]
    <2> DEFINE s == [Blank EXCEPT !.pc = "ready"]
    <2>1. s \in WorkerState /\ s.pc = "ready" /\ s.claim = 0 /\ s.try = 0
      BY BlankFacts
    <2>2. worker' = [worker EXCEPT ![w] = s]
      BY <1>4
    <2> HIDE DEF s
    <2>3. Working(s, record, edits, held)
      BY <2>1, NothingAtHand, BoundsAssumption DEF Filling, Steps
    <2> QED BY <1>1, <2>1, <2>2, <2>3, QuietMoves
  <1> QED BY <1>2, <1>3, <1>4 DEF ReadFails

\* A worker marks its intent, and goes on.
LEMMA MarkMoves ==
  ASSUME IInv, NEW w \in Workers, worker[w].pc \in Filling,
         NEW status \in {"confirmed", "conflict", "failed", "cancelled"}, NEW next,
         next = Advanced(worker[w]) \/ next = Failing(worker[w]),
         Mark(w, status, next),
         status = "confirmed" => <<Current(worker[w]), "proposed">> \in held,
         status = "conflict" => <<Current(worker[w]), "other">> \in held
  PROVE  IInv'
  <1>1. worker[w] \in WorkerState /\ worker[w].rest # {}
    BY Typed DEF Working
  <1>2. Field(w) \in Fields /\ Field(w) = Current(worker[w])
    BY <1>1, FirstFacts DEF Field, WorkerState, Current
  <1>3. UNCHANGED <<jobVars, crmVars, flight>>
    BY DEF Mark
  <1>4. intent' = intent \/ intent' = [intent EXCEPT ![Field(w)].status = status]
    BY DEF Mark
  <1>5. Writes
    BY <1>2, <1>4, Kept, Marked
  <1>6. \/ worker' = [worker EXCEPT ![w] = Failing(worker[w])]
        \/ worker' = [worker EXCEPT ![w] = Advanced(worker[w])]
    BY DEF Mark
  <1> QED BY <1>3, <1>5, <1>6, FailingMoves, AdvancedMoves

\* A field is concluded, acknowledged, rejected or given up.
LEMMA Conclusions ==
  ASSUME IInv, NEW w \in Workers, Conclude(w) \/ Acknowledge(w) \/ GiveUp(w)
  PROVE  IInv'
  <1> DEFINE me == worker[w]
  <1>1. Working(me, record, edits, held)
    BY Typed
  <1>2. CASE Conclude(w)
    <2>1. Seen(Current(me), me.got.value, held)
      BY <1>1, <1>2 DEF Conclude, Working
    <2>2. /\ Decided(me.got.value) \in {"confirmed", "conflict", "cancelled"}
          /\ Decided(me.got.value) = "confirmed" => <<Current(me), "proposed">> \in held
          /\ Decided(me.got.value) = "conflict" => <<Current(me), "other">> \in held
      BY <2>1, DecidedFacts
    <2>3. Mark(w, Decided(me.got.value), Advanced(me)) /\ me.pc \in Filling
      BY <1>2 DEF Conclude, Filling
    <2> QED BY <2>2, <2>3, MarkMoves
  <1>3. CASE me.pc = "ack" /\ Mark(w, "confirmed", Advanced(me))
    <2>1. <<Current(me), "proposed">> \in held
      BY <1>1, <1>3 DEF Working, Seen
    <2> QED BY <1>3, <2>1, MarkMoves DEF Filling
  <1>4. CASE me.pc = "rejected" /\ Mark(w, "failed", Failing(me))
    BY <1>4, MarkMoves DEF Filling
  <1>5. CASE GiveUp(w)
    BY <1>5, Kept, AdvancedMoves DEF GiveUp, Filling
  <1> QED BY <1>2, <1>3, <1>4, <1>5 DEF Acknowledge

\* An attempt is counted, and its update made of what was read.
LEMMA AttemptSteps ==
  ASSUME IInv, NEW w \in Workers, Attempt(w)
  PROVE  IInv'
  <1> DEFINE i == intent[Field(w)]
             u == [field |-> Field(w), version |-> worker[w].got.version,
                   nr |-> i.attempts + 1, known |-> worker[w].got.known]
             s == [worker[w] EXCEPT !.pc = "send", !.op = u]
  <1>1. /\ worker[w] \in WorkerState /\ worker[w].try <= MaxRetries /\ worker[w].rest # {}
        /\ Fresh(worker[w].got, record, edits)
    BY Typed DEF Attempt, Working, Filling
  <1>2. Field(w) \in Fields /\ Field(w) = Current(worker[w])
    BY <1>1, FirstFacts DEF Field, WorkerState, Current
  <1>3. UNCHANGED <<jobVars, crmVars, flight>>
    BY DEF Attempt
  <1>4. intent \in [Fields -> Intent] /\ i \in Intent
    BY <1>2, Typed
  <1>5. CASE worker' = [worker EXCEPT ![w] = Failing(worker[w])] /\ UNCHANGED intent
    BY <1>3, <1>5, Kept, FailingMoves
  <1>6. CASE /\ intent' = [intent EXCEPT ![Field(w)].status = "prepared",
                                        ![Field(w)].attempts = @ + 1]
             /\ worker' = [worker EXCEPT ![w] = s]
    <2> DEFINE e == [i EXCEPT !.status = "prepared"]
               j == [e EXCEPT !.attempts = i.attempts + 1]
    <2>1. e \in Intent /\ e.status = "prepared" /\ e.attempts = i.attempts /\ i.attempts \in Nat
      BY <1>4 DEF Intent
    <2>2. intent' = [intent EXCEPT ![Field(w)] = j]
      BY <1>2, <1>4, <1>6
    <2> HIDE DEF e
    <2>3. j \in Intent /\ j.status = "prepared"
      BY <2>1 DEF Intent
    <2> HIDE DEF j
    <2>4. Writes
      BY <1>2, <2>2, <2>3, Typed DEF Writes
    <2>5. /\ u \in Updates /\ u.field = Field(w) /\ Fresh(u, record, edits)
      <3>1. worker[w].got.version \in Nat /\ worker[w].got.known \in Nat /\ i.attempts + 1 \in Nat
        BY <1>1, <2>1 DEF WorkerState
      <3> QED BY <1>1, <1>2, <3>1 DEF Updates, Fresh
    <2> HIDE DEF u, i
    <2>6. /\ s \in WorkerState /\ s.pc = "send" /\ s.op = u /\ s.claim = worker[w].claim
          /\ s.try = worker[w].try /\ s.rest = worker[w].rest
      BY <1>1, <2>5 DEF WorkerState, Steps
    <2>7. worker' = [worker EXCEPT ![w] = s]
      BY <1>6 DEF u, i
    <2> HIDE DEF s
    <2>8. Working(s, record, edits, held)
      BY <1>1, <1>2, <2>5, <2>6 DEF Working, Filling, Current
    <2> QED BY <1>3, <2>4, <2>6, <2>7, <2>8, QuietMoves
  <1> QED BY <1>5, <1>6 DEF Attempt

\* An update leaves that is fresh.
LEMMA SendSteps ==
  ASSUME IInv, NEW w \in Workers, Send(w)
  PROVE  IInv'
  <1> DEFINE s == [worker[w] EXCEPT !.pc = "wait"]
  <1>1. /\ worker[w] \in WorkerState /\ worker[w].try <= MaxRetries /\ worker[w].rest # {}
        /\ Fresh(worker[w].op, record, edits) /\ worker[w].op.field = Current(worker[w])
    BY Typed DEF Send, Working, Filling
  <1>2. UNCHANGED <<jobVars, crmVars>> /\ Writes /\ Passes /\ UNCHANGED <<record, edits, held>>
    BY Kept, Stays DEF Send, crmVars
  <1>3. worker' = [worker EXCEPT ![w] = s] /\ flight' = flight \cup {worker[w].op}
    BY DEF Send, Goto
  <1>4. worker[w].op \in Updates /\ flight \subseteq Updates
    BY <1>1, Typed DEF WorkerState
  <1>5. flight' \subseteq Updates /\ \A u \in flight' : u \in flight \/ Fresh(u, record', edits')
    BY <1>1, <1>2, <1>3, <1>4
  <1>6. /\ s \in WorkerState /\ s.pc = "wait" /\ s.claim = worker[w].claim /\ s.try = worker[w].try
        /\ s.rest = worker[w].rest /\ s.op = worker[w].op
    BY <1>1, PcFacts DEF Steps
  <1> HIDE DEF s
  <1>7. Working(s, record', edits', held')
    BY <1>1, <1>6 DEF Working, Filling, Current
  <1> QED BY <1>2, <1>3, <1>5, <1>6, <1>7, WorkerMoves

\* An update is answered, refused or waited for in vain.
LEMMA AnswerSteps ==
  ASSUME IInv, NEW w \in Workers, Answer(w) \/ Refuse(w) \/ TimeOut(w)
  PROVE  IInv'
  <1> DEFINE me == worker[w]
             u == worker[w].op
             s(p) == [me EXCEPT !.pc = p]
  <1>1. /\ me \in WorkerState /\ me.try <= MaxRetries /\ me.rest # {} /\ me.pc = "wait"
        /\ u.field = Current(me) /\ u \in Updates
    BY Typed DEF Answer, Refuse, TimeOut, Working, Filling, WorkerState
  <1>2. UNCHANGED <<jobVars, intent, edits>> /\ Writes
    BY Kept DEF Answer, Refuse, TimeOut, crmVars
  <1>3. Passes
    BY <1>1, <1>2, Applying, Stays DEF Answer, Refuse, TimeOut
  <1>4. flight' \subseteq flight /\ flight' \subseteq Updates
    BY Typed DEF Answer, Refuse, TimeOut
  <1>5. CASE worker' = [worker EXCEPT ![w] = Retrying(me)]
    <2>1. /\ Retrying(me) \in WorkerState /\ Retrying(me).pc \in {"read", "reread"}
          /\ Retrying(me).claim = me.claim /\ Retrying(me).try <= MaxRetries
          /\ Retrying(me).rest = me.rest
      BY <1>1, RetryingFacts
    <2>2. Working(Retrying(me), record', edits', held')
      BY <1>1, <2>1 DEF Working, Filling
    <2> QED BY <1>2, <1>3, <1>4, <1>5, <2>1, <2>2, WorkerMoves
  <1>6. ASSUME NEW p \in {"ack", "rejected"}
        PROVE  /\ s(p) \in WorkerState /\ s(p).pc = p /\ s(p).claim = me.claim
               /\ s(p).try = me.try /\ s(p).rest = me.rest
    <2>1. p \in Steps
      BY DEF Steps
    <2> HIDE DEF me
    <2> QED BY <1>1, <2>1, PcFacts
  <1>7. CASE worker' = [worker EXCEPT ![w] = s("rejected")]
    <2> HIDE DEF s
    <2>1. Working(s("rejected"), record', edits', held')
      BY <1>1, <1>6 DEF Working, Filling
    <2> QED BY <1>2, <1>3, <1>4, <1>6, <1>7, <2>1, WorkerMoves
  <1>8. CASE worker' = [worker EXCEPT ![w] = s("ack")] /\ Apply(u) /\ Admits(u)
    <2>1. <<Current(me), "proposed">> \in held'
      BY <1>1, <1>2, <1>8, Applying
    <2> HIDE DEF s
    <2>2. Working(s("ack"), record', edits', held')
      BY <1>1, <1>6, <2>1 DEF Working, Filling, Current, Seen
    <2> QED BY <1>2, <1>3, <1>4, <1>6, <1>8, <2>2, WorkerMoves
  <1> QED BY <1>5, <1>7, <1>8 DEF Answer, Refuse, TimeOut, Answered, Goto

-----------------------------------------------------------------------------
(* Theorems *)

\* Every step keeps the invariant.
LEMMA InvStep == IInv /\ [Next]_vars => IInv'
  <1> SUFFICES ASSUME IInv, [Next]_vars PROVE IInv'
    OBVIOUS
  <1>1. CASE CancelJob \/ RetryJob \/ Lapse \/ UNCHANGED vars
    BY <1>1, JobSteps
  <1>2. CASE \/ \E f \in Fields, v \in {"empty", "other"} : Edit(f, v)
             \/ \E still \in BOOLEAN : EditElsewhere(still)
    BY <1>2, Edits
  <1>3. CASE \E u \in flight : Arrive(u)
    BY <1>3, Arriving
  <1>4. ASSUME NEW w \in Workers, Enrich(w) PROVE IInv'
    BY <1>4, LoadSteps, PrepareSteps, ReadSteps, Interruptions, Conclusions, AttemptSteps,
       SendSteps, AnswerSteps DEF Enrich
  <1>5. ASSUME NEW w \in Workers, Run(w) PROVE IInv'
    BY <1>4, <1>5, SurveySteps, SettleSteps, ExecutionSteps DEF Run
  <1> QED BY <1>1, <1>2, <1>3, <1>5 DEF Next

\* In every reachable state what the workers go on with is fresh or has been
\* seen (fill_missing, reconcile_pending).
THEOREM Invariance == Spec => []IInv
  <1> QED BY InvInit, InvStep, PTL DEF Spec

\* Every variable keeps its type, and an execution attempts a field at most
\* 1 + max_retries times (fill_missing).
THEOREM TypeCorrect == Spec => []TypeOK
  <1>1. IInv => TypeOK
    BY DEF IInv
  <1> QED BY <1>1, Invariance, PTL

\* A confirmed field has held the proposed value and a conflicting one another
\* value, whatever was read, lost, retried or reconciled in between
\* (fill_missing, reconcile_pending).
THEOREM OutcomesAreObserved == Spec => []OutcomesObserved
  <1>1. IInv => OutcomesObserved
    BY DEF IInv
  <1> QED BY <1>1, Invariance, PTL

\* An update changes a field only when nobody has edited the record since its
\* sender read it, however late it arrives (TwentyClient.fill_missing).
THEOREM PeopleAlwaysWin == Spec => PeopleWin
  <1> DEFINE Body == record' # record /\ edits' = edits =>
                       \E u \in flight : u.known = edits /\ record' = Written(u.field, "proposed")
                                         /\ record.value[u.field] = "empty"
  <1>1. ASSUME IInv, [Next]_vars PROVE Body
    <2> SUFFICES ASSUME record' # record, edits' = edits PROVE Body
      OBVIOUS
    <2>1. edits \in Nat
      BY <1>1, Typed
    <2>2. \E u \in flight : Apply(u)
      <3>1. \A w \in Workers : ~ Enrich(w) \/ Answer(w) \/ Refuse(w)
        BY DEF Enrich, Load, Prepare, Read, ReadFails, DeadlinePassed, Conclude, GiveUp, Attempt,
               Send, TimeOut, Acknowledge, Mark, crmVars
      <3>2. \A w \in Workers : ~ Run(w) \/ Answer(w) \/ Refuse(w)
        BY <3>1 DEF Run, Survey, Settle, ClaimNext, Observe, Complete, FailJob, Stop, crmVars
      <3>3. ~ (CancelJob \/ RetryJob \/ Lapse \/ UNCHANGED vars)
        BY DEF CancelJob, RetryJob, Lapse, vars, crmVars
      <3>4. ~ (\E f \in Fields, v \in {"empty", "other"} : Edit(f, v))
            /\ ~ (\E still \in BOOLEAN : EditElsewhere(still))
        <4>1. edits' # edits + 1
          BY <2>1
        <4> QED BY <4>1 DEF Edit, EditElsewhere
      <3>5. (\E u \in flight : Arrive(u)) \/ (\E w \in Workers : Answer(w) \/ Refuse(w))
        BY <1>1, <3>2, <3>3, <3>4 DEF Next
      <3> QED BY <3>5 DEF Arrive, Answer, Refuse
    <2>3. PICK u \in flight : Apply(u)
      BY <2>2
    <2>4. Admits(u) /\ record' = Written(u.field, "proposed")
      BY <2>3 DEF Apply
    <2>5. Fresh(u, record, edits)
      BY <1>1 DEF IInv
    <2> QED BY <2>4, <2>5 DEF Admits, Fresh
  <1>2. IInv /\ [Next]_vars => [Body]_vars
    BY <1>1
  <1> HIDE DEF Body
  <1>3. Spec => [][Body]_vars
    BY <1>2, Invariance, PTL DEF Spec
  <1> QED BY <1>3, PTL DEF PeopleWin, Body

-----------------------------------------------------------------------------
(* FieldEnrichment implements WriteJournal *)

\* The steps of fill_missing after prepare_write.
Prepared == Filling \ {"prepare"}

\* Who fills a field has found or created its intent, and what was never
\* prepared was never attempted.
Found ==
  /\ \A w \in Workers : worker[w].pc \in Prepared => intent[Current(worker[w])].status # "none"
  /\ \A f \in Fields : intent[f].status = "none" => intent[f].attempts = 0

\* The three ways the journal changes.
Intends(f) ==
  /\ intent[f].status = "none"
  /\ \E n \in Nat :
       intent' = [intent EXCEPT ![f] = [status |-> "prepared", version |-> n, attempts |-> 0]]
Issues(f) ==
  /\ intent[f].status \in Unresolved
  /\ intent' = [intent EXCEPT ![f].status = "prepared", ![f].attempts = @ + 1]
Resolves(f) ==
  /\ intent[f].status \in Unresolved
  /\ \E outcome \in {"failed"} \cup Resolved :
       /\ outcome = "cancelled" => intent[f].attempts = 0
       /\ intent' = [intent EXCEPT ![f].status = outcome]

\* Each of them is the step of WriteJournal of that name, as far as the journal goes.
LEMMA JournalMoves ==
  ASSUME IInv, Found, NEW f \in Fields
  PROVE  /\ Intends(f) =>
              /\ JournalStatus[f] = "none" /\ Issued' = Issued
              /\ JournalStatus' = [JournalStatus EXCEPT ![f] = "prepared"]
         /\ Issues(f) =>
              /\ JournalStatus[f] \in Unresolved /\ Issued' = Issued \cup {f}
              /\ JournalStatus' = [JournalStatus EXCEPT ![f] = "prepared"]
         /\ Resolves(f) =>
              \E outcome \in {"failed"} \cup Resolved :
                /\ JournalStatus[f] \in Unresolved /\ Issued' = Issued
                /\ outcome = "cancelled" => f \notin Issued
                /\ JournalStatus' = [JournalStatus EXCEPT ![f] = outcome]
         /\ Intends(f) \/ Issues(f) \/ Resolves(f) =>
              \A g \in Fields :
                intent'[g].status = "none" => intent[g].status = "none" /\ intent'[g].attempts = 0
  <1>1. /\ intent \in [Fields -> Intent] /\ intent[f] \in Intent
        /\ \A g \in Fields : intent[g].attempts \in Nat
        /\ \A g \in Fields : intent[g].status = "none" => intent[g].attempts = 0
    BY Typed DEF Intent, Found
  <1>2. ASSUME NEW i \in Intent, NEW st, i.status = st, st # "none",
               intent' = [intent EXCEPT ![f] = i]
        PROVE  /\ JournalStatus' = [JournalStatus EXCEPT ![f] = st]
               /\ \A g \in Fields : g \in Issued' <=> IF g = f THEN i.attempts > 0 ELSE g \in Issued
               /\ \A g \in Fields :
                    intent'[g].status = "none" => intent[g].status = "none" /\ intent'[g].attempts = 0
    <2>1. \A g \in Fields : intent'[g] = IF g = f THEN i ELSE intent[g]
      BY <1>1, <1>2
    <2>2. \A g \in Fields : intent'[g].status = IF g = f THEN st ELSE intent[g].status
      BY <1>2, <2>1
    <2>3. JournalStatus' = [JournalStatus EXCEPT ![f] = st]
      BY <2>2 DEF JournalStatus
    <2> QED BY <1>1, <1>2, <2>1, <2>3 DEF Issued
  <1>3. /\ JournalStatus[f] = intent[f].status /\ Issued \subseteq Fields /\ Issued' \subseteq Fields
        /\ (f \in Issued <=> intent[f].attempts > 0)
    BY DEF JournalStatus, Issued
  <1>4. ASSUME Intends(f)
        PROVE  /\ JournalStatus[f] = "none" /\ Issued' = Issued
               /\ JournalStatus' = [JournalStatus EXCEPT ![f] = "prepared"]
               /\ \A g \in Fields :
                    intent'[g].status = "none" => intent[g].status = "none" /\ intent'[g].attempts = 0
    <2>1. PICK n \in Nat :
            intent' = [intent EXCEPT ![f] = [status |-> "prepared", version |-> n, attempts |-> 0]]
      BY <1>4 DEF Intends
    <2> DEFINE i == [status |-> "prepared", version |-> n, attempts |-> 0]
    <2>2. i \in Intent /\ i.status = "prepared" /\ i.attempts = 0
      BY DEF Intent
    <2>3. intent[f].status = "none" /\ intent[f].attempts = 0
      BY <1>1, <1>4 DEF Intends
    <2>4. intent' = [intent EXCEPT ![f] = i]
      BY <2>1
    <2> HIDE DEF i
    <2> QED BY <1>2, <1>3, <2>2, <2>3, <2>4
  <1>5. ASSUME Issues(f)
        PROVE  /\ JournalStatus[f] \in Unresolved /\ Issued' = Issued \cup {f}
               /\ JournalStatus' = [JournalStatus EXCEPT ![f] = "prepared"]
               /\ \A g \in Fields :
                    intent'[g].status = "none" => intent[g].status = "none" /\ intent'[g].attempts = 0
    <2> DEFINE e == [intent[f] EXCEPT !.status = "prepared"]
               i == [e EXCEPT !.attempts = intent[f].attempts + 1]
    <2>1. e \in Intent /\ e.status = "prepared" /\ e.attempts = intent[f].attempts
      BY <1>1 DEF Intent
    <2>2. intent' = [intent EXCEPT ![f] = i]
      BY <1>1, <1>5 DEF Issues
    <2> HIDE DEF e
    <2>3. i \in Intent /\ i.status = "prepared" /\ i.attempts = intent[f].attempts + 1
      BY <1>1, <2>1 DEF Intent
    <2> HIDE DEF i
    <2>4. /\ JournalStatus' = [JournalStatus EXCEPT ![f] = "prepared"]
          /\ \A g \in Fields : g \in Issued' <=> IF g = f THEN i.attempts > 0 ELSE g \in Issued
          /\ \A g \in Fields :
               intent'[g].status = "none" => intent[g].status = "none" /\ intent'[g].attempts = 0
      BY <1>2, <2>2, <2>3
    <2>5. Issued' = Issued \cup {f}
      <3>1. i.attempts > 0
        BY <1>1, <2>3
      <3> QED BY <1>3, <2>4, <3>1
    <2> QED BY <1>3, <1>5, <2>4, <2>5 DEF Issues
  <1>6. ASSUME Resolves(f)
        PROVE  \E outcome \in {"failed"} \cup Resolved :
                 /\ JournalStatus[f] \in Unresolved /\ Issued' = Issued
                 /\ outcome = "cancelled" => f \notin Issued
                 /\ JournalStatus' = [JournalStatus EXCEPT ![f] = outcome]
                 /\ \A g \in Fields :
                      intent'[g].status = "none" => intent[g].status = "none" /\ intent'[g].attempts = 0
    <2>1. PICK outcome \in {"failed"} \cup Resolved :
            /\ outcome = "cancelled" => intent[f].attempts = 0
            /\ intent' = [intent EXCEPT ![f].status = outcome]
      BY <1>6 DEF Resolves
    <2> DEFINE i == [intent[f] EXCEPT !.status = outcome]
    <2>2. i \in Intent /\ i.status = outcome /\ i.attempts = intent[f].attempts
      BY <1>1 DEF Intent, Resolved
    <2>3. intent' = [intent EXCEPT ![f] = i] /\ outcome # "none"
      BY <2>1 DEF Resolved
    <2> HIDE DEF i
    <2>4. /\ JournalStatus' = [JournalStatus EXCEPT ![f] = outcome]
          /\ \A g \in Fields : g \in Issued' <=> IF g = f THEN i.attempts > 0 ELSE g \in Issued
          /\ \A g \in Fields :
               intent'[g].status = "none" => intent[g].status = "none" /\ intent'[g].attempts = 0
      BY <1>2, <2>2, <2>3
    <2>5. Issued' = Issued
      BY <1>3, <2>2, <2>4
    <2>6. outcome = "cancelled" => f \notin Issued
      BY <1>1, <1>3, <2>1
    <2> QED BY <1>3, <1>6, <2>1, <2>4, <2>5, <2>6 DEF Resolves
  <1> QED BY <1>4, <1>5, <1>6

\* The steps with which a worker finishes a field, an operation or its execution,
\* or does not get to fill_missing.
LEMMA Endings ==
  ASSUME IInv, NEW w \in Workers,
         \/ Survey(w) \/ Settle(w) \/ ClaimNext(w) \/ Complete(w) \/ FailJob(w) \/ Stop(w)
         \/ Load(w) \/ ReadFails(w) \/ DeadlinePassed(w) \/ Conclude(w) \/ GiveUp(w)
         \/ Acknowledge(w) \/ \E o \in worker[w].todo : Observe(w, o)
  PROVE  \E s : worker' = [worker EXCEPT ![w] = s] /\ s.pc \notin Prepared
  <1> DEFINE me == worker[w]
             Ends(s) == worker' = [worker EXCEPT ![w] = s] /\ s.pc \notin Prepared
  <1> USE DEF Prepared, Filling
  <1>1. me \in WorkerState
    BY Typed
  <1>2. /\ Blank.pc \notin Prepared /\ [Blank EXCEPT !.pc = "ready"].pc \notin Prepared
        /\ [Blank EXCEPT !.pc = "claimed", !.claim = claim + 1].pc \notin Prepared
    BY DEF Blank
  <1>3. Failing(me).pc \notin Prepared /\ Advanced(me).pc \notin Prepared
    BY <1>1, FailingFacts, AdvancedFacts
  <1>4. \A m \in WorkerState : Resumed(m).pc \notin Prepared
    BY ResumedFacts
  <1>5. CASE Survey(w)
    <2> DEFINE t == IF Busy(w) \/ Stranded THEN Pending ELSE {}
               m == [me EXCEPT !.todo = t]
    <2>1. worker' = [worker EXCEPT ![w] = Resumed(m)]
      BY <1>5 DEF Survey
    <2>2. t \in SUBSET (Fields \X Nat)
      BY Typed DEF Pending, Intent
    <2> HIDE DEF t
    <2>3. m \in WorkerState
      BY <1>1, <2>2 DEF WorkerState
    <2> HIDE DEF m
    <2> QED BY <1>4, <2>1, <2>3
  <1>6. ASSUME NEW o \in me.todo, Observe(w, o) PROVE \E s : Ends(s)
    <2> DEFINE m == [me EXCEPT !.todo = me.todo \ {o}]
               seen == IF record.exists THEN record.value[o[1]] ELSE "gone"
               s == [m EXCEPT !.pc = "settle", !.op.field = o[1], !.got.value = seen]
    <2>1. worker' = [worker EXCEPT ![w] = Resumed(m)] \/ worker' = [worker EXCEPT ![w] = s]
      BY <1>6 DEF Observe
    <2>2. m \in WorkerState
      BY <1>1 DEF WorkerState
    <2> HIDE DEF seen, m
    <2>3. s.pc = "settle"
      BY <2>2 DEF WorkerState
    <2> HIDE DEF s
    <2> QED BY <1>4, <2>1, <2>2, <2>3
  <1>7. CASE Settle(w)
    <2>1. Ends(Blank) \/ Ends(Resumed(me))
      BY <1>1, <1>2, <1>4, <1>7 DEF Settle
    <2> QED BY <2>1
  <1>8. CASE ClaimNext(w) \/ Complete(w) \/ FailJob(w) \/ Stop(w)
    BY <1>2, <1>8 DEF ClaimNext, Complete, FailJob, Stop, Leave
  <1>9. CASE Load(w)
    <2> DEFINE missing == {k \in 1..Len(Order) : record.value[Order[k]] = "empty"}
               s(p) == [me EXCEPT !.rest = missing, !.base = record.version, !.pc = p]
    <2>1. \/ worker' = [worker EXCEPT ![w] = Failing(me)]
          \/ worker' = [worker EXCEPT ![w] = s("complete")]
          \/ worker' = [worker EXCEPT ![w] = s("prepare")]
      BY <1>9 DEF Load
    <2> HIDE DEF missing
    <2>2. \A p \in {"complete", "prepare"} : s(p).pc \notin Prepared
      BY <1>1 DEF WorkerState
    <2> HIDE DEF s
    <2> QED BY <1>3, <2>1, <2>2
  <1>10. CASE ReadFails(w)
    BY <1>2, <1>3, <1>10 DEF ReadFails
  <1>11. CASE DeadlinePassed(w)
    <2>1. worker' = [worker EXCEPT ![w] = [me EXCEPT !.pc = "complete"]]
      BY <1>11 DEF DeadlinePassed, Goto
    <2>2. [me EXCEPT !.pc = "complete"].pc = "complete"
      BY <1>1 DEF WorkerState
    <2> QED BY <2>1, <2>2
  <1>12. CASE Conclude(w) \/ Acknowledge(w) \/ GiveUp(w)
    BY <1>3, <1>12 DEF Conclude, Acknowledge, GiveUp, Mark
  <1> QED BY <1>5, <1>6, <1>7, <1>8, <1>9, <1>10, <1>11, <1>12

\* The updates that have left and those that are about to.
Under == flight \cup {worker[w].op : w \in {v \in Workers : worker[v].pc = "send"}}

\* What is under way in the journal's eyes, when an update is added or taken away.
LEMMA LooseMoves ==
  ASSUME IInv, NEW u \in Updates
  PROVE  /\ Under' = Under => Loose' = Loose
         /\ Under' = Under \cup {u} => Loose' = Loose \cup {u.field}
         /\ Under' \subseteq Under /\ Under \subseteq Under' \cup {u}
              => Loose' = Loose \/ Loose' = Loose \ {u.field}
  <1>1. Loose = {x.field : x \in Under} /\ Loose' = {x.field : x \in Under'}
    BY DEF Loose, Under
  <1> QED BY <1>1

\* What is under way, when a worker goes on as s.
LEMMA UnderMoves ==
  ASSUME IInv, NEW w \in Workers, NEW s, worker' = [worker EXCEPT ![w] = s]
  PROVE  /\ s.pc # "send" /\ worker[w].pc # "send" /\ flight' = flight => Under' = Under
         /\ s.pc = "send" /\ worker[w].pc # "send" /\ flight' = flight
              => Under' = Under \cup {s.op}
         /\ s.pc # "send" /\ worker[w].pc = "send" /\ flight' = flight \cup {worker[w].op}
              => Under' = Under
         /\ s.pc # "send" /\ flight' \subseteq flight /\ flight \subseteq flight' \cup {worker[w].op}
              => Under' \subseteq Under /\ Under \subseteq Under' \cup {worker[w].op}
  <1>1. \A v \in Workers : worker'[v] = IF v = w THEN s ELSE worker[v]
    BY Typed
  <1> QED BY <1>1 DEF Under

\* The field of a worker that fills one.
LEMMA CurrentFacts ==
  ASSUME IInv, NEW w \in Workers, worker[w].pc \in Filling
  PROVE  Field(w) = Current(worker[w]) /\ Field(w) \in Fields
  <1>1. worker[w] \in WorkerState /\ worker[w].rest # {}
    BY Typed DEF Working
  <1> QED BY <1>1, FirstFacts DEF Field, Current, WorkerState

\* A step with which the journal does not change.
LEMMA SameJournal ==
  ASSUME Found, UNCHANGED intent
  PROVE  /\ UNCHANGED <<JournalStatus, Issued>>
         /\ \A g \in Fields :
              intent'[g].status = "none" => intent[g].status = "none" /\ intent'[g].attempts = 0
  BY DEF JournalStatus, Issued, Found

\* A step of a worker keeps Found when the journal forgets nothing and has what the
\* worker goes on with.
LEMMA FoundMoves ==
  ASSUME IInv, Found, NEW w \in Workers, NEW s, worker' = [worker EXCEPT ![w] = s],
         s.pc \in Prepared => intent'[Current(s)].status # "none",
         \A g \in Fields :
           intent'[g].status = "none" => intent[g].status = "none" /\ intent'[g].attempts = 0
  PROVE  Found'
  <1>1. \A v \in Workers : worker'[v] = IF v = w THEN s ELSE worker[v]
    BY Typed
  <1>2. ASSUME NEW v \in Workers, worker[v].pc \in Prepared
        PROVE  intent'[Current(worker[v])].status # "none"
    <2>1. Current(worker[v]) \in Fields
      BY <1>2, CurrentFacts DEF Prepared
    <2> QED BY <1>2, <2>1 DEF Found
  <1>3. ASSUME NEW v \in Workers, worker'[v].pc \in Prepared
        PROVE  intent'[Current(worker'[v])].status # "none"
    BY <1>1, <1>2, <1>3
  <1> QED BY <1>3 DEF Found, Current

\* Mark resolves an intent or leaves it as it is.
LEMMA MarkResolves ==
  ASSUME IInv, Found, NEW w \in Workers, worker[w].pc \in Prepared,
         NEW status \in {"confirmed", "conflict", "failed"}, NEW next, Mark(w, status, next)
  PROVE  UNCHANGED intent \/ \E f \in Fields : Resolves(f)
  <1> DEFINE f == Field(w)
  <1>1. f \in Fields /\ intent \in [Fields -> Intent] /\ intent[f] \in Intent
    BY CurrentFacts, Typed DEF Prepared
  <1>2. intent[f].status # "none"
    BY CurrentFacts DEF Found, Prepared
  <1>3. CASE intent' = [intent EXCEPT ![f].status = status] /\ intent[f].status \in Resolved
             /\ intent[f].status = status
    <2>1. [intent[f] EXCEPT !.status = status] = intent[f]
      BY <1>1, <1>3 DEF Intent
    <2> QED BY <1>1, <1>3, <2>1
  <1>4. CASE intent' = [intent EXCEPT ![f].status = status] /\ intent[f].status \notin Resolved
    <2>1. intent[f].status \in Unresolved
      BY <1>1, <1>2, <1>4 DEF Intent, Resolved, Unresolved
    <2>2. status \in {"failed"} \cup Resolved /\ status # "cancelled"
      BY DEF Resolved
    <2>3. Resolves(f)
      BY <1>4, <2>1, <2>2 DEF Resolves
    <2> QED BY <1>1, <2>3
  <1> HIDE DEF f
  <1> QED BY <1>3, <1>4 DEF Mark, f

\* With the steps that end something the journal stays or resolves an intent, and
\* only a worker that is not sending resolves.
LEMMA EndingsResolve ==
  ASSUME IInv, Found, NEW w \in Workers,
         \/ Survey(w) \/ Settle(w) \/ ClaimNext(w) \/ Complete(w) \/ FailJob(w) \/ Stop(w)
         \/ Load(w) \/ ReadFails(w) \/ DeadlinePassed(w) \/ Conclude(w) \/ GiveUp(w)
         \/ Acknowledge(w) \/ \E o \in worker[w].todo : Observe(w, o)
  PROVE  /\ UNCHANGED flight
         /\ UNCHANGED intent \/ (worker[w].pc # "send" /\ \E f \in Fields : Resolves(f))
  <1>1. CASE Settle(w)
    <2> DEFINE f == worker[w].op.field
               status == Decided(worker[w].got.value)
    <2>1. worker[w].pc = "settle" /\ UNCHANGED flight /\ f \in Fields
      BY <1>1, Typed DEF Settle, WorkerState, Updates
    <2>2. status \in Resolved
      BY DEF Decided, Resolved
    <2>3. \/ intent' = intent
          \/ /\ intent[f].status \in Unresolved /\ (status = "cancelled" => Cancellable(f))
             /\ intent' = [intent EXCEPT ![f].status = status]
      BY <1>1 DEF Settle
    <2> HIDE DEF f, status
    <2>4. intent' = intent \/ Resolves(f)
      BY <2>2, <2>3 DEF Resolves, Cancellable
    <2> QED BY <2>1, <2>4
  <1>2. CASE Conclude(w)
    <2>1. Mark(w, Decided(worker[w].got.value), Advanced(worker[w])) /\ worker[w].pc \in Prepared
          /\ worker[w].pc # "send"
      BY <1>2 DEF Conclude, Prepared, Filling
    <2>2. Decided(worker[w].got.value) \in {"confirmed", "conflict", "failed"}
      BY <1>2 DEF Conclude, Decided
    <2> QED BY <2>1, <2>2, MarkResolves DEF Mark
  <1>3. CASE Acknowledge(w)
    <2>1. \E st \in {"confirmed", "failed"} : \E next : Mark(w, st, next)
      BY <1>3 DEF Acknowledge
    <2>2. worker[w].pc \in Prepared /\ worker[w].pc # "send"
      BY <1>3 DEF Acknowledge, Prepared, Filling
    <2> QED BY <2>1, <2>2, MarkResolves DEF Mark
  <1> QED BY <1>1, <1>2, <1>3 DEF Survey, ClaimNext, Complete, FailJob, Stop, Load, ReadFails,
        DeadlinePassed, GiveUp, Observe

\* A step of the journal, with Found kept.
JournalKept == [Journal!Next]_(Journal!vars) /\ Found'

\* An update that lands, or changes nothing in the eyes of the journal.
LEMMA Landed ==
  ASSUME Found, NEW f \in Fields, UNCHANGED intent, Loose' = Loose \/ Loose' = Loose \ {f}
  PROVE  [Journal!Next]_(Journal!vars)
  <1>1. UNCHANGED <<JournalStatus, Issued>>
    BY SameJournal
  <1>2. CASE Loose' = Loose
    BY <1>1, <1>2 DEF Journal!vars
  <1>3. CASE Loose' = Loose \ {f}
    BY <1>1, <1>3 DEF Journal!Next, Journal!Land
  <1> QED BY <1>2, <1>3

\* An ending is a resolution, a landing or a stutter.
LEMMA EndingSteps ==
  ASSUME IInv, Found, NEW w \in Workers,
         \/ Survey(w) \/ Settle(w) \/ ClaimNext(w) \/ Complete(w) \/ FailJob(w) \/ Stop(w)
         \/ Load(w) \/ ReadFails(w) \/ DeadlinePassed(w) \/ Conclude(w) \/ GiveUp(w)
         \/ Acknowledge(w) \/ \E o \in worker[w].todo : Observe(w, o)
  PROVE  JournalKept
  <1>1. PICK s : worker' = [worker EXCEPT ![w] = s] /\ s.pc \notin Prepared
    BY Endings
  <1>2. s.pc # "send" /\ UNCHANGED flight
    BY <1>1, EndingsResolve DEF Prepared, Filling
  <1>3. CASE UNCHANGED intent
    <2>1. worker[w].op \in Updates
      BY Typed DEF WorkerState
    <2>2. Loose' = Loose \/ Loose' = Loose \ {worker[w].op.field}
      BY <1>1, <1>2, <2>1, UnderMoves, LooseMoves
    <2>3. worker[w].op.field \in Fields
      BY <2>1 DEF Updates
    <2> QED BY <1>1, <1>3, <2>2, <2>3, SameJournal, FoundMoves, Landed DEF JournalKept
  <1>4. ASSUME NEW f \in Fields, Resolves(f), worker[w].pc # "send" PROVE JournalKept
    <2>1. Under' = Under
      BY <1>1, <1>2, <1>4, UnderMoves
    <2>2. Loose' = Loose
      BY <2>1 DEF Loose, Under
    <2>3. Found'
      BY <1>1, <1>4, JournalMoves, FoundMoves
    <2>4. PICK outcome \in {"failed"} \cup Resolved : Journal!Resolve(f, outcome)
      BY <1>4, <2>2, JournalMoves DEF Journal!Resolve, Journal!Unresolved, Journal!Resolved, Resolved, Unresolved
    <2>5. outcome \in Journal!Statuses
      BY DEF Journal!Statuses, Journal!Unresolved, Journal!Resolved, Resolved
    <2>6. Journal!Next
      BY <2>4, <2>5 DEF Journal!Next
    <2> QED BY <2>3, <2>6 DEF JournalKept
  <1> QED BY <1>3, <1>4, EndingsResolve

\* prepare_write intends a write, or finds one.
LEMMA PrepareJournal ==
  ASSUME IInv, Found, NEW w \in Workers, Prepare(w)
  PROVE  JournalKept
  <1> DEFINE f == Field(w)
  <1>1. worker[w].pc = "prepare" /\ worker[w].pc # "send" /\ UNCHANGED flight /\ worker[w] \in WorkerState
        /\ f \in Fields /\ f = Current(worker[w]) /\ worker[w].base \in Nat
    BY CurrentFacts, Typed DEF Prepare, Filling, WorkerState
  <1>2. ASSUME NEW p \in {"read", "differs"}
        PROVE  LET s == [worker[w] EXCEPT !.pc = p]
               IN  s.pc = p /\ Current(s) = f
    BY <1>1 DEF WorkerState, Current
  <1>3. CASE /\ intent[f].status = "none"
             /\ intent' = [intent EXCEPT ![f] = [status |-> "prepared", version |-> worker[w].base, attempts |-> 0]]
             /\ worker' = [worker EXCEPT ![w] = [worker[w] EXCEPT !.pc = "read"]]
    <2> DEFINE s == [worker[w] EXCEPT !.pc = "read"]
    <2>1. Intends(f) /\ intent'[f].status # "none"
      BY <1>1, <1>3, Typed DEF Intends
    <2>2. s.pc = "read" /\ Current(s) = f
      BY <1>2
    <2>3. worker' = [worker EXCEPT ![w] = s]
      BY <1>3
    <2> HIDE DEF s, f
    <2>4. Under' = Under
      BY <1>1, <2>2, <2>3, UnderMoves
    <2>5. Loose' = Loose
      BY <2>4 DEF Loose, Under
    <2>6. Found'
      BY <1>1, <2>1, <2>2, <2>3, JournalMoves, FoundMoves
    <2>7. Journal!Intend(f)
      BY <1>1, <2>1, <2>5, JournalMoves DEF Journal!Intend
    <2> QED BY <1>1, <2>6, <2>7 DEF JournalKept, Journal!Next
  <1>4. ASSUME NEW s, worker' = [worker EXCEPT ![w] = s], UNCHANGED intent,
               s.pc \in {"differs", "prepare", "complete"}
               \/ (s.pc = "read" /\ Current(s) = f /\ intent[f].status # "none")
        PROVE  JournalKept
    <2>1. Under' = Under
      BY <1>1, <1>4, UnderMoves
    <2>2. Loose' = Loose
      BY <2>1 DEF Loose, Under
    <2>3. Found'
      BY <1>4, SameJournal, FoundMoves DEF Prepared, Filling
    <2> QED BY <1>4, <2>2, <2>3, SameJournal DEF JournalKept, Journal!vars
  <1>5. Advanced(worker[w]).pc \in {"prepare", "complete"}
    BY <1>1, AdvancedFacts
  <1>6. CASE UNCHANGED intent /\ worker' = [worker EXCEPT ![w] = Advanced(worker[w])]
    BY <1>4, <1>5, <1>6
  <1>7. CASE UNCHANGED intent /\ worker' = [worker EXCEPT ![w] = [worker[w] EXCEPT !.pc = "differs"]]
    BY <1>2, <1>4, <1>7
  <1>8. CASE UNCHANGED intent /\ worker' = [worker EXCEPT ![w] = [worker[w] EXCEPT !.pc = "read"]]
             /\ intent[f].status # "none"
    BY <1>2, <1>4, <1>8
  <1> HIDE DEF f
  <1> QED BY <1>3, <1>6, <1>7, <1>8 DEF Prepare, Goto, f

\* An attempt is an issue.
LEMMA AttemptJournal ==
  ASSUME IInv, Found, NEW w \in Workers, Attempt(w)
  PROVE  JournalKept
  <1> DEFINE f == Field(w)
             u == [field |-> f, version |-> worker[w].got.version,
                   nr |-> intent[f].attempts + 1, known |-> worker[w].got.known]
             s == [worker[w] EXCEPT !.pc = "send", !.op = u]
  <1>1. /\ worker[w].pc = "decide" /\ UNCHANGED flight /\ worker[w] \in WorkerState
        /\ f \in Fields /\ f = Current(worker[w]) /\ intent[f] \in Intent
    BY CurrentFacts, Typed DEF Attempt, Filling
  <1>2. intent[f].status # "none" /\ worker[w].pc # "send"
    BY <1>1 DEF Found, Prepared, Filling
  <1>3. CASE worker' = [worker EXCEPT ![w] = Failing(worker[w])] /\ UNCHANGED intent
    <2>1. Failing(worker[w]).pc = "failing"
      BY <1>1, FailingFacts
    <2>2. Under' = Under
      BY <1>1, <1>2, <1>3, <2>1, UnderMoves
    <2>3. Loose' = Loose
      BY <2>2 DEF Loose, Under
    <2>4. Found'
      BY <1>3, <2>1, SameJournal, FoundMoves DEF Prepared, Filling
    <2> QED BY <1>3, <2>3, <2>4, SameJournal DEF JournalKept, Journal!vars
  <1>4. CASE /\ intent[f].status \notin Resolved
             /\ intent' = [intent EXCEPT ![f].status = "prepared", ![f].attempts = @ + 1]
             /\ worker' = [worker EXCEPT ![w] = s]
    <2>1. intent[f].status \in Unresolved
      BY <1>1, <1>2, <1>4 DEF Intent, Unresolved, Resolved
    <2>2. Issues(f)
      BY <1>4, <2>1 DEF Issues
    <2>3. u \in Updates /\ u.field = f
      BY <1>1 DEF Updates, WorkerState, Intent
    <2> HIDE DEF u
    <2>4. s.pc = "send" /\ s.op = u /\ s.rest = worker[w].rest
      BY <1>1, <2>3 DEF WorkerState
    <2>5. worker' = [worker EXCEPT ![w] = s]
      BY <1>4
    <2> HIDE DEF s, f
    <2>6. Under' = Under \cup {u}
      BY <1>1, <1>2, <2>4, <2>5, UnderMoves
    <2>7. Loose' = Loose \cup {f}
      BY <2>3, <2>6, LooseMoves
    <2>8. intent'[f].status # "none"
      BY <1>1, <2>2, <1>2, JournalMoves
    <2>9. Found'
      BY <1>1, <2>2, <2>4, <2>5, <2>8, JournalMoves, FoundMoves DEF Current
    <2>10. Journal!Issue(f)
      BY <1>1, <2>2, <2>7, JournalMoves DEF Journal!Issue, Journal!Unresolved, Unresolved
    <2> QED BY <1>1, <2>9, <2>10 DEF JournalKept, Journal!Next
  <1> QED BY <1>3, <1>4 DEF Attempt

\* The steps that leave a worker with its field and the journal as it is: it reads,
\* sends, or stops waiting.
LEMMA ContinuationSteps ==
  ASSUME IInv, Found, NEW w \in Workers,
         Read(w) \/ Send(w) \/ Answer(w) \/ Refuse(w) \/ TimeOut(w)
  PROVE  JournalKept
  <1> DEFINE me == worker[w]
  <1>1. /\ me \in WorkerState /\ me.try <= MaxRetries /\ me.op \in Updates /\ me.pc \in Prepared
        /\ UNCHANGED intent
    BY Typed DEF WorkerState, Read, Send, Answer, Refuse, TimeOut, Prepared, Filling
  <1>2. ASSUME NEW s, s.rest = me.rest PROVE intent'[Current(s)].status # "none"
    BY <1>1, <1>2 DEF Found, Current
  <1>3. ASSUME NEW s, worker' = [worker EXCEPT ![w] = s],
               \/ /\ s.pc \in {"decide", "resolve", "read", "reread", "ack", "rejected", "wait"}
                  /\ s.rest = me.rest
               \/ s.pc = "failing"
        PROVE  Found'
    BY <1>1, <1>2, <1>3, SameJournal, FoundMoves DEF Prepared, Filling
  <1>4. CASE Read(w)
    <2> DEFINE g == [value |-> IF record.exists THEN record.value[Field(w)] ELSE "gone",
                     version |-> record.version, known |-> edits]
               s(p) == [me EXCEPT !.got = g, !.pc = p]
    <2>1. /\ \/ worker' = [worker EXCEPT ![w] = Failing(me)]
             \/ worker' = [worker EXCEPT ![w] = s("decide")]
             \/ worker' = [worker EXCEPT ![w] = s("resolve")]
          /\ me.pc # "send" /\ UNCHANGED flight
      BY <1>4 DEF Read
    <2> HIDE DEF g
    <2>2. \A p \in {"decide", "resolve"} : s(p).pc = p /\ s(p).rest = me.rest
      BY <1>1 DEF WorkerState
    <2>3. Failing(me).pc = "failing"
      BY <1>1, FailingFacts
    <2> HIDE DEF s
    <2>4. PICK x : worker' = [worker EXCEPT ![w] = x]
                   /\ \/ x.pc \in {"decide", "resolve"} /\ x.rest = me.rest
                      \/ x.pc = "failing"
      BY <2>1, <2>2, <2>3
    <2>5. Under' = Under
      BY <2>1, <2>4, UnderMoves
    <2>6. Loose' = Loose
      BY <2>5 DEF Loose, Under
    <2> QED BY <1>1, <1>3, <2>4, <2>6, SameJournal DEF JournalKept, Journal!vars
  <1>5. CASE Send(w)
    <2> DEFINE s == [me EXCEPT !.pc = "wait"]
    <2>1. worker' = [worker EXCEPT ![w] = s] /\ me.pc = "send" /\ flight' = flight \cup {me.op}
      BY <1>5 DEF Send, Goto
    <2>2. s.pc = "wait" /\ s.rest = me.rest
      BY <1>1 DEF WorkerState
    <2> HIDE DEF s
    <2>3. Under' = Under
      BY <2>1, <2>2, UnderMoves
    <2>4. Loose' = Loose
      BY <2>3 DEF Loose, Under
    <2> QED BY <1>1, <1>3, <2>1, <2>2, <2>4, SameJournal DEF JournalKept, Journal!vars
  <1>6. CASE Answer(w) \/ Refuse(w) \/ TimeOut(w)
    <2> DEFINE s(p) == [me EXCEPT !.pc = p]
    <2>1. /\ \/ worker' = [worker EXCEPT ![w] = Retrying(me)]
             \/ worker' = [worker EXCEPT ![w] = s("ack")]
             \/ worker' = [worker EXCEPT ![w] = s("rejected")]
          /\ flight' \subseteq flight /\ flight \subseteq flight' \cup {me.op}
      BY <1>6 DEF Answer, Refuse, TimeOut, Answered, Goto
    <2>2. \A p \in {"ack", "rejected"} : s(p).pc = p /\ s(p).rest = me.rest
      BY <1>1 DEF WorkerState
    <2>3. Retrying(me).pc \in {"read", "reread"} /\ Retrying(me).rest = me.rest
      BY <1>1, RetryingFacts
    <2> HIDE DEF s
    <2>4. PICK x : worker' = [worker EXCEPT ![w] = x] /\ x.rest = me.rest
                   /\ x.pc \in {"ack", "rejected", "read", "reread"}
      BY <2>1, <2>2, <2>3
    <2>5. Loose' = Loose \/ Loose' = Loose \ {me.op.field}
      BY <1>1, <2>1, <2>4, UnderMoves, LooseMoves
    <2>6. me.op.field \in Fields
      BY <1>1 DEF Updates
    <2>7. Found'
      BY <1>3, <2>4
    <2> QED BY <1>1, <2>5, <2>6, <2>7, Landed DEF JournalKept
  <1> QED BY <1>4, <1>5, <1>6

\* What happens outside the workers lands an update at most.
LEMMA OutsideSteps ==
  ASSUME IInv, Found,
         \/ CancelJob \/ RetryJob \/ Lapse \/ UNCHANGED vars
         \/ \E f \in Fields, v \in {"empty", "other"} : Edit(f, v)
         \/ \E still \in BOOLEAN : EditElsewhere(still)
         \/ \E u \in flight : Arrive(u)
  PROVE  JournalKept
  <1>1. UNCHANGED <<intent, worker>>
    BY DEF CancelJob, RetryJob, Lapse, vars, Edit, EditElsewhere, Arrive
  <1>2. Found'
    BY <1>1 DEF Found
  <1>3. CASE UNCHANGED flight
    BY <1>1, <1>2, <1>3 DEF JournalKept, Journal!vars, JournalStatus, Issued, Loose
  <1>4. ASSUME NEW u \in flight, Arrive(u) PROVE JournalKept
    <2>1. Under' \subseteq Under /\ Under \subseteq Under' \cup {u} /\ u \in Updates
      BY <1>1, <1>4, Typed DEF Arrive, Under
    <2>2. (Loose' = Loose \/ Loose' = Loose \ {u.field}) /\ u.field \in Fields
      BY <2>1, LooseMoves DEF Updates
    <2> QED BY <1>1, <1>2, <2>2, Landed DEF JournalKept
  <1> QED BY <1>3, <1>4 DEF CancelJob, RetryJob, Lapse, vars, Edit, EditElsewhere

\* Every step is a step of WriteJournal or none.
LEMMA JournalStep == IInv /\ Found /\ [Next]_vars => JournalKept
  <1> SUFFICES ASSUME IInv, Found, [Next]_vars PROVE JournalKept
    OBVIOUS
  <1>1. ASSUME NEW w \in Workers, Run(w) PROVE JournalKept
    BY <1>1, EndingSteps, PrepareJournal, AttemptJournal, ContinuationSteps DEF Run, Enrich
  <1> QED BY <1>1, OutsideSteps DEF Next

\* Nothing is intended in the beginning.
LEMMA JournalInit == Init => Journal!Init /\ Found
  <1> SUFFICES ASSUME Init PROVE Journal!Init /\ Found
    OBVIOUS
  <1>1. worker = [w \in Workers |-> Blank] /\ Blank.pc = "idle" /\ flight = {}
    BY DEF Init, Blank
  <1>2. \A f \in Fields : intent[f].status = "none" /\ intent[f].attempts = 0
    BY DEF Init
  <1>3. Found /\ Loose = {}
    BY <1>1, <1>2 DEF Found, Prepared, Filling, Loose
  <1> QED BY <1>2, <1>3 DEF Journal!Init, JournalStatus, Issued

\* The journal of enriched fields keeps every promise of WriteJournal, for any
\* number of workers and all bounds: an update that may take effect was counted
\* before and is not cancelled, and outcomes are not revised (crm_writes.py,
\* fill_missing, reconcile_pending).
THEOREM JournalIsKept == Spec => JournalSpec
  <1>1. IInv /\ Found /\ [Next]_vars => [Journal!Next]_(Journal!vars) /\ Found'
    BY JournalStep DEF JournalKept
  <1> QED BY <1>1, JournalInit, Invariance, PTL DEF Spec, JournalSpec, Journal!Spec

\* Whatever may still reach Twenty is counted in the journal and not cancelled, as
\* WriteJournal has it (record_mutation_attempt, reconcile_write).
THEOREM UpdatesAreAccounted == Spec => []Journal!Accounted
  <1>1. Journal!Init => Journal!Accounted
    BY DEF Journal!Init, Journal!Accounted
  <1>2. ASSUME IInv, Journal!Accounted, [Journal!Next]_(Journal!vars) PROVE Journal!Accounted'
    <2>1. Loose \subseteq Fields /\ JournalStatus = [f \in Fields |-> JournalStatus[f]]
      BY <1>2, Typed DEF Loose, JournalStatus, WorkerState, Updates
    <2>2. CASE UNCHANGED Journal!vars
      BY <1>2, <2>2 DEF Journal!Accounted, Journal!vars
    <2>3. ASSUME NEW i \in Fields, Journal!Intend(i) \/ Journal!Issue(i) \/ Journal!Land(i)
          PROVE  Journal!Accounted'
      BY <1>2, <2>1, <2>3
         DEF Journal!Accounted, Journal!Intend, Journal!Issue, Journal!Land, Journal!Unresolved
    <2>4. ASSUME NEW i \in Fields, NEW outcome, Journal!Resolve(i, outcome) PROVE Journal!Accounted'
      BY <1>2, <2>1, <2>4 DEF Journal!Accounted, Journal!Resolve, Journal!Unresolved
    <2>5. ASSUME NEW gone \in SUBSET Fields, Journal!Forget(gone) PROVE Journal!Accounted'
      BY <1>2, <2>1, <2>5 DEF Journal!Accounted, Journal!Forget
    <2> QED BY <1>2, <2>2, <2>3, <2>4, <2>5 DEF Journal!Next
  <1> QED BY <1>1, <1>2, Invariance, JournalIsKept, PTL DEF JournalSpec, Journal!Spec

=============================================================================
