------------------------ MODULE StageExecutionProofs ------------------------
(***************************************************************************)
(* Proofs about StageExecution, for any number of claims and any limit.    *)
(*                                                                         *)
(* A parent and its child share a pipe and a life, and nothing of them is  *)
(* shared with the parents and children of other claims but the job and    *)
(* its checkpoint.  The invariant therefore relates the two records of one *)
(* claim (Paired), by cases on what the pipe holds while somebody listens  *)
(* (Channel), and the outcome of a parent to the checkpoint (Backed), which *)
(* is written once.                                                        *)
(***************************************************************************)
EXTENDS StageExecution, SequenceTheorems, TLAPS

-----------------------------------------------------------------------------
(* The inductive invariant *)

\* The child has sent its error and exited.
Told(k) == k.pc = "dead" /\ k.code = 1

\* What is in the pipe of parent p and child k, and what has been read of it.
Channel(p, k) ==
  /\ k.pc # "none" /\ ~ k.term /\ p.why = "none"
  /\ k.error # "none" <=> k.pc \in {"failing", "reporting"} \/ Told(k)
  /\ k.pc = "starting" => k.pipe = <<>> /\ ~ p.initialized
  /\ \/ ~ Told(k) /\ p.failure = "none" /\ k.pipe = <<>>
     \/ ~ Told(k) /\ p.failure = "none" /\ k.pipe = <<"initialized">> /\ ~ p.initialized
     \/ Told(k) /\ p.failure = "none" /\ k.pipe = <<"initialized", k.error>> /\ ~ p.initialized
     \/ Told(k) /\ p.failure = "none" /\ k.pipe = <<k.error>>
     \/ Told(k) /\ p.failure = k.error /\ k.pipe = <<>>

\* A parent p and its child k.
Paired(p, k) ==
  /\ p.pc = "none" => p = NoParent /\ k = NoChild
  /\ p.pc # "ended" => p.outcome = "none"
  /\ p.pc \in {"loading", "ended"} /\ p.outcome # "cancelled" => k.pc \in {"none", "dead"}
  /\ p.pc \in {"polling", "checking"} => Channel(p, k)
  /\ k.pc \in {"failing", "reporting"} => k.error # "none"
  /\ p.why = "failure" =>
       k.pc = "dead" /\ (k.error # "none" /\ p.initialized => p.failure = k.error)

\* A result or a denial has a checkpoint behind it.
Backed(outcome, saved) ==
  /\ outcome = "result" => saved = "result"
  /\ outcome = "exhausted" => saved # "none"

IInv ==
  /\ TypeOK
  /\ \A c \in Claims : Paired(parent[c], child[c])
  /\ \A c \in Claims : Backed(parent[c].outcome, checkpoint)

-----------------------------------------------------------------------------
(* The states of parents and children *)

\* The first and the second message of a pipe.
LEMMA AppendFacts ==
  ASSUME NEW e, NEW f
  PROVE  Append(<<>>, f) = <<f>> /\ Append(<<e>>, f) = <<e, f>>
  <1> DEFINE T == {e, f}
             s == Append(<<e>>, f)
             t == <<e, f>>
  <1>1. <<e>> \in Seq(T) /\ <<e, f>> \in Seq(T) /\ Len(<<e>>) = 1 /\ Len(<<e, f>>) = 2
    OBVIOUS
  <1>2. s \in Seq(T) /\ Len(s) = 2 /\ s[1] = e /\ s[2] = f
    BY <1>1
  <1>3. t \in Seq(T) /\ Len(t) = 2 /\ t[1] = e /\ t[2] = f
    BY <1>1
  <1> HIDE DEF s, t
  <1>4. s = t
    BY <1>2, <1>3, SeqEqual
  <1> QED BY <1>4 DEF s, t

Outcomes == {"none", "result", "exhausted", "failed", "cancelled"}

\* A parent in its beginning and a child that was not spawned.
LEMMA NoFacts ==
  /\ NoParent \in ParentState /\ NoParent.pc = "none" /\ NoParent.why = "none"
  /\ NoParent.outcome = "none" /\ NoParent.initialized = FALSE /\ NoParent.failure = "none"
  /\ NoChild \in ChildState /\ NoChild.pc = "none" /\ NoChild.term = FALSE
  /\ NoChild.pipe = <<>> /\ NoChild.error = "none"
  BY DEF NoParent, NoChild, ParentState, ChildState

\* A parent that is done supervising.
Ended(o) == [NoParent EXCEPT !.pc = "ended", !.outcome = o]
Left(pc) == [NoParent EXCEPT !.pc = pc]

\* A parent that goes on polling.
Polls(p, pc) == [p EXCEPT !.pc = pc]

\* A parent that has read the child's sign, or a failure.
Signalled(p) == [p EXCEPT !.pc = "checking", !.initialized = TRUE]
Failed(p, f) == [p EXCEPT !.pc = "checking", !.failure = f]

\* A parent that reaps its child.
Reaper(p, y, f) == [p EXCEPT !.pc = "reaping", !.why = y, !.failure = f]

\* A child at another step.
At(k, pc) == [k EXCEPT !.pc = pc]

\* A child with another error.
Erring(k, pc, e) == [k EXCEPT !.pc = pc, !.error = e]

\* A child that has exited.
Exited(k, n) == [k EXCEPT !.pc = "dead", !.code = n, !.term = FALSE]

\* A child whose pipe has changed.
Piped(k, s) == [k EXCEPT !.pipe = s]

\* The fields of Ended.
LEMMA EndedFacts ==
  ASSUME NEW o \in Outcomes
  PROVE  Ended(o) \in ParentState /\ Ended(o).pc = "ended" /\ Ended(o).outcome = o
         /\ Ended(o).why = "none"
  BY NoFacts DEF Ended, ParentState, Outcomes

\* The fields of Left.
LEMMA LeftFacts ==
  ASSUME NEW pc \in {"loading", "crashed"}
  PROVE  Left(pc) \in ParentState /\ Left(pc).pc = pc /\ Left(pc).outcome = "none"
         /\ Left(pc).why = "none"
  BY NoFacts DEF Left, ParentState

\* The fields of Polls.
LEMMA PollsFacts ==
  ASSUME NEW p \in ParentState, NEW pc \in {"polling", "checking"}
  PROVE  /\ Polls(p, pc) \in ParentState /\ Polls(p, pc).pc = pc /\ Polls(p, pc).why = p.why
         /\ Polls(p, pc).outcome = p.outcome /\ Polls(p, pc).failure = p.failure
         /\ Polls(p, pc).initialized = p.initialized
  BY DEF Polls, ParentState

\* The fields of Signalled.
LEMMA SignalledFacts ==
  ASSUME NEW p \in ParentState
  PROVE  /\ Signalled(p) \in ParentState /\ Signalled(p).pc = "checking"
         /\ Signalled(p).why = p.why /\ Signalled(p).outcome = p.outcome
         /\ Signalled(p).failure = p.failure /\ Signalled(p).initialized
  BY DEF Signalled, ParentState

\* The fields of Failed.
LEMMA FailedFacts ==
  ASSUME NEW p \in ParentState, NEW f \in {"none", "contract", "other"}
  PROVE  /\ Failed(p, f) \in ParentState /\ Failed(p, f).pc = "checking"
         /\ Failed(p, f).why = p.why /\ Failed(p, f).outcome = p.outcome
         /\ Failed(p, f).failure = f /\ Failed(p, f).initialized = p.initialized
  BY DEF Failed, ParentState

\* The fields of Reaper.
LEMMA ReaperFacts ==
  ASSUME NEW p \in ParentState, NEW y \in {"none", "exit", "deadline", "failure", "cancel"},
         NEW f \in {"none", "contract", "other"}
  PROVE  /\ Reaper(p, y, f) \in ParentState /\ Reaper(p, y, f).pc = "reaping"
         /\ Reaper(p, y, f).why = y /\ Reaper(p, y, f).failure = f
         /\ Reaper(p, y, f).initialized = p.initialized /\ Reaper(p, y, f).outcome = p.outcome
  BY DEF Reaper, ParentState

\* The fields of At.
LEMMA AtFacts ==
  ASSUME NEW k \in ChildState,
         NEW pc \in {"starting", "working", "persisting", "denied", "closing"}
  PROVE  /\ At(k, pc) \in ChildState /\ At(k, pc).pc = pc /\ At(k, pc).pipe = k.pipe
         /\ At(k, pc).error = k.error /\ At(k, pc).term = k.term /\ At(k, pc).code = k.code
  BY DEF At, ChildState

\* The fields of Erring.
LEMMA ErringFacts ==
  ASSUME NEW k \in ChildState, NEW pc \in {"failing", "reporting"},
         NEW e \in {"none", "contract", "other"}
  PROVE  /\ Erring(k, pc, e) \in ChildState /\ Erring(k, pc, e).pc = pc
         /\ Erring(k, pc, e).pipe = k.pipe /\ Erring(k, pc, e).error = e
         /\ Erring(k, pc, e).term = k.term /\ Erring(k, pc, e).code = k.code
  BY DEF Erring, ChildState

\* The fields of Exited.
LEMMA ExitedFacts ==
  ASSUME NEW k \in ChildState, NEW n \in {0, 1}
  PROVE  /\ Exited(k, n) \in ChildState /\ Exited(k, n).pc = "dead" /\ Exited(k, n).pipe = k.pipe
         /\ Exited(k, n).error = k.error /\ ~ Exited(k, n).term /\ Exited(k, n).code = n
  BY DEF Exited, ChildState

\* The fields of Piped.
LEMMA PipedFacts ==
  ASSUME NEW k \in ChildState, NEW s \in Seq({"initialized", "contract", "other"})
  PROVE  /\ Piped(k, s) \in ChildState /\ Piped(k, s).pc = k.pc /\ Piped(k, s).pipe = s
         /\ Piped(k, s).error = k.error /\ Piped(k, s).term = k.term /\ Piped(k, s).code = k.code
  BY DEF Piped, ChildState

\* What a commit does to the checkpoint.
LEMMA PersistedFacts ==
  ASSUME NEW o \in {"result", "exhausted"}, checkpoint \in Checkpoints
  PROVE  /\ Persisted(o) \in Checkpoints /\ Persisted(o) # "none"
         /\ checkpoint # "none" => Persisted(o) = checkpoint
  BY DEF Persisted, Checkpoints

\* No claim has been granted in the beginning.
LEMMA InvInit == Init => IInv
  <1> SUFFICES ASSUME Init PROVE IInv
    OBVIOUS
  <1>1. TypeOK
    <2>1. parent \in [Claims -> ParentState] /\ child \in [Claims -> ChildState]
      BY NoFacts DEF Init
    <2>2. claim \in {0, granted} /\ granted \in 0..MaxClaims /\ attempts \in 0..Limit
      BY LimitAssumption DEF Init
    <2> QED BY <2>1, <2>2 DEF Init, TypeOK, Checkpoints
  <1>2. ASSUME NEW c \in Claims
        PROVE  Paired(parent[c], child[c]) /\ Backed(parent[c].outcome, checkpoint)
    BY NoFacts DEF Init, Paired, Backed
  <1> QED BY <1>1, <1>2 DEF IInv

-----------------------------------------------------------------------------
(* Steps *)

\* The parent of one claim becomes p and its child k.
LEMMA Moves ==
  ASSUME IInv, NEW c \in Claims, NEW p \in ParentState, NEW k \in ChildState,
         parent' = [parent EXCEPT ![c] = p], child' = [child EXCEPT ![c] = k], Paired(p, k),
         UNCHANGED jobVars, noted' \in BOOLEAN, attempts' \in 0..Limit,
         checkpoint' \in Checkpoints, checkpoint # "none" => checkpoint' = checkpoint,
         Backed(p.outcome, checkpoint')
  PROVE  IInv'
  <1>1. TypeOK'
    BY DEF IInv, TypeOK, jobVars
  <1>2. ASSUME NEW d \in Claims
        PROVE  Paired(parent'[d], child'[d]) /\ Backed(parent'[d].outcome, checkpoint')
    <2>1. CASE d = c
      BY <2>1 DEF IInv, TypeOK
    <2>2. CASE d # c
      <3>1. parent'[d] = parent[d] /\ child'[d] = child[d]
        BY <2>2 DEF IInv, TypeOK
      <3>2. Paired(parent[d], child[d]) /\ Backed(parent[d].outcome, checkpoint)
        BY DEF IInv
      <3> QED BY <3>1, <3>2 DEF Backed
    <2> QED BY <2>1, <2>2
  <1> QED BY <1>1, <1>2 DEF IInv

\* The records of one claim.
LEMMA ClaimFacts ==
  ASSUME IInv, NEW c \in Claims
  PROVE  /\ parent[c] \in ParentState /\ child[c] \in ChildState
         /\ parent = [parent EXCEPT ![c] = parent[c]] /\ child = [child EXCEPT ![c] = child[c]]
         /\ Paired(parent[c], child[c]) /\ Backed(parent[c].outcome, checkpoint)
         /\ noted \in BOOLEAN /\ attempts \in 0..Limit /\ checkpoint \in Checkpoints
  BY DEF IInv, TypeOK

\* Only the parent changes.
LEMMA ParentMoves ==
  ASSUME IInv, NEW c \in Claims, NEW p \in ParentState,
         parent' = [parent EXCEPT ![c] = p], Paired(p, child[c]),
         UNCHANGED <<jobVars, attempts, child>>, noted' \in BOOLEAN,
         checkpoint' \in Checkpoints, checkpoint # "none" => checkpoint' = checkpoint,
         Backed(p.outcome, checkpoint')
  PROVE  IInv'
  BY ClaimFacts, Moves

\* Only the child changes, while it runs.
LEMMA ChildMoves ==
  ASSUME IInv, NEW c \in Claims, NEW k \in ChildState,
         child[c].pc \notin {"none", "dead"},
         child' = [child EXCEPT ![c] = k], UNCHANGED <<jobVars, parent>>,
         Heard(c) => Channel(parent[c], k),
         k.pc \in {"failing", "reporting"} => k.error # "none",
         noted' \in BOOLEAN, attempts' \in 0..Limit,
         checkpoint' \in Checkpoints, checkpoint # "none" => checkpoint' = checkpoint
  PROVE  IInv'
  <1>1. Paired(parent[c], k)
    BY ClaimFacts, NoFacts DEF Paired, Heard
  <1>2. Backed(parent[c].outcome, checkpoint')
    BY ClaimFacts DEF Backed
  <1> QED BY <1>1, <1>2, ClaimFacts, Moves

-----------------------------------------------------------------------------
(* The job *)

\* Steps of the job leave the executions alone.
LEMMA JobSteps ==
  ASSUME IInv, Grant \/ LoseClaim \/ OperatorRetry \/ (\E c \in Claims : Settle(c))
               \/ UNCHANGED vars
  PROVE  IInv'
  <1>1. UNCHANGED <<parent, child, checkpoint, noted>>
    BY DEF Grant, LoseClaim, OperatorRetry, Settle, stageVars, vars
  <1>2. /\ claim' \in {0, granted'} /\ granted' \in 0..MaxClaims /\ finished' \in BOOLEAN
        /\ attempts' \in 0..Limit
    <2>1. /\ claim \in {0, granted} /\ granted \in 0..MaxClaims /\ finished \in BOOLEAN
          /\ attempts \in 0..Limit
      BY DEF IInv, TypeOK
    <2>2. CASE Grant
      <3>1. granted + 1 \in 0..MaxClaims
        BY <2>1, <2>2, LimitAssumption DEF Grant
      <3> QED BY <2>1, <2>2, <3>1 DEF Grant
    <2>3. CASE LoseClaim
      BY <2>1, <2>3 DEF LoseClaim
    <2>4. CASE OperatorRetry
      BY <2>1, <2>4, LimitAssumption DEF OperatorRetry, jobVars
    <2>5. ASSUME NEW c \in Claims, Settle(c)
          PROVE  /\ claim' \in {0, granted'} /\ granted' \in 0..MaxClaims /\ finished' \in BOOLEAN
                 /\ attempts' \in 0..Limit
      BY <2>1, <2>5 DEF Settle
    <2>6. CASE UNCHANGED vars
      BY <2>1, <2>6 DEF vars
    <2> QED BY <2>2, <2>3, <2>4, <2>5, <2>6
  <1>3. TypeOK'
    BY <1>1, <1>2 DEF IInv, TypeOK
  <1>4. ASSUME NEW c \in Claims
        PROVE  Paired(parent'[c], child'[c]) /\ Backed(parent'[c].outcome, checkpoint')
    BY <1>1 DEF IInv
  <1> QED BY <1>3, <1>4 DEF IInv

-----------------------------------------------------------------------------
(* The parent *)

\* The parent is done, for a child that is gone or by a cancellation.
LEMMA Ending ==
  ASSUME IInv, NEW c \in Claims, NEW p \in ParentState, p.pc \in {"loading", "ended"},
         Gone(c) \/ p.outcome = "cancelled", p.pc # "ended" => p.outcome = "none", p.why = "none",
         parent' = [parent EXCEPT ![c] = p],
         UNCHANGED <<jobVars, attempts, child>>, noted' \in BOOLEAN,
         checkpoint' \in Checkpoints, checkpoint # "none" => checkpoint' = checkpoint,
         Backed(p.outcome, checkpoint')
  PROVE  IInv'
  <1>1. Paired(p, child[c])
    BY ClaimFacts DEF Paired, Gone
  <1> QED BY <1>1, ParentMoves

\* The parent begins to reap, and closes the pipe.
LEMMA Reaping ==
  ASSUME IInv, NEW c \in Claims, NEW y \in {"exit", "deadline", "failure", "cancel"},
         NEW f \in {"none", "contract", "other"}, ReapsWith(c, y, f),
         UNCHANGED <<jobVars, stageVars, attempts>>,
         parent[c].pc # "ended",
         y = "failure" =>
           /\ child[c].pc = "dead"
           /\ child[c].error # "none" /\ parent[c].initialized => f = child[c].error
  PROVE  IInv'
  <1> DEFINE p == Reaper(parent[c], y, f)
             k == Piped(child[c], <<>>)
  <1>1. parent' = [parent EXCEPT ![c] = p] /\ child' = [child EXCEPT ![c] = k]
    BY DEF ReapsWith, Reaper, Piped
  <1>2. /\ p \in ParentState /\ p.pc = "reaping" /\ p.why = y /\ p.failure = f
        /\ p.initialized = parent[c].initialized /\ p.outcome = "none"
    BY ClaimFacts, ReaperFacts DEF Paired
  <1>3. k \in ChildState /\ k.pc = child[c].pc /\ k.error = child[c].error
    <2>1. <<>> \in Seq({"initialized", "contract", "other"})
      OBVIOUS
    <2> QED BY <2>1, ClaimFacts, PipedFacts
  <1> HIDE DEF p, k
  <1>4. Paired(p, k) /\ Backed(p.outcome, checkpoint)
    BY <1>2, <1>3, ClaimFacts DEF Paired, Backed
  <1> QED BY <1>1, <1>2, <1>3, <1>4, ClaimFacts, Moves DEF stageVars

\* A checkpoint is reused, or the child is spawned, or it is too late for both.
LEMMA Beginning ==
  ASSUME IInv, NEW c \in Claims, Begin(c)
  PROVE  IInv'
  <1>1. UNCHANGED <<jobVars, checkpoint, noted, attempts>> /\ child[c].pc = "none"
    BY ClaimFacts, NoFacts DEF Begin, stageVars, Paired
  <1>2. ASSUME NEW o \in {checkpoint, "failed"}, o = "failed" \/ checkpoint # "none",
               Ends(c, o), UNCHANGED child
        PROVE  IInv'
    <2>1. o \in Outcomes /\ Backed(o, checkpoint)
      BY <1>2, ClaimFacts DEF Outcomes, Checkpoints, Backed
    <2>2. parent' = [parent EXCEPT ![c] = Ended(o)]
      BY <1>2 DEF Ends, Ended
    <2>3. /\ Ended(o) \in ParentState /\ Ended(o).pc = "ended" /\ Ended(o).why = "none"
          /\ Backed(Ended(o).outcome, checkpoint)
      BY <2>1, EndedFacts
    <2> QED BY <1>1, <1>2, <2>2, <2>3, ClaimFacts, Ending DEF Gone
  <1>3. CASE Reaps(c, "deadline")
    <2>1. parent[c].failure \in {"none", "contract", "other"} /\ parent[c].pc # "ended"
      BY ClaimFacts DEF ParentState, Begin
    <2> QED BY <1>1, <1>3, <2>1, Reaping DEF Reaps, stageVars
  <1>4. CASE /\ parent' = [parent EXCEPT ![c].pc = "polling"]
             /\ child' = [child EXCEPT ![c].pc = "starting"]
    <2> DEFINE p == Polls(parent[c], "polling")
               k == At(child[c], "starting")
    <2>1. parent' = [parent EXCEPT ![c] = p] /\ child' = [child EXCEPT ![c] = k]
      BY <1>4 DEF Polls, At
    <2>2. parent[c] = NoParent /\ child[c] = NoChild
      BY ClaimFacts DEF Begin, Paired
    <2>3. /\ p \in ParentState /\ p.pc = "polling" /\ p.why = "none" /\ p.outcome = "none"
          /\ p.failure = "none" /\ ~ p.initialized
      BY <2>2, NoFacts, PollsFacts
    <2>4. /\ k \in ChildState /\ k.pc = "starting" /\ k.pipe = <<>> /\ k.error = "none" /\ ~ k.term
      BY <2>2, NoFacts, AtFacts
    <2> HIDE DEF p, k
    <2>5. Paired(p, k) /\ Backed(p.outcome, checkpoint)
      BY <2>3, <2>4 DEF Paired, Channel, Told, Backed
    <2> QED BY <1>1, <2>1, <2>3, <2>4, <2>5, ClaimFacts, Moves
  <1> QED BY <1>2, <1>3, <1>4 DEF Begin

\* One message is taken from the pipe.
LEMMA Polling ==
  ASSUME IInv, NEW c \in Claims, Poll(c)
  PROVE  IInv'
  <1> DEFINE p == parent[c]
             k == child[c]
  <1>1. /\ p \in ParentState /\ k \in ChildState /\ Channel(p, k) /\ p.outcome = "none"
        /\ UNCHANGED <<jobVars, checkpoint, noted, attempts>>
    BY ClaimFacts DEF Poll, Paired, stageVars
  <1>2. parent = [parent EXCEPT ![c] = p] /\ p.failure \in {"none", "contract", "other"}
        /\ k.error \in {"none", "contract", "other"} /\ p.initialized \in BOOLEAN
    BY <1>1, ClaimFacts DEF ParentState, ChildState
  <1> DEFINE words == {"initialized", "contract", "other"}
  \* The parent becomes q when s is left in the pipe.
  <1>3. ASSUME NEW q \in ParentState, NEW s \in Seq(words),
               parent' = [parent EXCEPT ![c] = q], child' = [child EXCEPT ![c] = Piped(k, s)],
               q.pc = "checking", q.why = p.why, q.outcome = p.outcome,
               \/ q.failure = p.failure /\ q.initialized = p.initialized /\ s = k.pipe
               \/ q.failure = p.failure /\ q.initialized /\ k.pipe = <<"initialized">> /\ s = <<>>
               \/ /\ q.failure = p.failure /\ q.initialized
                  /\ k.pipe = <<"initialized", k.error>> /\ s = <<k.error>>
               \/ /\ q.failure = k.error /\ q.initialized = p.initialized
                  /\ k.pipe = <<k.error>> /\ s = <<>>
        PROVE  IInv'
    <2> DEFINE m == Piped(k, s)
    <2>1. /\ m \in ChildState /\ m.pc = k.pc /\ m.pipe = s /\ m.error = k.error /\ m.term = k.term
          /\ m.code = k.code
      BY <1>1, PipedFacts
    <2> HIDE DEF m
    <2>2. /\ <<"initialized">> # <<"initialized", k.error>> /\ <<k.error>> # <<"initialized">>
          /\ <<k.error>> # <<"initialized", k.error>> /\ <<"initialized">> # <<>>
          /\ <<"initialized", k.error>> # <<>> /\ <<k.error>> # <<>>
      BY <1>2
    <2>3. /\ m.pc # "none" /\ ~ m.term /\ q.why = "none"
          /\ m.error # "none" <=> m.pc \in {"failing", "reporting"} \/ Told(m)
          /\ Told(m) <=> Told(k)
      BY <1>1, <1>3, <2>1 DEF Channel, Told
    <2>4. m.pc = "starting" => m.pipe = <<>> /\ ~ q.initialized
      BY <1>1, <1>3, <2>1, <2>2 DEF Channel
    <2>5. Channel(q, m)
      <3>1. CASE q.failure = p.failure /\ q.initialized = p.initialized /\ s = k.pipe
        BY <1>1, <2>1, <2>3, <2>4, <3>1 DEF Channel
      <3>2. CASE q.failure = p.failure /\ q.initialized /\ k.pipe = <<"initialized">> /\ s = <<>>
        <4>1. ~ Told(k) /\ p.failure = "none"
          BY <1>1, <2>2, <3>2 DEF Channel
        <4> QED BY <2>1, <2>3, <2>4, <3>2, <4>1 DEF Channel
      <3>3. CASE q.failure = p.failure /\ q.initialized
                 /\ k.pipe = <<"initialized", k.error>> /\ s = <<k.error>>
        <4>1. Told(k) /\ p.failure = "none"
          BY <1>1, <2>2, <3>3 DEF Channel
        <4> QED BY <2>1, <2>3, <2>4, <3>3, <4>1 DEF Channel
      <3>4. CASE q.failure = k.error /\ q.initialized = p.initialized
                 /\ k.pipe = <<k.error>> /\ s = <<>>
        <4>1. Told(k)
          BY <1>1, <2>2, <3>4 DEF Channel
        <4> QED BY <2>1, <2>3, <2>4, <3>4, <4>1 DEF Channel
      <3> QED BY <1>3, <3>1, <3>2, <3>3, <3>4
    <2>6. Paired(q, m) /\ Backed(q.outcome, checkpoint)
      BY <1>1, <1>3, <2>5 DEF Paired, Backed, Channel
    <2> QED BY <1>1, <1>3, <2>1, <2>6, ClaimFacts, Moves DEF m
  <1>4. CASE k.pipe = <<>>
    <2> DEFINE q == Polls(p, "checking")
    <2>1. parent' = [parent EXCEPT ![c] = q] /\ child' = [child EXCEPT ![c] = Piped(k, k.pipe)]
      BY <1>4 DEF Poll, Polls, Piped
    <2>2. /\ q \in ParentState /\ q.pc = "checking" /\ q.why = p.why /\ q.outcome = p.outcome
          /\ q.failure = p.failure /\ q.initialized = p.initialized
      BY <1>1, PollsFacts
    <2>3. k.pipe \in Seq(words)
      BY <1>1 DEF ChildState
    <2> HIDE DEF q
    <2> QED BY <1>3, <2>1, <2>2, <2>3
  <1>5. /\ k.pipe \in {<<>>, <<"initialized">>, <<"initialized", k.error>>, <<k.error>>}
        /\ Head(<<"initialized">>) = "initialized" /\ Tail(<<"initialized">>) = <<>>
        /\ Head(<<"initialized", k.error>>) = "initialized"
        /\ Tail(<<"initialized", k.error>>) = <<k.error>>
        /\ Head(<<k.error>>) = k.error /\ Tail(<<k.error>>) = <<>>
        /\ k.error # "initialized" /\ k.pipe \in Seq(words)
    <2>1. k.pipe \in {<<>>, <<"initialized">>, <<"initialized", k.error>>, <<k.error>>}
      BY <1>1 DEF Channel
    <2>2. k.error # "initialized" /\ k.pipe \in Seq(words)
      BY <1>1, <1>2 DEF ChildState
    <2>3. ASSUME NEW e, NEW f
          PROVE  Head(<<e>>) = e /\ Tail(<<e>>) = <<>> /\ Head(<<e, f>>) = e /\ Tail(<<e, f>>) = <<f>>
      OBVIOUS
    <2> QED BY <2>1, <2>2, <2>3
  <1>6. k.pipe # <<>> => child' = [child EXCEPT ![c] = Piped(k, Tail(k.pipe))]
    BY DEF Poll, Piped
  <1>7. CASE k.pipe # <<>> /\ Head(k.pipe) = "initialized"
    <2> DEFINE q == Signalled(p)
    <2>1. parent' = [parent EXCEPT ![c] = q]
      BY <1>7 DEF Poll, Signalled
    <2>2. /\ q \in ParentState /\ q.pc = "checking" /\ q.why = p.why /\ q.outcome = p.outcome
          /\ q.failure = p.failure /\ q.initialized
      BY <1>1, SignalledFacts
    <2>3. \/ k.pipe = <<"initialized">> /\ Tail(k.pipe) = <<>>
          \/ k.pipe = <<"initialized", k.error>> /\ Tail(k.pipe) = <<k.error>>
      BY <1>5, <1>7
    <2>4. Tail(k.pipe) \in Seq(words)
      BY <1>5, <1>7
    <2> HIDE DEF q
    <2> QED BY <1>3, <1>6, <1>7, <2>1, <2>2, <2>3, <2>4
  <1>8. CASE k.pipe # <<>> /\ Head(k.pipe) # "initialized"
    <2> DEFINE q == Failed(p, k.error)
    <2>1. k.pipe = <<k.error>> /\ Head(k.pipe) = k.error /\ Tail(k.pipe) = <<>>
      BY <1>5, <1>8
    <2>2. parent' = [parent EXCEPT ![c] = q]
      BY <1>8, <2>1 DEF Poll, Failed
    <2>3. /\ q \in ParentState /\ q.pc = "checking" /\ q.why = p.why /\ q.outcome = p.outcome
          /\ q.failure = k.error /\ q.initialized = p.initialized
      BY <1>1, <1>2, FailedFacts
    <2>4. Tail(k.pipe) \in Seq(words)
      BY <1>5, <1>8
    <2> HIDE DEF q
    <2> QED BY <1>3, <1>6, <1>8, <2>1, <2>2, <2>3, <2>4
  <1> QED BY <1>4, <1>7, <1>8

\* A parent that looks at the process and the clock while it polls.
LEMMA Watching ==
  ASSUME IInv, NEW c \in Claims, SeesAlive(c) \/ TimesOut(c) \/ Cancel(c)
  PROVE  IInv'
  <1>1. /\ UNCHANGED <<jobVars, stageVars, attempts>> /\ parent[c].pc \in {"polling", "checking"}
        /\ parent[c].failure \in {"none", "contract", "other"}
    BY ClaimFacts DEF SeesAlive, TimesOut, Cancel, ParentState
  <1>2. ASSUME NEW y \in {"deadline", "cancel"}, Reaps(c, y) PROVE IInv'
    BY <1>1, <1>2, Reaping DEF Reaps
  <1>3. CASE SeesAlive(c)
    <2> DEFINE q == Polls(parent[c], "polling")
    <2>1. parent' = [parent EXCEPT ![c] = q] /\ UNCHANGED child
      BY <1>3 DEF SeesAlive, Polls
    <2>2. /\ q \in ParentState /\ q.pc = "polling" /\ q.why = parent[c].why
          /\ q.outcome = parent[c].outcome /\ q.failure = parent[c].failure
          /\ q.initialized = parent[c].initialized
      BY ClaimFacts, PollsFacts
    <2> HIDE DEF q
    <2>3. Channel(parent[c], child[c]) /\ Paired(parent[c], child[c])
      BY <1>1, ClaimFacts DEF Paired
    <2>4. Channel(q, child[c])
      BY <2>2, <2>3 DEF Channel
    <2>5. Paired(q, child[c]) /\ Backed(q.outcome, checkpoint)
      BY <1>1, <2>2, <2>3, <2>4, ClaimFacts DEF Paired, Backed, Channel
    <2> QED BY <1>1, <2>1, <2>2, <2>5, ClaimFacts, ParentMoves DEF stageVars
  <1> QED BY <1>2, <1>3 DEF TimesOut, Cancel

\* The parent sees that the process has exited, and has read its last word.
LEMMA SeeingExit ==
  ASSUME IInv, NEW c \in Claims, SeesExit(c)
  PROVE  IInv'
  <1> DEFINE p == parent[c]
             k == child[c]
             f == IF LastWord(c) = "none" THEN "other" ELSE LastWord(c)
  <1>1. /\ p \in ParentState /\ k \in ChildState /\ Channel(p, k) /\ p.pc = "checking"
        /\ k.pc = "dead" /\ UNCHANGED <<jobVars, stageVars, attempts>>
        /\ p.failure \in {"none", "contract", "other"} /\ k.error \in {"none", "contract", "other"}
    BY ClaimFacts DEF SeesExit, Paired, ParentState, ChildState
  <1>2. \/ Reaps(c, "exit")
        \/ ReapsWith(c, "failure", f)
    BY DEF SeesExit
  <1>3. CASE Reaps(c, "exit")
    BY <1>1, <1>3, Reaping DEF Reaps
  <1>4. CASE ReapsWith(c, "failure", f)
    <2>1. ASSUME NEW e, NEW g
          PROVE  Head(<<e>>) = e /\ Head(<<e, g>>) = e /\ <<e>> # <<>>
      OBVIOUS
    <2>2. /\ LastWord(c) \in {"none", "contract", "other"}
          /\ Told(k) /\ p.initialized => LastWord(c) = k.error
      BY <1>1, <2>1 DEF LastWord, Channel
    <2>3. f \in {"none", "contract", "other"}
      BY <2>2
    <2>4. k.error # "none" /\ p.initialized => f = k.error
      BY <1>1, <2>2 DEF Channel
    <2> HIDE DEF f
    <2> QED BY <1>1, <1>4, <2>3, <2>4, Reaping
  <1> QED BY <1>2, <1>3, <1>4

\* SIGTERM and SIGKILL.
LEMMA Killing ==
  ASSUME IInv, NEW c \in Claims, Terminate(c) \/ Kill(c)
  PROVE  IInv'
  <1>1. /\ UNCHANGED <<jobVars, stageVars, attempts, parent>> /\ child[c].pc \notin {"none", "dead"}
        /\ ~ Heard(c)
    BY DEF Terminate, Kill, Gone, Heard
  <1>2. ASSUME NEW k \in ChildState, child' = [child EXCEPT ![c] = k],
               k.pc = "dead" \/ (k.pc = child[c].pc /\ k.error = child[c].error)
        PROVE  IInv'
    <2>1. k.pc \in {"failing", "reporting"} => k.error # "none"
      BY <1>2, ClaimFacts DEF Paired
    <2> QED BY <1>1, <1>2, <2>1, ClaimFacts, ChildMoves DEF stageVars
  <1>3. CASE Terminate(c)
    <2> DEFINE k == [child[c] EXCEPT !.term = TRUE]
    <2>1. k \in ChildState /\ k.pc = child[c].pc /\ k.error = child[c].error
      BY ClaimFacts DEF ChildState
    <2>2. child' = [child EXCEPT ![c] = k]
      BY <1>3 DEF Terminate
    <2> HIDE DEF k
    <2> QED BY <1>2, <2>1, <2>2
  <1>4. CASE Kill(c)
    <2>1. child' = [child EXCEPT ![c] = Exited(child[c], 1)]
      BY <1>4 DEF Kill, Exits, Exited
    <2> QED BY <1>2, <2>1, ClaimFacts, ExitedFacts
  <1> QED BY <1>3, <1>4

\* The parent returns from run_supervised, and _research ends.
LEMMA Finishing ==
  ASSUME IInv, NEW c \in Claims,
         \/ Return(c) \/ DenyInParent(c) \/ FailInParent(c) \/ Cancelled(c) \/ CancelReaping(c)
         \/ Load(c)
  PROVE  IInv'
  <1>1. UNCHANGED <<jobVars, attempts, child>>
    BY DEF Return, DenyInParent, FailInParent, Cancelled, CancelReaping, Load, stageVars
  <1>2. ASSUME NEW o \in Outcomes, Ends(c, o), Gone(c) \/ o = "cancelled", noted' \in BOOLEAN,
               checkpoint' \in Checkpoints, checkpoint # "none" => checkpoint' = checkpoint,
               Backed(o, checkpoint')
        PROVE  IInv'
    <2>1. parent' = [parent EXCEPT ![c] = Ended(o)]
      BY <1>2 DEF Ends, Ended
    <2>2. /\ Ended(o) \in ParentState /\ Ended(o).pc = "ended" /\ Ended(o).why = "none"
          /\ Backed(Ended(o).outcome, checkpoint') /\ (Gone(c) \/ Ended(o).outcome = "cancelled")
      BY <1>2, EndedFacts
    <2> QED BY <1>1, <1>2, <2>1, <2>2, Ending
  <1>3. CASE Return(c)
    <2>1. parent' = [parent EXCEPT ![c] = Left("loading")]
      BY <1>3 DEF Return, Left
    <2>2. /\ Left("loading") \in ParentState /\ Left("loading").pc = "loading"
          /\ Left("loading").why = "none" /\ Left("loading").outcome = "none"
          /\ Backed(Left("loading").outcome, checkpoint)
      BY LeftFacts DEF Backed
    <2> QED BY <1>1, <1>3, <2>1, <2>2, ClaimFacts, Ending DEF Return, Reaped, stageVars
  <1>4. CASE DenyInParent(c)
    <2>1. CASE checkpoint' = Persisted("exhausted") /\ Ends(c, "exhausted")
      <3>1. "exhausted" \in Outcomes /\ Backed("exhausted", checkpoint')
        BY <2>1, ClaimFacts, PersistedFacts DEF Outcomes, Backed
      <3> QED BY <1>2, <1>4, <2>1, <3>1, ClaimFacts, PersistedFacts DEF DenyInParent, Reaped
    <2>2. CASE Ends(c, "failed") /\ UNCHANGED checkpoint
      <3>1. "failed" \in Outcomes /\ Backed("failed", checkpoint)
        BY DEF Outcomes, Backed
      <3> QED BY <1>2, <1>4, <2>2, <3>1, ClaimFacts DEF DenyInParent, Reaped
    <2> QED BY <1>4, <2>1, <2>2 DEF DenyInParent
  <1>5. CASE FailInParent(c)
    <2>1. "failed" \in Outcomes /\ Backed("failed", checkpoint)
      BY DEF Outcomes, Backed
    <2>2. noted' \in BOOLEAN
      BY <1>5, ClaimFacts DEF FailInParent
    <2> QED BY <1>2, <1>5, <2>1, <2>2, ClaimFacts DEF FailInParent, Reaped
  <1>6. CASE Cancelled(c) \/ CancelReaping(c)
    <2>1. "cancelled" \in Outcomes /\ Backed("cancelled", checkpoint)
      BY DEF Outcomes, Backed
    <2> QED BY <1>2, <1>6, <2>1, ClaimFacts DEF Cancelled, CancelReaping, stageVars
  <1>7. CASE Load(c)
    <2>1. LoadedCheckpoint(c) \in Outcomes /\ Backed(LoadedCheckpoint(c), checkpoint)
      BY ClaimFacts DEF LoadedCheckpoint, Outcomes, Checkpoints, Backed
    <2>2. Gone(c)
      BY <1>7, ClaimFacts DEF Load, Paired, Gone
    <2> QED BY <1>2, <1>7, <2>1, <2>2, ClaimFacts DEF Load, stageVars
  <1> QED BY <1>3, <1>4, <1>5, <1>6, <1>7

\* The worker process is killed; nobody listens to its child any more.
LEMMA Crashing ==
  ASSUME IInv, NEW c \in Claims, Crash(c)
  PROVE  IInv'
  <1> DEFINE p == Left("crashed")
             k == Piped(child[c], <<>>)
  <1>1. parent' = [parent EXCEPT ![c] = p] /\ child' = [child EXCEPT ![c] = k]
    BY DEF Crash, Left, Piped
  <1>2. p \in ParentState /\ p.pc = "crashed" /\ p.outcome = "none" /\ p.why = "none"
    BY LeftFacts
  <1>3. k \in ChildState /\ k.pc = child[c].pc /\ k.error = child[c].error
    <2>1. <<>> \in Seq({"initialized", "contract", "other"})
      OBVIOUS
    <2> QED BY <2>1, ClaimFacts, PipedFacts
  <1> HIDE DEF p, k
  <1>4. Paired(p, k) /\ Backed(p.outcome, checkpoint)
    BY <1>2, <1>3, ClaimFacts DEF Paired, Backed
  <1> QED BY <1>1, <1>2, <1>3, <1>4, ClaimFacts, Moves DEF Crash, stageVars

-----------------------------------------------------------------------------
(* The child *)

\* The child fails, before it has told anybody.
LEMMA Breaking ==
  ASSUME IInv, NEW c \in Claims, NEW e \in {"contract", "other"},
         child[c].pc \in {"starting", "working", "persisting", "denied"}, Breaks(c, e),
         UNCHANGED <<jobVars, stageVars, attempts, parent>>
  PROVE  IInv'
  <1> DEFINE k == child[c]
             m == Erring(k, "failing", e)
  <1>1. child' = [child EXCEPT ![c] = m]
    BY DEF Breaks, Erring
  <1>2. /\ m \in ChildState /\ m.pc = "failing" /\ m.pipe = k.pipe /\ m.error = e
        /\ m.term = k.term
    BY ClaimFacts, ErringFacts
  <1> HIDE DEF m
  <1>3. Heard(c) => Channel(parent[c], m)
    BY <1>2, ClaimFacts DEF Heard, Paired, Channel, Told
  <1>4. m.error # "none" /\ child[c].pc \notin {"none", "dead"}
    BY <1>2
  <1> QED BY <1>1, <1>2, <1>3, <1>4, ClaimFacts, ChildMoves DEF stageVars

\* The child goes on.
LEMMA Working ==
  ASSUME IInv, NEW c \in Claims, NEW pc \in {"persisting", "denied", "closing"},
         child[c].pc \in {"working", "persisting", "denied"},
         child' = [child EXCEPT ![c].pc = pc], UNCHANGED <<jobVars, noted, attempts, parent>>,
         checkpoint' \in Checkpoints, checkpoint # "none" => checkpoint' = checkpoint
  PROVE  IInv'
  <1> DEFINE k == child[c]
             m == At(k, pc)
  <1>1. child' = [child EXCEPT ![c] = m]
    BY DEF At
  <1>2. m \in ChildState /\ m.pc = pc /\ m.pipe = k.pipe /\ m.error = k.error /\ m.term = k.term
    BY ClaimFacts, AtFacts
  <1> HIDE DEF m
  <1>3. Heard(c) => Channel(parent[c], m)
    BY <1>2, ClaimFacts DEF Heard, Paired, Channel, Told
  <1>4. m.pc \notin {"failing", "reporting"} /\ child[c].pc \notin {"none", "dead"}
    BY <1>2
  <1> QED BY <1>1, <1>2, <1>3, <1>4, ClaimFacts, ChildMoves

\* The child signals that it has started.
LEMMA Initializing ==
  ASSUME IInv, NEW c \in Claims, Initialize(c)
  PROVE  IInv'
  <1>1. child[c].pc = "starting" /\ UNCHANGED <<jobVars, stageVars, attempts, parent>>
    BY DEF Initialize
  <1>2. CASE Breaks(c, "other")
    BY <1>1, <1>2, Breaking
  <1>3. CASE Fence(c) /\ Heard(c)
    <2> DEFINE k == child[c]
               m == Piped(At(k, "working"), <<"initialized">>)
    <2>1. Channel(parent[c], k) /\ k.pipe = <<>>
      BY <1>1, <1>3, ClaimFacts DEF Heard, Paired, Channel
    <2>2. child' = [child EXCEPT ![c] =
            [k EXCEPT !.pc = "working", !.pipe = Append(k.pipe, "initialized")]]
      BY <1>3 DEF Initialize
    <2>3. Append(k.pipe, "initialized") = <<"initialized">>
      BY <2>1
    <2>4. child' = [child EXCEPT ![c] = m]
      BY <2>2, <2>3 DEF Piped, At
    <2>5. <<"initialized">> \in Seq({"initialized", "contract", "other"})
      OBVIOUS
    <2>6. /\ At(k, "working") \in ChildState /\ At(k, "working").pc = "working"
          /\ At(k, "working").error = k.error /\ At(k, "working").term = k.term
      BY ClaimFacts, AtFacts
    <2>7. /\ m \in ChildState /\ m.pc = "working" /\ m.pipe = <<"initialized">>
          /\ m.error = k.error /\ m.term = k.term
      BY <2>5, <2>6, PipedFacts
    <2> HIDE DEF m
    <2>8. Channel(parent[c], m)
      BY <1>1, <2>1, <2>7 DEF Channel, Told
    <2> QED BY <1>1, <2>4, <2>7, <2>8, ClaimFacts, ChildMoves DEF stageVars
  <1> QED BY <1>2, <1>3 DEF Initialize

\* An attempt is counted while the allowance lasts.
LEMMA Reserving ==
  ASSUME IInv, NEW c \in Claims, Reserve(c)
  PROVE  IInv'
  <1>1. child[c].pc = "working" /\ UNCHANGED <<jobVars, stageVars, parent>>
    BY DEF Reserve
  <1>2. CASE Breaks(c, "other") /\ UNCHANGED attempts
    BY <1>1, <1>2, Breaking
  <1>3. CASE child' = [child EXCEPT ![c].pc = "denied"] /\ UNCHANGED attempts
    BY <1>1, <1>3, ClaimFacts, Working DEF stageVars
  <1>4. CASE Allowed /\ attempts' = attempts + 1 /\ UNCHANGED child
    <2>1. attempts' \in 0..Limit
      BY <1>4, ClaimFacts, LimitAssumption DEF Allowed
    <2>2. TypeOK'
      BY <1>1, <1>4, <2>1 DEF IInv, TypeOK, jobVars, stageVars
    <2> QED BY <1>1, <1>4, <2>2 DEF IInv, stageVars
  <1> QED BY <1>2, <1>3, <1>4 DEF Reserve

\* The child ends its work one way or another.
LEMMA Concluding ==
  ASSUME IInv, NEW c \in Claims, Conclude(c) \/ Raise(c) \/ Persist(c)
  PROVE  IInv'
  <1>1. CASE Conclude(c)
    BY <1>1, ClaimFacts, Working DEF Conclude, stageVars
  <1>2. CASE Raise(c)
    BY <1>2, Breaking DEF Raise
  <1>3. CASE Persist(c)
    <2>1. CASE Breaks(c, "other") /\ UNCHANGED checkpoint
      BY <1>3, <2>1, Breaking DEF Persist, stageVars
    <2>2. CASE /\ \E o \in {"result", "exhausted"} : checkpoint' = Persisted(o)
               /\ child' = [child EXCEPT ![c].pc = "closing"]
      <3>1. checkpoint' \in Checkpoints /\ (checkpoint # "none" => checkpoint' = checkpoint)
        BY <2>2, ClaimFacts, PersistedFacts
      <3> QED BY <1>3, <2>2, <3>1, Working DEF Persist
    <2> QED BY <1>3, <2>1, <2>2 DEF Persist
  <1> QED BY <1>1, <1>2, <1>3

\* The child notes its error, or one of closing.
LEMMA Noting ==
  ASSUME IInv, NEW c \in Claims, NEW e \in {"contract", "other"},
         child[c].pc \in {"failing", "closing"},
         child' = [child EXCEPT ![c] = [@ EXCEPT !.pc = "reporting", !.error = e]],
         UNCHANGED <<jobVars, checkpoint, attempts, parent>>, noted' \in BOOLEAN
  PROVE  IInv'
  <1> DEFINE k == child[c]
             m == Erring(k, "reporting", e)
  <1>1. child' = [child EXCEPT ![c] = m]
    BY DEF Erring
  <1>2. /\ m \in ChildState /\ m.pc = "reporting" /\ m.pipe = k.pipe /\ m.error = e
        /\ m.term = k.term
    BY ClaimFacts, ErringFacts
  <1> HIDE DEF m
  <1>3. Heard(c) => Channel(parent[c], m)
    BY <1>2, ClaimFacts DEF Heard, Paired, Channel, Told
  <1> QED BY <1>1, <1>2, <1>3, ClaimFacts, ChildMoves

\* The child exits, and tells why when it failed.
LEMMA Exiting ==
  ASSUME IInv, NEW c \in Claims, Close(c) \/ Note(c) \/ Report(c) \/ Interrupted(c)
  PROVE  IInv'
  <1> DEFINE k == child[c]
  <1>1. /\ UNCHANGED <<jobVars, checkpoint, attempts, parent>> /\ k \in ChildState
        /\ k.error \in {"none", "contract", "other"} /\ k.pc \notin {"none", "dead"}
        /\ Heard(c) => Channel(parent[c], k)
    BY ClaimFacts DEF Close, Note, Report, Interrupted, stageVars, Heard, Paired, ChildState
  <1>2. CASE child' = [child EXCEPT ![c] = Exited(k, 1)] /\ Interrupted(c)
    <2>1. ~ Heard(c) /\ UNCHANGED noted
      BY <1>1, <1>2 DEF Interrupted, Channel, stageVars
    <2> QED BY <1>1, <1>2, <2>1, ClaimFacts, ExitedFacts, ChildMoves
  <1>3. CASE child' = [child EXCEPT ![c] = Exited(k, 0)] /\ Close(c)
    <2> DEFINE m == Exited(k, 0)
    <2>1. /\ m \in ChildState /\ m.pc = "dead" /\ m.pipe = k.pipe /\ m.error = k.error
          /\ ~ m.term /\ m.code = 0
      BY <1>1, ExitedFacts
    <2> HIDE DEF m
    <2>2. Heard(c) => Channel(parent[c], m)
      BY <1>1, <1>3, <2>1 DEF Close, Channel, Told
    <2> QED BY <1>1, <1>3, <2>1, <2>2, ClaimFacts, ChildMoves DEF Close, stageVars, m
  <1>4. CASE /\ child' = [child EXCEPT ![c] = [@ EXCEPT !.pc = "reporting", !.error = "other"]]
             /\ Close(c)
    BY <1>1, <1>4, ClaimFacts, Noting DEF Close, stageVars
  <1>5. CASE Note(c)
    <2>1. noted' \in BOOLEAN
      BY <1>5, ClaimFacts DEF Note
    <2> DEFINE e == IF Fence(c) THEN k.error ELSE "other"
    <2>2. e \in {"contract", "other"}
      BY <1>1, <1>5, ClaimFacts DEF Note, Paired
    <2>3. child' = [child EXCEPT ![c] = [@ EXCEPT !.pc = "reporting", !.error = e]]
      BY <1>5 DEF Note
    <2> HIDE DEF e
    <2> QED BY <1>1, <1>5, <2>1, <2>2, <2>3, Noting DEF Note
  <1>6. CASE Report(c)
    <2> DEFINE s == IF Heard(c) THEN Append(k.pipe, k.error) ELSE k.pipe
               m == Piped(Exited(k, 1), s)
    <2>1. k.error # "none" /\ s \in Seq({"initialized", "contract", "other"})
      <3>1. k.pipe \in Seq({"initialized", "contract", "other"})
        BY <1>1 DEF ChildState
      <3>2. k.error \in {"initialized", "contract", "other"}
        BY <1>1, <1>6, ClaimFacts DEF Report, Paired
      <3>3. Append(k.pipe, k.error) \in Seq({"initialized", "contract", "other"})
        BY <3>1, <3>2
      <3>4. k.error # "none"
        BY <3>2
      <3> QED BY <3>1, <3>3, <3>4
    <2>2. child' = [child EXCEPT ![c] = m]
      BY <1>6 DEF Report, Piped, Exited
    <2>3. /\ Exited(k, 1) \in ChildState /\ Exited(k, 1).pc = "dead" /\ Exited(k, 1).code = 1
          /\ Exited(k, 1).error = k.error /\ ~ Exited(k, 1).term
      BY <1>1, ExitedFacts
    <2>4. /\ m \in ChildState /\ m.pc = "dead" /\ m.code = 1 /\ m.pipe = s /\ m.error = k.error
          /\ ~ m.term
      BY <2>1, <2>3, PipedFacts
    <2>5. ASSUME Heard(c) PROVE Channel(parent[c], m)
      <3>1. Channel(parent[c], k) /\ ~ Told(k) /\ s = Append(k.pipe, k.error)
        BY <1>1, <1>6, <2>5 DEF Report, Told
      <3>2. \/ parent[c].failure = "none" /\ k.pipe = <<>>
            \/ parent[c].failure = "none" /\ k.pipe = <<"initialized">> /\ ~ parent[c].initialized
        BY <3>1 DEF Channel
      <3>3. ASSUME NEW e, NEW f PROVE Append(<<>>, f) = <<f>> /\ Append(<<e>>, f) = <<e, f>>
        BY AppendFacts
      <3>4. \/ s = <<k.error>>
            \/ s = <<"initialized", k.error>> /\ ~ parent[c].initialized
        BY <3>1, <3>2, <3>3
      <3> HIDE DEF m, s
      <3> QED BY <2>1, <2>4, <3>1, <3>2, <3>4 DEF Channel, Told
    <2> HIDE DEF m, s
    <2>6. m.pc \notin {"failing", "reporting"} /\ UNCHANGED noted
      BY <1>6, <2>4 DEF Report, stageVars
    <2> QED BY <1>1, <2>2, <2>4, <2>5, <2>6, ClaimFacts, ChildMoves
  <1> QED BY <1>2, <1>3, <1>4, <1>5, <1>6 DEF Close, Interrupted, Exits, Exited

-----------------------------------------------------------------------------
(* Theorems *)

\* Every step keeps the invariant.
LEMMA InvStep == IInv /\ [Next]_vars => IInv'
  <1> SUFFICES ASSUME IInv, [Next]_vars PROVE IInv'
    OBVIOUS
  <1>1. ASSUME NEW c \in Claims, Supervise(c) \/ Cancel(c) \/ CancelReaping(c) \/ Crash(c)
        PROVE  IInv'
    BY <1>1, Beginning, Polling, Watching, SeeingExit, Killing, Finishing, Crashing DEF Supervise
  <1>2. ASSUME NEW c \in Claims, ChildStep(c) PROVE IInv'
    BY <1>2, Initializing, Reserving, Concluding, Exiting DEF ChildStep
  <1> QED BY <1>1, <1>2, JobSteps DEF Next

\* The invariant of every execution of the stage.
THEOREM Invariance == Spec => []IInv
  BY InvInit, InvStep, PTL DEF Spec

\* Every variable has its type, and the workflow's allowance is kept by however
\* many children draw on it (_stage_budget, reserve_attempt).
THEOREM TypeCorrect == Spec => []TypeOK
  <1>1. IInv => TypeOK
    BY DEF IInv
  <1> QED BY <1>1, Invariance, PTL

\* What _research hands on is the committed checkpoint.
THEOREM ResultsAreDurable == Spec => []ResultIsDurable
  <1>1. IInv => ResultIsDurable
    BY DEF IInv, Backed, ResultIsDurable
  <1> QED BY <1>1, Invariance, PTL

\* When run_supervised has returned or raised, unless it was cancelled, its
\* child is dead.
THEOREM ReapedChildrenAreDead == Spec => []NoWorkAfterReap
  <1>1. IInv => NoWorkAfterReap
    BY DEF IInv, Paired, NoWorkAfterReap, Gone
  <1> QED BY <1>1, Invariance, PTL

\* An initialized child's failure is reported under its own code, however the
\* report and the exit race the polls.
THEOREM FailuresAreReported == Spec => []FailureReported
  <1>1. IInv => FailureReported
    BY DEF IInv, Paired, FailureReported
  <1> QED BY <1>1, Invariance, PTL

\* The first checkpoint of the stage stays, whoever commits later.
THEOREM CheckpointsAreImmutable == Spec => CheckpointImmutable
  <1>1. ASSUME [Next]_vars, checkpoint # "none" PROVE checkpoint' = checkpoint
    <2>1. ASSUME NEW o PROVE Persisted(o) = checkpoint
      BY <1>1 DEF Persisted
    <2>2. ASSUME NEW c \in Claims, Supervise(c) \/ Cancel(c) \/ CancelReaping(c) \/ Crash(c)
          PROVE  checkpoint' = checkpoint
      BY <2>1, <2>2 DEF Supervise, Begin, Poll, SeesExit, SeesAlive, TimesOut, Terminate, Kill,
           Return, DenyInParent, FailInParent, Cancelled, Load, Cancel, CancelReaping, Crash, stageVars
    <2>3. ASSUME NEW c \in Claims, ChildStep(c) PROVE checkpoint' = checkpoint
      BY <2>1, <2>3 DEF ChildStep, Initialize, Reserve, Conclude, Raise, Persist, Close, Note,
           Report, Interrupted, stageVars
    <2>4. ASSUME Grant \/ LoseClaim \/ OperatorRetry \/ (\E c \in Claims : Settle(c)) \/ UNCHANGED vars
          PROVE  checkpoint' = checkpoint
      BY <2>4 DEF Grant, LoseClaim, OperatorRetry, Settle, stageVars, vars
    <2> QED BY <1>1, <2>2, <2>3, <2>4 DEF Next
  <1> DEFINE Kept == checkpoint # "none" => checkpoint' = checkpoint
  <1>2. [Next]_vars => [Kept]_vars
    BY <1>1
  <1> QED BY <1>2, PTL DEF Spec, CheckpointImmutable

=============================================================================
