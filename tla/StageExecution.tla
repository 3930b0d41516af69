--------------------------- MODULE StageExecution ---------------------------
(***************************************************************************)
(* One research stage of one workflow: the parent that supervises it       *)
(* (ResearchWorker._research in src/malg/worker/service.py and             *)
(* run_supervised in src/malg/worker/execution.py), the spawned child that *)
(* does it (_child_stage_async), the pipe between them, the workflow's     *)
(* attempt counters (_stage_budget) and the one checkpoint the stage gets. *)
(*                                                                         *)
(* Claims are those of JobQueue, numbered in the order they are granted;   *)
(* only the newest can be current.  Every claim has its own parent and its *)
(* own child, and those of a lost claim may still run when the next claim  *)
(* starts the stage again.                                                 *)
(*                                                                         *)
(* The parent polls the pipe, then asks whether the process is alive, then *)
(* looks at its clocks: a child can act between the first two.             *)
(***************************************************************************)
EXTENDS Integers, Sequences

CONSTANTS
  MaxClaims,  \* bound: claims granted to the job
  Limit       \* attempts a workflow allows of one kind of external request

ASSUME LimitAssumption == MaxClaims \in Nat /\ Limit \in Nat

Claims == 1..MaxClaims

VARIABLES
  claim,       \* the claim that the job row holds, 0 for none
  granted,     \* claims granted so far
  finished,    \* the job has succeeded
  checkpoint,  \* the stage's latest (and only) revision
  noted,       \* "<stage>.contract_failure" has been written
  attempts,    \* the workflow's counter of one kind of attempt
  parent,      \* [Claims -> ParentState]
  child        \* [Claims -> ChildState]

vars == <<claim, granted, finished, checkpoint, noted, attempts, parent, child>>

-----------------------------------------------------------------------------
(* Types *)

Checkpoints == {"none", "result", "exhausted"}

\* polling: before receiver.poll(); checking: before process.is_alive();
\* reaping: in run_supervised's finally clause, for the reason in why;
\* loading: run_supervised has returned; ended: _research has, with outcome.
ParentState ==
  [pc : {"none", "polling", "checking", "reaping", "loading", "ended", "crashed"},
   initialized : BOOLEAN,
   failure : {"none", "contract", "other"},
   why : {"none", "exit", "deadline", "failure", "cancel"},
   outcome : {"none", "result", "exhausted", "failed", "cancelled"}]

NoParent == [pc |-> "none", initialized |-> FALSE, failure |-> "none",
             why |-> "none", outcome |-> "none"]

\* persisting: nothing is awaited any more before the result is committed;
\* denied: a budget denial is about to be; closing: it is, and the clients are
\* being closed; failing: an exception was raised; reporting: it was noted, and
\* the clients are being closed; term: SIGTERM was sent; code: its exit code.
ChildState ==
  [pc : {"none", "starting", "working", "persisting", "denied", "closing",
         "failing", "reporting", "dead"},
   pipe : Seq({"initialized", "contract", "other"}),
   error : {"none", "contract", "other"},
   term : BOOLEAN, code : {0, 1}]

NoChild == [pc |-> "none", pipe |-> <<>>, error |-> "none", term |-> FALSE, code |-> 0]

Init ==
  /\ claim = 0
  /\ granted = 0
  /\ finished = FALSE
  /\ checkpoint = "none"
  /\ noted = FALSE
  /\ attempts = 0
  /\ parent = [c \in Claims |-> NoParent]
  /\ child = [c \in Claims |-> NoChild]

-----------------------------------------------------------------------------
(* The job, as JobQueue describes it *)

jobVars == <<claim, granted, finished>>
stageVars == <<checkpoint, noted>>

Grant ==
  /\ claim = 0 /\ ~ finished /\ granted < MaxClaims
  /\ granted' = granted + 1
  /\ claim' = granted + 1
  /\ UNCHANGED <<finished, stageVars, attempts, parent, child>>

\* The claim expires, or the job is cancelled.
LoseClaim ==
  /\ claim # 0
  /\ claim' = 0
  /\ UNCHANGED <<granted, finished, stageVars, attempts, parent, child>>

\* retry_failed_job gives the workflow a new allowance and keeps its results.
OperatorRetry ==
  /\ claim = 0 /\ ~ finished
  /\ attempts' = 0
  /\ UNCHANGED <<jobVars, stageVars, parent, child>>

\* run_once completes the job, for a budget denial too, or fails it.
Settle(c) ==
  /\ parent[c].pc = "ended" /\ parent[c].outcome # "cancelled"
  /\ claim = c
  /\ claim' = 0
  /\ finished' = (parent[c].outcome \in {"result", "exhausted"})
  /\ UNCHANGED <<granted, stageVars, attempts, parent, child>>

\* require_claim.
Fence(c) == claim = c

\* Plausible bug: the newest result of a stage replaces the one before it.
PersistedLatest(outcome) == outcome

\* persist_stage_result: both processes hash the same stage input, so the
\* first revision stays.
Persisted(outcome) == IF checkpoint = "none" THEN outcome ELSE checkpoint

-----------------------------------------------------------------------------
(* The parent *)

Ends(c, outcome) ==
  parent' = [parent EXCEPT ![c] = [NoParent EXCEPT !.pc = "ended", !.outcome = outcome]]

\* The finally clause of run_supervised starts by closing the pipe.
ReapsWith(c, why, failure) ==
  /\ parent' = [parent EXCEPT ![c] =
       [@ EXCEPT !.pc = "reaping", !.why = why, !.failure = failure]]
  /\ child' = [child EXCEPT ![c].pipe = <<>>]

Reaps(c, why) == ReapsWith(c, why, parent[c].failure)

\* _research reuses a saved checkpoint without a fence or a child; otherwise it
\* spawns the child, unless the claim is lost or (a denial, as after a reaped
\* child) no time is left.
Begin(c) ==
  /\ parent[c].pc = "none" /\ c <= granted
  /\ \/ /\ checkpoint # "none"
        /\ Ends(c, checkpoint)
        /\ UNCHANGED child
     \/ /\ checkpoint = "none" /\ ~ Fence(c)
        /\ Ends(c, "failed")
        /\ UNCHANGED child
     \/ /\ checkpoint = "none" /\ Fence(c)
        /\ Reaps(c, "deadline")
     \/ /\ checkpoint = "none" /\ Fence(c)
        /\ parent' = [parent EXCEPT ![c].pc = "polling"]
        /\ child' = [child EXCEPT ![c].pc = "starting"]
  /\ UNCHANGED <<jobVars, stageVars, attempts>>

\* receiver.poll() and recv_bytes.
Poll(c) ==
  LET pipe == child[c].pipe
      p == parent[c]
  IN
  /\ p.pc = "polling"
  /\ parent' = [parent EXCEPT ![c] =
       IF pipe = <<>> THEN [p EXCEPT !.pc = "checking"]
       ELSE IF Head(pipe) = "initialized"
       THEN [p EXCEPT !.pc = "checking", !.initialized = TRUE]
       ELSE [p EXCEPT !.pc = "checking", !.failure = Head(pipe)]]
  /\ child' = [child EXCEPT ![c].pipe = IF @ = <<>> THEN @ ELSE Tail(@)]
  /\ UNCHANGED <<jobVars, stageVars, attempts>>

\* Plausible bug: the message that came with the exit is not read.
LastWordIgnored(c) == parent[c].failure

\* The failure known once the process is dead: one more message is read.
LastWord(c) ==
  IF parent[c].failure = "none" /\ child[c].pipe # <<>> /\ Head(child[c].pipe) # "initialized"
  THEN Head(child[c].pipe) ELSE parent[c].failure

\* The process is dead: without the sign of initialization, or with a non-zero
\* exit code, it has failed.
SeesExit(c) ==
  /\ parent[c].pc = "checking"
  /\ child[c].pc = "dead"
  /\ IF parent[c].initialized /\ child[c].code = 0
     THEN Reaps(c, "exit")
     ELSE ReapsWith(c, "failure", IF LastWord(c) = "none" THEN "other" ELSE LastWord(c))
  /\ UNCHANGED <<jobVars, stageVars, attempts>>

\* Plausible bug: only an initialized child has a deadline to keep.
TimesOutInitialized(c) ==
  /\ parent[c].pc = "checking"
  /\ child[c].pc # "dead"
  /\ parent[c].initialized
  /\ Reaps(c, "deadline")
  /\ UNCHANGED <<jobVars, stageVars, attempts>>

\* The process is alive and the deadline, less the reserve, has passed, or the
\* initialization timeout of a process that has not signalled.
TimesOut(c) ==
  /\ parent[c].pc = "checking"
  /\ child[c].pc # "dead"
  /\ Reaps(c, "deadline")
  /\ UNCHANGED <<jobVars, stageVars, attempts>>

\* The process is alive and has time left: the parent sleeps 50 ms.
SeesAlive(c) ==
  /\ parent[c].pc = "checking"
  /\ child[c].pc # "dead"
  /\ parent' = [parent EXCEPT ![c].pc = "polling"]
  /\ UNCHANGED <<jobVars, stageVars, attempts, child>>

Gone(c) == child[c].pc \in {"none", "dead"}

\* The renewal loop has found the claim lost, or has failed itself: it cancels
\* the execution where that awaits the next poll, or the join of a dead child.
Cancel(c) ==
  /\ \/ parent[c].pc = "polling"
     \/ parent[c].pc = "checking" /\ Gone(c)
  /\ Reaps(c, "cancel")
  /\ UNCHANGED <<jobVars, stageVars, attempts>>

Exits(c, code) ==
  child' = [child EXCEPT ![c] = [@ EXCEPT !.pc = "dead", !.code = code, !.term = FALSE]]

\* _terminate: SIGTERM first.
Terminate(c) ==
  /\ parent[c].pc = "reaping"
  /\ ~ Gone(c) /\ ~ child[c].term
  /\ child' = [child EXCEPT ![c].term = TRUE]
  /\ UNCHANGED <<jobVars, stageVars, attempts, parent>>

\* SIGKILL for a child that is still there two seconds later.
Kill(c) ==
  /\ parent[c].pc = "reaping"
  /\ ~ Gone(c) /\ child[c].term
  /\ Exits(c, 1)
  /\ UNCHANGED <<jobVars, stageVars, attempts, parent>>

\* Plausible bug: SIGTERM is taken for the end of the process.
ReapedWhenTold(c) == Gone(c) \/ child[c].term

\* The joins have returned.
Reaped(c) == Gone(c)

\* After a regular exit, run_supervised returns.
Return(c) ==
  /\ parent[c].pc = "reaping" /\ Reaped(c)
  /\ parent[c].why = "exit"
  /\ parent' = [parent EXCEPT ![c] = [NoParent EXCEPT !.pc = "loading"]]
  /\ UNCHANGED <<jobVars, stageVars, attempts, child>>

\* After a deadline, _research commits a budget denial as the checkpoint (or
\* finds one there) and raises it; the fence turns it into a plain error.
DenyInParent(c) ==
  /\ parent[c].pc = "reaping" /\ Reaped(c)
  /\ parent[c].why = "deadline"
  /\ IF Fence(c)
     THEN checkpoint' = Persisted("exhausted") /\ Ends(c, "exhausted")
     ELSE Ends(c, "failed") /\ UNCHANGED checkpoint
  /\ UNCHANGED <<jobVars, noted, attempts, child>>

\* After a failure, a contract failure that the child could not note is noted
\* under the fence, and the error is raised.
FailInParent(c) ==
  /\ parent[c].pc = "reaping" /\ Reaped(c)
  /\ parent[c].why = "failure"
  /\ noted' = (noted \/ (parent[c].failure = "contract" /\ Fence(c)))
  /\ Ends(c, "failed")
  /\ UNCHANGED <<jobVars, checkpoint, attempts, child>>

Cancelled(c) ==
  /\ parent[c].pc = "reaping" /\ Reaped(c)
  /\ parent[c].why = "cancel"
  /\ Ends(c, "cancelled")
  /\ UNCHANGED <<jobVars, stageVars, attempts, child>>

\* The execution is cancelled while run_supervised awaits a join in its finally
\* clause: the child is not waited for any longer, and perhaps not killed.
CancelReaping(c) ==
  /\ parent[c].pc = "reaping" /\ parent[c].why # "cancel"
  /\ child[c].pc # "none"
  /\ Ends(c, "cancelled")
  /\ UNCHANGED <<jobVars, stageVars, attempts, child>>

\* Plausible bug: a child that exits with 0 is taken to have a result.
LoadedFromExit(c) == "result"

\* The checkpoint that the child must have committed.
LoadedCheckpoint(c) ==
  IF ~ Fence(c) \/ checkpoint = "none" THEN "failed" ELSE checkpoint

Load(c) ==
  /\ parent[c].pc = "loading"
  /\ Ends(c, LoadedCheckpoint(c))
  /\ UNCHANGED <<jobVars, stageVars, attempts, child>>

\* The worker process is killed; its child goes on alone.
Crash(c) ==
  /\ parent[c].pc \in {"polling", "checking", "reaping", "loading"}
  /\ parent' = [parent EXCEPT ![c] = [NoParent EXCEPT !.pc = "crashed"]]
  /\ child' = [child EXCEPT ![c].pipe = <<>>]
  /\ UNCHANGED <<jobVars, stageVars, attempts>>

-----------------------------------------------------------------------------
(* The child *)

Breaks(c, error) ==
  child' = [child EXCEPT ![c] = [@ EXCEPT !.pc = "failing", !.error = error]]

\* Somebody still holds the other end of the pipe.
Heard(c) == parent[c].pc \in {"polling", "checking"}

\* Its resources are ready and the claim is current: it signals.
Initialize(c) ==
  /\ child[c].pc = "starting"
  /\ IF Fence(c) /\ Heard(c)
     THEN child' = [child EXCEPT ![c] =
                      [@ EXCEPT !.pc = "working", !.pipe = Append(child[c].pipe, "initialized")]]
     ELSE Breaks(c, "other")
  /\ UNCHANGED <<jobVars, stageVars, attempts, parent>>

\* Plausible bug: the limit is compared after the attempt.
AllowedOneMore == attempts <= Limit

\* The workflow-wide limit, read under the job's row lock.
Allowed == attempts < Limit

\* reserve_attempt before an external request.
Reserve(c) ==
  /\ child[c].pc = "working"
  /\ IF ~ Fence(c) THEN Breaks(c, "other") /\ UNCHANGED attempts
     ELSE IF ~ Allowed
     THEN child' = [child EXCEPT ![c].pc = "denied"] /\ UNCHANGED attempts
     ELSE attempts' = attempts + 1 /\ UNCHANGED child
  /\ UNCHANGED <<jobVars, stageVars, parent>>

\* The agent's answer is in, or a limit of the stage or of its time is reached.
Conclude(c) ==
  /\ child[c].pc = "working"
  /\ \E pc \in {"persisting", "denied"} : child' = [child EXCEPT ![c].pc = pc]
  /\ UNCHANGED <<jobVars, stageVars, attempts, parent>>

\* An exception: a request or tool contract error, or any other.  It may come
\* from the commit itself.
Raise(c) ==
  /\ \E error \in {"contract", "other"} :
       /\ \/ child[c].pc \in {"starting", "working"}
          \/ child[c].pc \in {"persisting", "denied"} /\ error = "other"
       /\ Breaks(c, error)
  /\ UNCHANGED <<jobVars, stageVars, attempts, parent>>

\* The evidence and the checkpoint, in one fenced transaction.
Persist(c) ==
  /\ child[c].pc \in {"persisting", "denied"}
  /\ IF Fence(c)
     THEN /\ checkpoint' =
               Persisted(IF child[c].pc = "persisting" THEN "result" ELSE "exhausted")
          /\ child' = [child EXCEPT ![c].pc = "closing"]
     ELSE Breaks(c, "other") /\ UNCHANGED checkpoint
  /\ UNCHANGED <<jobVars, noted, attempts, parent>>

\* Its clients are closed, or one of them fails to close.
Close(c) ==
  /\ child[c].pc = "closing"
  /\ \/ Exits(c, 0)
     \/ child' = [child EXCEPT ![c] = [@ EXCEPT !.pc = "reporting", !.error = "other"]]
  /\ UNCHANGED <<jobVars, stageVars, attempts, parent>>

\* A contract error is noted; without the claim, that is an error of its own.
Note(c) ==
  LET error == IF Fence(c) THEN child[c].error ELSE "other"
  IN
  /\ child[c].pc = "failing"
  /\ noted' = (noted \/ error = "contract")
  /\ child' = [child EXCEPT ![c] = [@ EXCEPT !.pc = "reporting", !.error = error]]
  /\ UNCHANGED <<jobVars, checkpoint, attempts, parent>>

\* The error is reported to whoever listens.
Report(c) ==
  /\ child[c].pc = "reporting"
  /\ child' = [child EXCEPT ![c] =
       [@ EXCEPT !.pc = "dead", !.code = 1, !.term = FALSE,
                 !.pipe = IF Heard(c) THEN Append(child[c].pipe, child[c].error)
                           ELSE child[c].pipe]]
  /\ UNCHANGED <<jobVars, stageVars, attempts, parent>>

\* SIGTERM is handled where the child awaits something.
Interrupted(c) ==
  /\ child[c].term
  /\ child[c].pc \in {"starting", "working", "closing", "reporting"}
  /\ Exits(c, 1)
  /\ UNCHANGED <<jobVars, stageVars, attempts, parent>>

-----------------------------------------------------------------------------

Supervise(c) ==
  \/ Begin(c) \/ Poll(c) \/ SeesExit(c) \/ SeesAlive(c) \/ TimesOut(c)
  \/ Terminate(c) \/ Kill(c) \/ Return(c) \/ DenyInParent(c) \/ FailInParent(c)
  \/ Cancelled(c) \/ Load(c)

ChildStep(c) ==
  \/ Initialize(c) \/ Reserve(c) \/ Conclude(c) \/ Raise(c) \/ Persist(c)
  \/ Close(c) \/ Note(c) \/ Report(c) \/ Interrupted(c)

Next ==
  \/ Grant \/ LoseClaim \/ OperatorRetry
  \/ \E c \in Claims :
       \/ Settle(c) \/ Supervise(c) \/ Cancel(c) \/ CancelReaping(c) \/ Crash(c)
       \/ ChildStep(c)

Spec == Init /\ [][Next]_vars

\* A parent that is not killed goes on, and one that keeps looking at the clock
\* sees the deadline pass.  Nothing is assumed of the child: it may hang.
LiveSpec ==
  Spec /\ \A c \in Claims : WF_vars(Supervise(c)) /\ SF_vars(TimesOut(c))

-----------------------------------------------------------------------------
(* Properties *)

\* Every variable has its type, and the workflow's allowance is kept whatever
\* number of children, of current and of lost claims, draw on it.
TypeOK ==
  /\ claim \in {0, granted}
  /\ granted \in 0..MaxClaims
  /\ finished \in BOOLEAN
  /\ checkpoint \in Checkpoints
  /\ noted \in BOOLEAN
  /\ attempts \in 0..Limit
  /\ parent \in [Claims -> ParentState]
  /\ child \in [Claims -> ChildState]

\* "Exit alone is not a result": what _research hands to its caller is the
\* committed checkpoint, and a denial is raised only with a checkpoint behind
\* it that the next execution will find.
ResultIsDurable ==
  \A c \in Claims :
    /\ parent[c].outcome = "result" => checkpoint = "result"
    /\ parent[c].outcome = "exhausted" => checkpoint # "none"

\* When run_supervised has returned or raised, its child is dead: none of its
\* requests or commits can follow what the parent does next.  Not so after a
\* cancellation, which may interrupt the reaping: there the fence must do.
NoWorkAfterReap ==
  \A c \in Claims :
    parent[c].pc \in {"loading", "ended"} /\ parent[c].outcome # "cancelled" => Gone(c)

\* A failure that the child could report reaches the job under its own code
\* ("reported as llm_request_unsupported", docs/technical-guide.md), although
\* the report races the exit; it is lost only if the child both initialized
\* and failed between one poll and the question whether it is alive.
FailureReported ==
  \A c \in Claims :
    (parent[c].why = "failure" /\ child[c].error # "none" /\ parent[c].initialized)
      => parent[c].failure = child[c].error

\* A stage's checkpoint is immutable: a late commit of a child, of a parent or
\* of an orphan of an earlier claim never replaces it.
CheckpointImmutable ==
  [][checkpoint # "none" => checkpoint' = checkpoint]_vars

\* A supervised stage ends, even if its child never does anything.
StageEnds ==
  \A c \in Claims :
    parent[c].pc \in {"polling", "checking", "reaping"}
      ~> parent[c].pc \in {"ended", "crashed"}

=============================================================================
