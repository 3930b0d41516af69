------------------------------ MODULE CrmSchema ------------------------------
(***************************************************************************)
(* The additive reconciliation of Twenty's metadata with MALG's contract,  *)
(* src/malg/crm/schema.py and its command line src/malg/crm/__main__.py:   *)
(* operators, or the schema Job and its repetitions, run check and apply   *)
(* next to each other and next to an administrator of the workspace, while *)
(* requests time out with or without an effect.  The worker's and the      *)
(* API's contract gate is a check.                                         *)
(***************************************************************************)
EXTENDS Integers, Sequences

CONSTANTS
  Manifest,    \* what the contract wants, in the order of _build_operations
  Objects,     \* custom objects; the others of Manifest are fields and relations
  Source,      \* object of a field or relation; standard ones are always there
  Target,      \* object of a relation's inverse; its Source for a field
  PageOf,      \* page of the inspection that shows an object
  Pages,       \* pages of an inspection
  Runners,     \* those who run check and apply
  MaxMishaps,  \* bound: runs that are cut off and requests that are not answered
  MaxEdits     \* bound: changes by the administrator

Elements == {Manifest[k] : k \in 1..Len(Manifest)}

ASSUME ManifestAssumption ==
  /\ Manifest \in Seq(Elements) /\ Objects \subseteq Elements
  /\ Elements \ Objects = DOMAIN Source /\ Elements \ Objects = DOMAIN Target
ASSUME PagesAssumption == Pages \in Nat \ {0} /\ \A o \in DOMAIN PageOf : PageOf[o] \in 1..Pages
ASSUME BoundsAssumption == MaxMishaps \in Nat /\ MaxEdits \in Nat

VARIABLES
  owner,    \* [Elements -> {"absent", "managed", "foreign"}]: Twenty's metadata
  id,       \* [Objects -> Nat]: the object's id; an object made again has a new one
  run,      \* [Runners -> Run]
  flight,   \* mutations sent and neither done nor dropped
  mishaps,  \* mishaps so far
  edits     \* changes by the administrator so far

twentyVars == <<owner, id>>
vars == <<owner, id, run, flight, mishaps, edits>>

-----------------------------------------------------------------------------
(* Types *)

Owners == {"absent", "managed", "foreign"}

\* A foreign element has another description, type, nullability or topology.
\* verify: the run reads back what it has applied; view, inverse, ids: what its
\* inspection has seen of fields, of inverses and of objects; todo: the places in
\* Manifest of the operations that are still to come; since (history): how often
\* the administrator had changed something when the inspection began that a success
\* rests on.
Places == 1..Len(Manifest)
Run ==
  [pc : {"idle", "inspect", "plan", "send", "wait"}, mode : {"check", "apply"}, verify : BOOLEAN,
   page : 1..Pages + 1, view : [Elements -> Owners], inverse : [Elements -> Owners],
   ids : [Objects -> Nat], todo : SUBSET Places, since : 0..MaxEdits,
   verdict : {"none", "compatible", "pending", "conflict", "unavailable"}]

\* to: the ids of the objects a mutation names.
Mutations == [by : Runners, alone : BOOLEAN, element : Elements, to : [Objects -> Nat]]

Nothing == [e \in Elements |-> "absent"]
NoIds == [o \in Objects |-> 0]
Idle(verdict, since) ==
  [pc |-> "idle", mode |-> "check", verify |-> FALSE, page |-> 1, view |-> Nothing,
   inverse |-> Nothing, ids |-> NoIds, todo |-> {}, since |-> since, verdict |-> verdict]

Init ==
  /\ owner = Nothing /\ id = NoIds
  /\ run = [r \in Runners |-> Idle("none", 0)]
  /\ flight = {} /\ mishaps = 0 /\ edits = 0

-----------------------------------------------------------------------------
(* Runs *)

\* The contract as it is.
Holds == \A e \in Elements : owner[e] = "managed"

\* The run goes on in the state s.
Becomes(r, s) == run' = [run EXCEPT ![r] = s]

\* The exit code of __main__: SchemaConflict, another error, or the result.
Exit(r, verdict) == Becomes(r, Idle(verdict, IF verdict = "compatible" THEN run[r].since ELSE 0))

Start(r, mode) ==
  /\ run[r].pc = "idle"
  /\ Becomes(r, [Idle("none", edits) EXCEPT !.pc = "inspect", !.mode = mode])
  /\ UNCHANGED <<twentyVars, flight, mishaps, edits>>

\* inspect_remote reads one page: the objects, each with its fields and with the
\* inverses of the relations that lead to it.
Inspect(r) ==
  LET shows(o) == PageOf[o] = run[r].page
      seen(e) == IF e \in Objects THEN shows(e) ELSE shows(Source[e]) IN
  /\ run[r].pc = "inspect"
  /\ Becomes(r, [run[r] EXCEPT
       !.view = [e \in Elements |-> IF seen(e) THEN owner[e] ELSE @[e]],
       !.inverse = [e \in Elements |-> IF e \notin Objects /\ shows(Target[e]) THEN owner[e] ELSE @[e]],
       !.ids = [o \in Objects |->
                  IF ~ shows(o) THEN @[o] ELSE IF owner[o] = "absent" THEN 0 ELSE id[o]],
       !.page = @ + 1,
       !.pc = IF run[r].page = Pages THEN "plan" ELSE @])
  /\ UNCHANGED <<twentyVars, flight, mishaps, edits>>

\* Plausible bug: of the fields, only the inverses are compared.
ConflictOfObjects(r) ==
  \/ \E o \in Objects : run[r].view[o] = "foreign"
  \/ \E e \in Elements \ Objects : run[r].view[e] = "managed" /\ run[r].inverse[e] # "managed"

\* A relation of MALG's without its inverse is a conflict too.
Conflict(r) ==
  \E e \in Elements :
    \/ run[r].view[e] = "foreign"
    \/ e \notin Objects /\ run[r].view[e] = "managed" /\ run[r].inverse[e] # "managed"

\* _build_operations: what is missing.
Planned(r) == {k \in Places : run[r].view[Manifest[k]] = "absent"}

\* Plausible bug: the relations, which need their objects, are made first.
DueInReverse(places) == {k \in places : \A j \in places : j <= k}

\* The operation whose turn it is: they are in the order of the manifest.
Due(places) == {k \in places : \A j \in places : k <= j}

\* No operation is pending.
IsComplete(r) == Planned(r) = {}

\* check_contract and reconcile: conflicts come before any mutation, and after
\* the mutations nothing may remain.
Plan(r) ==
  /\ run[r].pc = "plan"
  /\ CASE Conflict(r) -> Exit(r, "conflict")
       [] ~ Conflict(r) /\ run[r].mode = "check" ->
            Exit(r, IF IsComplete(r) THEN "compatible" ELSE "pending")
       [] ~ Conflict(r) /\ run[r].mode = "apply" /\ run[r].verify ->
            Exit(r, IF IsComplete(r) THEN "compatible" ELSE "conflict")
       [] OTHER -> Becomes(r, [run[r] EXCEPT !.pc = "send", !.todo = Planned(r), !.page = 1,
                                             !.view = Nothing, !.inverse = Nothing, !.since = 0])
  /\ UNCHANGED <<twentyVars, flight, mishaps, edits>>

\* The objects a mutation names by their ids.
Named(e) == IF e \in Objects THEN {} ELSE {Source[e], Target[e]} \cap Objects

\* One mutation; _object_id has no id for an object that was not made.
Send(r) ==
  /\ run[r].pc = "send"
  /\ \E k \in Due(run[r].todo) :
       IF \E o \in Named(Manifest[k]) : run[r].ids[o] = 0
       THEN Exit(r, "conflict") /\ UNCHANGED flight
       ELSE /\ flight' = flight \cup
                 {[by |-> r, alone |-> FALSE, element |-> Manifest[k], to |-> run[r].ids]}
            /\ Becomes(r, [run[r] EXCEPT !.pc = "wait", !.todo = @ \ {k}])
  /\ UNCHANGED <<twentyVars, mishaps, edits>>

\* All operations are done: inspect_remote once more.
ReadBack(r) ==
  /\ run[r].pc = "send" /\ run[r].todo = {}
  /\ Becomes(r, [run[r] EXCEPT !.pc = "inspect", !.verify = TRUE, !.ids = NoIds, !.since = edits])
  /\ UNCHANGED <<twentyVars, flight, mishaps, edits>>

\* Plausible bug: the objects are named, not identified.
MeetsByName(m) == \A o \in Named(m.element) : owner[o] # "absent"

\* The mutation's objects are those it was planned for.
Meets(m) == \A o \in Named(m.element) : owner[o] # "absent" /\ id[o] = m.to[o]

\* Twenty creates what is not there, or rejects the mutation; names are unique.
Land(m) ==
  LET e == m.element
      done == owner[e] = "absent" /\ Meets(m) IN
  /\ m \in flight /\ flight' = flight \ {m}
  /\ owner' = IF done THEN [owner EXCEPT ![e] = "managed"] ELSE owner
  /\ id' = IF done /\ e \in Objects THEN [id EXCEPT ![e] = @ + 1] ELSE id
  /\ CASE m.alone -> UNCHANGED run
       [] ~ m.alone /\ ~ done -> Exit(m.by, "unavailable")
       [] OTHER -> Becomes(m.by, [run[m.by] EXCEPT
                     !.pc = "send", !.ids = [o \in Objects |-> IF o = e THEN id'[o] ELSE @[o]]])
  /\ UNCHANGED <<mishaps, edits>>

Mishap == mishaps < MaxMishaps /\ mishaps' = mishaps + 1

Abandoned(r) == {[m EXCEPT !.alone = TRUE] : m \in {n \in flight : n.by = r /\ ~ n.alone}}

\* The run is killed, or a request is given up: mutations are never repeated and
\* reads only so often.  A mutation that was sent may still take effect.
CutOff(r) ==
  /\ Mishap /\ run[r].pc # "idle"
  /\ Exit(r, "unavailable")
  /\ \E lost \in BOOLEAN :
       flight' = {m \in flight : m.by # r \/ m.alone} \cup IF lost THEN {} ELSE Abandoned(r)
  /\ UNCHANGED <<twentyVars, edits>>

-----------------------------------------------------------------------------
(* The administrator *)

Within(o) == {o} \cup {e \in Elements \ Objects : Source[e] = o \/ Target[e] = o}

\* Something else of that name.
CreateForeign(e) ==
  /\ edits < MaxEdits /\ edits' = edits + 1
  /\ owner[e] = "absent" /\ \A o \in Named(e) : owner[o] # "absent"
  /\ owner' = [owner EXCEPT ![e] = "foreign"]
  /\ id' = IF e \in Objects THEN [id EXCEPT ![e] = @ + 1] ELSE id
  /\ UNCHANGED <<run, flight, mishaps>>

Delete(e) ==
  /\ edits < MaxEdits /\ edits' = edits + 1
  /\ owner[e] # "absent"
  /\ owner' = [x \in Elements |-> IF x \in (IF e \in Objects THEN Within(e) ELSE {e}) THEN "absent"
                                  ELSE owner[x]]
  /\ UNCHANGED <<id, run, flight, mishaps>>

-----------------------------------------------------------------------------

Step(r) == Inspect(r) \/ Plan(r) \/ Send(r) \/ ReadBack(r)

Next ==
  \/ \E r \in Runners : Step(r) \/ CutOff(r) \/ \E mode \in {"check", "apply"} : Start(r, mode)
  \/ \E m \in flight : Land(m)
  \/ \E e \in Elements : CreateForeign(e) \/ Delete(e)

Spec == Init /\ [][Next]_vars

\* A run goes on and its requests are answered; one runner, the schema Job,
\* repeats apply for ever.
FairSpec ==
  /\ Spec
  /\ \A r \in Runners : WF_vars(Step(r))
  /\ WF_vars(\E m \in flight : Land(m))
  /\ \E r \in Runners : SF_vars(Start(r, "apply"))

-----------------------------------------------------------------------------
(* Properties *)

\* Every variable has its type.
TypeOK ==
  /\ owner \in [Elements -> Owners] /\ id \in [Objects -> Nat]
  /\ run \in [Runners -> Run] /\ flight \subseteq Mutations
  /\ mishaps \in 0..MaxMishaps /\ edits \in 0..MaxEdits

\* A check or an apply that exits with success means the whole contract, not
\* what one run has made or what one page has shown, and nothing of another's in
\* its place: whatever other runs, late mutations and the administrator did
\* before, the success is wrong only if the administrator changes something
\* while the pages it rests on are read, or afterwards (docs/technical-guide.md:
\* apply unconditionally reads back the complete contract).
GateSound ==
  \A r \in Runners : run[r].verdict = "compatible" /\ run[r].since = edits => Holds

\* Nothing of MALG's is put into an object that is not MALG's, also when the
\* object was deleted and made again by someone else between the inspection and
\* the mutation.
ForeignUntouched ==
  \A e \in Elements : owner[e] = "managed" => \A o \in Named(e) : owner[o] = "managed"

\* However runs collide, are cut off or have their mutations applied late, a
\* repeated apply comes to the whole contract, unless the administrator steps in.
Converges == [](edits = 0) => <>[]Holds

=============================================================================
