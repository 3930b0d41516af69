--------------------------- MODULE CrmSchemaProofs ---------------------------
(***************************************************************************)
(* Proofs about CrmSchema, for any manifest, any pages, any number of runs *)
(* and all bounds.                                                         *)
(*                                                                         *)
(* Nothing foreign is adopted because an object's id is never used again:  *)
(* whoever has seen an object under its present id has seen its present    *)
(* owner, however many deletions and creations lie between (Sure), and a   *)
(* mutation names only ids of objects that were seen to be MALG's.  The    *)
(* gate is sound because what a run has seen stays there, MALG's or not,   *)
(* as long as the administrator changes nothing after its inspection has   *)
(* begun (Trusts), although its pages are of different moments and other   *)
(* runs go on: mutations only make what is absent.                         *)
(***************************************************************************)
EXTENDS CrmSchema, TLAPS

USE ManifestAssumption, PagesAssumption, BoundsAssumption

-----------------------------------------------------------------------------
(* The inductive invariant *)

\* Of an object that has the owner w and the id n, somebody remembers the id i:
\* while it is still the object's, the owner is v.
Sure(i, v, w, n) == i <= n /\ (i # 0 /\ i = n /\ w # "absent" => w = v)

\* What a run s knows of the objects: what its inspection has seen and, after it
\* has found no conflict, that they are MALG's.
Knows(s, w, n) ==
  \A o \in Objects :
    Sure(s.ids[o], IF s.pc \in {"send", "wait"} THEN "managed" ELSE s.view[o], w[o], n[o])

\* What a run has seen to be there, or come to, is so.
Trusts(s, w) ==
  /\ \A e \in Elements : s.view[e] # "absent" => w[e] = s.view[e]
  /\ s.verdict = "compatible" => \A e \in Elements : w[e] = "managed"

\* A run that goes on has no verdict; one that inspects has a page to read, and
\* begins with the first one and knowing nothing.
Paged(s) ==
  /\ s.pc # "idle" => s.verdict = "none"
  /\ s.pc = "inspect" => s.page <= Pages
  /\ s.pc \in {"send", "wait"} => s.page = 1 /\ s.view = Nothing

\* A run fits Twenty's metadata, which the administrator has changed x times.
Fit(s, w, n, x) ==
  Paged(s) /\ Knows(s, w, n) /\ s.since <= x /\ (s.since = x => Trusts(s, w))

\* A mutation names objects that were seen to be MALG's.
Meant(m, w, n) ==
  \A o \in Named(m.element) : m.to[o] # 0 /\ Sure(m.to[o], "managed", w[o], n[o])

\* A run waits for the mutation it has sent last.
Awaited ==
  /\ \A m \in flight : ~ m.alone => run[m.by].pc = "wait"
  /\ \A m, l \in flight : ~ m.alone /\ ~ l.alone /\ m.by = l.by => m = l

IInv ==
  /\ TypeOK
  /\ \A r \in Runners : Fit(run[r], owner, id, edits)
  /\ \A m \in flight : Meant(m, owner, id)
  /\ Awaited
  /\ ForeignUntouched

-----------------------------------------------------------------------------
(* Twenty's metadata *)

Verdicts == {"none", "compatible", "pending", "conflict", "unavailable"}

\* How one step changes an object: not at all, it is deleted, or it is made and
\* has a new id.
Moved(w, n, y, k) ==
  \A o \in Objects :
    \/ y[o] = w[o] /\ k[o] = n[o]
    \/ y[o] = "absent" /\ k[o] = n[o]
    \/ w[o] = "absent" /\ k[o] = n[o] + 1

\* What is sure stays so.
LEMMA SureStays ==
  ASSUME NEW i \in Nat, NEW v, NEW w, NEW n \in Nat, NEW y, NEW k \in Nat,
         Sure(i, v, w, n),
         (y = w /\ k = n) \/ (y = "absent" /\ k = n) \/ (w = "absent" /\ k = n + 1)
  PROVE  Sure(i, v, y, k)
  BY DEF Sure

\* A run fits what the metadata become.
LEMMA FitKept ==
  ASSUME NEW s \in Run, NEW w, NEW n \in [Objects -> Nat], NEW x \in Nat,
         NEW y, NEW k \in [Objects -> Nat], NEW z \in Nat,
         Fit(s, w, n, x), Moved(w, n, y, k), x <= z,
         z = x => \A e \in Elements : w[e] # "absent" => y[e] = w[e]
  PROVE  Fit(s, y, k, z)
  <1>1. ASSUME NEW o \in Objects
        PROVE  Sure(s.ids[o], IF s.pc \in {"send", "wait"} THEN "managed" ELSE s.view[o], y[o], k[o])
    <2>1. s.ids[o] \in Nat /\ n[o] \in Nat /\ k[o] \in Nat
      BY DEF Run
    <2> QED BY <2>1, SureStays DEF Fit, Knows, Moved
  <1>2. s.since \in Nat
    BY DEF Run
  <1>3. s.since <= z
    BY <1>2 DEF Fit
  <1>4. ASSUME s.since = z PROVE Trusts(s, y)
    <2>1. z = x /\ Trusts(s, w)
      BY <1>2, <1>4 DEF Fit
    <2> QED BY <2>1 DEF Trusts
  <1> QED BY <1>1, <1>3, <1>4 DEF Fit, Knows

\* So do the mutations that were sent.
LEMMA MeantKept ==
  ASSUME NEW m \in Mutations, NEW w, NEW n \in [Objects -> Nat],
         NEW y, NEW k \in [Objects -> Nat], Meant(m, w, n), Moved(w, n, y, k)
  PROVE  Meant(m, y, k)
  <1>1. ASSUME NEW o \in Named(m.element)
        PROVE  m.to[o] # 0 /\ Sure(m.to[o], "managed", y[o], k[o])
    <2>1. o \in Objects /\ m.to[o] \in Nat /\ n[o] \in Nat /\ k[o] \in Nat
      BY DEF Mutations, Named
    <2> QED BY <2>1, SureStays DEF Meant, Moved
  <1> QED BY <1>1 DEF Meant

\* Nothing has changed.
LEMMA Unmoved ==
  ASSUME UNCHANGED twentyVars
  PROVE  Moved(owner, id, owner', id')
  BY DEF Moved, twentyVars

\* A run that has ended fits whatever its verdict admits.
LEMMA IdleFits ==
  ASSUME NEW v \in Verdicts, NEW w, NEW n \in [Objects -> Nat], NEW x, NEW i \in 0..MaxEdits, i <= x,
         v = "compatible" /\ i = x => \A e \in Elements : w[e] = "managed"
  PROVE  /\ Idle(v, i) \in Run /\ Idle(v, i).pc = "idle" /\ Idle(v, i).ids = NoIds
         /\ Idle(v, i).view = Nothing /\ Idle(v, i).since = i /\ Fit(Idle(v, i), w, n, x)
  <1>1. Nothing \in [Elements -> Owners] /\ NoIds \in [Objects -> Nat] /\ 1 \in 1..Pages + 1
    BY DEF Nothing, NoIds, Owners
  <1>2. /\ Idle(v, i) \in Run /\ Idle(v, i).pc = "idle" /\ Idle(v, i).ids = NoIds
        /\ Idle(v, i).view = Nothing /\ Idle(v, i).since = i /\ Idle(v, i).verdict = v
    BY <1>1 DEF Idle, Run, Verdicts
  <1>3. Knows(Idle(v, i), w, n)
    BY <1>2 DEF Knows, Sure, NoIds
  <1>4. i = x => Trusts(Idle(v, i), w)
    BY <1>2 DEF Trusts, Nothing
  <1> QED BY <1>2, <1>3, <1>4 DEF Fit, Paged

\* The initial states.
LEMMA InvInit == Init => IInv
  <1> SUFFICES ASSUME Init PROVE IInv
    OBVIOUS
  <1>1. owner \in [Elements -> Owners] /\ id \in [Objects -> Nat]
    BY DEF Init, Nothing, NoIds, Owners
  <1>2. ASSUME NEW r \in Runners PROVE run[r] \in Run /\ Fit(run[r], owner, id, edits)
    <2>1. "none" \in Verdicts
      BY DEF Verdicts
    <2>2. run[r] = Idle("none", 0) /\ edits = 0 /\ 0 \in 0..MaxEdits
      BY DEF Init
    <2> QED BY <1>1, <2>1, <2>2, IdleFits
  <1>3. run \in [Runners -> Run]
    BY <1>2 DEF Init
  <1>4. TypeOK
    BY <1>1, <1>3 DEF TypeOK, Init
  <1> QED BY <1>2, <1>4 DEF IInv, Init, Awaited, ForeignUntouched, Nothing

-----------------------------------------------------------------------------
(* Runs *)

\* A run that does not wait goes on, and has not asked for anything.
LEMMA RunGoesOn ==
  ASSUME IInv, NEW r \in Runners, NEW s \in Run, run[r].pc # "wait",
         Fit(s, owner, id, edits), Becomes(r, s),
         UNCHANGED <<twentyVars, flight, mishaps, edits>>
  PROVE  IInv'
  <1>1. owner' = owner /\ id' = id /\ flight' = flight /\ mishaps' = mishaps /\ edits' = edits
    BY DEF twentyVars
  <1>2. /\ run' \in [Runners -> Run] /\ run'[r] = s
        /\ \A p \in Runners : p # r => run'[p] = run[p]
    BY DEF IInv, TypeOK, Becomes
  <1>3. TypeOK'
    BY <1>1, <1>2 DEF IInv, TypeOK
  <1>4. \A p \in Runners : Fit(run'[p], owner', id', edits')
    BY <1>1, <1>2 DEF IInv
  <1>5. Awaited'
    BY <1>1, <1>2 DEF IInv, Awaited, TypeOK, Mutations
  <1>6. (\A m \in flight : Meant(m, owner, id))'
    BY <1>1 DEF IInv
  <1>7. ForeignUntouched'
    BY <1>1 DEF IInv, ForeignUntouched
  <1> QED BY <1>3, <1>4, <1>5, <1>6, <1>7 DEF IInv

\* A run begins.
LEMMA StartStep ==
  ASSUME IInv, NEW r \in Runners, NEW mode \in {"check", "apply"}, Start(r, mode)
  PROVE  IInv'
  <1> DEFINE idle == Idle("none", edits)
             s == [idle EXCEPT !.pc = "inspect", !.mode = mode]
  <1>1. edits \in 0..MaxEdits /\ id \in [Objects -> Nat]
    BY DEF IInv, TypeOK
  <1>2. /\ idle \in Run /\ idle.ids = NoIds /\ idle.view = Nothing /\ idle.since = edits
        /\ idle.pc = "idle"
    <2>1. Nothing \in [Elements -> Owners] /\ NoIds \in [Objects -> Nat] /\ 1 \in 1..Pages + 1
      BY DEF Nothing, NoIds, Owners
    <2> QED BY <1>1, <2>1 DEF Idle, Run
  <1>3. idle.page = 1 /\ idle.verdict = "none"
    BY DEF Idle
  <1> HIDE DEF idle
  <1>4. /\ s \in Run /\ s.pc = "inspect" /\ s.page = 1 /\ s.ids = NoIds
        /\ s.view = Nothing /\ s.verdict = "none" /\ s.since = edits
    BY <1>2, <1>3 DEF Run
  <1> HIDE DEF s
  <1>5. Knows(s, owner, id) /\ Trusts(s, owner) /\ Paged(s)
    BY <1>1, <1>4 DEF Knows, Sure, NoIds, Trusts, Nothing, Paged
  <1>6. Fit(s, owner, id, edits)
    BY <1>1, <1>4, <1>5 DEF Fit
  <1> QED BY <1>4, <1>6, RunGoesOn DEF Start, s, idle

\* A page that is read shows the objects as they are.
LEMMA InspectStep ==
  ASSUME IInv, NEW r \in Runners, Inspect(r)
  PROVE  IInv'
  <1> DEFINE shows(o) == PageOf[o] = run[r].page
             seen(e) == IF e \in Objects THEN shows(e) ELSE shows(Source[e])
             view == [e \in Elements |-> IF seen(e) THEN owner[e] ELSE run[r].view[e]]
             inverse == [e \in Elements |-> IF e \notin Objects /\ shows(Target[e]) THEN owner[e]
                                            ELSE run[r].inverse[e]]
             ids == [o \in Objects |-> IF ~ shows(o) THEN run[r].ids[o]
                                       ELSE IF owner[o] = "absent" THEN 0 ELSE id[o]]
             pc == IF run[r].page = Pages THEN "plan" ELSE run[r].pc
             s == [run[r] EXCEPT !.view = view, !.inverse = inverse, !.ids = ids,
                                 !.page = run[r].page + 1, !.pc = pc]
  <1>1. /\ run[r] \in Run /\ run[r].pc = "inspect" /\ run[r].page <= Pages
        /\ owner \in [Elements -> Owners] /\ id \in [Objects -> Nat]
        /\ Fit(run[r], owner, id, edits)
    BY DEF Inspect, IInv, TypeOK, Fit, Paged
  <1>2. Becomes(r, s) /\ UNCHANGED <<twentyVars, flight, mishaps, edits>>
    BY DEF Inspect
  <1>3. /\ view \in [Elements -> Owners] /\ inverse \in [Elements -> Owners] /\ ids \in [Objects -> Nat]
        /\ pc \in {"inspect", "plan"} /\ run[r].page + 1 \in 1..Pages + 1
        /\ pc = "inspect" => run[r].page + 1 <= Pages
    BY <1>1 DEF Run
  <1>4. Objects \subseteq Elements
    OBVIOUS
  <1>5. ASSUME NEW o \in Objects PROVE Sure(ids[o], view[o], owner[o], id[o])
    <2>1. CASE shows(o)
      BY <1>1, <1>4, <2>1 DEF Sure
    <2>2. CASE ~ shows(o)
      BY <1>1, <1>4, <2>2 DEF Fit, Knows
    <2> QED BY <2>1, <2>2
  <1>6. run[r].since = edits => \A e \in Elements : view[e] # "absent" => owner[e] = view[e]
    BY <1>1 DEF Fit, Trusts
  <1> HIDE DEF view, inverse, ids, pc
  <1>7. /\ s \in Run /\ s.view = view /\ s.ids = ids /\ s.pc = pc /\ s.page = run[r].page + 1
        /\ s.verdict = run[r].verdict /\ s.since = run[r].since
    BY <1>1, <1>3 DEF Run
  <1> HIDE DEF s
  <1>8. Fit(s, owner, id, edits)
    BY <1>1, <1>3, <1>5, <1>6, <1>7 DEF Fit, Paged, Knows, Trusts
  <1> QED BY <1>1, <1>2, <1>7, <1>8, RunGoesOn

\* The decision of a run: all that it has seen is there, or it begins to send.
LEMMA PlanStep ==
  ASSUME IInv, NEW r \in Runners, Plan(r)
  PROVE  IInv'
  <1>1. /\ run[r] \in Run /\ run[r].pc = "plan" /\ Fit(run[r], owner, id, edits)
        /\ owner \in [Elements -> Owners] /\ id \in [Objects -> Nat]
        /\ UNCHANGED <<twentyVars, flight, mishaps, edits>>
    BY DEF Plan, IInv, TypeOK
  <1>2. ASSUME NEW v \in Verdicts, Exit(r, v), v = "compatible" => ~ Conflict(r) /\ IsComplete(r)
        PROVE  IInv'
    <2> DEFINE i == IF v = "compatible" THEN run[r].since ELSE 0
    <2>1. i \in 0..MaxEdits /\ i <= edits /\ 0 <= edits
      BY <1>1 DEF Fit, Run, IInv, TypeOK
    <2>2. v = "compatible" /\ i = edits => \A e \in Elements : owner[e] = "managed"
      <3> SUFFICES ASSUME v = "compatible", run[r].since = edits, NEW e \in Elements
                   PROVE  owner[e] = "managed"
        OBVIOUS
      <3>1. PICK k \in Places : e = Manifest[k]
        BY DEF Elements, Places
      <3>2. run[r].view[e] # "absent"
        BY <1>2, <3>1 DEF IsComplete, Planned
      <3>3. run[r].view[e] \in Owners /\ run[r].view[e] # "foreign"
        BY <1>1, <1>2 DEF Conflict, Run
      <3> QED BY <1>1, <3>2, <3>3 DEF Owners, Fit, Trusts
    <2>3. Becomes(r, Idle(v, i))
      BY <1>2 DEF Exit
    <2> HIDE DEF i
    <2>4. Idle(v, i) \in Run /\ Fit(Idle(v, i), owner, id, edits)
      BY <1>1, <2>1, <2>2, IdleFits
    <2> QED BY <1>1, <2>3, <2>4, RunGoesOn
  <1>3. CASE /\ ~ Conflict(r)
             /\ Becomes(r, [run[r] EXCEPT !.pc = "send", !.todo = Planned(r), !.page = 1,
                                          !.view = Nothing, !.inverse = Nothing, !.since = 0])
    <2> DEFINE s == [run[r] EXCEPT !.pc = "send", !.todo = Planned(r), !.page = 1,
                                   !.view = Nothing, !.inverse = Nothing, !.since = 0]
    <2>1. /\ Planned(r) \in SUBSET Places /\ Nothing \in [Elements -> Owners] /\ 1 \in 1..Pages + 1
          /\ 0 \in 0..MaxEdits /\ 0 <= edits
      BY DEF Planned, Nothing, Owners, IInv, TypeOK
    <2>2. /\ s \in Run /\ s.pc = "send" /\ s.page = 1 /\ s.view = Nothing /\ s.ids = run[r].ids
          /\ s.verdict = run[r].verdict /\ s.since = 0
      BY <1>1, <2>1 DEF Run
    <2> HIDE DEF s
    <2>3. ASSUME NEW o \in Objects PROVE Sure(s.ids[o], "managed", owner[o], id[o])
      <3>1. run[r].view[o] # "foreign" /\ owner[o] \in Owners
        BY <1>1, <1>3 DEF Conflict
      <3> QED BY <1>1, <2>2, <3>1 DEF Fit, Knows, Sure, Owners
    <2>4. Paged(s) /\ Trusts(s, owner)
      BY <1>1, <2>2 DEF Fit, Paged, Trusts, Nothing
    <2>5. Knows(s, owner, id)
      BY <2>2, <2>3 DEF Knows
    <2>6. Fit(s, owner, id, edits)
      BY <2>1, <2>2, <2>4, <2>5 DEF Fit
    <2> QED BY <1>1, <1>3, <2>2, <2>6, RunGoesOn DEF s
  <1> QED BY <1>2, <1>3 DEF Plan, Verdicts

\* A run reads back what it has applied.
LEMMA ReadBackStep ==
  ASSUME IInv, NEW r \in Runners, ReadBack(r)
  PROVE  IInv'
  <1> DEFINE s == [run[r] EXCEPT !.pc = "inspect", !.verify = TRUE, !.ids = NoIds, !.since = edits]
  <1>1. /\ run[r] \in Run /\ run[r].pc = "send" /\ Fit(run[r], owner, id, edits)
        /\ id \in [Objects -> Nat] /\ NoIds \in [Objects -> Nat] /\ edits \in 0..MaxEdits
        /\ Becomes(r, s) /\ UNCHANGED <<twentyVars, flight, mishaps, edits>>
    BY DEF ReadBack, IInv, TypeOK, NoIds
  <1>2. /\ s \in Run /\ s.pc = "inspect" /\ s.page = run[r].page /\ s.view = run[r].view
        /\ s.ids = NoIds /\ s.verdict = run[r].verdict /\ s.since = edits
    BY <1>1 DEF Run
  <1> HIDE DEF s
  <1>3. Knows(s, owner, id)
    BY <1>1, <1>2 DEF Knows, Sure, NoIds
  <1>4. Fit(s, owner, id, edits)
    BY <1>1, <1>2, <1>3 DEF Fit, Paged, Trusts, Nothing
  <1> QED BY <1>1, <1>2, <1>4, RunGoesOn

-----------------------------------------------------------------------------
(* Mutations *)

\* A mutation is sent with ids of objects that are MALG's, or the run ends.
LEMMA SendStep ==
  ASSUME IInv, NEW r \in Runners, Send(r)
  PROVE  IInv'
  <1>1. /\ run[r] \in Run /\ run[r].pc = "send" /\ Fit(run[r], owner, id, edits)
        /\ owner \in [Elements -> Owners] /\ id \in [Objects -> Nat]
        /\ UNCHANGED <<twentyVars, mishaps, edits>>
    BY DEF Send, IInv, TypeOK
  <1>2. CASE Exit(r, "conflict") /\ UNCHANGED flight
    <2>1. "conflict" \in Verdicts /\ 0 \in 0..MaxEdits /\ 0 <= edits
      BY DEF Verdicts, IInv, TypeOK
    <2> QED BY <1>1, <1>2, <2>1, IdleFits, RunGoesOn DEF Exit
  <1>3. ASSUME NEW k \in Due(run[r].todo), \A o \in Named(Manifest[k]) : run[r].ids[o] # 0,
               flight' = flight \cup
                 {[by |-> r, alone |-> FALSE, element |-> Manifest[k], to |-> run[r].ids]},
               Becomes(r, [run[r] EXCEPT !.pc = "wait", !.todo = @ \ {k}])
        PROVE  IInv'
    <2> DEFINE s == [run[r] EXCEPT !.pc = "wait", !.todo = @ \ {k}]
               m == [by |-> r, alone |-> FALSE, element |-> Manifest[k], to |-> run[r].ids]
    <2>1. Manifest[k] \in Elements
      BY <1>1 DEF Due, Run, Elements, Places
    <2>2. m \in Mutations /\ m.by = r /\ m.element = Manifest[k] /\ m.to = run[r].ids /\ ~ m.alone
      BY <1>1, <2>1 DEF Mutations, Run
    <2>3. /\ s \in Run /\ s.pc = "wait" /\ s.page = run[r].page /\ s.view = run[r].view
          /\ s.ids = run[r].ids /\ s.verdict = run[r].verdict /\ s.since = run[r].since
      BY <1>1 DEF Run
    <2> HIDE DEF s, m
    <2>4. Fit(s, owner, id, edits)
      BY <1>1, <2>3 DEF Fit, Paged, Knows, Trusts
    <2>5. Meant(m, owner, id)
      BY <1>1, <1>3, <2>2 DEF Meant, Fit, Knows, Named
    <2>6. /\ run' \in [Runners -> Run] /\ run'[r] = s
          /\ \A p \in Runners : p # r => run'[p] = run[p]
      BY <1>3, <2>3 DEF IInv, TypeOK, Becomes, s
    <2>7. flight' = flight \cup {m}
      BY <1>3 DEF m
    <2>8. owner' = owner /\ id' = id /\ mishaps' = mishaps /\ edits' = edits
      BY <1>1 DEF twentyVars
    <2>9. TypeOK'
      BY <2>2, <2>6, <2>7, <2>8 DEF IInv, TypeOK
    <2>10. \A p \in Runners : Fit(run'[p], owner', id', edits')
      BY <2>4, <2>6, <2>8 DEF IInv
    <2>11. (\A l \in flight : Meant(l, owner, id))'
      BY <2>5, <2>7, <2>8 DEF IInv
    <2>12. \A l \in flight : ~ l.alone => l.by # r /\ l.by \in Runners
      BY <1>1 DEF IInv, Awaited, TypeOK, Mutations
    <2>13. Awaited'
      BY <2>2, <2>3, <2>6, <2>7, <2>12 DEF IInv, Awaited
    <2>14. ForeignUntouched'
      BY <2>8 DEF IInv, ForeignUntouched
    <2> QED BY <2>9, <2>10, <2>11, <2>13, <2>14 DEF IInv
  <1> QED BY <1>2, <1>3 DEF Send

\* How Twenty handles a mutation: what it makes belongs to objects of MALG's.
LEMMA LandChanges ==
  ASSUME IInv, NEW m \in flight, Land(m)
  PROVE  /\ owner' \in [Elements -> Owners] /\ id' \in [Objects -> Nat]
         /\ Moved(owner, id, owner', id')
         /\ \A e \in Elements : owner'[e] = owner[e] \/ owner'[e] = "managed"
         /\ ForeignUntouched'
  <1>1. /\ owner \in [Elements -> Owners] /\ id \in [Objects -> Nat] /\ m \in Mutations
        /\ m.element \in Elements /\ Meant(m, owner, id) /\ ForeignUntouched
    BY DEF IInv, TypeOK, Mutations
  <1> DEFINE e == m.element
             done == owner[e] = "absent" /\ Meets(m)
  <1>2. CASE ~ done
    <2>1. owner' = owner /\ id' = id
      BY <1>2 DEF Land
    <2> QED BY <1>1, <2>1 DEF Moved, ForeignUntouched
  <1>3. CASE done
    <2>1. /\ owner' = [owner EXCEPT ![e] = "managed"]
          /\ id' = IF e \in Objects THEN [id EXCEPT ![e] = @ + 1] ELSE id
      BY <1>3 DEF Land
    <2>2. owner' \in [Elements -> Owners] /\ id' \in [Objects -> Nat]
      BY <1>1, <2>1 DEF Owners
    <2>3. owner'[e] = "managed" /\ \A x \in Elements : x # e => owner'[x] = owner[x]
      BY <1>1, <2>1
    <2>4. Moved(owner, id, owner', id')
      BY <1>1, <1>3, <2>1, <2>3 DEF Moved
    <2>5. ASSUME NEW o \in Named(e) PROVE owner[o] = "managed"
      BY <1>1, <1>3, <2>5 DEF Meets, Meant, Sure
    <2>6. ForeignUntouched'
      <3> SUFFICES ASSUME NEW x \in Elements, owner'[x] = "managed", NEW o \in Named(x)
                   PROVE  owner'[o] = "managed"
        BY DEF ForeignUntouched
      <3>1. o \in Elements
        BY DEF Named
      <3> QED BY <1>1, <2>3, <2>5, <3>1 DEF ForeignUntouched
    <2> QED BY <2>2, <2>3, <2>4, <2>6
  <1> QED BY <1>2, <1>3

\* The answer to a mutation.
LEMMA LandStep ==
  ASSUME IInv, NEW m \in flight, Land(m)
  PROVE  IInv'
  <1> DEFINE e == m.element
             done == owner[e] = "absent" /\ Meets(m)
             ids == [o \in Objects |-> IF o = e THEN id'[o] ELSE run[m.by].ids[o]]
             s == [run[m.by] EXCEPT !.pc = "send", !.ids = ids]
  <1>1. /\ owner' \in [Elements -> Owners] /\ id' \in [Objects -> Nat]
        /\ Moved(owner, id, owner', id')
        /\ \A x \in Elements : owner'[x] = owner[x] \/ owner'[x] = "managed"
        /\ ForeignUntouched'
    BY LandChanges
  <1>2. /\ flight' = flight \ {m} /\ mishaps' = mishaps /\ edits' = edits
        /\ m.by \in Runners /\ m \in Mutations
        /\ id \in [Objects -> Nat] /\ run \in [Runners -> Run]
    BY DEF Land, IInv, TypeOK, Mutations
  <1>3. \A p \in Runners : Fit(run[p], owner', id', edits')
    <2>1. /\ edits \in Nat /\ edits' \in Nat /\ edits <= edits'
          /\ \A x \in Elements : owner[x] # "absent" => owner'[x] = owner[x]
      BY <1>2 DEF IInv, TypeOK, Land
    <2> QED BY <1>1, <1>2, <2>1, FitKept DEF IInv
  <1>4. /\ run' \in [Runners -> Run]
        /\ \A p \in Runners : Fit(run'[p], owner', id', edits')
        /\ \A p \in Runners : run'[p] = run[p] \/ (p = m.by /\ ~ m.alone)
    <2>1. CASE m.alone
      <3>1. run' = run
        BY <2>1 DEF Land
      <3> QED BY <1>2, <1>3, <3>1
    <2>2. CASE ~ m.alone /\ ~ done
      <3>1. Becomes(m.by, Idle("unavailable", 0))
        BY <2>2 DEF Land, Exit
      <3>2. 0 \in 0..MaxEdits /\ 0 <= edits' /\ "unavailable" \in Verdicts
        BY <1>2 DEF IInv, TypeOK, Verdicts
      <3>3. Idle("unavailable", 0) \in Run /\ Fit(Idle("unavailable", 0), owner', id', edits')
        BY <1>1, <3>2, IdleFits
      <3> QED BY <1>2, <1>3, <2>2, <3>1, <3>3 DEF Becomes
    <2>3. CASE ~ m.alone /\ done
      <3>1. Becomes(m.by, s)
        BY <2>3 DEF Land
      <3>2. run[m.by] \in Run /\ run[m.by].pc = "wait" /\ ids \in [Objects -> Nat]
        BY <1>1, <1>2, <2>3 DEF IInv, Awaited, Run
      <3>3. e \in Objects => owner'[e] = "managed"
        BY <1>2, <2>3 DEF Land, IInv, TypeOK
      <3>4. ASSUME NEW o \in Objects PROVE Sure(ids[o], "managed", owner'[o], id'[o])
        BY <1>1, <1>2, <1>3, <3>2, <3>3 DEF Fit, Knows, Sure
      <3> HIDE DEF ids
      <3>5. /\ s \in Run /\ s.pc = "send" /\ s.ids = ids /\ s.page = run[m.by].page
            /\ s.view = run[m.by].view /\ s.verdict = run[m.by].verdict
            /\ s.since = run[m.by].since
        BY <3>2 DEF Run
      <3> HIDE DEF s
      <3>6. Fit(s, owner', id', edits')
        BY <1>2, <1>3, <3>2, <3>4, <3>5 DEF Fit, Paged, Knows, Trusts
      <3> QED BY <1>2, <1>3, <2>3, <3>1, <3>5, <3>6 DEF Becomes
    <2> QED BY <2>1, <2>2, <2>3
  <1>5. (\A l \in flight : Meant(l, owner, id))'
    BY <1>1, <1>2, MeantKept DEF IInv, TypeOK
  <1>6. Awaited'
    BY <1>2, <1>4 DEF IInv, Awaited, TypeOK, Mutations
  <1>7. TypeOK'
    BY <1>1, <1>2, <1>4 DEF IInv, TypeOK
  <1> QED BY <1>1, <1>4, <1>5, <1>6, <1>7 DEF IInv

\* A run is cut off; what it has sent stands alone, or is lost.
LEMMA CutOffStep ==
  ASSUME IInv, NEW r \in Runners, CutOff(r)
  PROVE  IInv'
  <1>1. /\ owner' = owner /\ id' = id /\ edits' = edits /\ mishaps' \in 0..MaxMishaps
        /\ Becomes(r, Idle("unavailable", 0)) /\ id \in [Objects -> Nat]
        /\ 0 \in 0..MaxEdits /\ 0 <= edits /\ "unavailable" \in Verdicts
    BY DEF CutOff, Mishap, Exit, twentyVars, IInv, TypeOK, Verdicts
  <1>2. Idle("unavailable", 0) \in Run /\ Fit(Idle("unavailable", 0), owner, id, edits)
    BY <1>1, IdleFits
  <1>3. /\ run' \in [Runners -> Run] /\ \A p \in Runners : p # r => run'[p] = run[p]
        /\ \A p \in Runners : Fit(run'[p], owner', id', edits')
    BY <1>1, <1>2 DEF IInv, TypeOK, Becomes
  <1>4. ASSUME NEW l \in flight'
        PROVE  /\ l \in Mutations /\ Meant(l, owner, id)
               /\ ~ l.alone => l \in flight /\ l.by # r
    <2>1. CASE l \in flight /\ (l.by # r \/ l.alone)
      BY <2>1 DEF IInv, TypeOK
    <2>2. CASE l \in Abandoned(r)
      <3>1. PICK n \in flight : l = [n EXCEPT !.alone = TRUE]
        BY <2>2 DEF Abandoned
      <3>2. n \in Mutations /\ Meant(n, owner, id)
        BY DEF IInv, TypeOK
      <3>3. l \in Mutations /\ l.alone /\ l.element = n.element /\ l.to = n.to
        BY <3>1, <3>2 DEF Mutations
      <3> QED BY <3>2, <3>3 DEF Meant
    <2> QED BY <2>1, <2>2 DEF CutOff
  <1>5. TypeOK'
    BY <1>1, <1>3, <1>4 DEF IInv, TypeOK
  <1>6. Awaited'
    BY <1>3, <1>4 DEF IInv, Awaited, Mutations
  <1>7. (\A l \in flight : Meant(l, owner, id))' /\ ForeignUntouched'
    BY <1>1, <1>4 DEF IInv, ForeignUntouched
  <1> QED BY <1>3, <1>5, <1>6, <1>7 DEF IInv

\* A change by the administrator.
LEMMA EditStep ==
  ASSUME IInv, NEW e \in Elements, CreateForeign(e) \/ Delete(e)
  PROVE  IInv'
  <1>1. /\ owner \in [Elements -> Owners] /\ id \in [Objects -> Nat] /\ ForeignUntouched
        /\ run' = run /\ flight' = flight /\ mishaps' = mishaps
        /\ edits' \in 0..MaxEdits /\ edits \in Nat /\ edits' \in Nat /\ edits < edits'
    BY DEF IInv, TypeOK, CreateForeign, Delete
  <1>2. /\ owner' \in [Elements -> Owners] /\ id' \in [Objects -> Nat]
        /\ Moved(owner, id, owner', id')
    <2>1. CASE CreateForeign(e)
      BY <1>1, <2>1 DEF CreateForeign, Moved, Owners
    <2>2. CASE Delete(e)
      BY <1>1, <2>2 DEF Delete, Moved, Owners
    <2> QED BY <2>1, <2>2
  <1>3. ForeignUntouched'
    <2> SUFFICES ASSUME NEW x \in Elements, owner'[x] = "managed", NEW o \in Named(x)
                 PROVE  owner'[o] = "managed"
      BY DEF ForeignUntouched
    <2>1. o \in Elements /\ o \in Objects /\ x \notin Objects /\ (Source[x] = o \/ Target[x] = o)
      BY DEF Named
    <2>2. CASE CreateForeign(e)
      <3>1. owner[x] = "managed" /\ x # e
        BY <1>1, <2>2 DEF CreateForeign
      <3> QED BY <1>1, <2>1, <2>2, <3>1 DEF CreateForeign, ForeignUntouched
    <2>3. CASE Delete(e)
      <3>1. owner[x] = "managed" /\ x \notin (IF e \in Objects THEN Within(e) ELSE {e})
        BY <2>3 DEF Delete
      <3>2. owner[o] = "managed"
        BY <1>1, <3>1 DEF ForeignUntouched
      <3>3. o \notin (IF e \in Objects THEN Within(e) ELSE {e})
        BY <2>1, <3>1 DEF Within
      <3> QED BY <2>1, <2>3, <3>2, <3>3 DEF Delete
    <2> QED BY <2>2, <2>3
  <1>4. TypeOK'
    BY <1>1, <1>2 DEF IInv, TypeOK
  <1>5. ASSUME NEW r \in Runners PROVE Fit(run'[r], owner', id', edits')
    <2>1. run[r] \in Run /\ Fit(run[r], owner, id, edits) /\ edits <= edits' /\ edits' # edits
      BY <1>1 DEF IInv, TypeOK
    <2>2. Fit(run[r], owner', id', edits')
      BY <1>1, <1>2, <2>1, FitKept
    <2> QED BY <1>1, <2>2
  <1>6. (\A m \in flight : Meant(m, owner, id))'
    BY <1>1, <1>2, MeantKept DEF IInv, TypeOK
  <1>7. Awaited'
    BY <1>1 DEF IInv, Awaited
  <1> QED BY <1>1, <1>3, <1>4, <1>5, <1>6, <1>7 DEF IInv

\* Every step keeps the invariant.
LEMMA InvStep == IInv /\ [Next]_vars => IInv'
  <1> SUFFICES ASSUME IInv, [Next]_vars PROVE IInv'
    OBVIOUS
  <1>1. ASSUME NEW r \in Runners, Step(r) PROVE IInv'
    BY <1>1, InspectStep, PlanStep, SendStep, ReadBackStep DEF Step
  <1>2. ASSUME NEW r \in Runners, CutOff(r) PROVE IInv'
    BY <1>2, CutOffStep
  <1>3. ASSUME NEW r \in Runners, NEW mode \in {"check", "apply"}, Start(r, mode) PROVE IInv'
    BY <1>3, StartStep
  <1>4. ASSUME NEW m \in flight, Land(m) PROVE IInv'
    BY <1>4, LandStep
  <1>5. ASSUME NEW e \in Elements, CreateForeign(e) \/ Delete(e) PROVE IInv'
    BY <1>5, EditStep
  <1>6. CASE UNCHANGED vars
    BY <1>6 DEF vars, IInv, TypeOK, Awaited, ForeignUntouched
  <1> QED BY <1>1, <1>2, <1>3, <1>4, <1>5, <1>6 DEF Next

-----------------------------------------------------------------------------
(* Theorems *)

\* The invariant holds for any manifest, runs and bounds.
THEOREM Invariance == Spec => []IInv
  BY InvInit, InvStep, PTL DEF Spec

\* The state always has the types declared for it.
THEOREM TypeCorrect == Spec => []TypeOK
  <1>1. IInv => TypeOK
    BY DEF IInv
  <1> QED BY <1>1, Invariance, PTL

\* A check or an apply that succeeds means the whole contract, whatever the
\* administrator did, unless he changed something after its inspection began.
THEOREM GatesAreSound == Spec => []GateSound
  <1>1. IInv => GateSound
    BY DEF IInv, GateSound, Fit, Trusts, Holds
  <1> QED BY <1>1, Invariance, PTL

\* Nothing of MALG's is in an object that is not MALG's, whatever was deleted and
\* made again between an inspection and its mutations.
THEOREM NothingForeignIsAdopted == Spec => []ForeignUntouched
  <1>1. IInv => ForeignUntouched
    BY DEF IInv
  <1> QED BY <1>1, Invariance, PTL

=============================================================================
