-------------------------- MODULE ResearchLoopProofs --------------------------
(***************************************************************************)
(* Proofs about ResearchLoop, for any pages, queries and limits, whatever  *)
(* the language model calls.                                               *)
(*                                                                         *)
(* The stage is a sequence but for the thread of a fetch, which outlives   *)
(* it only when it is cancelled.  So each thing that must be true at the   *)
(* end is followed from the step at which it is decided: a denial ends the *)
(* stage at once (Bounded), an outage leaves no step that searches         *)
(* (Contained), a result is kept only with the citations it must have, all *)
(* of them good (Honest), and what is owed is what a tool is still at      *)
(* (Tooled).                                                               *)
(***************************************************************************)
EXTENDS ResearchLoop, SequenceTheorems, TLAPS

-----------------------------------------------------------------------------
(* The inductive invariant *)

Places == {"turn", "ask", "asking", "act", "search", "searching", "fetch", "fetching",
           "validate", "repair", "repairing", "commit", "over"}

Typed ==
  /\ TypeOK /\ pc \in Places
  /\ spent \in [Kinds -> Nat] /\ asked \in [Urls -> Nat]
  /\ pc # "over" => loop.rejected <= CorrectionLimit

\* Only a cancelled fetch leaves its thread behind, and a tool at work is owed.
Tooled ==
  /\ MeasuredOnce
  /\ thread # NoUrl => pc = "fetching" \/ (pc = "over" /\ outcome = "cancelled")
  /\ pc = "fetching" => thread # NoUrl
  /\ pc = "fetch" => loop.target \in Urls

\* Nothing is denied but at the end or to a thread left behind.
Bounded ==
  /\ denied => pc = "over" /\ outcome \in {"budget_exhausted", "cancelled"}
  /\ pc # "over" => outcome = "none"

\* What is not in the cache has not been asked for.
Fetched ==
  pc # "over" => \A u \in Urls : cache[u] = "none" /\ thread # u => asked[u] = 0

Contained == outage => pc \notin {"search", "searching"}

Researched ==
  draft.data =>
    /\ draft.sure => draft.fields > 0
    /\ draft.signal => draft.fields # Len(draft.claims)
    /\ \A k \in Positions : Cited(draft.claims[k])

Honest == pc = "commit" \/ (pc = "over" /\ outcome = "result") => Researched

IInv == Typed /\ Tooled /\ Bounded /\ Fetched /\ Contained /\ Honest

-----------------------------------------------------------------------------
(* The counters of the loop and the end of the stage *)

\* The counters have their types.
LEMMA LoopFacts ==
  ASSUME NEW l \in Loop
  PROVE  /\ l.turn \in Nat /\ l.idle \in Nat /\ l.rejected \in Nat /\ l.acted \in Nat /\ l.try \in Nat
         /\ l.context \in Nat /\ l.target \in Urls \cup {NoUrl} /\ l.progressed \in BOOLEAN
  BY DEF Loop

\* A call is counted.
LEMMA CalledFacts ==
  ASSUME loop \in Loop
  PROVE  Called \in Loop /\ Called.rejected = loop.rejected
  <1> DEFINE s(a, c) == [loop EXCEPT !.acted = a, !.context = c]
  <1>1. \A a \in Nat, c \in Nat : s(a, c) \in Loop /\ s(a, c).rejected = loop.rejected
    BY DEF Loop
  <1>2. Called = s(loop.acted + 1, loop.context + 1)
    BY DEF Called
  <1>3. loop.acted + 1 \in Nat /\ loop.context + 1 \in Nat
    BY LoopFacts
  <1> HIDE DEF s
  <1> QED BY <1>1, <1>2, <1>3

\* A call is rejected.
LEMMA RejectedFacts ==
  ASSUME NEW l \in Loop
  PROVE  LET n == [l EXCEPT !.rejected = l.rejected + 1]
         IN  n \in Loop /\ n.rejected = l.rejected + 1
  BY DEF Loop

\* A page is to be fetched.
LEMMA TargetFacts ==
  ASSUME NEW l \in Loop, NEW u \in Urls \cup {NoUrl}
  PROVE  LET n == [l EXCEPT !.target = u]
         IN  n \in Loop /\ n.rejected = l.rejected /\ n.target = u
  BY DEF Loop

\* A response has made progress.
LEMMA ProgressedFacts ==
  ASSUME NEW l \in Loop, NEW b, b \in BOOLEAN
  PROVE  LET n == [l EXCEPT !.progressed = b]
         IN  n \in Loop /\ n.rejected = l.rejected
  BY DEF Loop

\* A page has been observed.
LEMMA ObservedFacts ==
  ASSUME NEW l \in Loop, NEW b, b \in BOOLEAN
  PROVE  LET n == [l EXCEPT !.progressed = b, !.target = NoUrl]
         IN  n \in Loop /\ n.rejected = l.rejected
  <1> DEFINE m == [l EXCEPT !.progressed = b]
  <1>1. m \in Loop /\ m.rejected = l.rejected
    BY ProgressedFacts
  <1>2. [l EXCEPT !.progressed = b, !.target = NoUrl] = [m EXCEPT !.target = NoUrl]
    OBVIOUS
  <1> HIDE DEF m
  <1> QED BY <1>1, <1>2, TargetFacts

\* A request to the model is tried again.
LEMMA TryFacts ==
  ASSUME NEW l \in Loop, NEW k \in Nat
  PROVE  LET n == [l EXCEPT !.try = k]
         IN  n \in Loop /\ n.rejected = l.rejected
  BY DEF Loop

\* A turn begins.
LEMMA TurnFacts ==
  ASSUME loop \in Loop
  PROVE  LET n == [loop EXCEPT !.offered = Offered, !.acted = 0, !.try = 0, !.progressed = FALSE]
         IN  n \in Loop /\ n.rejected = loop.rejected
  <1> DEFINE a == [loop EXCEPT !.offered = Offered, !.acted = 0, !.try = 0]
  <1>1. Offered \in SUBSET Tools
    BY DEF Offered, Tools
  <1>2. a \in Loop /\ a.rejected = loop.rejected
    BY <1>1 DEF Loop
  <1>3. [loop EXCEPT !.offered = Offered, !.acted = 0, !.try = 0, !.progressed = FALSE]
          = [a EXCEPT !.progressed = FALSE]
    OBVIOUS
  <1> HIDE DEF a
  <1> QED BY <1>2, <1>3, ProgressedFacts

\* A turn ends.
LEMMA IdleFacts ==
  ASSUME loop \in Loop, NEW i \in Nat, NEW r \in Nat
  PROVE  LET n == [loop EXCEPT !.turn = @ + 1, !.idle = i, !.rejected = r]
         IN  n \in Loop /\ n.rejected = r
  <1> DEFINE s(t) == [loop EXCEPT !.turn = t, !.idle = i, !.rejected = r]
  <1>1. \A t \in Nat : s(t) \in Loop /\ s(t).rejected = r
    BY DEF Loop
  <1>2. [loop EXCEPT !.turn = @ + 1, !.idle = i, !.rejected = r] = s(loop.turn + 1)
    OBVIOUS
  <1>3. loop.turn + 1 \in Nat
    BY LoopFacts
  <1> HIDE DEF s
  <1> QED BY <1>1, <1>2, <1>3

\* The stage ends as it is classified.
LEMMA EndsFacts ==
  ASSUME NEW error, NEW exhausted \in BOOLEAN, Ends(error, exhausted)
  PROVE  /\ pc' = "over" /\ outcome' \in Outcomes \ {"none", "result", "cancelled"}
         /\ exhausted /\ error \in {"budget", "generation"} => outcome' = "budget_exhausted"
  BY DEF Ends, Classified, Outcomes

\* A function on the first numbers is a sequence.
LEMMA SequenceFacts ==
  ASSUME NEW S, NEW n \in Nat, NEW f \in [1..n -> S]
  PROVE  f \in Seq(S) /\ Len(f) = n
  BY IsASeq, LenProperties

\* Nothing is proposed.
LEMMA NoDraftFacts == NoDraft \in Draft /\ ~ NoDraft.data
  BY DEF NoDraft, Draft

\* What the model proposes is a draft.
LEMMA ProposalFacts ==
  ASSUME NEW d \in Proposals
  PROVE  d \in Draft
  <1>1. CASE d = NoDraft
    BY <1>1, NoDraftFacts
  <1>2. ASSUME NEW n \in 0..MaxClaims, NEW f \in 0..MaxClaims, NEW a \in BOOLEAN, NEW b \in BOOLEAN,
               NEW c \in [1..n -> Urls \cup {NoUrl}],
               d = [data |-> TRUE, sure |-> a, signal |-> b, fields |-> f, claims |-> c]
        PROVE  d \in Draft
    <2>1. n \in Nat /\ f \in Nat
      BY BoundsAssumption
    <2>2. c \in Seq(Urls \cup {NoUrl})
      BY <2>1, SequenceFacts
    <2> QED BY <1>2, <2>1, <2>2 DEF Draft
  <1> QED BY <1>1, <1>2 DEF Proposals

\* What is kept is research.
LEMMA KeptFacts ==
  ASSUME draft \in Draft, NEW claims \in Seq(Urls \cup {NoUrl}), Kept(claims) \/ Discarded,
         UNCHANGED cache
  PROVE  /\ pc' = "commit" /\ draft' \in Draft /\ Researched'
  <1> DEFINE d == [draft EXCEPT !.claims = claims]
  <1>1. /\ d \in Draft /\ d.claims = claims /\ d.sure \in BOOLEAN /\ d.signal \in BOOLEAN
        /\ d.fields \in Nat
    BY DEF Draft
  <1>2. \/ ~ Bare(d) /\ (\A k \in DOMAIN claims : Cited(claims[k])) /\ pc' = "commit" /\ draft' = d
        \/ pc' = "commit" /\ draft' = NoDraft
    BY DEF Kept, Discarded
  <1> HIDE DEF d
  <1>3. CASE ~ Bare(d) /\ (\A k \in DOMAIN claims : Cited(claims[k])) /\ pc' = "commit" /\ draft' = d
    <2>1. (d.sure => d.fields > 0) /\ (d.signal => d.fields # Len(d.claims))
      BY <1>1, <1>3 DEF Bare
    <2>2. \A k \in 1..Len(claims) : Cited(claims[k])'
      BY <1>3 DEF Cited
    <2>3. draft' = d /\ pc' = "commit"
      BY <1>3
    <2>4. \A k \in 1..Len(d.claims) : (d.claims[k] # NoUrl /\ cache'[d.claims[k]] = "evidence")
      BY <1>1, <2>2 DEF Cited
    <2> QED BY <1>1, <2>1, <2>3, <2>4 DEF Researched, Positions, Cited
  <1>4. CASE pc' = "commit" /\ draft' = NoDraft
    BY <1>4, NoDraftFacts DEF Researched
  <1> QED BY <1>2, <1>3, <1>4

-----------------------------------------------------------------------------
(* Steps *)

\* The variables have their types.
LEMMA Types ==
  ASSUME IInv
  PROVE  /\ Typed /\ pc \in Places /\ loop \in Loop /\ loop.rejected \in Nat
         /\ loop.rejected <= CorrectionLimit + 1
         /\ pc # "over" => loop.rejected <= CorrectionLimit /\ denied = FALSE /\ outcome = "none"
         /\ known \subseteq Urls /\ seen \subseteq Signatures /\ saved \subseteq Urls
         /\ outage \in BOOLEAN /\ denied \in BOOLEAN /\ outcome \in Outcomes /\ draft \in Draft
         /\ thread \in Urls \cup {NoUrl} /\ cache \in [Urls -> Pages]
         /\ pc \notin {"fetching", "over"} => thread = NoUrl
         /\ owed = IF pc \in {"search", "searching", "fetch", "fetching"} \/ thread # NoUrl
                   THEN 1 ELSE 0
  <1>1. Typed /\ TypeOK /\ loop \in Loop
    BY DEF IInv, Typed, TypeOK
  <1>2. denied \in BOOLEAN
    BY <1>1 DEF TypeOK
  <1>3. pc # "over" => denied = FALSE /\ outcome = "none"
    BY <1>2 DEF IInv, Bounded
  <1>4. pc \notin {"fetching", "over"} => thread = NoUrl
    BY DEF IInv, Tooled
  <1>5. owed = IF pc \in {"search", "searching", "fetch", "fetching"} \/ thread # NoUrl
               THEN 1 ELSE 0
    BY DEF IInv, Tooled, MeasuredOnce
  <1>6. loop.rejected \in Nat
    BY <1>1, LoopFacts
  <1> QED BY <1>1, <1>3, <1>4, <1>5, <1>6 DEF Typed, TypeOK

\* A step in which nothing is reserved or fetched keeps the types.
LEMMA Steady ==
  ASSUME Typed, UNCHANGED <<evidenceVars, spent>>, pc' \in Places,
         denied' \in BOOLEAN, outage' \in BOOLEAN, outcome' \in Outcomes, loop' \in Loop,
         \/ loop'.rejected <= CorrectionLimit
         \/ pc' = "over" /\ loop'.rejected <= CorrectionLimit + 1,
         known' \subseteq Urls, seen' \subseteq Signatures, saved' \subseteq Urls, draft' \in Draft
  PROVE  Typed'
  <1>1. loop'.rejected \in Nat
    BY LoopFacts
  <1>2. loop'.rejected <= CorrectionLimit + 1
    BY <1>1 DEF CorrectionLimit
  <1>3. pc' # "over" => loop'.rejected <= CorrectionLimit
    OBVIOUS
  <1>4. /\ (cache \in [Urls -> Pages])' /\ (thread \in Urls \cup {NoUrl})'
        /\ (\A k \in Kinds : spent[k] \in 0..Limit[k])' /\ (\A u \in Urls : asked[u] \in 0..1)'
        /\ (spent \in [Kinds -> Nat])' /\ (asked \in [Urls -> Nat])'
    BY DEF Typed, TypeOK, evidenceVars
  <1>5. TypeOK'
    BY <1>2, <1>4 DEF TypeOK
  <1> QED BY <1>3, <1>4, <1>5 DEF Typed

\* A request is reserved within its limit.
LEMMA Reserving ==
  ASSUME Typed, NEW kind \in Kinds, Reserve(kind)
  PROVE  spent' \in [Kinds -> Nat] /\ \A k \in Kinds : spent'[k] \in 0..Limit[k]
  <1>1. spent \in [Kinds -> Nat] /\ Limit \in [Kinds -> Nat] /\ \A k \in Kinds : spent[k] \in 0..Limit[k]
    BY BoundsAssumption DEF Typed, TypeOK
  <1>2. spent' = [spent EXCEPT ![kind] = spent[kind] + 1] /\ spent[kind] < Limit[kind]
    BY DEF Reserve, MayReserve
  <1>3. spent[kind] + 1 \in Nat /\ spent[kind] + 1 \in 0..Limit[kind]
    BY <1>1, <1>2
  <1> QED BY <1>1, <1>2, <1>3

\* The stage ends while no tool is at work.
LEMMA Ending ==
  ASSUME IInv, pc \notin {"over", "fetching"}, NEW error, NEW exhausted \in BOOLEAN,
         Ends(error, exhausted), denied' => exhausted /\ error \in {"budget", "generation"},
         UNCHANGED thread, owed' = 0, Typed'
  PROVE  IInv'
  <1>1. /\ pc' = "over" /\ outcome' \in Outcomes \ {"none", "result", "cancelled"}
        /\ exhausted /\ error \in {"budget", "generation"} => outcome' = "budget_exhausted"
    BY EndsFacts
  <1>2. thread' = NoUrl
    BY Types
  <1>3. Tooled'
    BY <1>1, <1>2 DEF Tooled, MeasuredOnce
  <1>4. Bounded' /\ Fetched'
    BY <1>1 DEF Bounded, Fetched
  <1>5. Contained'
    BY <1>1 DEF Contained
  <1>6. Honest'
    BY <1>1 DEF Honest
  <1> QED BY <1>3, <1>4, <1>5, <1>6 DEF IInv

\* The stage is denied a request, or has lost its claim.
LEMMA Refused ==
  ASSUME IInv, pc \notin {"over", "fetching"}, NEW measured, measured = owed,
         Denied(measured) \/ Lost(measured)
  PROVE  IInv'
  <1>1. owed' = 0
    <2>1. owed \in {0, 1}
      BY Types
    <2>2. owed' = owed - measured
      BY DEF Denied, Lost
    <2> QED BY <2>1, <2>2
  <1>2. \E error : \E exhausted \in BOOLEAN :
          Ends(error, exhausted) /\ (denied' => exhausted /\ error \in {"budget", "generation"})
    <2>1. CASE Denied(measured)
      BY <2>1 DEF Denied
    <2>2. CASE Lost(measured)
      <3>1. Ends("claim", denied) /\ denied' = FALSE /\ denied \in BOOLEAN
        BY <2>2, Types DEF Lost
      <3> QED BY <3>1
    <2> QED BY <2>1, <2>2
  <1>3. UNCHANGED <<loop, known, seen, outage, spent, evidenceVars, saved, draft>>
    BY DEF Denied, Lost
  <1>4. denied' \in BOOLEAN /\ pc' = "over" /\ outcome' \in Outcomes
    <2>1. denied' \in BOOLEAN
      BY Types DEF Denied, Lost
    <2> QED BY <1>2, <2>1, EndsFacts
  <1>5. loop'.rejected <= CorrectionLimit
    BY <1>3, Types
  <1>6. Typed'
    BY <1>3, <1>4, <1>5, Types, Steady DEF Places
  <1> QED BY <1>1, <1>2, <1>3, <1>6, Ending DEF evidenceVars

\* A step that goes on, at a place without a tool, with the same evidence.
LEMMA GoesOn ==
  ASSUME IInv, pc \notin {"over", "fetching"}, Typed', UNCHANGED <<evidenceVars, denied, outcome>>,
         pc' \in Places \ {"over", "fetching", "commit"},
         owed' = IF pc' \in {"search", "searching", "fetch"} THEN 1 ELSE 0,
         pc' = "fetch" => loop'.target \in Urls,
         Contained'
  PROVE  IInv'
  <1>1. thread' = NoUrl /\ denied' = FALSE /\ outcome' = "none"
    BY Types DEF evidenceVars
  <1>2. Tooled'
    BY <1>1 DEF Tooled, MeasuredOnce
  <1>3. Bounded'
    BY <1>1 DEF Bounded
  <1>4. Fetched'
    BY DEF IInv, Fetched, evidenceVars
  <1>5. Honest'
    BY DEF Honest
  <1> QED BY <1>2, <1>3, <1>4, <1>5 DEF IInv

\* A turn begins, and the model is asked.
LEMMA AskSteps ==
  ASSUME IInv, BeginTurn \/ Ask \/ Responds \/ AskFails
  PROVE  IInv'
  <1>1. pc \in {"turn", "ask", "asking"} /\ thread = NoUrl /\ owed = 0
    BY Types DEF BeginTurn, Ask, Responds, AskFails
  <1>2. CASE Denied(0) \/ Lost(0)
    BY <1>1, <1>2, Refused
  <1>3. CASE BeginTurn \/ Responds \/ AskFails
    <2>1. UNCHANGED <<known, seen, outage, spent, denied, evidenceVars, owed, saved, draft>>
      BY <1>3 DEF BeginTurn, Responds, AskFails
    <2>2. /\ loop' \in Loop /\ loop'.rejected = loop.rejected
      <3>1. CASE BeginTurn
        BY <3>1, Types, TurnFacts DEF BeginTurn
      <3>2. CASE Responds
        BY <3>2, Types DEF Responds
      <3>3. CASE AskFails
        <4>1. loop.try + 1 \in Nat
          BY Types, LoopFacts
        <4>2. loop' = loop \/ loop' = [loop EXCEPT !.try = loop.try + 1]
          BY <3>3 DEF AskFails
        <4> QED BY <4>1, <4>2, Types, TryFacts
      <3> QED BY <1>3, <3>1, <3>2, <3>3
    <2>3. \/ pc' \in {"ask", "act"} /\ UNCHANGED outcome
          \/ \E error : Ends(error, denied)
      BY <1>3 DEF BeginTurn, Responds, AskFails
    <2>4. Typed'
      <3>1. pc' \in Places /\ outcome' \in Outcomes
        BY <2>3, Types, EndsFacts DEF Places
      <3>2. loop'.rejected <= CorrectionLimit
        BY <1>1, <2>2, Types
      <3> QED BY <2>1, <2>2, <3>1, <3>2, Types, Steady
    <2>5. CASE pc' \in {"ask", "act"} /\ UNCHANGED outcome
      <3>1. Contained'
        BY <2>5 DEF Contained
      <3> QED BY <1>1, <2>1, <2>4, <2>5, <3>1, GoesOn DEF Places
    <2>6. CASE \E error : Ends(error, denied)
      BY <1>1, <2>1, <2>4, <2>6, Types, Ending DEF evidenceVars
    <2> QED BY <2>3, <2>5, <2>6
  <1>4. CASE /\ Reserve("llm") /\ pc' = "asking"
             /\ UNCHANGED <<loop, known, seen, outage, evidenceVars, owed, saved, draft, outcome>>
    <2>1. Typed'
      BY <1>1, <1>4, Types, Reserving DEF Typed, TypeOK, Reserve, Places, Kinds, evidenceVars
    <2>2. Contained'
      BY <1>4 DEF Contained
    <2> QED BY <1>1, <1>4, <2>1, <2>2, GoesOn DEF Places, Reserve
  <1> QED BY <1>2, <1>3, <1>4 DEF Ask

\* A rejected call ends the stage or does not.
LEMMA Rejecting ==
  ASSUME IInv, pc \in {"act", "search"}, NEW count \in Loop, count.rejected = loop.rejected,
         Rejects(count), UNCHANGED <<known, outage, spent, denied, evidenceVars, saved, draft>>,
         owed' = 0, seen' \subseteq Signatures
  PROVE  IInv'
  <1>1. loop.rejected \in Nat /\ loop.rejected <= CorrectionLimit /\ thread = NoUrl
    BY Types
  <1>2. loop' \in Loop /\ loop'.rejected = loop.rejected + 1
    BY RejectedFacts DEF Rejects
  <1>3. CASE Exceeded(loop.rejected + 1)
    <2>1. Ends("contract", denied)
      BY <1>3 DEF Rejects
    <2>2. pc' = "over" /\ outcome' \in Outcomes
      BY <2>1, EndsFacts, Types
    <2>3. loop'.rejected <= CorrectionLimit + 1
      BY <1>1, <1>2 DEF CorrectionLimit
    <2>4. Typed'
      BY <1>2, <2>2, <2>3, Types, Steady DEF Places
    <2> QED BY <1>1, <2>1, <2>4, Types, Ending DEF evidenceVars
  <1>4. CASE ~ Exceeded(loop.rejected + 1)
    <2>1. pc' = "act" /\ UNCHANGED outcome
      BY <1>4 DEF Rejects
    <2>2. loop'.rejected <= CorrectionLimit
      BY <1>1, <1>2, <1>4 DEF Exceeded, CorrectionLimit
    <2>3. Typed'
      BY <1>2, <2>1, <2>2, Types, Steady DEF Places
    <2>4. Contained'
      BY <2>1 DEF Contained
    <2> QED BY <2>1, <2>3, <2>4, GoesOn DEF Places
  <1> QED BY <1>3, <1>4

\* Calls that are wrong or repeated, and the end of a response.
LEMMA EmptyCalls ==
  ASSUME IInv, BadCall \/ EndTurn \/ \E s \in seen : RepeatedCall(s)
  PROVE  IInv'
  <1>1. pc = "act" /\ owed = 0 /\ loop \in Loop /\ thread = NoUrl
    BY Types DEF BadCall, EndTurn, RepeatedCall, Calls
  <1>2. CASE BadCall \/ \E s \in seen : RepeatedCall(s)
    <2>1. /\ Rejects(Called)
          /\ UNCHANGED <<known, seen, outage, spent, denied, evidenceVars, owed, saved, draft>>
      BY <1>2 DEF BadCall, RepeatedCall
    <2> QED BY <1>1, <2>1, Types, CalledFacts, Rejecting
  <1>3. CASE EndTurn
    <2> DEFINE idle == IF loop.progressed THEN 0 ELSE loop.idle + 1
               rejected == IF loop.acted = 0 THEN loop.rejected + 1 ELSE loop.rejected
    <2>1. loop.rejected \in Nat /\ loop.rejected <= CorrectionLimit
      BY <1>1, Types
    <2>2. idle \in Nat /\ rejected \in Nat /\ rejected <= CorrectionLimit + 1
      BY <1>1, <2>1, LoopFacts DEF CorrectionLimit
    <2>3. loop' = [loop EXCEPT !.turn = @ + 1, !.idle = idle, !.rejected = rejected]
      BY <1>3 DEF EndTurn
    <2>4. \/ \E error : Ends(error, denied)
          \/ pc' = "turn" /\ UNCHANGED outcome /\ ~ Exceeded(rejected)
      BY <1>3 DEF EndTurn
    <2>5. UNCHANGED <<known, seen, outage, spent, denied, evidenceVars, owed, saved, draft>>
      BY <1>3 DEF EndTurn
    <2> HIDE DEF idle, rejected
    <2>6. loop' \in Loop /\ loop'.rejected = rejected
      BY <1>1, <2>2, <2>3, IdleFacts
    <2>7. CASE \E error : Ends(error, denied)
      <3>1. pc' = "over" /\ outcome' \in Outcomes
        BY <2>7, Types, EndsFacts
      <3>2. Typed'
        BY <2>2, <2>5, <2>6, <3>1, Types, Steady DEF Places
      <3> QED BY <1>1, <2>5, <2>7, <3>2, Types, Ending DEF evidenceVars
    <2>8. CASE pc' = "turn" /\ UNCHANGED outcome /\ ~ Exceeded(rejected)
      <3>1. loop'.rejected <= CorrectionLimit
        BY <2>2, <2>6, <2>8 DEF Exceeded, CorrectionLimit
      <3>2. Typed'
        BY <2>5, <2>6, <2>8, <3>1, Types, Steady DEF Places
      <3>3. Contained'
        BY <2>8 DEF Contained
      <3> QED BY <1>1, <2>5, <2>8, <3>2, <3>3, GoesOn DEF Places
    <2> QED BY <2>4, <2>7, <2>8
  <1> QED BY <1>2, <1>3

\* A search is called for, or suspended.
LEMMA SearchCalls ==
  ASSUME IInv, NEW q \in Queries, SearchCall(q)
  PROVE  IInv'
  <1>1. /\ pc = "act" /\ owed = 0 /\ thread = NoUrl /\ loop \in Loop
        /\ loop.rejected <= CorrectionLimit
    BY Types DEF SearchCall, Calls
  <1>2. loop' \in Loop /\ loop'.rejected = loop.rejected
    BY <1>1, CalledFacts DEF SearchCall
  <1>3. UNCHANGED <<known, outage, spent, denied, evidenceVars, saved, draft, outcome>>
    BY DEF SearchCall
  <1>4. \/ pc' = "act" /\ UNCHANGED <<seen, owed>>
        \/ /\ ~ outage /\ seen' = seen \cup {<<"search", q>>} /\ owed' = owed + 1 /\ pc' = "search"
    BY DEF SearchCall, Suspended
  <1>5. Typed'
    <2>1. seen' \subseteq Signatures /\ pc' \in Places
      <3>1. <<"search", q>> \in Signatures
        BY DEF Signatures
      <3> QED BY <1>4, <3>1, Types DEF Places
    <2> QED BY <1>1, <1>2, <1>3, <2>1, Types, Steady
  <1>6. Contained'
    BY <1>3, <1>4 DEF Contained
  <1>7. owed' = IF pc' \in {"search", "searching", "fetch"} THEN 1 ELSE 0
    BY <1>1, <1>4
  <1> QED BY <1>1, <1>3, <1>4, <1>5, <1>6, <1>7, GoesOn DEF Places

\* A page is called for that is known, or is not.
LEMMA FetchCalls ==
  ASSUME IInv, NEW s \in Signatures, FetchCall(s)
  PROVE  IInv'
  <1>1. /\ pc = "act" /\ owed = 0 /\ thread = NoUrl /\ loop \in Loop
        /\ loop.rejected <= CorrectionLimit
    BY Types DEF FetchCall, Calls
  <1>2. UNCHANGED <<known, outage, spent, denied, evidenceVars, saved, draft>>
    BY DEF FetchCall
  <1>3. seen' \subseteq Signatures
    BY Types DEF FetchCall
  <1>4. CASE Rejects(Called) /\ UNCHANGED owed
    BY <1>1, <1>2, <1>3, <1>4, CalledFacts, Rejecting
  <1>5. CASE s[2] \in known
    <2>1. /\ loop' = [Called EXCEPT !.target = s[2]] /\ s[2] \in Urls
          /\ pc' = "fetch" /\ owed' = 1 /\ UNCHANGED outcome
      <3>1. s[2] \in Urls
        BY <1>5, Types
      <3>2. /\ loop' = [Called EXCEPT !.target = s[2]] /\ pc' = "fetch"
            /\ owed' = owed + 1 /\ UNCHANGED outcome
        BY <1>5 DEF FetchCall
      <3> QED BY <1>1, <3>1, <3>2
    <2>2. loop' \in Loop /\ loop'.rejected = loop.rejected /\ loop'.target \in Urls
      BY <1>1, <2>1, CalledFacts, TargetFacts
    <2>3. Typed'
      BY <1>1, <1>2, <1>3, <2>1, <2>2, Types, Steady DEF Places
    <2>4. Contained'
      BY <2>1 DEF Contained
    <2> QED BY <1>1, <1>2, <2>1, <2>2, <2>3, <2>4, GoesOn DEF Places
  <1> QED BY <1>4, <1>5 DEF FetchCall

\* A candidate is saved, or is not known.
LEMMA SaveCalls ==
  ASSUME IInv, NEW u \in Urls, SaveCall(u)
  PROVE  IInv'
  <1>1. /\ pc = "act" /\ owed = 0 /\ thread = NoUrl /\ loop \in Loop
        /\ loop.rejected <= CorrectionLimit
    BY Types DEF SaveCall, Calls
  <1>2. CASE Lost(0)
    BY <1>1, <1>2, Refused
  <1>3. CASE /\ seen' = seen \cup {<<"save_candidate", u>>}
             /\ UNCHANGED <<known, outage, spent, denied, evidenceVars, owed, draft>>
             /\ \/ Rejects(Called) /\ UNCHANGED saved
                \/ /\ saved' = saved \cup {u} /\ pc' = "act"
                   /\ loop' = [Called EXCEPT !.progressed = TRUE] /\ UNCHANGED outcome
    <2>1. seen' \subseteq Signatures
      <3>1. <<"save_candidate", u>> \in Signatures
        BY DEF Signatures
      <3> QED BY <1>3, <3>1, Types
    <2>2. CASE Rejects(Called) /\ UNCHANGED saved
      BY <1>1, <1>3, <2>1, <2>2, CalledFacts, Rejecting
    <2>3. CASE /\ saved' = saved \cup {u} /\ pc' = "act"
               /\ loop' = [Called EXCEPT !.progressed = TRUE] /\ UNCHANGED outcome
      <3>1. loop' \in Loop /\ loop'.rejected = loop.rejected
        BY <1>1, <2>3, CalledFacts, ProgressedFacts
      <3>2. saved' \subseteq Urls
        BY <2>3, Types
      <3>3. Typed'
        BY <1>1, <1>3, <2>1, <2>3, <3>1, <3>2, Types, Steady DEF Places
      <3>4. Contained'
        BY <2>3 DEF Contained
      <3> QED BY <1>1, <1>3, <2>3, <3>3, <3>4, GoesOn DEF Places
    <2> QED BY <1>3, <2>2, <2>3
  <1> QED BY <1>2, <1>3 DEF SaveCall

\* The model finishes: during an outage with data only.
LEMMA FinishCalls ==
  ASSUME IInv, NEW d \in Proposals, FinishCall(d)
  PROVE  IInv'
  <1>1. /\ pc = "act" /\ owed = 0 /\ thread = NoUrl /\ loop \in Loop
        /\ loop.rejected <= CorrectionLimit
    BY Types DEF FinishCall, Calls
  <1>2. loop' \in Loop /\ loop'.rejected = loop.rejected
    BY <1>1, CalledFacts DEF FinishCall
  <1>3. UNCHANGED <<known, seen, outage, spent, denied, evidenceVars, owed, saved>>
    BY DEF FinishCall
  <1>4. CASE Ends("search", denied) /\ UNCHANGED draft
    <2>1. pc' = "over" /\ outcome' \in Outcomes
      BY <1>4, Types, EndsFacts
    <2>2. Typed'
      BY <1>1, <1>2, <1>3, <1>4, <2>1, Types, Steady DEF Places
    <2> QED BY <1>1, <1>3, <1>4, <2>2, Types, Ending DEF evidenceVars
  <1>5. CASE draft' = d /\ pc' = "validate" /\ UNCHANGED outcome
    <2>1. Typed'
      BY <1>1, <1>2, <1>3, <1>5, ProposalFacts, Types, Steady DEF Places
    <2>2. Contained'
      BY <1>5 DEF Contained
    <2> QED BY <1>1, <1>3, <1>5, <2>1, <2>2, GoesOn DEF Places
  <1> QED BY <1>4, <1>5 DEF FinishCall

\* A search finds something, fails, is refused or is not allowed.
LEMMA SearchSteps ==
  ASSUME IInv,
         \/ \E results \in SUBSET Urls : SearchFinds(results)
         \/ SearchSend \/ SearchFails \/ SearchRefused
  PROVE  IInv'
  <1>1. /\ pc \in {"search", "searching"} /\ owed = 1 /\ thread = NoUrl /\ loop \in Loop
        /\ loop.rejected <= CorrectionLimit
    BY Types DEF SearchFinds, SearchSend, SearchFails, SearchRefused
  <1>2. ASSUME NEW results \in SUBSET Urls, SearchFinds(results) PROVE IInv'
    <2> DEFINE b == loop.progressed \/ results # {}
    <2>1. loop' = [loop EXCEPT !.progressed = b] /\ b \in BOOLEAN
      BY <1>1, <1>2, LoopFacts DEF SearchFinds
    <2> HIDE DEF b
    <2>2. loop' \in Loop /\ loop'.rejected = loop.rejected
      BY <1>1, <2>1, ProgressedFacts
    <2>3. /\ known' \subseteq Urls /\ pc' = "act" /\ owed' = 0
          /\ UNCHANGED <<seen, outage, spent, denied, evidenceVars, saved, draft, outcome>>
      BY <1>1, <1>2, Types DEF SearchFinds
    <2>4. Typed'
      BY <1>1, <2>2, <2>3, Types, Steady DEF Places
    <2>5. Contained'
      BY <2>3 DEF Contained
    <2> QED BY <1>1, <2>3, <2>4, <2>5, GoesOn DEF Places
  <1>3. CASE SearchFails
    <2>1. /\ UNCHANGED <<loop, known, seen, spent, denied, evidenceVars, saved, draft, outcome>>
          /\ outage' \in BOOLEAN /\ pc' = "act" /\ owed' = 0
      BY <1>1, <1>3 DEF SearchFails
    <2>2. Typed'
      BY <1>1, <2>1, Types, Steady DEF Places
    <2>3. Contained'
      BY <2>1 DEF Contained
    <2> QED BY <1>1, <2>1, <2>2, <2>3, GoesOn DEF Places
  <1>4. CASE SearchRefused
    <2>1. owed' = 0
      BY <1>1, <1>4 DEF SearchRefused, Measured
    <2> QED BY <1>1, <1>4, <2>1, Types, Rejecting DEF SearchRefused
  <1>5. CASE SearchSend /\ Denied(1)
    BY <1>1, <1>5, Refused
  <1>6. CASE /\ pc = "search" /\ Reserve("search") /\ pc' = "searching"
             /\ UNCHANGED <<loop, known, seen, outage, evidenceVars, owed, saved, draft, outcome>>
    <2>1. Typed'
      BY <1>1, <1>6, Types, Reserving DEF Typed, TypeOK, Reserve, Places, Kinds, evidenceVars
    <2>2. Contained'
      BY <1>6 DEF IInv, Contained
    <2> QED BY <1>1, <1>6, <2>1, <2>2, GoesOn DEF Places, Reserve
  <1> QED BY <1>2, <1>3, <1>4, <1>5, <1>6 DEF SearchSend

\* A page that was fetched before is taken from the cache, and another is
\* fetched in a thread.
LEMMA FetchSteps ==
  ASSUME IInv, FetchCached \/ FetchSend
  PROVE  IInv'
  <1>1. /\ pc = "fetch" /\ owed = 1 /\ thread = NoUrl /\ loop \in Loop
        /\ loop.rejected <= CorrectionLimit /\ loop.target \in Urls
    BY Types DEF FetchCached, FetchSend, IInv, Tooled
  <1>2. CASE FetchCached
    <2> DEFINE b == loop.progressed \/ cache[loop.target] = "evidence"
    <2>1. loop' = [loop EXCEPT !.progressed = b, !.target = NoUrl] /\ b \in BOOLEAN
      BY <1>1, <1>2, LoopFacts DEF FetchCached, Observes
    <2> HIDE DEF b
    <2>2. loop' \in Loop /\ loop'.rejected = loop.rejected
      BY <1>1, <2>1, ObservedFacts
    <2>3. /\ known' \subseteq Urls /\ pc' = "act" /\ owed' = 0
          /\ UNCHANGED <<seen, outage, spent, denied, evidenceVars, saved, draft, outcome>>
      BY <1>1, <1>2, Types DEF FetchCached, Observes
    <2>4. Typed'
      BY <1>1, <2>2, <2>3, Types, Steady DEF Places
    <2>5. Contained'
      BY <2>3 DEF Contained
    <2> QED BY <1>1, <2>3, <2>4, <2>5, GoesOn DEF Places
  <1>3. CASE FetchSend /\ (Denied(1) \/ Lost(1))
    BY <1>1, <1>3, Refused
  <1>4. CASE /\ cache[loop.target] = "none"
             /\ Reserve("fetch") /\ pc' = "fetching"
             /\ thread' = loop.target /\ asked' = [asked EXCEPT ![loop.target] = @ + 1]
             /\ UNCHANGED <<loop, known, seen, outage, cache, owed, saved, draft, outcome>>
    <2>1. asked \in [Urls -> Nat] /\ asked[loop.target] = 0
      BY <1>1, <1>4, UrlsAssumption DEF IInv, Typed, Fetched
    <2>2. asked' \in [Urls -> Nat] /\ asked'[loop.target] = 1
          /\ \A u \in Urls \ {loop.target} : asked'[u] = asked[u]
      BY <1>1, <1>4, <2>1
    <2>3. \A u \in Urls : asked'[u] \in 0..1
      BY <2>1, <2>2, Types DEF Typed, TypeOK
    <2>4. spent' \in [Kinds -> Nat] /\ \A k \in Kinds : spent'[k] \in 0..Limit[k]
      BY <1>4, Types, Reserving DEF Kinds
    <2>5. denied' = FALSE
      BY <1>1, <1>4, Types DEF Reserve
    <2>6. TypeOK'
      BY <1>1, <1>4, <2>3, <2>4, <2>5, Types DEF TypeOK
    <2>7. Typed'
      BY <1>1, <1>4, <2>2, <2>4, <2>6 DEF Typed, Places
    <2>8. Tooled'
      BY <1>1, <1>4, UrlsAssumption DEF Tooled, MeasuredOnce
    <2>9. Bounded'
      BY <1>1, <1>4, <2>5, Types DEF Bounded
    <2>10. Fetched'
      BY <1>1, <1>4, <2>2, UrlsAssumption DEF Fetched, IInv
    <2>11. Contained' /\ Honest'
      BY <1>4 DEF Contained, Honest
    <2> QED BY <2>7, <2>8, <2>9, <2>10, <2>11 DEF IInv
  <1> QED BY <1>2, <1>3, <1>4 DEF FetchSend

\* The thread reserves a redirect, is denied one, or ends by itself.
LEMMA ThreadSteps ==
  ASSUME IInv, Redirect \/ FetchReturnsLate
  PROVE  IInv'
  <1>1. /\ thread # NoUrl /\ owed = 1 /\ loop \in Loop
        /\ pc = "fetching" \/ (pc = "over" /\ outcome = "cancelled")
    BY Types DEF Redirect, FetchReturnsLate, IInv, Tooled
  <1>2. UNCHANGED <<loop, known, seen, outage, cache, asked, saved, draft>>
    BY DEF Redirect, FetchReturnsLate
  <1>3. CASE /\ Reserve("fetch")
             /\ UNCHANGED <<pc, outcome, thread, owed>>
    <2>1. spent' \in [Kinds -> Nat] /\ \A k \in Kinds : spent'[k] \in 0..Limit[k]
      BY <1>3, Types, Reserving DEF Kinds
    <2>2. denied' = denied
      BY <1>3 DEF Reserve
    <2>3. Typed'
      BY <1>2, <1>3, <2>1, <2>2, Types DEF Typed, TypeOK
    <2>4. Tooled' /\ Bounded' /\ Fetched' /\ Contained'
      BY <1>2, <1>3, <2>2 DEF IInv, Tooled, MeasuredOnce, Bounded, Fetched, Contained
    <2>5. Honest'
      BY <1>1, <1>3 DEF Honest
    <2> QED BY <2>3, <2>4, <2>5 DEF IInv
  <1>4. CASE /\ pc = "over" /\ thread' = NoUrl /\ owed' = owed - 1 /\ UNCHANGED <<spent, pc, outcome>>
             /\ denied' = TRUE \/ UNCHANGED denied
    <2>1. denied' \in BOOLEAN /\ outcome = "cancelled"
      BY <1>1, <1>4, Types
    <2>2. Typed'
      BY <1>2, <1>4, <2>1, Types DEF Typed, TypeOK
    <2>3. owed' = 0
      BY <1>1, <1>4
    <2>4. Tooled' /\ Bounded' /\ Fetched' /\ Contained' /\ Honest'
      BY <1>2, <1>4, <2>1, <2>3 DEF Tooled, MeasuredOnce, Bounded, Fetched, Contained, Honest
    <2> QED BY <2>2, <2>4 DEF IInv
  <1>5. CASE /\ pc = "fetching" /\ denied' = TRUE /\ thread' = NoUrl /\ owed' = owed - 1
             /\ UNCHANGED spent /\ \E error \in {"budget", "generation"} : Ends(error, TRUE)
    <2>1. pc' = "over" /\ outcome' = "budget_exhausted"
      BY <1>5, EndsFacts
    <2>2. owed' = 0
      BY <1>1, <1>5
    <2>3. loop.rejected <= CorrectionLimit
      BY <1>5, Types
    <2>4. Typed'
      BY <1>2, <1>5, <2>1, <2>3, Types DEF Typed, TypeOK, Places, Outcomes
    <2>5. Tooled' /\ Bounded' /\ Fetched' /\ Contained' /\ Honest'
      BY <1>5, <2>1, <2>2 DEF Tooled, MeasuredOnce, Bounded, Fetched, Contained, Honest
    <2> QED BY <2>4, <2>5 DEF IInv
  <1> QED BY <1>1, <1>3, <1>4, <1>5 DEF Redirect, FetchReturnsLate

\* A page is fetched, and stays in the cache.
LEMMA PageSteps ==
  ASSUME IInv, NEW page \in Pages \ {"none"}, NEW links \in SUBSET Urls, FetchReturns(page, links)
  PROVE  IInv'
  <1> DEFINE b == loop.progressed \/ page = "evidence"
  <1>1. /\ pc = "fetching" /\ thread \in Urls /\ owed = 1 /\ loop \in Loop
        /\ loop.rejected <= CorrectionLimit /\ denied = FALSE /\ outcome = "none"
    <2>1. pc = "fetching" /\ thread # NoUrl
      BY DEF FetchReturns, IInv, Tooled
    <2> QED BY <2>1, Types
  <1>2. loop' = [loop EXCEPT !.progressed = b, !.target = NoUrl] /\ b \in BOOLEAN
    BY <1>1, LoopFacts DEF FetchReturns, Observes
  <1> HIDE DEF b
  <1>3. loop' \in Loop /\ loop'.rejected = loop.rejected
    BY <1>1, <1>2, ObservedFacts
  <1>4. /\ known' \subseteq Urls /\ pc' = "act" /\ owed' = 0 /\ thread' = NoUrl
        /\ UNCHANGED <<seen, outage, spent, denied, asked, saved, draft, outcome>>
    BY <1>1, Types DEF FetchReturns, Observes
  <1>5. cache' = [cache EXCEPT ![thread] = page] /\ cache \in [Urls -> Pages]
    BY Types DEF FetchReturns, Cached
  <1>6. Typed'
    BY <1>1, <1>3, <1>4, <1>5, Types DEF Typed, TypeOK, Places
  <1>7. Fetched'
    BY <1>1, <1>4, <1>5 DEF Fetched, IInv
  <1>8. Tooled' /\ Bounded' /\ Contained' /\ Honest'
    BY <1>1, <1>4 DEF Tooled, MeasuredOnce, Bounded, Contained, Honest
  <1> QED BY <1>6, <1>7, <1>8 DEF IInv

\* A step of the evaluation of a draft.
LEMMA Evaluating ==
  ASSUME IInv, pc \in {"validate", "repair", "repairing"},
         pc' \in {"repair", "repairing", "commit"}, pc' = "commit" => Researched',
         UNCHANGED <<outage, denied, evidenceVars, owed, outcome>>, Typed'
  PROVE  IInv'
  <1>1. thread' = NoUrl /\ denied' = FALSE /\ outcome' = "none" /\ owed' = 0
    BY Types DEF evidenceVars
  <1>2. Tooled' /\ Bounded'
    BY <1>1 DEF Tooled, MeasuredOnce, Bounded
  <1>3. Fetched'
    BY DEF IInv, Fetched, evidenceVars
  <1>4. Contained'
    BY DEF Contained
  <1>5. Honest'
    BY DEF Honest
  <1> QED BY <1>2, <1>3, <1>4, <1>5 DEF IInv

\* A draft is validated, and repaired once.
LEMMA EvaluationSteps ==
  ASSUME IInv,
         \/ Validate \/ Repair \/ RepairGoesOn
         \/ \E positions \in SUBSET Positions :
              \E corrections \in [positions -> Urls \cup {NoUrl}] : RepairAnswers(corrections)
  PROVE  IInv'
  <1>1. /\ pc \in {"validate", "repair", "repairing"} /\ owed = 0 /\ thread = NoUrl /\ loop \in Loop
        /\ loop.rejected <= CorrectionLimit
    BY Types DEF Validate, Repair, RepairGoesOn, RepairAnswers
  <1>2. CASE Repair /\ (Denied(0) \/ Lost(0))
    BY <1>1, <1>2, Refused
  <1>3. CASE /\ Reserve("llm") /\ pc' = "repairing"
             /\ UNCHANGED <<loop, known, seen, outage, evidenceVars, owed, saved, draft, outcome>>
    <2>1. Typed'
      BY <1>1, <1>3, Types, Reserving DEF Typed, TypeOK, Reserve, Places, Kinds, evidenceVars
    <2> QED BY <1>1, <1>3, <2>1, Evaluating DEF Reserve
  <1>4. CASE RepairGoesOn
    <2>1. loop.try + 1 \in Nat
      BY <1>1, LoopFacts
    <2>2. loop' \in Loop /\ loop'.rejected = loop.rejected
      BY <1>1, <1>4, <2>1, TryFacts DEF RepairGoesOn
    <2>3. /\ pc' = "repair"
          /\ UNCHANGED <<known, seen, outage, spent, denied, evidenceVars, owed, saved, draft, outcome>>
      BY <1>4 DEF RepairGoesOn
    <2>4. Typed'
      BY <1>1, <2>2, <2>3, Types, Steady DEF Places
    <2> QED BY <1>1, <2>3, <2>4, Evaluating
  <1>5. ASSUME loop' \in Loop, loop'.rejected = loop.rejected, draft' \in Draft,
               pc' \in {"repair", "commit"},
               pc' = "commit" => Researched',
               UNCHANGED <<known, seen, outage, spent, denied, evidenceVars, owed, saved, outcome>>
        PROVE  IInv'
    <2>1. Typed'
      BY <1>1, <1>5, Types, Steady DEF Places
    <2> QED BY <1>1, <1>5, <2>1, Evaluating
  <1>6. CASE Validate
    <2>1. loop' \in Loop /\ loop'.rejected = loop.rejected
      BY <1>1, <1>6, TryFacts DEF Validate
    <2>2. UNCHANGED <<known, seen, outage, spent, denied, evidenceVars, owed, saved, outcome>>
      BY <1>6 DEF Validate
    <2>3. CASE ~ draft.data /\ pc' = "commit" /\ UNCHANGED draft
      <3>1. Researched'
        BY <2>3 DEF Researched
      <3> QED BY <1>5, <2>1, <2>2, <2>3, <3>1, Types
    <2>4. CASE pc' = "repair" /\ UNCHANGED draft
      BY <1>5, <2>1, <2>2, <2>4, Types
    <2>5. CASE Kept(draft.claims)
      <3>1. draft.claims \in Seq(Urls \cup {NoUrl}) /\ UNCHANGED cache
        BY <2>2, Types DEF Draft, evidenceVars
      <3>2. pc' = "commit" /\ draft' \in Draft /\ Researched'
        BY <2>5, <3>1, Types, KeptFacts
      <3> QED BY <1>5, <2>1, <2>2, <3>2
    <2> QED BY <1>6, <2>3, <2>4, <2>5 DEF Validate
  <1>7. ASSUME NEW positions \in SUBSET Positions,
               NEW corrections \in [positions -> Urls \cup {NoUrl}], RepairAnswers(corrections)
        PROVE  IInv'
    <2> DEFINE new == [k \in Positions |-> IF k \in Issues THEN corrections[k] ELSE draft.claims[k]]
    <2>1. UNCHANGED <<loop, known, seen, outage, spent, denied, evidenceVars, owed, saved, outcome>>
      BY <1>7 DEF RepairAnswers
    <2>2. ASSUME NEW claims \in Seq(Urls \cup {NoUrl}), Kept(claims) \/ Discarded PROVE IInv'
      <3>1. UNCHANGED cache
        BY <2>1 DEF evidenceVars
      <3>2. pc' = "commit" /\ draft' \in Draft /\ Researched'
        BY <2>2, <3>1, Types, KeptFacts
      <3> QED BY <1>1, <1>5, <2>1, <3>2
    <2>3. <<>> \in Seq(Urls \cup {NoUrl})
      OBVIOUS
    <2>4. CASE DOMAIN corrections = Issues /\ Kept(new)
      <3>1. draft.claims \in Seq(Urls \cup {NoUrl}) /\ Len(draft.claims) \in Nat
        BY Types DEF Draft
      <3>2. new \in [1..Len(draft.claims) -> Urls \cup {NoUrl}]
        BY <2>4, <3>1 DEF Positions
      <3> HIDE DEF new
      <3>3. new \in Seq(Urls \cup {NoUrl})
        BY <3>1, <3>2, SequenceFacts
      <3> QED BY <2>2, <2>4, <3>3
    <2> QED BY <1>7, <2>2, <2>3, <2>4 DEF RepairAnswers, Repaired
  <1> QED BY <1>2, <1>3, <1>4, <1>6, <1>7 DEF Repair

\* The result is committed, the repair gives up, or the stage is cancelled.
LEMMA LastSteps ==
  ASSUME IInv, RepairFails \/ Commit \/ Cancel
  PROVE  IInv'
  <1>1. /\ pc \in {"asking", "searching", "fetching", "repairing", "commit"} /\ loop \in Loop
        /\ loop.rejected <= CorrectionLimit /\ denied = FALSE
    BY Types DEF RepairFails, Commit, Cancel
  <1>2. CASE Commit /\ Lost(0)
    <2>1. pc \notin {"over", "fetching"} /\ owed = 0
      BY <1>2, Types DEF Commit
    <2> QED BY <1>2, <2>1, Refused
  <1>3. CASE RepairFails
    <2>1. /\ \E error \in {"budget", "contract"} : Ends(error, denied)
          /\ UNCHANGED <<loop, known, seen, outage, spent, denied, evidenceVars, owed, saved, draft>>
          /\ pc = "repairing"
      BY <1>3 DEF RepairFails
    <2>2. pc' = "over" /\ outcome' \in Outcomes
      BY <2>1, Types, EndsFacts
    <2>3. Typed'
      BY <1>1, <2>1, <2>2, Types, Steady DEF Places
    <2> QED BY <2>1, <2>3, Types, Ending DEF evidenceVars
  <1>4. CASE /\ pc = "commit" /\ pc' = "over" /\ outcome' = "result"
             /\ UNCHANGED <<loop, known, seen, outage, spent, denied, evidenceVars, owed, saved, draft>>
    <2>1. Typed'
      BY <1>1, <1>4, Types, Steady DEF Places, Outcomes
    <2>2. Tooled'
      BY <1>4, Types DEF Tooled, MeasuredOnce, evidenceVars
    <2>3. Bounded' /\ Fetched' /\ Contained'
      BY <1>1, <1>4 DEF Bounded, Fetched, Contained
    <2>4. Researched
      BY <1>4 DEF IInv, Honest
    <2>5. Researched'
      BY <1>4, <2>4 DEF Researched, Positions, Cited, evidenceVars
    <2>6. Honest'
      BY <2>5 DEF Honest
    <2> QED BY <2>1, <2>2, <2>3, <2>6 DEF IInv
  <1>5. CASE Cancel
    <2>1. /\ pc' = "over" /\ outcome' = "cancelled"
          /\ UNCHANGED <<loop, known, seen, outage, spent, denied, evidenceVars, saved, draft>>
      BY <1>5 DEF Cancel
    <2>2. Typed'
      BY <1>1, <2>1, Types, Steady DEF Places, Outcomes
    <2>3. owed' = IF thread # NoUrl THEN 1 ELSE 0
      <3>1. owed' = IF pc = "searching" THEN owed - 1 ELSE owed
        BY <1>5 DEF Cancel
      <3>2. CASE pc = "searching"
        BY <3>1, <3>2, Types
      <3>3. CASE pc = "fetching"
        <4>1. thread # NoUrl
          BY <3>3 DEF IInv, Tooled
        <4> QED BY <3>1, <3>3, <4>1, Types
      <3>4. CASE pc \in {"asking", "repairing", "commit"}
        BY <3>1, <3>4, Types
      <3> QED BY <1>1, <3>2, <3>3, <3>4
    <2>4. Tooled'
      BY <2>1, <2>3 DEF Tooled, MeasuredOnce, evidenceVars
    <2>5. Bounded' /\ Fetched' /\ Contained' /\ Honest'
      BY <1>1, <2>1 DEF Bounded, Fetched, Contained, Honest
    <2> QED BY <2>2, <2>4, <2>5 DEF IInv
  <1> QED BY <1>2, <1>3, <1>4, <1>5 DEF Commit

\* In the beginning nothing is known but the inputs.
LEMMA InvInit == Init => IInv
  <1> SUFFICES ASSUME Init PROVE IInv
    OBVIOUS
  <1>1. loop \in Loop /\ loop.rejected = 0
    BY DEF Init, Loop
  <1>2. draft \in Draft
    BY DEF Init, NoDraft, Draft
  <1>3. spent \in [Kinds -> Nat] /\ asked \in [Urls -> Nat] /\ cache \in [Urls -> Pages]
        /\ (\A u \in Urls : asked[u] = 0) /\ \A k \in Kinds : spent[k] = 0
    BY DEF Init, Pages
  <1>4. \A k \in Kinds : Limit[k] \in Nat
    BY BoundsAssumption
  <1>5. /\ pc = "turn" /\ outcome = "none" /\ thread = NoUrl /\ owed = 0 /\ outage = FALSE
        /\ denied = FALSE /\ known \subseteq Urls /\ seen = {} /\ saved = {}
    BY UrlsAssumption DEF Init
  <1>6. TypeOK
    <2>1. outage \in BOOLEAN /\ denied \in BOOLEAN
      BY <1>5
    <2>2. loop.rejected <= CorrectionLimit + 1
      BY <1>1 DEF CorrectionLimit
    <2>3. (\A k \in Kinds : spent[k] \in 0..Limit[k]) /\ \A u \in Urls : asked[u] \in 0..1
      BY <1>3, <1>4
    <2>4. thread \in Urls \cup {NoUrl} /\ outcome \in Outcomes
      BY <1>5 DEF Outcomes
    <2> QED BY <1>1, <1>2, <1>3, <1>5, <2>1, <2>2, <2>3, <2>4 DEF TypeOK
  <1>7. Typed
    BY <1>1, <1>3, <1>5, <1>6 DEF Typed, Places, CorrectionLimit
  <1> QED BY <1>3, <1>5, <1>7 DEF IInv, Tooled, MeasuredOnce, Bounded, Fetched, Contained, Honest

\* Every step keeps the invariant.
LEMMA InvStep == IInv /\ [Next]_vars => IInv'
  <1> SUFFICES ASSUME IInv, [Next]_vars PROVE IInv'
    OBVIOUS
  <1>1. CASE UNCHANGED vars
    <2>1. Typed'
      BY <1>1 DEF vars, evidenceVars, IInv, Typed, TypeOK
    <2>2. Tooled' /\ Bounded' /\ Fetched' /\ Contained'
      BY <1>1 DEF vars, evidenceVars, IInv, Tooled, MeasuredOnce, Bounded, Fetched, Contained
    <2>3. Honest'
      BY <1>1 DEF vars, evidenceVars, IInv, Honest, Researched, Positions, Cited
    <2> QED BY <2>1, <2>2, <2>3 DEF IInv
  <1>2. CASE BeginTurn \/ Ask \/ Responds \/ AskFails
    BY <1>2, AskSteps
  <1>3. CASE ToolCall
    BY <1>3, EmptyCalls, SearchCalls, FetchCalls, SaveCalls, FinishCalls DEF ToolCall
  <1>4. CASE Retrieval
    BY <1>4, SearchSteps, FetchSteps, ThreadSteps, PageSteps DEF Retrieval
  <1>5. CASE Evidence
    BY <1>5, EvaluationSteps, LastSteps DEF Evidence
  <1>6. CASE Cancel
    BY <1>6, LastSteps
  <1> QED BY <1>1, <1>2, <1>3, <1>4, <1>5, <1>6 DEF Next

-----------------------------------------------------------------------------
(* Theorems *)

\* In every reachable state what is owed, denied, suspended and kept is as the
\* place of the child says (RetrievalStrategy, ResearchBudget,
\* validate_account_evidence).
THEOREM Invariance == Spec => []IInv
  <1> QED BY InvInit, InvStep, PTL DEF Spec

\* No kind of request exceeds its limit, two corrections are given and no more,
\* and a page is fetched once (ResearchBudget, RetrievalStrategy.execute,
\* RetrievalService._cache).
THEOREM TypeCorrect == Spec => []TypeOK
  <1>1. IInv => TypeOK
    BY DEF IInv, Typed
  <1> QED BY <1>1, Invariance, PTL

\* What is committed with data is cited throughout from pages this stage has
\* fetched, a complete or partial result and an engagement signal have citations,
\* and no denial was swallowed (validate_account_evidence,
\* ResearchBudget.exhaustion).
THEOREM EndsAreHonest == Spec => []HonestEnd
  <1>1. IInv => HonestEnd
    BY DEF IInv, HonestEnd, Honest, Researched, Bounded
  <1> QED BY <1>1, Invariance, PTL

\* Every tool request is measured once, through denials, refusals and the late
\* end of a cancelled fetch (finish_tool_request, finish_cancelled).
THEOREM RequestsAreMeasuredOnce == Spec => []MeasuredOnce
  <1>1. IInv => MeasuredOnce
    BY DEF IInv, Tooled
  <1> QED BY <1>1, Invariance, PTL

\* After an outage no search leaves for the rest of the stage, and a loop that
\* gets nowhere without it does not blame the budget (RetrievalStrategy.execute).
THEOREM OutagesAreContained == Spec => OutageContained
  <1> DEFINE Excused == denied' \/ loop.turn > MaxTurns \/ loop.context > Allowance \/ pc = "repairing"
             Body == outage =>
                       /\ spent'["search"] = spent["search"]
                       /\ outcome = "none" /\ outcome' = "budget_exhausted" => Excused
  <1>1. ASSUME IInv, [Next]_vars PROVE Body
    <2> SUFFICES ASSUME outage PROVE Body
      OBVIOUS
    <2>1. pc \notin {"search", "searching"} /\ (pc # "over" => denied = FALSE)
      BY <1>1, Types DEF IInv, Contained
    <2>2. spent \in [Kinds -> Nat]
      BY <1>1 DEF IInv, Typed
    <2>3. ASSUME NEW kind \in {"llm", "fetch"}, Reserve(kind)
          PROVE  spent'["search"] = spent["search"]
      BY <2>2, <2>3 DEF Reserve, Kinds
    <2>4. ASSUME NEW error, error # "budget", pc # "over", Ends(error, denied)
          PROVE  outcome' # "budget_exhausted"
      BY <2>1, <2>4 DEF Ends, Classified
    <2>5. ASSUME NEW m, pc # "over", Denied(m) \/ Lost(m)
          PROVE  Body
      <3>1. CASE Denied(m)
        BY <3>1 DEF Denied
      <3>2. CASE Lost(m)
        BY <2>4, <2>5, <3>2 DEF Lost
      <3> QED BY <2>5, <3>1, <3>2
    <2>6. ASSUME NEW count, pc # "over", Rejects(count), UNCHANGED spent PROVE Body
      BY <2>4, <2>6 DEF Rejects
    <2>7. CASE UNCHANGED vars
      BY <2>7 DEF vars
    <2>8. CASE BeginTurn \/ Ask \/ Responds \/ AskFails
      <3>1. CASE BeginTurn
        BY <3>1 DEF BeginTurn
      <3>2. CASE Ask
        BY <2>3, <2>5, <3>2 DEF Ask
      <3>3. CASE Responds
        BY <3>3 DEF Responds
      <3>4. CASE AskFails
        BY <2>4, <3>4 DEF AskFails
      <3> QED BY <2>8, <3>1, <3>2, <3>3, <3>4
    <2>9. CASE ToolCall
      <3>1. CASE BadCall \/ \E s \in seen : RepeatedCall(s)
        BY <2>6, <3>1 DEF BadCall, RepeatedCall, Calls
      <3>2. ASSUME NEW q \in Queries, SearchCall(q) PROVE Body
        BY <3>2 DEF SearchCall
      <3>3. ASSUME NEW s \in Signatures, FetchCall(s) PROVE Body
        BY <2>6, <3>3 DEF FetchCall, Calls
      <3>4. ASSUME NEW u \in Urls, SaveCall(u) PROVE Body
        BY <2>5, <2>6, <3>4 DEF SaveCall, Calls
      <3>5. ASSUME NEW d, FinishCall(d) PROVE Body
        BY <2>4, <3>5 DEF FinishCall, Calls
      <3>6. CASE EndTurn
        BY <2>4, <3>6 DEF EndTurn
      <3> QED BY <2>9, <3>1, <3>2, <3>3, <3>4, <3>5, <3>6 DEF ToolCall
    <2>10. CASE Retrieval
      <3>1. ASSUME NEW page, NEW links, FetchReturns(page, links) PROVE Body
        BY <3>1 DEF FetchReturns, Observes
      <3>2. CASE FetchCached \/ FetchSend
        BY <2>3, <2>5, <3>2 DEF FetchCached, FetchSend, Observes
      <3>3. CASE Redirect \/ FetchReturnsLate
        BY <2>3, <3>3 DEF Redirect, FetchReturnsLate
      <3>4. ~ (SearchSend \/ SearchFails \/ SearchRefused \/ \E results : SearchFinds(results))
        BY <2>1 DEF SearchSend, SearchFails, SearchRefused, SearchFinds
      <3> QED BY <2>10, <3>1, <3>2, <3>3, <3>4 DEF Retrieval
    <2>11. CASE Evidence
      <3>1. CASE Validate \/ RepairGoesOn
        BY <3>1 DEF Validate, RepairGoesOn
      <3>2. CASE Repair
        BY <2>3, <2>5, <3>2 DEF Repair
      <3>3. CASE RepairFails
        BY <3>3 DEF RepairFails
      <3>4. CASE Commit
        BY <2>5, <3>4 DEF Commit
      <3>5. ASSUME NEW corrections, RepairAnswers(corrections) PROVE Body
        BY <3>5 DEF RepairAnswers
      <3> QED BY <2>11, <3>1, <3>2, <3>3, <3>4, <3>5 DEF Evidence
    <2>12. CASE Cancel
      BY <2>12 DEF Cancel
    <2> QED BY <1>1, <2>7, <2>8, <2>9, <2>10, <2>11, <2>12 DEF Next
  <1>2. IInv /\ [Next]_vars => [Body]_vars
    BY <1>1
  <1> HIDE DEF Body
  <1>3. Spec => [][Body]_vars
    BY <1>2, Invariance, PTL DEF Spec
  <1> QED BY <1>3, PTL DEF OutageContained, Body

=============================================================================
