-------------------------- MODULE MCAccountPipeline --------------------------
(* Small instances of AccountPipeline for TLC. *)
EXTENDS AccountPipeline, TLC

CONSTANTS a1, a2, d1, l1, p1, p2, k1, n1, t1, t2, i1, i2, g1, x1

\* Two descriptions of one company, with its page and without.
Descriptions == {a1, a2}
DomainOfAll == a1 :> d1 @@ a2 :> d1
LinkOfAll == a1 :> l1 @@ a2 :> None

\* One person with an e-mail and the same one without.
Persons == {p1, p2}
TokenOfAll == p1 :> k1 @@ p2 :> None
NameOfAll == p1 :> n1 @@ p2 :> n1

\* Two ICPs that differ by name only.
TwoIcps == {i1, i2}
TargetOfAll == i1 :> g1 @@ i2 :> g1

\* The same company, known by its page only: while it lacks the domain, a2 is another.
OneStranger == {[id |-> <<"x", x1>>, domains |-> {}, links |-> {l1}]}

=============================================================================
