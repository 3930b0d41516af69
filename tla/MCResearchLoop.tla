--------------------------- MODULE MCResearchLoop ---------------------------
(* Small instances of ResearchLoop for TLC. *)
EXTENDS ResearchLoop, TLC

CONSTANTS u1, u2

TwoUrls == {u1, u2}
FirstUrl == {u1}

\* Attempts allowed of each kind.
Limits == [llm |-> 3, search |-> 2, fetch |-> 2]

=============================================================================
