----------------------------- MODULE MCManager -----------------------------
(***************************************************************************)
(* Two cards, one of them with a remainder in both divisions by Kilo = 2.  *)
(***************************************************************************)
EXTENDS Manager

CONSTANTS a1, a2

MCAgents == {a1, a2}

OneAgentAtATime == {a1}

\* A pod with two links before one with a single link.
TwoAndOne == [p \in {1, 2} |-> 3 - p]

OneEach == [p \in {1, 2} |-> 1]

TwoCards == [g \in {0, 1} |-> IF g = 0 THEN 4 ELSE 11]
=============================================================================
