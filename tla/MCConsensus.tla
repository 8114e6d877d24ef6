---------------------------- MODULE MCConsensus ----------------------------
EXTENDS Consensus

CONSTANTS v1, v2, v3, v4

(* v1 holds two of four votes: more than two thirds are v1 and another one.   *)
Three == {v1, v2, v3}
HeavyFirst == {S \in SUBSET Three : v1 \in S /\ Cardinality(S) >= 2}
Turn == [r \in 0 .. MaxRound |-> IF r = 0 THEN v2 ELSE v1]
Late == [n \in Three |-> IF n = v2 THEN 0 ELSE 2]
Line == [n \in Three |-> IF n = v1 THEN {v2, v3} ELSE {v1}]
All == [n \in Three |-> Three \ {n}]

(* Four validators of equal power: three of them are more than two thirds.    *)
Four == {v1, v2, v3, v4}
ThreeOfFour == {S \in SUBSET Four : Cardinality(S) >= 3}
Star == [n \in Four |-> IF n = v1 THEN Four \ {v1} ELSE {v1}]
Ample == [n \in Four |-> 9]

=============================================================================
