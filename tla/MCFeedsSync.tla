---------------------------- MODULE MCFeedsSync ----------------------------
(* Two posts: one around both places, one around the first only.           *)
EXTENDS FeedsSync

CONSTANTS k1, k2, here, there, q1

MCKeys == {k1, k2}
MCPlaces == {here, there}
MCAround == [p \in MCPlaces |-> IF p = here THEN {k1, k2} ELSE {k1}]
MCQueries == {q1}

(* The part of it in which a deletion is followed.                         *)
MCOneKey == {k1}
MCOneAround == [p \in MCPlaces |-> IF p = here THEN {k1} ELSE {}]
=============================================================================
