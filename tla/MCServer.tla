------------------------------ MODULE MCServer ------------------------------
(***************************************************************************)
(* ServerAlone for TLC.                                                    *)
(***************************************************************************)
EXTENDS ServerAlone

T == INSTANCE TLC

CONSTANTS c1, c2, p1, p2

\* p2 begins with p1, or no path with another one.
MCCut == [p \in Path |-> IF p = p2 THEN {p1} ELSE {}]
MCUncut == [p \in Path |-> {}]

\* Nothing tells the clients apart, or uncut paths.
MCSymmetry == T!Permutations({c1, c2}) \cup T!Permutations({p1, p2})
=============================================================================
