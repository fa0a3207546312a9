------------------------------- MODULE MCSync -------------------------------
(***************************************************************************)
(* FileSync for TLC.                                                       *)
(***************************************************************************)
EXTENDS FileSync

T == INSTANCE TLC

CONSTANTS c1, c2, p1, p2

\* The server's process is not started again here, so no line is cut.
MCCut == [p \in Path |-> {}]

\* Nothing tells one client from another; all hold the same files at the start.
MCSymmetry == T!Permutations(Client)
=============================================================================
