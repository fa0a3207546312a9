----------------------------- MODULE WallClock -----------------------------
(***************************************************************************)
(* The wall clock in whole seconds: what time() returns, what the server   *)
(* answers to GetTime and what a file system stamps a written file with.   *)
(* The clocks of all machines agree.                                       *)
(***************************************************************************)
EXTENDS Naturals

CONSTANT MaxTime    \* bound: the last second the clock reaches

ASSUME MaxTimeAssumption == MaxTime \in Nat

VARIABLE now

TimePasses == now < MaxTime /\ now' = now + 1
=============================================================================
