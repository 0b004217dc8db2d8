-------------------------------- MODULE Sums --------------------------------
(***************************************************************************)
(* The sum of a function's values over a finite set: the operator that the *)
(* amounts of the other modules are added up with.                         *)
(***************************************************************************)
EXTENDS Integers, FiniteSets, FiniteSetsExt

SumOver(f, S) == MapThenSumSet(LAMBDA x : f[x], S)
=============================================================================
