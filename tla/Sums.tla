-------------------------------- MODULE Sums --------------------------------
(***************************************************************************)
(* Sums of the values of a function.                                       *)
(***************************************************************************)
EXTENDS FiniteSetsExt

SumOver(f, S) == MapThenSumSet(LAMBDA x : f[x], S)
=============================================================================
