-------------------------------- MODULE Sums --------------------------------
(***************************************************************************)
(* The sum of a function's values over a finite set of its arguments.      *)
(***************************************************************************)
EXTENDS Integers, FiniteSets, Functions

SumOver(f, S) == FoldFunctionOnSet(+, 0, f, S)

=============================================================================
