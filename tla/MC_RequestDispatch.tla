------------------------ MODULE MC_RequestDispatch ------------------------
(* RequestDispatch with model values for the requests.                     *)
EXTENDS RequestDispatch

CONSTANTS r1, r2

OneRequest  == {r1}
TwoRequests == {r1, r2}
RequestSymmetry == Permutations(TwoRequests)
=============================================================================
