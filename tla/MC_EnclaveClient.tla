------------------------- MODULE MC_EnclaveClient -------------------------
(* EnclaveClient with model values for phones and requests.                *)
EXTENDS EnclaveClient, TLC

CONSTANTS k1, k2, r1, r2

OnePhone    == {k1}
TwoPhones   == {k1, k2}
OneRequest  == {r1}
TwoRequests == {r1, r2}
PhoneSymmetry == Permutations(TwoPhones)
=============================================================================
