--------------------------- MODULE MC_Transport ---------------------------
(* Transport with model values for the messages and the readers.           *)
EXTENDS Transport

CONSTANTS o1, i1, g1, d1, d2
=============================================================================
