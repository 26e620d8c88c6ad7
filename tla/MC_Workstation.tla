-------------------------- MODULE MC_Workstation --------------------------
(* Workstation with two krd processes, kr and one krssh.                   *)
EXTENDS Workstation, TLC

CONSTANTS k1, k2, kr, krssh

MCEditors  == {kr, k1, k2}
MCVersions == {<<6, 7>>, <<7, 3>>}
KrdSymmetry == Permutations({k1, k2})
=============================================================================
