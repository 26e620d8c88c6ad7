-------------------------- MODULE MC_SshSession --------------------------
(* SshSession with model values for the sessions.                          *)
EXTENDS SshSession

CONSTANTS s1, s2
=============================================================================
