-------------------------- MODULE MCServiceLauncher --------------------------
(* Two service files in one process. *)
EXTENDS ServiceLauncher
CONSTANTS c1, c2
=============================================================================
