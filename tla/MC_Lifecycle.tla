---------------------------- MODULE MC_Lifecycle ----------------------------
(* Two daemons that start at the same time.                                   *)
EXTENDS DaemonLifecycle, TLC
=============================================================================
