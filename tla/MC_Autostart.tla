---------------------------- MODULE MC_Autostart ----------------------------
(* Three daemons, started by the user or by launchd: one to die and leave its *)
(* files, two to follow it; an enable and a disable, or two enables.          *)
EXTENDS Autostart, TLC
=============================================================================
