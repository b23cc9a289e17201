---------------------------- MODULE MCMesosEuca ----------------------------
(* A small cluster for TLC to check MesosEuca on.                          *)
EXTENDS MesosEuca

FiveIds == 1..5
OneToThree == 1..3
=============================================================================
