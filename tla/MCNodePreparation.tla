-------------------------- MODULE MCNodePreparation --------------------------
(* A small cluster with volumes for TLC to check NodePreparation on.       *)
EXTENDS NodePreparation

CONSTANTS s1, s2

TwoSlaves == {s1, s2}
=============================================================================
