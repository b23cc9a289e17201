------------------------ MODULE MCSetupDistribution ------------------------
(* Small clusters for TLC to check SetupDistribution on.                   *)
EXTENDS SetupDistribution

CONSTANTS s1, s2, m2, z1

TwoSlaves == {s1, s2}
SecondMaster == {m2}
OneZoo == {z1}
=============================================================================
