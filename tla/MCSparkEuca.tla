---------------------------- MODULE MCSparkEuca ----------------------------
(* Small clusters for TLC to check SparkEuca on.                           *)
EXTENDS SparkEuca

CONSTANTS o1, o2

OneOperator == {o1}
TwoOperators == {o1, o2}
AllCommands == Modes
LaunchAndDestroy == {"launch", "destroy"}
LaunchAndStop == {"launch", "stop"}
TwoIds == 1..2
FourIds == 1..4
FiveIds == 1..5
SixIds == 1..6
=============================================================================
