-------------------------- MODULE MCServiceControl --------------------------
(* A node whose service monit and an operator start and stop.  With six    *)
(* process identifiers no launch finds them used up.                       *)
EXTENDS ServiceControl

SixPids == 1..6
MonitAndOperator == {"monit", "operator"}
=============================================================================
