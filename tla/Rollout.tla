------------------------------- MODULE Rollout -------------------------------
(***************************************************************************)
(* What the distribution loops of setup.sh and setup-mesos.sh promise:     *)
(* the nodes that were reached go through the same steps together.  No     *)
(* step begins before every reached node has been through the one before.  *)
(* A node that comes late may be given a step and lack an earlier one.     *)
(***************************************************************************)
EXTENDS Naturals

CONSTANTS Nodes, Steps

VARIABLES
    step,     \* 0 while nodes are being reached, then the step being given
    reached,  \* nodes that can be counted on
    past      \* past[n]: steps node n has been given, in this run or before

vars == <<step, reached, past>>

Init ==
    /\ step = 0
    /\ reached = {}
    /\ past = [n \in Nodes |-> {}]

Reach(n) ==
    /\ step = 0
    /\ reached' = reached \cup {n}
    /\ UNCHANGED <<step, past>>

Give(n) ==
    /\ step \in 1..Steps
    /\ past' = [past EXCEPT ![n] = @ \cup {step}]
    /\ UNCHANGED <<step, reached>>

Advance ==
    /\ step \in 0..Steps
    /\ step > 0 => \A n \in reached : step \in past[n]
    /\ step' = step + 1
    /\ UNCHANGED <<reached, past>>

Restart ==
    /\ step' = 0
    /\ reached' = {}
    /\ UNCHANGED past

Next == (\E n \in Nodes : Reach(n) \/ Give(n)) \/ Advance \/ Restart

Spec == Init /\ [][Next]_vars

=============================================================================
