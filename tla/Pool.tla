-------------------------------- MODULE Pool --------------------------------
(***************************************************************************)
(* What a launcher promises of the instances of a group: a launch claims   *)
(* the group while it is empty and no other launch is due to fill it; from *)
(* then on it may run as many instances as were asked for in all, also     *)
(* when some of them are lost meanwhile, and nothing else fills the group. *)
(***************************************************************************)
EXTENDS Integers, FiniteSets

CONSTANTS
    Ids,    \* instances
    Sizes   \* numbers of instances a launch may be asked for

VARIABLES
    members,  \* the active instances of the group
    due       \* how many instances the launch that claimed it has yet to run

vars == <<members, due>>

Init == members = {} /\ due = 0

Claim == members = {} /\ due = 0 /\ due' \in Sizes /\ UNCHANGED members

Grow ==
    /\ members \subseteq members' /\ members' \subseteq Ids
    /\ due' = due - Cardinality(members' \ members)
    /\ due' >= 0

Shrink == members' \subseteq members /\ UNCHANGED due

GiveUp == due' = 0 /\ UNCHANGED members

Next == Shrink \/ Claim \/ Grow \/ GiveUp

Spec == Init /\ [][Next]_vars

=============================================================================
