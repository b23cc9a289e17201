--------------------------- MODULE MesosEucaProofs ---------------------------
(***************************************************************************)
(* Theorems about MesosEuca for both launchers and every number of         *)
(* instances, slaves, zones, masters and launches, whatever is interrupted *)
(* or fails.                                                               *)
(***************************************************************************)
EXTENDS MesosEuca, FiniteSetTheorems, TLAPS

CloudType ==
    /\ launcher \in {"mesos", "emi"}
    /\ groups \subseteq Groups
    /\ rules \in [Groups -> SUBSET RuleKinds]
    /\ group \in [Ids -> Groups]
    /\ state \in [Ids -> States]
    /\ launch \in [Ids -> Nat]
    /\ launches \in Nat

GroupPCs == {"groups", "authorize", "ports"}
LaunchPCs == GroupPCs \cup {"check", "image", "run_slaves", "run_masters",
                            "run_zoos", "attach"}
RunPCs == {"run_slaves", "run_masters", "run_zoos"}
ReadyPCs == {"attach", "key_master", "key_nodes", "packages", "deploy", "script",
             "done"}
SetupPCs == RunPCs \cup {"start", "wait"} \cup ReadyPCs
DestroyPCs == {"terminate", "revoke", "delete"}
SetupModes == {"launch", "resume", "start"}

\* The loops over the groups stay within the list.
InBounds == op.pc \in GroupPCs => op.n \in 1..Len(GroupsOf)

\* The types, with what they need.
TypeInv == CloudType /\ op \in Invocation /\ InBounds

\* Each launcher has its own groups.
Located == \A i \in Ids : IsActive(i) => (launcher = "emi" <=> group[i] = "group")

\* The program points that belong to one action of the command line.  The setup of
\* mesos_euca_emi.py comes after a launch only: start raises, and resume finds no
\* master.
Routed ==
    /\ op.pc \in LaunchPCs => op.mode = "launch"
    /\ op.pc = "find" => op.mode # "launch"
    /\ op.pc \in {"start", "wait"} => op.mode \in {"launch", "start"}
    /\ op.pc = "stop" => op.mode = "stop"
    /\ op.pc \in DestroyPCs => op.mode = "destroy"
    /\ op.mode = "destroy" => op.pc \in DestroyPCs \cup {"find", "done"}
    /\ launcher = "emi" /\ op.pc \in SetupPCs =>
           \/ op.mode \notin {"resume", "start"}
           \/ op.pc = "key_master" /\ op.masters = {}

\* What the check of launch_cluster established stays true until the runs.
SafeLaunch ==
    /\ op.pc = "image" => Existing("slaves") = {} /\ Existing("group") = {}
    /\ op.pc \in {"image", "run_slaves", "run_masters"} =>
           Existing("master") \subseteq op.masters
    /\ op.pc = "run_masters" => op.masters = {}
    /\ op.pc \in LaunchPCs \ {"attach"} => op.zoos = {}
    /\ op.pc = "start" /\ op.mode = "launch" => op.zoos = {}
    /\ op.pc \in RunPCs \cup {"start"} /\ op.mode = "launch" =>
           \A g \in {"slaves", "group"} : \A i \in Existing(g) : launch[i] = op.launch

\* The invocation knows all instances but ZooKeeper nodes in their own group.
SafeSetup ==
    /\ op.mode \in SetupModes /\ op.pc \in SetupPCs
       /\ (launcher = "emi" => op.mode = "launch") =>
           \A g \in Groups \ {"zoo"} : Existing(g) \subseteq Nodes
    /\ op.pc = "wait" =>
           /\ op.n > 1 => Settled(op.masters)
           /\ op.n > 2 => Settled(op.slaves)
    /\ op.mode \in {"launch", "start"} /\ op.pc \in ReadyPCs \ {"done"} =>
           Settled(Nodes)

\* The nodes still to terminate, and the groups still to delete, are all there are.
SafeDestroy ==
    op.mode = "destroy" =>
        /\ op.pc = "terminate" => \A g \in Groups : Existing(g) \subseteq op.todo
        /\ op.pc \in {"revoke", "delete", "done"} => \A g \in Groups : Existing(g) = {}
        /\ op.pc = "revoke" \/ (op.pc = "delete" /\ op.success) =>
               groups \cap GroupNames \subseteq op.names
        /\ op.pc = "done" /\ op.success => groups \cap GroupNames = {}

\* The inductive invariant.
IInv == TypeInv /\ Located /\ OneLaunch /\ Routed /\ SafeLaunch /\ SafeSetup
        /\ SafeDestroy

-----------------------------------------------------------------------------
(* Lists and local variables.                                              *)

\* The first node of a list that is not empty is in the list.
LEMMA FirstIsMember ==
    ASSUME NEW S, S # {}
    PROVE  First(S) \in S
BY DEF First

\* So is the next node of a loop.
LEMMA NextOfIsMember ==
    ASSUME NEW S, NEW T, S # {}
    PROVE  NextOf(S, T) \in S
BY FirstIsMember DEF NextOf

\* The types of the local variables.
LEMMA OpFields ==
    ASSUME op \in Invocation
    PROVE  /\ op.pc \in PCs
           /\ op.mode \in Modes
           /\ op.ft \in Nat
           /\ op.n \in Nat
           /\ op.masters \subseteq Ids
           /\ op.slaves \subseteq Ids
           /\ op.zoos \subseteq Ids
           /\ op.todo \subseteq Ids
           /\ op.names \subseteq Groups
           /\ op.success \in BOOLEAN
           /\ op.launch \in Nat
BY DEF Invocation

\* Idle is an invocation.
LEMMA IdleIsInvocation == Idle \in Invocation
BY DEF Idle, Invocation, PCs, Modes

\* What a step of control keeps.
KeepsRest ==
    /\ op'.mode = op.mode
    /\ op'.ft = op.ft
    /\ op'.masters = op.masters
    /\ op'.slaves = op.slaves
    /\ op'.zoos = op.zoos
    /\ op'.todo = op.todo
    /\ op'.names = op.names
    /\ op'.success = op.success
    /\ op'.launch = op.launch

\* A jump changes two local variables.
LEMMA GotoFields ==
    ASSUME op \in Invocation, NEW pc \in PCs, Goto(pc)
    PROVE  op' \in Invocation /\ op'.pc = pc /\ op'.n = 1 /\ KeepsRest
BY DEF Goto, Invocation, KeepsRest

\* The groups a launcher makes are groups.
LEMMA GroupsOfLauncher ==
    ASSUME launcher \in {"mesos", "emi"}, NEW n \in 1..Len(GroupsOf)
    PROVE  GroupsOf[n] \in Groups
BY DEF GroupsOf, MesosGroups, EmiGroups, Groups

\* A list of groups is not empty.
LEMMA GroupsOfNotEmpty == Len(GroupsOf) \in Nat \ {0}
BY DEF GroupsOf, MesosGroups, EmiGroups

\* The loop over the groups goes on or is left.
LEMMA NextGroupFields ==
    ASSUME op \in Invocation, NEW loop \in PCs, NEW pc \in PCs, pc \notin GroupPCs,
           op.n \in 1..Len(GroupsOf), NextGroup(loop, pc)
    PROVE  /\ op' \in Invocation
           /\ KeepsRest
           /\ op'.pc \in {loop, pc}
           /\ op'.pc \in GroupPCs => op'.n \in 1..Len(GroupsOf)
<1> USE OpFields, GroupsOfNotEmpty
<1>1. CASE op.n < Len(GroupsOf)
  <2>1. op' = [op EXCEPT !.n = op.n + 1, !.pc = loop]
    BY <1>1 DEF NextGroup
  <2>2. op.n + 1 \in Nat /\ op.n + 1 \in 1..Len(GroupsOf)
    BY <1>1
  <2> QED
    BY <2>1, <2>2 DEF Invocation, KeepsRest
<1>2. CASE ~(op.n < Len(GroupsOf))
  BY <1>2, GotoFields DEF NextGroup
<1> QED
  BY <1>1, <1>2

-----------------------------------------------------------------------------
(* Steps that leave the cloud alone.                                       *)

Quiet == UNCHANGED <<launcher, cloudVars, launches>>

\* What is said of the cloud alone stays true.
LEMMA QuietKeepsCloud ==
    ASSUME CloudType, Quiet
    PROVE  /\ CloudType'
           /\ UNCHANGED <<launcher, groups, rules, group, state, launch, launches>>
           /\ \A g : Existing(g)' = Existing(g)
           /\ Located => Located'
           /\ OneLaunch => OneLaunch'
<1>1. UNCHANGED <<launcher, groups, rules, group, state, launch, launches>>
  BY DEF Quiet, cloudVars, instanceVars
<1>2. \A g : Existing(g)' = Existing(g)
  BY <1>1 DEF Existing, IsActive
<1>3. CloudType' /\ (Located => Located')
  BY <1>1 DEF CloudType, Located, IsActive
<1>4. OneLaunch => OneLaunch'
  BY <1>1, <1>2 DEF OneLaunch
<1> QED
  BY <1>1, <1>2, <1>3, <1>4

\* What remains to be shown of a quiet step.
LocalInv == op \in Invocation /\ InBounds /\ Routed /\ SafeLaunch /\ SafeSetup
            /\ SafeDestroy

LEMMA QuietIsSafe ==
    ASSUME IInv, Quiet, LocalInv'
    PROVE  IInv'
BY QuietKeepsCloud DEF IInv, TypeInv, LocalInv

\* The end of an invocation.
LEMMA RaisingIsSafe ==
    ASSUME IInv, op' = Idle, Quiet
    PROVE  IInv'
<1>1. op' \in Invocation /\ op'.pc = "idle" /\ op'.mode = "stop"
  BY IdleIsInvocation DEF Idle
<1>2. LocalInv'
  BY <1>1 DEF LocalInv, InBounds, Routed, SafeLaunch, SafeSetup, SafeDestroy,
      GroupPCs, LaunchPCs, RunPCs, ReadyPCs, SetupPCs, DestroyPCs, SetupModes
<1> QED
  BY <1>2, QuietIsSafe

\* An invocation that begins.
LEMMA BeginIsSafe ==
    ASSUME IInv, NEW mode \in Modes, NEW ft \in MastersAsked, Begin(mode, ft)
    PROVE  IInv'
<1>1. /\ op' \in Invocation
      /\ op'.mode = mode /\ op'.n = 1 /\ op'.zoos = {}
      /\ op'.pc = IF mode = "launch" THEN "groups" ELSE "find"
  <2>1. launches + 1 \in Nat /\ ft \in Nat /\ {"groups", "find"} \subseteq PCs
    BY MesosAssumption DEF IInv, TypeInv, CloudType, PCs
  <2>2. CASE mode = "launch"
    <3>1. op' = [Idle EXCEPT !.pc = "groups", !.mode = mode, !.ft = ft,
                             !.launch = launches + 1]
      BY <2>2 DEF Begin
    <3> QED
      BY <2>1, <2>2, <3>1, IdleIsInvocation DEF Idle, Invocation
  <2>3. CASE mode # "launch"
    <3>1. op' = [Idle EXCEPT !.pc = "find", !.mode = mode]
      BY <2>3 DEF Begin
    <3> QED
      BY <2>1, <2>3, <3>1, IdleIsInvocation DEF Idle, Invocation
  <2> QED
    BY <2>2, <2>3
<1>2. UNCHANGED <<launcher, groups, rules, group, state, launch>>
      /\ launches' \in Nat
  BY DEF Begin, cloudVars, instanceVars, IInv, TypeInv, CloudType
<1>3. \A g : Existing(g)' = Existing(g)
  BY <1>2 DEF Existing, IsActive
<1>4. CloudType' /\ Located' /\ OneLaunch'
  BY <1>2, <1>3 DEF IInv, TypeInv, CloudType, Located, IsActive, OneLaunch
<1>5. InBounds' /\ Routed' /\ SafeLaunch' /\ SafeSetup' /\ SafeDestroy'
  BY <1>1, <1>2, GroupsOfNotEmpty
     DEF InBounds, Routed, SafeLaunch, SafeSetup, SafeDestroy, GroupsOf,
      GroupPCs, LaunchPCs, RunPCs, ReadyPCs, SetupPCs, DestroyPCs, SetupModes
<1> QED
  BY <1>1, <1>4, <1>5 DEF IInv, TypeInv

\* What a step of a loop over nodes keeps.
KeepsLists ==
    /\ op'.mode = op.mode
    /\ op'.masters = op.masters
    /\ op'.slaves = op.slaves
    /\ op'.zoos = op.zoos
    /\ op'.launch = op.launch

\* The steps from the attachment of volumes to the setup script.
LEMMA ReadyStepIsSafe ==
    ASSUME IInv, Quiet, op' \in Invocation, KeepsLists,
           op.pc \in ReadyPCs \ {"done"}, op'.pc \in ReadyPCs,
           op.pc = "key_master" => op.masters # {},
           op'.pc = "attach" => op.pc = "attach",
           op'.pc = "key_master" => op.pc = "attach"
    PROVE  IInv'
<1> USE DEF IInv, KeepsLists
<1>1. /\ UNCHANGED <<launcher, state>>
      /\ \A g : Existing(g)' = Existing(g)
  BY QuietKeepsCloud DEF TypeInv
<1>2. Routed' /\ InBounds'
  BY <1>1 DEF Routed, InBounds, GroupPCs, LaunchPCs, RunPCs, ReadyPCs, SetupPCs,
      DestroyPCs
<1>3. SafeLaunch' /\ SafeDestroy'
  BY <1>1 DEF Routed, SafeLaunch, SafeDestroy, GroupPCs, LaunchPCs, RunPCs, ReadyPCs,
      SetupPCs, DestroyPCs
<1>4. SafeSetup'
  BY <1>1 DEF Routed, SafeSetup, RunPCs, ReadyPCs, SetupPCs, SetupModes, Nodes, Settled
<1> QED
  BY <1>2, <1>3, <1>4, QuietIsSafe DEF LocalInv

\* A jump within these steps.
LEMMA ReadyJumpIsSafe ==
    ASSUME IInv, Quiet, NEW pc \in ReadyPCs, Goto(pc),
           op.pc \in ReadyPCs \ {"done"}, op.pc # "key_master",
           pc # "attach",
           pc = "key_master" => op.pc = "attach"
    PROVE  IInv'
<1>1. pc \in PCs
  BY DEF ReadyPCs, PCs
<1> QED
  BY <1>1, GotoFields, ReadyStepIsSafe DEF IInv, TypeInv, KeepsRest, KeepsLists

\* attach_volumes and setup_cluster.
LEMMA SetupStepIsSafe ==
    ASSUME IInv,
           \/ AttachVolume \/ VolumesAttached \/ KeyMaster \/ KeyNode \/ NodesKeyed
           \/ InstallPackages \/ CopyRepository \/ DeployMesosFiles
           \/ DeployEmiFiles \/ RunSetupScript
    PROVE  IInv'
<1> USE DEF IInv, TypeInv
<1>1. Quiet
  BY DEF Quiet, AttachVolume, VolumesAttached, KeyMaster, KeyNode, NodesKeyed,
      InstallPackages, CopyRepository, DeployMesosFiles, DeployEmiFiles, Deploys,
      RunSetupScript, Raises
<1>2. SUFFICES ASSUME op' # Idle
      PROVE IInv'
  BY <1>1, RaisingIsSafe
<1>3. CASE AttachVolume
  <2>1. PICK i : op.pc = "attach" /\ op' = [op EXCEPT !.todo = @ \ {i}]
    BY <1>2, <1>3 DEF AttachVolume, Raises
  <2>2. op' \in Invocation /\ op'.pc = "attach" /\ KeepsLists
    BY <2>1 DEF Invocation, KeepsLists
  <2> QED
    BY <1>1, <2>1, <2>2, ReadyStepIsSafe DEF ReadyPCs
<1>4. CASE KeyMaster
  <2>1. /\ op.pc = "key_master" /\ op.masters # {}
        /\ op' = [op EXCEPT !.todo = KeyedWith, !.pc = "key_nodes"]
    BY <1>2, <1>4 DEF KeyMaster, Raises
  <2>2. KeyedWith \subseteq Ids
    BY OpFields DEF KeyedWith, Nodes
  <2>3. op' \in Invocation /\ op'.pc = "key_nodes" /\ KeepsLists
    BY <2>1, <2>2 DEF Invocation, KeepsLists, PCs
  <2> QED
    BY <1>1, <2>1, <2>3, ReadyStepIsSafe DEF ReadyPCs
<1>5. CASE KeyNode
  <2>1. PICK i : op.pc = "key_nodes" /\ op' = [op EXCEPT !.todo = @ \ {i}]
    BY <1>2, <1>5 DEF KeyNode, Raises
  <2>2. op' \in Invocation /\ op'.pc = "key_nodes" /\ KeepsLists
    BY <2>1 DEF Invocation, KeepsLists
  <2> QED
    BY <1>1, <2>1, <2>2, ReadyStepIsSafe DEF ReadyPCs
<1>6. CASE VolumesAttached
  BY <1>1, <1>6, ReadyJumpIsSafe DEF VolumesAttached, ReadyPCs
<1>7. CASE NodesKeyed
  BY <1>1, <1>7, ReadyJumpIsSafe DEF NodesKeyed, ReadyPCs
<1>8. CASE InstallPackages \/ CopyRepository
  BY <1>1, <1>2, <1>8, ReadyJumpIsSafe
     DEF InstallPackages, CopyRepository, Raises, ReadyPCs
<1>9. CASE DeployMesosFiles \/ DeployEmiFiles
  BY <1>1, <1>2, <1>9, ReadyJumpIsSafe
     DEF DeployMesosFiles, DeployEmiFiles, Deploys, Raises, ReadyPCs
<1>10. CASE RunSetupScript
  BY <1>1, <1>2, <1>10, ReadyJumpIsSafe DEF RunSetupScript, ReadyPCs
<1> QED
  BY <1>3, <1>4, <1>5, <1>6, <1>7, <1>8, <1>9, <1>10

\* wait_for_cluster, and the step to it.
LEMMA WaitStepIsSafe ==
    ASSUME IInv, Started \/ \E volumes \in BOOLEAN : WaitForCluster(volumes)
    PROVE  IInv'
<1> USE DEF IInv, TypeInv
<1>1. Quiet
  BY DEF Quiet, Started, WaitForCluster
<1>2. /\ UNCHANGED <<launcher, state, launch>>
      /\ \A g : Existing(g)' = Existing(g)
  BY <1>1, QuietKeepsCloud
<1>3. op.pc \in {"start", "wait"} /\ op.mode \in {"launch", "start"} /\ op.n \in Nat
  BY OpFields DEF Routed, Started, WaitForCluster
<1> DEFINE FromStart == /\ op.pc = "start" /\ op'.n = 1
                        /\ op.mode = "launch" => op'.pc = "run_zoos"
                        /\ op.mode = "start" => op'.pc = "wait"
           Waiting   == /\ op.pc = "wait" /\ op'.pc = "wait"
                        /\ op'.n = op.n + 1 /\ op.n < 3 /\ Settled(WaitedFor(op.n))
           Waited    == /\ op.pc = "wait" /\ op.n >= 3 /\ Settled(op.zoos)
                        /\ op.mode = "launch" => op'.pc = "attach"
                        /\ op.mode = "start" => op'.pc = "packages"
<1>4. op' \in Invocation /\ KeepsLists /\ (FromStart \/ Waiting \/ Waited)
  <2>1. CASE Started
    <3>1. "run_zoos" \in PCs /\ "wait" \in PCs
      BY DEF PCs
    <3> QED
      BY <1>3, <2>1, <3>1, GotoFields DEF Started, KeepsRest, KeepsLists
  <2>2. ASSUME NEW volumes \in BOOLEAN, WaitForCluster(volumes), op.n < 3
        PROVE  op' \in Invocation /\ KeepsLists /\ Waiting
    <3>1. op' = [op EXCEPT !.n = op.n + 1]
      BY <2>2 DEF WaitForCluster
    <3>2. op' \in Invocation /\ KeepsLists /\ op'.pc = op.pc /\ op'.n = op.n + 1
      BY <1>3, <3>1 DEF Invocation, KeepsLists
    <3> QED
      BY <2>2, <3>2 DEF WaitForCluster
  <2>3. ASSUME NEW volumes \in BOOLEAN, WaitForCluster(volumes), ~(op.n < 3)
        PROVE  op' \in Invocation /\ KeepsLists /\ Waited
    <3> DEFINE todo == IF op.mode = "launch" /\ volumes
                       THEN op.masters \cup op.slaves ELSE {}
               next == IF op.mode = "launch" THEN "attach" ELSE "packages"
    <3>1. op' = [op EXCEPT !.n = 1, !.todo = todo, !.pc = next]
      BY <2>3 DEF WaitForCluster
    <3>2. todo \in SUBSET Ids /\ next \in PCs
      BY OpFields DEF PCs
    <3> HIDE DEF todo, next
    <3>3. op' \in Invocation /\ KeepsLists /\ op'.pc = next
      BY <3>1, <3>2 DEF Invocation, KeepsLists
    <3>4. op.n >= 3 /\ Settled(op.zoos)
      <4>1. op.n >= 3
        BY <1>3, <2>3
      <4>2. WaitedFor(op.n) = op.zoos
        BY <4>1 DEF WaitedFor
      <4>3. Settled(WaitedFor(op.n))
        BY <2>3 DEF WaitForCluster
      <4> QED
        BY <4>1, <4>2, <4>3
    <3> QED
      BY <2>3, <3>3, <3>4 DEF WaitForCluster, next
  <2> QED
    BY <2>1, <2>2, <2>3
<1>5. Routed' /\ InBounds'
  BY <1>2, <1>3, <1>4 DEF KeepsLists, Routed, InBounds, GroupPCs, LaunchPCs, RunPCs,
      ReadyPCs, SetupPCs, DestroyPCs
<1>6. SafeLaunch' /\ SafeDestroy'
  BY <1>2, <1>3, <1>4 DEF KeepsLists, SafeLaunch, SafeDestroy, LaunchPCs, GroupPCs,
      RunPCs
<1>7. SafeSetup'
  <2>1. Waiting =>
            /\ op'.n > 1 => Settled(op.masters)
            /\ op'.n > 2 => Settled(op.slaves)
    BY <1>3 DEF SafeSetup, WaitedFor
  <2>2. Waited => Settled(Nodes)
    BY <1>3 DEF SafeSetup, Settled, Nodes
  <2>3. op.mode \in SetupModes /\ op.pc \in SetupPCs /\ op'.mode = op.mode
        /\ op'.pc # "done"
    BY <1>3, <1>4 DEF KeepsLists, SetupModes, SetupPCs
  <2>4. Settled(Nodes)' = Settled(Nodes) /\ Nodes' = Nodes
        /\ Settled(op.masters)' = Settled(op.masters)
        /\ Settled(op.slaves)' = Settled(op.slaves)
    BY <1>2, <1>4 DEF KeepsLists, Settled, Nodes
  <2>5. op'.pc \in ReadyPCs => Settled(Nodes)'
    BY <1>3, <1>4, <2>2, <2>4 DEF ReadyPCs
  <2>6. op'.pc = "wait" => /\ op'.n > 1 => Settled(op.masters)'
                           /\ op'.n > 2 => Settled(op.slaves)'
    BY <1>3, <1>4, <2>1, <2>4
  <2>7. (launcher = "emi" => op.mode = "launch") =>
            \A g \in Groups \ {"zoo"} : Existing(g)' \subseteq Nodes'
    BY <1>2, <2>3, <2>4 DEF SafeSetup
  <2> QED
    BY <1>2, <2>3, <2>5, <2>6, <2>7 DEF SafeSetup
<1> QED
  BY <1>1, <1>4, <1>5, <1>6, <1>7, QuietIsSafe DEF LocalInv

\* The check of launch_cluster and the images.
LEMMA CheckStepIsSafe ==
    ASSUME IInv, ResolveImages \/ \E use \in BOOLEAN : CheckExisting(use)
    PROVE  IInv'
<1> USE DEF IInv, TypeInv
<1>1. Quiet
  BY DEF Quiet, ResolveImages, CheckExisting, Raises
<1>2. SUFFICES ASSUME op' # Idle
      PROVE IInv'
  BY <1>1, RaisingIsSafe
<1>3. /\ UNCHANGED <<launcher, state>>
      /\ \A g : Existing(g)' = Existing(g)
  BY <1>1, QuietKeepsCloud
<1>4. CASE ResolveImages
  <2>1. op.pc = "image" /\ op' = [op EXCEPT !.pc = "run_slaves", !.n = 0]
    BY <1>2, <1>4 DEF ResolveImages
  <2>2. op' \in Invocation /\ op'.pc = "run_slaves" /\ KeepsLists
    BY <2>1 DEF Invocation, KeepsLists, PCs
  <2>3. Routed' /\ InBounds' /\ SafeDestroy'
    BY <1>3, <2>1, <2>2 DEF KeepsLists, Routed, InBounds, SafeDestroy, GroupPCs,
        LaunchPCs, RunPCs, ReadyPCs, SetupPCs, DestroyPCs
  <2>4. SafeLaunch' /\ SafeSetup'
    BY <1>3, <2>1, <2>2 DEF KeepsLists, Routed, SafeLaunch, SafeSetup, GroupPCs,
        LaunchPCs, RunPCs, ReadyPCs, SetupPCs, DestroyPCs, SetupModes, Groups, Nodes
  <2> QED
    BY <1>1, <2>2, <2>3, <2>4, QuietIsSafe DEF LocalInv
<1>5. ASSUME NEW use \in BOOLEAN, CheckExisting(use)
      PROVE  IInv'
  <2>1. /\ op.pc = "check"
        /\ op' = [op EXCEPT !.masters = Existing("master"), !.pc = "image"]
        /\ IF launcher = "mesos" THEN ~MesosRefuses(use) ELSE ~EmiRefuses(use)
    BY <1>2, <1>5 DEF CheckExisting, Raises
  <2>2. /\ op' \in Invocation /\ op'.pc = "image" /\ op'.mode = op.mode
        /\ op'.masters = Existing("master") /\ op'.zoos = op.zoos
    BY <2>1 DEF Invocation, PCs, Existing
  <2>3. Existing("slaves") = {} /\ Existing("group") = {}
    <3>1. CASE launcher = "mesos"
      BY <2>1, <3>1 DEF MesosRefuses, Located, Existing
    <3>2. CASE launcher # "mesos"
      BY <2>1, <3>2 DEF MesosRefuses, EmiRefuses
    <3> QED
      BY <3>1, <3>2
  <2>4. Routed' /\ InBounds' /\ SafeDestroy'
    BY <1>3, <2>1, <2>2 DEF Routed, InBounds, SafeDestroy, GroupPCs,
        LaunchPCs, RunPCs, ReadyPCs, SetupPCs, DestroyPCs
  <2>5. SafeLaunch' /\ SafeSetup'
    BY <1>3, <2>1, <2>2, <2>3 DEF Routed, SafeLaunch, SafeSetup, GroupPCs,
        LaunchPCs, RunPCs, ReadyPCs, SetupPCs
  <2> QED
    BY <1>1, <2>2, <2>4, <2>5, QuietIsSafe DEF LocalInv
<1> QED
  BY <1>4, <1>5


-----------------------------------------------------------------------------
(* Steps that change the cloud.                                            *)

\* Control within launch_cluster up to the check.
LEMMA GroupStepIsSafe ==
    ASSUME IInv, GetOrMakeGroup \/ AuthorizeSources \/ AuthorizePorts
    PROVE  IInv'
<1> USE DEF IInv, TypeInv
<1>1. op.pc \in GroupPCs /\ op.mode = "launch" /\ op.n \in 1..Len(GroupsOf)
  BY DEF GetOrMakeGroup, AuthorizeSources, AuthorizePorts, GroupPCs, LaunchPCs,
      Routed, InBounds
<1>2. /\ UNCHANGED <<launcher, group, state, launch, launches>>
      /\ \A g : Existing(g)' = Existing(g)
      /\ GroupsOf' = GroupsOf
  BY DEF GetOrMakeGroup, AuthorizeSources, AuthorizePorts, instanceVars, Existing,
      IsActive, GroupsOf
<1>3. GroupsOf[op.n] \in Groups
  BY <1>1, GroupsOfLauncher DEF CloudType
<1>4. groups' \subseteq Groups /\ rules' \in [Groups -> SUBSET RuleKinds]
  <2>1. CASE GetOrMakeGroup
    BY <1>3, <2>1 DEF CloudType, GetOrMakeGroup
  <2>2. CASE AuthorizeSources
    BY <2>2 DEF CloudType, AuthorizeSources, RuleKinds
  <2>3. CASE AuthorizePorts
    BY <1>3, <2>3 DEF CloudType, AuthorizePorts, RuleKinds
  <2> QED
    BY <2>1, <2>2, <2>3
<1>5. CloudType' /\ Located' /\ OneLaunch'
  BY <1>2, <1>4 DEF CloudType, Located, IsActive, OneLaunch
<1>6. /\ op' \in Invocation /\ KeepsRest
      /\ op'.pc \in GroupPCs \cup {"check"}
      /\ op'.pc \in GroupPCs => op'.n \in 1..Len(GroupsOf)
  <2>1. {"groups", "authorize", "ports", "check"} \subseteq PCs
    BY DEF PCs
  <2>2. "check" \notin GroupPCs /\ {"groups", "authorize", "ports"} = GroupPCs
    BY DEF GroupPCs
  <2>3. CASE NextGroup("authorize", "check")
    BY <1>1, <2>1, <2>2, <2>3, NextGroupFields
  <2>4. CASE op' = [op EXCEPT !.pc = "ports"]
    BY <1>1, <2>1, <2>2, <2>4 DEF Invocation, KeepsRest
  <2>5. CASE GetOrMakeGroup
    <3>1. NextGroup("groups", "authorize")
      BY <2>5 DEF GetOrMakeGroup
    <3>2. CASE op.n < Len(GroupsOf)
      <4>1. op' = [op EXCEPT !.n = op.n + 1, !.pc = "groups"]
        BY <3>1, <3>2 DEF NextGroup
      <4>2. op.n + 1 \in Nat /\ op.n + 1 \in 1..Len(GroupsOf)
        BY <1>1, <3>2, GroupsOfNotEmpty
      <4> QED
        BY <2>1, <2>2, <4>1, <4>2 DEF Invocation, KeepsRest
    <3>3. CASE ~(op.n < Len(GroupsOf))
      BY <2>1, <2>2, <3>1, <3>3, GotoFields, GroupsOfNotEmpty DEF NextGroup
    <3> QED
      BY <3>2, <3>3
  <2> QED
    BY <2>3, <2>4, <2>5 DEF AuthorizeSources, AuthorizePorts
<1>7. InBounds' /\ Routed' /\ SafeLaunch' /\ SafeSetup' /\ SafeDestroy'
  BY <1>1, <1>2, <1>6 DEF KeepsRest, InBounds, Routed, SafeLaunch, SafeSetup,
      SafeDestroy, GroupPCs, LaunchPCs, RunPCs, ReadyPCs, SetupPCs, DestroyPCs
<1> QED
  BY <1>5, <1>6, <1>7

\* What image.run does to the instances and to the lists of them.
LEMMA RunAddsInstances ==
    ASSUME CloudType, op \in Invocation, Located, NEW new \in SUBSET Free,
           NEW role \in {"master", "slaves", "zoo"}, Run(role, new)
    PROVE  /\ CloudType' /\ Located'
           /\ UNCHANGED <<launcher, groups>>
           /\ \A g : g # GroupOf(role) => Existing(g)' = Existing(g)
           /\ Existing(GroupOf(role))' = Existing(GroupOf(role)) \cup new
           /\ \A i \in Ids \ new : launch'[i] = launch[i]
           /\ \A i \in new : launch'[i] = op.launch
<1>1. UNCHANGED <<launcher, groups, rules, launches>>
  BY DEF Run
<1>2. GroupOf(role) \in Groups /\ (launcher = "emi" <=> GroupOf(role) = "group")
  BY DEF GroupOf, Groups, CloudType
<1>3. /\ state' \in [Ids -> States]
      /\ group' \in [Ids -> Groups]
      /\ launch' \in [Ids -> Nat]
  BY <1>2, OpFields DEF Run, CloudType, States
<1>4. CloudType'
  BY <1>1, <1>3 DEF CloudType
<1>5. new \subseteq Ids /\ \A i \in new : ~IsActive(i)
  BY DEF Free, IsActive
<1>6. \A i \in new : IsActive(i)' /\ group'[i] = GroupOf(role) /\ launch'[i] = op.launch
  BY <1>5 DEF Run, IsActive
<1>7. \A i \in Ids \ new : /\ IsActive(i)' <=> IsActive(i)
                           /\ group'[i] = group[i] /\ launch'[i] = launch[i]
  BY DEF Run, IsActive
<1>8. Located'
  <2> SUFFICES ASSUME NEW i \in Ids, IsActive(i)'
               PROVE  launcher' = "emi" <=> group'[i] = "group"
    BY DEF Located
  <2>1. CASE i \in new
    BY <1>1, <1>2, <1>6, <2>1
  <2>2. CASE i \notin new
    BY <1>1, <1>7, <2>2 DEF Located
  <2> QED
    BY <2>1, <2>2
<1>9. \A g : g # GroupOf(role) => Existing(g)' = Existing(g)
  BY <1>5, <1>6, <1>7 DEF Existing
<1>10. Existing(GroupOf(role))' = Existing(GroupOf(role)) \cup new
  <2> DEFINE h == GroupOf(role)
  <2>1. h' = h
    BY <1>1 DEF GroupOf
  <2>2. \A i \in Ids : (IsActive(i)' /\ group'[i] = h)
                           <=> ((IsActive(i) /\ group[i] = h) \/ i \in new)
    BY <1>5, <1>6, <1>7
  <2> QED
    BY <1>5, <2>1, <2>2 DEF Existing
<1> QED
  BY <1>1, <1>4, <1>6, <1>7, <1>8, <1>9, <1>10

\* The runs of launch_cluster, which put the new instances in their lists.
LEMMA RunIsSafe ==
    ASSUME IInv, op.mode = "launch", op.pc \in RunPCs,
           NEW role \in {"master", "slaves", "zoo"}, NEW new \in SUBSET Free,
           Run(role, new),
           role = "master" => op.pc = "run_masters",
           role = "master" /\ launcher = "mesos" => \A i, j \in new : i = j,
           op' \in Invocation, op'.mode = op.mode, op'.launch = op.launch,
           Nodes \cup new \subseteq Nodes',
           op'.pc \in RunPCs \cup {"start", "wait"},
           op'.pc \in {"run_slaves", "run_masters"} =>
               role = "slaves" /\ op.pc = "run_slaves" /\ op'.masters = op.masters,
           op'.pc = "run_masters" => op.masters = {},
           op'.pc # "wait" => op'.zoos = {},
           op'.pc = "wait" => op'.n = 1
    PROVE  IInv'
<1> USE DEF IInv, TypeInv
<1>1. /\ CloudType' /\ Located' /\ launcher' = launcher
      /\ \A g : g # GroupOf(role) => Existing(g)' = Existing(g)
      /\ Existing(GroupOf(role))' = Existing(GroupOf(role)) \cup new
      /\ \A i \in Ids \ new : launch'[i] = launch[i]
      /\ \A i \in new : launch'[i] = op.launch
  BY RunAddsInstances
<1>2. \A g \in Groups : \A i \in Existing(g)' : i \in Existing(g) \/ i \in new
  <2> SUFFICES ASSUME NEW g \in Groups, NEW i \in Existing(g)'
               PROVE  i \in Existing(g) \/ i \in new
    OBVIOUS
  <2>1. CASE g = GroupOf(role)
    <3>1. g' = GroupOf(role)'
      BY <1>1, <2>1 DEF GroupOf
    <3> QED
      BY <1>1, <2>1, <3>1 DEF Existing
  <2>2. CASE g # GroupOf(role)
    BY <1>1, <2>2
  <2> QED
    BY <2>1, <2>2
<1>3. GroupOf(role) # "master" => Existing("master")' = Existing("master")
  BY <1>1
<1>4. GroupOf(role) = "master" => /\ role = "master" /\ launcher = "mesos"
                                  /\ Existing("master")' \subseteq new
  <2> SUFFICES ASSUME GroupOf(role) = "master"
               PROVE  /\ role = "master" /\ launcher = "mesos"
                      /\ Existing("master")' \subseteq new
    OBVIOUS
  <2>1. role = "master" /\ launcher = "mesos"
    BY DEF GroupOf
  <2>2. Existing("master") = {}
    BY <2>1 DEF SafeLaunch
  <2> QED
    BY <1>2, <2>1, <2>2 DEF Groups
<1>5. \A g \in {"slaves", "group"} : \A i \in Existing(g)' : launch'[i] = op.launch
  BY <1>1, <1>2 DEF SafeLaunch, Existing, Groups
<1>6. OneLaunch'
  <2>1. \A i, j \in Existing("master")' : i = j
    BY <1>3, <1>4 DEF OneLaunch
  <2> QED
    BY <1>5, <2>1 DEF OneLaunch
<1>7. \A g \in Groups \ {"zoo"} : Existing(g)' \subseteq Nodes'
  <2>1. \A g \in Groups \ {"zoo"} : Existing(g) \subseteq Nodes
    BY DEF SafeSetup, SetupPCs, RunPCs, SetupModes
  <2> QED
    BY <1>2, <2>1
<1>8. InBounds' /\ Routed' /\ SafeDestroy'
  BY DEF InBounds, Routed, SafeDestroy, GroupPCs, LaunchPCs, RunPCs,
      ReadyPCs, SetupPCs, DestroyPCs
<1>9. SafeLaunch'
  <2>1. op'.pc \in {"image", "run_slaves", "run_masters"} =>
            Existing("master")' \subseteq op'.masters
    <3>1. SUFFICES ASSUME op'.pc \in {"run_slaves", "run_masters"}
                   PROVE  Existing("master")' \subseteq op'.masters
      BY DEF RunPCs
    <3> QED
      BY <1>3, <1>4, <3>1 DEF SafeLaunch, GroupOf
  <2> QED
    BY <1>5, <2>1 DEF SafeLaunch, GroupPCs, LaunchPCs, RunPCs
<1>10. SafeSetup'
  BY <1>7 DEF SafeSetup, ReadyPCs, RunPCs
<1> QED
  BY <1>1, <1>6, <1>8, <1>9, <1>10

LEMMA RunSlavesIsSafe ==
    ASSUME IInv, RunSlaves
    PROVE  IInv'
<1> USE DEF IInv, TypeInv
<1>1. CASE Raises
  BY <1>1, RaisingIsSafe DEF Raises, Quiet
<1> DEFINE next == IF op.n + 1 < Zones THEN "run_slaves"
                   ELSE IF op.masters # {} THEN "start" ELSE "run_masters"
<1>2. ASSUME NEW new \in Allocation(GetPartition(Slaves, Zones, op.n)),
             Run("slaves", new), op.pc = "run_slaves",
             op' = [op EXCEPT !.slaves = @ \cup new, !.n = @ + 1,
                              !.todo = op.masters, !.pc = next]
      PROVE  IInv'
  <2>1. new \in SUBSET Free /\ new \subseteq Ids
    BY <1>2 DEF Allocation, Free
  <2>2. /\ next \in {"run_slaves", "start", "run_masters"}
        /\ next = "run_masters" => op.masters = {}
    OBVIOUS
  <2> HIDE DEF next
  <2>3. op.slaves \cup new \in SUBSET Ids /\ op.n + 1 \in Nat /\ next \in PCs
    BY <2>1, <2>2, OpFields DEF PCs
  <2>4. /\ op' \in Invocation
        /\ op'.slaves = op.slaves \cup new /\ op'.pc = next
        /\ op'.mode = op.mode /\ op'.masters = op.masters
        /\ op'.zoos = op.zoos /\ op'.launch = op.launch
    BY <1>2, <2>3, OpFields DEF Invocation
  <2>5. op.mode = "launch" /\ op.zoos = {}
    BY <1>2 DEF Routed, SafeLaunch, LaunchPCs
  <2>6. Nodes \cup new \subseteq Nodes'
    BY <2>4 DEF Nodes
  <2> QED
    BY <1>2, <2>1, <2>2, <2>4, <2>5, <2>6, RunIsSafe DEF RunPCs
<1> QED
  BY <1>1, <1>2 DEF RunSlaves

\* One instance is the only one.
LEMMA OfOne ==
    ASSUME NEW S, IsFiniteSet(S), Cardinality(S) = 1
    PROVE  \A i, j \in S : i = j
<1>1. PICK x : S = {x}
  BY FS_Singleton
<1> QED
  BY <1>1

LEMMA RunMastersIsSafe ==
    ASSUME IInv, RunMasters
    PROVE  IInv'
<1> USE DEF IInv, TypeInv
<1>1. CASE Raises
  BY <1>1, RaisingIsSafe DEF Raises, Quiet
<1>2. ASSUME NEW new \in Allocation(MastersToRun(op.ft)),
             Run("master", new), op.pc = "run_masters",
             op' = [op EXCEPT !.masters = new, !.pc = "run_zoos"]
      PROVE  IInv'
  <2>1. new \in SUBSET Free /\ new \subseteq Ids
    BY <1>2 DEF Allocation, Free
  <2>2. launcher = "mesos" => \A i, j \in new : i = j
    <3>1. IsFiniteSet(new)
      BY <2>1, MesosAssumption, FS_Subset
    <3>2. launcher = "mesos" => Cardinality(new) = 1
      BY <1>2 DEF Allocation, MastersToRun
    <3> QED
      BY <3>1, <3>2, OfOne
  <2>3. /\ op' \in Invocation
        /\ op'.masters = new /\ op'.pc = "run_zoos"
        /\ op'.mode = op.mode /\ op'.slaves = op.slaves
        /\ op'.zoos = op.zoos /\ op'.launch = op.launch
    BY <1>2, <2>1 DEF Invocation, PCs
  <2>4. op.mode = "launch" /\ op.zoos = {} /\ op.masters = {}
    BY <1>2 DEF Routed, SafeLaunch, LaunchPCs
  <2>5. Nodes \cup new \subseteq Nodes'
    BY <2>3, <2>4 DEF Nodes
  <2> QED
    BY <1>2, <2>1, <2>2, <2>3, <2>4, <2>5, RunIsSafe DEF RunPCs
<1> QED
  BY <1>1, <1>2 DEF RunMasters

LEMMA RunZoosIsSafe ==
    ASSUME IInv, RunMesosZoos \/ RunEmiZoos
    PROVE  IInv'
<1> USE DEF IInv, TypeInv
<1>1. CASE Raises
  BY <1>1, RaisingIsSafe DEF Raises, Quiet
<1>2. ASSUME NEW k, NEW new \in Allocation(k), Run("zoo", new), op.pc = "run_zoos",
             op' = [op EXCEPT !.zoos = new, !.pc = "wait", !.n = 1]
      PROVE  IInv'
  <2>1. new \in SUBSET Free /\ new \subseteq Ids
    BY <1>2 DEF Allocation, Free
  <2>2. /\ op' \in Invocation
        /\ op'.zoos = new /\ op'.pc = "wait" /\ op'.n = 1
        /\ op'.mode = op.mode /\ op'.slaves = op.slaves
        /\ op'.masters = op.masters /\ op'.launch = op.launch
    BY <1>2, <2>1 DEF Invocation, PCs
  <2>3. op.mode = "launch" /\ op.zoos = {}
    BY <1>2 DEF Routed, SafeLaunch, LaunchPCs, RunPCs
  <2>4. Nodes \cup new \subseteq Nodes'
    BY <2>2, <2>3 DEF Nodes
  <2> QED
    BY <1>2, <2>1, <2>2, <2>3, <2>4, RunIsSafe DEF RunPCs
<1> QED
  BY <1>1, <1>2 DEF RunMesosZoos, RunEmiZoos

\* A step after which no other instances are active.
LEMMA ShrinkingKeepsCloud ==
    ASSUME CloudType', Located, OneLaunch, launcher' = launcher,
           \A i \in Ids : IsActive(i)' => /\ IsActive(i)
                                          /\ group'[i] = group[i]
                                          /\ launch'[i] = launch[i]
    PROVE  /\ \A g : Existing(g)' \subseteq Existing(g)
           /\ \A g : \A i \in Existing(g)' : launch'[i] = launch[i]
           /\ Located' /\ OneLaunch'
<1>1. \A g : \A i \in Existing(g)' : i \in Existing(g) /\ launch'[i] = launch[i]
  BY DEF Existing
<1>2. Located'
  BY DEF Located
<1>3. OneLaunch'
  BY <1>1 DEF OneLaunch
<1> QED
  BY <1>1, <1>2, <1>3

\* start and stop: the instances stay active.
LEMMA StartStopIsSafe ==
    ASSUME IInv, StartNode \/ StopNode
    PROVE  IInv'
<1> USE DEF IInv, TypeInv
<1>1. CASE Raises
  BY <1>1, RaisingIsSafe DEF Raises, Quiet
<1>2. ASSUME NEW i \in op.todo, ~Raises, StartNode \/ StopNode,
             UNCHANGED <<launcher, groups, rules, group, launch, launches>>,
             state' = [state EXCEPT ![i] = IF @ = "stopped" THEN "pending" ELSE @]
                 \/ state' = [state EXCEPT ![i] = IF @ = "running" THEN "stopping" ELSE @],
             op' = [op EXCEPT !.todo = @ \ {i}]
      PROVE  IInv'
  <2>1. op.todo \subseteq Ids /\ op.pc \in {"start", "stop"}
    BY <1>2, OpFields DEF StartNode, StopNode
  <2>2. /\ op' \in Invocation /\ KeepsLists /\ op'.pc = op.pc
    BY <1>2 DEF Invocation, KeepsLists
  <2>3. CloudType'
    BY <1>2, <2>1 DEF CloudType, States
  <2>4. \A j \in Ids : IsActive(j)' <=> IsActive(j)
    BY <1>2, <2>1 DEF CloudType, IsActive
  <2>5. /\ \A g : Existing(g)' \subseteq Existing(g)
        /\ \A g : \A j \in Existing(g)' : launch'[j] = launch[j]
        /\ Located' /\ OneLaunch'
    BY <1>2, <2>3, <2>4, ShrinkingKeepsCloud
  <2>6. InBounds' /\ Routed'
    BY <1>2, <2>1, <2>2 DEF KeepsLists, InBounds, Routed, GroupPCs, LaunchPCs, RunPCs,
        ReadyPCs, SetupPCs, DestroyPCs
  <2>7. SafeLaunch' /\ SafeDestroy'
    BY <1>2, <2>1, <2>2, <2>5 DEF KeepsLists, Routed, SafeLaunch, SafeDestroy,
        GroupPCs, LaunchPCs, RunPCs, DestroyPCs
  <2>8. SafeSetup'
    BY <1>2, <2>1, <2>2, <2>5 DEF KeepsLists, SafeSetup, RunPCs, ReadyPCs, SetupPCs,
        SetupModes, Nodes
  <2> QED
    BY <2>2, <2>3, <2>5, <2>6, <2>7, <2>8
<1>3. CASE StartNode
  BY <1>1, <1>2, <1>3, NextOfIsMember DEF StartNode
<1>4. CASE StopNode
  BY <1>1, <1>2, <1>4, NextOfIsMember DEF StopNode
<1> QED
  BY <1>3, <1>4

\* resume, destroy, stop and start find the cluster.
LEMMA FindIsSafe ==
    ASSUME IInv, FindMesosCluster \/ FindEmiCluster
    PROVE  IInv'
<1> USE DEF IInv, TypeInv
<1>1. Quiet
  BY DEF Quiet, FindMesosCluster, FindEmiCluster, Raises
<1>2. SUFFICES ASSUME op' # Idle
      PROVE IInv'
  BY <1>1, RaisingIsSafe
<1>3. /\ UNCHANGED <<launcher, groups, state, launch>>
      /\ \A g : Existing(g)' = Existing(g)
  BY <1>1, QuietKeepsCloud
<1>4. op.pc = "find" /\ op.mode \in Modes \ {"launch"}
  BY OpFields DEF FindMesosCluster, FindEmiCluster, Routed
<1> DEFINE found == Existing("master") \cup Existing("slaves") \cup Existing("zoo")
                    \cup Existing("group")
<1>5. /\ op' \in Invocation /\ op'.mode = op.mode
      /\ op'.masters = Existing("master") /\ op'.slaves = Existing("slaves")
      /\ op'.zoos = Existing("zoo")
      /\ op.mode = "destroy" => found \subseteq op'.todo
      /\ op'.pc = IF op.mode = "resume" THEN "key_master"
                  ELSE IF op.mode = "destroy" THEN "terminate" ELSE op.mode
      /\ launcher = "emi" => op.mode \in {"resume", "destroy"}
  <2> DEFINE next == IF op.mode = "resume" THEN "key_master"
                     ELSE IF op.mode = "destroy" THEN "terminate" ELSE op.mode
  <2>1. next \in PCs
    BY <1>4 DEF Modes, PCs
  <2>2. \A g : Existing(g) \in SUBSET Ids
    BY DEF Existing
  <2>3. PICK todo \in SUBSET Ids :
           /\ op' = [op EXCEPT !.masters = Existing("master"),
                               !.slaves = Existing("slaves"),
                               !.zoos = Existing("zoo"), !.todo = todo, !.pc = next]
           /\ op.mode = "destroy" => found \subseteq todo
           /\ launcher = "emi" => op.mode \in {"resume", "destroy"}
    <3>1. CASE FindMesosCluster
      <4> DEFINE todo == Existing("master") \cup Existing("slaves")
                         \cup (IF op.mode = "stop" THEN {} ELSE Existing("zoo"))
      <4>1. /\ op' = [op EXCEPT !.masters = Existing("master"),
                                !.slaves = Existing("slaves"),
                                !.zoos = Existing("zoo"), !.todo = todo, !.pc = next]
            /\ launcher = "mesos"
        BY <1>2, <3>1 DEF FindMesosCluster, Raises
      <4>2. todo \in SUBSET Ids
        BY <2>2
      <4>3. Existing("group") = {}
        BY <4>1 DEF Located, Existing
      <4>4. op.mode = "destroy" => found \subseteq todo
        BY <4>3
      <4> HIDE DEF todo, next, found
      <4> QED
        BY <4>1, <4>2, <4>4
    <3>2. CASE FindEmiCluster
      <4> DEFINE todo == UNION {Existing(g) : g \in Groups}
      <4>1. op.mode \in {"resume", "destroy"}
        BY <1>2, <1>4, <3>2 DEF FindEmiCluster, Raises, Modes
      <4>2. op' = [op EXCEPT !.masters = Existing("master"),
                             !.slaves = Existing("slaves"),
                             !.zoos = Existing("zoo"), !.todo = todo, !.pc = next]
        BY <1>2, <4>1, <3>2 DEF FindEmiCluster, Raises
      <4>3. todo \in SUBSET Ids /\ found \subseteq todo
        BY <2>2 DEF Groups
      <4> HIDE DEF todo, next, found
      <4> QED
        BY <4>1, <4>2, <4>3
    <3> QED
      BY <3>1, <3>2
  <2> HIDE DEF next, found
  <2>4. /\ op' \in Invocation /\ op'.mode = op.mode
        /\ op'.masters = Existing("master") /\ op'.slaves = Existing("slaves")
        /\ op'.zoos = Existing("zoo") /\ op'.todo = todo /\ op'.pc = next
    BY <2>1, <2>2, <2>3 DEF Invocation
  <2> QED
    BY <2>3, <2>4 DEF next
<1>6. launcher = "emi" => op'.masters = {}
  BY <1>5 DEF Located, Existing
<1>7. launcher = "mesos" => Existing("group") = {}
  BY DEF Located, Existing
<1>8. InBounds' /\ Routed' /\ SafeLaunch'
  BY <1>3, <1>4, <1>5, <1>6 DEF InBounds, Routed, SafeLaunch, GroupPCs, LaunchPCs,
      RunPCs, ReadyPCs, SetupPCs, DestroyPCs, Modes
<1>9. SafeSetup'
  <2>1. launcher = "mesos" =>
            \A g \in Groups \ {"zoo"} : Existing(g)' \subseteq Nodes'
    BY <1>3, <1>5, <1>7 DEF Groups, Nodes
  <2> QED
    BY <1>3, <1>4, <1>5, <2>1 DEF SafeSetup, ReadyPCs, Modes, CloudType
<1>10. SafeDestroy'
  <2>1. op.mode = "destroy" =>
            op'.pc = "terminate" /\ \A g \in Groups : Existing(g)' \subseteq op'.todo
    BY <1>3, <1>5 DEF Groups
  <2> QED
    BY <1>5, <2>1 DEF SafeDestroy
<1> QED
  BY <1>1, <1>5, <1>8, <1>9, <1>10, QuietIsSafe DEF LocalInv

\* destroy: an instance is terminated.
LEMMA TerminateIsSafe ==
    ASSUME IInv, TerminateNode
    PROVE  IInv'
<1> USE DEF IInv, TypeInv
<1>1. PICK i \in op.todo :
        /\ op.pc = "terminate"
        /\ state' = [state EXCEPT ![i] = IF @ = "terminated" THEN @
                                         ELSE "shutting-down"]
        /\ op' = [op EXCEPT !.todo = @ \ {i}]
        /\ UNCHANGED <<launcher, groups, rules, group, launch, launches>>
  BY NextOfIsMember DEF TerminateNode
<1>2. op.mode = "destroy" /\ i \in Ids
  BY <1>1, OpFields DEF Routed, DestroyPCs
<1>3. op' \in Invocation /\ KeepsLists /\ op'.pc = "terminate" /\ op'.todo = op.todo \ {i}
  BY <1>1 DEF Invocation, KeepsLists
<1>4. CloudType'
  BY <1>1, <1>2 DEF CloudType, States
<1>5. \A j \in Ids : IsActive(j)' => IsActive(j) /\ j # i
  BY <1>1, <1>2 DEF CloudType, IsActive
<1>6. /\ \A g : Existing(g)' \subseteq Existing(g)
      /\ Located' /\ OneLaunch'
  BY <1>1, <1>4, <1>5, ShrinkingKeepsCloud
<1>7. \A g : i \notin Existing(g)'
  BY <1>5 DEF Existing
<1>8. SafeDestroy'
  BY <1>1, <1>2, <1>3, <1>6, <1>7 DEF SafeDestroy
<1>9. InBounds' /\ Routed' /\ SafeLaunch' /\ SafeSetup'
  BY <1>1, <1>2, <1>3 DEF KeepsLists, InBounds, Routed, SafeLaunch, SafeSetup,
      GroupPCs, LaunchPCs, RunPCs, ReadyPCs, SetupPCs, DestroyPCs, SetupModes
<1> QED
  BY <1>3, <1>4, <1>6, <1>8, <1>9

\* A quiet step of a destroy whose nodes are gone.
LEMMA DestroyStepIsSafe ==
    ASSUME IInv, Quiet, op' \in Invocation, op.mode = "destroy", op'.mode = op.mode,
           op'.pc \in {"revoke", "done"}, op.pc = "terminate" => op.todo = {},
           op.pc # "find",
           op'.pc = "revoke" => op'.names = groups \cap GroupNames,
           op'.pc = "done" /\ op'.success => groups \cap GroupNames = {}
    PROVE  IInv'
<1> USE DEF IInv, TypeInv
<1>1. /\ UNCHANGED <<launcher, groups, state>> /\ GroupNames' = GroupNames
      /\ \A g : Existing(g)' = Existing(g)
  BY QuietKeepsCloud DEF GroupNames
<1>2. \A g \in Groups : Existing(g) = {}
  BY DEF SafeDestroy, Routed, DestroyPCs
<1>3. InBounds' /\ Routed' /\ SafeLaunch' /\ SafeSetup'
  BY <1>1 DEF InBounds, Routed, SafeLaunch, SafeSetup, GroupPCs, LaunchPCs, RunPCs,
      ReadyPCs, SetupPCs, DestroyPCs, SetupModes
<1>4. SafeDestroy'
  BY <1>1, <1>2 DEF SafeDestroy
<1> QED
  BY <1>3, <1>4, QuietIsSafe DEF LocalInv

\* An attempt begins with the groups that are there.
LEMMA AttemptFields ==
    ASSUME op \in Invocation, groups \subseteq Groups, NEW n \in Nat, Attempt(n)
    PROVE  /\ op' \in Invocation /\ op'.mode = op.mode /\ op'.pc = "revoke"
           /\ op'.names = groups \cap GroupNames
<1>1. groups \cap GroupNames \in SUBSET Groups /\ "revoke" \in PCs
  BY DEF PCs
<1> QED
  BY <1>1 DEF Attempt, Invocation

LEMMA TerminatedIsSafe ==
    ASSUME IInv, (\E delete \in BOOLEAN : Terminated(delete)) \/ AttemptEnds
    PROVE  IInv'
<1> USE DEF IInv, TypeInv
<1>1. Quiet /\ op.mode = "destroy" /\ op.pc # "find"
      /\ (op.pc = "terminate" => op.todo = {})
  BY DEF Quiet, Terminated, AttemptEnds, Routed, DestroyPCs
<1>2. CASE \E n \in Nat : Attempt(n)
  BY <1>1, <1>2, AttemptFields, DestroyStepIsSafe DEF CloudType
<1>3. ASSUME ~(\E n \in Nat : Attempt(n)), NEW delete \in BOOLEAN, Terminated(delete)
      PROVE  IInv'
  <2>1. op' = [op EXCEPT !.pc = "done", !.success = FALSE]
    BY <1>3 DEF Terminated
  <2>2. op' \in Invocation /\ op'.mode = op.mode /\ op'.pc = "done" /\ op'.success = FALSE
    BY <2>1 DEF Invocation, PCs
  <2> QED
    BY <1>1, <2>2, DestroyStepIsSafe
<1>4. ASSUME ~(\E n \in Nat : Attempt(n)), AttemptEnds
      PROVE  IInv'
  <2>1. op.n + 1 \in Nat /\ "done" \in PCs
    BY OpFields DEF PCs
  <2>2. Goto("done")
    BY <1>4, <2>1 DEF AttemptEnds
  <2>3. op' \in Invocation /\ op'.pc = "done" /\ KeepsRest
    BY <2>1, <2>2, GotoFields
  <2>4. op.success => groups \cap GroupNames = {}
    BY <1>1, <1>4 DEF AttemptEnds, SafeDestroy
  <2> QED
    BY <1>1, <2>3, <2>4, DestroyStepIsSafe DEF KeepsRest
<1> QED
  BY <1>2, <1>3, <1>4

\* Rules are revoked and groups are deleted.
LEMMA DeleteIsSafe ==
    ASSUME IInv, RevokeRules \/ \E g \in Groups : DeleteGroup(g)
    PROVE  IInv'
<1> USE DEF IInv, TypeInv
<1>1. /\ UNCHANGED <<launcher, group, state, launch, launches>>
      /\ op.pc \in {"revoke", "delete"} /\ op.mode = "destroy"
      /\ GroupNames' = GroupNames
      /\ \A g : Existing(g)' = Existing(g)
  BY DEF RevokeRules, DeleteGroup, instanceVars, Routed, DestroyPCs, GroupNames,
      Existing, IsActive
<1>2. Located' /\ OneLaunch'
  BY <1>1 DEF Located, IsActive, OneLaunch
<1>3. ASSUME CloudType', op' \in Invocation, op'.mode = "destroy", op'.pc = "delete",
             op'.success => groups' \cap GroupNames \subseteq op'.names
      PROVE  IInv'
  <2>1. InBounds' /\ Routed' /\ SafeLaunch' /\ SafeSetup'
    BY <1>1, <1>3 DEF InBounds, Routed, SafeLaunch, SafeSetup, GroupPCs, LaunchPCs,
        RunPCs, ReadyPCs, SetupPCs, DestroyPCs, SetupModes
  <2>2. SafeDestroy'
    BY <1>1, <1>3 DEF SafeDestroy
  <2> QED
    BY <1>2, <1>3, <2>1, <2>2
<1>4. CASE RevokeRules
  <2>1. PICK left \in [op.names -> SUBSET RuleKinds] :
          rules' = [g \in Groups |-> IF g \in op.names THEN left[g] ELSE rules[g]]
    BY <1>4 DEF RevokeRules
  <2>2. CloudType'
    BY <1>1, <1>4, <2>1 DEF CloudType, RevokeRules
  <2>3. /\ op' \in Invocation /\ op'.mode = op.mode /\ op'.pc = "delete"
        /\ op'.names = op.names /\ op.pc = "revoke" /\ groups' = groups
    BY <1>4 DEF RevokeRules, Invocation, PCs
  <2> QED
    BY <1>1, <1>3, <2>2, <2>3 DEF SafeDestroy
<1>5. ASSUME NEW g \in Groups, DeleteGroup(g)
      PROVE  IInv'
  <2>1. CASE Deletable(g)
    <3>1. /\ groups' = groups \ {g} /\ rules' = [rules EXCEPT ![g] = {}]
          /\ op' = [op EXCEPT !.names = @ \ {g}] /\ op.pc = "delete"
      BY <1>5, <2>1 DEF DeleteGroup
    <3>2. CloudType'
      BY <1>1, <3>1 DEF CloudType
    <3>3. /\ op' \in Invocation /\ op'.mode = op.mode /\ op'.pc = "delete"
          /\ op'.names = op.names \ {g} /\ op'.success = op.success
      BY <3>1 DEF Invocation
    <3> QED
      BY <1>1, <1>3, <3>1, <3>2, <3>3 DEF SafeDestroy
  <2>2. CASE ~Deletable(g)
    <3>1. /\ UNCHANGED <<groups, rules>> /\ op.pc = "delete"
          /\ op' = [op EXCEPT !.names = @ \ {g}, !.success = FALSE]
      BY <1>5, <2>2 DEF DeleteGroup
    <3>2. CloudType'
      BY <1>1, <3>1 DEF CloudType
    <3>3. /\ op' \in Invocation /\ op'.mode = op.mode /\ op'.pc = "delete"
          /\ op'.success = FALSE
      BY <3>1 DEF Invocation
    <3> QED
      BY <1>1, <1>3, <3>2, <3>3
  <2> QED
    BY <2>1, <2>2
<1> QED
  BY <1>4, <1>5

\* A stop that has gone through its list.
LEMMA StoppedIsSafe ==
    ASSUME IInv, Stopped
    PROVE  IInv'
<1> USE DEF IInv, TypeInv
<1>1. Quiet /\ op.pc = "stop" /\ op.mode = "stop" /\ Goto("done")
  BY DEF Quiet, Stopped, Routed
<1>2. op' \in Invocation /\ op'.pc = "done" /\ KeepsRest
  BY <1>1, GotoFields DEF PCs
<1>3. LocalInv'
  BY <1>1, <1>2 DEF KeepsRest, LocalInv, InBounds, Routed, SafeLaunch, SafeSetup,
      SafeDestroy, GroupPCs, LaunchPCs, RunPCs, ReadyPCs, SetupPCs, DestroyPCs,
      SetupModes
<1> QED
  BY <1>1, <1>3, QuietIsSafe

\* What the cloud does by itself.
LEMMA CloudIsSafe ==
    ASSUME IInv, NEW i \in Ids, Complete(i) \/ BootFails(i)
    PROVE  IInv'
<1> USE DEF IInv, TypeInv
<1>1. UNCHANGED <<launcher, groups, rules, launches, op>>
  BY DEF Complete, BootFails
<1>2. /\ state' \in [Ids -> States] /\ group' \in [Ids -> Groups]
      /\ launch' \in [Ids -> Nat]
  BY DEF Complete, BootFails, Vanish, CloudType, States, Groups
<1>3. \A j \in Ids : IsActive(j)' => /\ IsActive(j)
                                     /\ group'[j] = group[j]
                                     /\ launch'[j] = launch[j]
  <2>1. CASE Vanish(i)
    BY <2>1 DEF Vanish, CloudType, IsActive
  <2>2. CASE ~Vanish(i)
    BY <2>2 DEF Complete, BootFails, CloudType, IsActive
  <2> QED
    BY <2>1, <2>2
<1>4. \A j \in Ids : state'[j] = "pending" => state[j] = "pending"
  BY DEF Complete, BootFails, Vanish, CloudType
<1>5. CloudType'
  BY <1>1, <1>2 DEF CloudType
<1>6. /\ \A g : Existing(g)' \subseteq Existing(g)
      /\ \A g : \A j \in Existing(g)' : launch'[j] = launch[j]
      /\ Located' /\ OneLaunch'
  BY <1>1, <1>3, <1>5, ShrinkingKeepsCloud
<1>7. Nodes' = Nodes /\ GroupsOf' = GroupsOf /\ GroupNames' = GroupNames
  BY <1>1 DEF Nodes, GroupsOf, GroupNames
<1>8. op \in Invocation /\ op' = op
  BY <1>1
<1>9. InBounds' /\ Routed' /\ SafeDestroy'
  BY <1>1, <1>6, <1>7 DEF InBounds, Routed, SafeDestroy
<1>10. SafeLaunch'
  BY <1>1, <1>6 DEF SafeLaunch
<1>11. \A nodes \in SUBSET Ids : Settled(nodes) => Settled(nodes)'
  BY <1>4 DEF Settled
<1>12. SafeSetup'
  <2>1. op.masters \in SUBSET Ids /\ op.slaves \in SUBSET Ids /\ Nodes \in SUBSET Ids
    BY OpFields DEF Nodes
  <2>2. /\ Settled(op.masters) => Settled(op.masters)'
        /\ Settled(op.slaves) => Settled(op.slaves)'
        /\ Settled(Nodes) => Settled(Nodes)'
    BY <1>4, <1>7, <1>8, <2>1 DEF Settled
  <2> QED
    BY <1>1, <1>6, <1>7, <2>2 DEF SafeSetup
<1> QED
  BY <1>5, <1>6, <1>8, <1>9, <1>10, <1>12

-----------------------------------------------------------------------------
(* The theorems.                                                           *)

LEMMA InitIsSafe == Init => IInv
<1> SUFFICES ASSUME Init PROVE IInv
  OBVIOUS
<1>1. op \in Invocation /\ op.pc = "idle" /\ op.mode = "stop"
  BY IdleIsInvocation DEF Init, Idle
<1>2. \A g : Existing(g) = {}
  BY DEF Init, Existing, IsActive
<1>3. CloudType
  BY DEF Init, CloudType, Groups, RuleKinds, States
<1>4. Located /\ OneLaunch
  BY <1>2 DEF Init, Located, IsActive, OneLaunch
<1>5. InBounds /\ Routed /\ SafeLaunch /\ SafeSetup /\ SafeDestroy
  BY <1>1 DEF InBounds, Routed, SafeLaunch, SafeSetup, SafeDestroy, GroupPCs,
      LaunchPCs, RunPCs, ReadyPCs, SetupPCs, DestroyPCs, SetupModes
<1> QED
  BY <1>1, <1>3, <1>4, <1>5 DEF IInv, TypeInv

LEMMA NextIsSafe == IInv /\ [Next]_vars => IInv'
<1> SUFFICES ASSUME IInv, [Next]_vars PROVE IInv'
  OBVIOUS
<1>1. ASSUME NEW mode \in Modes, NEW ft \in MastersAsked, Begin(mode, ft)
      PROVE  IInv'
  BY <1>1, BeginIsSafe
<1>2. CASE Launching
  BY <1>2, GroupStepIsSafe, CheckStepIsSafe, RunSlavesIsSafe, RunMastersIsSafe,
     RunZoosIsSafe DEF Launching
<1>3. CASE SettingUp
  BY <1>3, StartStopIsSafe, WaitStepIsSafe, SetupStepIsSafe DEF SettingUp
<1>4. CASE Ending
  <2>1. CASE Exit
    BY <2>1, RaisingIsSafe DEF Exit, Raises, Quiet
  <2> QED
    BY <1>4, <2>1, FindIsSafe, StartStopIsSafe, StoppedIsSafe, TerminateIsSafe,
       TerminatedIsSafe, DeleteIsSafe DEF Ending
<1>5. CASE Crash
  BY <1>5, RaisingIsSafe DEF Crash, Raises, Quiet
<1>6. ASSUME NEW i \in Ids, Complete(i) \/ BootFails(i)
      PROVE  IInv'
  BY <1>6, CloudIsSafe
<1>7. CASE UNCHANGED vars
  <2>1. UNCHANGED <<launcher, groups, rules, group, state, launch, launches, op>>
    BY <1>7 DEF vars, cloudVars, instanceVars
  <2>2. Quiet
    BY <2>1 DEF Quiet, cloudVars, instanceVars
  <2>3. LocalInv'
    <3>1. \A g : Existing(g)' = Existing(g)
      BY <2>2, QuietKeepsCloud DEF IInv, TypeInv
    <3>2. op' \in Invocation /\ InBounds' /\ Routed'
      BY <2>1 DEF IInv, TypeInv, InBounds, GroupsOf, Routed
    <3>3. SafeLaunch' /\ SafeDestroy'
      BY <2>1, <3>1 DEF IInv, SafeLaunch, SafeDestroy, GroupNames
    <3>4. SafeSetup'
      BY <2>1, <3>1 DEF IInv, SafeSetup, Settled, Nodes
    <3> QED
      BY <3>2, <3>3, <3>4 DEF LocalInv
  <2> QED
    BY <2>2, <2>3, QuietIsSafe
<1> QED
  BY <1>1, <1>2, <1>3, <1>4, <1>5, <1>6, <1>7 DEF Next, Step

\* The inductive invariant holds of every behaviour of the two launchers.
THEOREM Safe == Spec => []IInv
BY InitIsSafe, NextIsSafe, PTL DEF Spec

\* Every variable of the cloud and of the invocation keeps its type.
THEOREM TypeCorrect == Spec => []TypeOK
<1>1. IInv => TypeOK
  BY DEF IInv, TypeInv, CloudType, TypeOK
<1> QED
  BY <1>1, Safe, PTL

\* launch_cluster: whatever was interrupted, failed to boot or was half destroyed
\* before, the active slaves and the grouped instances are of one launch, and a
\* group for masters has one.
THEOREM LaunchIsOne == Spec => []OneLaunch
<1>1. IInv => OneLaunch
  BY DEF IInv
<1> QED
  BY <1>1, Safe, PTL

\* An invocation that reports "Done!" deployed a cluster of all the active
\* instances outside the ZooKeeper nodes' group.
THEOREM NoNodeAstray == Spec => []NoStrayNode
<1>1. IInv => NoStrayNode
  BY DEF IInv, Routed, SafeSetup, NoStrayNode, SetupPCs, ReadyPCs, SetupModes
<1> QED
  BY <1>1, Safe, PTL

\* destroy: at the end no instance is active in any group, and the groups to delete
\* are gone if the last attempt had no error.
THEOREM DestroyCompletes == Spec => []DestroyIsComplete
<1>1. IInv => DestroyIsComplete
  BY DEF IInv, SafeDestroy, DestroyIsComplete
<1> QED
  BY <1>1, Safe, PTL

\* wait_for_cluster: no node the invocation knows is pending when volumes are
\* attached and the setup runs.
THEOREM SetupFollowsBoot == Spec => []SetupAfterBoot
<1>1. IInv => SetupAfterBoot
  BY DEF IInv, SafeSetup, SetupAfterBoot, ReadyPCs
<1> QED
  BY <1>1, Safe, PTL
-----------------------------------------------------------------------------
(* The size of a launch.                                                   *)

\* The slaves that the zones before zone n get.
Share(n) ==
    n * (Slaves \div Zones)
        + (IF n < (Slaves % Zones) THEN n ELSE Slaves % Zones)

EarlyPCs == GroupPCs \cup {"check", "image"}
AllRunPCs == {"wait"} \cup ReadyPCs

\* An invocation knows only instances that have been run.
Listed == \A i \in Nodes : state[i] # "none"

\* The slaves of a launch are those that the zones so far were to get.
SizedSlaves ==
    /\ op.pc \in EarlyPCs => op.slaves = {}
    /\ op.pc = "run_slaves" =>
           op.n < Zones /\ Cardinality(op.slaves) = Share(op.n)
    /\ op.pc \in {"run_masters", "start", "run_zoos"} \cup AllRunPCs =>
           Cardinality(op.slaves) = Slaves

\* mesos_euca_emi.py never takes over a master, so that its masters are those it
\* ran, and complete the ensemble.
SizedEmi ==
    /\ op.pc \in EarlyPCs \cup {"run_slaves", "run_masters"} => op.masters = {}
    /\ op.pc # "start"
    /\ op.pc = "run_zoos" => Cardinality(op.masters) = op.ft
    /\ op.pc \in AllRunPCs /\ op.ft > 1 =>
           Cardinality(op.masters \cup op.zoos) = ZooNum

SizedMesos == op.pc \in AllRunPCs => Cardinality(op.zoos) = MesosZoos(op.ft)

Sized ==
    op.mode = "launch" =>
        /\ SizedSlaves
        /\ launcher = "emi" => SizedEmi
        /\ launcher = "mesos" => SizedMesos

\* The inductive invariant, relative to IInv.
SizeInv == Listed /\ Sized

\* Division with remainder.
LEMMA DivMod ==
    /\ Zones \in Nat \ {0} /\ Slaves \in Nat \ {0}
    /\ Slaves \div Zones \in Nat
    /\ Slaves % Zones \in 0..(Zones - 1)
    /\ Slaves = Zones * (Slaves \div Zones) + (Slaves % Zones)
BY MesosAssumption

\* A zone adds what get_partition gives it.
LEMMA ShareGrows ==
    ASSUME NEW n \in Nat
    PROVE  /\ GetPartition(Slaves, Zones, n) \in Nat
           /\ Share(n) \in Nat
           /\ Share(n + 1) = Share(n) + GetPartition(Slaves, Zones, n)
<1> DEFINE q == Slaves \div Zones
           r == Slaves % Zones
<1>1. q \in Nat /\ r \in Nat
  BY DivMod
<1>2. (n + 1) * q = n * q + q /\ n * q \in Nat
  BY <1>1
<1> HIDE DEF q, r
<1>3. (n + 1) * q + (IF n + 1 < r THEN n + 1 ELSE r)
        = (n * q + (IF n < r THEN n ELSE r)) + (q + (IF r - n > 0 THEN 1 ELSE 0))
  BY <1>1, <1>2
<1>4. /\ q + (IF r - n > 0 THEN 1 ELSE 0) \in Nat
      /\ n * q + (IF n < r THEN n ELSE r) \in Nat
  BY <1>1, <1>2
<1> QED
  BY <1>3, <1>4 DEF Share, GetPartition, q, r

\* Together the zones get all the slaves.
LEMMA ShareEnds == Share(0) = 0 /\ Share(Zones) = Slaves
<1> DEFINE q == Slaves \div Zones
           r == Slaves % Zones
<1>1. q \in Nat /\ r \in 0..(Zones - 1) /\ Slaves = Zones * q + r /\ Zones \in Nat \ {0}
  BY DivMod
<1> HIDE DEF q, r
<1>2. 0 * q + (IF 0 < r THEN 0 ELSE r) = 0
  BY <1>1
<1>3. Zones * q + (IF Zones < r THEN Zones ELSE r) = Slaves
  BY <1>1
<1> QED
  BY <1>2, <1>3 DEF Share, q, r

\* Instances that are new are counted beside those that were listed.
LEMMA NewAddUp ==
    ASSUME NEW S \in SUBSET Ids, NEW new \in SUBSET Free,
           \A i \in S : state[i] # "none"
    PROVE  /\ Cardinality(S) \in Nat /\ Cardinality(new) \in Nat
           /\ Cardinality(S \cup new) = Cardinality(S) + Cardinality(new)
<1>1. new \subseteq Ids /\ S \cap new = {}
  BY DEF Free
<1>2. IsFiniteSet(S) /\ IsFiniteSet(new)
  BY <1>1, MesosAssumption, FS_Subset
<1>3. /\ Cardinality(S) \in Nat /\ Cardinality(new) \in Nat
      /\ Cardinality(S \cap new) = 0
  BY <1>1, <1>2, FS_CardinalityType, FS_EmptySet
<1>4. Cardinality(S \cup new)
        = Cardinality(S) + Cardinality(new) - Cardinality(S \cap new)
  BY <1>2, FS_Union
<1> QED
  BY <1>3, <1>4

\* What most steps keep: the lists, and that an instance has been run.
KeepsNodes ==
    /\ launcher' = launcher
    /\ op'.mode = op.mode
    /\ op'.ft = op.ft
    /\ op'.masters = op.masters
    /\ op'.slaves = op.slaves
    /\ op'.zoos = op.zoos

StaysRun == \A i \in Ids : state[i] # "none" => state'[i] # "none"

\* Steps that keep the lists keep the sizes, within the stages of a launch.
LEMMA SizesStay ==
    ASSUME op \in Invocation, SizeInv, KeepsNodes, StaysRun,
           op.mode = "launch" =>
               \/ op'.pc = op.pc /\ op'.n = op.n
               \/ op'.pc \in EarlyPCs /\ op.pc \in EarlyPCs
               \/ op'.pc \in AllRunPCs /\ op.pc \in AllRunPCs
               \/ op'.pc = "run_zoos" /\ op.pc = "start"
    PROVE  SizeInv'
<1>1. Nodes' = Nodes /\ Nodes \subseteq Ids
  BY OpFields DEF KeepsNodes, Nodes
<1>2. Listed'
  BY <1>1 DEF SizeInv, Listed, StaysRun
<1>3. Sized'
  <2> SUFFICES ASSUME op.mode = "launch" PROVE Sized'
    BY DEF KeepsNodes, Sized
  <2> USE DEF KeepsNodes, SizeInv, Sized
  <2>1. SizedSlaves'
    BY DEF SizedSlaves, Share, EarlyPCs, AllRunPCs, GroupPCs, ReadyPCs
  <2>2. launcher = "emi" => SizedEmi'
    BY DEF SizedEmi, EarlyPCs, AllRunPCs, GroupPCs, ReadyPCs
  <2>3. launcher = "mesos" => SizedMesos'
    BY DEF SizedMesos, MesosZoos, EarlyPCs, AllRunPCs, GroupPCs, ReadyPCs
  <2> QED
    BY <2>1, <2>2, <2>3
<1> QED
  BY <1>2, <1>3 DEF SizeInv

\* The end of an invocation.
LEMMA RaisingKeepsSizes ==
    ASSUME op' = Idle
    PROVE  SizeInv'
<1>1. op'.mode = "stop" /\ Nodes' = {}
  BY DEF Idle, Nodes
<1> QED
  BY <1>1 DEF SizeInv, Listed, Sized

\* The steps before the runs.
LEMMA EarlyStepKeepsSizes ==
    ASSUME IInv, SizeInv,
           \/ GetOrMakeGroup \/ AuthorizeSources \/ AuthorizePorts
           \/ (\E use \in BOOLEAN : CheckExisting(use)) \/ ResolveImages
    PROVE  SizeInv'
<1> USE DEF IInv, TypeInv
<1>1. SUFFICES ASSUME op' # Idle
      PROVE  SizeInv'
  BY RaisingKeepsSizes
<1>2. op.mode = "launch" /\ op.pc \in EarlyPCs
  BY DEF Routed, LaunchPCs, GroupPCs, EarlyPCs, GetOrMakeGroup, AuthorizeSources,
      AuthorizePorts, CheckExisting, ResolveImages
<1>3. UNCHANGED <<launcher, state>>
  BY <1>1 DEF GetOrMakeGroup, AuthorizeSources, AuthorizePorts, CheckExisting,
      ResolveImages, Raises, cloudVars, instanceVars
<1>4. CASE GetOrMakeGroup \/ AuthorizeSources \/ AuthorizePorts
  <2>1. op.n \in 1..Len(GroupsOf)
    BY <1>4 DEF InBounds, GroupPCs, GetOrMakeGroup, AuthorizeSources, AuthorizePorts
  <2>2. KeepsRest /\ op'.pc \in EarlyPCs
    <3>1. CASE NextGroup("authorize", "check") \/ NextGroup("groups", "authorize")
      BY <3>1, <2>1 DEF NextGroup, Goto, Invocation, KeepsRest, EarlyPCs, GroupPCs
    <3>2. CASE op' = [op EXCEPT !.pc = "ports"]
      BY <3>2 DEF Invocation, KeepsRest, EarlyPCs, GroupPCs
    <3> QED
      BY <1>4, <3>1, <3>2 DEF GetOrMakeGroup, AuthorizeSources, AuthorizePorts
  <2> QED
    BY <1>2, <1>3, <2>2, SizesStay DEF KeepsRest, KeepsNodes, StaysRun
<1>5. ASSUME NEW use \in BOOLEAN, CheckExisting(use)
      PROVE  SizeInv'
  <2>1. op' = [op EXCEPT !.masters = Existing("master"), !.pc = "image"]
    BY <1>1, <1>5 DEF CheckExisting, Raises
  <2>2. /\ op'.masters = Existing("master") /\ op'.pc = "image"
        /\ op'.mode = op.mode /\ op'.slaves = op.slaves /\ op'.zoos = op.zoos
    BY <2>1 DEF Invocation
  <2>3. launcher = "emi" => Existing("master") = {}
    BY DEF Located, Existing
  <2>4. \A i \in Existing("master") : state[i] # "none"
    BY DEF Existing, IsActive
  <2>5. Listed'
    BY <1>3, <2>2, <2>4 DEF SizeInv, Listed, Nodes
  <2>6. Sized'
    BY <1>2, <1>3, <2>2, <2>3 DEF SizeInv, Sized, SizedSlaves, SizedEmi, SizedMesos,
        EarlyPCs, AllRunPCs, GroupPCs, ReadyPCs
  <2> QED
    BY <2>5, <2>6 DEF SizeInv
<1>6. CASE ResolveImages
  <2>1. op.pc = "image" /\ op' = [op EXCEPT !.pc = "run_slaves", !.n = 0]
    BY <1>1, <1>6 DEF ResolveImages
  <2>2. /\ op'.pc = "run_slaves" /\ op'.n = 0 /\ op'.mode = op.mode
        /\ op'.masters = op.masters /\ op'.slaves = op.slaves /\ op'.zoos = op.zoos
    BY <2>1 DEF Invocation
  <2>3. Listed'
    BY <1>3, <2>2 DEF SizeInv, Listed, Nodes
  <2>4. op.slaves = {} /\ (launcher = "emi" => op.masters = {})
    BY <1>2 DEF SizeInv, Sized, SizedSlaves, SizedEmi
  <2>5. Cardinality(op'.slaves) = Share(0) /\ 0 < Zones
    BY <2>2, <2>4, FS_EmptySet, ShareEnds, DivMod
  <2>6. Sized'
    <3>1. SizedSlaves'
      BY <2>2, <2>5 DEF SizedSlaves, Share, EarlyPCs, AllRunPCs, GroupPCs, ReadyPCs
    <3>2. launcher = "emi" => SizedEmi'
      BY <2>2, <2>4 DEF SizedEmi, EarlyPCs, AllRunPCs, GroupPCs, ReadyPCs
    <3>3. SizedMesos'
      BY <2>2 DEF SizedMesos, AllRunPCs, ReadyPCs
    <3> QED
      BY <1>3, <3>1, <3>2, <3>3 DEF Sized
  <2> QED
    BY <2>3, <2>6 DEF SizeInv
<1> QED
  BY <1>4, <1>5, <1>6

\* What a run adds to the instances that exist.
LEMMA RunAddsNew ==
    ASSUME op \in Invocation, SizeInv, NEW new \in SUBSET Free, NEW role,
           Run(role, new), Nodes' \subseteq Nodes \cup new
    PROVE  Listed' /\ launcher' = launcher
<1>1. Nodes \subseteq Ids
  BY OpFields DEF Nodes
<1>2. \A i \in Ids : state'[i] = IF i \in new THEN "pending" ELSE state[i]
  BY DEF Run
<1>3. new \subseteq Ids
  BY DEF Free
<1> QED
  BY <1>1, <1>2, <1>3 DEF Run, SizeInv, Listed

\* Each zone adds its share, the last one completes the slaves.
LEMMA RunSlavesKeepsSizes ==
    ASSUME IInv, SizeInv, RunSlaves
    PROVE  SizeInv'
<1> USE DEF IInv, TypeInv
<1> DEFINE next == IF op.n + 1 < Zones THEN "run_slaves"
                   ELSE IF op.masters # {} THEN "start" ELSE "run_masters"
<1>1. ASSUME NEW new \in Allocation(GetPartition(Slaves, Zones, op.n)),
             Run("slaves", new), op.pc = "run_slaves",
             op' = [op EXCEPT !.slaves = @ \cup new, !.n = @ + 1,
                              !.todo = op.masters, !.pc = next]
      PROVE  SizeInv'
  <2>1. /\ new \in SUBSET Free
        /\ Cardinality(new) = GetPartition(Slaves, Zones, op.n)
    BY <1>1 DEF Allocation
  <2>2. /\ op.mode = "launch" /\ op.n \in Nat /\ op.slaves \subseteq Ids
        /\ Zones \in Nat \ {0}
    BY <1>1, OpFields, DivMod DEF Routed, LaunchPCs
  <2>3. op.n < Zones /\ Cardinality(op.slaves) = Share(op.n)
    BY <1>1, <2>2 DEF SizeInv, Sized, SizedSlaves
  <2>4. /\ op'.pc = next /\ op'.n = op.n + 1 /\ op'.slaves = op.slaves \cup new
        /\ op'.mode = op.mode /\ op'.masters = op.masters /\ op'.zoos = op.zoos
    BY <1>1 DEF Invocation
  <2>5. Listed' /\ launcher' = launcher
    BY <1>1, <2>1, <2>4, RunAddsNew DEF Nodes
  <2>6. \A i \in op.slaves : state[i] # "none"
    BY DEF SizeInv, Listed, Nodes
  <2>7. Cardinality(op'.slaves) = Share(op.n + 1)
    <3>1. op.slaves \in SUBSET Ids
      BY <2>2
    <3>2. Cardinality(op.slaves \cup new) = Cardinality(op.slaves) + Cardinality(new)
      BY <2>1, <2>6, <3>1, NewAddUp
    <3>3. Share(op.n + 1) = Share(op.n) + GetPartition(Slaves, Zones, op.n)
      BY <2>2, ShareGrows
    <3> QED
      BY <2>1, <2>3, <2>4, <3>2, <3>3
  <2>8. ~(op.n + 1 < Zones) => op.n + 1 = Zones
    BY <2>2, <2>3
  <2>9. SizedSlaves'
    BY <2>4, <2>7, <2>8, ShareEnds
       DEF SizedSlaves, Share, EarlyPCs, AllRunPCs, GroupPCs, ReadyPCs
  <2>10. launcher = "emi" => SizedEmi'
    <3>1. launcher = "emi" => op.masters = {}
      BY <1>1, <2>2 DEF SizeInv, Sized, SizedEmi
    <3> QED
      BY <2>4, <3>1 DEF SizedEmi, AllRunPCs, ReadyPCs
  <2>11. SizedMesos'
    BY <2>4 DEF SizedMesos, AllRunPCs, ReadyPCs
  <2> QED
    BY <2>5, <2>9, <2>10, <2>11 DEF SizeInv, Sized
<1> QED
  BY <1>1, RaisingKeepsSizes DEF RunSlaves, Raises

\* mesos_euca_emi.py gets the masters it asked for.
LEMMA RunMastersKeepsSizes ==
    ASSUME IInv, SizeInv, RunMasters
    PROVE  SizeInv'
<1> USE DEF IInv, TypeInv
<1>1. ASSUME NEW new \in Allocation(MastersToRun(op.ft)),
             Run("master", new), op.pc = "run_masters",
             op' = [op EXCEPT !.masters = new, !.pc = "run_zoos"]
      PROVE  SizeInv'
  <2>1. new \in SUBSET Free /\ Cardinality(new) = MastersToRun(op.ft)
    BY <1>1 DEF Allocation
  <2>2. /\ op'.pc = "run_zoos" /\ op'.masters = new /\ op'.ft = op.ft
        /\ op'.mode = op.mode /\ op'.slaves = op.slaves /\ op'.zoos = op.zoos
    BY <1>1 DEF Invocation
  <2>3. Listed' /\ launcher' = launcher
    BY <1>1, <2>1, <2>2, RunAddsNew DEF Nodes
  <2>4. op.mode = "launch"
    BY <1>1 DEF Routed, LaunchPCs
  <2>5. SizedSlaves'
    BY <1>1, <2>2, <2>4
       DEF SizeInv, Sized, SizedSlaves, EarlyPCs, AllRunPCs, GroupPCs, ReadyPCs
  <2>6. launcher = "emi" => SizedEmi'
    BY <2>1, <2>2
       DEF SizedEmi, MastersToRun, EarlyPCs, AllRunPCs, GroupPCs, ReadyPCs
  <2>7. SizedMesos'
    BY <2>2 DEF SizedMesos, AllRunPCs, ReadyPCs
  <2> QED
    BY <2>3, <2>5, <2>6, <2>7 DEF SizeInv, Sized
<1> QED
  BY <1>1, RaisingKeepsSizes DEF RunMasters, Raises

\* The additional nodes complete the ensemble of mesos_euca_emi.py, and are that
\* of mesos_euca.py.
LEMMA RunZoosKeepsSizes ==
    ASSUME IInv, SizeInv, RunMesosZoos \/ RunEmiZoos
    PROVE  SizeInv'
<1> USE DEF IInv, TypeInv
<1> DEFINE k == IF launcher = "mesos" THEN MesosZoos(op.ft) ELSE EmiZoos(op.ft)
<1>1. ASSUME NEW new \in Allocation(k), Run("zoo", new), op.pc = "run_zoos",
             op' = [op EXCEPT !.zoos = new, !.pc = "wait", !.n = 1]
      PROVE  SizeInv'
  <2>1. new \in SUBSET Free /\ Cardinality(new) = k
    BY <1>1 DEF Allocation
  <2>2. /\ op'.pc = "wait" /\ op'.zoos = new /\ op'.ft = op.ft
        /\ op'.mode = op.mode /\ op'.slaves = op.slaves /\ op'.masters = op.masters
    BY <1>1 DEF Invocation
  <2>3. Listed' /\ launcher' = launcher
    BY <1>1, <2>1, <2>2, RunAddsNew DEF Nodes
  <2>4. op.mode = "launch" /\ op.masters \subseteq Ids /\ op.ft \in Nat
    BY <1>1, OpFields DEF Routed, LaunchPCs
  <2>5. SizedSlaves'
    BY <1>1, <2>2, <2>4
       DEF SizeInv, Sized, SizedSlaves, EarlyPCs, AllRunPCs, GroupPCs, ReadyPCs
  <2>6. launcher = "emi" => SizedEmi'
    <3> SUFFICES ASSUME launcher = "emi", op.ft > 1
                 PROVE  Cardinality(op.masters \cup new) = ZooNum
      BY <2>2 DEF SizedEmi, EarlyPCs, AllRunPCs, GroupPCs, ReadyPCs
    <3>1. Cardinality(op.masters) = op.ft
      BY <1>1, <2>4 DEF SizeInv, Sized, SizedEmi
    <3>2. Cardinality(new) = ZooNum - op.ft /\ ZooNum \in Nat
      BY <2>1, MesosAssumption DEF EmiZoos
    <3>3. \A i \in op.masters : state[i] # "none"
      BY DEF SizeInv, Listed, Nodes
    <3>4. Cardinality(op.masters \cup new) = Cardinality(op.masters) + Cardinality(new)
      BY <2>1, <2>4, <3>3, NewAddUp
    <3> QED
      BY <2>4, <3>1, <3>2, <3>4
  <2>7. launcher = "mesos" => SizedMesos'
    BY <2>1, <2>2 DEF SizedMesos, MesosZoos
  <2> QED
    BY <2>3, <2>5, <2>6, <2>7 DEF SizeInv, Sized
<1> QED
  BY <1>1, RaisingKeepsSizes DEF RunMesosZoos, RunEmiZoos, Raises

\* Once the instances are run, a launch keeps its lists, and so does every other
\* invocation that has found them.
LEMMA LaterStepKeepsSizes ==
    ASSUME IInv, SizeInv, SettingUp \/ StopNode \/ Stopped
    PROVE  SizeInv'
<1> USE DEF IInv, TypeInv
<1>1. SUFFICES ASSUME op' # Idle
      PROVE  SizeInv'
  BY RaisingKeepsSizes
<1>2. KeepsNodes /\ (\/ op.pc \in AllRunPCs /\ op'.pc \in AllRunPCs
                     \/ op'.pc = op.pc /\ op'.n = op.n
                     \/ op.mode = "launch" /\ op'.pc = "run_zoos" /\ op.pc = "start"
                     \/ op.mode # "launch")
  <2> USE <1>1 DEF KeepsNodes, Invocation, AllRunPCs, ReadyPCs, cloudVars
  <2>1. CASE StartNode
    BY <2>1 DEF StartNode, Raises
  <2>2. CASE Started
    BY <2>2 DEF Started, Goto
  <2>3. ASSUME NEW volumes \in BOOLEAN, WaitForCluster(volumes)
        PROVE  /\ KeepsNodes
               /\ op.pc \in AllRunPCs /\ op'.pc \in AllRunPCs
    BY <2>3 DEF WaitForCluster
  <2>4. CASE AttachVolume \/ VolumesAttached
    BY <2>4 DEF AttachVolume, VolumesAttached, Goto, Raises
  <2>5. CASE KeyMaster \/ KeyNode \/ NodesKeyed
    BY <2>5 DEF KeyMaster, KeyNode, NodesKeyed, Goto, Raises
  <2>6. CASE InstallPackages \/ CopyRepository
    BY <2>6 DEF InstallPackages, CopyRepository, Goto, Raises
  <2>7. CASE DeployMesosFiles \/ DeployEmiFiles
    BY <2>7 DEF DeployMesosFiles, DeployEmiFiles, Deploys, Goto, Raises
  <2>8. CASE RunSetupScript
    BY <2>8 DEF RunSetupScript, Goto
  <2>9. CASE StopNode
    BY <2>9 DEF StopNode, Raises
  <2>10. CASE Stopped
    BY <2>10 DEF Stopped, Goto, Routed
  <2> QED
    BY <2>1, <2>2, <2>3, <2>4, <2>5, <2>6, <2>7, <2>8, <2>9, <2>10 DEF SettingUp
<1>3. StaysRun
  <2>1. CASE StartNode \/ StopNode
    BY <1>1, <2>1 DEF StartNode, StopNode, StaysRun, Raises, CloudType
  <2>2. CASE ~(StartNode \/ StopNode)
    <3>1. UNCHANGED state
      BY <2>2 DEF SettingUp, Started, WaitForCluster, AttachVolume, VolumesAttached,
          KeyMaster, KeyNode, NodesKeyed, InstallPackages, CopyRepository,
          DeployMesosFiles, DeployEmiFiles, Deploys, RunSetupScript, Stopped, Raises,
          cloudVars, instanceVars
    <3> QED
      BY <3>1 DEF StaysRun
  <2> QED
    BY <2>1, <2>2
<1> QED
  BY <1>2, <1>3, SizesStay

\* get_existing_cluster lists active instances.
LEMMA FindKeepsSizes ==
    ASSUME IInv, SizeInv, FindMesosCluster \/ FindEmiCluster
    PROVE  SizeInv'
<1> USE DEF IInv, TypeInv
<1>1. SUFFICES ASSUME op' # Idle
      PROVE  SizeInv'
  BY RaisingKeepsSizes
<1>2. op.mode # "launch"
  BY DEF Routed, FindMesosCluster, FindEmiCluster
<1>3. /\ op'.mode = op.mode /\ state' = state
      /\ op'.masters = Existing("master")
      /\ op'.slaves = Existing("slaves")
      /\ op'.zoos = Existing("zoo")
  BY <1>1 DEF FindMesosCluster, FindEmiCluster, Raises, Invocation, cloudVars,
      instanceVars
<1>4. \A g : \A i \in Existing(g) : state[i] # "none"
  BY DEF Existing, IsActive
<1>5. Listed'
  BY <1>3, <1>4 DEF Listed, Nodes
<1> QED
  BY <1>2, <1>3, <1>5 DEF SizeInv, Sized

\* A destroy keeps the lists it has found.
LEMMA DestroyKeepsSizes ==
    ASSUME IInv, SizeInv,
           \/ TerminateNode \/ (\E delete \in BOOLEAN : Terminated(delete))
           \/ RevokeRules \/ (\E g \in Groups : DeleteGroup(g)) \/ AttemptEnds
    PROVE  SizeInv'
<1> USE DEF IInv, TypeInv
<1>1. op.mode = "destroy"
  BY DEF Routed, DestroyPCs, TerminateNode, Terminated, RevokeRules, DeleteGroup,
      AttemptEnds
<1>2. KeepsNodes
  <2> USE DEF KeepsNodes, Invocation, cloudVars
  <2>1. ASSUME NEW n, Attempt(n), launcher' = launcher
        PROVE  KeepsNodes
    BY <2>1 DEF Attempt
  <2>2. CASE TerminateNode
    BY <2>2 DEF TerminateNode
  <2>3. ASSUME NEW delete \in BOOLEAN, Terminated(delete)
        PROVE  KeepsNodes
    BY <2>1, <2>3 DEF Terminated
  <2>4. CASE RevokeRules
    BY <2>4 DEF RevokeRules
  <2>5. ASSUME NEW g \in Groups, DeleteGroup(g)
        PROVE  KeepsNodes
    BY <2>5 DEF DeleteGroup
  <2>6. CASE AttemptEnds
    BY <2>1, <2>6 DEF AttemptEnds, Goto
  <2> QED
    BY <2>2, <2>3, <2>4, <2>5, <2>6
<1>3. StaysRun
  BY DEF StaysRun, TerminateNode, Terminated, RevokeRules, DeleteGroup, AttemptEnds,
      CloudType, cloudVars, instanceVars
<1> QED
  BY <1>1, <1>2, <1>3, SizesStay

\* Every step of the launchers and of the cloud.
LEMMA NextKeepsSizes == IInv /\ SizeInv /\ [Next]_vars => SizeInv'
<1> SUFFICES ASSUME IInv, SizeInv, [Next]_vars PROVE SizeInv'
  OBVIOUS
<1> USE DEF IInv, TypeInv
<1>1. ASSUME NEW mode \in Modes, NEW ft \in MastersAsked, Begin(mode, ft)
      PROVE  SizeInv'
  <2>1. /\ op'.masters = {} /\ op'.slaves = {} /\ op'.zoos = {}
        /\ op'.pc \in {"groups", "find"} /\ op'.mode = mode
        /\ mode = "launch" => op'.pc = "groups"
    BY <1>1 DEF Begin, Idle
  <2>2. Listed'
    BY <2>1 DEF Listed, Nodes
  <2>3. Sized'
    BY <2>1 DEF Sized, SizedSlaves, SizedEmi, SizedMesos, EarlyPCs, AllRunPCs,
        GroupPCs, ReadyPCs
  <2> QED
    BY <2>2, <2>3 DEF SizeInv
<1>2. CASE Launching
  BY <1>2, EarlyStepKeepsSizes, RunSlavesKeepsSizes, RunMastersKeepsSizes,
     RunZoosKeepsSizes DEF Launching
<1>3. CASE SettingUp
  BY <1>3, LaterStepKeepsSizes
<1>4. CASE Ending
  <2>1. CASE Exit
    BY <2>1, RaisingKeepsSizes DEF Exit, Raises
  <2> QED
    BY <1>4, <2>1, FindKeepsSizes, LaterStepKeepsSizes, DestroyKeepsSizes DEF Ending
<1>5. CASE Crash
  BY <1>5, RaisingKeepsSizes DEF Crash, Raises
<1>6. ASSUME NEW i \in Ids, Complete(i) \/ BootFails(i)
      PROVE  SizeInv'
  <2>1. KeepsNodes /\ op'.pc = op.pc /\ op'.n = op.n
    BY <1>6 DEF Complete, BootFails, KeepsNodes
  <2>2. StaysRun
    BY <1>6 DEF Complete, BootFails, Vanish, StaysRun, CloudType
  <2> QED
    BY <2>1, <2>2, SizesStay
<1>7. CASE UNCHANGED vars
  <2>1. KeepsNodes /\ StaysRun /\ op'.pc = op.pc /\ op'.n = op.n
    BY <1>7 DEF vars, cloudVars, instanceVars, KeepsNodes, StaysRun
  <2> QED
    BY <2>1, SizesStay
<1> QED
  BY <1>1, <1>2, <1>3, <1>4, <1>5, <1>6, <1>7 DEF Next, Step

-----------------------------------------------------------------------------
(* The rules of the groups.                                                *)

\* The steps of a launch at which the loop over the groups has ended.
AfterRules ==
    \/ op.pc \in {"check", "image"} \cup RunPCs
    \/ op.pc = "start" /\ op.mode = "launch"

\* The inductive invariant, relative to IInv: the groups that the loop has been
\* through have rules.
RulesInv ==
    \A n \in DOMAIN GroupsOf :
        \/ AfterRules
        \/ op.pc = "authorize" /\ n < op.n
        \/ op.pc = "ports" /\ n <= op.n
        => rules[GroupsOf[n]] # {}

\* The groups of a launcher are groups.
LEMMA GroupsAreGroups ==
    ASSUME NEW n \in DOMAIN GroupsOf
    PROVE  GroupsOf[n] \in Groups
BY DEF GroupsOf, MesosGroups, EmiGroups, Groups

\* Steps outside the loop leave the rules, and get past it from past it only.
LEMMA RulesStay ==
    ASSUME RulesInv, launcher' = launcher,
           \/ op'.pc \notin {"authorize", "ports", "check", "image"} \cup RunPCs
              /\ (op'.pc = "start" => op'.mode # "launch")
           \/ rules' = rules /\ (AfterRules' => AfterRules)
              /\ (op'.pc \in {"authorize", "ports"} => op'.pc = op.pc /\ op'.n = op.n)
    PROVE  RulesInv'
BY DEF RulesInv, AfterRules, GroupsOf

\* The loop over the groups.
LEMMA AuthorizeKeepsRules ==
    ASSUME TypeInv, RulesInv, GetOrMakeGroup \/ AuthorizeSources \/ AuthorizePorts
    PROVE  RulesInv'
<1> USE DEF TypeInv, CloudType
<1>1. /\ op \in Invocation /\ op.n \in Nat /\ launcher' = launcher
      /\ GroupsOf' = GroupsOf /\ Len(GroupsOf) \in Nat
      /\ DOMAIN GroupsOf = 1..Len(GroupsOf)
  <2>1. launcher' = launcher
    BY DEF GetOrMakeGroup, AuthorizeSources, AuthorizePorts
  <2>2. GroupsOf' = GroupsOf
    BY <2>1 DEF GroupsOf
  <2>3. GroupsOf = MesosGroups \/ GroupsOf = EmiGroups
    BY DEF GroupsOf
  <2>4. Len(GroupsOf) \in Nat /\ DOMAIN GroupsOf = 1..Len(GroupsOf)
    BY <2>3 DEF MesosGroups, EmiGroups
  <2> QED
    BY <2>1, <2>2, <2>4, OpFields
<1>2. CASE GetOrMakeGroup
  <2>1. op'.pc = "groups" \/ (op'.pc = "authorize" /\ op'.n = 1)
    BY <1>1, <1>2 DEF GetOrMakeGroup, NextGroup, Goto, Invocation
  <2> QED
    BY <1>1, <2>1 DEF RulesInv, AfterRules, RunPCs
<1>3. ASSUME \A n \in DOMAIN GroupsOf : n <= op.n => rules'[GroupsOf[n]] # {},
             NextGroup("authorize", "check")
      PROVE  RulesInv'
  <2>1. CASE op.n < Len(GroupsOf)
    <3>1. op'.pc = "authorize" /\ op'.n = op.n + 1
      BY <1>1, <1>3, <2>1 DEF NextGroup, Invocation
    <3>2. ~AfterRules' /\ op'.pc # "ports"
      BY <3>1 DEF AfterRules, RunPCs
    <3>3. ASSUME NEW n \in DOMAIN GroupsOf, n < op'.n
          PROVE  rules'[GroupsOf[n]] # {}
      <4>1. n \in Nat /\ n <= op.n
        BY <1>1, <3>1, <3>3
      <4> QED
        BY <1>3, <4>1
    <3> HIDE DEF TypeInv
    <3> QED
      BY <1>1, <3>2, <3>3 DEF RulesInv
  <2>2. CASE ~(op.n < Len(GroupsOf))
    <3>1. \A n \in DOMAIN GroupsOf : rules'[GroupsOf[n]] # {}
      BY <1>1, <1>3, <2>2
    <3> QED
      BY <1>1, <3>1 DEF RulesInv
  <2> QED
    BY <2>1, <2>2
<1>4. CASE AuthorizeSources
  <2>1. \A n \in DOMAIN GroupsOf : n < op.n => rules[GroupsOf[n]] # {}
    BY <1>4 DEF AuthorizeSources, RulesInv
  <2> DEFINE g == GroupsOf[op.n]
  <2>2. CASE rules[g] = {}
    <3>1. rules' = [rules EXCEPT ![g] = {"sources"}] /\ op'.pc = "ports" /\ op'.n = op.n
      BY <1>1, <1>4, <2>2 DEF AuthorizeSources, Invocation
    <3>2. \A n \in DOMAIN GroupsOf : n <= op.n => rules'[GroupsOf[n]] # {}
      <4>1. ASSUME NEW n \in DOMAIN GroupsOf, n <= op.n
            PROVE  rules'[GroupsOf[n]] # {}
        <5>1. n = op.n \/ n < op.n
          BY <1>1, <4>1
        <5>2. GroupsOf[n] \in Groups
          BY GroupsAreGroups
        <5> QED
          BY <2>1, <3>1, <5>1, <5>2
      <4> QED
        BY <4>1
    <3> QED
      BY <1>1, <3>1, <3>2 DEF RulesInv, AfterRules, RunPCs
  <2>3. CASE rules[g] # {}
    <3>1. rules' = rules /\ NextGroup("authorize", "check")
      BY <1>4, <2>3 DEF AuthorizeSources
    <3>2. \A n \in DOMAIN GroupsOf : n <= op.n => rules'[GroupsOf[n]] # {}
      BY <1>1, <2>1, <2>3, <3>1
    <3> QED
      BY <1>3, <3>1, <3>2
  <2> QED
    BY <2>2, <2>3
<1>5. CASE AuthorizePorts
  <2>1. \A n \in DOMAIN GroupsOf : n <= op.n => rules[GroupsOf[n]] # {}
    BY <1>5 DEF AuthorizePorts, RulesInv
  <2>2. /\ rules' = [rules EXCEPT ![GroupsOf[op.n]] = @ \cup {"ports"}]
        /\ NextGroup("authorize", "check")
    BY <1>5 DEF AuthorizePorts
  <2>3. \A n \in DOMAIN GroupsOf : n <= op.n => rules'[GroupsOf[n]] # {}
    BY <2>1, <2>2, GroupsAreGroups
  <2> QED
    BY <1>3, <2>2, <2>3
<1> QED
  BY <1>2, <1>4, <1>5

\* The check, the images and the runs: the rules are left as they are.
LEMMA RunsKeepRules ==
    ASSUME RulesInv, op \in Invocation,
           \/ \E use \in BOOLEAN : CheckExisting(use)
           \/ ResolveImages \/ RunSlaves \/ RunMasters \/ RunMesosZoos \/ RunEmiZoos
    PROVE  RulesInv'
<1>1. AfterRules
  BY DEF AfterRules, CheckExisting, ResolveImages, RunSlaves, RunMasters, RunMesosZoos,
      RunEmiZoos, RunPCs
<1>2. rules' = rules /\ launcher' = launcher
  BY DEF CheckExisting, ResolveImages, RunSlaves, RunMasters, RunMesosZoos, RunEmiZoos,
      Run, Raises, cloudVars
<1>3. op' = Idle \/ op'.pc \notin {"authorize", "ports"}
  <2>1. ASSUME NEW use \in BOOLEAN, CheckExisting(use)
        PROVE  op' = Idle \/ op'.pc = "image"
    BY <2>1 DEF CheckExisting, Raises, Invocation
  <2>2. CASE ResolveImages
    BY <2>2 DEF ResolveImages, Invocation
  <2>3. CASE RunSlaves
    BY <2>3 DEF RunSlaves, Raises, Invocation
  <2>4. CASE RunMasters
    BY <2>4 DEF RunMasters, Raises, Invocation
  <2>5. CASE RunMesosZoos \/ RunEmiZoos
    BY <2>5 DEF RunMesosZoos, RunEmiZoos, Raises, Invocation
  <2> QED
    BY <2>1, <2>2, <2>3, <2>4, <2>5
<1> QED
  BY <1>1, <1>2, <1>3, RulesStay DEF Idle

\* Starting, waiting and setting up leave the rules; a launch comes back to its runs
\* from its start of the masters.
LEMMA SetupKeepsRules ==
    ASSUME RulesInv, op \in Invocation, Routed, SettingUp
    PROVE  RulesInv'
<1>1. launcher' = launcher /\ rules' = rules
  BY DEF SettingUp, StartNode, Started, WaitForCluster, AttachVolume, VolumesAttached,
      KeyMaster, KeyNode, NodesKeyed, InstallPackages, CopyRepository, DeployMesosFiles,
      DeployEmiFiles, Deploys, RunSetupScript, Raises, Goto, cloudVars
<1>2. CASE op' = Idle
  BY <1>1, <1>2, RulesStay DEF Idle, RunPCs
<1>3. CASE StartNode /\ op' # Idle
  <2>1. op'.pc = "start" /\ op.pc = "start" /\ op'.mode = op.mode
    BY <1>3 DEF StartNode, Raises, Invocation
  <2> QED
    BY <1>1, <2>1, RulesStay DEF AfterRules, RunPCs
<1>4. CASE Started
  <2>1. /\ op.pc = "start"
        /\ op.mode = "launch" \/ op'.pc = "wait"
        /\ op'.pc \in {"run_zoos", "wait"}
    BY <1>4 DEF Started, Goto, Invocation
  <2> QED
    BY <1>1, <2>1, RulesStay DEF AfterRules, RunPCs
<1>5. ASSUME ~StartNode, ~Started, op' # Idle
      PROVE  op'.pc \in {"wait", "attach", "key_master", "key_nodes", "packages",
                         "deploy", "script", "done"}
  <2>1. ASSUME NEW volumes \in BOOLEAN, WaitForCluster(volumes)
        PROVE  op'.pc \in {"wait", "attach", "packages"}
    BY <2>1 DEF WaitForCluster, Invocation
  <2>2. CASE AttachVolume
    BY <1>5, <2>2 DEF AttachVolume, Raises, Invocation
  <2>3. CASE VolumesAttached \/ NodesKeyed
    BY <2>3 DEF VolumesAttached, NodesKeyed, Goto, Invocation
  <2>4. CASE KeyMaster \/ KeyNode
    BY <1>5, <2>4 DEF KeyMaster, KeyNode, Raises, Invocation
  <2>5. CASE InstallPackages \/ CopyRepository
    BY <1>5, <2>5 DEF InstallPackages, CopyRepository, Raises, Goto, Invocation
  <2>6. CASE DeployMesosFiles \/ DeployEmiFiles
    BY <1>5, <2>6 DEF DeployMesosFiles, DeployEmiFiles, Deploys, Raises, Goto, Invocation
  <2>7. CASE RunSetupScript
    BY <1>5, <2>7 DEF RunSetupScript, Goto, Invocation
  <2> QED
    BY <1>5, <2>1, <2>2, <2>3, <2>4, <2>5, <2>6, <2>7 DEF SettingUp
<1>6. CASE ~StartNode /\ ~Started /\ op' # Idle
  BY <1>1, <1>5, <1>6, RulesStay DEF RunPCs
<1> QED
  BY <1>2, <1>3, <1>4, <1>6

\* What finds the cluster first does not get to the loop or past it.
LEMMA EndingKeepsRules ==
    ASSUME RulesInv, op \in Invocation, Routed, Ending
    PROVE  RulesInv'
<1>1. launcher' = launcher
  BY DEF Ending, FindMesosCluster, FindEmiCluster, StopNode, Stopped, TerminateNode,
      Terminated, RevokeRules, DeleteGroup, AttemptEnds, Exit, Raises
<1>2. CASE op' = Idle
  BY <1>1, <1>2, RulesStay DEF Idle, RunPCs
<1>3. CASE FindMesosCluster /\ op' # Idle
  <2>1. op.pc = "find" /\ op.mode # "launch"
    BY <1>3 DEF FindMesosCluster, Routed
  <2>2. /\ op'.mode = op.mode
        /\ op'.pc \in {"key_master", "terminate", op.mode}
    BY <1>3 DEF FindMesosCluster, Raises, Invocation
  <2>3. op.mode \in {"resume", "destroy", "stop", "start"}
    BY <2>1, OpFields DEF Modes
  <2> QED
    BY <1>1, <2>1, <2>2, <2>3, RulesStay DEF RunPCs
<1>4. ASSUME ~FindMesosCluster, op' # Idle
      PROVE  op'.pc \in {"key_master", "stop", "done", "terminate", "revoke", "delete"}
  <2>1. CASE FindEmiCluster
    BY <1>4, <2>1 DEF FindEmiCluster, Raises, Invocation
  <2>2. CASE StopNode
    BY <1>4, <2>2 DEF StopNode, Raises, Invocation
  <2>3. CASE TerminateNode
    BY <2>3 DEF TerminateNode, Invocation
  <2>4. ASSUME NEW delete \in BOOLEAN, Terminated(delete)
        PROVE  op'.pc \in {"revoke", "done"}
    BY <2>4 DEF Terminated, Attempt, Invocation
  <2>5. CASE RevokeRules
    BY <2>5 DEF RevokeRules, Invocation
  <2>6. ASSUME NEW g \in Groups, DeleteGroup(g)
        PROVE  op'.pc = "delete"
    BY <2>6 DEF DeleteGroup, Invocation
  <2>7. CASE Stopped \/ AttemptEnds
    BY <2>7 DEF Stopped, AttemptEnds, Attempt, Goto, Invocation
  <2> QED
    BY <1>4, <2>1, <2>2, <2>3, <2>4, <2>5, <2>6, <2>7 DEF Ending, Exit, Raises
<1>5. CASE ~FindMesosCluster /\ op' # Idle
  BY <1>1, <1>4, <1>5, RulesStay DEF RunPCs
<1> QED
  BY <1>2, <1>3, <1>5

LEMMA NextKeepsRules == IInv /\ RulesInv /\ [Next]_vars => RulesInv'
<1> SUFFICES ASSUME IInv, RulesInv, [Next]_vars PROVE RulesInv'
  OBVIOUS
<1> USE DEF IInv, TypeInv
<1>1. ASSUME NEW mode \in Modes, NEW ft \in MastersAsked, Begin(mode, ft)
      PROVE  RulesInv'
  <2>1. launcher' = launcher /\ op'.pc \in {"groups", "find"}
    BY <1>1 DEF Begin, Idle
  <2> QED
    BY <2>1, RulesStay DEF RunPCs
<1>2. CASE Launching
  BY <1>2, AuthorizeKeepsRules, RunsKeepRules DEF Launching
<1>3. CASE Crash
  BY <1>3, RulesStay DEF Crash, Raises, Idle, RunPCs
<1>4. ASSUME UNCHANGED vars \/ \E i \in Ids : Complete(i) \/ BootFails(i)
      PROVE  RulesInv'
  BY <1>4, RulesStay DEF Complete, BootFails, AfterRules, vars, cloudVars
<1> QED
  BY <1>1, <1>2, <1>3, <1>4, SetupKeepsRules, EndingKeepsRules DEF Next, Step

\* launch_cluster: when it comes to running instances, each of its groups has rules,
\* whatever destroys that failed and launches that were interrupted left there.
THEOREM RunsHaveRules == Spec => []NoBareGroups
<1>1. Init => RulesInv
  BY DEF Init, Idle, RulesInv, AfterRules, RunPCs
<1>2. RulesInv => NoBareGroups
  BY DEF RulesInv, AfterRules, RunPCs, NoBareGroups
<1> QED
  BY <1>1, <1>2, Safe, NextKeepsRules, PTL DEF Spec

-----------------------------------------------------------------------------
(* The groups are filled as Pool has it.                                   *)

\* A launch past the check has an opts.ft that was asked for.
Asked == op.mode = "launch" => op.ft \in MastersAsked

DuePCs == {"image", "run_slaves", "run_masters", "run_zoos"}

PoolsStep ==
    /\ [SlavesPool!Next]_(SlavesPool!vars)
    /\ [MastersPool!Next]_(MastersPool!vars)
    /\ [GroupPool!Next]_(GroupPool!vars)

\* No group has an instance more.
PoolsShrink == \A g : Existing(g)' \subseteq Existing(g)

\* The instances of Pool count as this module does.
LEMMA PoolsCount ==
    \A S : /\ SlavesPool!Cardinality(S) = Cardinality(S)
           /\ MastersPool!Cardinality(S) = Cardinality(S)
           /\ GroupPool!Cardinality(S) = Cardinality(S)
BY DEF SlavesPool!Cardinality, MastersPool!Cardinality, GroupPool!Cardinality,
       Cardinality

\* The zones so far get no more than all the slaves.
LEMMA ShareIsPart ==
    ASSUME NEW n \in 0..Zones
    PROVE  Share(n) <= Slaves
<1> DEFINE q == Slaves \div Zones
           r == Slaves % Zones
<1>1. q \in Nat /\ r \in 0..(Zones - 1) /\ Slaves = Zones * q + r /\ Zones \in Nat \ {0}
  BY DivMod
<1> HIDE DEF q, r
<1>2. n * q \in Nat /\ (Zones - n) * q \in Nat
  BY <1>1
<1>3. Zones * q = n * q + (Zones - n) * q
  BY <1>1
<1>4. n * q + (IF n < r THEN n ELSE r) <= Slaves
  BY <1>1, <1>2, <1>3
<1> QED
  BY <1>4 DEF Share, q, r

\* What is due keeps, or is given up, and nothing is run.
LEMMA ShrinkingRefines ==
    ASSUME PoolsShrink,
           \/ UNCHANGED <<SlavesDue, MastersDue, GroupDue>>
           \/ /\ \A g : Existing(g)' = Existing(g)
              /\ SlavesDue' = 0 /\ MastersDue' = 0 /\ GroupDue' = 0
    PROVE  PoolsStep
<1>1. CASE UNCHANGED <<SlavesDue, MastersDue, GroupDue>>
  BY <1>1 DEF PoolsShrink, PoolsStep, SlavesPool!Next, SlavesPool!Shrink,
      MastersPool!Next, MastersPool!Shrink, GroupPool!Next, GroupPool!Shrink
<1>2. CASE /\ \A g : Existing(g)' = Existing(g)
           /\ SlavesDue' = 0 /\ MastersDue' = 0 /\ GroupDue' = 0
  BY <1>2 DEF PoolsStep, SlavesPool!Next, SlavesPool!GiveUp,
      MastersPool!Next, MastersPool!GiveUp, GroupPool!Next, GroupPool!GiveUp
<1> QED
  BY <1>1, <1>2

\* Nothing is due before the check and after the runs.
LEMMA NothingIsDue ==
    ASSUME op.pc \notin DuePCs
    PROVE  SlavesDue = 0 /\ MastersDue = 0 /\ GroupDue = 0
BY DEF DuePCs, SlavesDue, MastersDue, GroupDue

\* The end of an invocation gives up what is due.
LEMMA RaisingRefines ==
    ASSUME IInv, Quiet, op' = Idle
    PROVE  PoolsStep
<1>1. op'.pc = "idle"
  BY DEF Idle
<1>2. SlavesDue' = 0 /\ MastersDue' = 0 /\ GroupDue' = 0
  BY <1>1 DEF SlavesDue, MastersDue, GroupDue
<1>3. \A g : Existing(g)' = Existing(g)
  BY QuietKeepsCloud DEF IInv, TypeInv
<1> QED
  BY <1>2, <1>3, ShrinkingRefines DEF PoolsShrink

\* The steps that are not among the runs.
LEMMA OtherStepRefines ==
    ASSUME PoolsShrink, op.pc \notin DuePCs, op'.pc \notin DuePCs
    PROVE  PoolsStep
<1>1. SlavesDue' = 0 /\ MastersDue' = 0 /\ GroupDue' = 0
  BY DEF DuePCs, SlavesDue, MastersDue, GroupDue
<1> QED
  BY <1>1, NothingIsDue, ShrinkingRefines

\* Starting, stopping and terminating instances, and what the cloud does to them.
LEMMA NodeStepShrinks ==
    ASSUME CloudType,
           \/ StartNode \/ StopNode \/ TerminateNode
           \/ \E i \in Ids : Complete(i) \/ BootFails(i)
    PROVE  PoolsShrink
<1>1. \A i \in Ids : IsActive(i)' => IsActive(i) /\ group'[i] = group[i]
  <2>1. ASSUME NEW i \in Ids, Complete(i) \/ BootFails(i)
        PROVE  \A j \in Ids : IsActive(j)' => IsActive(j) /\ group'[j] = group[j]
    BY <2>1 DEF Complete, BootFails, Vanish, CloudType, IsActive
  <2>2. CASE StartNode
    BY <2>2 DEF StartNode, CloudType, IsActive, Raises, cloudVars, instanceVars
  <2>3. CASE StopNode
    BY <2>3 DEF StopNode, CloudType, IsActive, Raises, cloudVars, instanceVars
  <2>4. CASE TerminateNode
    BY <2>4 DEF TerminateNode, CloudType, IsActive
  <2> QED
    BY <2>1, <2>2, <2>3, <2>4
<1> QED
  BY <1>1 DEF PoolsShrink, Existing

\* The check claims the groups a launch is to fill.
LEMMA CheckRefines ==
    ASSUME IInv, SizeInv, Asked, NEW use \in BOOLEAN, CheckExisting(use)
    PROVE  PoolsStep
<1> USE DEF IInv, TypeInv
<1>1. CASE Raises
  BY <1>1, RaisingRefines DEF Raises, Quiet
<1>2. CASE ~Raises
  <2>1. /\ op' = [op EXCEPT !.masters = Existing("master"), !.pc = "image"]
        /\ Quiet /\ op.pc = "check"
        /\ Existing("slaves") = {}
        /\ launcher = "emi" => Existing("group") = {}
    BY <1>2 DEF CheckExisting, MesosRefuses, EmiRefuses, Quiet, CloudType
  <2>2. /\ op'.pc = "image" /\ op'.masters = Existing("master")
        /\ op'.slaves = op.slaves /\ op'.ft = op.ft
    BY <2>1 DEF Invocation
  <2>3. launcher' = launcher /\ \A g : Existing(g)' = Existing(g)
    BY <2>1, QuietKeepsCloud
  <2>4. op.slaves = {} /\ op.mode = "launch"
    BY <2>1 DEF SizeInv, Sized, SizedSlaves, EarlyPCs, Routed, LaunchPCs
  <2>5. launcher = "emi" => Existing("master") = {}
    BY DEF Located, Existing
  <2>6. op.ft \in MastersAsked /\ op.ft \in Nat /\ Slaves \in Nat
    BY <2>4, MesosAssumption DEF Asked
  <2>7. EmiNodes(op.ft) \in Nat
    BY <2>6, MesosAssumption DEF EmiNodes, EmiZoos
  <2>8. Cardinality({}) = 0
    BY FS_EmptySet
  <2>9. [SlavesPool!Next]_(SlavesPool!vars)
    <3>1. SlavesDue = 0 /\ SlavesDue' = IF launcher = "mesos" THEN Slaves ELSE 0
      BY <2>1, <2>2, <2>3, <2>4, <2>6, <2>8 DEF SlavesDue
    <3> QED
      BY <2>1, <2>3, <3>1 DEF SlavesPool!Next, SlavesPool!Claim, SlavesPool!Shrink
  <2>10. [MastersPool!Next]_(MastersPool!vars)
    <3>1. /\ MastersDue = 0
          /\ MastersDue' = IF launcher = "mesos" /\ Existing("master") = {} THEN 1 ELSE 0
      BY <2>1, <2>2, <2>3 DEF MastersDue
    <3> QED
      BY <2>3, <3>1 DEF MastersPool!Next, MastersPool!Claim, MastersPool!Shrink
  <2>11. [GroupPool!Next]_(GroupPool!vars)
    <3>1. /\ GroupDue = 0
          /\ GroupDue' = IF launcher = "emi" THEN EmiNodes(op.ft) ELSE 0
      <4>1. launcher = "emi" =>
                GroupDue' = EmiNodes(op.ft) - Cardinality({}) - Cardinality({})
        BY <2>2, <2>3, <2>4, <2>5 DEF GroupDue, EmiNodes, EmiZoos
      <4> QED
        BY <2>1, <2>2, <2>3, <2>7, <2>8, <4>1 DEF GroupDue
    <3> QED
      BY <2>1, <2>3, <2>6, <3>1 DEF GroupPool!Next, GroupPool!Claim, GroupPool!Shrink
  <2> QED
    BY <2>9, <2>10, <2>11 DEF PoolsStep
<1> QED
  BY <1>1, <1>2

\* The images are found, or the launch ends.
LEMMA ImagesRefine ==
    ASSUME IInv, ResolveImages
    PROVE  PoolsStep
<1> USE DEF IInv, TypeInv
<1>1. Quiet /\ op.pc = "image"
  BY DEF ResolveImages, Quiet
<1>2. CASE op' = Idle
  BY <1>1, <1>2, RaisingRefines
<1>3. CASE op' = [op EXCEPT !.pc = "run_slaves", !.n = 0]
  <2>1. /\ op'.pc = "run_slaves" /\ op'.masters = op.masters
        /\ op'.slaves = op.slaves /\ op'.ft = op.ft
    BY <1>3 DEF Invocation
  <2>2. launcher' = launcher /\ \A g : Existing(g)' = Existing(g)
    BY <1>1, QuietKeepsCloud
  <2>3. UNCHANGED <<SlavesDue, MastersDue, GroupDue>>
    BY <1>1, <2>1, <2>2 DEF SlavesDue, MastersDue, GroupDue, EmiNodes, EmiZoos
  <2> QED
    BY <2>2, <2>3, ShrinkingRefines DEF PoolsShrink
<1> QED
  BY <1>2, <1>3 DEF ResolveImages
\* What a run adds to a group.
LEMMA RunAddsMembers ==
    ASSUME IInv, NEW new \in SUBSET Free,
           NEW role \in {"master", "slaves", "zoo"}, Run(role, new),
           NEW h, h = GroupOf(role)
    PROVE  /\ launcher' = launcher
           /\ \A g : g # h => Existing(g)' = Existing(g)
           /\ Existing(h) \subseteq Existing(h)'
           /\ Existing(h)' \subseteq Ids
           /\ Existing(h)' \ Existing(h) = new
           /\ Cardinality(new) \in Nat
<1> USE DEF IInv, TypeInv
<1>1. /\ launcher' = launcher
      /\ \A g : g # h => Existing(g)' = Existing(g)
      /\ Existing(h)' = Existing(h) \cup new
  <2>1. /\ UNCHANGED launcher
        /\ \A g : g # GroupOf(role) => Existing(g)' = Existing(g)
        /\ Existing(GroupOf(role))' = Existing(GroupOf(role)) \cup new
    BY RunAddsInstances
  <2>2. h = GroupOf(role)'
    BY <2>1 DEF GroupOf
  <2> QED
    BY <2>1, <2>2
<1>2. Existing(h) \cap new = {} /\ new \subseteq Ids
  BY DEF Existing, IsActive, Free
<1>3. IsFiniteSet(new)
  BY <1>2, MesosAssumption, FS_Subset
<1>4. Existing(h) \subseteq Ids
  BY DEF Existing
<1> QED
  BY <1>1, <1>2, <1>3, <1>4, FS_CardinalityType

\* A zone's slaves are taken from what is due.
LEMMA RunSlavesRefines ==
    ASSUME IInv, SizeInv, Asked, RunSlaves
    PROVE  PoolsStep
<1> USE DEF IInv, TypeInv
<1>1. CASE Raises
  BY <1>1, RaisingRefines DEF Raises, Quiet
<1> DEFINE next == IF op.n + 1 < Zones THEN "run_slaves"
                   ELSE IF op.masters # {} THEN "start" ELSE "run_masters"
<1>2. ASSUME NEW new \in Allocation(GetPartition(Slaves, Zones, op.n)),
             Run("slaves", new), op.pc = "run_slaves",
             op' = [op EXCEPT !.slaves = @ \cup new, !.n = @ + 1,
                              !.todo = op.masters, !.pc = next]
      PROVE  PoolsStep
  <2>1. /\ new \in SUBSET Free
        /\ Cardinality(new) = GetPartition(Slaves, Zones, op.n)
    BY <1>2 DEF Allocation
  <2>2. /\ op.mode = "launch" /\ op.n \in Nat /\ op.slaves \in SUBSET Ids
        /\ op.ft \in MastersAsked /\ op.ft \in Nat /\ ZooNum \in Nat
        /\ Zones \in Nat \ {0} /\ Slaves \in Nat
    BY <1>2, OpFields, MesosAssumption DEF Routed, LaunchPCs, Asked
  <2>3. /\ op.n < Zones /\ Cardinality(op.slaves) = Share(op.n)
        /\ launcher = "emi" => op.masters = {}
    BY <1>2, <2>2 DEF SizeInv, Sized, SizedSlaves, SizedEmi
  <2>4. /\ op'.pc = next /\ op'.slaves = op.slaves \cup new
        /\ op'.masters = op.masters /\ op'.ft = op.ft
    BY <1>2 DEF Invocation
  <2>5. /\ launcher' = launcher
        /\ \A h : h = GroupOf("slaves") =>
               /\ \A g : g # h => Existing(g)' = Existing(g)
               /\ Existing(h) \subseteq Existing(h)'
               /\ Existing(h)' \subseteq Ids
               /\ Existing(h)' \ Existing(h) = new
        /\ Cardinality(new) \in Nat
    BY <1>2, <2>1, RunAddsMembers
  <2>6. /\ Cardinality(op'.slaves) = Cardinality(op.slaves) + Cardinality(new)
        /\ Cardinality(op.slaves) \in Nat
    <3>1. \A i \in op.slaves : state[i] # "none"
      BY DEF SizeInv, Listed, Nodes
    <3> QED
      BY <2>1, <2>2, <2>4, <3>1, NewAddUp
  <2>7. /\ Cardinality(op'.slaves) <= Slaves
        /\ op'.pc # "run_slaves" => Cardinality(op'.slaves) = Slaves
    <3>1. Cardinality(op'.slaves) = Share(op.n + 1)
      BY <2>1, <2>2, <2>3, <2>6, ShareGrows
    <3>2. op'.pc # "run_slaves" => op.n + 1 = Zones
      BY <2>2, <2>3, <2>4
    <3>3. op.n + 1 \in 0..Zones
      BY <2>2, <2>3
    <3> QED
      BY <3>1, <3>2, <3>3, ShareIsPart, ShareEnds
  <2>8. op'.pc \in {"run_slaves", "start", "run_masters"}
        /\ (op'.pc = "start" <=> op'.pc # "run_slaves" /\ op.masters # {})
    BY <2>4
  <2> HIDE DEF next
  <2>9. CASE launcher = "mesos"
    <3>1. GroupOf("slaves") = "slaves"
      BY <2>9 DEF GroupOf
    <3>2. /\ SlavesDue = Slaves - Cardinality(op.slaves)
          /\ SlavesDue' = Slaves - Cardinality(op'.slaves)
      <4>1. SlavesDue = Slaves - Cardinality(op.slaves)
        BY <1>2, <2>9 DEF SlavesDue
      <4>2. CASE op'.pc = "run_slaves"
        BY <2>5, <2>9, <4>1, <4>2 DEF SlavesDue
      <4>3. CASE op'.pc # "run_slaves"
        BY <2>2, <2>7, <2>8, <4>1, <4>3 DEF SlavesDue
      <4> QED
        BY <4>2, <4>3
    <3>3. SlavesDue' = SlavesDue - Cardinality(new) /\ SlavesDue' >= 0
      BY <2>2, <2>5, <2>6, <2>7, <3>2
    <3>4. SlavesPool!Next
      BY <2>5, <3>1, <3>3, PoolsCount DEF SlavesPool!Next, SlavesPool!Grow
    <3>5. /\ UNCHANGED <<MastersDue, GroupDue>>
          /\ Existing("master")' = Existing("master")
          /\ Existing("group")' = Existing("group")
      BY <1>2, <2>4, <2>5, <2>8, <2>9, <3>1 DEF MastersDue, GroupDue
    <3> QED
      BY <3>4, <3>5 DEF PoolsStep, MastersPool!vars, GroupPool!vars
  <2>10. CASE launcher = "emi"
    <3>1. GroupOf("slaves") = "group"
      BY <2>10 DEF GroupOf
    <3>2. op.masters = {} /\ op'.masters = {} /\ Cardinality({}) = 0
      BY <2>3, <2>4, <2>10, FS_EmptySet
    <3>3. EmiNodes(op.ft)' = EmiNodes(op.ft) /\ EmiNodes(op.ft) >= Slaves
          /\ EmiNodes(op.ft) \in Nat
      BY <2>2, <2>4 DEF EmiNodes, EmiZoos
    <3>4. /\ GroupDue = EmiNodes(op.ft) - Cardinality(op.slaves)
          /\ GroupDue' = EmiNodes(op.ft) - Cardinality(op'.slaves)
      <4>1. GroupDue = EmiNodes(op.ft) - Cardinality(op.slaves) - 0
        BY <1>2, <2>10, <3>2 DEF GroupDue
      <4>2. GroupDue' = EmiNodes(op.ft) - Cardinality(op'.slaves) - 0
        BY <2>5, <2>8, <2>10, <3>2, <3>3 DEF GroupDue
      <4>3. Cardinality(op.slaves) \in Nat /\ Cardinality(op'.slaves) \in Nat
        BY <2>5, <2>6
      <4> QED
        BY <3>3, <4>1, <4>2, <4>3
    <3>5. GroupDue' = GroupDue - Cardinality(new) /\ GroupDue' >= 0
      BY <2>2, <2>5, <2>6, <2>7, <3>3, <3>4
    <3>6. GroupPool!Next
      BY <2>5, <3>1, <3>5, PoolsCount DEF GroupPool!Next, GroupPool!Grow
    <3>7. /\ UNCHANGED <<SlavesDue, MastersDue>>
          /\ Existing("master")' = Existing("master")
          /\ Existing("slaves")' = Existing("slaves")
      BY <2>5, <2>10, <3>1 DEF SlavesDue, MastersDue
    <3> QED
      BY <3>6, <3>7 DEF PoolsStep, SlavesPool!vars, MastersPool!vars
  <2> QED
    BY <2>9, <2>10 DEF CloudType
<1> QED
  BY <1>1, <1>2 DEF RunSlaves

\* The masters are.
LEMMA RunMastersRefines ==
    ASSUME IInv, SizeInv, Asked, RunMasters
    PROVE  PoolsStep
<1> USE DEF IInv, TypeInv
<1>1. CASE Raises
  BY <1>1, RaisingRefines DEF Raises, Quiet
<1>2. ASSUME NEW new \in Allocation(MastersToRun(op.ft)),
             Run("master", new), op.pc = "run_masters",
             op' = [op EXCEPT !.masters = new, !.pc = "run_zoos"]
      PROVE  PoolsStep
  <2>1. new \in SUBSET Free /\ Cardinality(new) = MastersToRun(op.ft)
    BY <1>2 DEF Allocation
  <2>2. /\ op'.pc = "run_zoos" /\ op'.masters = new /\ op'.ft = op.ft
        /\ op'.slaves = op.slaves
    BY <1>2 DEF Invocation
  <2>3. op.mode = "launch" /\ op.masters = {} /\ Cardinality(op.slaves) = Slaves
    BY <1>2 DEF Routed, LaunchPCs, SafeLaunch, SizeInv, Sized, SizedSlaves
  <2>4. op.ft \in Nat /\ ZooNum \in Nat /\ Slaves \in Nat
    BY OpFields, MesosAssumption
  <2>5. /\ launcher' = launcher
        /\ \A h : h = GroupOf("master") =>
               /\ \A g : g # h => Existing(g)' = Existing(g)
               /\ Existing(h) \subseteq Existing(h)'
               /\ Existing(h)' \subseteq Ids
               /\ Existing(h)' \ Existing(h) = new
    BY <1>2, <2>1, RunAddsMembers
  <2>6. CASE launcher = "mesos"
    <3>1. GroupOf("master") = "master" /\ Cardinality(new) = 1
      BY <2>1, <2>6 DEF GroupOf, MastersToRun
    <3>2. MastersDue = 1 /\ MastersDue' = 0
      BY <1>2, <2>2, <2>3, <2>6 DEF MastersDue
    <3>3. MastersPool!Next
      BY <2>5, <3>1, <3>2, PoolsCount DEF MastersPool!Next, MastersPool!Grow
    <3>4. /\ UNCHANGED <<SlavesDue, GroupDue>>
          /\ Existing("slaves")' = Existing("slaves")
          /\ Existing("group")' = Existing("group")
      BY <1>2, <2>2, <2>5, <2>6, <3>1 DEF SlavesDue, GroupDue
    <3> QED
      BY <3>3, <3>4 DEF PoolsStep, SlavesPool!vars, GroupPool!vars
  <2>7. CASE launcher = "emi"
    <3>1. GroupOf("master") = "group" /\ Cardinality(new) = op.ft
      BY <2>1, <2>7 DEF GroupOf, MastersToRun
    <3>2. /\ GroupDue = EmiNodes(op.ft) - Slaves - 0
          /\ GroupDue' = EmiNodes(op.ft) - Slaves - op.ft
      <4>1. GroupDue = EmiNodes(op.ft) - Slaves - Cardinality({})
        BY <1>2, <2>3, <2>7 DEF GroupDue
      <4>2. EmiNodes(op.ft)' = EmiNodes(op.ft)
        BY <2>2 DEF EmiNodes, EmiZoos
      <4>3. GroupDue' = EmiNodes(op.ft) - Slaves - op.ft
        BY <2>2, <2>3, <2>5, <2>7, <3>1, <4>2 DEF GroupDue
      <4> QED
        BY <4>1, <4>3, FS_EmptySet
    <3>3. EmiNodes(op.ft) \in Nat /\ EmiNodes(op.ft) >= Slaves + op.ft
      BY <2>4 DEF EmiNodes, EmiZoos
    <3>4. GroupDue' = GroupDue - Cardinality(new) /\ GroupDue' >= 0
      BY <2>4, <3>1, <3>2, <3>3
    <3>5. GroupPool!Next
      BY <2>5, <3>1, <3>4, PoolsCount DEF GroupPool!Next, GroupPool!Grow
    <3>6. /\ UNCHANGED <<SlavesDue, MastersDue>>
          /\ Existing("master")' = Existing("master")
          /\ Existing("slaves")' = Existing("slaves")
      BY <2>5, <2>7, <3>1 DEF SlavesDue, MastersDue
    <3> QED
      BY <3>5, <3>6 DEF PoolsStep, SlavesPool!vars, MastersPool!vars
  <2> QED
    BY <2>6, <2>7 DEF CloudType
<1> QED
  BY <1>1, <1>2 DEF RunMasters

\* The additional nodes of mesos_euca_emi.py complete what was due.
LEMMA RunZoosRefines ==
    ASSUME IInv, SizeInv, RunMesosZoos \/ RunEmiZoos
    PROVE  PoolsStep
<1> USE DEF IInv, TypeInv
<1>1. CASE Raises
  BY <1>1, RaisingRefines DEF Raises, Quiet
<1> DEFINE k == IF launcher = "mesos" THEN MesosZoos(op.ft) ELSE EmiZoos(op.ft)
<1>2. ASSUME NEW new \in Allocation(k), Run("zoo", new), op.pc = "run_zoos",
             launcher = "emi" => EmiZoos(op.ft) >= 0,
             op' = [op EXCEPT !.zoos = new, !.pc = "wait", !.n = 1]
      PROVE  PoolsStep
  <2>1. new \in SUBSET Free /\ Cardinality(new) = k
    BY <1>2 DEF Allocation
  <2>2. op'.pc = "wait"
    BY <1>2 DEF Invocation
  <2>3. SlavesDue' = 0 /\ MastersDue' = 0 /\ GroupDue' = 0
    BY <2>2 DEF SlavesDue, MastersDue, GroupDue
  <2>4. SlavesDue = 0 /\ MastersDue = 0
    BY <1>2 DEF SlavesDue, MastersDue
  <2>5. /\ launcher' = launcher
        /\ \A h : h = GroupOf("zoo") =>
               /\ \A g : g # h => Existing(g)' = Existing(g)
               /\ Existing(h) \subseteq Existing(h)'
               /\ Existing(h)' \subseteq Ids
               /\ Existing(h)' \ Existing(h) = new
    BY <1>2, <2>1, RunAddsMembers
  <2>6. GroupOf("zoo") = IF launcher = "mesos" THEN "zoo" ELSE "group"
    BY DEF GroupOf
  <2>7. /\ Existing("master")' = Existing("master")
        /\ Existing("slaves")' = Existing("slaves")
    BY <2>5, <2>6
  <2>8. CASE launcher = "mesos"
    <3>1. GroupDue = 0 /\ Existing("group")' = Existing("group")
      BY <2>5, <2>6, <2>8 DEF GroupDue
    <3> QED
      BY <2>3, <2>4, <2>7, <3>1
         DEF PoolsStep, SlavesPool!vars, MastersPool!vars, GroupPool!vars
  <2>9. CASE launcher = "emi"
    <3>1. op.mode = "launch" /\ op.ft \in Nat /\ ZooNum \in Nat /\ Slaves \in Nat
      BY <1>2, OpFields, MesosAssumption DEF Routed, LaunchPCs
    <3>2. Cardinality(op.slaves) = Slaves /\ Cardinality(op.masters) = op.ft
      BY <1>2, <2>9, <3>1 DEF SizeInv, Sized, SizedSlaves, SizedEmi
    <3>3. GroupDue = EmiNodes(op.ft) - Slaves - op.ft
      BY <1>2, <2>9, <3>2 DEF GroupDue
    <3>4. GroupDue = EmiZoos(op.ft)
      BY <1>2, <2>9, <3>1, <3>3 DEF EmiNodes, EmiZoos
    <3>5. GroupDue' = GroupDue - Cardinality(new) /\ GroupDue' >= 0
      BY <2>1, <2>3, <2>9, <3>1, <3>4 DEF EmiZoos
    <3>6. GroupPool!Next
      BY <2>5, <2>6, <2>9, <3>5, PoolsCount DEF GroupPool!Next, GroupPool!Grow
    <3> QED
      BY <2>3, <2>4, <2>7, <3>6 DEF PoolsStep, SlavesPool!vars, MastersPool!vars
  <2> QED
    BY <2>8, <2>9 DEF CloudType
<1>3. CASE RunMesosZoos /\ ~Raises
  BY <1>2, <1>3 DEF RunMesosZoos
<1>4. CASE RunEmiZoos /\ ~Raises
  BY <1>2, <1>4 DEF RunEmiZoos
<1> QED
  BY <1>1, <1>3, <1>4
\* The steps of launch_cluster and of the setup that are not runs.
LEMMA SetupStepRefines ==
    ASSUME IInv, SizeInv,
           \/ GetOrMakeGroup \/ AuthorizeSources \/ AuthorizePorts
           \/ SettingUp \/ StopNode \/ Stopped
    PROVE  PoolsStep
<1> USE DEF IInv, TypeInv
<1>1. CASE Raises
  BY <1>1, RaisingRefines DEF Raises, Quiet
<1> SUFFICES ASSUME ~Raises PROVE PoolsStep
  BY <1>1
<1>2. PoolsShrink
  <2>1. CASE StartNode \/ StopNode
    BY <2>1, NodeStepShrinks
  <2>2. CASE ~(StartNode \/ StopNode)
    <3>1. UNCHANGED <<group, state>>
      BY <2>2 DEF GetOrMakeGroup, AuthorizeSources, AuthorizePorts, SettingUp, Started,
          WaitForCluster, AttachVolume, VolumesAttached, KeyMaster, KeyNode,
          NodesKeyed, InstallPackages, CopyRepository, DeployMesosFiles,
          DeployEmiFiles, Deploys, RunSetupScript, Stopped, cloudVars, instanceVars
    <3> QED
      BY <3>1 DEF PoolsShrink, Existing, IsActive
  <2> QED
    BY <2>1, <2>2
<1>3. CASE Started
  <2>1. /\ op.pc = "start" /\ launcher' = launcher
        /\ op'.pc = IF op.mode = "launch" THEN "run_zoos" ELSE "wait"
    BY <1>3 DEF Started, Goto, Invocation
  <2>2. launcher = "mesos"
    BY <2>1 DEF Routed, SizeInv, Sized, SizedEmi, SetupPCs, CloudType
  <2>3. SlavesDue' = 0 /\ MastersDue' = 0 /\ GroupDue' = 0
    BY <2>1, <2>2 DEF SlavesDue, MastersDue, GroupDue
  <2>4. op.pc \notin DuePCs
    BY <2>1 DEF DuePCs
  <2> QED
    BY <1>2, <2>3, <2>4, NothingIsDue, ShrinkingRefines
<1>4. CASE ~Started
  <2>1. op.pc \notin DuePCs /\ op'.pc \notin DuePCs
    <3> USE <1>4 DEF DuePCs, Invocation
    <3>1. CASE GetOrMakeGroup \/ AuthorizeSources \/ AuthorizePorts
      <4>1. op.pc \in GroupPCs /\ op.n \in 1..Len(GroupsOf)
        BY <3>1 DEF InBounds, GroupPCs, GetOrMakeGroup, AuthorizeSources,
            AuthorizePorts
      <4>2. CASE NextGroup("authorize", "check") \/ NextGroup("groups", "authorize")
        BY <4>1, <4>2 DEF NextGroup, Goto, GroupPCs
      <4>3. CASE op' = [op EXCEPT !.pc = "ports"]
        BY <4>1, <4>3 DEF GroupPCs
      <4> QED
        BY <3>1, <4>2, <4>3 DEF GetOrMakeGroup, AuthorizeSources, AuthorizePorts
    <3>2. CASE StartNode \/ StopNode \/ Stopped
      BY <3>2 DEF StartNode, StopNode, Stopped, Goto
    <3>3. ASSUME NEW volumes \in BOOLEAN, WaitForCluster(volumes)
          PROVE  op.pc \notin DuePCs /\ op'.pc \notin DuePCs
      BY <3>3 DEF WaitForCluster
    <3>4. CASE AttachVolume \/ VolumesAttached \/ KeyMaster \/ KeyNode \/ NodesKeyed
      BY <3>4 DEF AttachVolume, VolumesAttached, KeyMaster, KeyNode, NodesKeyed, Goto
    <3>5. CASE \/ InstallPackages \/ CopyRepository \/ DeployMesosFiles
               \/ DeployEmiFiles
      BY <3>5 DEF InstallPackages, CopyRepository, DeployMesosFiles, DeployEmiFiles,
          Deploys, Goto
    <3>6. CASE RunSetupScript
      <4>1. op.pc = "script" /\ (Goto("done") \/ op' = Idle)
        BY <3>6 DEF RunSetupScript
      <4>2. CASE Goto("done")
        BY <4>1, <4>2 DEF Goto
      <4>3. CASE op' = Idle
        BY <4>1, <4>3 DEF Idle
      <4> QED
        BY <4>1, <4>2, <4>3
    <3> QED
      BY <3>1, <3>2, <3>3, <3>4, <3>5, <3>6 DEF SettingUp
  <2> QED
    BY <1>2, <2>1, OtherStepRefines
<1> QED
  BY <1>3, <1>4

\* resume, destroy, stop and start run nothing.
LEMMA EndingRefines ==
    ASSUME IInv,
           \/ FindMesosCluster \/ FindEmiCluster \/ TerminateNode
           \/ \E delete \in BOOLEAN : Terminated(delete)
           \/ RevokeRules \/ (\E g \in Groups : DeleteGroup(g)) \/ AttemptEnds
    PROVE  PoolsStep
<1> USE DEF IInv, TypeInv
<1>1. CASE Raises
  BY <1>1, RaisingRefines DEF Raises, Quiet
<1> SUFFICES ASSUME ~Raises PROVE PoolsStep
  BY <1>1
<1>2. PoolsShrink
  <2>1. CASE TerminateNode
    BY <2>1, NodeStepShrinks
  <2>2. CASE ~TerminateNode
    <3>1. UNCHANGED <<group, state>>
      BY <2>2 DEF FindMesosCluster, FindEmiCluster, Terminated, RevokeRules,
          DeleteGroup, AttemptEnds, cloudVars, instanceVars
    <3> QED
      BY <3>1 DEF PoolsShrink, Existing, IsActive
  <2> QED
    BY <2>1, <2>2
<1>3. op.pc \notin DuePCs /\ op'.pc \notin DuePCs
  <2> USE DEF DuePCs, Invocation
  <2>1. CASE FindMesosCluster
    <3>1. op.pc = "find"
      BY <2>1 DEF FindMesosCluster
    <3>2. op'.pc = IF op.mode = "resume" THEN "key_master"
                   ELSE IF op.mode = "destroy" THEN "terminate" ELSE op.mode
      BY <2>1 DEF FindMesosCluster
    <3> QED
      BY <3>1, <3>2, OpFields DEF Modes
  <2>2. CASE FindEmiCluster
    BY <2>2 DEF FindEmiCluster
  <2>3. CASE TerminateNode \/ RevokeRules
    BY <2>3 DEF TerminateNode, RevokeRules
  <2>4. ASSUME NEW delete \in BOOLEAN, Terminated(delete)
        PROVE  op.pc \notin DuePCs /\ op'.pc \notin DuePCs
    BY <2>4 DEF Terminated, Attempt
  <2>5. ASSUME NEW g \in Groups, DeleteGroup(g)
        PROVE  op.pc \notin DuePCs /\ op'.pc \notin DuePCs
    BY <2>5 DEF DeleteGroup
  <2>6. CASE AttemptEnds
    BY <2>6 DEF AttemptEnds, Attempt, Goto
  <2> QED
    BY <2>1, <2>2, <2>3, <2>4, <2>5, <2>6
<1> QED
  BY <1>2, <1>3, OtherStepRefines

\* opts.ft is what was asked for, whatever happens to the launch.
LEMMA NextIsAsked == IInv /\ Asked /\ [Next]_vars => Asked'
<1> SUFFICES ASSUME IInv, Asked, [Next]_vars PROVE Asked'
  OBVIOUS
<1> USE DEF IInv, TypeInv, Asked
<1>1. ASSUME NEW mode \in Modes, NEW ft \in MastersAsked, Begin(mode, ft)
      PROVE  Asked'
  <2>1. CASE mode = "launch"
    BY <1>1, <2>1 DEF Begin, Idle
  <2>2. CASE mode # "launch"
    BY <1>1, <2>2 DEF Begin, Idle
  <2> QED
    BY <2>1, <2>2
<1>2. CASE op' = Idle
  BY <1>2 DEF Idle
<1>3. CASE op'.mode = op.mode /\ op'.ft = op.ft
  BY <1>3
<1>4. ASSUME NEW n, Attempt(n)
      PROVE  Asked'
  <2>1. op'.mode = op.mode /\ op'.ft = op.ft
    BY <1>4 DEF Attempt, Invocation
  <2> QED
    BY <1>3, <2>1
<1>5. CASE Launching
  <2> USE DEF Invocation
  <2>1. CASE GetOrMakeGroup \/ AuthorizeSources \/ AuthorizePorts
    <3>1. CASE NextGroup("authorize", "check") \/ NextGroup("groups", "authorize")
      <4>1. op'.mode = op.mode /\ op'.ft = op.ft
        BY <3>1 DEF NextGroup, Goto
      <4> QED
        BY <1>3, <4>1
    <3>2. CASE op' = [op EXCEPT !.pc = "ports"]
      BY <1>3, <3>2
    <3> QED
      BY <2>1, <3>1, <3>2 DEF GetOrMakeGroup, AuthorizeSources, AuthorizePorts
  <2>2. ASSUME NEW use \in BOOLEAN, CheckExisting(use)
        PROVE  Asked'
    BY <1>2, <1>3, <2>2 DEF CheckExisting, Raises
  <2>3. CASE ResolveImages
    BY <1>2, <1>3, <2>3 DEF ResolveImages
  <2>4. CASE RunSlaves \/ RunMasters
    BY <1>2, <1>3, <2>4 DEF RunSlaves, RunMasters, Raises
  <2>5. CASE RunMesosZoos \/ RunEmiZoos
    BY <1>2, <1>3, <2>5 DEF RunMesosZoos, RunEmiZoos, Raises
  <2> QED
    BY <1>5, <2>1, <2>2, <2>3, <2>4, <2>5 DEF Launching
<1>6. CASE SettingUp
  <2> USE DEF Invocation
  <2>1. CASE StartNode \/ Started
    BY <1>2, <1>3, <2>1 DEF StartNode, Started, Goto, Raises
  <2>2. ASSUME NEW volumes \in BOOLEAN, WaitForCluster(volumes)
        PROVE  Asked'
    BY <1>3, <2>2 DEF WaitForCluster
  <2>3. CASE AttachVolume \/ VolumesAttached \/ KeyMaster \/ KeyNode \/ NodesKeyed
    BY <1>2, <1>3, <2>3 DEF AttachVolume, VolumesAttached, KeyMaster, KeyNode,
       NodesKeyed, Goto, Raises
  <2>4. CASE \/ InstallPackages \/ CopyRepository \/ DeployMesosFiles
             \/ DeployEmiFiles \/ RunSetupScript
    BY <1>2, <1>3, <2>4 DEF InstallPackages, CopyRepository, DeployMesosFiles,
       DeployEmiFiles, Deploys, RunSetupScript, Goto, Raises
  <2> QED
    BY <1>6, <2>1, <2>2, <2>3, <2>4 DEF SettingUp
<1>7. CASE Ending
  <2> USE DEF Invocation
  <2>1. CASE FindMesosCluster \/ FindEmiCluster
    BY <1>2, <1>3, <2>1 DEF FindMesosCluster, FindEmiCluster, Raises
  <2>2. CASE StopNode \/ Stopped \/ TerminateNode \/ RevokeRules
    BY <1>2, <1>3, <2>2 DEF StopNode, Stopped, TerminateNode, RevokeRules, Goto, Raises
  <2>3. ASSUME NEW delete \in BOOLEAN, Terminated(delete)
        PROVE  Asked'
    BY <1>3, <1>4, <2>3 DEF Terminated
  <2>4. ASSUME NEW g \in Groups, DeleteGroup(g)
        PROVE  Asked'
    BY <1>3, <2>4 DEF DeleteGroup
  <2>5. CASE AttemptEnds
    BY <1>3, <1>4, <2>5 DEF AttemptEnds, Goto
  <2>6. CASE Exit
    BY <1>2, <2>6 DEF Exit, Raises
  <2> QED
    BY <1>7, <2>1, <2>2, <2>3, <2>4, <2>5, <2>6 DEF Ending
<1>8. CASE Crash
  BY <1>2, <1>8 DEF Crash, Raises
<1>9. ASSUME NEW i \in Ids, Complete(i) \/ BootFails(i)
      PROVE  Asked'
  BY <1>3, <1>9 DEF Complete, BootFails
<1>10. CASE UNCHANGED vars
  BY <1>3, <1>10 DEF vars
<1> QED
  BY <1>1, <1>5, <1>6, <1>7, <1>8, <1>9, <1>10 DEF Next, Step

\* Every step of the launchers and of the cloud is one of the three groups.
LEMMA NextRefines == IInv /\ SizeInv /\ Asked /\ [Next]_vars => PoolsStep
<1> SUFFICES ASSUME IInv, SizeInv, Asked, [Next]_vars PROVE PoolsStep
  OBVIOUS
<1> USE DEF IInv, TypeInv
<1>1. ASSUME NEW mode \in Modes, NEW ft \in MastersAsked, Begin(mode, ft)
      PROVE  PoolsStep
  <2>1. op.pc = "idle" /\ op'.pc \in {"groups", "find"}
    BY <1>1 DEF Begin, Busy, Idle
  <2>2. PoolsShrink
    BY <1>1 DEF Begin, cloudVars, instanceVars, PoolsShrink, Existing, IsActive
  <2> QED
    BY <2>1, <2>2, OtherStepRefines DEF DuePCs
<1>2. CASE Launching
  BY <1>2, SetupStepRefines, CheckRefines, ImagesRefine, RunSlavesRefines,
     RunMastersRefines, RunZoosRefines DEF Launching
<1>3. CASE SettingUp
  BY <1>3, SetupStepRefines
<1>4. CASE Crash \/ Exit
  BY <1>4, RaisingRefines DEF Crash, Exit, Raises, Quiet
<1>5. CASE Ending
  BY <1>4, <1>5, SetupStepRefines, EndingRefines DEF Ending
<1>6. ASSUME NEW i \in Ids, Complete(i) \/ BootFails(i)
      PROVE  PoolsStep
  <2>1. UNCHANGED <<launcher, op>>
    BY <1>6 DEF Complete, BootFails
  <2>2. UNCHANGED <<SlavesDue, MastersDue, GroupDue>>
    BY <2>1 DEF SlavesDue, MastersDue, GroupDue, EmiNodes, EmiZoos
  <2> QED
    BY <1>6, <2>2, NodeStepShrinks, ShrinkingRefines
<1>7. CASE UNCHANGED vars
  <2>1. UNCHANGED <<launcher, op, group, state>>
    BY <1>7 DEF vars, cloudVars, instanceVars
  <2>2. UNCHANGED <<SlavesDue, MastersDue, GroupDue>>
    BY <2>1 DEF SlavesDue, MastersDue, GroupDue, EmiNodes, EmiZoos
  <2>3. PoolsShrink
    BY <2>1 DEF PoolsShrink, Existing, IsActive
  <2> QED
    BY <2>2, <2>3, ShrinkingRefines
<1> QED
  BY <1>1, <1>2, <1>3, <1>4, <1>5, <1>6, <1>7 DEF Next, Step

\* Both launchers fill the groups they look at as Pool has it: a launch claims
\* groups that are empty, and no other instance joins them until it has run, in as
\* many calls as there are zones and roles, what it was asked for or given up.
THEOREM LaunchersFillPools == Spec => FillsPools
<1>1. Init => SizeInv /\ Asked
  <2>1. Init => Nodes = {} /\ op.mode = "stop"
    BY DEF Init, Idle, Nodes
  <2> QED
    BY <2>1 DEF SizeInv, Listed, Sized, Asked
<1>2. Init => SlavesPool!Init /\ MastersPool!Init /\ GroupPool!Init
  <2>1. Init => \A g : Existing(g) = {}
    BY DEF Init, Existing, IsActive
  <2>2. Init => SlavesDue = 0 /\ MastersDue = 0 /\ GroupDue = 0
    BY NothingIsDue DEF Init, Idle, DuePCs
  <2> QED
    BY <2>1, <2>2 DEF SlavesPool!Init, MastersPool!Init, GroupPool!Init
<1> QED
  BY <1>1, <1>2, Safe, NextKeepsSizes, NextIsAsked, NextRefines, PTL
     DEF Spec, FillsPools, PoolsStep, SlavesPool!Spec, MastersPool!Spec, GroupPool!Spec

=============================================================================
