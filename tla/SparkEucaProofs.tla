--------------------------- MODULE SparkEucaProofs ---------------------------
(***************************************************************************)
(* Theorems about SparkEuca for every number of operators, instances,      *)
(* slaves, zones, rules and launches: the types, and that operators that   *)
(* take turns get one cluster, with interruptions and failures anywhere.   *)
(***************************************************************************)
EXTENDS SparkEuca, FiniteSetTheorems, TLAPS

\* The parts of TypeOK.
CloudType ==
    /\ groups \subseteq Groups
    /\ rules \in [Groups -> SUBSET (1..NumRules)]
    /\ group \in [Ids -> Groups]
    /\ state \in [Ids -> States]
    /\ launch \in [Ids -> Nat]
    /\ launches \in Nat

NodeType ==
    /\ attached \subseteq Ids
    /\ keyed \subseteq Ids
    /\ provisioned \subseteq Ids
    /\ slaveFile \in [Ids -> SUBSET Ids]

OpType == op \in [Operators -> Invocation]

\* The program points at which the invocation has, or will use, a first master.
NeedsMaster == {"start", "wait_masters", "wait_slaves", "attach", "key_master",
                "key_slaves", "packages", "deploy", "script"}

MasterKnown == \A o \in Operators : op[o].pc \in NeedsMaster => op[o].masters # {}

TypeInv == CloudType /\ NodeType /\ OpType /\ MasterKnown

-----------------------------------------------------------------------------
(* Members of lists.                                                       *)

\* The first node of a list that is not empty is in the list.
LEMMA FirstIsMember ==
    ASSUME NEW S, S # {}
    PROVE  First(S) \in S
BY DEF First

\* So is the next node of a loop.
LEMMA NextOfIsMember ==
    ASSUME NEW S, NEW T, S # {}
    PROVE  NextOf(S, T) \in S
BY FirstIsMember DEF NextOf

\* A request for one instance gives one.
LEMMA OneIsSome ==
    ASSUME NEW new \in Allocation(1)
    PROVE  new # {}
BY FS_EmptySet DEF Allocation

\* The lists of an invocation hold instances; the nodes picked from them are
\* instances.
LEMMA NodesAreIds ==
    ASSUME OpType, MasterKnown, NEW o \in Operators
    PROVE  /\ op[o].todo \subseteq Ids
           /\ op[o].masters \subseteq Ids
           /\ op[o].slaves \subseteq Ids
           /\ op[o].todo # {} => /\ First(op[o].todo) \in Ids
                                 /\ \A T : NextOf(op[o].todo, T) \in Ids
           /\ op[o].pc \in NeedsMaster => First(op[o].masters) \in Ids
<1>1. op[o] \in Invocation
  BY DEF OpType
<1>2. /\ op[o].todo \subseteq Ids
      /\ op[o].masters \subseteq Ids
      /\ op[o].slaves \subseteq Ids
  BY <1>1 DEF Invocation
<1> QED
  BY <1>2, FirstIsMember, NextOfIsMember DEF MasterKnown

\* Idle is an invocation.
LEMMA IdleIsInvocation == Idle \in Invocation
BY DEF Idle, Invocation, PCs, Modes, Groups

-----------------------------------------------------------------------------
(* The invocations.                                                        *)

\* A jump keeps the local variables typed.
LEMMA GotoKeepsOp ==
    ASSUME OpType, NEW o \in Operators, NEW pc \in PCs, Goto(o, pc)
    PROVE  OpType'
BY DEF OpType, Goto, Invocation

\* So does the end of get_or_make_group.
LEMMA AfterGroupKeepsOp ==
    ASSUME OpType, NEW o \in Operators, NEW fresh \in SUBSET Groups,
           AfterGroup(o, fresh)
    PROVE  OpType'
<1>1. {"lookup", "authorize"} \subseteq PCs /\ {"master", "slaves"} \subseteq Groups
  BY DEF PCs, Groups
<1> QED
  BY <1>1 DEF OpType, AfterGroup, Invocation

\* And the end of an invocation.
LEMMA ExitsKeepsOp ==
    ASSUME OpType, NEW o \in Operators, Exits(o)
    PROVE  OpType'
BY IdleIsInvocation DEF OpType, Exits

\* Steps of launch_cluster keep the local variables typed.
LEMMA LaunchingKeepsOp ==
    ASSUME OpType, NEW o \in Operators, Launching(o)
    PROVE  OpType'
<1> USE DEF OpType
<1>1. op[o] \in Invocation
  OBVIOUS
<1>2. CASE LookupGroup(o)
  <2>1. op[o].turn \in Groups /\ op[o].fresh \subseteq Groups
    BY <1>1 DEF Invocation
  <2>2. "create" \in PCs
    BY DEF PCs
  <2> QED
    BY <1>2, <2>1, <2>2, GotoKeepsOp, AfterGroupKeepsOp DEF LookupGroup
<1>3. CASE CreateGroup(o)
  <2>1. op[o].turn \in Groups /\ op[o].fresh \subseteq Groups
    BY <1>1 DEF Invocation
  <2> QED
    BY <1>3, <2>1, AfterGroupKeepsOp DEF CreateGroup
<1>4. CASE Authorize(o)
  BY <1>1, <1>4 DEF Authorize, Invocation
<1>5. CASE GroupAuthorized(o)
  BY <1>1, <1>5 DEF GroupAuthorized, Invocation, PCs, Groups
<1>6. ASSUME NEW use \in BOOLEAN, CheckExisting(o, use)
      PROVE  OpType'
  BY <1>1, <1>6 DEF CheckExisting, Existing, Invocation, PCs
<1>7. CASE Raises(o) \/ ResolveImage(o)
  BY <1>7, GotoKeepsOp, ExitsKeepsOp DEF Raises, ResolveImage, PCs
<1>8. CASE RunSlaves(o)
  <2>1. PICK new \in SUBSET Ids, pc \in {"run_slaves", "start", "run_master"} :
            op' = [op EXCEPT ![o].slaves = @ \cup new, ![o].n = @ + 1,
                             ![o].todo = op[o].masters, ![o].pc = pc]
    BY <1>8 DEF RunSlaves, Allocation, Free
  <2>2. pc \in PCs
    BY <2>1 DEF PCs
  <2> QED
    BY <1>1, <2>1, <2>2 DEF Invocation
<1>9. CASE RunMaster(o)
  BY <1>1, <1>9 DEF RunMaster, Allocation, Free, Invocation, PCs
<1> QED
  BY <1>2, <1>3, <1>4, <1>5, <1>6, <1>7, <1>8, <1>9
     DEF Launching, CreateGroupFails, AuthorizeFails, RefuseLaunch, RunFails

\* So do the steps from start to the end of the setup.
LEMMA SettingUpKeepsOp ==
    ASSUME OpType, NEW o \in Operators, SettingUp(o)
    PROVE  OpType'
<1> USE DEF OpType
<1>1. op[o] \in Invocation
  OBVIOUS
<1>2. CASE StartNode(o) \/ AttachVolume(o)
  BY <1>1, <1>2 DEF StartNode, AttachVolume, Invocation
<1>3. CASE Started(o) \/ WaitMasters(o) \/ VolumesAttached(o) \/ SlavesKeyed(o)
  BY <1>3, GotoKeepsOp DEF Started, WaitMasters, VolumesAttached, SlavesKeyed, PCs
<1>4. CASE WaitSlaves(o)
  BY <1>1, <1>4 DEF WaitSlaves, AfterWait, Invocation, PCs
<1>5. CASE KeyMaster(o) /\ ~Raises(o)
  BY <1>1, <1>5 DEF KeyMaster, SshFails, Invocation, PCs
<1>6. CASE KeySlave(o) /\ ~Raises(o)
  BY <1>1, <1>6 DEF KeySlave, SshFails, Invocation
<1>7. CASE (InstallPackages(o) \/ DeployFiles(o) \/ RunSetupScript(o)) /\ ~Raises(o)
  BY <1>7, GotoKeepsOp DEF InstallPackages, DeployFiles, RunSetupScript, SshFails, PCs
<1>8. CASE Raises(o)
  BY <1>8, ExitsKeepsOp DEF Raises
<1> QED
  BY <1>2, <1>3, <1>4, <1>5, <1>6, <1>7, <1>8
     DEF SettingUp, StartNodeFails, AttachVolumeFails, PackagesFail

\* So do the steps of stop and destroy.
LEMMA StoppingKeepsOp ==
    ASSUME CloudType, OpType, NEW o \in Operators,
           Stopping(o) \/ Destroying(o) \/ Exit(o) \/ Crash(o)
    PROVE  OpType'
<1> USE DEF OpType
<1>1. op[o] \in Invocation
  OBVIOUS
<1>2. CASE FindCluster(o)
  <2>1. Existing("master") \subseteq Ids /\ Existing("slaves") \subseteq Ids
    BY DEF Existing
  <2>2. PICK pc \in {"key_master", "terminate", "stop", "start"} :
            op' = [op EXCEPT
                     ![o].masters = Existing("master"),
                     ![o].slaves = Existing("slaves"),
                     ![o].todo = Existing("master") \cup Existing("slaves"),
                     ![o].pc = pc]
    BY <1>2 DEF FindCluster
  <2>3. pc \in PCs
    BY <2>2 DEF PCs
  <2> QED
    BY <1>1, <2>1, <2>2, <2>3 DEF Invocation
<1>3. CASE StopNode(o) \/ TerminateNode(o)
  <2>1. op' = [op EXCEPT ![o].todo = @ \ {NextOf(@, op[o].masters)}]
    BY <1>3 DEF StopNode, TerminateNode
  <2> QED
    BY <1>1, <2>1 DEF Invocation
<1>4. ASSUME Goto(o, "done") \/ Goto(o, "delete")
      PROVE  OpType'
  BY <1>4, GotoKeepsOp DEF PCs
<1>5. ASSUME NEW n \in Nat, Attempt(o, n)
      PROVE  OpType'
  <2>1. {gr \in groups \X (1..NumRules) : gr[2] \in rules[gr[1]]}
            \in SUBSET (Groups \X (1..NumRules))
    BY DEF CloudType
  <2>2. groups \in SUBSET Groups
    BY DEF CloudType
  <2>3. "revoke" \in PCs
    BY DEF PCs
  <2> QED
    BY <1>1, <1>5, <2>1, <2>2, <2>3 DEF Attempt, Invocation
<1>6. ASSUME NEW delete \in BOOLEAN, Terminated(o, delete)
      PROVE  OpType'
  BY <1>4, <1>5, <1>6 DEF Terminated
<1>7. ASSUME NEW gr \in Groups \X (1..NumRules), RevokeRule(o, gr)
      PROVE  OpType'
  BY <1>1, <1>7 DEF RevokeRule, Invocation
<1>8. ASSUME NEW g \in Groups, DeleteGroup(o, g)
      PROVE  OpType'
  BY <1>1, <1>8 DEF DeleteGroup, Invocation
<1>9. CASE AttemptEnds(o)
  <2>1. op[o].n + 1 \in Nat
    BY <1>1 DEF Invocation
  <2> QED
    BY <1>4, <1>5, <1>9, <2>1 DEF AttemptEnds
<1>10. CASE Raises(o)
  BY <1>10, ExitsKeepsOp DEF Raises
<1> QED
  BY <1>2, <1>3, <1>4, <1>6, <1>7, <1>8, <1>9, <1>10
     DEF Stopping, Destroying, Exit, Crash, FindClusterFails, StopNodeFails,
         Stopped, RulesRevoked, RevokeRuleFails

\* A new invocation is typed, and has no master yet.
LEMMA BeginKeepsOp ==
    ASSUME CloudType, OpType, MasterKnown,
           NEW o \in Operators, NEW mode \in Commands, Begin(o, mode)
    PROVE  OpType' /\ MasterKnown'
<1>1. mode \in Modes /\ {"lookup", "find"} \subseteq PCs
  BY LauncherAssumption DEF Modes, PCs
<1>2. PICK inv \in Invocation : /\ op' = [op EXCEPT ![o] = inv]
                              /\ inv.pc \in {"lookup", "find"}
  <2>1. CASE mode = "launch"
    <3> DEFINE inv == [Idle EXCEPT !.pc = "lookup", !.mode = mode,
                                   !.launch = launches + 1]
    <3>1. launches + 1 \in Nat
      BY DEF CloudType
    <3>2. inv \in Invocation /\ inv.pc = "lookup"
      BY <1>1, <3>1, IdleIsInvocation DEF Invocation
    <3> QED
      BY <2>1, <3>2 DEF Begin
  <2>2. CASE mode # "launch"
    <3> DEFINE inv == [Idle EXCEPT !.pc = "find", !.mode = mode]
    <3>1. inv \in Invocation /\ inv.pc = "find"
      BY <1>1, IdleIsInvocation DEF Invocation
    <3> QED
      BY <2>2, <3>1 DEF Begin
  <2> QED
    BY <2>1, <2>2
<1>3. OpType'
  BY <1>2 DEF OpType
<1>4. op'[o].pc \notin NeedsMaster
  BY <1>2 DEF OpType, NeedsMaster
<1>5. MasterKnown'
  BY <1>2, <1>4 DEF OpType, MasterKnown
<1> QED
  BY <1>3, <1>5

\* A step of o leaves the other invocations alone.
LEMMA StepIsOwn ==
    ASSUME OpType, NEW o \in Operators, Step(o) \/ Crash(o)
    PROVE  \A p \in Operators \ {o} : op'[p] = op[p]
<1> USE DEF OpType, Goto, Raises, Exits
<1>1. CASE Launching(o)
  BY <1>1 DEF Launching, LookupGroup, AfterGroup, CreateGroup, CreateGroupFails,
      Authorize, AuthorizeFails, GroupAuthorized, CheckExisting, RefuseLaunch,
      ResolveImage, RunSlaves, RunMaster, RunFails
<1>2. CASE SettingUp(o)
  BY <1>2 DEF SettingUp, StartNode, StartNodeFails, Started, WaitMasters, WaitSlaves,
      AfterWait, AttachVolume, AttachVolumeFails, VolumesAttached, KeyMaster,
      KeySlave, SlavesKeyed, InstallPackages, PackagesFail, DeployFiles,
      RunSetupScript, SshFails
<1>3. CASE Stopping(o)
  BY <1>3 DEF Stopping, FindCluster, FindClusterFails, StopNode, StopNodeFails, Stopped
<1>4. CASE Destroying(o)
  BY <1>4 DEF Destroying, TerminateNode, Terminated, Attempt, RevokeRule,
      RevokeRuleFails, RulesRevoked, DeleteGroup, AttemptEnds
<1>5. CASE Exit(o) \/ Crash(o)
  BY <1>5 DEF Exit, Crash
<1> QED
  BY <1>1, <1>2, <1>3, <1>4, <1>5 DEF Step

\* Masters are found or run before they are used.
LEMMA StepKeepsMaster ==
    ASSUME OpType, OpType', MasterKnown, NEW o \in Operators, Step(o) \/ Crash(o)
    PROVE  MasterKnown'
<1> USE DEF OpType, NeedsMaster
<1>1. op[o] \in Invocation /\ op'[o] \in Invocation
  OBVIOUS
<1>2. op[o].pc \in NeedsMaster => op[o].masters # {}
  BY DEF MasterKnown
<1>3. op'[o].pc \in NeedsMaster => op'[o].masters # {}
  <2>1. CASE Raises(o)
    BY <2>1 DEF Raises, Exits, Idle
  <2>2. CASE Launching(o) /\ ~Raises(o)
    <3>1. CASE RunMaster(o)
      BY <3>1, OneIsSome DEF RunMaster
    <3>2. CASE RunSlaves(o)
      <4>1. /\ op'[o].masters = op[o].masters
            /\ op'[o].pc = "start" => op[o].masters # {}
            /\ op'[o].pc \in {"run_slaves", "start", "run_master"}
        BY <1>1, <3>2 DEF RunSlaves
      <4> QED
        BY <4>1
    <3>3. CASE LookupGroup(o) \/ CreateGroup(o)
      <4>1. ASSUME NEW fresh, AfterGroup(o, fresh)
            PROVE  op'[o].pc \in {"lookup", "authorize"}
        BY <1>1, <4>1 DEF AfterGroup, Invocation
      <4>2. Goto(o, "create") => op'[o].pc = "create"
        BY <1>1 DEF Goto, Invocation
      <4> QED
        BY <3>3, <4>1, <4>2 DEF LookupGroup, CreateGroup
    <3>4. CASE Authorize(o) \/ GroupAuthorized(o)
      <4>1. op'[o].pc \in {"authorize", "check"}
        BY <1>1, <3>4 DEF Invocation, Authorize, GroupAuthorized
      <4> QED
        BY <4>1
    <3>5. ASSUME NEW use \in BOOLEAN, CheckExisting(o, use)
          PROVE  op'[o].pc = "image"
      BY <1>1, <3>5 DEF CheckExisting
    <3>6. CASE ResolveImage(o)
      BY <1>1, <3>6 DEF Invocation, ResolveImage, Goto, Exits, Idle
    <3> QED
      BY <2>2, <3>1, <3>2, <3>3, <3>4, <3>5, <3>6
         DEF Launching, CreateGroupFails, AuthorizeFails, RefuseLaunch, RunFails
  <2>3. CASE SettingUp(o) /\ ~Raises(o)
    <3>1. op[o].pc \in NeedsMaster /\ op'[o].masters = op[o].masters
      BY <1>1, <2>3 DEF SettingUp, StartNode, StartNodeFails, Started, WaitMasters,
          WaitSlaves, AfterWait, AttachVolume, AttachVolumeFails,
          VolumesAttached, KeyMaster, KeySlave, SlavesKeyed, InstallPackages,
          PackagesFail, DeployFiles, RunSetupScript, SshFails, Goto, Invocation
    <3> QED
      BY <1>2, <3>1
  <2>4. CASE FindCluster(o)
    BY <1>1, <2>4 DEF FindCluster, Invocation
  <2>5. CASE Destroying(o) /\ ~Raises(o)
    <3>1. ASSUME NEW n, Attempt(o, n)
          PROVE  op'[o].pc = "revoke"
      BY <1>1, <3>1 DEF Attempt, Invocation
    <3>2. ASSUME NEW pc, Goto(o, pc)
          PROVE  op'[o].pc = pc
      BY <1>1, <3>2 DEF Goto, Invocation
    <3>3. CASE TerminateNode(o)
      BY <1>1, <3>3 DEF TerminateNode, Invocation
    <3>4. ASSUME NEW gr, RevokeRule(o, gr)
          PROVE  op'[o].pc = "revoke"
      BY <1>1, <3>4 DEF RevokeRule, Invocation
    <3>5. ASSUME NEW g, DeleteGroup(o, g)
          PROVE  op'[o].pc = "delete"
      BY <1>1, <3>5 DEF DeleteGroup, Invocation
    <3> QED
      BY <2>5, <3>1, <3>2, <3>3, <3>4, <3>5
         DEF Destroying, Terminated, RevokeRuleFails, RulesRevoked, AttemptEnds
  <2>6. CASE StopNode(o) \/ Stopped(o)
    BY <1>1, <2>6 DEF StopNode, Stopped, Goto, Invocation
  <2> QED
    BY <2>1, <2>2, <2>3, <2>4, <2>5, <2>6
       DEF Step, Stopping, Exit, Crash, FindClusterFails, StopNodeFails
<1> QED
  BY <1>3, StepIsOwn DEF MasterKnown

-----------------------------------------------------------------------------
(* The cloud and the nodes.                                                *)

\* Running instances keeps the cloud typed.
LEMMA RunKeepsCloud ==
    ASSUME CloudType, OpType, NEW o \in Operators, NEW g \in Groups,
           NEW new \in SUBSET Ids, Run(o, g, new)
    PROVE  CloudType'
<1>1. op[o].launch \in Nat
  BY DEF OpType, Invocation
<1> QED
  BY <1>1 DEF CloudType, Run, States

\* So does every step of an invocation.
LEMMA StepKeepsCloud ==
    ASSUME CloudType, NodeType, OpType, MasterKnown,
           NEW o \in Operators, Step(o) \/ Crash(o)
    PROVE  CloudType' /\ NodeType'
<1> USE DEF CloudType, NodeType, cloudVars, nodeVars
<1>1. op[o] \in Invocation
  BY DEF OpType
<1>2. op[o].turn \in Groups /\ op[o].n \in Nat
  BY <1>1 DEF Invocation
<1>3. CASE UNCHANGED <<cloudVars, nodeVars, launches>>
  BY <1>3
<1>4. CASE Launching(o)
  <2>1. CASE CreateGroup(o)
    BY <1>2, <2>1 DEF CreateGroup
  <2>2. CASE Authorize(o)
    <3>1. op[o].n + 1 \in 1..NumRules
      BY <1>2, <2>2, LauncherAssumption DEF Authorize
    <3> QED
      BY <1>2, <2>2, <3>1 DEF Authorize
  <2>3. CASE RunSlaves(o)
    BY <2>3, RunKeepsCloud DEF RunSlaves, Run, Allocation, Free, Groups
  <2>4. CASE RunMaster(o)
    BY <2>4, RunKeepsCloud DEF RunMaster, Run, Allocation, Free, Groups
  <2> QED
    BY <1>3, <1>4, <2>1, <2>2, <2>3, <2>4
       DEF Launching, LookupGroup, CreateGroupFails, AuthorizeFails,
           GroupAuthorized, CheckExisting, RefuseLaunch, ResolveImage,
           RunFails, Raises
<1>5. CASE SettingUp(o)
  <2>1. CASE StartNode(o)
    BY <2>1 DEF StartNode, States
  <2>2. CASE AttachVolume(o)
    BY <2>2, NodesAreIds DEF AttachVolume
  <2>3. CASE KeyMaster(o)
    BY <2>3, NodesAreIds DEF KeyMaster, SshFails, Raises, NeedsMaster
  <2>4. CASE KeySlave(o)
    BY <2>4, NodesAreIds DEF KeySlave, SshFails, Raises
  <2>5. CASE DeployFiles(o)
    BY <2>5, NodesAreIds DEF DeployFiles, SshFails, Raises
  <2>6. CASE InstallPackages(o)
    BY <2>6, NodesAreIds DEF InstallPackages, SshFails, Raises, NeedsMaster
  <2> QED
    BY <1>3, <1>5, <2>1, <2>2, <2>3, <2>4, <2>5, <2>6
       DEF SettingUp, StartNodeFails, PackagesFail, Started, WaitMasters, WaitSlaves,
           AttachVolumeFails, VolumesAttached, SlavesKeyed, RunSetupScript,
           SshFails, Raises
<1>6. CASE Stopping(o)
  BY <1>3, <1>6 DEF Stopping, FindCluster, FindClusterFails, StopNode, StopNodeFails,
      Stopped, Raises, States
<1>7. CASE Destroying(o)
  <2>1. CASE TerminateNode(o)
    BY <2>1 DEF TerminateNode, States
  <2>2. ASSUME NEW gr \in Groups \X (1..NumRules), RevokeRule(o, gr)
        PROVE  CloudType' /\ NodeType'
    BY <2>2 DEF RevokeRule
  <2>3. ASSUME NEW g \in Groups, DeleteGroup(o, g)
        PROVE  CloudType' /\ NodeType'
    BY <2>3 DEF DeleteGroup
  <2> QED
    BY <1>3, <1>7, <2>1, <2>2, <2>3
       DEF Destroying, Terminated, RevokeRuleFails, RulesRevoked, AttemptEnds, Raises
<1> QED
  BY <1>3, <1>4, <1>5, <1>6, <1>7 DEF Step, Exit, Crash, Raises

\* What the cloud does on its own.
LEMMA CloudKeepsType ==
    ASSUME TypeInv, NEW i \in Ids, Complete(i) \/ BootFails(i)
    PROVE  TypeInv'
BY DEF TypeInv, CloudType, NodeType, OpType, MasterKnown, Complete, BootFails,
       Vanish, States, nodeVars

-----------------------------------------------------------------------------
(* Type correctness.                                                       *)

\* Initially everything is typed.
LEMMA InitHasType == Init => TypeInv
<1> SUFFICES ASSUME Init PROVE TypeInv
  OBVIOUS
<1>1. CloudType /\ NodeType
  BY DEF Init, CloudType, NodeType, Groups, States
<1>2. OpType
  BY IdleIsInvocation DEF Init, OpType
<1>3. MasterKnown
  BY DEF Init, MasterKnown, NeedsMaster, Idle
<1> QED
  BY <1>1, <1>2, <1>3 DEF TypeInv

\* Every step keeps the types.
LEMMA NextKeepsType == TypeInv /\ [Next]_vars => TypeInv'
<1> SUFFICES ASSUME TypeInv, [Next]_vars PROVE TypeInv'
  OBVIOUS
<1> USE DEF TypeInv
<1>1. ASSUME NEW o \in Operators, Step(o) \/ Crash(o)
      PROVE  TypeInv'
  <2>1. OpType'
    BY <1>1, LaunchingKeepsOp, SettingUpKeepsOp, StoppingKeepsOp DEF Step
  <2> QED
    BY <1>1, <2>1, StepKeepsMaster, StepKeepsCloud
<1>2. ASSUME NEW o \in Operators, NEW mode \in Commands, Begin(o, mode)
      PROVE  TypeInv'
  <2>1. CloudType' /\ NodeType'
    BY <1>2 DEF Begin, CloudType, NodeType, cloudVars, nodeVars
  <2> QED
    BY <1>2, <2>1, BeginKeepsOp
<1>3. CASE UNCHANGED vars
  BY <1>3 DEF CloudType, NodeType, OpType, MasterKnown, vars, cloudVars, nodeVars
<1> QED
  BY <1>1, <1>2, <1>3, CloudKeepsType DEF Next

\* The variables have their types in every reachable state.
THEOREM TypeCorrect == Spec => []TypeOK
<1>1. TypeInv => TypeOK
  BY DEF TypeInv, CloudType, NodeType, OpType, TypeOK
<1> QED
  BY <1>1, InitHasType, NextKeepsType, PTL DEF Spec

-----------------------------------------------------------------------------
(* Operators that take turns: the inductive invariant.                     *)

SetupModes == {"launch", "resume", "start"}
RunPCs == {"image", "run_slaves", "run_master"}
SetupPCs == {"run_slaves", "run_master", "done"} \cup NeedsMaster
DestroyPCs == {"find", "terminate", "revoke", "delete", "done"}

TakesTurns == \A p, q \in Operators : Busy(p) /\ Busy(q) => p = q

\* The program points that belong to one action of the command line.
Routed(o) ==
    /\ op[o].pc = "stop" => op[o].mode = "stop"
    /\ op[o].pc \in {"terminate", "revoke", "delete"} => op[o].mode = "destroy"
    /\ op[o].mode = "destroy" /\ Busy(o) => op[o].pc \in DestroyPCs

\* What the check of launch_cluster established stays true until the runs.
SafeLaunch(o) ==
    /\ op[o].pc = "image" => Existing("slaves") = {}
    /\ op[o].pc \in {"image", "run_slaves"} /\ op[o].masters = {} =>
           Existing("master") = {}
    /\ op[o].pc = "run_master" => Existing("master") = {}
    /\ op[o].pc = "run_slaves" =>
           \A i \in Existing("slaves") : launch[i] = op[o].launch

\* The slaves the invocation knows are all there are, and its master is told.
SafeSetup(o) ==
    op[o].mode \in SetupModes =>
        /\ op[o].pc \in SetupPCs => Existing("slaves") \subseteq op[o].slaves
        /\ op[o].pc \in {"script", "done"} =>
               /\ op[o].masters # {}
               /\ state[First(op[o].masters)] = "running"
               /\ slaveFile[First(op[o].masters)] = op[o].slaves

\* The nodes still to terminate, and the groups still to delete, are all
\* there are.
SafeDestroy(o) ==
    op[o].mode = "destroy" =>
        /\ op[o].pc \in {"find", "terminate"} => op[o].n = 0
        /\ op[o].pc = "terminate" =>
               Existing("master") \cup Existing("slaves") \subseteq op[o].todo
        /\ op[o].pc \in {"revoke", "delete", "done"} =>
               Existing("master") \cup Existing("slaves") = {}
        /\ op[o].pc = "revoke" \/ (op[o].pc = "delete" /\ op[o].success) =>
               groups \subseteq op[o].names
        /\ op[o].pc = "done" /\ op[o].n > 0 /\ op[o].success => groups = {}

Safe(o) == Routed(o) /\ SafeLaunch(o) /\ SafeSetup(o) /\ SafeDestroy(o)

\* The inductive invariant.
TurnsInv ==
    /\ TypeInv
    /\ TakesTurns
    /\ SingleMaster
    /\ OneLaunch
    /\ \A o \in Operators : Safe(o)

\* No instance becomes active, and instances keep their group and launch.
Shrinks ==
    /\ launch' = launch
    /\ \A g \in Groups : Existing(g)' \subseteq Existing(g)

-----------------------------------------------------------------------------
(* Whose step it is, and where it leads.                                   *)

\* Only a running invocation steps.
LEMMA StepIsBusy ==
    ASSUME NEW o \in Operators, Step(o) \/ Crash(o)
    PROVE  Busy(o)
<1>1. CASE Launching(o)
  BY <1>1 DEF Busy, Launching, LookupGroup, CreateGroup, CreateGroupFails, Authorize,
      AuthorizeFails, GroupAuthorized, CheckExisting, RefuseLaunch,
      ResolveImage, RunSlaves, RunMaster, RunFails
<1>2. CASE SettingUp(o)
  BY <1>2 DEF Busy, SettingUp, StartNode, StartNodeFails, Started, WaitMasters,
      WaitSlaves, AttachVolume, AttachVolumeFails, VolumesAttached, KeyMaster,
      KeySlave, SlavesKeyed, InstallPackages, PackagesFail, DeployFiles,
      RunSetupScript
<1>3. CASE Stopping(o) \/ Destroying(o)
  BY <1>3 DEF Busy, Stopping, FindCluster, FindClusterFails, StopNode, StopNodeFails,
      Stopped, Destroying, TerminateNode, Terminated, RevokeRule,
      RevokeRuleFails, RulesRevoked, DeleteGroup, AttemptEnds
<1> QED
  BY <1>1, <1>2, <1>3 DEF Step, Exit, Crash, Busy

\* The jumps of an invocation keep all its other variables.
LEMMA JumpKeepsRest ==
    ASSUME OpType, NEW o \in Operators, NEW pc, Goto(o, pc)
    PROVE  /\ op'[o].pc = pc
           /\ op'[o].mode = op[o].mode
           /\ op'[o].masters = op[o].masters
           /\ op'[o].slaves = op[o].slaves
           /\ op'[o].launch = op[o].launch
           /\ op'[o].n = op[o].n
           /\ op'[o].names = op[o].names
           /\ op'[o].success = op[o].success
           /\ op'[o].todo = op[o].todo
BY DEF OpType, Goto, Invocation

\* An invocation that exits is idle.
LEMMA ExitIsIdle ==
    ASSUME OpType, NEW o \in Operators, Exits(o)
    PROVE  op'[o] = Idle
BY DEF OpType, Exits

\* Until it runs instances, a launch goes through the security groups.
LEMMA GroupsFlow ==
    ASSUME OpType, NEW o \in Operators,
           \/ LookupGroup(o) \/ CreateGroup(o) \/ Authorize(o) \/ GroupAuthorized(o)
    PROVE  /\ op'[o].pc \in {"lookup", "create", "authorize", "check"}
           /\ op'[o].mode = op[o].mode
<1>1. op[o] \in Invocation
  BY DEF OpType
<1>2. ASSUME NEW fresh, AfterGroup(o, fresh)
      PROVE  /\ op'[o].pc \in {"lookup", "authorize"}
             /\ op'[o].mode = op[o].mode
  BY <1>1, <1>2 DEF OpType, AfterGroup, Invocation
<1>3. CASE LookupGroup(o) \/ CreateGroup(o)
  BY <1>2, <1>3, JumpKeepsRest DEF LookupGroup, CreateGroup
<1>4. CASE Authorize(o)
  BY <1>1, <1>4 DEF OpType, Authorize, Invocation
<1>5. CASE GroupAuthorized(o)
  BY <1>1, <1>5 DEF OpType, GroupAuthorized, Invocation
<1> QED
  BY <1>3, <1>4, <1>5

\* The steps from start to the end of the setup keep the lists of nodes.
LEMMA SettingUpFlow ==
    ASSUME OpType, NEW o \in Operators, SettingUp(o), ~Raises(o)
    PROVE  /\ op[o].pc \in NeedsMaster
           /\ op'[o].pc \in NeedsMaster \cup {"done"}
           /\ op'[o].mode = op[o].mode
           /\ op'[o].masters = op[o].masters
           /\ op'[o].slaves = op[o].slaves
           /\ op'[o].pc = "script" => DeployFiles(o)
           /\ op'[o].pc = "done" => RunSetupScript(o)
<1> USE DEF NeedsMaster
<1>1. op[o] \in Invocation
  BY DEF OpType
<1>2. CASE StartNode(o) \/ AttachVolume(o) \/ KeyMaster(o) \/ KeySlave(o)
  BY <1>1, <1>2 DEF OpType, Invocation, StartNode, AttachVolume, KeyMaster, KeySlave,
      SshFails
<1>3. CASE WaitSlaves(o)
  BY <1>1, <1>3 DEF OpType, Invocation, WaitSlaves, AfterWait
<1>4. CASE Started(o) \/ WaitMasters(o) \/ VolumesAttached(o) \/ SlavesKeyed(o)
  BY <1>4, JumpKeepsRest DEF Started, WaitMasters, VolumesAttached, SlavesKeyed
<1>5. CASE InstallPackages(o) \/ DeployFiles(o) \/ RunSetupScript(o)
  BY <1>5, JumpKeepsRest DEF InstallPackages, DeployFiles, RunSetupScript, SshFails
<1> QED
  BY <1>2, <1>3, <1>4, <1>5
     DEF SettingUp, StartNodeFails, AttachVolumeFails, PackagesFail

\* The steps of destroy keep the action.
LEMMA DestroyingFlow ==
    ASSUME OpType, NEW o \in Operators, Destroying(o), ~Raises(o)
    PROVE  /\ op[o].pc \in {"terminate", "revoke", "delete"}
           /\ op'[o].pc \in {"terminate", "revoke", "delete", "done"}
           /\ op'[o].mode = op[o].mode
<1>1. op[o] \in Invocation
  BY DEF OpType
<1>2. ASSUME NEW n, Attempt(o, n)
      PROVE  op'[o].pc = "revoke" /\ op'[o].mode = op[o].mode
  BY <1>1, <1>2 DEF OpType, Attempt, Invocation
<1>3. CASE TerminateNode(o)
  BY <1>1, <1>3 DEF OpType, TerminateNode, Invocation
<1>4. ASSUME NEW gr, RevokeRule(o, gr)
      PROVE  /\ op[o].pc = "revoke" /\ op'[o].pc = "revoke"
             /\ op'[o].mode = op[o].mode
  BY <1>1, <1>4 DEF OpType, RevokeRule, Invocation
<1>5. ASSUME NEW g, DeleteGroup(o, g)
      PROVE  /\ op[o].pc = "delete" /\ op'[o].pc = "delete"
             /\ op'[o].mode = op[o].mode
  BY <1>1, <1>5 DEF OpType, DeleteGroup, Invocation
<1>6. CASE AttemptEnds(o) \/ RulesRevoked(o)
  BY <1>2, <1>6, JumpKeepsRest DEF AttemptEnds, RulesRevoked
<1>7. ASSUME NEW d, Terminated(o, d)
      PROVE  /\ op[o].pc = "terminate" /\ op'[o].pc \in {"revoke", "done"}
             /\ op'[o].mode = op[o].mode
  BY <1>2, <1>7, JumpKeepsRest DEF Terminated
<1> QED
  BY <1>3, <1>4, <1>5, <1>6, <1>7 DEF Destroying, RevokeRuleFails

\* FindCluster goes where the action says, with the active instances.
LEMMA FindFlow ==
    ASSUME OpType, NEW o \in Operators, FindCluster(o)
    PROVE  /\ op'[o].mode = op[o].mode
           /\ op'[o].n = op[o].n
           /\ op'[o].masters = Existing("master")
           /\ op'[o].slaves = Existing("slaves")
           /\ op'[o].todo = Existing("master") \cup Existing("slaves")
           /\ \/ op'[o].pc = "key_master" /\ op[o].mode = "resume"
              \/ op'[o].pc = "terminate" /\ op[o].mode = "destroy"
              \/ op'[o].pc = "stop" /\ op[o].mode = "stop"
              \/ op'[o].pc = "start" /\ op[o].mode \in {"launch", "start"}
BY DEF OpType, FindCluster, Invocation, Modes

-----------------------------------------------------------------------------
(* Which instances are active.                                             *)

\* What the cloud does on its own activates nothing.
LEMMA CloudShrinks ==
    ASSUME CloudType, NEW i \in Ids, Complete(i) \/ BootFails(i)
    PROVE  Shrinks
BY DEF CloudType, Complete, BootFails, Vanish, Shrinks, Existing, IsActive

\* Nor does a step that runs no instance.
LEMMA StepShrinks ==
    ASSUME CloudType, NEW o \in Operators, Step(o) \/ Crash(o),
           ~RunSlaves(o), ~RunMaster(o)
    PROVE  Shrinks
<1>1. CASE UNCHANGED <<state, group, launch>>
  BY <1>1 DEF Shrinks, Existing, IsActive
<1>2. CASE StartNode(o)
  BY <1>2 DEF CloudType, StartNode, Shrinks, Existing, IsActive
<1>3. CASE StopNode(o)
  BY <1>3 DEF CloudType, StopNode, Shrinks, Existing, IsActive
<1>4. CASE TerminateNode(o)
  BY <1>4 DEF CloudType, TerminateNode, Shrinks, Existing, IsActive
<1>5. CASE Launching(o)
  BY <1>1, <1>5 DEF Launching, LookupGroup, CreateGroup, CreateGroupFails, Authorize,
      AuthorizeFails, GroupAuthorized, CheckExisting, RefuseLaunch,
      ResolveImage, RunFails, Raises, cloudVars
<1>6. CASE SettingUp(o) /\ ~StartNode(o)
  BY <1>1, <1>6 DEF SettingUp, StartNodeFails, Started, WaitMasters, WaitSlaves,
      AttachVolume, AttachVolumeFails, VolumesAttached, KeyMaster, KeySlave,
      SlavesKeyed, InstallPackages, PackagesFail, DeployFiles,
      RunSetupScript, SshFails, Raises, cloudVars
<1>7. CASE Stopping(o) /\ ~StopNode(o)
  BY <1>1, <1>7 DEF Stopping, FindCluster, FindClusterFails, StopNodeFails, Stopped,
      Raises, cloudVars
<1>8. CASE Destroying(o) /\ ~TerminateNode(o)
  BY <1>1, <1>8 DEF Destroying, Terminated, RevokeRule, RevokeRuleFails,
      RulesRevoked, DeleteGroup, AttemptEnds, Raises, cloudVars
<1> QED
  BY <1>1, <1>2, <1>3, <1>4, <1>5, <1>6, <1>7, <1>8
     DEF Step, Exit, Crash, Raises, cloudVars

\* Running instances in one group adds them to that group's list only.
LEMMA RunAdds ==
    ASSUME CloudType, NEW o \in Operators, NEW g \in Groups,
           NEW new \in SUBSET Free, Run(o, g, new)
    PROVE  /\ Existing(g)' \subseteq Existing(g) \cup new
           /\ \A h \in Groups \ {g} : Existing(h)' \subseteq Existing(h)
           /\ \A i \in new : launch'[i] = op[o].launch
           /\ \A i \in Ids \ new : launch'[i] = launch[i]
BY DEF CloudType, Run, Free, Existing, IsActive

\* The steps of an invocation, those that end it apart.
LEMMA StepCases ==
    ASSUME OpType, NEW o \in Operators, Step(o) \/ Crash(o)
    PROVE  \/ op'[o] = Idle
           \/ LookupGroup(o) \/ CreateGroup(o) \/ Authorize(o) \/ GroupAuthorized(o)
           \/ \E use \in BOOLEAN : CheckExisting(o, use)
           \/ ResolveImage(o) /\ Goto(o, "run_slaves")
           \/ RunSlaves(o)
           \/ RunMaster(o)
           \/ SettingUp(o) /\ ~Raises(o)
           \/ FindCluster(o)
           \/ StopNode(o) \/ Stopped(o)
           \/ Destroying(o) /\ ~Raises(o)
<1>1. CASE Raises(o)
  BY <1>1, ExitIsIdle DEF Raises
<1>2. CASE Launching(o) /\ ~Raises(o)
  BY <1>2, ExitIsIdle
     DEF Launching, CreateGroupFails, AuthorizeFails, RefuseLaunch, RunFails,
         ResolveImage
<1>3. CASE Stopping(o)
  BY <1>1, <1>3 DEF Stopping, FindClusterFails, StopNodeFails
<1> QED
  BY <1>1, <1>2, <1>3 DEF Step, Exit, Crash

-----------------------------------------------------------------------------
(* The steps of an invocation keep the invariant.                          *)

\* An idle operator is safe whatever the cloud holds.
LEMMA IdleIsSafe ==
    ASSUME NEW o \in Operators, op'[o] = Idle
    PROVE  Safe(o)' /\ ~Busy(o)'
BY DEF Idle, Safe, Routed, SafeLaunch, SafeSetup, SafeDestroy, Busy, RunPCs,
       SetupModes

\* Every step keeps to the route of its action.
LEMMA StepIsRouted ==
    ASSUME OpType, NEW o \in Operators, Routed(o), Step(o) \/ Crash(o)
    PROVE  Routed(o)'
<1> USE DEF Routed, Busy, DestroyPCs, NeedsMaster
<1>1. op[o] \in Invocation
  BY DEF OpType
<1>2. CASE op'[o] = Idle
  BY <1>2, IdleIsSafe DEF Safe
<1>3. CASE LookupGroup(o) \/ CreateGroup(o) \/ Authorize(o) \/ GroupAuthorized(o)
  <2>1. op[o].pc \in {"lookup", "create", "authorize"}
    BY <1>3 DEF LookupGroup, CreateGroup, Authorize, GroupAuthorized
  <2> QED
    BY <1>3, <2>1, GroupsFlow
<1>4. ASSUME NEW use \in BOOLEAN, CheckExisting(o, use)
      PROVE  Routed(o)'
  BY <1>1, <1>4 DEF OpType, CheckExisting, Invocation
<1>5. CASE ResolveImage(o) /\ Goto(o, "run_slaves")
  BY <1>5, JumpKeepsRest DEF ResolveImage
<1>6. CASE RunSlaves(o)
  <2>1. /\ op[o].pc = "run_slaves"
        /\ op'[o].pc \in {"run_slaves", "start", "run_master"}
        /\ op'[o].mode = op[o].mode
    BY <1>1, <1>6 DEF OpType, RunSlaves, Invocation
  <2> QED
    BY <2>1
<1>7. CASE RunMaster(o)
  BY <1>1, <1>7 DEF OpType, RunMaster, Invocation
<1>8. CASE SettingUp(o) /\ ~Raises(o)
  BY <1>8, SettingUpFlow
<1>9. CASE FindCluster(o)
  BY <1>9, FindFlow
<1>10. CASE StopNode(o)
  BY <1>1, <1>10 DEF OpType, StopNode, Invocation
<1>11. CASE Stopped(o)
  BY <1>11, JumpKeepsRest DEF Stopped
<1>12. CASE Destroying(o) /\ ~Raises(o)
  BY <1>12, DestroyingFlow
<1> QED
  BY <1>2, <1>3, <1>4, <1>5, <1>6, <1>7, <1>8, <1>9, <1>10, <1>11, <1>12, StepCases

\* What the run of the slaves of one zone leaves.
LEMMA RunSlavesAdds ==
    ASSUME CloudType, OpType, NEW o \in Operators, SafeLaunch(o), SafeSetup(o),
           RunSlaves(o)
    PROVE  /\ Existing("master")' \subseteq Existing("master")
           /\ op[o].mode \in SetupModes =>
                  Existing("slaves")' \subseteq op'[o].slaves
           /\ \A i \in Existing("slaves")' : launch'[i] = op[o].launch
           /\ op'[o].masters = op[o].masters
           /\ op'[o].launch = op[o].launch
           /\ op'[o].mode = op[o].mode
           /\ op'[o].pc \in {"run_slaves", "start", "run_master"}
           /\ op'[o].pc = "run_master" => op[o].masters = {}
<1>1. op[o] \in Invocation
  BY DEF OpType
<1>2. PICK new \in SUBSET Free :
          /\ Run(o, "slaves", new)
          /\ op'[o].slaves = op[o].slaves \cup new
          /\ op'[o].masters = op[o].masters
          /\ op'[o].launch = op[o].launch
          /\ op'[o].mode = op[o].mode
          /\ op'[o].pc \in {"run_slaves", "start", "run_master"}
          /\ op'[o].pc = "run_master" => op[o].masters = {}
  BY <1>1 DEF OpType, RunSlaves, Allocation, Invocation
<1>3. /\ Existing("slaves")' \subseteq Existing("slaves") \cup new
      /\ Existing("master")' \subseteq Existing("master")
      /\ \A i \in new : launch'[i] = op[o].launch
      /\ \A i \in Ids \ new : launch'[i] = launch[i]
  BY <1>2, RunAdds DEF Groups
<1>4. /\ op[o].mode \in SetupModes => Existing("slaves") \subseteq op[o].slaves
      /\ \A i \in Existing("slaves") : launch[i] = op[o].launch
      /\ Existing("slaves") \subseteq Ids
  BY DEF SafeSetup, SafeLaunch, SetupPCs, RunSlaves, Existing
<1>5. \A i \in Existing("slaves")' : launch'[i] = op[o].launch
  BY <1>3, <1>4
<1> QED
  BY <1>2, <1>3, <1>4, <1>5

\* What the run of the master leaves.
LEMMA RunMasterAdds ==
    ASSUME CloudType, OpType, NEW o \in Operators, SafeLaunch(o), RunMaster(o)
    PROVE  /\ Existing("slaves")' \subseteq Existing("slaves")
           /\ \A i \in Existing("slaves")' : launch'[i] = launch[i]
           /\ \A i, j \in Existing("master")' : i = j
           /\ op'[o].slaves = op[o].slaves
           /\ op'[o].mode = op[o].mode
           /\ op'[o].pc = "wait_masters"
<1>1. op[o] \in Invocation
  BY DEF OpType
<1>2. PICK new \in SUBSET Free :
          /\ Cardinality(new) = 1
          /\ Run(o, "master", new)
          /\ op'[o].slaves = op[o].slaves
          /\ op'[o].mode = op[o].mode
          /\ op'[o].pc = "wait_masters"
  BY <1>1 DEF OpType, RunMaster, Allocation, Invocation
<1>3. PICK m : new = {m}
  <2>1. IsFiniteSet(new)
    BY LauncherAssumption, FS_Subset DEF Free
  <2> QED
    BY <1>2, <2>1, FS_Singleton
<1>4. Existing("master") = {}
  BY DEF SafeLaunch, RunMaster
<1>5. /\ Existing("master")' \subseteq Existing("master") \cup new
      /\ Existing("slaves")' \subseteq Existing("slaves")
      /\ \A i \in Ids \ new : launch'[i] = launch[i]
  BY <1>2, RunAdds DEF Groups
<1>6. Existing("slaves") \subseteq Ids \ new
  BY DEF Existing, IsActive, Free
<1> QED
  BY <1>2, <1>3, <1>4, <1>5, <1>6

\* What the check found stays true until the instances run.
LEMMA StepKeepsLaunch ==
    ASSUME CloudType, OpType, NEW o \in Operators,
           SafeLaunch(o), SafeSetup(o), Step(o) \/ Crash(o)
    PROVE  SafeLaunch(o)'
<1> USE DEF RunPCs, NeedsMaster
<1>1. op[o] \in Invocation
  BY DEF OpType
<1>2. CASE op'[o].pc \notin RunPCs
  BY <1>2 DEF SafeLaunch
<1>3. ASSUME NEW use \in BOOLEAN, CheckExisting(o, use)
      PROVE  SafeLaunch(o)'
  <2>1. /\ op'[o].pc = "image"
        /\ op'[o].masters = Existing("master")
        /\ Existing("slaves") = {}
    BY <1>1, <1>3 DEF OpType, CheckExisting, Invocation
  <2>2. Shrinks
    BY <1>3 DEF CheckExisting, Shrinks, Existing, IsActive, cloudVars
  <2> QED
    BY <2>1, <2>2 DEF SafeLaunch, Shrinks, Groups
<1>4. CASE ResolveImage(o) /\ Goto(o, "run_slaves")
  <2>1. /\ op[o].pc = "image"
        /\ op'[o].pc = "run_slaves"
        /\ op'[o].masters = op[o].masters
    BY <1>4, JumpKeepsRest DEF ResolveImage
  <2>2. Shrinks
    BY <1>4 DEF ResolveImage, Shrinks, Existing, IsActive, cloudVars
  <2> QED
    BY <2>1, <2>2 DEF SafeLaunch, Shrinks, Groups
<1>5. CASE RunSlaves(o)
  <2>1. op[o].pc = "run_slaves"
    BY <1>5 DEF RunSlaves
  <2> QED
    BY <1>5, <2>1, RunSlavesAdds DEF SafeLaunch
<1>6. CASE RunMaster(o)
  BY <1>2, <1>6, RunMasterAdds
<1>7. CASE op'[o] = Idle
  BY <1>2, <1>7 DEF Idle
<1>8. CASE LookupGroup(o) \/ CreateGroup(o) \/ Authorize(o) \/ GroupAuthorized(o)
  BY <1>2, <1>8, GroupsFlow
<1>9. CASE SettingUp(o) /\ ~Raises(o)
  BY <1>2, <1>9, SettingUpFlow
<1>10. CASE FindCluster(o)
  BY <1>2, <1>10, FindFlow
<1>11. CASE StopNode(o)
  BY <1>1, <1>2, <1>11 DEF OpType, StopNode, Invocation
<1>12. CASE Stopped(o)
  BY <1>2, <1>12, JumpKeepsRest DEF Stopped
<1>13. CASE Destroying(o) /\ ~Raises(o)
  BY <1>2, <1>13, DestroyingFlow
<1> QED
  BY <1>3, <1>4, <1>5, <1>6, <1>7, <1>8, <1>9, <1>10, <1>11, <1>12, <1>13, StepCases

\* The slaves an invocation knows remain all there are.
LEMMA StepKeepsSetup ==
    ASSUME TypeInv, NEW o \in Operators, Routed(o), SafeLaunch(o), SafeSetup(o),
           Step(o) \/ Crash(o)
    PROVE  SafeSetup(o)'
<1> USE DEF TypeInv, SetupPCs, NeedsMaster, SetupModes
<1>1. op[o] \in Invocation
  BY DEF OpType
<1>2. CASE op'[o].pc \notin SetupPCs
  BY <1>2 DEF SafeSetup
<1>3. CASE ResolveImage(o) /\ Goto(o, "run_slaves")
  <2>1. op[o].pc = "image" /\ op'[o].pc = "run_slaves"
    BY <1>3, JumpKeepsRest DEF ResolveImage
  <2>2. Shrinks
    BY <1>3 DEF ResolveImage, Shrinks, Existing, IsActive, cloudVars
  <2> QED
    BY <2>1, <2>2 DEF SafeLaunch, SafeSetup, Shrinks, Groups
<1>4. CASE RunSlaves(o)
  BY <1>4, RunSlavesAdds DEF SafeSetup
<1>5. CASE RunMaster(o)
  <2>1. op[o].pc = "run_master"
    BY <1>5 DEF RunMaster
  <2> QED
    BY <1>5, <2>1, RunMasterAdds DEF SafeSetup
<1>6. CASE SettingUp(o) /\ ~Raises(o)
  <2>1. Shrinks
    BY <1>6, StepShrinks DEF SettingUp, StartNode, StartNodeFails, Started,
       WaitMasters, WaitSlaves, AttachVolume, AttachVolumeFails,
       VolumesAttached, KeyMaster, KeySlave, SlavesKeyed, InstallPackages,
       PackagesFail, DeployFiles, RunSetupScript, RunSlaves, RunMaster, Step
  <2>2. op[o].mode \in SetupModes => Existing("slaves")' \subseteq op'[o].slaves
    BY <1>6, <2>1, SettingUpFlow DEF SafeSetup, Shrinks, Groups
  <2>3. CASE DeployFiles(o)
    <3>1. op[o].masters # {} /\ First(op[o].masters) \in Ids
      BY <2>3, NodesAreIds DEF DeployFiles, MasterKnown
    <3>2. /\ state'[First(op[o].masters)] = "running"
          /\ slaveFile'[First(op[o].masters)] = op[o].slaves
      BY <1>6, <2>3, <3>1 DEF DeployFiles, SshFails, NodeType, cloudVars
    <3> QED
      BY <1>6, <2>2, <3>1, <3>2, SettingUpFlow DEF SafeSetup
  <2>4. CASE RunSetupScript(o)
    <3>1. op[o].pc = "script" /\ UNCHANGED <<state, slaveFile>>
      BY <1>6, <2>4 DEF RunSetupScript, SshFails, cloudVars, nodeVars
    <3> QED
      BY <1>6, <2>2, <3>1, SettingUpFlow DEF SafeSetup
  <2>5. CASE op'[o].pc \notin {"script", "done"}
    BY <1>6, <2>2, <2>5, SettingUpFlow DEF SafeSetup
  <2> QED
    BY <1>6, <2>3, <2>4, <2>5, SettingUpFlow
<1>7. CASE FindCluster(o)
  <2>1. Shrinks
    BY <1>7 DEF FindCluster, Shrinks, Existing, IsActive, cloudVars
  <2> QED
    BY <1>7, <2>1, FindFlow DEF SafeSetup, Shrinks, Groups
<1>8. CASE op'[o] = Idle
  BY <1>2, <1>8 DEF Idle
<1>9. CASE LookupGroup(o) \/ CreateGroup(o) \/ Authorize(o) \/ GroupAuthorized(o)
  BY <1>2, <1>9, GroupsFlow
<1>10. ASSUME NEW use \in BOOLEAN, CheckExisting(o, use)
       PROVE  SafeSetup(o)'
  BY <1>1, <1>2, <1>10 DEF OpType, CheckExisting, Invocation
<1>11. CASE StopNode(o)
  BY <1>1, <1>2, <1>11 DEF OpType, StopNode, Invocation
<1>12. CASE Stopped(o)
  BY <1>12, JumpKeepsRest DEF Stopped, Routed, SafeSetup
<1>13. CASE Destroying(o) /\ ~Raises(o)
  BY <1>13, DestroyingFlow DEF Routed, SafeSetup
<1> QED
  BY <1>3, <1>4, <1>5, <1>6, <1>7, <1>8, <1>9, <1>10, <1>11, <1>12, <1>13, StepCases

\* The steps of destroy lose sight of no node and of no group.
LEMMA DestroyingIsSafe ==
    ASSUME CloudType, OpType, NEW o \in Operators,
           op[o].mode = "destroy", SafeDestroy(o), Destroying(o), ~Raises(o)
    PROVE  SafeDestroy(o)'
<1>1. op[o] \in Invocation
  BY DEF OpType
<1>2. ASSUME NEW n, Attempt(o, n), UNCHANGED groups,
             Existing("master")' \cup Existing("slaves")' = {}
      PROVE  SafeDestroy(o)'
  <2>1. op'[o].pc = "revoke" /\ op'[o].names = groups
    BY <1>1, <1>2 DEF OpType, Attempt, Invocation
  <2> QED
    BY <1>2, <2>1 DEF SafeDestroy
<1>3. CASE TerminateNode(o)
  <2>1. PICK i \in op[o].todo : /\ op'[o].pc = "terminate"
                                /\ op'[o].n = op[o].n
                                /\ op'[o].todo = op[o].todo \ {i}
                                /\ ~IsActive(i)'
    BY <1>1, <1>3, NextOfIsMember
       DEF OpType, CloudType, TerminateNode, Invocation, IsActive
  <2>2. Shrinks
    BY <1>3 DEF CloudType, TerminateNode, Shrinks, Existing, IsActive
  <2>3. i \notin Existing("master")' \cup Existing("slaves")'
    BY <2>1 DEF Existing
  <2> QED
    BY <1>3, <2>1, <2>2, <2>3 DEF SafeDestroy, Shrinks, Groups, TerminateNode
<1>4. CASE ~TerminateNode(o)
  <2>1. Shrinks
    BY <1>4, StepShrinks
       DEF Step, Destroying, Terminated, RevokeRule, RevokeRuleFails, RulesRevoked,
           DeleteGroup, AttemptEnds, RunSlaves, RunMaster
  <2>2. op[o].pc = "terminate" /\ op[o].todo = {}
           => Existing("master")' \cup Existing("slaves")' = {}
    BY <2>1 DEF SafeDestroy, Shrinks, Groups
  <2>3. op[o].pc \in {"revoke", "delete"}
           => Existing("master")' \cup Existing("slaves")' = {}
    BY <2>1 DEF SafeDestroy, Shrinks, Groups
  <2>4. ASSUME NEW delete \in BOOLEAN, Terminated(o, delete)
        PROVE  SafeDestroy(o)'
    <3>1. CASE delete
      BY <1>2, <2>2, <2>4, <3>1 DEF Terminated, cloudVars
    <3>2. CASE ~delete
      BY <2>2, <2>4, <3>2, JumpKeepsRest DEF Terminated, SafeDestroy
    <3> QED
      BY <3>1, <3>2
  <2>5. ASSUME NEW gr, RevokeRule(o, gr)
        PROVE  SafeDestroy(o)'
    <3>1. /\ op[o].pc = "revoke" /\ op'[o].pc = "revoke"
          /\ op'[o].names = op[o].names
      BY <1>1, <2>5 DEF OpType, RevokeRule, Invocation
    <3> QED
      BY <2>3, <2>5, <3>1 DEF RevokeRule, SafeDestroy
  <2>6. CASE RulesRevoked(o)
    BY <2>3, <2>6, JumpKeepsRest DEF RulesRevoked, SafeDestroy, cloudVars
  <2>7. ASSUME NEW g \in Groups, DeleteGroup(o, g)
        PROVE  SafeDestroy(o)'
    <3>1. /\ op[o].pc = "delete" /\ op'[o].pc = "delete"
          /\ op'[o].names = op[o].names \ {g}
          /\ \/ groups' = groups \ {g} /\ op'[o].success = op[o].success
             \/ op'[o].success = FALSE
      BY <1>1, <2>7 DEF OpType, DeleteGroup, Invocation
    <3> QED
      BY <2>3, <3>1 DEF SafeDestroy
  <2>8. CASE AttemptEnds(o)
    <3>1. CASE Attempt(o, op[o].n + 1)
      BY <1>2, <2>3, <2>8, <3>1 DEF AttemptEnds, cloudVars
    <3>2. CASE Goto(o, "done")
      BY <2>3, <2>8, <3>2, JumpKeepsRest DEF AttemptEnds, SafeDestroy, cloudVars
    <3> QED
      BY <2>8, <3>1, <3>2 DEF AttemptEnds
  <2> QED
    BY <1>4, <2>4, <2>5, <2>6, <2>7, <2>8 DEF Destroying, RevokeRuleFails
<1> QED
  BY <1>3, <1>4

\* So a destroy that ends has terminated and, if it says so, deleted them all.
LEMMA StepKeepsDestroy ==
    ASSUME CloudType, OpType, NEW o \in Operators, Routed(o), SafeDestroy(o),
           Step(o) \/ Crash(o)
    PROVE  SafeDestroy(o)'
<1> USE DEF DestroyPCs, NeedsMaster, Busy
<1>1. op[o] \in Invocation /\ Busy(o)
  BY StepIsBusy DEF OpType
<1>2. CASE op'[o].mode # "destroy"
  BY <1>2 DEF SafeDestroy
<1>3. CASE op[o].mode = "destroy"
  <2>1. op[o].pc \in DestroyPCs
    BY <1>1, <1>3 DEF Routed
  <2>2. CASE FindCluster(o)
    <3>1. op[o].pc = "find" /\ Shrinks
      BY <2>2 DEF FindCluster, Shrinks, Existing, IsActive, cloudVars
    <3> QED
      BY <1>3, <2>2, <3>1, FindFlow DEF SafeDestroy, Shrinks, Groups
  <2>3. CASE Destroying(o) /\ ~Raises(o)
    BY <1>3, <2>3, DestroyingIsSafe
  <2>4. CASE op'[o] = Idle
    BY <1>2, <2>4 DEF Idle
  <2>5. ~(SettingUp(o) /\ ~Raises(o))
    BY <2>1, SettingUpFlow
  <2>6. ~(LookupGroup(o) \/ CreateGroup(o) \/ Authorize(o) \/ GroupAuthorized(o))
    BY <2>1 DEF LookupGroup, CreateGroup, Authorize, GroupAuthorized
  <2>7. \A use \in BOOLEAN : ~CheckExisting(o, use)
    BY <2>1 DEF CheckExisting
  <2>8. ~(ResolveImage(o) \/ RunSlaves(o) \/ RunMaster(o) \/ StopNode(o) \/ Stopped(o))
    BY <2>1 DEF ResolveImage, RunSlaves, RunMaster, StopNode, Stopped
  <2> QED
    BY <2>2, <2>3, <2>4, <2>5, <2>6, <2>7, <2>8, StepCases
<1>4. CASE op[o].mode # "destroy"
  <2>1. op'[o] = Idle \/ op'[o].mode = op[o].mode
    <3>1. ASSUME NEW use \in BOOLEAN, CheckExisting(o, use)
          PROVE  op'[o].mode = op[o].mode
      BY <1>1, <3>1 DEF OpType, CheckExisting, Invocation
    <3>2. RunSlaves(o) => op'[o].mode = op[o].mode
      BY <1>1 DEF OpType, RunSlaves, Invocation
    <3>3. RunMaster(o) => op'[o].mode = op[o].mode
      BY <1>1 DEF OpType, RunMaster, Invocation
    <3>4. StopNode(o) => op'[o].mode = op[o].mode
      BY <1>1 DEF OpType, StopNode, Invocation
    <3>5. ResolveImage(o) /\ Goto(o, "run_slaves") => op'[o].mode = op[o].mode
      BY JumpKeepsRest
    <3>6. Stopped(o) => op'[o].mode = op[o].mode
      BY JumpKeepsRest DEF Stopped
    <3> QED
      BY <3>1, <3>2, <3>3, <3>4, <3>5, <3>6, StepCases, GroupsFlow, SettingUpFlow, FindFlow, DestroyingFlow
  <2> QED
    BY <1>2, <1>4, <2>1 DEF Idle
<1> QED
  BY <1>3, <1>4

-----------------------------------------------------------------------------
(* The inductive invariant holds.                                          *)

\* Fewer active instances are no less alike.
LEMMA ShrinkingIsSafe ==
    ASSUME Shrinks, SingleMaster, OneLaunch
    PROVE  SingleMaster' /\ OneLaunch'
BY DEF Shrinks, SingleMaster, OneLaunch, Groups

\* A step of one invocation keeps at most one master and one launch's slaves.
LEMMA StepKeepsCluster ==
    ASSUME CloudType, OpType, SingleMaster, OneLaunch,
           NEW o \in Operators, Safe(o), Step(o) \/ Crash(o)
    PROVE  SingleMaster' /\ OneLaunch'
<1> USE DEF Safe
<1>1. CASE RunSlaves(o)
  <2>1. SingleMaster'
    BY <1>1, RunSlavesAdds DEF SingleMaster
  <2>2. OneLaunch'
    BY <1>1, RunSlavesAdds DEF OneLaunch
  <2> QED
    BY <2>1, <2>2
<1>2. CASE RunMaster(o)
  <2>1. SingleMaster'
    BY <1>2, RunMasterAdds DEF SingleMaster
  <2>2. OneLaunch'
    BY <1>2, RunMasterAdds DEF OneLaunch
  <2> QED
    BY <2>1, <2>2
<1>3. CASE ~RunSlaves(o) /\ ~RunMaster(o)
  BY <1>3, StepShrinks, ShrinkingIsSafe
<1> QED
  BY <1>1, <1>2, <1>3

\* What the cloud does on its own leaves every invocation safe.
LEMMA CloudKeepsSafe ==
    ASSUME TypeInv, NEW o \in Operators, Safe(o),
           NEW i \in Ids, Complete(i) \/ BootFails(i)
    PROVE  Safe(o)'
<1> USE DEF TypeInv
<1>1. Shrinks /\ UNCHANGED <<groups, launch, op>>
  BY CloudShrinks DEF Complete, BootFails
<1>2. Routed(o)'
  BY <1>1 DEF Safe, Routed, Busy
<1>3. SafeLaunch(o)'
  BY <1>1 DEF Safe, SafeLaunch, Shrinks, Groups
<1>4. SafeSetup(o)'
  <2>1. ASSUME NEW m \in Ids, state[m] = "running"
        PROVE  state'[m] = "running" /\ slaveFile'[m] = slaveFile[m]
    <3>1. m # i
      BY <2>1 DEF Complete, BootFails
    <3> QED
      BY <2>1, <3>1
         DEF CloudType, NodeType, Complete, BootFails, Vanish, nodeVars
  <2>2. op[o].masters # {} => First(op[o].masters) \in Ids
    BY FirstIsMember DEF OpType, Invocation
  <2> QED
    BY <1>1, <2>1, <2>2 DEF Safe, SafeSetup, Shrinks, Groups
<1>5. SafeDestroy(o)'
  BY <1>1 DEF Safe, SafeDestroy, Shrinks, Groups
<1> QED
  BY <1>2, <1>3, <1>4, <1>5 DEF Safe

\* An invocation that begins is safe.
LEMMA BeginIsSafe ==
    ASSUME OpType, NEW o \in Operators, NEW mode \in Commands, Begin(o, mode)
    PROVE  Safe(o)'
<1>1. /\ op'[o].pc \in {"lookup", "find"}
      /\ op'[o].pc = "lookup" => op'[o].mode # "destroy"
      /\ op'[o].n = 0
  BY DEF OpType, Begin, Idle
<1> QED
  BY <1>1 DEF Safe, Routed, SafeLaunch, SafeSetup, SafeDestroy, SetupPCs, RunPCs,
      NeedsMaster, DestroyPCs, Busy

\* Initially there is nothing, and nobody is busy.
LEMMA InitIsSafe == Init => TurnsInv
<1> SUFFICES ASSUME Init PROVE TurnsInv
  OBVIOUS
<1>1. TakesTurns
  BY DEF Init, TakesTurns, Busy, Idle
<1>2. \A g : Existing(g) = {}
  BY DEF Init, Existing, IsActive
<1>3. SingleMaster /\ OneLaunch
  BY <1>2 DEF SingleMaster, OneLaunch
<1>4. \A o \in Operators : Safe(o)
  BY DEF Init, Idle, Safe, Routed, SafeLaunch, SafeSetup, SafeDestroy, Busy,
      SetupModes
<1> QED
  BY <1>1, <1>3, <1>4, InitHasType DEF TurnsInv

\* A busy operator's step leaves the idle ones safe.
LEMMA OthersStaySafe ==
    ASSUME NEW o \in Operators, NEW p \in Operators, ~Busy(p), Safe(p),
           op'[p] = op[p]
    PROVE  Safe(p)'
BY DEF Safe, Routed, SafeLaunch, SafeSetup, SafeDestroy, Busy, SetupPCs,
       NeedsMaster

\* When operators take turns every step keeps the invariant.
LEMMA NextIsSafe ==
    ASSUME Exclusive, TurnsInv, [Next]_vars
    PROVE  TurnsInv'
<1> USE DEF TurnsInv, TypeInv
<1>1. TypeInv'
  BY NextKeepsType
<1>2. ASSUME NEW o \in Operators, Step(o) \/ Crash(o)
      PROVE  TurnsInv'
  <2>1. \A p \in Operators \ {o} : ~Busy(p) /\ op'[p] = op[p]
    BY <1>2, StepIsBusy, StepIsOwn DEF TakesTurns
  <2>2. TakesTurns'
    BY <2>1 DEF TakesTurns, Busy
  <2>3. Safe(o)'
    BY <1>2, StepIsRouted, StepKeepsLaunch, StepKeepsSetup, StepKeepsDestroy DEF Safe
  <2>4. \A p \in Operators : Safe(p)'
    BY <2>1, <2>3, OthersStaySafe
  <2> QED
    BY <1>1, <1>2, <2>2, <2>4, StepKeepsCluster
<1>3. ASSUME NEW o \in Operators, NEW mode \in Commands, Begin(o, mode)
      PROVE  TurnsInv'
  <2>1. \A p \in Operators \ {o} : ~Busy(p) /\ op'[p] = op[p]
    BY <1>3 DEF Begin, OpType
  <2>2. TakesTurns'
    BY <2>1 DEF TakesTurns, Busy
  <2>3. \A p \in Operators : Safe(p)'
    BY <1>3, <2>1, BeginIsSafe, OthersStaySafe
  <2>4. SingleMaster' /\ OneLaunch'
    BY <1>3, ShrinkingIsSafe DEF Begin, Shrinks, Existing, IsActive, cloudVars
  <2> QED
    BY <1>1, <2>2, <2>3, <2>4
<1>4. ASSUME NEW i \in Ids, Complete(i) \/ BootFails(i)
      PROVE  TurnsInv'
  <2>1. TakesTurns'
    BY <1>4 DEF Complete, BootFails, TakesTurns, Busy
  <2>2. \A p \in Operators : Safe(p)'
    BY <1>4, CloudKeepsSafe
  <2> QED
    BY <1>1, <1>4, <2>1, <2>2, CloudShrinks, ShrinkingIsSafe
<1>5. CASE UNCHANGED vars
  <2>1. Shrinks /\ UNCHANGED <<groups, op, state, slaveFile>>
    BY <1>5 DEF vars, cloudVars, nodeVars, Shrinks, Existing, IsActive
  <2>2. TakesTurns'
    BY <2>1 DEF TakesTurns, Busy
  <2>3. \A p \in Operators : Safe(p)'
    BY <2>1 DEF Safe, Routed, SafeLaunch, SafeSetup, SafeDestroy, Busy, Shrinks,
        Groups
  <2> QED
    BY <1>1, <2>1, <2>2, <2>3, ShrinkingIsSafe
<1> QED
  BY <1>2, <1>3, <1>4, <1>5 DEF Next

\* If operators take turns there is never a second active master, whatever is
\* interrupted or fails between the check of launch_cluster and its last run.
THEOREM TurnsKeepSingleMaster ==
    ASSUME Exclusive PROVE Spec => []SingleMaster
<1>1. TurnsInv => SingleMaster
  BY DEF TurnsInv
<1>2. TurnsInv /\ [Next]_vars => TurnsInv'
  BY NextIsSafe
<1> QED
  BY <1>1, <1>2, InitIsSafe, PTL DEF Spec

\* Nor are there active slaves of two launches.
THEOREM TurnsKeepOneLaunch ==
    ASSUME Exclusive PROVE Spec => []OneLaunch
<1>1. TurnsInv => OneLaunch
  BY DEF TurnsInv
<1>2. TurnsInv /\ [Next]_vars => TurnsInv'
  BY NextIsSafe
<1> QED
  BY <1>1, <1>2, InitIsSafe, PTL DEF Spec

\* When launch, resume or start reports "Done!", the master has been told of
\* every active slave.
THEOREM TurnsLeaveNoStraySlave ==
    ASSUME Exclusive PROVE Spec => []NoStraySlave
<1>1. TurnsInv => NoStraySlave
  BY DEF TurnsInv, NoStraySlave, Safe, SafeSetup, SetupModes, SetupPCs
<1>2. TurnsInv /\ [Next]_vars => TurnsInv'
  BY NextIsSafe
<1> QED
  BY <1>1, <1>2, InitIsSafe, PTL DEF Spec

\* A destroy that ends leaves no active instance, and no group if it says so.
THEOREM TurnsDestroyAll ==
    ASSUME Exclusive PROVE Spec => []DestroyIsComplete
<1>1. TurnsInv => DestroyIsComplete
  BY DEF TurnsInv, DestroyIsComplete, Safe, SafeDestroy
<1>2. TurnsInv /\ [Next]_vars => TurnsInv'
  BY NextIsSafe
<1> QED
  BY <1>1, <1>2, InitIsSafe, PTL DEF Spec

=============================================================================
