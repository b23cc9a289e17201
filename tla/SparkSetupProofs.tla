--------------------------- MODULE SparkSetupProofs ---------------------------
(***************************************************************************)
(* What the setup of a cluster relies on, in SparkEuca: that the instances *)
(* it waited for have left pending, that they were run in groups that have *)
(* rules, and that they hold the key of the master.                        *)
(***************************************************************************)
EXTENDS SparkRacesProofs

ReadyPCs == {"attach", "key_master", "key_slaves", "packages", "deploy", "script"}

\* The lists of an invocation hold instances that were run.
Listed ==
    \A o \in Operators :
        \A i \in op[o].masters \cup op[o].slaves : state[i] # "none"

\* Nobody stops an instance if no one asks for it.
NeverStopped ==
    "stop" \notin Commands =>
        /\ \A i \in Ids : state[i] \notin {"stopping", "stopped"}
        /\ \A o \in Operators : op[o].mode = "stop" => ~Busy(o)

\* What was waited for has left pending.
Waited(o) ==
    op[o].mode \in {"launch", "start"} =>
        /\ op[o].pc = "wait_slaves" => Settled(op[o].masters)
        /\ op[o].pc \in ReadyPCs => Settled(op[o].masters \cup op[o].slaves)

\* The inductive invariant of the wait.
BootInv ==
    /\ TypeInv
    /\ Listed
    /\ NeverStopped
    /\ \A o \in Operators : Routed(o) /\ Waited(o)

-----------------------------------------------------------------------------
(* What a step may do to an instance and to the lists of an invocation.    *)

\* An instance that was run stays known to the cloud; it leaves pending for good
\* unless it is started again, and is only stopped by a stop.
LEMMA StateFlow ==
    ASSUME CloudType, OpType, NEW o \in Operators, Step(o) \/ Crash(o), NEW i \in Ids
    PROVE  /\ state[i] # "none" => state'[i] # "none"
           /\ state[i] # "none" /\ state'[i] = "pending" =>
                  state[i] = "pending" \/ (StartNode(o) /\ state[i] = "stopped")
           /\ state'[i] = "stopping" => state[i] = "stopping" \/ op[o].pc = "stop"
           /\ state'[i] = "stopped" => state[i] = "stopped"
<1>1. CASE UNCHANGED state
  BY <1>1
<1>2. CASE StartNode(o)
  BY <1>2 DEF CloudType, StartNode
<1>3. CASE StopNode(o)
  BY <1>3 DEF CloudType, StopNode
<1>4. CASE TerminateNode(o)
  BY <1>4 DEF CloudType, TerminateNode
<1>5. CASE RunSlaves(o)
  BY <1>5, RunSlavesFlow DEF CloudType, Run, Free
<1>6. CASE RunMaster(o)
  BY <1>6, RunMasterFlow DEF CloudType, Run, Free
<1>7. CASE Launching(o) /\ ~RunSlaves(o) /\ ~RunMaster(o)
  BY <1>1, <1>7 DEF Launching, LookupGroup, CreateGroup, CreateGroupFails, Authorize,
      AuthorizeFails, GroupAuthorized, CheckExisting, RefuseLaunch,
      ResolveImage, RunFails, Raises, cloudVars
<1>8. CASE SettingUp(o) /\ ~StartNode(o)
  BY <1>1, <1>8 DEF SettingUp, StartNodeFails, Started, WaitMasters, WaitSlaves,
      AttachVolume, AttachVolumeFails, VolumesAttached, KeyMaster, KeySlave,
      SlavesKeyed, InstallPackages, PackagesFail, DeployFiles,
      RunSetupScript, SshFails, Raises, cloudVars
<1>9. CASE Stopping(o) /\ ~StopNode(o)
  BY <1>1, <1>9 DEF Stopping, FindCluster, FindClusterFails, StopNodeFails, Stopped,
      Raises, cloudVars
<1>10. CASE Destroying(o) /\ ~TerminateNode(o)
  BY <1>1, <1>10 DEF Destroying, Terminated, RevokeRule, RevokeRuleFails,
      RulesRevoked, DeleteGroup, AttemptEnds, Raises, cloudVars
<1> QED
  BY <1>1, <1>2, <1>3, <1>4, <1>5, <1>6, <1>7, <1>8, <1>9, <1>10
     DEF Step, Exit, Crash, Raises, cloudVars

\* Nor does the cloud on its own send an instance back.
LEMMA CloudFlow ==
    ASSUME CloudType, NEW j \in Ids, Complete(j) \/ BootFails(j), NEW i \in Ids
    PROVE  /\ state[i] # "none" => state'[i] # "none"
           /\ state'[i] = "pending" => state[i] = "pending"
           /\ state'[i] \in {"stopping", "stopped"} =>
                  state[i] \in {"stopping", "stopped"}
BY DEF CloudType, Complete, BootFails, Vanish

\* The instances an invocation knows it has found or run.
LEMMA ListsFlow ==
    ASSUME CloudType, OpType, NEW o \in Operators, Step(o) \/ Crash(o)
    PROVE  \A i \in op'[o].masters \cup op'[o].slaves :
               \/ i \in op[o].masters \cup op[o].slaves
               \/ state'[i] \notin {"none"}
<1>1. op[o] \in Invocation
  BY DEF OpType
<1>2. CASE op'[o] = Idle
  BY <1>2 DEF Idle
<1>3. ASSUME NEW fresh, AfterGroup(o, fresh)
      PROVE  op'[o].masters = op[o].masters /\ op'[o].slaves = op[o].slaves
  BY <1>1, <1>3 DEF OpType, AfterGroup, Invocation
<1>4. CASE LookupGroup(o) \/ CreateGroup(o)
  BY <1>3, <1>4, JumpKeepsRest DEF LookupGroup, CreateGroup
<1>5. CASE Authorize(o) \/ GroupAuthorized(o) \/ StopNode(o) \/ TerminateNode(o)
  BY <1>1, <1>5
     DEF OpType, Authorize, GroupAuthorized, StopNode, TerminateNode, Invocation
<1>6. ASSUME NEW use \in BOOLEAN, CheckExisting(o, use)
      PROVE  \A i \in op'[o].masters \cup op'[o].slaves :
               \/ i \in op[o].masters \cup op[o].slaves
               \/ state'[i] \notin {"none"}
  BY <1>1, <1>6
     DEF OpType, CheckExisting, Invocation, Existing, IsActive, cloudVars
<1>7. CASE (ResolveImage(o) /\ Goto(o, "run_slaves")) \/ Stopped(o)
  BY <1>7, JumpKeepsRest DEF Stopped
<1>8. CASE RunSlaves(o)
  BY <1>8, RunSlavesFlow DEF Run, Free
<1>9. CASE RunMaster(o)
  BY <1>9, RunMasterFlow DEF Run, Free
<1>10. CASE SettingUp(o) /\ ~Raises(o)
  BY <1>10, SettingUpFlow
<1>11. CASE FindCluster(o)
  BY <1>11, FindFlow DEF FindCluster, Existing, IsActive, cloudVars
<1>12. CASE Destroying(o) /\ ~Raises(o) /\ ~TerminateNode(o)
  <2>1. ASSUME NEW n, Attempt(o, n)
        PROVE  op'[o].masters = op[o].masters /\ op'[o].slaves = op[o].slaves
    BY <1>1, <2>1 DEF OpType, Attempt, Invocation
  <2>2. \A d \in BOOLEAN : Terminated(o, d) =>
            op'[o].masters = op[o].masters /\ op'[o].slaves = op[o].slaves
    BY <2>1, JumpKeepsRest DEF Terminated
  <2>3. \A gr : RevokeRule(o, gr) =>
            op'[o].masters = op[o].masters /\ op'[o].slaves = op[o].slaves
    BY <1>1 DEF OpType, RevokeRule, Invocation
  <2>4. \A g : DeleteGroup(o, g) =>
            op'[o].masters = op[o].masters /\ op'[o].slaves = op[o].slaves
    BY <1>1 DEF OpType, DeleteGroup, Invocation
  <2>5. RulesRevoked(o) \/ AttemptEnds(o) =>
            op'[o].masters = op[o].masters /\ op'[o].slaves = op[o].slaves
    BY <2>1, JumpKeepsRest DEF RulesRevoked, AttemptEnds
  <2> QED
    BY <1>12, <2>2, <2>3, <2>4, <2>5 DEF Destroying, RevokeRuleFails
<1> QED
  BY <1>2, <1>4, <1>5, <1>6, <1>7, <1>8, <1>9, <1>10, <1>11, <1>12, StepCases

\* An invocation does one action of the command line until it exits.
LEMMA StepKeepsMode ==
    ASSUME CloudType, OpType, NEW o \in Operators, Step(o) \/ Crash(o)
    PROVE  op'[o] = Idle \/ op'[o].mode = op[o].mode
<1>1. op[o] \in Invocation
  BY DEF OpType
<1>2. ASSUME NEW use \in BOOLEAN, CheckExisting(o, use)
      PROVE  op'[o].mode = op[o].mode
  BY <1>1, <1>2 DEF OpType, CheckExisting, Invocation
<1>3. StopNode(o) => op'[o].mode = op[o].mode
  BY <1>1 DEF OpType, StopNode, Invocation
<1>4. (ResolveImage(o) /\ Goto(o, "run_slaves")) \/ Stopped(o)
          => op'[o].mode = op[o].mode
  BY JumpKeepsRest DEF Stopped
<1> QED
  BY <1>2, <1>3, <1>4, StepCases, GroupsFlow, RunSlavesFlow, RunMasterFlow,
     SettingUpFlow, FindFlow, DestroyingFlow

-----------------------------------------------------------------------------
(* Instances have booted before they are set up.                           *)

\* An invocation waits before it goes on.
LEMMA StepIsWaited ==
    ASSUME CloudType, OpType, Listed, NEW o \in Operators, Waited(o),
           Step(o) \/ Crash(o)
    PROVE  Waited(o)'
<1> USE DEF NeedsMaster, ReadyPCs
<1>1. op[o] \in Invocation
  BY DEF OpType
<1>2. CASE SettingUp(o) /\ ~Raises(o)
  <2>1. /\ op'[o].mode = op[o].mode
        /\ op'[o].masters = op[o].masters
        /\ op'[o].slaves = op[o].slaves
    BY <1>2, SettingUpFlow
  <2>2. CASE StartNode(o)
    <3>1. op'[o].pc = "start"
      BY <1>1, <2>2 DEF OpType, StartNode, Invocation
    <3> QED
      BY <3>1 DEF Waited
  <2>3. CASE ~StartNode(o)
    <3>1. state' = state
      BY <1>2, <2>3 DEF SettingUp, StartNodeFails, Started, WaitMasters, WaitSlaves,
          AttachVolume, AttachVolumeFails, VolumesAttached, KeyMaster, KeySlave,
          SlavesKeyed, InstallPackages, PackagesFail, DeployFiles,
          RunSetupScript, SshFails, Raises, cloudVars
    <3>2. op'[o].pc = "wait_slaves" =>
              \/ op[o].pc = "wait_slaves"
              \/ op[o].pc = "wait_masters" /\ Settled(op[o].masters)
      <4>1. StartNode(o) \/ AttachVolume(o) \/ KeyMaster(o) \/ KeySlave(o)
                => op'[o].pc # "wait_slaves"
        BY <1>1, <1>2 DEF OpType, Invocation, StartNode, AttachVolume, KeyMaster,
           KeySlave, SshFails
      <4>2. Started(o) \/ VolumesAttached(o) \/ SlavesKeyed(o)
                => op'[o].pc # "wait_slaves"
        BY JumpKeepsRest DEF Started, VolumesAttached, SlavesKeyed
      <4>3. InstallPackages(o) \/ DeployFiles(o) \/ RunSetupScript(o)
                => op'[o].pc # "wait_slaves"
        BY <1>2, JumpKeepsRest
           DEF InstallPackages, DeployFiles, RunSetupScript, SshFails
      <4>4. WaitSlaves(o) => op[o].pc = "wait_slaves"
        BY DEF WaitSlaves
      <4>5. WaitMasters(o) /\ op'[o].pc = "wait_slaves" =>
                op[o].pc = "wait_masters" /\ Settled(op[o].masters)
        BY <1>1 DEF WaitMasters
      <4> QED
        BY <1>2, <4>1, <4>2, <4>3, <4>4, <4>5
           DEF SettingUp, StartNodeFails, AttachVolumeFails, PackagesFail
    <3>3. op'[o].pc \in ReadyPCs =>
              \/ op[o].pc \in ReadyPCs
              \/ op[o].pc = "wait_slaves" /\ Settled(op[o].slaves)
      <4>1. Started(o) \/ WaitMasters(o) => op'[o].pc \notin ReadyPCs
        BY JumpKeepsRest DEF Started, WaitMasters
      <4>2. WaitSlaves(o) /\ op'[o].pc \in ReadyPCs =>
                op[o].pc = "wait_slaves" /\ Settled(op[o].slaves)
        BY <1>1 DEF WaitSlaves
      <4> QED
        BY <1>2, <2>3, <4>1, <4>2
           DEF SettingUp, StartNodeFails, AttachVolumeFails, PackagesFail,
               AttachVolume, VolumesAttached, KeyMaster, KeySlave, SlavesKeyed,
               InstallPackages, DeployFiles, RunSetupScript
    <3> QED
      BY <2>1, <3>1, <3>2, <3>3 DEF Waited, Settled
  <2> QED
    BY <2>2, <2>3
<1>3. CASE ~(SettingUp(o) /\ ~Raises(o))
  <2>1. CASE op'[o] = Idle
    BY <2>1 DEF Idle, Waited
  <2>2. CASE RunSlaves(o) \/ RunMaster(o)
    BY <2>2, RunSlavesFlow, RunMasterFlow DEF Waited
  <2>3. CASE FindCluster(o)
    BY <2>3, FindFlow DEF Waited
  <2>4. CASE Destroying(o) /\ ~Raises(o)
    BY <2>4, DestroyingFlow DEF Waited
  <2>5. CASE LookupGroup(o) \/ CreateGroup(o) \/ Authorize(o) \/ GroupAuthorized(o)
    BY <2>5, GroupsFlow DEF Waited
  <2>6. CASE \E use \in BOOLEAN : CheckExisting(o, use)
    BY <1>1, <2>6 DEF OpType, CheckExisting, Invocation, Waited
  <2>7. CASE ResolveImage(o) /\ Goto(o, "run_slaves")
    BY <2>7, JumpKeepsRest DEF Waited
  <2>8. CASE StopNode(o)
    BY <1>1, <2>8 DEF OpType, StopNode, Invocation, Waited
  <2>9. CASE Stopped(o)
    BY <2>9, JumpKeepsRest DEF Stopped, Waited
  <2> QED
    BY <1>3, <2>1, <2>2, <2>3, <2>4, <2>5, <2>6, <2>7, <2>8, <2>9, StepCases
<1> QED
  BY <1>2, <1>3

\* A step of another invocation sends no instance back to pending: it is not one
\* that restarts what somebody stopped.
LEMMA OthersAreWaited ==
    ASSUME CloudType, OpType, Listed, NeverStopped,
           Exclusive => TakesTurns, Exclusive \/ "stop" \notin Commands,
           NEW o \in Operators, Step(o) \/ Crash(o),
           NEW p \in Operators \ {o}, Waited(p)
    PROVE  Waited(p)'
<1>1. op'[p] = op[p]
  BY StepIsOwn
<1>2. CASE ~Busy(p)
  BY <1>1, <1>2 DEF Busy, Waited, ReadyPCs
<1>3. CASE Busy(p)
  <2>1. "stop" \notin Commands
    BY <1>3, StepIsBusy DEF TakesTurns
  <2>2. ASSUME NEW i \in op[p].masters \cup op[p].slaves, state[i] # "pending"
        PROVE  state'[i] # "pending"
    <3>1. i \in Ids
      BY DEF OpType, Invocation
    <3>2. state[i] \notin {"none", "stopped"}
      BY <2>1, <3>1 DEF Listed, NeverStopped
    <3> QED
      BY <2>2, <3>1, <3>2, StateFlow
  <2> QED
    BY <1>1, <2>2 DEF Waited, Settled
<1> QED
  BY <1>2, <1>3

\* At first nothing was run, and nothing is waited for.
LEMMA InitIsBooted == Init => BootInv
<1> SUFFICES ASSUME Init PROVE BootInv
  OBVIOUS
<1>1. \A o \in Operators : op[o] = Idle
  BY DEF Init
<1>2. Listed
  BY <1>1 DEF Idle, Listed
<1>3. NeverStopped
  BY <1>1 DEF Init, Idle, Busy, NeverStopped
<1>4. \A o \in Operators : Routed(o) /\ Waited(o)
  BY <1>1 DEF Idle, Busy, Routed, Waited
<1> QED
  BY <1>2, <1>3, <1>4, InitHasType DEF BootInv

\* Every step keeps the invariant of the wait.
LEMMA NextIsBooted ==
    ASSUME Exclusive \/ "stop" \notin Commands, Exclusive => TakesTurns,
           BootInv, [Next]_vars
    PROVE  BootInv'
<1> USE DEF BootInv, TypeInv
<1>1. TypeInv'
  BY NextKeepsType
<1>2. ASSUME NEW o \in Operators, Step(o) \/ Crash(o)
      PROVE  BootInv'
  <2>1. \A p \in Operators \ {o} : op'[p] = op[p]
    BY <1>2, StepIsOwn
  <2>2. Listed'
    <3>1. ASSUME NEW p \in Operators, NEW i \in op'[p].masters \cup op'[p].slaves
          PROVE  i \in Ids /\ (i \in op[p].masters \cup op[p].slaves
                                   \/ state'[i] # "none")
      BY <1>1, <1>2, <2>1, ListsFlow DEF OpType, Invocation
    <3> QED
      BY <1>2, <3>1, StateFlow DEF Listed
  <2>3. NeverStopped'
    <3> SUFFICES ASSUME "stop" \notin Commands PROVE NeverStopped'
      BY DEF NeverStopped
    <3>1. op[o].pc # "stop"
      BY DEF NeverStopped, Routed, Busy
    <3>2. \A i \in Ids : state'[i] \notin {"stopping", "stopped"}
      BY <1>2, <3>1, StateFlow DEF NeverStopped
    <3>3. op[o].mode # "stop"
      BY <1>2, StepIsBusy DEF NeverStopped
    <3>4. op'[o].mode = "stop" => ~Busy(o)'
      BY <1>2, <3>3, StepKeepsMode, IdleIsSafe
    <3> QED
      BY <2>1, <3>2, <3>4 DEF NeverStopped, Busy
  <2>4. Routed(o)' /\ Waited(o)'
    BY <1>2, StepIsRouted, StepIsWaited
  <2>5. \A p \in Operators \ {o} : Routed(p)' /\ Waited(p)'
    BY <1>2, <2>1, OthersAreWaited DEF Routed, Busy
  <2> QED
    BY <1>1, <2>2, <2>3, <2>4, <2>5
<1>3. ASSUME NEW o \in Operators, NEW mode \in Commands, Begin(o, mode)
      PROVE  BootInv'
  <2>1. state' = state /\ \A p \in Operators \ {o} : op'[p] = op[p]
    BY <1>3 DEF Begin, OpType, cloudVars
  <2>2. /\ op'[o].pc \in {"lookup", "find"} /\ op'[o].mode = mode
        /\ op'[o].masters = {} /\ op'[o].slaves = {}
        /\ op'[o].pc = "lookup" => op'[o].mode # "destroy"
    BY <1>3, BeginFields
  <2>3. Listed'
    BY <2>1, <2>2 DEF Listed
  <2>4. NeverStopped'
    BY <2>1, <2>2 DEF NeverStopped, Busy
  <2>5. Routed(o)' /\ Waited(o)'
    BY <2>2 DEF Routed, Waited, Busy, DestroyPCs, ReadyPCs
  <2>6. \A p \in Operators \ {o} : Routed(p)' /\ Waited(p)'
    BY <2>1 DEF Routed, Waited, Busy, Settled
  <2> QED
    BY <1>1, <2>3, <2>4, <2>5, <2>6
<1>4. ASSUME NEW j \in Ids, Complete(j) \/ BootFails(j)
      PROVE  BootInv'
  <2>1. op' = op
    BY <1>4 DEF Complete, BootFails
  <2>2. \A o \in Operators : op[o].masters \cup op[o].slaves \subseteq Ids
    BY DEF OpType, Invocation
  <2>3. Listed'
    BY <1>4, <2>1, <2>2, CloudFlow DEF Listed
  <2>4. NeverStopped'
    BY <1>4, <2>1, CloudFlow DEF NeverStopped, Busy
  <2>5. \A o \in Operators : Routed(o)'
    BY <2>1 DEF Routed, Busy
  <2>6. \A o \in Operators : Waited(o)'
    BY <1>4, <2>1, <2>2, CloudFlow DEF Waited, Settled
  <2> QED
    BY <1>1, <2>3, <2>4, <2>5, <2>6
<1>5. CASE UNCHANGED vars
  <2>1. UNCHANGED <<state, op>>
    BY <1>5 DEF vars, cloudVars
  <2>2. Listed' /\ NeverStopped'
    BY <2>1 DEF Listed, NeverStopped, Busy
  <2>3. \A o \in Operators : Routed(o)' /\ Waited(o)'
    BY <2>1 DEF Routed, Waited, Busy, Settled
  <2> QED
    BY <1>1, <2>2, <2>3
<1> QED
  BY <1>2, <1>3, <1>4, <1>5 DEF Next

\* Volumes, keys and scripts come when every node of the cluster has left
\* pending, whoever else runs the launcher: wait_for_cluster waits for the
\* masters, then for the slaves, and no master goes back to pending in the
\* meantime.  That is so if operators take turns, and also if they do not but
\* nobody stops instances, which could be started again behind the wait.
THEOREM SetupWaitsForBoot ==
    ASSUME Exclusive \/ "stop" \notin Commands
    PROVE  Spec => []SetupAfterBoot
<1>1. BootInv => SetupAfterBoot
  BY DEF BootInv, Waited, ReadyPCs, SetupAfterBoot
<1>2. CASE Exclusive
  <2>1. TurnsInv /\ [Next]_vars => TurnsInv'
    BY <1>2, NextIsSafe
  <2>2. TurnsInv /\ BootInv /\ [Next]_vars => BootInv'
    BY <1>2, NextIsBooted DEF TurnsInv
  <2> QED
    BY <1>1, <2>1, <2>2, InitIsSafe, InitIsBooted, PTL DEF Spec
<1>3. CASE ~Exclusive /\ "stop" \notin Commands
  <2>1. BootInv /\ [Next]_vars => BootInv'
    BY <1>3, NextIsBooted
  <2> QED
    BY <1>1, <2>1, InitIsBooted, PTL DEF Spec
<1> QED
  BY <1>2, <1>3

-----------------------------------------------------------------------------
(* Rules before instances.                                                 *)

AllRules == 1..NumRules

\* What an invocation knows of the rules, from get_or_make_group to its runs: a group
\* that is not fresh has some, a fresh one has none until its turn comes, and all of
\* them after it.
RulesOf(o) ==
    /\ op[o].pc \in {"lookup", "create"} =>
           /\ op[o].n = 0
           /\ op[o].turn = "master" => op[o].fresh = {}
           /\ op[o].turn = "slaves" =>
                  /\ "master" \in groups
                  /\ op[o].fresh = IF rules["master"] = {} THEN {"master"} ELSE {}
    /\ op[o].pc = "authorize" =>
           /\ op[o].n <= NumRules
           /\ op[o].turn \notin op[o].fresh => op[o].n = 0
           /\ \A g \in Groups :
                  /\ g \notin op[o].fresh => rules[g] # {}
                  /\ g \in op[o].fresh /\ op[o].turn = g => rules[g] = 1..op[o].n
           /\ "master" \in op[o].fresh /\ op[o].turn = "slaves" =>
                  rules["master"] = AllRules
           /\ "slaves" \in op[o].fresh /\ op[o].turn = "master" => rules["slaves"] = {}
    /\ op[o].pc \in {"check"} \cup RunPCs =>
           \A g \in Groups :
               rules[g] # {} /\ (g \in op[o].fresh => rules[g] = AllRules)

\* The inductive invariant, for operators that take turns.
RulesKnown == \A o \in Operators : RulesOf(o)

\* There is at least one rule.
LEMMA SomeRules == AllRules # {} /\ 1..0 = {} /\ NumRules \in Nat /\ 1 <= NumRules
<1>1. NumRules \in Nat /\ 1 <= NumRules
  BY LauncherAssumption
<1>2. 1 \in AllRules
  BY <1>1 DEF AllRules
<1> QED
  BY <1>1, <1>2

\* What the only busy invocation knows is all that is to be shown.
LEMMA OneKnows ==
    ASSUME NEW o \in Operators, RulesOf(o)',
           \A p \in Operators \ {o} : ~Busy(p) /\ op'[p] = op[p]
    PROVE  RulesKnown'
<1>1. \A p \in Operators \ {o} : RulesOf(p)'
  BY DEF Busy, RulesOf, RunPCs
<1> QED
  BY <1>1 DEF RulesKnown

\* The steps of get_or_make_group.
LEMMA GroupsKeepRules ==
    ASSUME CloudType, OpType, NEW o \in Operators, RulesOf(o),
           LookupGroup(o) \/ CreateGroup(o)
    PROVE  RulesOf(o)'
<1> USE DEF Groups
<1>1. /\ op[o] \in Invocation
      /\ op[o].turn \in Groups /\ op[o].fresh \subseteq Groups /\ op[o].n = 0
      /\ op[o].pc \in {"lookup", "create"}
  BY DEF OpType, Invocation, RulesOf, LookupGroup, CreateGroup
<1>2. ASSUME NEW f \in SUBSET Groups, AfterGroup(o, f)
      PROVE  /\ op'[o].n = 0
             /\ op'[o].fresh = f
             /\ op'[o].turn = IF op[o].turn = "master" THEN "slaves" ELSE "master"
             /\ op'[o].pc = IF op[o].turn = "master" THEN "lookup" ELSE "authorize"
  BY <1>1, <1>2 DEF OpType, AfterGroup, Invocation
<1>3. CASE LookupGroup(o) /\ op[o].turn \notin groups
  <2>1. /\ op'[o] = [op[o] EXCEPT !.pc = "create"]
        /\ UNCHANGED <<groups, rules>>
    BY <1>3 DEF LookupGroup, Goto, OpType, cloudVars
  <2> QED
    BY <1>1, <1>3, <2>1 DEF RulesOf, RunPCs, LookupGroup, Invocation
<1>4. ASSUME NEW f \in SUBSET Groups, AfterGroup(o, f),
             groups' = groups \cup {op[o].turn},
             \A g \in Groups \ {op[o].turn} : rules'[g] = rules[g],
             f = op[o].fresh
                 \cup (IF rules'[op[o].turn] = {} THEN {op[o].turn} ELSE {})
      PROVE  RulesOf(o)'
  <2>1. CASE op[o].turn = "master"
    <3>1. op[o].fresh = {}
      BY <1>1, <2>1 DEF RulesOf
    <3> QED
      BY <1>1, <1>2, <1>4, <2>1, <3>1 DEF RulesOf, RunPCs
  <2>2. CASE op[o].turn = "slaves"
    <3>1. /\ "master" \in groups
          /\ op[o].fresh = IF rules["master"] = {} THEN {"master"} ELSE {}
      BY <1>1, <2>2 DEF RulesOf
    <3>2. \A g \in Groups : g \in f <=> rules'[g] = {}
      BY <1>4, <2>2, <3>1
    <3>3. op'[o].pc = "authorize" /\ op'[o].turn = "master" /\ op'[o].fresh = f
          /\ op'[o].n = 0
      BY <1>2, <1>4, <2>2
    <3> QED
      BY <3>2, <3>3, SomeRules DEF RulesOf, RunPCs
  <2> QED
    BY <1>1, <2>1, <2>2
<1>5. CASE LookupGroup(o) /\ op[o].turn \in groups
  <2> DEFINE f == op[o].fresh \cup (IF rules[op[o].turn] = {} THEN {op[o].turn} ELSE {})
  <2>1. AfterGroup(o, f) /\ UNCHANGED <<groups, rules>>
    BY <1>5 DEF LookupGroup, cloudVars
  <2>2. f \in SUBSET Groups
    BY <1>1
  <2> QED
    BY <1>4, <1>5, <2>1, <2>2
<1>6. CASE CreateGroup(o)
  <2>1. /\ AfterGroup(o, op[o].fresh \cup {op[o].turn})
        /\ groups' = groups \cup {op[o].turn}
        /\ rules' = [rules EXCEPT ![op[o].turn] = {}]
    BY <1>6 DEF CreateGroup
  <2>2. /\ \A g \in Groups \ {op[o].turn} : rules'[g] = rules[g]
        /\ rules'[op[o].turn] = {}
    BY <1>1, <2>1 DEF CloudType
  <2> QED
    BY <1>1, <1>4, <2>1, <2>2
<1> QED
  BY <1>3, <1>5, <1>6

\* The authorize() calls, which complete a fresh group before the next.
LEMMA AuthorizeKeepsRules ==
    ASSUME CloudType, OpType, NEW o \in Operators, RulesOf(o),
           Authorize(o) \/ GroupAuthorized(o)
    PROVE  RulesOf(o)'
<1> USE DEF Groups
<1>1. /\ op[o] \in Invocation /\ op[o].pc = "authorize"
      /\ op[o].turn \in Groups /\ op[o].fresh \subseteq Groups /\ op[o].n \in Nat
      /\ NumRules \in Nat \ {0}
  BY LauncherAssumption DEF OpType, Invocation, Authorize, GroupAuthorized
<1>2. CASE Authorize(o)
  <2>1. /\ op'[o] = [op[o] EXCEPT !.n = op[o].n + 1]
        /\ op[o].turn \in op[o].fresh /\ op[o].n < NumRules
        /\ rules' = [rules EXCEPT ![op[o].turn] = @ \cup {op[o].n + 1}]
    BY <1>2 DEF Authorize, OpType
  <2>2. /\ op'[o].pc = "authorize" /\ op'[o].n = op[o].n + 1
        /\ op'[o].turn = op[o].turn /\ op'[o].fresh = op[o].fresh
    BY <1>1, <2>1 DEF Invocation
  <2>3. (1..op[o].n) \cup {op[o].n + 1} = 1..(op[o].n + 1)
    BY <1>1
  <2>4. /\ rules'[op[o].turn] = 1..(op[o].n + 1)
        /\ \A g \in Groups \ {op[o].turn} : rules'[g] = rules[g]
    BY <1>1, <2>1, <2>3 DEF RulesOf, CloudType
  <2>5. /\ \A g \in Groups : g \notin op[o].fresh => rules[g] # {}
        /\ "master" \in op[o].fresh /\ op[o].turn = "slaves" =>
               rules["master"] = AllRules
        /\ "slaves" \in op[o].fresh /\ op[o].turn = "master" => rules["slaves"] = {}
    BY <1>1 DEF RulesOf
  <2>6. /\ \A g \in Groups : g \notin op'[o].fresh => rules'[g] # {}
        /\ "master" \in op'[o].fresh /\ op'[o].turn = "slaves" =>
               rules'["master"] = AllRules
        /\ "slaves" \in op'[o].fresh /\ op'[o].turn = "master" => rules'["slaves"] = {}
        /\ \A g \in Groups : g \in op'[o].fresh /\ op'[o].turn = g
                                   => rules'[g] = 1..op'[o].n
    BY <2>1, <2>2, <2>4, <2>5
  <2>7. op'[o].n <= NumRules /\ op'[o].turn \in op'[o].fresh
    BY <1>1, <2>1, <2>2
  <2> QED
    BY <2>2, <2>6, <2>7 DEF RulesOf, RunPCs, AllRules
<1>3. CASE GroupAuthorized(o)
  <2>1. /\ op'[o] = [op[o] EXCEPT !.n = 0, !.turn = "slaves",
                         !.pc = IF op[o].turn = "master" THEN "authorize" ELSE "check"]
        /\ op[o].turn \in op[o].fresh => op[o].n = NumRules
        /\ UNCHANGED rules
    BY <1>3 DEF GroupAuthorized, OpType, cloudVars
  <2>2. /\ op'[o].n = 0 /\ op'[o].turn = "slaves" /\ op'[o].fresh = op[o].fresh
        /\ op'[o].pc = IF op[o].turn = "master" THEN "authorize" ELSE "check"
    BY <1>1, <2>1 DEF Invocation
  <2>3. op[o].turn \in op[o].fresh => rules[op[o].turn] = AllRules
    BY <1>1, <2>1 DEF RulesOf, AllRules
  <2>4. \A g \in Groups : g \notin op[o].fresh => rules[g] # {}
    BY <1>1 DEF RulesOf
  <2>5. CASE op[o].turn = "master"
    <3>1. "slaves" \in op[o].fresh => rules["slaves"] = 1..0
      BY <1>1, <2>5, SomeRules DEF RulesOf
    <3>2. "master" \in op[o].fresh => rules["master"] = AllRules
      BY <2>3, <2>5
    <3>3. op'[o].pc = "authorize" /\ op'[o].n <= NumRules
      BY <2>2, <2>5, SomeRules
    <3>4. \A g \in Groups : g \in op'[o].fresh /\ op'[o].turn = g
                                => rules'[g] = 1..op'[o].n
      BY <2>1, <2>2, <3>1
    <3> QED
      BY <2>1, <2>2, <2>4, <3>2, <3>3, <3>4 DEF RulesOf, RunPCs, AllRules
  <2>6. CASE op[o].turn = "slaves"
    <3>1. \A g \in Groups : g \in op[o].fresh => rules[g] = AllRules
      BY <1>1, <2>3, <2>6 DEF RulesOf
    <3> QED
      BY <2>1, <2>2, <2>4, <2>6, <3>1, SomeRules DEF RulesOf, RunPCs
  <2> QED
    BY <1>1, <2>5, <2>6
<1> QED
  BY <1>2, <1>3

\* The check and the runs leave the groups as they are.
LEMMA RunsKeepRules ==
    ASSUME CloudType, OpType, NEW o \in Operators, RulesOf(o),
           \/ \E use \in BOOLEAN : CheckExisting(o, use)
           \/ ResolveImage(o) \/ RunSlaves(o) \/ RunMaster(o)
    PROVE  RulesOf(o)'
<1> USE DEF RunPCs
<1>1. op[o] \in Invocation
  BY DEF OpType
<1>2. op[o].pc \in {"check"} \cup RunPCs /\ UNCHANGED rules
  BY DEF CheckExisting, ResolveImage, RunSlaves, RunMaster, Run, cloudVars
<1>3. SUFFICES op'[o].pc \notin {"lookup", "create", "authorize"} /\
               (op'[o].pc = "idle" \/ op'[o].fresh = op[o].fresh)
  BY <1>2 DEF RulesOf
<1>4. ASSUME NEW use \in BOOLEAN, CheckExisting(o, use)
      PROVE  op'[o].pc = "image" /\ op'[o].fresh = op[o].fresh
  BY <1>1, <1>4 DEF OpType, CheckExisting, Invocation
<1>5. CASE ResolveImage(o)
  BY <1>1, <1>5, ExitIsIdle DEF OpType, ResolveImage, Goto, Idle, Invocation
<1>6. CASE RunSlaves(o)
  <2>1. PICK new \in Allocation(GetPartition(Slaves, Zones, op[o].n)) :
            op' = [op EXCEPT
                ![o].slaves = @ \cup new,
                ![o].n = @ + 1,
                ![o].todo = op[o].masters,
                ![o].pc = IF op[o].n + 1 < Zones THEN "run_slaves"
                          ELSE IF op[o].masters # {} THEN "start" ELSE "run_master"]
    BY <1>6 DEF RunSlaves
  <2>2. op'[o].fresh = op[o].fresh
    BY <1>1, <2>1 DEF OpType, Invocation
  <2>3. op'[o].pc \in {"run_slaves", "start", "run_master"}
    BY <1>6, RunSlavesFlow
  <2> QED
    BY <2>2, <2>3
<1>7. CASE RunMaster(o)
  <2>1. op'[o].fresh = op[o].fresh
    BY <1>1, <1>7 DEF OpType, RunMaster, Invocation
  <2> QED
    BY <1>7, <2>1, RunMasterFlow
<1> QED
  BY <1>4, <1>5, <1>6, <1>7

\* Nor do calls that fail, the setup and the other commands get into a launch.
LEMMA StepKeepsRules ==
    ASSUME CloudType, OpType, NEW o \in Operators, RulesOf(o), Step(o) \/ Crash(o)
    PROVE  RulesOf(o)'
<1> USE DEF RunPCs
<1>1. op[o] \in Invocation
  BY DEF OpType
<1>2. CASE op'[o].pc \notin {"lookup", "create", "authorize", "check"} \cup RunPCs
  BY <1>2 DEF RulesOf
<1>3. CASE Raises(o)
  <2>1. op'[o].pc = "idle"
    BY <1>3, ExitIsIdle DEF Raises, Idle
  <2> QED
    BY <1>2, <2>1
<1>4. CASE Launching(o)
  <2>1. CASE CreateGroupFails(o) \/ AuthorizeFails(o) \/ RunFails(o)
             \/ \E use \in BOOLEAN : RefuseLaunch(o, use)
    BY <1>3, <2>1 DEF CreateGroupFails, AuthorizeFails, RunFails, RefuseLaunch
  <2> QED
    BY <1>4, <2>1, GroupsKeepRules, AuthorizeKeepsRules, RunsKeepRules DEF Launching
<1>5. CASE SettingUp(o) /\ ~Raises(o)
  <2>1. op'[o].pc \in NeedsMaster \cup {"done"}
    BY <1>5, SettingUpFlow
  <2> QED
    BY <1>2, <2>1 DEF NeedsMaster
<1>6. CASE Stopping(o)
  <2>1. CASE FindCluster(o)
    BY <1>2, <2>1, FindFlow
  <2>2. CASE StopNode(o) \/ Stopped(o)
    <3>1. op'[o].pc \in {"stop", "done"}
      BY <1>1, <2>2 DEF OpType, StopNode, Stopped, Goto, Invocation
    <3> QED
      BY <1>2, <3>1
  <2>3. CASE FindClusterFails(o) \/ StopNodeFails(o)
    BY <1>3, <2>3 DEF FindClusterFails, StopNodeFails
  <2> QED
    BY <1>6, <2>1, <2>2, <2>3 DEF Stopping
<1>7. CASE Destroying(o)
  <2>1. ASSUME NEW n, Attempt(o, n)
        PROVE  op'[o].pc = "revoke"
    BY <1>1, <2>1 DEF OpType, Attempt, Invocation
  <2>2. CASE TerminateNode(o) \/ RulesRevoked(o)
    <3>1. op'[o].pc \in {"terminate", "delete"}
      BY <1>1, <2>2 DEF OpType, TerminateNode, RulesRevoked, Goto, Invocation
    <3> QED
      BY <1>2, <3>1
  <2>3. CASE AttemptEnds(o) \/ \E delete \in BOOLEAN : Terminated(o, delete)
    <3>1. op'[o].pc \in {"revoke", "done"}
      BY <2>1, <2>3, JumpKeepsRest DEF AttemptEnds, Terminated
    <3> QED
      BY <1>2, <3>1
  <2>4. ASSUME NEW gr \in Groups \X (1..NumRules), RevokeRule(o, gr)
        PROVE  op'[o].pc = "revoke"
    BY <1>1, <2>4 DEF OpType, RevokeRule, Invocation
  <2>5. ASSUME NEW gr, RevokeRuleFails(o, gr)
        PROVE  Raises(o)
    BY <2>5 DEF RevokeRuleFails
  <2>6. ASSUME NEW g \in Groups, DeleteGroup(o, g)
        PROVE  op'[o].pc = "delete"
    BY <1>1, <2>6 DEF OpType, DeleteGroup, Invocation
  <2> QED
    BY <1>2, <1>3, <1>7, <2>2, <2>3, <2>4, <2>5, <2>6 DEF Destroying
<1>8. CASE Exit(o) \/ Crash(o)
  BY <1>3, <1>8 DEF Exit, Crash
<1> QED
  BY <1>3, <1>4, <1>5, <1>6, <1>7, <1>8 DEF Step

\* Operators that take turns leave one another's groups alone during a launch.
LEMMA NextKeepsRules ==
    ASSUME Exclusive, TypeInv, TakesTurns, RulesKnown, [Next]_vars
    PROVE  RulesKnown'
<1> USE DEF TypeInv
<1>1. ASSUME NEW o \in Operators, Step(o) \/ Crash(o)
      PROVE  RulesKnown'
  <2>1. \A p \in Operators \ {o} : ~Busy(p) /\ op'[p] = op[p]
    BY <1>1, StepIsBusy, StepIsOwn DEF TakesTurns
  <2>2. RulesOf(o)'
    BY <1>1, StepKeepsRules DEF RulesKnown
  <2> QED
    BY <2>1, <2>2, OneKnows
<1>2. ASSUME NEW o \in Operators, NEW mode \in Commands, Begin(o, mode)
      PROVE  RulesKnown'
  <2>1. \A p \in Operators \ {o} : ~Busy(p) /\ op'[p] = op[p]
    BY <1>2 DEF Begin, OpType
  <2>2. /\ op'[o].pc \in {"lookup", "find"} /\ op'[o].n = 0
        /\ op'[o].turn = "master" /\ op'[o].fresh = {}
    BY <1>2, BeginFields
  <2>3. RulesOf(o)'
    BY <2>2 DEF RulesOf, RunPCs
  <2> QED
    BY <2>1, <2>3, OneKnows
<1>3. CASE UNCHANGED <<groups, rules, op>>
  BY <1>3 DEF RulesKnown, RulesOf, AllRules
<1>4. ASSUME NEW i \in Ids, Complete(i) \/ BootFails(i)
      PROVE  RulesKnown'
  BY <1>3, <1>4 DEF Complete, BootFails
<1>5. CASE UNCHANGED vars
  BY <1>3, <1>5 DEF vars, cloudVars
<1> QED
  BY <1>1, <1>2, <1>4, <1>5 DEF Next

\* launch_cluster, when operators take turns: by the time it runs instances every
\* group has rules, and one that was made or found empty all of them, whatever was
\* interrupted, deletes that failed and revokes that left their rule where it was.
THEOREM RunsFollowRules ==
    ASSUME Exclusive
    PROVE  Spec => []NoBareGroups
<1>1. RulesKnown => NoBareGroups
  BY DEF RulesKnown, RulesOf, RunPCs, AllRules, NoBareGroups
<1>2. Init => RulesKnown
  BY DEF Init, Idle, RulesKnown, RulesOf, RunPCs
<1>3. TurnsInv /\ [Next]_vars => TurnsInv'
  BY NextIsSafe
<1>4. TurnsInv /\ RulesKnown /\ [Next]_vars => RulesKnown'
  BY NextKeepsRules DEF TurnsInv
<1> QED
  BY <1>1, <1>2, <1>3, <1>4, InitIsSafe, PTL DEF Spec

-----------------------------------------------------------------------------
(* Keys before scripts.                                                    *)

Cluster == Existing("master") \cup Existing("slaves")

\* launch, after its runs and until every node has the key.
Fresh(o) ==
    /\ op[o].mode = "launch"
    /\ op[o].pc \in {"wait_masters", "wait_slaves", "attach", "key_master",
                     "key_slaves"}

\* Only launch launches, and launch starts nothing: with a master there are
\* slaves, which end it at the check.
ModesOf(o) ==
    /\ op[o].pc \in LaunchPCs => op[o].mode = "launch"
    /\ op[o].pc \in {"find", "start"} => op[o].mode # "launch"

\* What a launch has run so far is new, and is all there is.
RunsOf(o) ==
    /\ op[o].pc \in RunPCs => op[o].masters = {}
    /\ op[o].pc \in {"run_slaves", "run_master"} =>
           \A i \in Existing("slaves") :
               state[i] \in {"pending", "running"} /\ i \notin attached
    /\ (op[o].pc = "run_slaves" /\ op[o].n > 0) \/ op[o].pc = "run_master" =>
           Existing("slaves") # {}

\* The lists of an invocation hold active instances; destroy takes the master
\* first.
ListsOf(o) ==
    /\ op[o].pc \in LaunchPCs \cup NeedsMaster => op[o].slaves \subseteq Existing("slaves")
    /\ op[o].pc \in NeedsMaster => op[o].masters \subseteq Existing("master")
    /\ op[o].pc = "terminate" =>
           /\ Existing("master") \subseteq op[o].masters
           /\ op[o].masters \cap Existing("slaves") = {}

\* Nothing the rest of a launch calls can fail.
FreshOf(o) ==
    Fresh(o) =>
        /\ \A i \in Cluster : state[i] \in {"pending", "running"}
        /\ op[o].pc \in {"wait_masters", "wait_slaves"} => Cluster \cap attached = {}
        /\ op[o].pc = "wait_slaves" => \A i \in op[o].masters : state[i] = "running"
        /\ op[o].pc \in {"attach", "key_master", "key_slaves"} =>
               \A i \in Cluster : state[i] = "running"
        /\ op[o].pc \in {"attach", "key_slaves"} => op[o].todo \subseteq Cluster
        /\ op[o].pc = "attach" => op[o].todo \cap attached = {}
        /\ op[o].pc = "key_slaves" =>
               /\ op[o].masters \subseteq keyed
               /\ op[o].slaves \ op[o].todo \subseteq keyed

KeysOf(o) == ModesOf(o) /\ RunsOf(o) /\ ListsOf(o) /\ FreshOf(o)

\* Volumes are attached to instances that were run; no master is without slaves;
\* and a cluster that has a master and is past its launch has its keys.
KeyedCluster ==
    /\ \A i \in attached : state[i] # "none"
    /\ Existing("master") # {} => Existing("slaves") # {}
    /\ Existing("master") # {} /\ (\A o \in Operators : ~Fresh(o)) => Cluster \subseteq keyed

\* The inductive invariant of the keys.
KeysInv == KeyedCluster /\ \A o \in Operators : KeysOf(o)

\* Idle operators hold nothing.
LEMMA IdleHoldsNothing ==
    ASSUME NEW o \in Operators, op'[o].pc = "idle"
    PROVE  KeysOf(o)' /\ ~Fresh(o)'
BY DEF KeysOf, ModesOf, RunsOf, ListsOf, FreshOf, Fresh, LaunchPCs, GroupPCs, RunPCs,
       NeedsMaster

\* An instance is in one group.
LEMMA GroupsAreApart == Existing("master") \cap Existing("slaves") = {}
BY DEF Existing

\* What a run adds, exactly.
LEMMA RunGrows ==
    ASSUME CloudType, NEW o \in Operators, NEW g \in Groups,
           NEW new \in SUBSET Free, Run(o, g, new)
    PROVE  /\ Existing(g)' = Existing(g) \cup new
           /\ \A h \in Groups \ {g} : Existing(h)' = Existing(h)
           /\ \A i \in new : state'[i] = "pending" /\ state[i] = "none"
           /\ \A i \in Ids \ new : state'[i] = state[i]
           /\ UNCHANGED <<attached, keyed>>
BY DEF CloudType, Run, Free, Existing, IsActive, nodeVars

\* If nothing fails, only runs and terminations change what is active.
LEMMA QuietKeepsCluster ==
    ASSUME CloudType, NEW o \in Operators, Step(o),
           ~RunSlaves(o), ~RunMaster(o), ~TerminateNode(o)
    PROVE  \A g \in Groups : Existing(g)' = Existing(g)
<1>1. CASE UNCHANGED <<state, group>>
  BY <1>1 DEF Existing, IsActive
<1>2. CASE StartNode(o)
  BY <1>2 DEF CloudType, StartNode, Existing, IsActive
<1>3. CASE StopNode(o)
  BY <1>3 DEF CloudType, StopNode, Existing, IsActive
<1>4. CASE Launching(o)
  BY <1>1, <1>4 DEF Launching, LookupGroup, CreateGroup, CreateGroupFails, Authorize,
      AuthorizeFails, GroupAuthorized, CheckExisting, RefuseLaunch,
      ResolveImage, RunFails, Raises, cloudVars
<1>5. CASE SettingUp(o) /\ ~StartNode(o)
  BY <1>1, <1>5 DEF SettingUp, StartNodeFails, Started, WaitMasters, WaitSlaves,
      AttachVolume, AttachVolumeFails, VolumesAttached, KeyMaster, KeySlave,
      SlavesKeyed, InstallPackages, PackagesFail, DeployFiles,
      RunSetupScript, SshFails, Raises, cloudVars
<1>6. CASE Stopping(o) /\ ~StopNode(o)
  BY <1>1, <1>6 DEF Stopping, FindCluster, FindClusterFails, StopNodeFails, Stopped,
      Raises, cloudVars
<1>7. CASE Destroying(o)
  BY <1>1, <1>7 DEF Destroying, Terminated, RevokeRule, RevokeRuleFails,
      RulesRevoked, DeleteGroup, AttemptEnds, Raises, cloudVars
<1> QED
  BY <1>1, <1>2, <1>3, <1>4, <1>5, <1>6, <1>7 DEF Step, Exit, Raises, cloudVars

\* A launch gets its slaves from its runs only.
LEMMA LaunchKeepsSlaves ==
    ASSUME CloudType, OpType, NEW o \in Operators, Step(o),
           ~RunSlaves(o), ~RunMaster(o), op'[o].pc \in LaunchPCs
    PROVE  op'[o].slaves = op[o].slaves
<1> USE DEF LaunchPCs, RunPCs, NeedsMaster
<1>1. op[o] \in Invocation
  BY DEF OpType
<1>2. op'[o] # Idle
  BY DEF Idle, GroupPCs
<1>3. ASSUME NEW fresh, AfterGroup(o, fresh)
      PROVE  op'[o].slaves = op[o].slaves
  BY <1>1, <1>3 DEF OpType, AfterGroup, Invocation
<1>4. CASE LookupGroup(o) \/ CreateGroup(o)
  BY <1>3, <1>4, JumpKeepsRest DEF LookupGroup, CreateGroup
<1>5. CASE Authorize(o) \/ GroupAuthorized(o)
  BY <1>1, <1>5 DEF OpType, Authorize, GroupAuthorized, Invocation
<1>6. CASE \E use \in BOOLEAN : CheckExisting(o, use)
  BY <1>1, <1>6 DEF OpType, CheckExisting, Invocation
<1>7. CASE ResolveImage(o) /\ Goto(o, "run_slaves")
  BY <1>7, JumpKeepsRest
<1>8. ~(SettingUp(o) /\ ~Raises(o)) /\ ~FindCluster(o)
  BY SettingUpFlow, FindFlow DEF GroupPCs
<1>9. ~StopNode(o) /\ ~Stopped(o)
  BY <1>1, JumpKeepsRest DEF OpType, StopNode, Stopped, Invocation, GroupPCs
<1>10. ~(Destroying(o) /\ ~Raises(o))
  BY DestroyingFlow DEF GroupPCs
<1> QED
  BY <1>2, <1>4, <1>5, <1>6, <1>7, <1>8, <1>9, <1>10, StepCases

\* The first zone gets a slave.
LEMMA FirstZoneGetsOne == GetPartition(Slaves, Zones, 0) >= 1
<1> DEFINE q == Slaves \div Zones
           r == Slaves % Zones
<1>1. Slaves = Zones * q + r /\ q \in Nat /\ r \in Nat /\ Slaves # 0 /\ Zones \in Nat
  BY DivMod
<1>2. GetPartition(Slaves, Zones, 0) = q + (IF r - 0 > 0 THEN 1 ELSE 0)
  BY DEF GetPartition
<1> HIDE DEF q, r
<1>3. q # 0 \/ r # 0
  BY <1>1
<1> QED
  BY <1>1, <1>2, <1>3

\* The invariant is a matter of the one invocation that is under way.
LEMMA OneIsUnderWay ==
    ASSUME NEW o \in Operators, \A p \in Operators \ {o} : ~Busy(p) /\ op'[p] = op[p]
    PROVE  /\ KeysInv /\ ~Fresh(o) /\ Existing("master") # {} => Cluster \subseteq keyed
           /\ /\ KeysOf(o)'
              /\ \A i \in attached' : state'[i] # "none"
              /\ Existing("master")' # {} => Existing("slaves")' # {}
              /\ Existing("master")' # {} /\ ~Fresh(o)' => Cluster' \subseteq keyed'
              => KeysInv'
<1>1. \A p \in Operators \ {o} : ~Fresh(p) /\ op'[p].pc = "idle"
  BY DEF Busy, Fresh
<1>2. \A p \in Operators \ {o} : KeysOf(p)'
  BY <1>1, IdleHoldsNothing
<1> QED
  BY <1>1, <1>2 DEF KeysInv, KeyedCluster

\* The slaves of a zone are new, and there is no master yet.
LEMMA RunSlavesKeepsKeys ==
    ASSUME TypeInv, KeysInv, NEW o \in Operators, Safe(o),
           \A p \in Operators \ {o} : ~Busy(p) /\ op'[p] = op[p],
           RunSlaves(o)
    PROVE  KeysInv'
<1> USE DEF TypeInv, Groups, LaunchPCs, GroupPCs, RunPCs, NeedsMaster
<1>1. PICK new \in SUBSET Free :
          /\ Cardinality(new) = GetPartition(Slaves, Zones, op[o].n)
          /\ Run(o, "slaves", new)
          /\ op'[o].slaves = op[o].slaves \cup new
  BY RunSlavesFlow
<1>2. /\ op[o].pc = "run_slaves" /\ op[o].masters = {} /\ op'[o].masters = {}
      /\ op'[o].mode = "launch" /\ op'[o].n = op[o].n + 1
      /\ op'[o].pc \in {"run_slaves", "run_master"}
      /\ op[o].n \in Nat
  BY RunSlavesFlow, LaunchesAreNumbers DEF KeysInv, KeysOf, ModesOf, RunsOf
<1>3. /\ Existing("slaves")' = Existing("slaves") \cup new
      /\ Existing("master")' = Existing("master")
      /\ \A i \in new : state'[i] = "pending" /\ state[i] = "none"
      /\ \A i \in Ids \ new : state'[i] = state[i]
      /\ UNCHANGED <<attached, keyed>>
  BY <1>1, RunGrows
<1>4. Existing("master") = {}
  BY <1>2 DEF Safe, SafeLaunch
<1>5. Existing("slaves")' # {}
  <2>1. CASE op[o].n = 0
    <3>1. Cardinality(new) >= 1
      BY <1>1, <2>1, FirstZoneGetsOne
    <3>2. new # {}
      BY <3>1, FS_EmptySet
    <3> QED
      BY <1>3, <3>2
  <2>2. CASE op[o].n > 0
    BY <1>2, <1>3, <2>2 DEF KeysInv, KeysOf, RunsOf
  <2> QED
    BY <1>2, <2>1, <2>2
<1>6. \A i \in attached : state[i] # "none"
  BY DEF KeysInv, KeyedCluster
<1>7. attached \subseteq Ids /\ Existing("slaves") \subseteq Ids
  BY DEF NodeType, Existing
<1>8. \A i \in attached : i \notin new
  BY <1>3, <1>6
<1>9. \A i \in Existing("slaves") :
          state[i] \in {"pending", "running"} /\ i \notin attached /\ i \notin new
  BY <1>2, <1>3 DEF KeysInv, KeysOf, RunsOf
<1>10. \A i \in Existing("slaves")' :
           state'[i] \in {"pending", "running"} /\ i \notin attached'
  BY <1>3, <1>7, <1>8, <1>9
<1>11. op'[o].slaves \subseteq Existing("slaves")'
  BY <1>1, <1>2, <1>3 DEF KeysInv, KeysOf, ListsOf
<1>12. KeysOf(o)'
  BY <1>2, <1>5, <1>10, <1>11 DEF KeysOf, ModesOf, RunsOf, ListsOf, FreshOf, Fresh
<1>13. \A i \in attached' : state'[i] # "none"
  BY <1>3, <1>6, <1>7, <1>8
<1> QED
  BY <1>3, <1>4, <1>12, <1>13, OneIsUnderWay

\* So is the master, which joins them.
LEMMA RunMasterKeepsKeys ==
    ASSUME TypeInv, KeysInv, NEW o \in Operators, Safe(o),
           \A p \in Operators \ {o} : ~Busy(p) /\ op'[p] = op[p],
           RunMaster(o)
    PROVE  KeysInv'
<1> USE DEF TypeInv, Groups, LaunchPCs, GroupPCs, RunPCs, NeedsMaster
<1>1. PICK m \in Free : Run(o, "master", {m}) /\ op'[o].masters = {m}
  BY RunMasterFlow
<1>2. /\ op[o].pc = "run_master" /\ op'[o].pc = "wait_masters"
      /\ op'[o].mode = "launch" /\ op'[o].slaves = op[o].slaves
  BY RunMasterFlow DEF KeysInv, KeysOf, ModesOf
<1>3. /\ Existing("master")' = Existing("master") \cup {m}
      /\ Existing("slaves")' = Existing("slaves")
      /\ state'[m] = "pending" /\ state[m] = "none"
      /\ \A i \in Ids \ {m} : state'[i] = state[i]
      /\ UNCHANGED <<attached, keyed>>
  BY <1>1, RunGrows
<1>4. Existing("master") = {}
  BY <1>2 DEF Safe, SafeLaunch
<1>5. /\ Existing("slaves") # {} /\ Existing("slaves") \subseteq Ids
      /\ \A i \in Existing("slaves") :
             state[i] \in {"pending", "running"} /\ i \notin attached
      /\ op[o].slaves \subseteq Existing("slaves")
  BY <1>2 DEF KeysInv, KeysOf, RunsOf, ListsOf, Existing
<1>6. attached \subseteq Ids \ {m} /\ \A i \in attached : state[i] # "none"
  BY <1>3 DEF KeysInv, KeyedCluster, NodeType
<1>7. \A i \in Cluster' : state'[i] \in {"pending", "running"} /\ i \notin attached'
  BY <1>3, <1>4, <1>5, <1>6 DEF Cluster
<1>8. KeysOf(o)'
  BY <1>1, <1>2, <1>3, <1>5, <1>7
     DEF KeysOf, ModesOf, RunsOf, ListsOf, FreshOf, Fresh
<1>9. Fresh(o)'
  BY <1>2 DEF Fresh
<1>10. \A i \in attached' : state'[i] # "none"
  BY <1>3, <1>6
<1> QED
  BY <1>3, <1>5, <1>8, <1>9, <1>10, OneIsUnderWay

\* destroy never leaves a master without slaves.
LEMMA TerminateKeepsKeys ==
    ASSUME TypeInv, KeysInv, NEW o \in Operators, Safe(o),
           \A p \in Operators \ {o} : ~Busy(p) /\ op'[p] = op[p],
           TerminateNode(o)
    PROVE  KeysInv'
<1> USE DEF TypeInv, Groups, LaunchPCs, GroupPCs, RunPCs, NeedsMaster
<1> DEFINE i == NextOf(op[o].todo, op[o].masters)
<1>1. /\ op[o] \in Invocation /\ op[o].pc = "terminate" /\ op[o].todo # {}
      /\ op[o].mode = "destroy" /\ i \in Ids
  BY NodesAreIds DEF OpType, TerminateNode, Safe, Routed
<1>2. /\ state' = [state EXCEPT ![i] = IF @ = "terminated" THEN @ ELSE "shutting-down"]
      /\ op'[o] = [op[o] EXCEPT !.todo = @ \ {i}]
      /\ UNCHANGED <<group, attached, keyed>>
  BY DEF TerminateNode, OpType, nodeVars
<1>3. /\ op'[o].pc = "terminate" /\ op'[o].mode = "destroy"
      /\ op'[o].masters = op[o].masters
  BY <1>1, <1>2 DEF Invocation
<1>4. /\ Existing("master")' = Existing("master") \ {i}
      /\ Existing("slaves")' = Existing("slaves") \ {i}
      /\ \A j \in Ids : state[j] # "none" => state'[j] # "none"
  BY <1>1, <1>2 DEF CloudType, Existing, IsActive
<1>5. /\ Existing("master") \subseteq op[o].masters
      /\ op[o].masters \cap Existing("slaves") = {}
      /\ Existing("master") \subseteq op[o].todo
  BY <1>1 DEF KeysInv, KeysOf, ListsOf, Safe, SafeDestroy
<1>6. Existing("master")' # {} => Existing("slaves")' # {}
  <2>1. CASE op[o].todo \cap op[o].masters = {}
    BY <1>4, <1>5, <2>1
  <2>2. CASE op[o].todo \cap op[o].masters # {}
    <3>1. i \in op[o].masters
      BY <2>2, FirstIsMember DEF NextOf
    <3>2. Existing("slaves")' = Existing("slaves")
      BY <1>4, <1>5, <3>1
    <3> QED
      BY <1>4, <3>2 DEF KeysInv, KeyedCluster
  <2> QED
    BY <2>1, <2>2
<1>7. KeysOf(o)'
  BY <1>3, <1>4, <1>5 DEF KeysOf, ModesOf, RunsOf, ListsOf, FreshOf, Fresh
<1>8. ~Fresh(o)
  BY <1>1 DEF Fresh
<1>9. Existing("master")' # {} => Cluster' \subseteq keyed'
  BY <1>2, <1>4, <1>8, OneIsUnderWay DEF Cluster
<1>10. \A j \in attached' : state'[j] # "none"
  BY <1>2, <1>4 DEF KeysInv, KeyedCluster, NodeType
<1> QED
  BY <1>6, <1>7, <1>9, <1>10, OneIsUnderWay

\* The lists of a fresh launch are the cluster.
LEMMA FreshKnowsCluster ==
    ASSUME TypeInv, SingleMaster, KeysInv, NEW o \in Operators, Safe(o), Fresh(o)
    PROVE  /\ op[o].masters = Existing("master")
           /\ op[o].slaves = Existing("slaves")
           /\ op[o].masters = {First(op[o].masters)}
<1>1. op[o].pc \in NeedsMaster /\ op[o].mode \in SetupModes
  BY DEF Fresh, NeedsMaster, SetupModes
<1>2. /\ op[o].masters # {}
      /\ op[o].masters \subseteq Existing("master")
      /\ op[o].slaves \subseteq Existing("slaves")
      /\ Existing("slaves") \subseteq op[o].slaves
  BY <1>1 DEF TypeInv, MasterKnown, KeysInv, KeysOf, ListsOf, Safe, SafeSetup,
     SetupPCs, LaunchPCs
<1>3. First(op[o].masters) \in op[o].masters
  BY <1>2, FirstIsMember
<1> QED
  BY <1>2, <1>3 DEF SingleMaster

\* A fresh launch does not stop before every node has the key.
LEMMA FreshKeepsKeys ==
    ASSUME TypeInv, SingleMaster, KeysInv, NEW o \in Operators, Safe(o), Fresh(o),
           \A p \in Operators \ {o} : ~Busy(p) /\ op'[p] = op[p],
           Step(o)
    PROVE  KeysInv'
<1> USE DEF TypeInv
<1> DEFINE M == Existing("master")
           S == Existing("slaves")
           m == First(op[o].masters)
<1>1. /\ op[o] \in Invocation /\ op[o].mode = "launch"
      /\ op[o].pc \in {"wait_masters", "wait_slaves", "attach", "key_master",
                       "key_slaves"}
  BY DEF OpType, Fresh
<1>2. /\ op[o].masters = M /\ op[o].slaves = S /\ Cluster = M \cup S
      /\ M = {m} /\ S # {}
  BY FreshKnowsCluster DEF Cluster, KeysInv, KeyedCluster
<1>3. FreshOf(o) /\ \A i \in attached : state[i] # "none"
  BY DEF KeysInv, KeysOf, KeyedCluster
<1>4. ASSUME UNCHANGED <<state, group>>
      PROVE  Existing("master")' = M /\ Existing("slaves")' = S /\ Cluster' = Cluster
  BY <1>4 DEF Existing, IsActive, Cluster
<1>5. ASSUME UNCHANGED <<state, group, attached, keyed>>,
             op'[o].mode = "launch",
             op'[o].masters = M, op'[o].slaves = S,
             op'[o].pc \in NeedsMaster \ {"start"},
             FreshOf(o)', Fresh(o)' \/ Cluster \subseteq keyed
      PROVE  KeysInv'
  <2>1. ModesOf(o)' /\ RunsOf(o)'
    BY <1>5 DEF ModesOf, RunsOf, LaunchPCs, GroupPCs, RunPCs, NeedsMaster
  <2>2. ListsOf(o)'
    BY <1>4, <1>5 DEF ListsOf, NeedsMaster
  <2> QED
    BY <1>2, <1>3, <1>4, <1>5, <2>1, <2>2, OneIsUnderWay DEF KeysOf
<1>6. CASE WaitMasters(o)
  <2>1. /\ op[o].pc = "wait_masters"
        /\ UNCHANGED <<state, group, attached, keyed>>
    BY <1>6 DEF WaitMasters, cloudVars, nodeVars
  <2>2. CASE Settled(op[o].masters)
    <3>1. /\ op'[o].pc = "wait_slaves" /\ op'[o].mode = "launch"
          /\ op'[o].masters = M /\ op'[o].slaves = S
      BY <1>1, <1>2, <1>6, <2>2, JumpKeepsRest DEF WaitMasters
    <3>2. \A i \in M : state[i] = "running"
      BY <1>2, <1>3, <2>1, <2>2 DEF FreshOf, Settled
    <3>3. FreshOf(o)'
      BY <1>3, <1>4, <2>1, <3>1, <3>2 DEF FreshOf
    <3> QED
      BY <1>5, <2>1, <3>1, <3>3 DEF Fresh, NeedsMaster
  <2>3. CASE ~Settled(op[o].masters)
    <3>1. op' = op
      BY <1>6, <2>3 DEF WaitMasters
    <3>2. FreshOf(o)'
      BY <1>3, <1>4, <2>1, <3>1 DEF FreshOf, Fresh
    <3> QED
      BY <1>1, <1>2, <1>5, <2>1, <3>1, <3>2 DEF Fresh, NeedsMaster
  <2> QED
    BY <2>2, <2>3
<1>7. CASE WaitSlaves(o)
  <2>1. /\ op[o].pc = "wait_slaves"
        /\ UNCHANGED <<state, group, attached, keyed>>
    BY <1>7 DEF WaitSlaves, cloudVars, nodeVars
  <2>2. CASE Settled(op[o].slaves)
    <3>1. AfterWait(o)
      BY <1>7, <2>2 DEF WaitSlaves
    <3>2. /\ op'[o].pc = "attach" /\ op'[o].mode = "launch"
          /\ op'[o].masters = M /\ op'[o].slaves = S
          /\ op'[o].todo \subseteq Cluster
      BY <1>1, <1>2, <3>1 DEF AfterWait, OpType, Invocation
    <3>3. \A i \in Cluster : state[i] = "running"
      BY <1>1, <1>2, <1>3, <2>1, <2>2 DEF FreshOf, Settled
    <3>4. op'[o].todo \cap attached = {}
      BY <1>3, <2>1, <3>2 DEF FreshOf
    <3>5. FreshOf(o)'
      BY <1>4, <2>1, <3>2, <3>3, <3>4 DEF FreshOf
    <3> QED
      BY <1>5, <2>1, <3>2, <3>5 DEF Fresh, NeedsMaster
  <2>3. CASE ~Settled(op[o].slaves)
    <3>1. op' = op
      BY <1>7, <2>3 DEF WaitSlaves
    <3>2. FreshOf(o)'
      BY <1>3, <1>4, <2>1, <3>1 DEF FreshOf, Fresh
    <3> QED
      BY <1>1, <1>2, <1>5, <2>1, <3>1, <3>2 DEF Fresh, NeedsMaster
  <2> QED
    BY <2>2, <2>3
<1>8. CASE op[o].pc = "attach"
  <2>1. /\ \A i \in Cluster : state[i] = "running"
        /\ op[o].todo \subseteq Cluster /\ op[o].todo \cap attached = {}
    BY <1>3, <1>8 DEF FreshOf
  <2>2. \A T : op[o].todo # {} => NextOf(op[o].todo, T) \in op[o].todo
    BY NextOfIsMember
  <2>3. CASE AttachVolume(o)
    <3> DEFINE i == NextOf(op[o].todo, op[o].masters)
    <3>1. /\ op'[o] = [op[o] EXCEPT !.todo = @ \ {i}]
          /\ i \in op[o].todo /\ attached' = attached \cup {i}
          /\ UNCHANGED <<state, group, keyed>>
      BY <2>2, <2>3 DEF AttachVolume, OpType, cloudVars
    <3>2. /\ op'[o].pc = "attach" /\ op'[o].mode = "launch"
          /\ op'[o].masters = M /\ op'[o].slaves = S
          /\ op'[o].todo = op[o].todo \ {i}
      BY <1>1, <1>2, <1>8, <3>1 DEF Invocation
    <3>3. FreshOf(o)' /\ Fresh(o)'
      BY <1>4, <2>1, <3>1, <3>2 DEF FreshOf, Fresh
    <3>4. ModesOf(o)' /\ RunsOf(o)' /\ ListsOf(o)'
      BY <1>4, <3>1, <3>2
         DEF ModesOf, RunsOf, ListsOf, LaunchPCs, GroupPCs, RunPCs, NeedsMaster
    <3>5. \A j \in attached' : state'[j] # "none"
      BY <1>3, <2>1, <3>1
    <3> QED
      BY <1>2, <1>4, <3>1, <3>3, <3>4, <3>5, OneIsUnderWay DEF KeysOf
  <2>4. ~AttachVolumeFails(o)
    BY <2>1, <2>2 DEF AttachVolumeFails
  <2>5. CASE VolumesAttached(o)
    <3>1. /\ op'[o].pc = "key_master" /\ op'[o].mode = "launch"
          /\ op'[o].masters = M /\ op'[o].slaves = S
          /\ UNCHANGED <<state, group, attached, keyed>>
      BY <1>1, <1>2, <2>5, JumpKeepsRest DEF VolumesAttached, cloudVars, nodeVars
    <3>2. FreshOf(o)'
      BY <1>4, <2>1, <3>1 DEF FreshOf
    <3> QED
      BY <1>5, <3>1, <3>2 DEF Fresh, NeedsMaster
  <2>6. AttachVolume(o) \/ AttachVolumeFails(o) \/ VolumesAttached(o)
    BY <1>8 DEF Step, Launching, LookupGroup, CreateGroup, CreateGroupFails, Authorize,
       AuthorizeFails, GroupAuthorized, CheckExisting, RefuseLaunch, ResolveImage,
       RunSlaves, RunMaster, RunFails, SettingUp, StartNode, StartNodeFails, Started,
       WaitMasters, WaitSlaves, KeyMaster, KeySlave, SlavesKeyed, InstallPackages,
       PackagesFail, DeployFiles, RunSetupScript, Stopping, FindCluster,
       FindClusterFails, StopNode, StopNodeFails, Stopped, Destroying, TerminateNode,
       Terminated, RevokeRule, RevokeRuleFails, RulesRevoked, DeleteGroup,
       AttemptEnds, Exit
  <2> QED
    BY <2>3, <2>4, <2>5, <2>6
<1>9. CASE KeyMaster(o)
  <2>1. op[o].pc = "key_master" /\ \A i \in Cluster : state[i] = "running"
    BY <1>3, <1>9 DEF KeyMaster, FreshOf
  <2>2. /\ keyed' = keyed \cup {m}
        /\ op'[o] = [op[o] EXCEPT !.todo = S, !.pc = "key_slaves"]
        /\ UNCHANGED <<state, group, attached>>
    BY <1>2, <1>9, <2>1 DEF KeyMaster, SshFails, OpType, cloudVars
  <2>3. /\ op'[o].pc = "key_slaves" /\ op'[o].mode = "launch"
        /\ op'[o].masters = M /\ op'[o].slaves = S /\ op'[o].todo = S
    BY <1>1, <1>2, <2>2 DEF Invocation
  <2>4. FreshOf(o)' /\ Fresh(o)'
    BY <1>2, <1>4, <2>1, <2>2, <2>3 DEF FreshOf, Fresh
  <2>5. ModesOf(o)' /\ RunsOf(o)' /\ ListsOf(o)'
    BY <1>4, <2>2, <2>3
       DEF ModesOf, RunsOf, ListsOf, LaunchPCs, GroupPCs, RunPCs, NeedsMaster
  <2> QED
    BY <1>2, <1>3, <1>4, <2>2, <2>4, <2>5, OneIsUnderWay DEF KeysOf
<1>10. CASE KeySlave(o)
  <2> DEFINE i == First(op[o].todo)
  <2>1. /\ op[o].pc = "key_slaves" /\ op[o].todo # {}
        /\ \A j \in Cluster : state[j] = "running"
        /\ op[o].todo \subseteq Cluster
        /\ M \subseteq keyed /\ S \ op[o].todo \subseteq keyed
    BY <1>2, <1>3, <1>10 DEF KeySlave, FreshOf
  <2>2. i \in op[o].todo /\ state[i] = "running"
    BY <2>1, FirstIsMember
  <2>3. /\ keyed' = keyed \cup {i}
        /\ op'[o] = [op[o] EXCEPT !.todo = @ \ {i}]
        /\ UNCHANGED <<state, group, attached>>
    BY <1>10, <2>2 DEF KeySlave, SshFails, OpType, cloudVars
  <2>4. /\ op'[o].pc = "key_slaves" /\ op'[o].mode = "launch"
        /\ op'[o].masters = M /\ op'[o].slaves = S
        /\ op'[o].todo = op[o].todo \ {i}
    BY <1>1, <1>2, <2>1, <2>3 DEF Invocation
  <2>5. FreshOf(o)' /\ Fresh(o)'
    BY <1>4, <2>1, <2>3, <2>4 DEF FreshOf, Fresh
  <2>6. ModesOf(o)' /\ RunsOf(o)' /\ ListsOf(o)'
    BY <1>4, <2>3, <2>4
       DEF ModesOf, RunsOf, ListsOf, LaunchPCs, GroupPCs, RunPCs, NeedsMaster
  <2> QED
    BY <1>2, <1>3, <1>4, <2>3, <2>5, <2>6, OneIsUnderWay DEF KeysOf
<1>11. CASE SlavesKeyed(o)
  <2>1. /\ op[o].pc = "key_slaves" /\ op[o].todo = {}
        /\ op'[o].pc = "packages" /\ op'[o].mode = "launch"
        /\ op'[o].masters = M /\ op'[o].slaves = S
        /\ UNCHANGED <<state, group, attached, keyed>>
    BY <1>1, <1>2, <1>11, JumpKeepsRest DEF SlavesKeyed, cloudVars, nodeVars
  <2>2. Cluster \subseteq keyed
    BY <1>2, <1>3, <2>1 DEF FreshOf
  <2>3. FreshOf(o)'
    BY <2>1 DEF FreshOf, Fresh
  <2> QED
    BY <1>5, <2>1, <2>2, <2>3 DEF NeedsMaster
<1>12. CASE op[o].pc # "attach"
  BY <1>1, <1>6, <1>7, <1>9, <1>10, <1>11, <1>12
     DEF Step, Launching, LookupGroup, CreateGroup, CreateGroupFails, Authorize,
       AuthorizeFails, GroupAuthorized, CheckExisting, RefuseLaunch, ResolveImage,
       RunSlaves, RunMaster, RunFails, SettingUp, StartNode, StartNodeFails, Started,
       AttachVolume, AttachVolumeFails, VolumesAttached, InstallPackages,
       PackagesFail, DeployFiles, RunSetupScript, Stopping, FindCluster,
       FindClusterFails, StopNode, StopNodeFails, Stopped, Destroying, TerminateNode,
       Terminated, RevokeRule, RevokeRuleFails, RulesRevoked, DeleteGroup,
       AttemptEnds, Exit
<1> QED
  BY <1>8, <1>12

\* Keys are only added, and volumes attached to running instances.
LEMMA NodesFlow ==
    ASSUME TypeInv, NEW o \in Operators, Step(o)
    PROVE  /\ keyed \subseteq keyed'
           /\ \A i \in attached' : i \in attached \/ (i \in Ids /\ state[i] = "running")
<1>1. CASE UNCHANGED nodeVars
  BY <1>1 DEF nodeVars
<1>2. CASE AttachVolume(o)
  BY <1>2, NodesAreIds DEF TypeInv, AttachVolume
<1>3. CASE KeyMaster(o) \/ KeySlave(o) \/ InstallPackages(o) \/ DeployFiles(o)
  BY <1>3 DEF KeyMaster, KeySlave, InstallPackages, DeployFiles, SshFails, Raises, nodeVars
<1>4. CASE Launching(o)
  BY <1>1, <1>4 DEF Launching, LookupGroup, CreateGroup, CreateGroupFails, Authorize,
      AuthorizeFails, GroupAuthorized, CheckExisting, RefuseLaunch,
      ResolveImage, RunSlaves, RunMaster, RunFails, Run, Raises
<1>5. CASE SettingUp(o)
  BY <1>1, <1>2, <1>3, <1>5 DEF SettingUp, StartNode, StartNodeFails, Started,
      WaitMasters, WaitSlaves, AttachVolumeFails, VolumesAttached, SlavesKeyed,
      PackagesFail, RunSetupScript, SshFails, Raises
<1>6. CASE Stopping(o) \/ Destroying(o)
  BY <1>1, <1>6 DEF Stopping, FindCluster, FindClusterFails, StopNode, StopNodeFails,
      Stopped, Destroying, TerminateNode, Terminated, RevokeRule, RevokeRuleFails,
      RulesRevoked, DeleteGroup, AttemptEnds, Raises
<1> QED
  BY <1>1, <1>4, <1>5, <1>6 DEF Step, Exit, Raises

\* The other steps change no list that matters, and take no key away.
LEMMA QuietKeepsKeys ==
    ASSUME NumbersInv, KeysInv, NEW o \in Operators, Safe(o), ~Fresh(o),
           \A p \in Operators \ {o} : ~Busy(p) /\ op'[p] = op[p],
           Step(o), ~RunSlaves(o), ~RunMaster(o), ~TerminateNode(o)
    PROVE  KeysInv'
<1> USE DEF NumbersInv, TypeInv, LaunchPCs, GroupPCs, RunPCs, NeedsMaster
<1>1. op[o] \in Invocation /\ KeysOf(o)
  BY DEF OpType, KeysInv
<1>2. /\ Existing("master")' = Existing("master")
      /\ Existing("slaves")' = Existing("slaves")
      /\ Cluster' = Cluster
  BY QuietKeepsCluster DEF Groups, Cluster
<1>3. op'[o] = Idle \/ op'[o].mode = op[o].mode
  BY StepKeepsMode
<1>4. op'[o].pc \in LaunchPCs =>
          /\ op[o].pc \in LaunchPCs
          /\ op'[o].slaves = op[o].slaves
          /\ op'[o].mode = op[o].mode
  <2>1. op'[o].pc \in LaunchPCs => op'[o] # Idle
    BY DEF Idle
  <2> QED
    BY <1>3, <2>1, LaunchGoesOn, LaunchKeepsSlaves
<1>5. op'[o].pc \in NeedsMaster =>
          \/ SettingUp(o) /\ ~Raises(o)
          \/ FindCluster(o)
  <2>1. CASE op'[o] = Idle
    BY <2>1 DEF Idle
  <2>2. CASE LookupGroup(o) \/ CreateGroup(o) \/ Authorize(o) \/ GroupAuthorized(o)
    BY <2>2, GroupsFlow
  <2>3. CASE \E use \in BOOLEAN : CheckExisting(o, use)
    BY <1>1, <2>3 DEF OpType, CheckExisting, Invocation
  <2>4. CASE ResolveImage(o) /\ Goto(o, "run_slaves")
    BY <2>4, JumpKeepsRest
  <2>5. CASE StopNode(o) \/ Stopped(o)
    BY <1>1, <2>5, JumpKeepsRest DEF OpType, StopNode, Stopped, Invocation
  <2>6. CASE Destroying(o) /\ ~Raises(o)
    BY <2>6, DestroyingFlow
  <2> QED
    BY <2>1, <2>2, <2>3, <2>4, <2>5, <2>6, StepCases
<1>6. ModesOf(o)'
  <2>1. op'[o].pc \in LaunchPCs => op'[o].mode = "launch"
    BY <1>1, <1>4 DEF KeysOf, ModesOf
  <2>2. op'[o].pc = "start" => op'[o].mode # "launch"
    <3>1. FindCluster(o) => op[o].pc = "find" /\ op'[o].mode = op[o].mode
      BY FindFlow DEF FindCluster
    <3>2. SettingUp(o) /\ ~Raises(o) /\ op'[o].pc = "start"
              => op[o].pc = "start" /\ op'[o].mode = op[o].mode
      <4>1. (AttachVolume(o) \/ KeyMaster(o) \/ KeySlave(o)) /\ ~Raises(o)
                => op'[o].pc # "start"
        BY <1>1 DEF OpType, Invocation, AttachVolume, KeyMaster, KeySlave, SshFails
      <4>2. WaitSlaves(o) => op'[o].pc # "start"
        BY <1>1 DEF OpType, Invocation, WaitSlaves, AfterWait
      <4>3. WaitMasters(o) => op'[o].pc # "start"
        BY JumpKeepsRest DEF WaitMasters
      <4>4. Started(o) \/ VolumesAttached(o) \/ SlavesKeyed(o)
                => op'[o].pc # "start"
        BY JumpKeepsRest DEF Started, VolumesAttached, SlavesKeyed
      <4>5. (InstallPackages(o) \/ DeployFiles(o) \/ RunSetupScript(o)) /\ ~Raises(o)
                => op'[o].pc # "start"
        BY JumpKeepsRest DEF InstallPackages, DeployFiles, RunSetupScript, SshFails
      <4>6. StartNode(o) => op[o].pc = "start"
        BY DEF StartNode
      <4> QED
        BY <4>1, <4>2, <4>3, <4>4, <4>5, <4>6, SettingUpFlow
           DEF SettingUp, StartNodeFails, AttachVolumeFails, PackagesFail
    <3> QED
      BY <1>1, <1>5, <3>1, <3>2 DEF KeysOf, ModesOf
  <2>3. op'[o].pc # "find"
    <3>1. CASE op'[o].pc \in NeedsMaster \cup LaunchPCs
      BY <3>1
    <3>2. CASE op'[o] = Idle
      BY <3>2 DEF Idle
    <3>3. CASE SettingUp(o) /\ ~Raises(o)
      BY <3>3, SettingUpFlow
    <3>4. CASE FindCluster(o)
      BY <3>4, FindFlow
    <3>5. CASE Destroying(o) /\ ~Raises(o)
      BY <3>5, DestroyingFlow
    <3>6. CASE LookupGroup(o) \/ CreateGroup(o) \/ Authorize(o) \/ GroupAuthorized(o)
      BY <3>6, GroupsFlow
    <3>7. CASE \E use \in BOOLEAN : CheckExisting(o, use)
      BY <1>1, <3>7 DEF OpType, CheckExisting, Invocation
    <3>8. CASE ResolveImage(o) /\ Goto(o, "run_slaves")
      BY <3>8, JumpKeepsRest
    <3>9. CASE StopNode(o) \/ Stopped(o)
      BY <1>1, <3>9, JumpKeepsRest DEF OpType, StopNode, Stopped, Invocation
    <3> QED
      BY <3>2, <3>3, <3>4, <3>5, <3>6, <3>7, <3>8, <3>9, StepCases
  <2> QED
    BY <2>1, <2>2, <2>3 DEF ModesOf
<1>7. RunsOf(o)'
  <2>1. CASE op'[o].pc \notin RunPCs
    BY <2>1 DEF RunsOf
  <2>2. CASE op'[o].pc = "image"
    <3>1. Existing("slaves") = {} /\ op'[o].masters = Existing("master")
      BY <2>2, LaunchFlow
    <3> QED
      BY <2>2, <3>1 DEF KeysInv, KeyedCluster, RunsOf
  <2>3. CASE op'[o].pc \in {"run_slaves", "run_master"}
    <3>1. /\ op[o].pc = "image" /\ op'[o].pc = "run_slaves"
          /\ op'[o].n = op[o].n /\ op'[o].masters = op[o].masters
      BY <2>3, LaunchFlow
    <3>2. op[o].masters = {} /\ Existing("slaves") = {} /\ op[o].n = 0
      BY <1>1, <3>1 DEF KeysOf, RunsOf, Safe, SafeLaunch, Counted
    <3> QED
      BY <1>2, <3>1, <3>2 DEF RunsOf
  <2> QED
    BY <2>1, <2>2, <2>3
<1>8. ListsOf(o)'
  <2>1. op'[o].pc \in LaunchPCs => op'[o].slaves \subseteq Existing("slaves")
    BY <1>1, <1>4 DEF KeysOf, ListsOf
  <2>2. op'[o].pc \in NeedsMaster => /\ op'[o].slaves \subseteq Existing("slaves")
                                     /\ op'[o].masters \subseteq Existing("master")
    BY <1>1, <1>5, SettingUpFlow, FindFlow DEF KeysOf, ListsOf
  <2>3. CASE op'[o].pc # "terminate"
    BY <1>2, <2>1, <2>2, <2>3 DEF ListsOf
  <2>4. CASE op'[o].pc = "terminate"
    <3>1. FindCluster(o)
      <4>1. ~(SettingUp(o) /\ ~Raises(o))
        BY <2>4, SettingUpFlow
      <4>2. ~(Destroying(o) /\ ~Raises(o))
        <5>1. ASSUME NEW n, Attempt(o, n)
              PROVE  op'[o].pc = "revoke"
          BY <1>1, <5>1 DEF OpType, Attempt, Invocation
        <5>2. \A d \in BOOLEAN : ~Terminated(o, d)
          BY <2>4, <5>1, JumpKeepsRest DEF Terminated
        <5>3. ~RulesRevoked(o) /\ ~AttemptEnds(o)
          BY <2>4, <5>1, JumpKeepsRest DEF RulesRevoked, AttemptEnds
        <5>4. \A gr : ~RevokeRule(o, gr)
          BY <1>1, <2>4 DEF OpType, RevokeRule, Invocation
        <5>5. \A g : ~DeleteGroup(o, g)
          BY <1>1, <2>4 DEF OpType, DeleteGroup, Invocation
        <5> QED
          BY <5>2, <5>3, <5>4, <5>5 DEF Destroying, RevokeRuleFails
      <4>3. op'[o] # Idle
        BY <2>4 DEF Idle
      <4>4. ~(LookupGroup(o) \/ CreateGroup(o) \/ Authorize(o) \/ GroupAuthorized(o))
        BY <2>4, GroupsFlow
      <4>5. ~(\E use \in BOOLEAN : CheckExisting(o, use))
        BY <1>1, <2>4 DEF OpType, CheckExisting, Invocation
      <4>6. ~(ResolveImage(o) /\ Goto(o, "run_slaves"))
        BY <2>4, JumpKeepsRest
      <4>7. ~StopNode(o) /\ ~Stopped(o)
        BY <1>1, <2>4, JumpKeepsRest DEF OpType, StopNode, Stopped, Invocation
      <4> QED
        BY <4>1, <4>2, <4>3, <4>4, <4>5, <4>6, <4>7, StepCases
    <3> QED
      BY <1>2, <2>4, <3>1, FindFlow, GroupsAreApart DEF ListsOf
  <2> QED
    BY <2>3, <2>4
<1>9. ~Fresh(o)'
  <2> SUFFICES ASSUME Fresh(o)' PROVE FALSE
    OBVIOUS
  <2>1. op'[o].pc \in NeedsMaster /\ op'[o].mode = "launch"
    BY DEF Fresh
  <2>2. CASE FindCluster(o)
    <3>1. op[o].pc = "find"
      BY <2>2 DEF FindCluster
    <3> QED
      BY <1>1, <2>1, <2>2, <3>1, FindFlow DEF KeysOf, ModesOf
  <2>3. CASE SettingUp(o) /\ ~Raises(o)
    <3>1. op[o].mode = "launch" /\ op[o].pc \in {"packages", "deploy", "script"}
      BY <1>1, <2>1, <2>3, SettingUpFlow DEF KeysOf, ModesOf, Fresh
    <3>2. InstallPackages(o) \/ DeployFiles(o) \/ RunSetupScript(o) \/ PackagesFail(o)
      BY <2>3, <3>1 DEF SettingUp, StartNode, StartNodeFails, Started, WaitMasters,
         WaitSlaves, AttachVolume, AttachVolumeFails, VolumesAttached, KeyMaster,
         KeySlave, SlavesKeyed
    <3>3. op'[o].pc \in {"deploy", "script", "done"}
      BY <2>3, <3>2, JumpKeepsRest
         DEF InstallPackages, PackagesFail, DeployFiles, RunSetupScript, SshFails
    <3> QED
      BY <3>3 DEF Fresh
  <2> QED
    BY <1>5, <2>1, <2>2, <2>3
<1>10. KeysOf(o)'
  BY <1>6, <1>7, <1>8, <1>9 DEF KeysOf, FreshOf
<1>11. \A i \in attached' : state'[i] # "none"
  <2>1. \A i \in attached : i \in Ids /\ state[i] # "none"
    BY DEF KeysInv, KeyedCluster, NodeType
  <2> QED
    BY <2>1, NodesFlow, StateFlow
<1>12. Existing("master")' # {} => Existing("slaves")' # {}
  BY <1>2 DEF KeysInv, KeyedCluster
<1>13. Existing("master")' # {} => Cluster' \subseteq keyed'
  BY <1>2, NodesFlow, OneIsUnderWay
<1> QED
  BY <1>10, <1>11, <1>12, <1>13, OneIsUnderWay

\* What the cloud does on its own, when every instance boots, leaves a cluster
\* as it is.
LEMMA CloudKeepsKeys ==
    ASSUME ~MayFail, TypeInv, KeysInv, NEW i \in Ids, Complete(i) \/ BootFails(i)
    PROVE  KeysInv'
<1> USE DEF TypeInv
<1>1. Complete(i) /\ UNCHANGED <<group, op>>
  BY DEF BootFails, Complete
<1>2. /\ Existing("master")' = Existing("master")
      /\ Existing("slaves")' = Existing("slaves")
      /\ Cluster' = Cluster /\ Cluster \subseteq Ids
      /\ attached' \subseteq attached /\ attached \subseteq Ids
      /\ \A j \in Ids : /\ state[j] # "none" => state'[j] # "none"
                        /\ state[j] = "running" => state'[j] = "running"
                        /\ state[j] = "pending" => state'[j] \in {"pending", "running"}
  BY <1>1 DEF CloudType, NodeType, Complete, Vanish, Existing, IsActive, Cluster, nodeVars
<1>3. \A j \in Cluster : j \in keyed => j \in keyed'
  BY <1>1 DEF Complete, Vanish, Cluster, Existing, IsActive, nodeVars
<1>4. \A o \in Operators : Fresh(o)' <=> Fresh(o)
  BY <1>1 DEF Fresh
<1>5. KeyedCluster'
  BY <1>2, <1>3, <1>4 DEF KeysInv, KeyedCluster
<1>6. ASSUME NEW o \in Operators
      PROVE  KeysOf(o)'
  <2>1. KeysOf(o) /\ op'[o] = op[o] /\ op[o] \in Invocation
    BY <1>1 DEF KeysInv, OpType
  <2>2. ModesOf(o)' /\ ListsOf(o)'
    BY <1>2, <2>1 DEF KeysOf, ModesOf, ListsOf
  <2>3. RunsOf(o)'
    <3>1. Existing("slaves") \subseteq Ids
      BY DEF Existing
    <3> QED
      BY <1>2, <2>1, <3>1 DEF KeysOf, RunsOf
  <2>4. ASSUME Fresh(o)
        PROVE  FreshOf(o)'
    <3>1. op[o].masters \subseteq Existing("master") /\ op[o].slaves \subseteq Existing("slaves")
      BY <2>1, <2>4 DEF KeysOf, ListsOf, Fresh, NeedsMaster
    <3>2. op[o].masters \cup op[o].slaves \subseteq Cluster
      BY <3>1 DEF Cluster
    <3> QED
      BY <1>2, <1>3, <2>1, <2>4, <3>2 DEF KeysOf, FreshOf, Fresh
  <2>5. FreshOf(o)'
    BY <1>4, <2>4 DEF FreshOf
  <2> QED
    BY <2>2, <2>3, <2>5 DEF KeysOf
<1> QED
  BY <1>5, <1>6 DEF KeysInv

\* At first there are no instances.
LEMMA InitIsKeyed == Init => KeysInv
<1> SUFFICES ASSUME Init PROVE KeysInv
  OBVIOUS
<1>1. \A o \in Operators : op[o].pc = "idle" /\ op[o].mode = "stop"
  BY DEF Init, Idle
<1>2. \A g : Existing(g) = {}
  BY DEF Init, Existing, IsActive
<1>3. KeyedCluster
  BY <1>2 DEF Init, KeyedCluster
<1>4. \A o \in Operators : KeysOf(o)
  BY <1>1 DEF KeysOf, ModesOf, RunsOf, ListsOf, FreshOf, Fresh, LaunchPCs, GroupPCs,
     RunPCs, NeedsMaster
<1> QED
  BY <1>3, <1>4 DEF KeysInv

\* Every step keeps the invariant.
LEMMA NextKeepsKeys ==
    ASSUME ~MayCrash, ~MayFail, TurnsInv, NumbersInv, KeysInv, [Next]_vars,
           Exclusive
    PROVE  KeysInv'
<1> USE DEF TurnsInv, TypeInv
<1>1. ASSUME NEW o \in Operators, Step(o)
      PROVE  KeysInv'
  <2>1. \A p \in Operators \ {o} : ~Busy(p) /\ op'[p] = op[p]
    BY <1>1, StepIsBusy, StepIsOwn DEF TakesTurns
  <2>2. CASE Fresh(o)
    BY <1>1, <2>1, <2>2, FreshKeepsKeys
  <2>3. CASE ~Fresh(o)
    BY <1>1, <2>1, <2>3, RunSlavesKeepsKeys, RunMasterKeepsKeys, TerminateKeepsKeys,
       QuietKeepsKeys
  <2> QED
    BY <2>2, <2>3
<1>2. ASSUME NEW o \in Operators, NEW mode \in Commands, Begin(o, mode)
      PROVE  KeysInv'
  <2>1. /\ \A p \in Operators : ~Busy(p)
        /\ \A p \in Operators \ {o} : op'[p] = op[p]
        /\ UNCHANGED <<group, state, attached, keyed>>
    BY <1>2 DEF Begin, OpType, cloudVars, nodeVars
  <2>2. /\ op'[o].pc \in {"lookup", "find"}
        /\ op'[o].pc = "lookup" <=> op'[o].mode = "launch"
        /\ op'[o].slaves = {}
    BY <1>2, BeginFields
  <2>3. KeysOf(o)' /\ ~Fresh(o)'
    BY <2>2 DEF KeysOf, ModesOf, RunsOf, ListsOf, FreshOf, Fresh, LaunchPCs, GroupPCs,
       RunPCs, NeedsMaster
  <2>4. ~Fresh(o)
    BY <2>1 DEF Fresh, Busy
  <2>5. /\ Existing("master")' = Existing("master")
        /\ Existing("slaves")' = Existing("slaves") /\ Cluster' = Cluster
    BY <2>1 DEF Existing, IsActive, Cluster
  <2> QED
    BY <2>1, <2>3, <2>4, <2>5, OneIsUnderWay DEF KeysInv, KeyedCluster
<1>3. ASSUME NEW i \in Ids, Complete(i) \/ BootFails(i)
      PROVE  KeysInv'
  BY <1>3, CloudKeepsKeys
<1>4. CASE UNCHANGED vars
  <2>1. /\ UNCHANGED <<group, state, attached, keyed, op>>
        /\ Existing("master")' = Existing("master")
        /\ Existing("slaves")' = Existing("slaves") /\ Cluster' = Cluster
    BY <1>4 DEF vars, cloudVars, nodeVars, Existing, IsActive, Cluster
  <2>2. KeyedCluster'
    BY <2>1 DEF KeysInv, KeyedCluster, Fresh
  <2>3. \A o \in Operators : KeysOf(o)'
    BY <2>1 DEF KeysInv, KeysOf, ModesOf, RunsOf, ListsOf, FreshOf, Fresh
  <2> QED
    BY <2>2, <2>3 DEF KeysInv
<1> QED
  BY <1>1, <1>2, <1>3, <1>4 DEF Next, Crash

\* setup.sh runs when every node holds the key of the master, also on start,
\* which deploys none: if operators take turns, nothing is interrupted and
\* every instance boots, the launch that made the cluster has deployed it,
\* since no call in between can fail, and stop and start keep the disks.
THEOREM ScriptsHaveKeys ==
    ASSUME Exclusive, ~MayCrash, ~MayFail
    PROVE  Spec => []KeysBeforeScript
<1>1. ASSUME TurnsInv, KeysInv
      PROVE  KeysBeforeScript
  <2> SUFFICES ASSUME NEW o \in Operators, op[o].pc = "script"
               PROVE  op[o].masters \cup op[o].slaves \subseteq keyed
    BY DEF KeysBeforeScript
  <2>1. \A p \in Operators : ~Fresh(p)
    BY <1>1 DEF TurnsInv, TakesTurns, Busy, Fresh
  <2>2. /\ op[o].masters # {}
        /\ op[o].masters \subseteq Existing("master")
        /\ op[o].slaves \subseteq Existing("slaves")
    BY <1>1 DEF TurnsInv, TypeInv, MasterKnown, KeysInv, KeysOf, ListsOf, NeedsMaster
  <2> QED
    BY <1>1, <2>1, <2>2 DEF KeysInv, KeyedCluster, Cluster
<1>2. TurnsInv /\ [Next]_vars => TurnsInv'
  BY NextIsSafe
<1>3. TurnsInv /\ NumbersInv /\ KeysInv /\ [Next]_vars => KeysInv'
  BY NextKeepsKeys
<1> QED
  BY <1>1, <1>2, <1>3, InitIsSafe, InitIsCounted, InitIsKeyed, NextKeepsNumbers, PTL
     DEF Spec
=============================================================================
