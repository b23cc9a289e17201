--------------------------- MODULE SparkPoolsProofs ---------------------------
(***************************************************************************)
(* Operators of SparkEuca that take turns fill the groups of the masters   *)
(* and of the slaves as Pool has it.                                       *)
(***************************************************************************)
EXTENDS SparkSetupProofs

DuePCs == {"image", "run_slaves"}

\* Before its runs a launch has no slaves; between two zones it has those the
\* zones so far were to get, also when some of them are no longer active.
Sized ==
    \A o \in Operators :
        /\ op[o].pc \in NewPCs => op[o].slaves = {}
        /\ op[o].pc = "run_slaves" => Cardinality(op[o].slaves) = Share(op[o].n)

\* The inductive invariant of the runs.
PoolsInv == TurnsInv /\ NumbersInv /\ Listed /\ Sized

PoolsStep ==
    /\ [SlavesPool!Next]_(SlavesPool!vars)
    /\ [MastersPool!Next]_(MastersPool!vars)

\* The instances of Pool count as this module does.
LEMMA PoolsCount ==
    \A S : /\ SlavesPool!Cardinality(S) = Cardinality(S)
           /\ MastersPool!Cardinality(S) = Cardinality(S)
BY DEF SlavesPool!Cardinality, MastersPool!Cardinality, Cardinality

-----------------------------------------------------------------------------
(* The sizes of the lists.                                                 *)

\* The slaves of a zone are new to the launch that runs them.
LEMMA RunSlavesSizes ==
    ASSUME CloudType, OpType, Listed, NEW o \in Operators, RunSlaves(o),
           op[o].n \in Nat, Cardinality(op[o].slaves) = Share(op[o].n)
    PROVE  \E new \in SUBSET Free :
               /\ Run(o, "slaves", new)
               /\ Cardinality(new) = GetPartition(Slaves, Zones, op[o].n)
               /\ IsFiniteSet(new)
               /\ op'[o].slaves = op[o].slaves \cup new
               /\ Cardinality(op'[o].slaves) = Share(op'[o].n)
               /\ Share(op'[o].n) = Share(op[o].n) + Cardinality(new)
<1>1. PICK new \in SUBSET Free :
          /\ Cardinality(new) = GetPartition(Slaves, Zones, op[o].n)
          /\ Run(o, "slaves", new)
          /\ op'[o].slaves = op[o].slaves \cup new
  BY RunSlavesFlow
<1>2. op'[o].n = op[o].n + 1
  BY RunSlavesFlow
<1>3. IsFiniteSet(new) /\ IsFiniteSet(op[o].slaves)
  <2>1. new \subseteq Ids /\ op[o].slaves \subseteq Ids /\ IsFiniteSet(Ids)
    BY LauncherAssumption DEF Free, OpType, Invocation
  <2> QED
    BY <2>1, FS_Subset
<1>4. op[o].slaves \cap new = {}
  BY DEF Listed, Free
<1>5. Cardinality(op[o].slaves \cup new) = Cardinality(op[o].slaves) + Cardinality(new)
  <2>1. Cardinality(op[o].slaves \cap new) = 0
    BY <1>4, FS_EmptySet
  <2>2. Cardinality(op[o].slaves \cup new)
          = Cardinality(op[o].slaves) + Cardinality(new)
                - Cardinality(op[o].slaves \cap new)
    BY <1>3, FS_Union
  <2>3. Cardinality(op[o].slaves) \in Nat /\ Cardinality(new) \in Nat
    BY <1>3, FS_CardinalityType
  <2> QED
    BY <2>1, <2>2, <2>3
<1>6. Share(op[o].n + 1) = Share(op[o].n) + GetPartition(Slaves, Zones, op[o].n)
  BY ShareGrows
<1> QED
  BY <1>1, <1>2, <1>3, <1>5, <1>6

\* A step keeps the sizes.
LEMMA StepKeepsSizes ==
    ASSUME CloudType, OpType, Counted, Listed, Sized,
           NEW o \in Operators, Step(o) \/ Crash(o)
    PROVE  Sized'
<1> USE DEF LaunchPCs, NewPCs, GroupPCs, RunPCs
<1>1. op[o] \in Invocation /\ op[o].n \in Nat
  BY DEF OpType, Invocation
<1>2. \A p \in Operators \ {o} : op'[p] = op[p]
  BY StepIsOwn
<1>3. /\ op'[o].pc \in NewPCs => op'[o].slaves = {}
      /\ op'[o].pc = "run_slaves" => Cardinality(op'[o].slaves) = Share(op'[o].n)
  <2>1. CASE RunSlaves(o)
    <3>1. op[o].pc = "run_slaves" /\ op'[o].pc \in {"run_slaves", "start", "run_master"}
      BY <2>1, RunSlavesFlow
    <3>2. Cardinality(op[o].slaves) = Share(op[o].n)
      BY <3>1 DEF Sized
    <3> QED
      BY <1>1, <2>1, <3>1, <3>2, RunSlavesSizes
  <2>2. CASE RunMaster(o)
    BY <2>2, RunMasterFlow
  <2>3. CASE ~RunSlaves(o) /\ ~RunMaster(o) /\ op'[o].pc \in LaunchPCs
    <3>1. Step(o)
      BY <2>3, ExitIsIdle DEF Crash, Raises, Idle
    <3>2. op'[o].slaves = op[o].slaves
      BY <2>3, <3>1, LaunchKeepsSlaves
    <3>3. \/ op[o].pc \in NewPCs /\ op'[o].pc # "run_slaves"
          \/ op[o].pc = "image" /\ op'[o].pc = "run_slaves" /\ op'[o].n = op[o].n
      BY <2>3, LaunchFlow
    <3>4. op[o].slaves = {}
      BY <3>3 DEF Sized
    <3>5. op[o].pc = "image" => op[o].n = 0
      BY DEF Counted
    <3> QED
      BY <3>2, <3>3, <3>4, <3>5, ShareEnds, FS_EmptySet
  <2>4. CASE op'[o].pc \notin LaunchPCs
    BY <2>4
  <2> QED
    BY <2>1, <2>2, <2>3, <2>4
<1> QED
  BY <1>2, <1>3 DEF Sized

\* Operators that take turns keep the invariant of the runs.
LEMMA NextKeepsPools ==
    ASSUME Exclusive, PoolsInv, [Next]_vars
    PROVE  PoolsInv'
<1> USE DEF PoolsInv
<1>1. TurnsInv' /\ NumbersInv'
  BY NextIsSafe, NextKeepsNumbers
<1>2. CloudType /\ OpType /\ Counted /\ OpType'
  BY <1>1 DEF NumbersInv, TypeInv
<1>3. ASSUME NEW o \in Operators, Step(o) \/ Crash(o)
      PROVE  Listed' /\ Sized'
  <2>1. Listed'
    <3>1. ASSUME NEW p \in Operators, NEW i \in op'[p].masters \cup op'[p].slaves
          PROVE  i \in Ids /\ (i \in op[p].masters \cup op[p].slaves
                                   \/ state'[i] # "none")
      BY <1>2, <1>3, StepIsOwn, ListsFlow DEF OpType, Invocation
    <3> QED
      BY <1>2, <1>3, <3>1, StateFlow DEF Listed
  <2> QED
    BY <1>2, <1>3, <2>1, StepKeepsSizes
<1>4. ASSUME NEW o \in Operators, NEW mode \in Commands, Begin(o, mode)
      PROVE  Listed' /\ Sized'
  <2>1. state' = state /\ \A p \in Operators \ {o} : op'[p] = op[p]
    BY <1>2, <1>4 DEF Begin, OpType, cloudVars
  <2>2. /\ op'[o].pc \in {"lookup", "find"}
        /\ op'[o].masters = {} /\ op'[o].slaves = {}
    BY <1>2, <1>4, BeginFields
  <2> QED
    BY <2>1, <2>2 DEF Listed, Sized
<1>5. ASSUME NEW j \in Ids, Complete(j) \/ BootFails(j)
      PROVE  Listed' /\ Sized'
  <2>1. op' = op
    BY <1>5 DEF Complete, BootFails
  <2>2. \A o \in Operators : op[o].masters \cup op[o].slaves \subseteq Ids
    BY <1>2 DEF OpType, Invocation
  <2>3. Listed'
    BY <1>2, <1>5, <2>1, <2>2, CloudFlow DEF Listed
  <2> QED
    BY <2>1, <2>3 DEF Sized
<1>6. CASE UNCHANGED vars
  <2>1. UNCHANGED <<state, op>>
    BY <1>6 DEF vars, cloudVars
  <2>2. Listed' /\ Sized'
    BY <2>1 DEF Listed, Sized
  <2> QED
    BY <1>1, <2>2
<1> QED
  BY <1>1, <1>3, <1>4, <1>5, <1>6 DEF Next

-----------------------------------------------------------------------------
(* What is due.                                                            *)

\* What is due is due to operator o.
DueTo(o) ==
    /\ SlavesDue = IF op[o].pc \in DuePCs
                   THEN Slaves - Cardinality(op[o].slaves) ELSE 0
    /\ MastersDue = IF \/ op[o].pc = "run_master"
                       \/ op[o].pc \in DuePCs /\ op[o].masters = {}
                    THEN 1 ELSE 0

\* Only o may be busy, before and after the step.
Alone(o) == \A p \in Operators \ {o} : ~Busy(p) /\ ~Busy(p)'

\* While others are idle, what is due is due to one operator.
LEMMA DueOf ==
    ASSUME NEW o \in Operators
    PROVE  (\A p \in Operators \ {o} : ~Busy(p)) => DueTo(o)
<1> SUFFICES ASSUME \A p \in Operators \ {o} : ~Busy(p) PROVE DueTo(o)
  OBVIOUS
<1> DEFINE past == {p \in Operators : op[p].pc \in DuePCs}
<1>1. past = IF op[o].pc \in DuePCs THEN {o} ELSE {}
  BY DEF Busy, DuePCs
<1>2. SlavesDue = IF past = {} THEN 0 ELSE Slaves - Cardinality(op[First(past)].slaves)
  BY DEF SlavesDue, DuePCs
<1>3. First({o}) = o
  BY FirstIsMember
<1>4. SlavesDue = IF op[o].pc \in DuePCs THEN Slaves - Cardinality(op[o].slaves) ELSE 0
  BY <1>1, <1>2, <1>3
<1>5. MastersDue = IF \/ op[o].pc = "run_master"
                      \/ op[o].pc \in DuePCs /\ op[o].masters = {}
                   THEN 1 ELSE 0
  BY DEF MastersDue, Busy, DuePCs
<1> QED
  BY <1>4, <1>5 DEF DueTo

\* That is so before and after a step.
LEMMA DueAlone ==
    ASSUME NEW o \in Operators, Alone(o)
    PROVE  DueTo(o) /\ DueTo(o)'
<1>1. (\A p \in Operators \ {o} : ~Busy(p)) => DueTo(o)
  BY DueOf
<1>2. ((\A p \in Operators \ {o} : ~Busy(p)) => DueTo(o))'
  BY DueOf, PTL
<1> QED
  BY <1>1, <1>2 DEF Alone

\* What is due keeps, or is given up, and nothing is run.
LEMMA ShrinkingRefines ==
    ASSUME Shrinks,
           \/ UNCHANGED <<SlavesDue, MastersDue>>
           \/ /\ \A g \in Groups : Existing(g)' = Existing(g)
              /\ SlavesDue' = 0 /\ MastersDue' = 0
    PROVE  PoolsStep
<1>1. CASE UNCHANGED <<SlavesDue, MastersDue>>
  BY <1>1 DEF Shrinks, Groups, PoolsStep, SlavesPool!Next, SlavesPool!Shrink,
      MastersPool!Next, MastersPool!Shrink
<1>2. CASE /\ \A g \in Groups : Existing(g)' = Existing(g)
           /\ SlavesDue' = 0 /\ MastersDue' = 0
  BY <1>2 DEF Groups, PoolsStep, SlavesPool!Next, SlavesPool!GiveUp,
      MastersPool!Next, MastersPool!GiveUp
<1> QED
  BY <1>1, <1>2

\* An invocation that exits gives up what is due.
LEMMA ExitRefines ==
    ASSUME NEW o \in Operators, Alone(o), op'[o] = Idle, UNCHANGED cloudVars
    PROVE  PoolsStep
<1>1. SlavesDue' = 0 /\ MastersDue' = 0
  <2>1. \A p \in Operators : op'[p].pc = "idle"
    BY DEF Alone, Busy, Idle
  <2> QED
    BY <2>1 DEF SlavesDue, MastersDue
<1>2. Shrinks /\ \A g \in Groups : Existing(g)' = Existing(g)
  BY DEF Shrinks, cloudVars, Existing, IsActive
<1> QED
  BY <1>1, <1>2, ShrinkingRefines

\* The check claims the groups the launch is to fill.
LEMMA CheckRefines ==
    ASSUME PoolsInv, NEW o \in Operators, Alone(o),
           NEW use \in BOOLEAN, CheckExisting(o, use)
    PROVE  PoolsStep
<1> USE DEF PoolsInv, NumbersInv, TypeInv
<1>1. /\ op[o].pc = "check" /\ op'[o].pc = "image"
      /\ op'[o].slaves = op[o].slaves
      /\ op'[o].masters = Existing("master")
      /\ Existing("slaves") = {}
      /\ \A g : Existing(g)' = Existing(g)
  BY DEF CheckExisting, OpType, Invocation, cloudVars, Existing, IsActive
<1>2. op[o].slaves = {}
  BY <1>1 DEF Sized, NewPCs, GroupPCs
<1>3. SlavesDue = 0 /\ MastersDue = 0
  BY <1>1, DueAlone DEF DueTo, DuePCs
<1>4. /\ SlavesDue' = Slaves
      /\ MastersDue' = IF Existing("master") = {} THEN 1 ELSE 0
  <2>1. Slaves - Cardinality({}) = Slaves
    BY FS_EmptySet, LauncherAssumption
  <2> QED
    BY <1>1, <1>2, <2>1, DueAlone DEF DueTo, DuePCs
<1>5. [SlavesPool!Next]_(SlavesPool!vars)
  BY <1>1, <1>3, <1>4 DEF SlavesPool!Next, SlavesPool!Claim
<1>6. [MastersPool!Next]_(MastersPool!vars)
  BY <1>1, <1>3, <1>4 DEF MastersPool!Next, MastersPool!Claim, MastersPool!Shrink
<1> QED
  BY <1>5, <1>6 DEF PoolsStep

\* The image is resolved, or is not and the launch gives up.
LEMMA ImageRefines ==
    ASSUME OpType, NEW o \in Operators, Alone(o), ResolveImage(o)
    PROVE  PoolsStep
<1>1. CASE Goto(o, "run_slaves")
  <2>1. /\ op[o].pc \in DuePCs /\ op'[o].pc \in DuePCs
        /\ op[o].pc # "run_master" /\ op'[o].pc # "run_master"
        /\ op'[o].slaves = op[o].slaves
        /\ op'[o].masters = op[o].masters
    BY <1>1, JumpKeepsRest DEF ResolveImage, DuePCs
  <2>2. UNCHANGED <<SlavesDue, MastersDue>>
    BY <2>1, DueAlone DEF DueTo
  <2>3. Shrinks
    BY DEF ResolveImage, Shrinks, cloudVars, Existing, IsActive
  <2> QED
    BY <2>2, <2>3, ShrinkingRefines
<1>2. CASE Exits(o)
  BY <1>2, ExitIsIdle, ExitRefines DEF ResolveImage
<1> QED
  BY <1>1, <1>2 DEF ResolveImage

\* The run of a zone's slaves grows the group by what is no longer due.
LEMMA RunSlavesRefines ==
    ASSUME PoolsInv, NEW o \in Operators, Alone(o), RunSlaves(o)
    PROVE  PoolsStep
<1> USE DEF PoolsInv, NumbersInv, TypeInv
<1>1. /\ op[o].pc = "run_slaves"
      /\ op'[o].masters = op[o].masters
      /\ op'[o].n = op[o].n + 1
      /\ op'[o].pc = IF op[o].n + 1 < Zones THEN "run_slaves"
                     ELSE IF op[o].masters # {} THEN "start" ELSE "run_master"
  BY RunSlavesFlow
<1>2. op[o].n \in Nat /\ op[o].n < Zones /\ Zones \in Nat /\ Slaves \in Nat
  BY <1>1, LauncherAssumption DEF OpType, Invocation, Counted
<1>3. Cardinality(op[o].slaves) = Share(op[o].n)
  BY <1>1 DEF Sized
<1>4. PICK new \in SUBSET Free :
          /\ Run(o, "slaves", new)
          /\ IsFiniteSet(new)
          /\ Cardinality(op'[o].slaves) = Share(op'[o].n)
          /\ Share(op'[o].n) = Share(op[o].n) + Cardinality(new)
  BY <1>2, <1>3, RunSlavesSizes
<1>5. /\ Existing("slaves")' = Existing("slaves") \cup new
      /\ Existing("master")' = Existing("master")
      /\ Existing("slaves") \cap new = {}
  <2>1. Existing("slaves") \cap new = {}
    BY DEF Existing, IsActive, Free
  <2> QED
    BY <1>4, <2>1, RunGrows DEF Groups
<1>6. /\ Share(op[o].n) \in 0..Slaves /\ Share(op'[o].n) \in 0..Slaves
      /\ op'[o].n = Zones => Share(op'[o].n) = Slaves
      /\ Cardinality(new) \in Nat
  BY <1>1, <1>2, <1>4, ShareEnds, FS_CardinalityType
<1>7. /\ SlavesDue = Slaves - Share(op[o].n)
      /\ MastersDue = IF op[o].masters = {} THEN 1 ELSE 0
  BY <1>1, <1>3, DueAlone DEF DueTo, DuePCs
<1>8. /\ SlavesDue' = Slaves - Share(op'[o].n)
      /\ MastersDue' = IF op[o].masters = {} THEN 1 ELSE 0
  <2>1. CASE op'[o].n < Zones
    BY <1>1, <1>4, <2>1, DueAlone DEF DueTo, DuePCs
  <2>2. CASE ~(op'[o].n < Zones)
    <3>1. op'[o].n = Zones
      BY <1>1, <1>2, <2>2
    <3>2. Slaves - Share(op'[o].n) = 0
      BY <1>2, <1>6, <3>1
    <3>3. op'[o].pc = IF op[o].masters # {} THEN "start" ELSE "run_master"
      BY <1>1, <2>2
    <3> QED
      BY <1>1, <3>2, <3>3, DueAlone DEF DueTo, DuePCs
  <2> QED
    BY <2>1, <2>2
<1>9. SlavesPool!Grow
  <2>1. Existing("slaves")' \ Existing("slaves") = new /\ new \subseteq Ids
    BY <1>5 DEF Free
  <2>2. SlavesPool!Cardinality(Existing("slaves")' \ Existing("slaves"))
            = Cardinality(new)
    BY <2>1, PoolsCount
  <2>3. /\ SlavesDue' = SlavesDue - Cardinality(new)
        /\ SlavesDue' >= 0
    BY <1>2, <1>4, <1>6, <1>7, <1>8
  <2> QED
    BY <1>5, <2>1, <2>2, <2>3 DEF SlavesPool!Grow, Existing
<1>10. MastersPool!Shrink
  BY <1>5, <1>7, <1>8 DEF MastersPool!Shrink
<1> QED
  BY <1>9, <1>10 DEF PoolsStep, SlavesPool!Next, MastersPool!Next

\* The run of the master grows its group by the one that was due.
LEMMA RunMasterRefines ==
    ASSUME PoolsInv, NEW o \in Operators, Alone(o), RunMaster(o)
    PROVE  PoolsStep
<1> USE DEF PoolsInv, NumbersInv, TypeInv
<1>1. op[o].pc = "run_master" /\ op'[o].pc = "wait_masters"
  BY RunMasterFlow
<1>2. PICK m \in Free : Run(o, "master", {m})
  BY RunMasterFlow
<1>3. /\ Existing("master")' = Existing("master") \cup {m}
      /\ Existing("slaves")' = Existing("slaves")
  BY <1>2, RunGrows DEF Groups
<1>4. m \notin Existing("master") /\ m \in Ids
  BY DEF Existing, IsActive, Free
<1>5. SlavesDue = 0 /\ MastersDue = 1 /\ SlavesDue' = 0 /\ MastersDue' = 0
  BY <1>1, DueAlone DEF DueTo, DuePCs
<1>6. MastersPool!Grow
  <2>1. Existing("master")' \ Existing("master") = {m}
    BY <1>3, <1>4
  <2>2. MastersPool!Cardinality(Existing("master")' \ Existing("master")) = 1
    BY <2>1, PoolsCount, FS_Singleton
  <2> QED
    BY <1>3, <1>4, <1>5, <2>2 DEF MastersPool!Grow, Existing
<1>7. SlavesPool!Shrink
  BY <1>3, <1>5 DEF SlavesPool!Shrink
<1> QED
  BY <1>6, <1>7 DEF PoolsStep, SlavesPool!Next, MastersPool!Next

\* The other steps run nothing, and owe nothing before or after.
LEMMA QuietRefines ==
    ASSUME CloudType, OpType, NEW o \in Operators, Alone(o), Step(o) \/ Crash(o),
           ~RunSlaves(o), ~RunMaster(o), ~ResolveImage(o),
           \A use \in BOOLEAN : ~CheckExisting(o, use), op'[o] # Idle
    PROVE  PoolsStep
<1> USE DEF RunPCs, NeedsMaster, DuePCs
<1>1. op[o] \in Invocation
  BY DEF OpType
<1>2. op[o].pc \notin RunPCs /\ op'[o].pc \notin RunPCs
  <2>1. CASE LookupGroup(o) \/ CreateGroup(o) \/ Authorize(o) \/ GroupAuthorized(o)
    BY <2>1, GroupsFlow, GroupsKeepLaunch DEF GroupPCs
  <2>2. CASE SettingUp(o) /\ ~Raises(o)
    BY <2>2, SettingUpFlow
  <2>3. CASE FindCluster(o)
    BY <2>3, FindFlow DEF FindCluster
  <2>4. CASE StopNode(o)
    BY <1>1, <2>4 DEF OpType, StopNode, Invocation
  <2>5. CASE Stopped(o)
    BY <2>5, JumpKeepsRest DEF Stopped
  <2>6. CASE Destroying(o) /\ ~Raises(o)
    BY <2>6, DestroyingFlow
  <2> QED
    BY <2>1, <2>2, <2>3, <2>4, <2>5, <2>6, StepCases
<1>3. UNCHANGED <<SlavesDue, MastersDue>>
  BY <1>2, DueAlone DEF DueTo
<1> QED
  BY <1>3, StepShrinks, ShrinkingRefines

\* The step that ends an invocation changes nothing in the cloud.
LEMMA IdleIsLast ==
    ASSUME CloudType, OpType, NEW o \in Operators, Step(o) \/ Crash(o), op'[o] = Idle
    PROVE  UNCHANGED cloudVars
<1> USE DEF Idle
<1>1. op[o] \in Invocation
  BY DEF OpType
<1>2. ~RunSlaves(o) /\ ~RunMaster(o)
  BY RunSlavesFlow, RunMasterFlow
<1>3. ~CreateGroup(o) /\ ~Authorize(o)
  BY GroupsFlow
<1>4. ~StartNode(o) /\ ~StopNode(o) /\ ~TerminateNode(o)
  BY <1>1 DEF OpType, StartNode, StopNode, TerminateNode, Invocation
<1>5. /\ \A gr : ~(RevokeRule(o, gr) /\ ~Raises(o))
      /\ \A g : ~DeleteGroup(o, g)
  BY <1>1 DEF OpType, RevokeRule, DeleteGroup, Invocation
<1>6. CASE Launching(o)
  BY <1>2, <1>3, <1>6 DEF Launching, LookupGroup, CreateGroupFails, AuthorizeFails,
      GroupAuthorized, CheckExisting, RefuseLaunch, ResolveImage, RunFails, Raises
<1>7. CASE SettingUp(o)
  BY <1>4, <1>7 DEF SettingUp, StartNodeFails, Started, WaitMasters, WaitSlaves,
      AttachVolume, AttachVolumeFails, VolumesAttached, KeyMaster, KeySlave,
      SlavesKeyed, InstallPackages, PackagesFail, DeployFiles,
      RunSetupScript, SshFails, Raises
<1>8. CASE Stopping(o)
  BY <1>4, <1>8 DEF Stopping, FindCluster, FindClusterFails, StopNodeFails, Stopped,
      Raises
<1>9. CASE Destroying(o)
  BY <1>4, <1>5, <1>9 DEF Destroying, Terminated, RevokeRuleFails, RulesRevoked,
      AttemptEnds, Raises
<1> QED
  BY <1>6, <1>7, <1>8, <1>9 DEF Step, Exit, Crash, Raises

-----------------------------------------------------------------------------
(* The refinement.                                                         *)

\* Every step of an invocation is one of the two groups.
LEMMA StepRefines ==
    ASSUME PoolsInv, NEW o \in Operators, Step(o) \/ Crash(o)
    PROVE  PoolsStep
<1> USE DEF PoolsInv, NumbersInv, TypeInv
<1>1. Alone(o)
  <2>1. \A p \in Operators \ {o} : ~Busy(p) /\ op'[p] = op[p]
    BY StepIsBusy, StepIsOwn DEF TurnsInv, TakesTurns
  <2> QED
    BY <2>1 DEF Alone, Busy
<1>2. CASE op'[o] = Idle
  BY <1>1, <1>2, IdleIsLast, ExitRefines
<1>3. CASE op'[o] # Idle
  BY <1>1, <1>3, CheckRefines, ImageRefines, RunSlavesRefines, RunMasterRefines,
     QuietRefines
<1> QED
  BY <1>2, <1>3

\* Every step of the operators and of the cloud is.
LEMMA NextRefines ==
    ASSUME Exclusive, PoolsInv, [Next]_vars
    PROVE  PoolsStep
<1> USE DEF PoolsInv, NumbersInv, TypeInv
<1>1. ASSUME NEW o \in Operators, NEW mode \in Commands, Begin(o, mode)
      PROVE  PoolsStep
  <2>1. /\ \A p \in Operators \ {o} : ~Busy(p) /\ ~Busy(p)'
        /\ op[o].pc = "idle"
        /\ Shrinks
    BY <1>1 DEF Begin, Busy, OpType, Shrinks, cloudVars, Existing, IsActive
  <2>2. op'[o].pc \in {"lookup", "find"}
    BY <1>1, BeginFields
  <2>3. UNCHANGED <<SlavesDue, MastersDue>>
    BY <2>1, <2>2, DueAlone DEF Alone, DueTo, DuePCs
  <2> QED
    BY <2>1, <2>3, ShrinkingRefines
<1>2. ASSUME NEW i \in Ids, Complete(i) \/ BootFails(i)
      PROVE  PoolsStep
  <2>1. UNCHANGED op
    BY <1>2 DEF Complete, BootFails
  <2>2. UNCHANGED <<SlavesDue, MastersDue>>
    BY <2>1 DEF SlavesDue, MastersDue
  <2> QED
    BY <1>2, <2>2, CloudShrinks, ShrinkingRefines
<1>3. CASE UNCHANGED vars
  <2>1. UNCHANGED op /\ Shrinks
    BY <1>3 DEF vars, cloudVars, Shrinks, Existing, IsActive
  <2>2. UNCHANGED <<SlavesDue, MastersDue>>
    BY <2>1 DEF SlavesDue, MastersDue
  <2> QED
    BY <2>1, <2>2, ShrinkingRefines
<1> QED
  BY <1>1, <1>2, <1>3, StepRefines DEF Next

\* Operators that take turns fill the groups of the masters and of the slaves as
\* Pool has it: a launch claims groups that are empty, and no other instance joins
\* them until it has run, in one call for every zone, what it was asked for or
\* given up, with interruptions anywhere and instances that fail meanwhile.
THEOREM TurnsFillPools ==
    ASSUME Exclusive PROVE Spec => FillsPools
<1>1. Init => PoolsInv
  <2>1. Init => Listed /\ Sized
    BY DEF Init, Idle, Listed, Sized, NewPCs, GroupPCs
  <2> QED
    BY <2>1, InitIsSafe, InitIsCounted DEF PoolsInv
<1>2. PoolsInv /\ [Next]_vars => PoolsInv' /\ PoolsStep
  BY NextKeepsPools, NextRefines
<1>3. Init => SlavesPool!Init /\ MastersPool!Init
  <2>1. Init => \A g : Existing(g) = {}
    BY DEF Init, Existing, IsActive
  <2>2. Init => SlavesDue = 0 /\ MastersDue = 0
    BY DEF Init, Idle, SlavesDue, MastersDue
  <2> QED
    BY <2>1, <2>2 DEF SlavesPool!Init, MastersPool!Init
<1> QED
  BY <1>1, <1>2, <1>3, PTL DEF Spec, FillsPools, PoolsStep, SlavesPool!Spec, MastersPool!Spec

-----------------------------------------------------------------------------
(* What Pool promises is enough.                                           *)

\* Instances there are and instances still to run are together no more than one
\* launch was asked for.
AskedFor ==
    /\ SlavesDue \in Nat /\ Cardinality(Existing("slaves")) + SlavesDue <= Slaves
    /\ MastersDue \in Nat /\ Cardinality(Existing("master")) + MastersDue <= 1

\* A step of Pool trades what is due for instances.
LEMMA PoolStepIsBounded ==
    ASSUME NEW S \in SUBSET Ids, NEW T \in SUBSET Ids,
           NEW d \in Nat, NEW e, NEW k \in Nat,
           Cardinality(S) + d <= k,
           \/ S = {} /\ T = S /\ e = k
           \/ S \subseteq T /\ e = d - Cardinality(T \ S) /\ e >= 0
           \/ T \subseteq S /\ e = d
           \/ T = S /\ e = 0
    PROVE  e \in Nat /\ Cardinality(T) + e <= k
<1>1. IsFiniteSet(S) /\ IsFiniteSet(T) /\ IsFiniteSet(T \ S)
  BY LauncherAssumption, FS_Subset
<1>2. Cardinality(S) \in Nat /\ Cardinality(T) \in Nat /\ Cardinality(T \ S) \in Nat
  BY <1>1, FS_CardinalityType
<1>3. CASE S = {} /\ T = S /\ e = k
  BY <1>3, FS_EmptySet
<1>4. CASE S \subseteq T /\ e = d - Cardinality(T \ S) /\ e >= 0
  <2>1. Cardinality(T \ S) = Cardinality(T) - Cardinality(S)
    <3>1. T \cap S = S
      BY <1>4
    <3> QED
      BY <1>1, <3>1, FS_Difference
  <2> QED
    BY <1>2, <1>4, <2>1
<1>5. CASE T \subseteq S /\ e = d
  BY <1>1, <1>2, <1>5, FS_Subset
<1>6. CASE T = S /\ e = 0
  BY <1>2, <1>6
<1> QED
  BY <1>3, <1>4, <1>5, <1>6

\* Whoever fills the groups as Pool has it never pays for more than one cluster:
\* the bound is a matter of Pool alone, not of how the launcher gets there.
THEOREM PoolsBoundClusters ==
    ASSUME Exclusive PROVE FillsPools => []SlaveLimit
<1>1. SlavesPool!Init /\ MastersPool!Init => AskedFor
  BY FS_EmptySet, LauncherAssumption DEF SlavesPool!Init, MastersPool!Init, AskedFor
<1>2. AskedFor /\ PoolsStep => AskedFor'
  <2> SUFFICES ASSUME AskedFor, PoolsStep PROVE AskedFor'
    OBVIOUS
  <2>1. \A g : Existing(g) \subseteq Ids /\ Existing(g)' \subseteq Ids
    BY DEF Existing
  <2>2. SlavesDue' \in Nat /\ Cardinality(Existing("slaves")') + SlavesDue' <= Slaves
    <3>1. \/ /\ Existing("slaves") = {} /\ Existing("slaves")' = Existing("slaves")
             /\ SlavesDue' = Slaves
          \/ /\ Existing("slaves") \subseteq Existing("slaves")'
             /\ SlavesDue' = SlavesDue
                                - Cardinality(Existing("slaves")' \ Existing("slaves"))
             /\ SlavesDue' >= 0
          \/ /\ Existing("slaves")' \subseteq Existing("slaves")
             /\ SlavesDue' = SlavesDue
          \/ Existing("slaves")' = Existing("slaves") /\ SlavesDue' = 0
      <4>1. CASE SlavesPool!Claim
        BY <4>1 DEF SlavesPool!Claim
      <4>2. CASE SlavesPool!Grow
        BY <4>2, PoolsCount DEF SlavesPool!Grow
      <4>3. CASE SlavesPool!Shrink \/ UNCHANGED SlavesPool!vars
        BY <4>3 DEF SlavesPool!Shrink, SlavesPool!vars
      <4>4. CASE SlavesPool!GiveUp
        BY <4>4 DEF SlavesPool!GiveUp
      <4> QED
        BY <4>1, <4>2, <4>3, <4>4 DEF PoolsStep, SlavesPool!Next
    <3> QED
      BY <2>1, <3>1, LauncherAssumption, PoolStepIsBounded DEF AskedFor
  <2>3. MastersDue' \in Nat /\ Cardinality(Existing("master")') + MastersDue' <= 1
    <3>1. \/ /\ Existing("master") = {} /\ Existing("master")' = Existing("master")
             /\ MastersDue' = 1
          \/ /\ Existing("master") \subseteq Existing("master")'
             /\ MastersDue' = MastersDue
                                - Cardinality(Existing("master")' \ Existing("master"))
             /\ MastersDue' >= 0
          \/ /\ Existing("master")' \subseteq Existing("master")
             /\ MastersDue' = MastersDue
          \/ Existing("master")' = Existing("master") /\ MastersDue' = 0
      <4>1. CASE MastersPool!Claim
        BY <4>1 DEF MastersPool!Claim
      <4>2. CASE MastersPool!Grow
        BY <4>2, PoolsCount DEF MastersPool!Grow
      <4>3. CASE MastersPool!Shrink \/ UNCHANGED MastersPool!vars
        BY <4>3 DEF MastersPool!Shrink, MastersPool!vars
      <4>4. CASE MastersPool!GiveUp
        BY <4>4 DEF MastersPool!GiveUp
      <4> QED
        BY <4>1, <4>2, <4>3, <4>4 DEF PoolsStep, MastersPool!Next
    <3>2. PICK one \in Nat : one = 1
      OBVIOUS
    <3> QED
      BY <2>1, <3>1, <3>2, PoolStepIsBounded DEF AskedFor
  <2> QED
    BY <2>2, <2>3 DEF AskedFor
<1>3. AskedFor => SlaveLimit
  <2>1. \A g : IsFiniteSet(Existing(g))
    BY LauncherAssumption, FS_Subset DEF Existing
  <2> QED
    BY <2>1, FS_CardinalityType, LauncherAssumption DEF AskedFor, SlaveLimit
<1> QED
  BY <1>1, <1>2, <1>3, PTL
     DEF FillsPools, PoolsStep, SlavesPool!Spec, MastersPool!Spec

=============================================================================
