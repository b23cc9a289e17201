--------------------------- MODULE SparkRacesProofs ---------------------------
(***************************************************************************)
(* What operators of SparkEuca can do at worst when they do not take       *)
(* turns, and for how long a wait for instances holds good.                *)
(***************************************************************************)
EXTENDS SparkEucaProofs, FunctionTheorems

\* The slaves that the zones before zone n get.
Share(n) ==
    n * (Slaves \div Zones)
        + (IF n < (Slaves % Zones) THEN n ELSE Slaves % Zones)

\* launch_cluster, from the groups to the check, and on to the runs.
GroupPCs == {"lookup", "create", "authorize", "check"}
NewPCs == GroupPCs \cup {"image"}
LaunchPCs == GroupPCs \cup RunPCs

\* No two launches under way have one number, and none has that of an instance
\* before it has run one.
Numbered ==
    /\ \A i \in Ids : launch[i] <= launches
    /\ \A o \in Operators : op[o].pc \in LaunchPCs => op[o].launch <= launches
    /\ \A o \in Operators : op[o].pc \in NewPCs =>
           \A i \in Ids : launch[i] # op[o].launch
    /\ \A o, p \in Operators :
           op[o].pc \in LaunchPCs /\ op[p].pc \in LaunchPCs
           /\ op[o].launch = op[p].launch => o = p

\* The active slaves that launch l ran.
SlavesOf(l) == {i \in Existing("slaves") : launch[i] = l}

Sizes == [l \in Nat |-> Cardinality(SlavesOf(l))]

\* No launch has more than it was asked for, nor before its runs are over more
\* than the zones so far were to get.
Counted ==
    /\ \A j \in Ids : Sizes[launch[j]] <= Slaves
    /\ \A i, j \in Existing("master") : launch[i] = launch[j] => i = j
    /\ \A o \in Operators :
           /\ op[o].pc \in {"check", "image"} => op[o].n = 0
           /\ op[o].pc = "run_slaves" =>
                  /\ op[o].n < Zones
                  /\ Sizes[op[o].launch] <= Share(op[o].n)
           /\ op[o].pc \in {"run_slaves", "run_master"} =>
                  \A i \in Existing("master") : launch[i] # op[o].launch

\* The invocation o is past the check and may run instances in group g.
MayRun(o, g) ==
    IF g = "slaves" THEN op[o].pc \in {"image", "run_slaves"}
    ELSE \/ op[o].pc \in {"image", "run_slaves"} /\ op[o].masters = {}
         \/ op[o].pc = "run_master"

\* The launches that have, or may come to have, active instances in group g.
LaunchesOf(g) ==
    {launch[i] : i \in Existing(g)}
        \cup {op[o].launch : o \in {p \in Operators : MayRun(p, g)}}

\* There are no more of them than operators to pass the check.
Raced ==
    \A g \in Groups : Cardinality(LaunchesOf(g)) <= Cardinality(Operators)

\* The inductive invariant.
RacesInv == TypeInv /\ Numbered /\ Counted /\ Raced

-----------------------------------------------------------------------------
(* Shares of the zones.                                                    *)

\* Division with remainder.
LEMMA DivMod ==
    /\ Zones \in Nat \ {0} /\ Slaves \in Nat \ {0}
    /\ Slaves \div Zones \in Nat
    /\ Slaves % Zones \in 0..(Zones - 1)
    /\ Slaves = Zones * (Slaves \div Zones) + (Slaves % Zones)
BY LauncherAssumption

\* A zone adds what get_partition gives it.
LEMMA ShareGrows ==
    ASSUME NEW n \in Nat
    PROVE  /\ GetPartition(Slaves, Zones, n) \in Nat
           /\ Share(n) \in Nat
           /\ Share(n + 1) = Share(n) + GetPartition(Slaves, Zones, n)
<1> DEFINE q == Slaves \div Zones
           r == Slaves % Zones
<1>1. q \in Nat /\ r \in Nat
  BY DivMod
<1>2. (n + 1) * q = n * q + q /\ n * q \in Nat
  BY <1>1
<1> HIDE DEF q, r
<1>3. (n + 1) * q + (IF n + 1 < r THEN n + 1 ELSE r)
        = (n * q + (IF n < r THEN n ELSE r)) + (q + (IF r - n > 0 THEN 1 ELSE 0))
  BY <1>1, <1>2
<1>4. /\ q + (IF r - n > 0 THEN 1 ELSE 0) \in Nat
      /\ n * q + (IF n < r THEN n ELSE r) \in Nat
  BY <1>1, <1>2
<1> QED
  BY <1>3, <1>4 DEF Share, GetPartition, q, r

\* Together the zones get all the slaves, and never more.
LEMMA ShareEnds ==
    /\ Share(0) = 0
    /\ Share(Zones) = Slaves
    /\ \A n \in 0..Zones : Share(n) \in 0..Slaves
<1> DEFINE q == Slaves \div Zones
           r == Slaves % Zones
<1>1. q \in Nat /\ r \in 0..(Zones - 1) /\ Slaves = Zones * q + r /\ Zones \in Nat \ {0}
  BY DivMod
<1> HIDE DEF q, r
<1>2. ASSUME NEW n \in 0..Zones
      PROVE  n * q + (IF n < r THEN n ELSE r) \in 0..Slaves
  <2>1. n * q \in Nat /\ (Zones - n) * q \in Nat
    BY <1>1
  <2>2. Zones * q = n * q + (Zones - n) * q
    BY <1>1
  <2> QED
    BY <1>1, <2>1, <2>2
<1>3. 0 * q + (IF 0 < r THEN 0 ELSE r) = 0
  BY <1>1
<1>4. Zones * q + (IF Zones < r THEN Zones ELSE r) = Slaves
  BY <1>1
<1> QED
  BY <1>2, <1>3, <1>4 DEF Share, q, r

-----------------------------------------------------------------------------
(* How a launch gets to its runs.                                          *)

\* No step of an invocation but the first counts a launch.
LEMMA StepKeepsCount ==
    ASSUME NEW o \in Operators, Step(o) \/ Crash(o)
    PROVE  launches' = launches
<1>1. CASE Launching(o)
  BY <1>1 DEF Launching, LookupGroup, CreateGroup, CreateGroupFails, Authorize,
      AuthorizeFails, GroupAuthorized, CheckExisting, RefuseLaunch, ResolveImage,
      RunSlaves, RunMaster, RunFails, Run, Raises
<1>2. CASE SettingUp(o)
  BY <1>2 DEF SettingUp, StartNode, StartNodeFails, Started, WaitMasters, WaitSlaves,
      AttachVolume, AttachVolumeFails, VolumesAttached, KeyMaster, KeySlave,
      SlavesKeyed, InstallPackages, PackagesFail, DeployFiles, RunSetupScript,
      SshFails, Raises
<1>3. CASE Stopping(o) \/ Destroying(o)
  BY <1>3 DEF Stopping, FindCluster, FindClusterFails, StopNode, StopNodeFails,
      Stopped, Destroying, TerminateNode, Terminated, RevokeRule, RevokeRuleFails,
      RulesRevoked, DeleteGroup, AttemptEnds, Raises
<1> QED
  BY <1>1, <1>2, <1>3 DEF Step, Exit, Crash, Raises

\* The security groups keep the number of the launch and leave n at 0.
LEMMA GroupsKeepLaunch ==
    ASSUME OpType, NEW o \in Operators,
           \/ LookupGroup(o) \/ CreateGroup(o) \/ Authorize(o) \/ GroupAuthorized(o)
    PROVE  /\ op[o].pc \in GroupPCs
           /\ op'[o].launch = op[o].launch
           /\ op'[o].pc = "check" => op'[o].n = 0
<1>1. op[o] \in Invocation
  BY DEF OpType
<1>2. ASSUME NEW fresh, AfterGroup(o, fresh)
      PROVE  op'[o].launch = op[o].launch /\ op'[o].pc # "check"
  BY <1>1, <1>2 DEF OpType, AfterGroup, Invocation
<1>3. CASE LookupGroup(o)
  BY <1>2, <1>3, JumpKeepsRest DEF LookupGroup, GroupPCs
<1>4. CASE CreateGroup(o)
  BY <1>2, <1>4 DEF CreateGroup, GroupPCs
<1>5. CASE Authorize(o)
  BY <1>1, <1>5 DEF OpType, Authorize, Invocation, GroupPCs
<1>6. CASE GroupAuthorized(o)
  BY <1>1, <1>6 DEF OpType, GroupAuthorized, Invocation, GroupPCs
<1> QED
  BY <1>3, <1>4, <1>5, <1>6

\* A step that runs nothing stays among the groups, passes the check, goes from
\* the check to the runs or is not in a launch afterwards.
LEMMA LaunchFlow ==
    ASSUME OpType, NEW o \in Operators, Step(o) \/ Crash(o),
           ~RunSlaves(o), ~RunMaster(o), op'[o].pc \in LaunchPCs
    PROVE  /\ op'[o].launch = op[o].launch
           /\ \/ /\ op[o].pc \in GroupPCs /\ op'[o].pc \in GroupPCs
                 /\ op'[o].pc = "check" => op'[o].n = 0
              \/ /\ op[o].pc = "check" /\ op'[o].pc = "image"
                 /\ op'[o].n = op[o].n
                 /\ Existing("slaves") = {}
                 /\ op'[o].masters = Existing("master")
              \/ /\ op[o].pc = "image" /\ op'[o].pc = "run_slaves"
                 /\ op'[o].n = op[o].n
                 /\ op'[o].masters = op[o].masters
<1> USE DEF LaunchPCs, RunPCs, NeedsMaster
<1>1. op[o] \in Invocation
  BY DEF OpType
<1>2. op'[o] # Idle
  BY DEF Idle, GroupPCs
<1>3. CASE LookupGroup(o) \/ CreateGroup(o) \/ Authorize(o) \/ GroupAuthorized(o)
  BY <1>3, GroupsFlow, GroupsKeepLaunch DEF GroupPCs
<1>4. ASSUME NEW use \in BOOLEAN, CheckExisting(o, use)
      PROVE  /\ op'[o].launch = op[o].launch
             /\ op[o].pc = "check" /\ op'[o].pc = "image"
             /\ op'[o].n = op[o].n
             /\ Existing("slaves") = {}
             /\ op'[o].masters = Existing("master")
  BY <1>1, <1>4 DEF OpType, CheckExisting, Invocation
<1>5. CASE ResolveImage(o) /\ Goto(o, "run_slaves")
  BY <1>5, JumpKeepsRest DEF ResolveImage
<1>6. ~(SettingUp(o) /\ ~Raises(o))
  BY SettingUpFlow DEF GroupPCs
<1>7. ~FindCluster(o)
  BY FindFlow DEF GroupPCs
<1>8. ~StopNode(o)
  BY <1>1 DEF OpType, StopNode, Invocation, GroupPCs
<1>9. ~Stopped(o)
  BY JumpKeepsRest DEF Stopped, GroupPCs
<1>10. ~(Destroying(o) /\ ~Raises(o))
  BY DestroyingFlow DEF GroupPCs
<1> QED
  BY <1>2, <1>3, <1>4, <1>5, <1>6, <1>7, <1>8, <1>9, <1>10, StepCases

\* What the run of a zone's slaves does to the invocation.
LEMMA RunSlavesFlow ==
    ASSUME CloudType, OpType, NEW o \in Operators, RunSlaves(o)
    PROVE  /\ op[o].pc = "run_slaves"
           /\ op'[o].launch = op[o].launch
           /\ op'[o].masters = op[o].masters
           /\ op'[o].mode = op[o].mode
           /\ op'[o].n = op[o].n + 1
           /\ op'[o].pc = IF op[o].n + 1 < Zones THEN "run_slaves"
                          ELSE IF op[o].masters # {} THEN "start" ELSE "run_master"
           /\ \E new \in SUBSET Free :
                  /\ Cardinality(new) = GetPartition(Slaves, Zones, op[o].n)
                  /\ Run(o, "slaves", new)
                  /\ op'[o].slaves = op[o].slaves \cup new
BY DEF OpType, RunSlaves, Allocation, Invocation

\* What the run of the master does.
LEMMA RunMasterFlow ==
    ASSUME CloudType, OpType, NEW o \in Operators, RunMaster(o)
    PROVE  /\ op[o].pc = "run_master"
           /\ op'[o].pc = "wait_masters"
           /\ op'[o].mode = op[o].mode
           /\ op'[o].slaves = op[o].slaves
           /\ \E m \in Free : Run(o, "master", {m}) /\ op'[o].masters = {m}
<1>1. op[o] \in Invocation
  BY DEF OpType
<1>2. PICK new \in SUBSET Free :
          /\ Cardinality(new) = 1
          /\ Run(o, "master", new)
          /\ op'[o].masters = new
  BY <1>1 DEF OpType, RunMaster, Allocation, Invocation
<1>3. PICK m : new = {m}
  <2>1. IsFiniteSet(new)
    BY LauncherAssumption, FS_Subset DEF Free
  <2> QED
    BY <1>2, <2>1, FS_Singleton
<1>4. /\ op[o].pc = "run_master"
      /\ op'[o].pc = "wait_masters"
      /\ op'[o].mode = op[o].mode
      /\ op'[o].slaves = op[o].slaves
  BY <1>1 DEF OpType, RunMaster, Invocation
<1> QED
  BY <1>2, <1>3, <1>4

\* Which launches the instances belong to afterwards.
LEMMA RunsAreOwn ==
    ASSUME CloudType, OpType, NEW o \in Operators, Step(o) \/ Crash(o)
    PROVE  \A i \in Ids : \/ launch'[i] = launch[i]
                          \/ /\ launch'[i] = op[o].launch
                             /\ op[o].pc \in {"run_slaves", "run_master"}
<1>1. CASE RunSlaves(o)
  BY <1>1, RunSlavesFlow DEF Run
<1>2. CASE RunMaster(o)
  BY <1>2, RunMasterFlow DEF Run
<1>3. CASE ~RunSlaves(o) /\ ~RunMaster(o)
  BY <1>3, StepShrinks DEF Shrinks
<1> QED
  BY <1>1, <1>2, <1>3

\* A launch that goes on was one before, with the same number, and goes back to
\* no earlier part.
LEMMA LaunchGoesOn ==
    ASSUME CloudType, OpType, NEW o \in Operators, Step(o) \/ Crash(o),
           op'[o].pc \in LaunchPCs
    PROVE  /\ op[o].pc \in LaunchPCs
           /\ op'[o].launch = op[o].launch
           /\ op'[o].pc \in NewPCs => op[o].pc \in NewPCs
<1> USE DEF LaunchPCs, NewPCs, GroupPCs, RunPCs
<1>1. CASE RunSlaves(o)
  BY <1>1, RunSlavesFlow
<1>2. CASE RunMaster(o)
  BY <1>2, RunMasterFlow
<1>3. CASE ~RunSlaves(o) /\ ~RunMaster(o)
  BY <1>3, LaunchFlow
<1> QED
  BY <1>1, <1>2, <1>3

-----------------------------------------------------------------------------
(* The parts of the invariant: numbers.                                    *)

\* No step breaks the numbering.
LEMMA StepKeepsNumbers ==
    ASSUME CloudType, OpType, Numbered, NEW o \in Operators, Step(o) \/ Crash(o)
    PROVE  Numbered'
<1>1. /\ NewPCs \subseteq LaunchPCs
      /\ {"run_slaves", "run_master"} \subseteq LaunchPCs \ NewPCs
  BY DEF LaunchPCs, NewPCs, GroupPCs, RunPCs
<1>2. launches' = launches
  BY StepKeepsCount
<1>3. \A p \in Operators :
          op'[p].pc \in LaunchPCs => /\ op[p].pc \in LaunchPCs
                                     /\ op'[p].launch = op[p].launch
                                     /\ op'[p].pc \in NewPCs => op[p].pc \in NewPCs
  BY StepIsOwn, LaunchGoesOn
<1>4. \A i \in Ids : launch'[i] <= launches'
  BY <1>1, <1>2, RunsAreOwn DEF Numbered
<1>5. ASSUME NEW p \in Operators, op'[p].pc \in NewPCs, NEW i \in Ids
      PROVE  launch'[i] # op'[p].launch
  <2>1. op[p].pc \in NewPCs /\ op'[p].launch = op[p].launch
    BY <1>1, <1>3, <1>5
  <2>2. launch[i] # op[p].launch
    BY <2>1 DEF Numbered
  <2>3. CASE launch'[i] = launch[i]
    BY <2>1, <2>2, <2>3
  <2>4. CASE launch'[i] = op[o].launch /\ op[o].pc \in {"run_slaves", "run_master"}
    BY <1>1, <2>1, <2>4 DEF Numbered
  <2> QED
    BY <2>3, <2>4, RunsAreOwn
<1> QED
  BY <1>2, <1>3, <1>4, <1>5 DEF Numbered

\* The local variables of an invocation that begins.
LEMMA BeginFields ==
    ASSUME OpType, NEW o \in Operators, NEW mode \in Commands, Begin(o, mode)
    PROVE  /\ op'[o].mode = mode
           /\ op'[o].pc = IF mode = "launch" THEN "lookup" ELSE "find"
           /\ op'[o].n = 0
           /\ op'[o].turn = "master"
           /\ op'[o].fresh = {}
           /\ op'[o].masters = {}
           /\ op'[o].slaves = {}
           /\ op'[o].launch = IF mode = "launch" THEN launches + 1 ELSE 0
<1>1. CASE mode = "launch"
  <2>1. op'[o] = [Idle EXCEPT !.pc = "lookup", !.mode = mode, !.launch = launches + 1]
    BY <1>1 DEF Begin, OpType
  <2> QED
    BY <1>1, <2>1 DEF Idle
<1>2. CASE mode # "launch"
  <2>1. op'[o] = [Idle EXCEPT !.pc = "find", !.mode = mode]
    BY <1>2 DEF Begin, OpType
  <2> QED
    BY <1>2, <2>1 DEF Idle
<1> QED
  BY <1>1, <1>2

\* A launch that begins takes the next number.
LEMMA BeginKeepsNumbers ==
    ASSUME CloudType, OpType, Numbered, NEW o \in Operators, NEW mode \in Commands,
           Begin(o, mode)
    PROVE  Numbered'
<1> USE DEF LaunchPCs, NewPCs, GroupPCs, RunPCs
<1>1. \A p \in Operators \ {o} : op'[p] = op[p]
  BY DEF Begin, OpType
<1>2. launch' = launch
  BY DEF Begin, cloudVars
<1>3. launches \in Nat /\ \A i \in Ids : launch[i] \in Nat
  BY DEF CloudType
<1>4. CASE mode = "launch"
  <2>1. op'[o].launch = launches + 1 /\ launches' = launches + 1
    <3>1. launches' = launches + 1
      BY <1>4 DEF Begin
    <3> QED
      BY <1>4, <3>1, BeginFields
  <2>2. \A p \in Operators \ {o} : op[p].launch \in Nat
    BY DEF OpType, Invocation
  <2> QED
    BY <1>1, <1>2, <1>3, <2>1, <2>2 DEF Numbered
<1>5. CASE mode # "launch"
  <2>1. op'[o].pc = "find" /\ launches' = launches
    <3>1. launches' = launches
      BY <1>5 DEF Begin
    <3> QED
      BY <1>5, <3>1, BeginFields
  <2> QED
    BY <1>1, <1>2, <2>1 DEF Numbered
<1> QED
  BY <1>4, <1>5

-----------------------------------------------------------------------------
(* Counts.                                                                 *)

\* There are finitely many active slaves of a launch.
LEMMA SizesAreNumbers ==
    ASSUME NEW l \in Nat
    PROVE  /\ IsFiniteSet(SlavesOf(l))
           /\ Sizes[l] = Cardinality(SlavesOf(l))
           /\ Sizes[l] \in Nat
<1>1. SlavesOf(l) \in SUBSET Ids
  BY DEF SlavesOf, Existing
<1> QED
  BY <1>1, LauncherAssumption, FS_Subset, FS_CardinalityType DEF Sizes

\* What changes in the slaves of a launch changes their number.
LEMMA SizesChange ==
    ASSUME NEW l \in Nat
    PROVE  /\ SlavesOf(l)' \subseteq SlavesOf(l) => Sizes'[l] <= Sizes[l]
           /\ \A new \in SUBSET Ids :
                  SlavesOf(l)' \subseteq SlavesOf(l) \cup new =>
                      Sizes'[l] <= Sizes[l] + Cardinality(new)
           /\ Sizes'[l] \in Nat
<1>1. /\ SlavesOf(l)' \in SUBSET Ids
      /\ Sizes'[l] = Cardinality(SlavesOf(l)')
  BY DEF SlavesOf, Existing, Sizes
<1>2. SlavesOf(l)' \subseteq SlavesOf(l) => Sizes'[l] <= Sizes[l]
  BY <1>1, SizesAreNumbers, FS_Subset
<1>3. ASSUME NEW new \in SUBSET Ids,
             SlavesOf(l)' \subseteq SlavesOf(l) \cup new
      PROVE  Sizes'[l] <= Sizes[l] + Cardinality(new)
  <2>1. IsFiniteSet(new) /\ Cardinality(new) \in Nat
    BY LauncherAssumption, FS_Subset, FS_CardinalityType
  <2>2. /\ IsFiniteSet(SlavesOf(l) \cup new)
        /\ Cardinality(SlavesOf(l) \cup new)
               = Cardinality(SlavesOf(l)) + Cardinality(new)
                     - Cardinality(SlavesOf(l) \cap new)
    BY <2>1, SizesAreNumbers, FS_Union
  <2>3. Cardinality(SlavesOf(l) \cap new) \in Nat
    BY <2>1, FS_Intersection, FS_CardinalityType
  <2>4. /\ Cardinality(SlavesOf(l)') <= Cardinality(SlavesOf(l) \cup new)
        /\ Cardinality(SlavesOf(l)') \in Nat
        /\ Cardinality(SlavesOf(l) \cup new) \in Nat
    BY <1>3, <2>2, FS_Subset, FS_CardinalityType
  <2> QED
    BY <1>1, <2>1, <2>2, <2>3, <2>4, SizesAreNumbers
<1>4. Sizes'[l] \in Nat
  BY <1>1, LauncherAssumption, FS_Subset, FS_CardinalityType
<1> QED
  BY <1>2, <1>3, <1>4

\* Fewer active instances make lower counts.
LEMMA ShrinkingCounts ==
    ASSUME Shrinks, NEW l \in Nat
    PROVE  Sizes'[l] <= Sizes[l]
<1>1. SlavesOf(l)' \subseteq SlavesOf(l)
  BY DEF Shrinks, SlavesOf, Groups
<1> QED
  BY <1>1, SizesChange

\* The numbers of launches are numbers.
LEMMA LaunchesAreNumbers ==
    ASSUME CloudType, OpType
    PROVE  /\ \A i \in Ids : launch[i] \in Nat
           /\ \A o \in Operators : op[o].launch \in Nat /\ op[o].n \in Nat
BY DEF CloudType, OpType, Invocation

\* A step that runs nothing.
LEMMA QuietStepCounts ==
    ASSUME CloudType, OpType, Numbered, Counted, NEW o \in Operators,
           Step(o) \/ Crash(o), ~RunSlaves(o), ~RunMaster(o)
    PROVE  Counted'
<1> USE DEF LaunchPCs, NewPCs, GroupPCs, RunPCs
<1>1. Shrinks
  BY StepShrinks
<1>2. \A l \in Nat : /\ Sizes'[l] <= Sizes[l]
                     /\ Sizes'[l] \in Nat /\ Sizes[l] \in Nat
  BY <1>1, ShrinkingCounts, SizesChange, SizesAreNumbers
<1>3. /\ launch' = launch
      /\ Existing("master")' \subseteq Existing("master")
  BY <1>1 DEF Shrinks, Groups
<1>4. \A j \in Ids : Sizes'[launch'[j]] <= Slaves
  BY <1>2, <1>3, LaunchesAreNumbers, LauncherAssumption DEF Counted
<1>5. \A i, j \in Existing("master")' : launch'[i] = launch'[j] => i = j
  BY <1>3 DEF Counted
<1>6. ASSUME NEW p \in Operators
      PROVE  /\ op'[p].pc \in {"check", "image"} => op'[p].n = 0
             /\ op'[p].pc = "run_slaves" =>
                    /\ op'[p].n < Zones
                    /\ Sizes'[op'[p].launch] <= Share(op'[p].n)
             /\ op'[p].pc \in {"run_slaves", "run_master"} =>
                    \A i \in Existing("master")' : launch'[i] # op'[p].launch
  <2>1. CASE p # o
    <3>1. op'[p] = op[p]
      BY <2>1, StepIsOwn
    <3> QED
      BY <1>2, <1>3, <3>1, LaunchesAreNumbers, ShareGrows DEF Counted
  <2>2. CASE p = o /\ op'[o].pc \in NewPCs
    BY <2>2, LaunchFlow DEF Counted
  <2>3. CASE p = o /\ op'[o].pc \in LaunchPCs \ NewPCs
    <3>1. /\ op[o].pc = "image" /\ op'[o].pc = "run_slaves"
          /\ op'[o].n = op[o].n /\ op'[o].launch = op[o].launch
      BY <2>3, LaunchFlow
    <3>2. op'[o].n = 0 /\ 0 < Zones
      BY <3>1, DivMod DEF Counted
    <3>3. SlavesOf(op[o].launch) = {}
      BY <3>1 DEF Numbered, SlavesOf, Existing
    <3>4. \A i \in Existing("master")' : launch'[i] # op[o].launch
      BY <1>3, <3>1 DEF Numbered, Existing
    <3>5. Sizes'[op[o].launch] <= 0
      BY <1>2, <3>3, FS_EmptySet, LaunchesAreNumbers, SizesAreNumbers
    <3> QED
      BY <2>3, <3>1, <3>2, <3>4, <3>5, ShareEnds
  <2>4. CASE op'[p].pc \notin LaunchPCs
    BY <2>4
  <2> QED
    BY <2>1, <2>2, <2>3, <2>4
<1> QED
  BY <1>4, <1>5, <1>6 DEF Counted

\* What a run adds to the counts.
LEMMA RunCounts ==
    ASSUME CloudType, OpType, NEW o \in Operators, NEW g \in Groups,
           NEW new \in SUBSET Free, Run(o, g, new), NEW l \in Nat
    PROVE  /\ g = "master" \/ l # op[o].launch => Sizes'[l] <= Sizes[l]
           /\ Sizes'[l] <= Sizes[l] + Cardinality(new)
<1>1. /\ Existing("slaves")' \subseteq Existing("slaves") \cup new
      /\ g = "master" => Existing("slaves")' \subseteq Existing("slaves")
      /\ \A i \in new : launch'[i] = op[o].launch
      /\ \A i \in Ids \ new : launch'[i] = launch[i]
      /\ Existing("slaves") \cap new = {} /\ Existing("slaves") \subseteq Ids
  BY RunAdds DEF Groups, Existing, IsActive, Free
<1>2. SlavesOf(l)' \subseteq SlavesOf(l) \cup new
  BY <1>1 DEF SlavesOf
<1>3. g = "master" \/ l # op[o].launch => SlavesOf(l)' \subseteq SlavesOf(l)
  BY <1>1 DEF SlavesOf
<1>4. new \in SUBSET Ids
  BY DEF Free
<1> QED
  BY <1>2, <1>3, <1>4, SizesChange

\* The run of a zone's slaves.
LEMMA RunSlavesCounts ==
    ASSUME CloudType, OpType, Numbered, Counted, NEW o \in Operators, RunSlaves(o)
    PROVE  Counted'
<1> DEFINE l0 == op[o].launch
           n == op[o].n
<1>1. PICK new \in SUBSET Free :
          /\ Cardinality(new) = GetPartition(Slaves, Zones, n)
          /\ Run(o, "slaves", new)
  BY RunSlavesFlow
<1>2. /\ l0 \in Nat /\ n \in Nat /\ n < Zones /\ n + 1 \in 0..Zones
      /\ op[o].pc = "run_slaves" /\ Sizes[l0] <= Share(n)
  BY RunSlavesFlow, LaunchesAreNumbers, LauncherAssumption DEF Counted
<1>3. \A l \in Nat : /\ Sizes[l] \in Nat /\ Sizes'[l] \in Nat
                     /\ l # l0 => Sizes'[l] <= Sizes[l]
                     /\ Sizes'[l] <= Sizes[l] + GetPartition(Slaves, Zones, n)
  BY <1>1, RunCounts, SizesAreNumbers, SizesChange DEF Groups
<1>4. Sizes'[l0] <= Share(n + 1) /\ Sizes'[l0] <= Slaves
  <2>1. /\ Sizes'[l0] <= Sizes[l0] + GetPartition(Slaves, Zones, n)
        /\ Sizes[l0] \in Nat /\ Sizes'[l0] \in Nat
    BY <1>2, <1>3
  <2>2. /\ GetPartition(Slaves, Zones, n) \in Nat /\ Share(n) \in Nat
        /\ Share(n + 1) = Share(n) + GetPartition(Slaves, Zones, n)
        /\ Share(n + 1) \in 0..Slaves
    BY <1>2, ShareGrows, ShareEnds
  <2> QED
    BY <1>2, <2>1, <2>2, DivMod
<1>5. /\ Existing("master")' \subseteq Existing("master")
      /\ \A i \in Existing("master") : launch'[i] = launch[i]
  BY <1>1, RunAdds DEF Groups, Existing, IsActive, Free
<1>6. ASSUME NEW j \in Ids
      PROVE  Sizes'[launch'[j]] <= Slaves
  <2>1. RunSlaves(o) => Step(o)
    BY DEF Step, Launching
  <2>2. launch'[j] = launch[j] \/ launch'[j] = l0
    BY <2>1, RunsAreOwn
  <2>3. CASE launch'[j] = l0
    BY <1>4, <2>3
  <2>4. CASE launch'[j] = launch[j] /\ launch[j] # l0
    BY <1>3, <2>4, LaunchesAreNumbers, LauncherAssumption DEF Counted
  <2> QED
    BY <2>2, <2>3, <2>4
<1>7. ASSUME NEW p \in Operators
      PROVE  /\ op'[p].pc \in {"check", "image"} => op'[p].n = 0
             /\ op'[p].pc = "run_slaves" =>
                    /\ op'[p].n < Zones
                    /\ Sizes'[op'[p].launch] <= Share(op'[p].n)
             /\ op'[p].pc \in {"run_slaves", "run_master"} =>
                    \A i \in Existing("master")' : launch'[i] # op'[p].launch
  <2>1. CASE p # o
    <3>1. op'[p] = op[p]
      BY <2>1, StepIsOwn DEF Step, Launching
    <3>2. op[p].pc = "run_slaves" => op[p].launch # l0
      BY <1>2, <2>1 DEF Numbered, LaunchPCs, RunPCs
    <3> DEFINE k == op[p].launch
               r == op[p].n
    <3>3. k \in Nat /\ r \in Nat /\ Share(r) \in Nat
      BY LaunchesAreNumbers, ShareGrows
    <3>4. /\ op[p].pc \in {"check", "image"} => r = 0
          /\ op[p].pc = "run_slaves" => r < Zones /\ Sizes[k] <= Share(r)
          /\ op[p].pc \in {"run_slaves", "run_master"} =>
                 \A i \in Existing("master") : launch[i] # k
      BY DEF Counted
    <3>5. op[p].pc = "run_slaves" => Sizes'[k] <= Share(r)
      BY <1>3, <3>2, <3>3, <3>4
    <3>6. op[p].pc \in {"run_slaves", "run_master"} =>
             \A i \in Existing("master")' : launch'[i] # k
      BY <1>5, <3>2, <3>4
    <3> QED
      BY <3>1, <3>4, <3>5, <3>6
  <2>2. CASE p = o
    <3>1. /\ op'[o].launch = l0 /\ op'[o].n = n + 1
          /\ op'[o].pc \in {"run_slaves", "start", "run_master"}
          /\ op'[o].pc = "run_slaves" => n + 1 < Zones
      BY RunSlavesFlow
    <3>2. \A i \in Existing("master")' : launch'[i] # l0
      BY <1>2, <1>5 DEF Counted
    <3> QED
      BY <1>4, <2>2, <3>1, <3>2
  <2> QED
    BY <2>1, <2>2
<1> QED
  BY <1>5, <1>6, <1>7 DEF Counted

\* The run of the master.
LEMMA RunMasterCounts ==
    ASSUME CloudType, OpType, Numbered, Counted, NEW o \in Operators, RunMaster(o)
    PROVE  Counted'
<1> DEFINE l0 == op[o].launch
<1>1. PICK m \in Free : Run(o, "master", {m})
  BY RunMasterFlow
<1>2. op[o].pc = "run_master" /\ op'[o].pc = "wait_masters"
  BY RunMasterFlow
<1>3. \A l \in Nat : /\ Sizes[l] \in Nat /\ Sizes'[l] \in Nat
                     /\ Sizes'[l] <= Sizes[l]
  BY <1>1, RunCounts, SizesAreNumbers, SizesChange DEF Groups
<1>4. /\ Existing("master")' \subseteq Existing("master") \cup {m}
      /\ launch'[m] = l0
      /\ \A i \in Existing("master") : launch'[i] = launch[i] /\ launch[i] # l0
      /\ \A i \in Ids \ {m} : launch'[i] = launch[i]
  BY <1>1, <1>2, RunAdds DEF Groups, Existing, IsActive, Free, Counted
<1>5. \A i, j \in Existing("master")' : launch'[i] = launch'[j] => i = j
  BY <1>4 DEF Counted
<1>6. Sizes[l0] <= Slaves \/ SlavesOf(l0) = {}
  <2>1. CASE \E j \in Ids : launch[j] = l0
    BY <2>1 DEF Counted
  <2>2. CASE \A j \in Ids : launch[j] # l0
    BY <2>2 DEF SlavesOf, Existing
  <2> QED
    BY <2>1, <2>2
<1>7. Sizes[l0] <= Slaves
  BY <1>6, FS_EmptySet, SizesAreNumbers, LaunchesAreNumbers, LauncherAssumption
<1>8. \A j \in Ids : Sizes'[launch'[j]] <= Slaves
  <2>1. \A j \in Ids : launch'[j] = l0 \/ launch'[j] = launch[j]
    BY <1>4
  <2> QED
    BY <1>3, <1>7, <2>1, LaunchesAreNumbers, LauncherAssumption DEF Counted
<1>9. ASSUME NEW p \in Operators, p # o
      PROVE  /\ op'[p].pc \in {"check", "image"} => op'[p].n = 0
             /\ op'[p].pc = "run_slaves" =>
                    /\ op'[p].n < Zones
                    /\ Sizes'[op'[p].launch] <= Share(op'[p].n)
             /\ op'[p].pc \in {"run_slaves", "run_master"} =>
                    \A i \in Existing("master")' : launch'[i] # op'[p].launch
  <2>1. op'[p] = op[p]
    BY <1>9, StepIsOwn DEF Step, Launching
  <2>2. op[p].pc \in {"run_slaves", "run_master"} => op[p].launch # l0
    BY <1>2, <1>9 DEF Numbered, LaunchPCs, RunPCs
  <2> DEFINE k == op[p].launch
             r == op[p].n
  <2>3. k \in Nat /\ r \in Nat /\ Share(r) \in Nat
    BY LaunchesAreNumbers, ShareGrows
  <2>4. /\ op[p].pc \in {"check", "image"} => r = 0
        /\ op[p].pc = "run_slaves" => r < Zones /\ Sizes[k] <= Share(r)
        /\ op[p].pc \in {"run_slaves", "run_master"} =>
               \A i \in Existing("master") : launch[i] # k
    BY DEF Counted
  <2>5. op[p].pc = "run_slaves" => Sizes'[k] <= Share(r)
    BY <1>3, <2>3, <2>4
  <2>6. op[p].pc \in {"run_slaves", "run_master"} =>
           \A i \in Existing("master")' : launch'[i] # k
    BY <1>4, <2>2, <2>4
  <2> QED
    BY <2>1, <2>4, <2>5, <2>6
<1> QED
  BY <1>2, <1>5, <1>8, <1>9 DEF Counted

\* An invocation that begins.
LEMMA BeginCounts ==
    ASSUME OpType, Counted, NEW o \in Operators, NEW mode \in Commands,
           Begin(o, mode)
    PROVE  Counted'
<1>1. \A p \in Operators \ {o} : op'[p] = op[p]
  BY DEF Begin, OpType
<1>2. op'[o].pc \in {"lookup", "find"}
  BY BeginFields
<1>3. /\ UNCHANGED <<group, state, launch>>
      /\ Existing("master")' = Existing("master")
      /\ Sizes' = Sizes
  BY DEF Begin, cloudVars, Existing, IsActive, Sizes, SlavesOf
<1>4. \A p \in Operators :
          /\ op'[p].pc \in {"check", "image", "run_slaves", "run_master"}
                 => op'[p] = op[p]
  BY <1>1, <1>2
<1> QED
  BY <1>3, <1>4 DEF Counted

\* What the cloud does on its own.
LEMMA CloudCounts ==
    ASSUME CloudType, OpType, Counted, NEW i \in Ids, Complete(i) \/ BootFails(i)
    PROVE  Counted'
<1>1. Shrinks /\ UNCHANGED <<launch, op>>
  BY CloudShrinks DEF Complete, BootFails
<1>2. \A l \in Nat : /\ Sizes[l] \in Nat /\ Sizes'[l] \in Nat
                     /\ Sizes'[l] <= Sizes[l]
  BY <1>1, ShrinkingCounts, SizesAreNumbers, SizesChange
<1>3. Existing("master")' \subseteq Existing("master")
  BY <1>1 DEF Shrinks, Groups
<1>4. \A j \in Ids : Sizes'[launch'[j]] <= Slaves
  BY <1>1, <1>2, LaunchesAreNumbers, LauncherAssumption DEF Counted
<1>5. \A p \in Operators :
          op[p].pc = "run_slaves" => Sizes'[op[p].launch] <= Share(op[p].n)
  BY <1>2, LaunchesAreNumbers, ShareGrows DEF Counted
<1> QED
  BY <1>1, <1>3, <1>4, <1>5 DEF Counted

-----------------------------------------------------------------------------
(* Races.                                                                  *)

\* A function has no more values than arguments.
LEMMA ValuesAreFewer ==
    ASSUME NEW S, IsFiniteSet(S), NEW L, NEW f,
           \A l \in L : \E p \in S : f[p] = l
    PROVE  IsFiniteSet(L) /\ Cardinality(L) <= Cardinality(S)
<1> DEFINE T == {f[p] : p \in S}
           h == [p \in S |-> f[p]]
<1>1. h \in Surjection(S, T)
  BY DEF Surjection
<1>2. IsFiniteSet(T) /\ Cardinality(T) <= Cardinality(S)
  BY <1>1, FS_Surjection
<1>3. L \in SUBSET T
  OBVIOUS
<1>4. /\ Cardinality(L) \in Nat /\ Cardinality(T) \in Nat /\ Cardinality(S) \in Nat
      /\ IsFiniteSet(L) /\ Cardinality(L) <= Cardinality(T)
  BY <1>2, <1>3, FS_Subset, FS_CardinalityType
<1> QED
  BY <1>2, <1>4

\* A set in parts of at most k elements has at most k times as many as parts.
LEMMA SumOfParts ==
    ASSUME NEW S, IsFiniteSet(S), NEW L, IsFiniteSet(L), NEW k \in Nat,
           NEW f, \A i \in S : f[i] \in L,
           \A l \in L : Cardinality({i \in S : f[i] = l}) <= k
    PROVE  Cardinality(S) <= Cardinality(L) * k
<1> DEFINE Part(l) == {i \in S : f[i] = l}
           g == [l \in L |-> CHOOSE b : b \in Injection(Part(l), 1..k)]
           h == [i \in S |-> <<f[i], g[f[i]][i]>>]
<1>1. ASSUME NEW l \in L
      PROVE  g[l] \in Injection(Part(l), 1..k)
  <2>1. IsFiniteSet(Part(l)) /\ Cardinality(Part(l)) \in 0..k
    BY FS_Subset, FS_CardinalityType
  <2>2. ExistsBijection(Part(l), 1..Cardinality(Part(l)))
    BY <2>1, FS_CardinalityType, Fun_ExistsBijSymmetric
  <2>3. PICK b : b \in Bijection(Part(l), 1..Cardinality(Part(l)))
    BY <2>2 DEF ExistsBijection
  <2>4. 1..Cardinality(Part(l)) \subseteq 1..k
    BY <2>1
  <2>5. b \in Injection(Part(l), 1..k)
    BY <2>3, <2>4 DEF Bijection, Injection, IsInjective
  <2> QED
    BY <2>5
<1>2. h \in Injection(S, L \X (1..k))
  <2>1. \A i \in S : g[f[i]] \in Injection(Part(f[i]), 1..k) /\ i \in Part(f[i])
    BY <1>1
  <2> HIDE DEF g
  <2>2. \A i \in S : h[i] \in L \X (1..k)
    BY <2>1 DEF Injection
  <2>3. ASSUME NEW i \in S, NEW j \in S, h[i] = h[j]
        PROVE  i = j
    <3>1. f[i] = f[j] /\ g[f[i]][i] = g[f[i]][j]
      BY <2>3
    <3> QED
      BY <2>1, <3>1 DEF Injection, IsInjective
  <2> HIDE DEF h
  <2>4. h \in [S -> L \X (1..k)]
    BY <2>2 DEF h
  <2> QED
    BY <2>3, <2>4 DEF Injection, IsInjective
<1>3. IsFiniteSet(L \X (1..k)) /\ Cardinality(L \X (1..k)) = Cardinality(L) * k
  <2>1. IsFiniteSet(1..k) /\ Cardinality(1..k) = k
    BY FS_Interval
  <2> QED
    BY <2>1, FS_Product
<1> QED
  <2> HIDE DEF h, g
  <2> QED
    BY <1>2, <1>3, FS_Injection

\* There are finitely many of these launches.
LEMMA LaunchesAreFinite ==
    ASSUME CloudType, OpType, Numbered, NEW g \in Groups
    PROVE  /\ IsFiniteSet(LaunchesOf(g))
           /\ Cardinality(LaunchesOf(g)) \in Nat
<1>1. LaunchesOf(g) \in SUBSET (0..launches)
  BY LaunchesAreNumbers
     DEF LaunchesOf, MayRun, Numbered, LaunchPCs, RunPCs, Existing, CloudType
<1>2. IsFiniteSet(0..launches)
  BY FS_Interval DEF CloudType
<1> QED
  BY <1>1, <1>2, FS_Subset, FS_CardinalityType

\* Fewer launches are no more.
LEMMA FewerAreRaced ==
    ASSUME CloudType, OpType, Numbered, Raced, IsFiniteSet(Operators),
           NEW g \in Groups, LaunchesOf(g)' \subseteq LaunchesOf(g)
    PROVE  Cardinality(LaunchesOf(g)') <= Cardinality(Operators)
<1>1. LaunchesOf(g)' \in SUBSET LaunchesOf(g)
  OBVIOUS
<1>2. /\ Cardinality(LaunchesOf(g)') <= Cardinality(LaunchesOf(g))
      /\ Cardinality(LaunchesOf(g)') \in Nat
  BY <1>1, LaunchesAreFinite, FS_Subset, FS_CardinalityType
<1> QED
  BY <1>2, LaunchesAreFinite, FS_CardinalityType DEF Raced

\* An invocation that may run instances was allowed to before, or has just
\* passed the check.
LEMMA MayRunFlow ==
    ASSUME CloudType, OpType, NEW o \in Operators, Step(o) \/ Crash(o),
           NEW g \in Groups, MayRun(o, g)'
    PROVE  /\ op'[o].launch = op[o].launch
           /\ \/ MayRun(o, g)
              \/ Existing(g) = {} /\ ~RunSlaves(o) /\ ~RunMaster(o)
<1> USE DEF MayRun, Groups, LaunchPCs, GroupPCs, RunPCs
<1>1. CASE RunSlaves(o)
  BY <1>1, RunSlavesFlow
<1>2. CASE RunMaster(o)
  BY <1>2, RunMasterFlow
<1>3. CASE ~RunSlaves(o) /\ ~RunMaster(o)
  BY <1>3, LaunchFlow
<1> QED
  BY <1>1, <1>2, <1>3

\* When an invocation passes the check and finds nothing, it competes with those
\* that passed it with nothing found and have not run anything since.
LEMMA StepKeepsRaced ==
    ASSUME CloudType, OpType, Numbered, Raced, IsFiniteSet(Operators),
           NEW o \in Operators, Step(o) \/ Crash(o)
    PROVE  Raced'
<1> SUFFICES ASSUME NEW g \in Groups
             PROVE  Cardinality(LaunchesOf(g)') <= Cardinality(Operators)
  BY DEF Raced
<1>1. \A p \in Operators \ {o} : op'[p] = op[p]
  BY StepIsOwn
<1>2. CASE MayRun(o, g)' /\ ~MayRun(o, g)
  <2>1. /\ Existing(g)' = {}
        /\ op'[o].launch = op[o].launch
    BY <1>2, MayRunFlow, StepShrinks DEF Shrinks
  <2>2. \A l \in LaunchesOf(g)' : \E p \in Operators : op'[p].launch = l
    BY <2>1 DEF LaunchesOf
  <2> DEFINE f == [p \in Operators |-> op'[p].launch]
  <2>3. \A l \in LaunchesOf(g)' : \E p \in Operators : f[p] = l
    BY <2>2
  <2> HIDE DEF f
  <2> QED
    BY <2>3, ValuesAreFewer
<1>3. CASE MayRun(o, g)' => MayRun(o, g)
  <2>1. \A p \in Operators :
            MayRun(p, g)' => MayRun(p, g) /\ op'[p].launch = op[p].launch
    <3>1. \A p \in Operators \ {o} : MayRun(p, g)' => MayRun(p, g)
      BY <1>1 DEF MayRun
    <3> QED
      BY <1>1, <1>3, <3>1, MayRunFlow
  <2>2. ASSUME NEW i \in Existing(g)'
        PROVE  launch'[i] \in LaunchesOf(g)
    <3>1. CASE RunSlaves(o)
      <4>1. PICK new \in SUBSET Free : Run(o, "slaves", new)
        BY <3>1, RunSlavesFlow
      <4>2. op[o].pc = "run_slaves"
        BY <3>1 DEF RunSlaves
      <4>3. CASE g = "slaves"
        <5>1. MayRun(o, g)
          BY <4>2, <4>3 DEF MayRun
        <5> QED
          BY <4>1, <4>3, <5>1, <2>2, RunAdds DEF LaunchesOf, Existing
      <4>4. CASE g = "master"
        <5>1. i \in Existing("master") /\ i \in Ids \ new
          BY <4>1, <4>4, <2>2, RunAdds DEF Groups, Existing, IsActive, Free
        <5> QED
          BY <4>1, <4>4, <5>1, RunAdds DEF Groups, LaunchesOf
      <4> QED
        BY <4>3, <4>4 DEF Groups
    <3>2. CASE RunMaster(o)
      <4>1. PICK m \in Free : Run(o, "master", {m})
        BY <3>2, RunMasterFlow
      <4>2. op[o].pc = "run_master"
        BY <3>2 DEF RunMaster
      <4>3. CASE g = "master"
        <5>1. MayRun(o, g)
          BY <4>2, <4>3 DEF MayRun
        <5> QED
          BY <4>1, <4>3, <5>1, <2>2, RunAdds DEF LaunchesOf, Existing
      <4>4. CASE g = "slaves"
        <5>1. i \in Existing("slaves") /\ i \in Ids \ {m}
          BY <4>1, <4>4, <2>2, RunAdds DEF Groups, Existing, IsActive, Free
        <5> QED
          BY <4>1, <4>4, <5>1, RunAdds DEF Groups, LaunchesOf
      <4> QED
        BY <4>3, <4>4 DEF Groups
    <3>3. CASE ~RunSlaves(o) /\ ~RunMaster(o)
      BY <2>2, <3>3, StepShrinks DEF Shrinks, LaunchesOf
    <3> QED
      BY <3>1, <3>2, <3>3
  <2>3. LaunchesOf(g)' \subseteq LaunchesOf(g)
    BY <2>1, <2>2 DEF LaunchesOf
  <2> QED
    BY <2>3, FewerAreRaced
<1> QED
  BY <1>2, <1>3

\* An invocation that begins is before the check.
LEMMA BeginKeepsRaced ==
    ASSUME OpType, Raced, NEW o \in Operators, NEW mode \in Commands,
           Begin(o, mode)
    PROVE  Raced'
<1>1. \A p \in Operators \ {o} : op'[p] = op[p]
  BY DEF Begin, OpType
<1>2. /\ ~Busy(o) /\ op'[o].pc \in {"lookup", "find"}
      /\ UNCHANGED <<group, state, launch>>
  <2>1. ~Busy(o) /\ UNCHANGED <<group, state, launch>>
    BY DEF Begin, cloudVars
  <2> QED
    BY <2>1, BeginFields
<1>3. ASSUME NEW g \in Groups
      PROVE  LaunchesOf(g)' = LaunchesOf(g)
  <2>1. ~MayRun(o, g) /\ ~MayRun(o, g)'
    BY <1>2 DEF MayRun, Busy
  <2>2. \A p \in Operators \ {o} : MayRun(p, g)' <=> MayRun(p, g)
    BY <1>1 DEF MayRun
  <2> QED
    BY <1>1, <1>2, <2>1, <2>2 DEF LaunchesOf, Existing, IsActive
<1> QED
  BY <1>3 DEF Raced

\* The cloud only takes instances away.
LEMMA CloudKeepsRaced ==
    ASSUME CloudType, OpType, Numbered, Raced, IsFiniteSet(Operators),
           Shrinks, UNCHANGED op
    PROVE  Raced'
<1>1. ASSUME NEW g \in Groups
      PROVE  LaunchesOf(g)' \subseteq LaunchesOf(g)
  BY DEF LaunchesOf, MayRun, Shrinks
<1> QED
  BY <1>1, FewerAreRaced DEF Raced

\* The invariant but for its last part, which needs finitely many operators.
NumbersInv == TypeInv /\ Numbered /\ Counted

\* At first there are no launches.
LEMMA InitIsCounted == Init => NumbersInv
<1> SUFFICES ASSUME Init PROVE NumbersInv
  OBVIOUS
<1>1. \A o \in Operators : op[o].pc = "idle" /\ op[o].launch = 0
  BY DEF Init, Idle
<1>2. Numbered
  BY <1>1 DEF Init, Numbered, LaunchPCs, NewPCs, GroupPCs, RunPCs
<1>3. \A g : Existing(g) = {}
  BY DEF Init, Existing, IsActive
<1>4. \A l \in Nat : Sizes[l] = 0
  BY <1>3, FS_EmptySet DEF Sizes, SlavesOf
<1>5. \A j \in Ids : launch[j] = 0
  BY DEF Init
<1>6. Counted
  BY <1>1, <1>3, <1>4, <1>5, LauncherAssumption DEF Counted
<1> QED
  BY <1>2, <1>6, InitHasType DEF NumbersInv

\* At first there is no launch.
LEMMA InitIsRaced == Init /\ IsFiniteSet(Operators) => RacesInv
<1> SUFFICES ASSUME Init, IsFiniteSet(Operators) PROVE RacesInv
  OBVIOUS
<1>1. ASSUME NEW g \in Groups
      PROVE  LaunchesOf(g) = {}
  BY DEF Init, Idle, LaunchesOf, Existing, IsActive, MayRun
<1>2. Cardinality(Operators) \in Nat
  BY FS_CardinalityType
<1>3. Raced
  BY <1>1, <1>2, FS_EmptySet DEF Raced
<1> QED
  BY <1>3, InitIsCounted DEF RacesInv, NumbersInv

\* Every step keeps the numbers and counts.
LEMMA NextKeepsNumbers == NumbersInv /\ [Next]_vars => NumbersInv'
<1> SUFFICES ASSUME NumbersInv, [Next]_vars PROVE NumbersInv'
  OBVIOUS
<1> USE DEF NumbersInv, TypeInv
<1>1. TypeInv'
  BY NextKeepsType
<1>2. ASSUME NEW o \in Operators, Step(o) \/ Crash(o)
      PROVE  Numbered' /\ Counted'
  BY <1>2, StepKeepsNumbers, QuietStepCounts, RunSlavesCounts, RunMasterCounts
<1>3. ASSUME NEW o \in Operators, NEW mode \in Commands, Begin(o, mode)
      PROVE  Numbered' /\ Counted'
  BY <1>3, BeginKeepsNumbers, BeginCounts
<1>4. ASSUME NEW i \in Ids, Complete(i) \/ BootFails(i)
      PROVE  Numbered' /\ Counted'
  <2>1. UNCHANGED <<launch, launches, op>>
    BY <1>4 DEF Complete, BootFails
  <2> QED
    BY <1>4, <2>1, CloudCounts DEF Numbered
<1>5. CASE UNCHANGED vars
  <2>1. /\ UNCHANGED <<group, state, launch, launches, op>>
        /\ Existing("master")' = Existing("master")
        /\ Sizes' = Sizes
    BY <1>5 DEF vars, cloudVars, Existing, IsActive, Sizes, SlavesOf
  <2>2. Numbered'
    BY <2>1 DEF Numbered
  <2>3. Counted'
    BY <2>1 DEF Counted
  <2> QED
    BY <1>1, <2>2, <2>3
<1> QED
  BY <1>1, <1>2, <1>3, <1>4, <1>5 DEF Next

\* Every step keeps the inductive invariant.
LEMMA NextIsRaced ==
    ASSUME IsFiniteSet(Operators), RacesInv, [Next]_vars
    PROVE  RacesInv'
<1> USE DEF RacesInv, NumbersInv, TypeInv
<1>1. NumbersInv'
  BY NextKeepsNumbers
<1>2. ASSUME NEW o \in Operators, Step(o) \/ Crash(o)
      PROVE  Raced'
  BY <1>2, StepKeepsRaced
<1>3. ASSUME NEW o \in Operators, NEW mode \in Commands, Begin(o, mode)
      PROVE  Raced'
  BY <1>3, BeginKeepsRaced
<1>4. ASSUME NEW i \in Ids, Complete(i) \/ BootFails(i)
      PROVE  Raced'
  BY <1>4, CloudShrinks, CloudKeepsRaced DEF Complete, BootFails
<1>5. CASE UNCHANGED vars
  <2>1. Shrinks /\ UNCHANGED op
    BY <1>5 DEF vars, cloudVars, Shrinks, Existing, IsActive
  <2> QED
    BY <1>1, <2>1, CloudKeepsRaced
<1> QED
  BY <1>1, <1>2, <1>3, <1>4, <1>5 DEF Next

\* A set of equal elements has at most one.
LEMMA EqualAreOne ==
    ASSUME NEW S, \A i, j \in S : i = j
    PROVE  IsFiniteSet(S) /\ Cardinality(S) \in {0, 1}
<1>1. CASE S = {}
  BY <1>1, FS_EmptySet
<1>2. CASE S # {}
  <2>1. PICK i : S = {i}
    BY <1>2
  <2> QED
    BY <2>1, FS_Singleton
<1> QED
  BY <1>1, <1>2

\* Taking turns, one invocation's worth of instances is all there is.
LEMMA TurnsAreLimited ==
    ASSUME Exclusive, NumbersInv, TurnsInv
    PROVE  SlaveLimit
<1>1. Cardinality(Existing("master")) <= 1
  BY EqualAreOne DEF TurnsInv, SingleMaster
<1>2. Cardinality(Existing("slaves")) <= Slaves
  <2>1. CASE Existing("slaves") = {}
    BY <2>1, FS_EmptySet, LauncherAssumption
  <2>2. CASE Existing("slaves") # {}
    <3>1. PICK i \in Existing("slaves") : TRUE
      BY <2>2
    <3>2. i \in Ids /\ launch[i] \in Nat
      BY DEF Existing, NumbersInv, TypeInv, CloudType
    <3>3. SlavesOf(launch[i]) = Existing("slaves")
      BY <3>1 DEF SlavesOf, TurnsInv, OneLaunch
    <3> QED
      BY <3>2, <3>3, SizesAreNumbers DEF NumbersInv, Counted
  <2> QED
    BY <2>1, <2>2
<1> QED
  BY <1>1, <1>2, LauncherAssumption DEF SlaveLimit

\* Not taking turns, it is one invocation's worth for each operator.
LEMMA RacesAreLimited ==
    ASSUME ~Exclusive, IsFiniteSet(Operators), RacesInv
    PROVE  SlaveLimit
<1> USE DEF RacesInv, TypeInv
<1>1. Cardinality(Operators) \in Nat
  BY FS_CardinalityType
<1>2. ASSUME NEW g \in Groups, NEW k \in Nat,
             \A l \in {launch[i] : i \in Existing(g)} :
                 Cardinality({i \in Existing(g) : launch[i] = l}) <= k
      PROVE  Cardinality(Existing(g)) <= Cardinality(Operators) * k
  <2> DEFINE L == {launch[i] : i \in Existing(g)}
  <2>1. L \in SUBSET LaunchesOf(g)
    BY DEF LaunchesOf
  <2>2. /\ IsFiniteSet(L) /\ Cardinality(L) \in Nat
        /\ Cardinality(L) <= Cardinality(LaunchesOf(g))
        /\ Cardinality(LaunchesOf(g)) \in Nat
    BY <2>1, LaunchesAreFinite, FS_Subset, FS_CardinalityType
  <2>3. Cardinality(L) <= Cardinality(Operators)
    BY <1>1, <2>2 DEF Raced
  <2>4. Existing(g) \in SUBSET Ids
    BY DEF Existing
  <2>5. IsFiniteSet(Existing(g)) /\ Cardinality(Existing(g)) \in Nat
    BY <2>4, LauncherAssumption, FS_Subset, FS_CardinalityType
  <2>6. \A i \in Existing(g) : launch[i] \in L
    OBVIOUS
  <2>7. Cardinality(Existing(g)) <= Cardinality(L) * k
    <3> HIDE DEF L
    <3>1. \A l \in L : Cardinality({i \in Existing(g) : launch[i] = l}) <= k
      BY <1>2 DEF L
    <3> QED
      BY <2>2, <2>5, <2>6, <3>1, SumOfParts
  <2> HIDE DEF L
  <2>8. Cardinality(L) * k <= Cardinality(Operators) * k
    BY <1>1, <2>2, <2>3
  <2> QED
    BY <1>1, <2>2, <2>5, <2>7, <2>8
<1>3. Cardinality(Existing("slaves")) <= Cardinality(Operators) * Slaves
  <2>1. ASSUME NEW l \in {launch[i] : i \in Existing("slaves")}
        PROVE  Cardinality({i \in Existing("slaves") : launch[i] = l}) <= Slaves
    <3>1. PICK j \in Ids : l = launch[j]
      BY DEF Existing
    <3>2. launch[j] \in Nat
      BY DEF CloudType
    <3> QED
      BY <3>1, <3>2, SizesAreNumbers DEF SlavesOf, Counted
  <2> QED
    BY <1>2, <2>1, LauncherAssumption DEF Groups
<1>4. Cardinality(Existing("master")) <= Cardinality(Operators)
  <2>1. ASSUME NEW l \in {launch[i] : i \in Existing("master")}
        PROVE  Cardinality({i \in Existing("master") : launch[i] = l}) <= 1
    <3>1. \A i, j \in {m \in Existing("master") : launch[m] = l} : i = j
      BY DEF Counted
    <3> QED
      BY <3>1, EqualAreOne
  <2>2. Cardinality(Existing("master")) <= Cardinality(Operators) * 1
    BY <1>2, <2>1 DEF Groups
  <2> QED
    BY <1>1, <2>2
<1> QED
  BY <1>3, <1>4 DEF SlaveLimit

\* However many operators launch at once, each adds at most one cluster to what
\* a single one would: the check of launch_cluster lets no more than one launch
\* per operator past an empty group, and an invocation asks for no more than
\* opts.slaves slaves, over its zones, and one master.
THEOREM InstancesAreLimited ==
    ASSUME Exclusive \/ IsFiniteSet(Operators)
    PROVE  Spec => []SlaveLimit
<1>1. CASE Exclusive
  <2>1. NumbersInv /\ TurnsInv => SlaveLimit
    BY <1>1, TurnsAreLimited
  <2>2. TurnsInv /\ [Next]_vars => TurnsInv'
    BY <1>1, NextIsSafe
  <2> QED
    BY <2>1, <2>2, InitIsSafe, InitIsCounted, NextKeepsNumbers, PTL DEF Spec
<1>2. CASE ~Exclusive /\ IsFiniteSet(Operators)
  <2>1. RacesInv => SlaveLimit
    BY <1>2, RacesAreLimited
  <2>2. RacesInv /\ [Next]_vars => RacesInv'
    BY <1>2, NextIsRaced
  <2>3. Init => RacesInv
    BY <1>2, InitIsRaced
  <2> QED
    BY <2>1, <2>2, <2>3, PTL DEF Spec
<1> QED
  BY <1>1, <1>2
=============================================================================
