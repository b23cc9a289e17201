------------------------------ MODULE MesosEuca ------------------------------
(***************************************************************************)
(* The life of a Mesos cluster as euca/mesos_euca.py and                   *)
(* euca/mesos_euca_emi.py drive it.  Both are copies of the Spark launcher *)
(* with ZooKeeper nodes beside the master and the slaves.  mesos_euca.py   *)
(* keeps the roles in three security groups; mesos_euca_emi.py, whose      *)
(* options --one-security-group and --cohost are on and cannot be turned   *)
(* off, runs several masters and puts every instance in one group.         *)
(*                                                                         *)
(* One operator drives the cluster with one of the two, an invocation      *)
(* after the other; SparkEuca has the races of several operators.          *)
(***************************************************************************)
EXTENDS Integers, FiniteSets, Sequences

CONSTANTS
    Ids,         \* instances the cloud can hold; with none left a run fails
    Slaves,      \* opts.slaves, the number of slaves to launch
    Zones,       \* number of availability zones get_zones returns
    MastersAsked,\* values of opts.ft, "Number of masters to run"
    ZooNum,      \* opts.zoo_num of mesos_euca_emi.py
    MaxLaunches  \* bound on the launches of a behaviour

ASSUME MesosAssumption ==
    /\ Ids \subseteq Nat /\ IsFiniteSet(Ids)
    /\ Slaves \in Nat \ {0} /\ Zones \in Nat \ {0}
    /\ MastersAsked \subseteq Nat \ {0}
    /\ ZooNum \in Nat \ {0}
    /\ MaxLaunches \in Nat

VARIABLES
    launcher,   \* the script that drives this cluster: "mesos" or "emi"
    groups,     \* security groups that exist
    rules,      \* rules[g]: kinds of rules of g, those that name groups as
                \* their source and those that open ports
    group,      \* group[i]: the group instance i was run in
    state,      \* state[i]: what the cloud says of instance i
    launch,     \* launch[i]: the launch that ran i (its reservation)
    launches,   \* launches begun so far
    op          \* the invocation that is running

instanceVars == <<group, state, launch>>
cloudVars == <<groups, rules, instanceVars>>
vars == <<launcher, cloudVars, launches, op>>

Groups == {"master", "slaves", "zoo", "group"}
RuleKinds == {"sources", "ports"}
States == {"none", "pending", "running", "stopping", "stopped",
           "shutting-down", "terminated"}
Modes == {"launch", "resume", "destroy", "stop", "start"}
PCs == {"idle", "groups", "authorize", "ports", "check", "image", "run_slaves",
        "run_masters", "run_zoos", "start", "wait", "attach", "key_master",
        "key_nodes", "packages", "deploy", "script", "find", "terminate",
        "revoke", "delete", "stop", "done"}

\* The local variables of an invocation that has not begun or has exited.
Idle == [pc |-> "idle", mode |-> "stop", ft |-> 1, n |-> 1, masters |-> {},
         slaves |-> {}, zoos |-> {}, todo |-> {}, names |-> {},
         success |-> TRUE, launch |-> 0]

Busy == op.pc # "idle"

\* is_active: stopped instances count, they can be started again.
IsActive(i) == state[i] \in {"pending", "running", "stopping", "stopped"}

\* One of the lists get_existing_cluster returns.
Existing(g) == {i \in Ids : IsActive(i) /\ group[i] = g}

\* The groups of a launcher, in the order they are made and authorized.
MesosGroups == <<"master", "slaves", "zoo">>
EmiGroups == <<"group">>
GroupsOf == IF launcher = "mesos" THEN MesosGroups ELSE EmiGroups

\* The group a role's instances are run in.
GroupOf(role) == IF launcher = "mesos" THEN role ELSE "group"

\* get_partition: how many of total slaves go to zone number i of num.
GetPartition(total, num, i) ==
    (total \div num) + (IF (total % num) - i > 0 THEN 1 ELSE 0)

\* How many masters a launch runs: mesos_euca.py always runs one.
MastersToRun(ft) == IF launcher = "mesos" THEN 1 ELSE ft

\* The ZooKeeper nodes mesos_euca.py runs, for more than one master asked.
MesosZoos(ft) == IF ft > 1 THEN 3 ELSE 0

\* The additional ZooKeeper nodes mesos_euca_emi.py runs, cohosted ensembles
\* being completed by the masters.  It may be zero or less.
EmiZoos(ft) == IF ft > 1 THEN ZooNum - ft ELSE ZooNum

\* master_nodes[0]: lists have some fixed order.
First(nodes) == CHOOSE i \in nodes : TRUE

\* The next node of a loop over list and then over the rest of todo.
NextOf(todo, list) == First(IF todo \cap list # {} THEN todo \cap list ELSE todo)

Nodes == op.masters \cup op.slaves \cup op.zoos

Free == {i \in Ids : state[i] = "none"}

\* The instances the cloud gives to a request for k; ids are given in order.
Allocation(k) ==
    {new \in SUBSET Free : /\ Cardinality(new) = k
                           /\ \A i \in new, j \in Free \ new : i < j}

-----------------------------------------------------------------------------
Init ==
    /\ launcher \in {"mesos", "emi"}
    /\ groups = {}
    /\ rules = [g \in Groups |-> {}]
    /\ group = [i \in Ids |-> "slaves"]
    /\ state = [i \in Ids |-> "none"]
    /\ launch = [i \in Ids |-> 0]
    /\ launches = 0
    /\ op = Idle

\* Control moves within the invocation, to the first round of a loop.
Goto(pc) == op' = [op EXCEPT !.pc = pc, !.n = 1]

\* The process ends: sys.exit, an uncaught exception or the last line.
Raises == op' = Idle /\ UNCHANGED <<launcher, cloudVars, launches>>

\* real_main: parse the action.  Only a launch gets as far as reading opts.ft.
Begin(mode, ft) ==
    /\ ~Busy
    /\ IF mode = "launch"
       THEN /\ launches < MaxLaunches
            /\ launches' = launches + 1
            /\ op' = [Idle EXCEPT !.pc = "groups", !.mode = mode, !.ft = ft,
                                  !.launch = launches + 1]
       ELSE /\ op' = [Idle EXCEPT !.pc = "find", !.mode = mode]
            /\ UNCHANGED launches
    /\ UNCHANGED <<launcher, cloudVars>>

-----------------------------------------------------------------------------
(* launch_cluster: security groups.                                        *)

\* The loop over the groups of the launcher goes on, or to the step pc.
NextGroup(loop, pc) ==
    IF op.n < Len(GroupsOf)
    THEN op' = [op EXCEPT !.n = @ + 1, !.pc = loop]
    ELSE Goto(pc)

\* get_or_make_group.
GetOrMakeGroup ==
    /\ op.pc = "groups"
    /\ groups' = groups \cup {GroupsOf[op.n]}
    /\ NextGroup("groups", "authorize")
    /\ UNCHANGED <<launcher, rules, instanceVars, launches>>

\* Mutant of AuthorizeSources: the rules of the first group tell for all.
AuthorizeSourcesByFirst ==
    /\ op.pc = "authorize"
    /\ IF rules[GroupsOf[1]] = {}
       THEN /\ rules' = [rules EXCEPT ![GroupsOf[op.n]] = {"sources"}]
            /\ op' = [op EXCEPT !.pc = "ports"]
       ELSE NextGroup("authorize", "check") /\ UNCHANGED rules
    /\ UNCHANGED <<launcher, groups, instanceVars, launches>>

\* A group without rules is one "just now created": first the rules with the
\* groups as their sources.
AuthorizeSources ==
    /\ op.pc = "authorize"
    /\ LET g == GroupsOf[op.n] IN
       IF rules[g] = {}
       THEN /\ rules' = [rules EXCEPT ![g] = {"sources"}]
            /\ op' = [op EXCEPT !.pc = "ports"]
       ELSE NextGroup("authorize", "check") /\ UNCHANGED rules
    /\ UNCHANGED <<launcher, groups, instanceVars, launches>>

\* Then the ports, those of ZooKeeper with the one group too (cohost).
AuthorizePorts ==
    /\ op.pc = "ports"
    /\ rules' = [rules EXCEPT ![GroupsOf[op.n]] = @ \cup {"ports"}]
    /\ NextGroup("authorize", "check")
    /\ UNCHANGED <<launcher, groups, instanceVars, launches>>

-----------------------------------------------------------------------------
(* launch_cluster: instances.                                              *)

\* mesos_euca.py: slaves, or masters without --use-existing-master, end the
\* launch.  ZooKeeper nodes do not.
MesosRefuses(useExisting) ==
    \/ Existing("slaves") # {}
    \/ Existing("master") # {} /\ ~useExisting

\* Mutant of EmiRefuses: grouped instances do not count.
EmiRefusesUngrouped(useExisting) == MesosRefuses(useExisting)

\* mesos_euca_emi.py: grouped instances end it as well.
EmiRefuses(useExisting) ==
    MesosRefuses(useExisting) \/ Existing("group") # {}

CheckExisting(useExisting) ==
    /\ op.pc = "check"
    /\ IF IF launcher = "mesos" THEN MesosRefuses(useExisting)
                                ELSE EmiRefuses(useExisting)
       THEN Raises
       ELSE /\ op' = [op EXCEPT !.masters = Existing("master"), !.pc = "image"]
            /\ UNCHANGED <<launcher, cloudVars, launches>>

\* The images of slaves, masters and ZooKeeper nodes are looked up and the
\* user data is read: each may fail.
ResolveImages ==
    /\ op.pc = "image"
    /\ \/ op' = [op EXCEPT !.pc = "run_slaves", !.n = 0]
       \/ op' = Idle
    /\ UNCHANGED <<launcher, cloudVars, launches>>

\* image.run: the cloud gives the pending instances new, all or none.
Run(role, new) ==
    /\ state' = [i \in Ids |-> IF i \in new THEN "pending" ELSE state[i]]
    /\ group' = [i \in Ids |-> IF i \in new THEN GroupOf(role) ELSE group[i]]
    /\ launch' = [i \in Ids |-> IF i \in new THEN op.launch ELSE launch[i]]
    /\ UNCHANGED <<launcher, groups, rules, launches>>

\* Mutant of RunSlaves: slave_nodes = where the code has +=.
RunSlavesLastZone ==
    /\ op.pc = "run_slaves"
    /\ \/ \E new \in Allocation(GetPartition(Slaves, Zones, op.n)) :
            /\ Run("slaves", new)
            /\ op' = [op EXCEPT
                !.slaves = new,
                !.n = @ + 1,
                !.todo = op.masters,
                !.pc = IF op.n + 1 < Zones THEN "run_slaves"
                       ELSE IF op.masters # {} THEN "start" ELSE "run_masters"]
       \/ Raises

\* The slaves of zone n; after the last zone the masters.
RunSlaves ==
    /\ op.pc = "run_slaves"
    /\ \/ \E new \in Allocation(GetPartition(Slaves, Zones, op.n)) :
            /\ Run("slaves", new)
            /\ op' = [op EXCEPT
                !.slaves = @ \cup new,
                !.n = @ + 1,
                !.todo = op.masters,
                !.pc = IF op.n + 1 < Zones THEN "run_slaves"
                       ELSE IF op.masters # {} THEN "start" ELSE "run_masters"]
       \/ Raises

RunMasters ==
    /\ op.pc = "run_masters"
    /\ \/ \E new \in Allocation(MastersToRun(op.ft)) :
            /\ Run("master", new)
            /\ op' = [op EXCEPT !.masters = new, !.pc = "run_zoos"]
       \/ Raises

\* mesos_euca.py runs its ensemble in one call, or none at all.
RunMesosZoos ==
    /\ op.pc = "run_zoos" /\ launcher = "mesos"
    /\ \/ \E new \in Allocation(MesosZoos(op.ft)) :
            /\ Run("zoo", new)
            /\ op' = [op EXCEPT !.zoos = new, !.pc = "wait", !.n = 1]
       \/ MesosZoos(op.ft) > 0 /\ Raises

\* mesos_euca_emi.py compares a string with zero, which is always greater: the
\* call is made also for no nodes, which a cloud may refuse, and for less.
RunEmiZoos ==
    /\ op.pc = "run_zoos" /\ launcher = "emi"
    /\ \/ /\ EmiZoos(op.ft) >= 0
          /\ \E new \in Allocation(EmiZoos(op.ft)) :
                /\ Run("zoo", new)
                /\ op' = [op EXCEPT !.zoos = new, !.pc = "wait", !.n = 1]
       \/ Raises

\* The next of the slaves, the masters and the ZooKeeper nodes to start; a
\* launch starts the existing masters only.
StartNode ==
    /\ op.pc = "start" /\ op.todo # {}
    /\ LET i == NextOf(op.todo, IF op.todo \cap op.slaves # {} THEN op.slaves
                                ELSE op.masters) IN
       IF state[i] \in {"stopped", "pending", "running"}
       THEN /\ state' = [state EXCEPT ![i] = IF @ = "stopped" THEN "pending" ELSE @]
            /\ op' = [op EXCEPT !.todo = @ \ {i}]
            /\ UNCHANGED <<launcher, groups, rules, group, launch, launches>>
       ELSE Raises

\* A launch goes on with the ZooKeeper nodes, a start waits for the cluster.
Started ==
    /\ op.pc = "start" /\ op.todo = {}
    /\ Goto(IF op.mode = "launch" THEN "run_zoos" ELSE "wait")
    /\ UNCHANGED <<launcher, cloudVars, launches>>

-----------------------------------------------------------------------------
(* wait_for_cluster, attach_volumes.                                       *)

\* Mutant of Settled: wait until all run.
SettledIfRunning(nodes) == \A i \in nodes : state[i] = "running"

\* wait_for_instances: none is pending.
Settled(nodes) == \A i \in nodes : state[i] # "pending"

\* Mutant of WaitedFor: the ZooKeeper nodes are not waited for.
WaitedForWithoutZoos(n) == IF n = 1 THEN op.masters ELSE op.slaves

\* The lists wait_for_cluster goes through.
WaitedFor(n) == IF n = 1 THEN op.masters ELSE IF n = 2 THEN op.slaves ELSE op.zoos

\* Only a launch attaches volumes, to the masters and then to the slaves.
WaitForCluster(volumes) ==
    /\ op.pc = "wait"
    /\ Settled(WaitedFor(op.n))
    /\ IF op.n < 3 THEN op' = [op EXCEPT !.n = @ + 1]
       ELSE op' = [op EXCEPT
            !.n = 1,
            !.todo = IF op.mode = "launch" /\ volumes
                     THEN op.masters \cup op.slaves ELSE {},
            !.pc = IF op.mode = "launch" THEN "attach" ELSE "packages"]
    /\ UNCHANGED <<launcher, cloudVars, launches>>

\* The volume is made and attached, or the cloud refuses: the instance does not
\* run, or has a volume at /dev/vdb already (--use-existing-master).
AttachVolume ==
    /\ op.pc = "attach" /\ op.todo # {}
    /\ LET i == NextOf(op.todo, op.masters) IN
       \/ /\ state[i] = "running"
          /\ op' = [op EXCEPT !.todo = @ \ {i}]
          /\ UNCHANGED <<launcher, cloudVars, launches>>
       \/ Raises

VolumesAttached ==
    /\ op.pc = "attach" /\ op.todo = {}
    /\ Goto("key_master")
    /\ UNCHANGED <<launcher, cloudVars, launches>>

-----------------------------------------------------------------------------
(* setup_cluster.  ssh, ssh_read and ssh_write end the invocation when the *)
(* node does not answer, after their retries, or the command fails.        *)

\* The nodes beside the first master that get its key: not the ZooKeeper nodes
\* of mesos_euca.py.
KeyedWith == IF launcher = "mesos" THEN op.slaves ELSE Nodes

\* Without a master master_nodes[0] raises: --resume of a grouped cluster.
KeyMaster ==
    /\ op.pc = "key_master"
    /\ IF op.masters # {} /\ state[First(op.masters)] = "running"
       THEN /\ op' = [op EXCEPT !.todo = KeyedWith, !.pc = "key_nodes"]
            /\ UNCHANGED <<launcher, cloudVars, launches>>
       ELSE Raises

KeyNode ==
    /\ op.pc = "key_nodes" /\ op.todo # {}
    /\ LET i == NextOf(op.todo, op.masters) IN
       IF state[i] = "running"
       THEN /\ op' = [op EXCEPT !.todo = @ \ {i}]
            /\ UNCHANGED <<launcher, cloudVars, launches>>
       ELSE Raises

NodesKeyed ==
    /\ op.pc = "key_nodes" /\ op.todo = {}
    /\ Goto("packages")
    /\ UNCHANGED <<launcher, cloudVars, launches>>

\* mesos_euca.py: packages, and the JDK is moved, which fails on a master that
\* was set up before (see SparkEuca).
InstallPackages ==
    /\ op.pc = "packages" /\ launcher = "mesos"
    /\ \/ /\ state[First(op.masters)] = "running"
          /\ Goto("deploy")
          /\ UNCHANGED <<launcher, cloudVars, launches>>
       \/ Raises

\* mesos_euca_emi.py: git, and a clone made on the operator's machine.
CopyRepository ==
    /\ op.pc = "packages" /\ launcher = "emi"
    /\ \/ /\ state[First(op.masters)] = "running"
          /\ Goto("deploy")
          /\ UNCHANGED <<launcher, cloudVars, launches>>
       \/ Raises

\* deploy_files: the lists of nodes of this invocation go to the first master.
Deploys ==
    IF state[First(op.masters)] = "running"
    THEN Goto("script") /\ UNCHANGED <<launcher, cloudVars, launches>>
    ELSE Raises

DeployMesosFiles ==
    /\ op.pc = "deploy" /\ launcher = "mesos"
    /\ Deploys

\* mesos_euca_emi.py takes its standby name node from the second master; with
\* one master asked for, the variable is not bound, with one there, an index.
DeployEmiFiles ==
    /\ op.pc = "deploy" /\ launcher = "emi"
    /\ IF op.ft > 1 /\ Cardinality(op.masters) > 1 THEN Deploys ELSE Raises

\* setup.sh or setup-mesos.sh by opts.installation_type; the Mesos types of
\* mesos_euca_emi.py run setup-mesos2.sh, which this repository does not hold.
RunSetupScript ==
    /\ op.pc = "script"
    /\ \/ state[First(op.masters)] = "running" /\ Goto("done")
       \/ op' = Idle
    /\ UNCHANGED <<launcher, cloudVars, launches>>

-----------------------------------------------------------------------------
(* resume, destroy, stop and start find the cluster first.                 *)

\* Mutant of FindMesosCluster: destroy goes where its name says.
FindMesosClusterByMode ==
    /\ op.pc = "find" /\ launcher = "mesos"
    /\ IF Existing("master") = {} /\ op.mode \in {"resume", "start"}
       THEN Raises
       ELSE /\ op' = [op EXCEPT !.masters = Existing("master"),
                                !.pc = IF op.mode = "resume" THEN "key_master"
                                       ELSE op.mode]
            /\ UNCHANGED <<launcher, cloudVars, launches>>

\* get_existing_cluster of mesos_euca.py: without a master only destroy and
\* stop go on.  A start begins with the slaves, a stop leaves out the
\* ZooKeeper nodes.
FindMesosCluster ==
    /\ op.pc = "find" /\ launcher = "mesos"
    /\ IF Existing("master") = {} /\ op.mode \in {"resume", "start"}
       THEN Raises
       ELSE /\ op' = [op EXCEPT
                !.masters = Existing("master"),
                !.slaves = Existing("slaves"),
                !.zoos = Existing("zoo"),
                !.todo = Existing("master") \cup Existing("slaves")
                         \cup (IF op.mode = "stop" THEN {} ELSE Existing("zoo")),
                !.pc = IF op.mode = "resume" THEN "key_master"
                       ELSE IF op.mode = "destroy" THEN "terminate"
                       ELSE op.mode]
            /\ UNCHANGED <<launcher, cloudVars, launches>>

\* Mutant of FindEmiCluster: the grouped instances are not terminated.
FindEmiClusterUngrouped ==
    /\ op.pc = "find" /\ launcher = "emi"
    /\ IF op.mode \in {"stop", "start"}
       THEN Raises
       ELSE /\ op' = [op EXCEPT !.masters = Existing("master"),
                                !.slaves = Existing("slaves"),
                                !.zoos = Existing("zoo"),
                                !.todo = {},
                                !.pc = IF op.mode = "resume" THEN "key_master"
                                       ELSE "terminate"]
            /\ UNCHANGED <<launcher, cloudVars, launches>>

\* get_existing_cluster of mesos_euca_emi.py returns four lists.  login,
\* get-master, stop and start unpack three, and raise.
FindEmiCluster ==
    /\ op.pc = "find" /\ launcher = "emi"
    /\ IF op.mode \in {"stop", "start"}
       THEN Raises
       ELSE /\ op' = [op EXCEPT !.masters = Existing("master"),
                                !.slaves = Existing("slaves"),
                                !.zoos = Existing("zoo"),
                                !.todo = UNION {Existing(g) : g \in Groups},
                                !.pc = IF op.mode = "resume" THEN "key_master"
                                       ELSE "terminate"]
            /\ UNCHANGED <<launcher, cloudVars, launches>>

\* stop: the masters first.
StopNode ==
    /\ op.pc = "stop" /\ op.todo # {}
    /\ LET i == NextOf(op.todo, op.masters) IN
       IF state[i] \in {"running", "stopping", "stopped"}
       THEN /\ state' = [state EXCEPT ![i] = IF @ = "running" THEN "stopping" ELSE @]
            /\ op' = [op EXCEPT !.todo = @ \ {i}]
            /\ UNCHANGED <<launcher, groups, rules, group, launch, launches>>
       ELSE Raises

Stopped ==
    /\ op.pc = "stop" /\ op.todo = {}
    /\ Goto("done")
    /\ UNCHANGED <<launcher, cloudVars, launches>>

\* destroy: masters, slaves, ZooKeeper nodes, grouped instances.
TerminateNode ==
    /\ op.pc = "terminate" /\ op.todo # {}
    /\ LET i == NextOf(op.todo, IF op.todo \cap op.masters # {} THEN op.masters
                                ELSE op.slaves) IN
       /\ state' = [state EXCEPT ![i] = IF @ = "terminated" THEN @
                                        ELSE "shutting-down"]
       /\ op' = [op EXCEPT !.todo = @ \ {i}]
    /\ UNCHANGED <<launcher, groups, rules, group, launch, launches>>

\* The groups destroy --delete-groups deletes: mesos_euca.py forgets its third.
MesosGroupNames == {"master", "slaves"}
EmiGroupNames == {"master", "slaves", "zoo", "group"}
GroupNames == IF launcher = "mesos" THEN MesosGroupNames ELSE EmiGroupNames

\* Attempt number n, on the groups that are still there.
Attempt(n) ==
    op' = [op EXCEPT !.n = n, !.success = TRUE, !.pc = "revoke",
                     !.names = groups \cap GroupNames]

Terminated(deleteGroups) ==
    /\ op.pc = "terminate" /\ op.todo = {}
    /\ IF deleteGroups THEN Attempt(1)
       ELSE op' = [op EXCEPT !.pc = "done", !.success = FALSE]
    /\ UNCHANGED <<launcher, cloudVars, launches>>

\* The rules of all the groups are revoked; revoke says True whether or not it
\* deleted the rule.
RevokeRules ==
    /\ op.pc = "revoke"
    /\ \E left \in [op.names -> SUBSET RuleKinds] :
        /\ \A g \in op.names : left[g] \subseteq rules[g]
        /\ rules' = [g \in Groups |-> IF g \in op.names THEN left[g] ELSE rules[g]]
    /\ op' = [op EXCEPT !.pc = "delete"]
    /\ UNCHANGED <<launcher, groups, instanceVars, launches>>

\* The cloud deletes a group that no instance and no other group's rule needs.
\* The rules of each of the three groups name all three.
Deletable(g) ==
    /\ \A i \in Ids : group[i] = g => state[i] \in {"none", "terminated"}
    /\ \A h \in groups \ {g} : "sources" \notin rules[h]

DeleteGroup(g) ==
    /\ op.pc = "delete" /\ g \in op.names
    /\ IF Deletable(g)
       THEN /\ groups' = groups \ {g}
            /\ rules' = [rules EXCEPT ![g] = {}]
            /\ op' = [op EXCEPT !.names = @ \ {g}]
       ELSE /\ op' = [op EXCEPT !.names = @ \ {g}, !.success = FALSE]
            /\ UNCHANGED <<groups, rules>>
    /\ UNCHANGED <<launcher, instanceVars, launches>>

\* Up to three attempts.
AttemptEnds ==
    /\ op.pc = "delete" /\ op.names = {}
    /\ IF ~op.success /\ op.n < 3 THEN Attempt(op.n + 1) ELSE Goto("done")
    /\ UNCHANGED <<launcher, cloudVars, launches>>

Exit == op.pc = "done" /\ Raises

-----------------------------------------------------------------------------
(* What is not the launcher's choice.                                      *)

\* Ctrl-C, a lost connection to the cloud, the operator's machine.
Crash == Busy /\ Raises

\* Nothing depends any more on where a terminated instance came from.
Vanish(i) ==
    /\ state' = [state EXCEPT ![i] = "terminated"]
    /\ group' = [group EXCEPT ![i] = "slaves"]
    /\ launch' = [launch EXCEPT ![i] = 0]

\* A transition of instance i that the cloud completes by itself.
Complete(i) ==
    /\ \/ /\ state[i] \in {"pending", "stopping"}
          /\ state' = [state EXCEPT ![i] = IF @ = "pending" THEN "running"
                                           ELSE "stopped"]
          /\ UNCHANGED <<group, launch>>
       \/ state[i] = "shutting-down" /\ Vanish(i)
    /\ UNCHANGED <<launcher, groups, rules, launches, op>>

BootFails(i) ==
    /\ state[i] = "pending"
    /\ Vanish(i)
    /\ UNCHANGED <<launcher, groups, rules, launches, op>>

Launching ==
    \/ GetOrMakeGroup \/ AuthorizeSources \/ AuthorizePorts
    \/ \E use \in BOOLEAN : CheckExisting(use)
    \/ ResolveImages \/ RunSlaves \/ RunMasters \/ RunMesosZoos \/ RunEmiZoos

SettingUp ==
    \/ StartNode \/ Started \/ (\E volumes \in BOOLEAN : WaitForCluster(volumes))
    \/ AttachVolume \/ VolumesAttached
    \/ KeyMaster \/ KeyNode \/ NodesKeyed \/ InstallPackages \/ CopyRepository
    \/ DeployMesosFiles \/ DeployEmiFiles \/ RunSetupScript

Ending ==
    \/ FindMesosCluster \/ FindEmiCluster \/ StopNode \/ Stopped \/ TerminateNode
    \/ \E delete \in BOOLEAN : Terminated(delete)
    \/ RevokeRules \/ (\E g \in Groups : DeleteGroup(g)) \/ AttemptEnds
    \/ Exit

Step == Launching \/ SettingUp \/ Ending

Next ==
    \/ \E mode \in Modes, ft \in MastersAsked : Begin(mode, ft)
    \/ Step \/ Crash
    \/ \E i \in Ids : Complete(i) \/ BootFails(i)

Spec == Init /\ [][Next]_vars

-----------------------------------------------------------------------------
(* Properties.                                                             *)

Invocation == [pc : PCs, mode : Modes, ft : Nat, n : Nat, masters : SUBSET Ids,
               slaves : SUBSET Ids, zoos : SUBSET Ids, todo : SUBSET Ids,
               names : SUBSET Groups, success : BOOLEAN, launch : Nat]

\* Every variable has its type: the cloud's state, the invocation.
TypeOK ==
    /\ launcher \in {"mesos", "emi"}
    /\ groups \subseteq Groups
    /\ rules \in [Groups -> SUBSET RuleKinds]
    /\ group \in [Ids -> Groups]
    /\ state \in [Ids -> States]
    /\ launch \in [Ids -> Nat]
    /\ launches \in Nat
    /\ op \in Invocation

\* "Fails if there already instances running in the cluster's groups", as far as
\* it is so: the active slaves, and with one group all active instances, are of
\* one launch, and there is one active master in a group for masters, whatever
\* was interrupted, failed to boot or was half destroyed before.
OneLaunch ==
    /\ \A g \in {"slaves", "group"} :
        \A i, j \in Existing(g) : launch[i] = launch[j]
    /\ \A i, j \in Existing("master") : i = j

\* An invocation that reports "Done!" has all the active instances but the
\* ZooKeeper nodes in the lists it deployed: none is paid for and unused.
NoStrayNode ==
    op.pc = "done" /\ op.mode \in {"launch", "resume", "start"} =>
        \A g \in Groups \ {"zoo"} : Existing(g) \subseteq Nodes

\* A destroy that ends leaves no active instance in any group, and deleted the
\* groups it set out to delete if it says so, although deletes may fail, revokes
\* may do nothing and only what is left is tried again.
DestroyIsComplete ==
    op.pc = "done" /\ op.mode = "destroy" =>
        /\ \A g \in Groups : Existing(g) = {}
        /\ op.success => groups \cap GroupNames = {}

\* A launch runs no instance while one of its groups has no rules, although failed
\* deletes, revokes that did nothing and interruptions leave it any mixture of
\* missing, empty, partly revoked and complete groups to start from.  That the rules
\* are complete is not promised: a group that has some is taken as it is.
NoBareGroups ==
    op.pc \in {"run_slaves", "run_masters", "run_zoos"} =>
        \A n \in DOMAIN GroupsOf : rules[GroupsOf[n]] # {}

\* Volumes and setup wait for every node to have left pending, the ZooKeeper
\* nodes too, also for a start of which some nodes were running all the time.
SetupAfterBoot ==
    op.mode \in {"launch", "start"} /\ op.pc \in {"attach", "key_master", "key_nodes",
                                                  "packages", "deploy", "script"} =>
        Settled(Nodes)

\* An invocation never waits for something that cannot come: it can go on, or an
\* instance it waits for is still booting.
NeverStuck == Busy => ENABLED Step \/ \E i \in Nodes : state[i] = "pending"

-----------------------------------------------------------------------------
(* The groups, as Pool has them.                                           *)

\* All the instances mesos_euca_emi.py runs for ft masters.
EmiNodes(ft) == Slaves + ft + (IF EmiZoos(ft) > 0 THEN EmiZoos(ft) ELSE 0)

\* The instances a launch that is past the check has yet to run in each group.
SlavesDue ==
    IF launcher = "mesos" /\ op.pc \in {"image", "run_slaves"}
    THEN Slaves - Cardinality(op.slaves) ELSE 0

MastersDue ==
    IF launcher = "mesos" /\ op.pc \in {"image", "run_slaves", "run_masters"}
       /\ op.masters = {}
    THEN 1 ELSE 0

GroupDue ==
    IF launcher = "emi" /\ op.pc \in {"image", "run_slaves", "run_masters", "run_zoos"}
    THEN EmiNodes(op.ft) - Cardinality(op.slaves) - Cardinality(op.masters) ELSE 0

SlavesPool == INSTANCE Pool WITH
    members <- Existing("slaves"), due <- SlavesDue, Sizes <- {Slaves}

MastersPool == INSTANCE Pool WITH
    members <- Existing("master"), due <- MastersDue, Sizes <- {1}

GroupPool == INSTANCE Pool WITH
    members <- Existing("group"), due <- GroupDue,
    Sizes <- {EmiNodes(ft) : ft \in MastersAsked}

\* A launch fills the groups as if its check and its runs were one reservation:
\* it starts from groups that are empty (the master's also, unless it takes the
\* master over), and in all runs at most what was asked for, also when instances
\* are lost between its calls.  The group for ZooKeeper nodes of mesos_euca.py is
\* not among them: its launches do not look at it.
FillsPools == SlavesPool!Spec /\ MastersPool!Spec /\ GroupPool!Spec

=============================================================================
