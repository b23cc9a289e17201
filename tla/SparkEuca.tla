------------------------------ MODULE SparkEuca ------------------------------
(***************************************************************************)
(* The life of a standalone Spark cluster on a Eucalyptus cloud, as        *)
(* euca/spark_euca.py drives it.  Each operator runs one invocation of the *)
(* launcher at a time; an invocation is a sequence of calls to the cloud   *)
(* or, over ssh, to a node, and between two calls the cloud, the other     *)
(* operators and the operator's Ctrl-C may act.  The launcher keeps        *)
(* nothing on disk: what survives an invocation is the state of the cloud  *)
(* (security groups, instances, volumes) and of the nodes' disks.          *)
(***************************************************************************)
EXTENDS Integers, FiniteSets

CONSTANTS
    Operators,   \* people or scripts that may run the launcher
    Ids,         \* instances the cloud can hold; with none left a run fails
    Slaves,      \* opts.slaves, the number of slaves to launch
    Zones,       \* number of availability zones get_zones returns
    NumRules,    \* authorize() calls that complete one security group
    MaxLaunches, \* bound on the launches of a behaviour
    Commands,    \* what the operators ask for: actions of the command line
    Volumes,     \* TRUE iff opts.vol_size > 0
    Exclusive,   \* TRUE iff operators take turns
    MayCrash,    \* TRUE iff an invocation may be interrupted anywhere
    MayFail      \* TRUE iff instances fail to boot, images are missing, revokes do nothing

ASSUME LauncherAssumption ==
    /\ Ids \subseteq Nat /\ IsFiniteSet(Ids)
    /\ Slaves \in Nat \ {0} /\ Zones \in Nat \ {0} /\ NumRules \in Nat \ {0}
    /\ MaxLaunches \in Nat
    /\ Commands \subseteq {"launch", "resume", "destroy", "stop", "start"}
    /\ {Volumes, Exclusive, MayCrash, MayFail} \subseteq BOOLEAN

VARIABLES
    groups,     \* security groups that exist
    rules,      \* rules[g]: rules of group g, numbered in authorize() order
    group,      \* group[i]: the group instance i was run in
    state,      \* state[i]: what the cloud says of instance i
    launch,     \* launch[i]: the launch that ran i (its reservation)
    attached,   \* instances with a volume at /dev/vdb
    keyed,      \* instances that hold the cluster's ssh key
    provisioned,\* instances whose JDK is at /usr/lib/jvm/java-1.7.0
    slaveFile,  \* slaveFile[i]: spark-euca/slaves on instance i
    launches,   \* launches begun so far
    op          \* op[o]: the invocation operator o is running

cloudVars == <<groups, rules, group, state, launch>>
nodeVars == <<attached, keyed, provisioned, slaveFile>>
vars == <<cloudVars, nodeVars, launches, op>>

Groups == {"master", "slaves"}
States == {"none", "pending", "running", "stopping", "stopped",
           "shutting-down", "terminated"}
Modes == {"launch", "resume", "destroy", "stop", "start"}
PCs == {"idle", "lookup", "create", "authorize", "check", "image", "run_slaves",
        "run_master", "start", "wait_masters", "wait_slaves", "attach",
        "key_master", "key_slaves", "packages", "deploy", "script", "find",
        "terminate", "revoke", "delete", "stop", "done"}

\* The local variables of an invocation that has not begun or has exited.
Idle == [pc |-> "idle", mode |-> "stop", turn |-> "master", n |-> 0,
         fresh |-> {}, masters |-> {}, slaves |-> {}, todo |-> {},
         names |-> {}, grants |-> {}, success |-> TRUE, launch |-> 0]

Busy(o) == op[o].pc # "idle"

\* is_active: stopping and stopped count, a stopped cluster can be restarted.
IsActive(i) == state[i] \in {"pending", "running", "stopping", "stopped"}

\* One of the two lists get_existing_cluster returns.
Existing(g) == {i \in Ids : IsActive(i) /\ group[i] = g}

\* Mutant of GetPartition: every zone gets the larger share.
GetPartitionRoundsUp(total, num, i) ==
    (total \div num) + (IF (total % num) - i >= 0 THEN 1 ELSE 0)

\* get_partition: how many of total slaves go to zone number i of num.
GetPartition(total, num, i) ==
    (total \div num) + (IF (total % num) - i > 0 THEN 1 ELSE 0)

\* master_nodes[0], or the next node of a loop: lists have some fixed order.
First(nodes) == CHOOSE i \in nodes : TRUE

Free == {i \in Ids : state[i] = "none"}

\* The instances the cloud gives to a request for k; ids are given in order.
Allocation(k) ==
    {new \in SUBSET Free : /\ Cardinality(new) = k
                           /\ \A i \in new, j \in Free \ new : i < j}

\* The next node of a loop over list and then over the rest of todo.
NextOf(todo, list) == First(IF todo \cap list # {} THEN todo \cap list ELSE todo)

-----------------------------------------------------------------------------
Init ==
    /\ groups = {}
    /\ rules = [g \in Groups |-> {}]
    /\ group = [i \in Ids |-> "slaves"]
    /\ state = [i \in Ids |-> "none"]
    /\ launch = [i \in Ids |-> 0]
    /\ attached = {}
    /\ keyed = {}
    /\ provisioned = {}
    /\ slaveFile = [i \in Ids |-> {}]
    /\ launches = 0
    /\ op = [o \in Operators |-> Idle]

\* Control moves within an invocation of o.
Goto(o, pc) == op' = [op EXCEPT ![o].pc = pc]

\* The process of o ends: sys.exit, an uncaught exception or the last line.
Exits(o) == op' = [op EXCEPT ![o] = Idle]

\* A call that raises: nothing but the invocation changes.
Raises(o) == Exits(o) /\ UNCHANGED <<cloudVars, nodeVars, launches>>

\* real_main: parse the action.  launch begins with the security groups,
\* launch --resume, destroy, stop and start with get_existing_cluster.
Begin(o, mode) ==
    /\ ~Busy(o)
    /\ Exclusive => \A p \in Operators : ~Busy(p)
    /\ IF mode = "launch"
       THEN /\ launches < MaxLaunches
            /\ launches' = launches + 1
            /\ op' = [op EXCEPT ![o] = [Idle EXCEPT !.pc = "lookup",
                                                    !.mode = mode,
                                                    !.launch = launches + 1]]
       ELSE /\ op' = [op EXCEPT ![o] = [Idle EXCEPT !.pc = "find",
                                                    !.mode = mode]]
            /\ UNCHANGED launches
    /\ UNCHANGED <<cloudVars, nodeVars>>

-----------------------------------------------------------------------------
(* launch_cluster: security groups.                                        *)

\* After the group whose turn it is: the other group, then the rules.
AfterGroup(o, fresh) ==
    op' = [op EXCEPT ![o].fresh = fresh,
                     ![o].turn = IF @ = "master" THEN "slaves" ELSE "master",
                     ![o].pc = IF op[o].turn = "master" THEN "lookup"
                               ELSE "authorize"]

\* Mutant of LookupGroup: only a group made by this launch gets rules.
LookupGroupTrustsRules(o) ==
    /\ op[o].pc = "lookup"
    /\ IF op[o].turn \in groups THEN AfterGroup(o, op[o].fresh)
       ELSE Goto(o, "create")
    /\ UNCHANGED <<cloudVars, nodeVars, launches>>

\* get_or_make_group, the query.  The group object is a snapshot: rules == []
\* is decided by what the query returned.
LookupGroup(o) ==
    /\ op[o].pc = "lookup"
    /\ LET g == op[o].turn IN
       IF g \in groups
       THEN AfterGroup(o, op[o].fresh \cup (IF rules[g] = {} THEN {g} ELSE {}))
       ELSE Goto(o, "create")
    /\ UNCHANGED <<cloudVars, nodeVars, launches>>

\* get_or_make_group, create_security_group: an error if the name is taken.
CreateGroup(o) ==
    /\ op[o].pc = "create"
    /\ op[o].turn \notin groups
    /\ groups' = groups \cup {op[o].turn}
    /\ rules' = [rules EXCEPT ![op[o].turn] = {}]
    /\ AfterGroup(o, op[o].fresh \cup {op[o].turn})
    /\ UNCHANGED <<group, state, launch, nodeVars, launches>>

CreateGroupFails(o) ==
    /\ op[o].pc = "create"
    /\ op[o].turn \in groups
    /\ Raises(o)

\* Mutant of Authorize: one call too many.
AuthorizeTooMany(o) ==
    /\ op[o].pc = "authorize"
    /\ LET g == op[o].turn
           r == op[o].n + 1
       IN /\ g \in op[o].fresh /\ op[o].n <= NumRules
          /\ g \in groups /\ r \notin rules[g]
          /\ rules' = [rules EXCEPT ![g] = @ \cup {r}]
          /\ op' = [op EXCEPT ![o].n = r]
    /\ UNCHANGED <<groups, group, state, launch, nodeVars, launches>>

\* The authorize() calls on a group whose rules were [], one rule at a time.
Authorize(o) ==
    /\ op[o].pc = "authorize"
    /\ LET g == op[o].turn
           r == op[o].n + 1
       IN /\ g \in op[o].fresh /\ op[o].n < NumRules
          /\ g \in groups /\ r \notin rules[g]
          /\ rules' = [rules EXCEPT ![g] = @ \cup {r}]
          /\ op' = [op EXCEPT ![o].n = r]
    /\ UNCHANGED <<groups, group, state, launch, nodeVars, launches>>

\* The group is gone, or has the rule already: EC2ResponseError.
AuthorizeFails(o) ==
    /\ op[o].pc = "authorize"
    /\ op[o].turn \in op[o].fresh /\ op[o].n < NumRules
    /\ op[o].turn \in groups => op[o].n + 1 \in rules[op[o].turn]
    /\ Raises(o)

GroupAuthorized(o) ==
    /\ op[o].pc = "authorize"
    /\ op[o].turn \in op[o].fresh => op[o].n = NumRules
    /\ op' = [op EXCEPT ![o].n = 0, ![o].turn = "slaves",
                        ![o].pc = IF op[o].turn = "master" THEN "authorize"
                                  ELSE "check"]
    /\ UNCHANGED <<cloudVars, nodeVars, launches>>

-----------------------------------------------------------------------------
(* launch_cluster: instances.                                              *)

\* Mutants of CheckExisting: only the masters are looked at; the masters found
\* are not kept for the rest of the launch.
CheckExistingMasters(o, useExisting) ==
    /\ op[o].pc = "check"
    /\ useExisting \/ Existing("master") = {}
    /\ op' = [op EXCEPT ![o].masters = Existing("master"),
                        ![o].pc = "image"]
    /\ UNCHANGED <<cloudVars, nodeVars, launches>>

CheckExistingForgets(o, useExisting) ==
    /\ op[o].pc = "check"
    /\ Existing("slaves") = {}
    /\ useExisting \/ Existing("master") = {}
    /\ Goto(o, "image")
    /\ UNCHANGED <<cloudVars, nodeVars, launches>>

\* Instances in the groups end the launch, unless they are masters only and
\* --use-existing-master was given.
CheckExisting(o, useExisting) ==
    /\ op[o].pc = "check"
    /\ Existing("slaves") = {}
    /\ useExisting \/ Existing("master") = {}
    /\ op' = [op EXCEPT ![o].masters = Existing("master"),
                        ![o].pc = "image"]
    /\ UNCHANGED <<cloudVars, nodeVars, launches>>

RefuseLaunch(o, useExisting) ==
    /\ op[o].pc = "check"
    /\ \/ Existing("slaves") # {}
       \/ ~useExisting /\ Existing("master") # {}
    /\ Raises(o)

\* get_spark_ami, get_all_images and open(opts.user_data_file) may all fail.
ResolveImage(o) ==
    /\ op[o].pc = "image"
    /\ \/ Goto(o, "run_slaves")
       \/ MayFail /\ Exits(o)
    /\ UNCHANGED <<cloudVars, nodeVars, launches>>

\* image.run: the cloud gives k pending instances in group g, all or none.
Run(o, g, new) ==
    /\ new # {} => g \in groups
    /\ state' = [i \in Ids |-> IF i \in new THEN "pending" ELSE state[i]]
    /\ group' = [i \in Ids |-> IF i \in new THEN g ELSE group[i]]
    /\ launch' = [i \in Ids |-> IF i \in new THEN op[o].launch ELSE launch[i]]
    /\ UNCHANGED <<groups, rules, nodeVars, launches>>

\* Mutant of RunSlaves: slave_nodes = where the code has +=.
RunSlavesLastZone(o) ==
    /\ op[o].pc = "run_slaves"
    /\ \E new \in Allocation(GetPartition(Slaves, Zones, op[o].n)) :
        /\ Run(o, "slaves", new)
        /\ op' = [op EXCEPT
            ![o].slaves = new,
            ![o].n = @ + 1,
            ![o].todo = op[o].masters,
            ![o].pc = IF op[o].n + 1 < Zones THEN "run_slaves"
                      ELSE IF op[o].masters # {} THEN "start"
                      ELSE "run_master"]

\* The slaves of zone n; after the last zone the masters.
RunSlaves(o) ==
    /\ op[o].pc = "run_slaves"
    /\ \E new \in Allocation(GetPartition(Slaves, Zones, op[o].n)) :
        /\ Run(o, "slaves", new)
        /\ op' = [op EXCEPT
            ![o].slaves = @ \cup new,
            ![o].n = @ + 1,
            ![o].todo = op[o].masters,
            ![o].pc = IF op[o].n + 1 < Zones THEN "run_slaves"
                      ELSE IF op[o].masters # {} THEN "start"
                      ELSE "run_master"]

RunMaster(o) ==
    /\ op[o].pc = "run_master"
    /\ \E new \in Allocation(1) :
        /\ Run(o, "master", new)
        /\ op' = [op EXCEPT ![o].masters = new, ![o].pc = "wait_masters"]

\* The group was deleted meanwhile, or the cloud is full.
RunFails(o) ==
    /\ \/ /\ op[o].pc = "run_slaves"
          /\ LET k == GetPartition(Slaves, Zones, op[o].n) IN
             Cardinality(Free) < k \/ (k > 0 /\ "slaves" \notin groups)
       \/ /\ op[o].pc = "run_master"
          /\ Free = {} \/ "master" \notin groups
    /\ Raises(o)

\* inst.start() for each node of the list: the slaves first for the action
\* start, the existing masters for launch --use-existing-master.  The test
\* inst.state not in [...] reads the state get_existing_cluster saw, which was
\* active, so every node is started.
StartNode(o) ==
    /\ op[o].pc = "start"
    /\ op[o].todo # {}
    /\ LET i == NextOf(op[o].todo, op[o].slaves) IN
       /\ state[i] \in {"stopped", "pending", "running"}
       /\ state' = [state EXCEPT ![i] = IF @ = "stopped" THEN "pending" ELSE @]
       /\ op' = [op EXCEPT ![o].todo = @ \ {i}]
    /\ UNCHANGED <<groups, rules, group, launch, nodeVars, launches>>

\* A node that is stopping or gone cannot be started.
StartNodeFails(o) ==
    /\ op[o].pc = "start"
    /\ op[o].todo # {}
    /\ LET i == NextOf(op[o].todo, op[o].slaves) IN
       /\ state[i] \in {"stopping", "shutting-down", "terminated"}
    /\ Raises(o)

Started(o) ==
    /\ op[o].pc = "start" /\ op[o].todo = {}
    /\ Goto(o, "wait_masters")
    /\ UNCHANGED <<cloudVars, nodeVars, launches>>

-----------------------------------------------------------------------------
(* wait_for_cluster, attach_volumes.                                       *)

\* Mutant of Settled: wait until all run.
SettledIfRunning(nodes) == \A i \in nodes : state[i] = "running"

\* wait_for_instances: none is pending.
Settled(nodes) == \A i \in nodes : state[i] # "pending"

\* The list is polled until it has settled.
WaitMasters(o) ==
    /\ op[o].pc = "wait_masters"
    /\ IF Settled(op[o].masters) THEN Goto(o, "wait_slaves") ELSE UNCHANGED op
    /\ UNCHANGED <<cloudVars, nodeVars, launches>>

\* Only launch attaches volumes, and only launch and --resume deploy the key.
AfterWait(o) ==
    op' = [op EXCEPT
        ![o].todo = IF op[o].mode = "launch" /\ Volumes
                    THEN op[o].masters \cup op[o].slaves ELSE {},
        ![o].pc = IF op[o].mode = "launch" THEN "attach" ELSE "packages"]

\* Mutant of WaitSlaves: no wait.
SkipSlaves(o) ==
    /\ op[o].pc = "wait_slaves"
    /\ AfterWait(o)
    /\ UNCHANGED <<cloudVars, nodeVars, launches>>

WaitSlaves(o) ==
    /\ op[o].pc = "wait_slaves"
    /\ IF Settled(op[o].slaves) THEN AfterWait(o) ELSE UNCHANGED op
    /\ UNCHANGED <<cloudVars, nodeVars, launches>>

\* A new volume for each node, the masters first.
AttachVolume(o) ==
    /\ op[o].pc = "attach"
    /\ op[o].todo # {}
    /\ LET i == NextOf(op[o].todo, op[o].masters) IN
       /\ state[i] = "running" /\ i \notin attached
       /\ attached' = attached \cup {i}
       /\ op' = [op EXCEPT ![o].todo = @ \ {i}]
    /\ UNCHANGED <<cloudVars, keyed, provisioned, slaveFile, launches>>

\* The node is not running, or has a volume at /dev/vdb already.
AttachVolumeFails(o) ==
    /\ op[o].pc = "attach"
    /\ op[o].todo # {}
    /\ LET i == NextOf(op[o].todo, op[o].masters) IN
       /\ state[i] # "running" \/ i \in attached
    /\ Raises(o)

VolumesAttached(o) ==
    /\ op[o].pc = "attach" /\ op[o].todo = {}
    /\ Goto(o, "key_master")
    /\ UNCHANGED <<cloudVars, nodeVars, launches>>

-----------------------------------------------------------------------------
(* setup_cluster.  ssh, ssh_read and ssh_write end the invocation when the *)
(* node does not answer (after their retries).                             *)

SshFails(o, i) == state[i] # "running" /\ Raises(o)

\* The master makes the key if it has none; its .ssh is read back.
KeyMaster(o) ==
    /\ op[o].pc = "key_master"
    /\ LET m == First(op[o].masters) IN
       \/ /\ state[m] = "running"
          /\ keyed' = keyed \cup {m}
          /\ op' = [op EXCEPT ![o].todo = op[o].slaves,
                              ![o].pc = "key_slaves"]
          /\ UNCHANGED <<cloudVars, attached, provisioned, slaveFile, launches>>
       \/ SshFails(o, m)

KeySlave(o) ==
    /\ op[o].pc = "key_slaves"
    /\ op[o].todo # {}
    /\ LET i == First(op[o].todo) IN
       \/ /\ state[i] = "running"
          /\ keyed' = keyed \cup {i}
          /\ op' = [op EXCEPT ![o].todo = @ \ {i}]
          /\ UNCHANGED <<cloudVars, attached, provisioned, slaveFile, launches>>
       \/ SshFails(o, i)

SlavesKeyed(o) ==
    /\ op[o].pc = "key_slaves" /\ op[o].todo = {}
    /\ Goto(o, "packages")
    /\ UNCHANGED <<cloudVars, nodeVars, launches>>

\* The packages of the first master; the JDK just installed is moved.
InstallPackages(o) ==
    /\ op[o].pc = "packages"
    /\ LET m == First(op[o].masters) IN
       \/ /\ state[m] = "running"
          /\ provisioned' = provisioned \cup {m}
          /\ Goto(o, "deploy")
          /\ UNCHANGED <<cloudVars, attached, keyed, slaveFile, launches>>
       \/ SshFails(o, m)

\* On a master that has its JDK the package manager, unless an upgrade came
\* out, installs nothing, and mv fails at every retry of ssh.
PackagesFail(o) ==
    /\ op[o].pc = "packages"
    /\ First(op[o].masters) \in provisioned
    /\ Raises(o)

\* A fresh clone of spark-euca, then deploy_files: the first master gets the
\* list of the slaves of this invocation.
DeployFiles(o) ==
    /\ op[o].pc = "deploy"
    /\ LET m == First(op[o].masters) IN
       \/ /\ state[m] = "running"
          /\ slaveFile' = [slaveFile EXCEPT ![m] = op[o].slaves]
          /\ Goto(o, "script")
          /\ UNCHANGED <<cloudVars, attached, keyed, provisioned, launches>>
       \/ SshFails(o, m)

\* setup_spark_cluster: setup.sh and start-all.sh on the first master.
RunSetupScript(o) ==
    /\ op[o].pc = "script"
    /\ LET m == First(op[o].masters) IN
       \/ /\ state[m] = "running"
          /\ Goto(o, "done")
          /\ UNCHANGED <<cloudVars, nodeVars, launches>>
       \/ SshFails(o, m)

-----------------------------------------------------------------------------
(* resume, destroy, stop and start find the cluster first.                 *)

\* get_existing_cluster: without a master, only destroy and stop go on.
FindCluster(o) ==
    /\ op[o].pc = "find"
    /\ \/ Existing("master") # {}
       \/ op[o].mode \in {"destroy", "stop"}
    /\ op' = [op EXCEPT
        ![o].masters = Existing("master"),
        ![o].slaves = Existing("slaves"),
        ![o].todo = Existing("master") \cup Existing("slaves"),
        ![o].pc = CASE op[o].mode = "resume"  -> "key_master"
                    [] op[o].mode = "destroy" -> "terminate"
                    [] op[o].mode = "stop"    -> "stop"
                    [] OTHER -> "start"]
    /\ UNCHANGED <<cloudVars, nodeVars, launches>>

FindClusterFails(o) ==
    /\ op[o].pc = "find"
    /\ Existing("master") = {}
    /\ op[o].mode \notin {"destroy", "stop"}
    /\ Raises(o)

\* stop: the masters first.  No slave has a spot request: launch_cluster
\* makes none.
StopNode(o) ==
    /\ op[o].pc = "stop"
    /\ op[o].todo # {}
    /\ LET i == NextOf(op[o].todo, op[o].masters) IN
       /\ state[i] \in {"running", "stopping", "stopped"}
       /\ state' = [state EXCEPT ![i] = IF @ = "running" THEN "stopping" ELSE @]
       /\ op' = [op EXCEPT ![o].todo = @ \ {i}]
    /\ UNCHANGED <<groups, rules, group, launch, nodeVars, launches>>

StopNodeFails(o) ==
    /\ op[o].pc = "stop"
    /\ op[o].todo # {}
    /\ LET i == NextOf(op[o].todo, op[o].masters) IN
       /\ state[i] \in {"pending", "shutting-down", "terminated"}
    /\ Raises(o)

Stopped(o) ==
    /\ op[o].pc = "stop" /\ op[o].todo = {}
    /\ Goto(o, "done")
    /\ UNCHANGED <<cloudVars, nodeVars, launches>>

\* destroy: terminate the masters, then the slaves.
TerminateNode(o) ==
    /\ op[o].pc = "terminate"
    /\ op[o].todo # {}
    /\ LET i == NextOf(op[o].todo, op[o].masters) IN
       /\ state' = [state EXCEPT ![i] = IF @ = "terminated" THEN @
                                        ELSE "shutting-down"]
       /\ op' = [op EXCEPT ![o].todo = @ \ {i}]
    /\ UNCHANGED <<groups, rules, group, launch, nodeVars, launches>>

\* The groups and rules an attempt sees; n counts the attempts.
Attempt(o, n) ==
    op' = [op EXCEPT ![o].n = n,
                     ![o].success = TRUE,
                     ![o].names = groups,
                     ![o].grants = {gr \in groups \X (1..NumRules) :
                                        gr[2] \in rules[gr[1]]},
                     ![o].todo = {},
                     ![o].pc = "revoke"]

Terminated(o, deleteGroups) ==
    /\ op[o].pc = "terminate" /\ op[o].todo = {}
    /\ IF deleteGroups THEN Attempt(o, 1) ELSE Goto(o, "done")
    /\ UNCHANGED <<cloudVars, nodeVars, launches>>

\* revoke says True whether or not it deleted the rule.
RevokeRule(o, gr) ==
    /\ op[o].pc = "revoke"
    /\ gr \in op[o].grants
    /\ gr[1] \in groups
    /\ \/ rules' = [rules EXCEPT ![gr[1]] = @ \ {gr[2]}]
       \/ MayFail /\ UNCHANGED rules
    /\ op' = [op EXCEPT ![o].grants = @ \ {gr}]
    /\ UNCHANGED <<groups, group, state, launch, nodeVars, launches>>

RevokeRuleFails(o, gr) ==
    /\ op[o].pc = "revoke"
    /\ gr \in op[o].grants
    /\ gr[1] \notin groups
    /\ Raises(o)

RulesRevoked(o) ==
    /\ op[o].pc = "revoke" /\ op[o].grants = {}
    /\ Goto(o, "delete")
    /\ UNCHANGED <<cloudVars, nodeVars, launches>>

\* The cloud deletes a group that no instance and no other group's rule needs;
\* rule 1 stands for the rules whose source is a group.
Deletable(g) ==
    /\ g \in groups
    /\ \A i \in Ids : group[i] = g => state[i] \in {"none", "terminated"}
    /\ \A h \in groups \ {g} : 1 \notin rules[h]

\* Mutant of DeleteGroup: the error does not clear success.
DeleteGroupNoError(o, g) ==
    /\ op[o].pc = "delete"
    /\ g \in op[o].names
    /\ IF Deletable(g)
       THEN groups' = groups \ {g} /\ rules' = [rules EXCEPT ![g] = {}]
       ELSE UNCHANGED <<groups, rules>>
    /\ op' = [op EXCEPT ![o].names = @ \ {g}]
    /\ UNCHANGED <<group, state, launch, nodeVars, launches>>

DeleteGroup(o, g) ==
    /\ op[o].pc = "delete"
    /\ g \in op[o].names
    /\ \/ /\ Deletable(g)
          /\ groups' = groups \ {g}
          /\ rules' = [rules EXCEPT ![g] = {}]
          /\ op' = [op EXCEPT ![o].names = @ \ {g}]
       \/ /\ ~Deletable(g)
          /\ op' = [op EXCEPT ![o].names = @ \ {g}, ![o].success = FALSE]
          /\ UNCHANGED <<groups, rules>>
    /\ UNCHANGED <<group, state, launch, nodeVars, launches>>

\* Up to three attempts.
AttemptEnds(o) ==
    /\ op[o].pc = "delete" /\ op[o].names = {}
    /\ IF ~op[o].success /\ op[o].n < 3 THEN Attempt(o, op[o].n + 1)
       ELSE Goto(o, "done")
    /\ UNCHANGED <<cloudVars, nodeVars, launches>>

Exit(o) ==
    /\ op[o].pc = "done"
    /\ Raises(o)

-----------------------------------------------------------------------------
(* What is not the launcher's choice.                                      *)

\* Ctrl-C, a lost connection to the cloud, the operator's machine.
Crash(o) ==
    /\ MayCrash
    /\ Busy(o) /\ op[o].pc # "done"
    /\ Raises(o)

\* An instance that terminates loses its disks and lets go of its volume.
Vanish(i) ==
    /\ state' = [state EXCEPT ![i] = "terminated"]
    /\ attached' = attached \ {i}
    /\ keyed' = keyed \ {i}
    /\ provisioned' = provisioned \ {i}
    /\ slaveFile' = [slaveFile EXCEPT ![i] = {}]

\* A transition of instance i that the cloud completes by itself.
Complete(i) ==
    /\ \/ /\ state[i] = "pending"
          /\ state' = [state EXCEPT ![i] = "running"]
          /\ UNCHANGED nodeVars
       \/ /\ state[i] = "stopping"
          /\ state' = [state EXCEPT ![i] = "stopped"]
          /\ UNCHANGED nodeVars
       \/ state[i] = "shutting-down" /\ Vanish(i)
    /\ UNCHANGED <<groups, rules, group, launch, launches, op>>

BootFails(i) ==
    /\ MayFail
    /\ state[i] = "pending"
    /\ Vanish(i)
    /\ UNCHANGED <<groups, rules, group, launch, launches, op>>

Launching(o) ==
    \/ LookupGroup(o) \/ CreateGroup(o) \/ CreateGroupFails(o)
    \/ Authorize(o) \/ AuthorizeFails(o) \/ GroupAuthorized(o)
    \/ \E use \in BOOLEAN : CheckExisting(o, use) \/ RefuseLaunch(o, use)
    \/ ResolveImage(o) \/ RunSlaves(o) \/ RunMaster(o) \/ RunFails(o)

SettingUp(o) ==
    \/ StartNode(o) \/ StartNodeFails(o) \/ Started(o)
    \/ WaitMasters(o) \/ WaitSlaves(o)
    \/ AttachVolume(o) \/ AttachVolumeFails(o) \/ VolumesAttached(o)
    \/ KeyMaster(o) \/ KeySlave(o) \/ SlavesKeyed(o)
    \/ InstallPackages(o) \/ PackagesFail(o)
    \/ DeployFiles(o) \/ RunSetupScript(o)

Stopping(o) ==
    \/ FindCluster(o) \/ FindClusterFails(o)
    \/ StopNode(o) \/ StopNodeFails(o) \/ Stopped(o)

Destroying(o) ==
    \/ TerminateNode(o)
    \/ \E delete \in BOOLEAN : Terminated(o, delete)
    \/ \E gr \in Groups \X (1..NumRules) :
            RevokeRule(o, gr) \/ RevokeRuleFails(o, gr)
    \/ RulesRevoked(o)
    \/ \E g \in Groups : DeleteGroup(o, g)
    \/ AttemptEnds(o)

Step(o) == Launching(o) \/ SettingUp(o) \/ Stopping(o) \/ Destroying(o) \/ Exit(o)

Next ==
    \/ \E o \in Operators : (\E mode \in Commands : Begin(o, mode)) \/ Step(o) \/ Crash(o)
    \/ \E i \in Ids : Complete(i) \/ BootFails(i)

Spec == Init /\ [][Next]_vars

\* An invocation goes on until it ends, and the cloud completes what it was
\* told; nobody has to begin an invocation.
Fairness ==
    /\ \A o \in Operators : WF_vars(Step(o))
    /\ \A i \in Ids : WF_vars(Complete(i))

FairSpec == Spec /\ Fairness

-----------------------------------------------------------------------------
(* Properties.                                                             *)

Invocation == [pc : PCs, mode : Modes, turn : Groups, n : Nat,
               fresh : SUBSET Groups, masters : SUBSET Ids, slaves : SUBSET Ids,
               todo : SUBSET Ids, names : SUBSET Groups,
               grants : SUBSET (Groups \X (1..NumRules)), success : BOOLEAN,
               launch : Nat]

\* Every variable has its type: cloud state, node state, invocations.
TypeOK ==
    /\ groups \subseteq Groups
    /\ rules \in [Groups -> SUBSET (1..NumRules)]
    /\ group \in [Ids -> Groups]
    /\ state \in [Ids -> States]
    /\ launch \in [Ids -> Nat]
    /\ attached \subseteq Ids
    /\ keyed \subseteq Ids
    /\ provisioned \subseteq Ids
    /\ slaveFile \in [Ids -> SUBSET Ids]
    /\ launches \in Nat
    /\ op \in [Operators -> Invocation]

\* FALSE for operators that do not take turns (run SparkCareless): "Fails if there
\* already instances running in the cluster's groups".  The master's group never
\* holds two active instances, whatever sequence of launches, interruptions, stops,
\* restarts and destroys led here.
SingleMaster == \A i, j \in Existing("master") : i = j

\* The active slaves are those of one launch: no launch adds its slaves to
\* those an earlier one, perhaps interrupted or stopped, left behind.
OneLaunch == \A i, j \in Existing("slaves") : launch[i] = launch[j]

\* The check and the run are two calls, so operators that do not take turns can
\* all pass the check before any of them runs an instance; that is the worst
\* they can do: each has at most one launch past the check.
SlaveLimit ==
    LET careless == IF Exclusive THEN 1 ELSE Cardinality(Operators)
    IN /\ Cardinality(Existing("slaves")) <= careless * Slaves
       /\ Cardinality(Existing("master")) <= careless

\* When an invocation that sets the cluster up reports "Done!", every active
\* slave is in the list its master was given: none is paid for and unused.
NoStraySlave ==
    \A o \in Operators :
        op[o].pc = "done" /\ op[o].mode \in {"launch", "resume", "start"} =>
            Existing("slaves") \subseteq slaveFile[First(op[o].masters)]

\* A destroy that ends leaves no active instance, and one that says it deleted
\* the groups has deleted them, although revoke and delete may fail and only
\* what is left is tried again.
DestroyIsComplete ==
    \A o \in Operators :
        op[o].pc = "done" /\ op[o].mode = "destroy" =>
            /\ Existing("master") \cup Existing("slaves") = {}
            /\ op[o].n > 0 /\ op[o].success => groups = {}

\* Volumes and setup wait for every node of the cluster to have left pending,
\* also the nodes a start restarts while others were running.
SetupAfterBoot ==
    \A o \in Operators :
        /\ op[o].mode \in {"launch", "start"}
        /\ op[o].pc \in {"attach", "key_master", "key_slaves", "packages", "deploy",
                        "script"}
        => Settled(op[o].masters \cup op[o].slaves)

\* A launch runs no instance while one of its groups has no rules, and a group that
\* it made or found empty has all of them by then, although failed deletes, revokes
\* that did nothing and interruptions leave it any mixture of missing, empty, partly
\* revoked and complete groups to start from.
NoBareGroups ==
    \A o \in Operators :
        op[o].pc \in {"run_slaves", "run_master"} =>
            \A g \in Groups :
                rules[g] # {} /\ (g \in op[o].fresh => rules[g] = 1..NumRules)

\* FALSE (run SparkInterrupted): "By setting up its security groups, and then
\* starting new instances in them".  A group that was left with some of its rules is
\* taken for one that is set up.
RulesBeforeInstances ==
    \A o \in Operators :
        op[o].pc \in {"run_slaves", "run_master"} =>
            \A g \in Groups : rules[g] = 1..NumRules

\* FALSE (run SparkRestart): "Deploy configuration files and run setup scripts on a
\* newly launched or started EC2 cluster".  When the master of a started cluster answers, the
\* setup gets as far as the configuration files.
StartedIsSetUp ==
    [][\A o \in Operators :
          /\ op[o].pc = "packages" /\ op[o].mode = "start"
          /\ state[First(op[o].masters)] = "running"
          => op'[o] = op[o] \/ op'[o].pc = "deploy"]_vars

\* setup.sh reaches the slaves with the key of the master: whenever it runs, the
\* nodes have it, also on start, which deploys none (deploy_ssh_key False).  So it is
\* as long as nothing is interrupted and every instance boots; a start after a launch
\* that was interrupted before the keys runs the script without them.
KeysBeforeScript ==
    \A o \in Operators :
        op[o].pc = "script" => op[o].masters \cup op[o].slaves \subseteq keyed

\* Every invocation ends: no wait is for something that never comes, such as
\* an instance that terminated instead of running.
InvocationsEnd == \A o \in Operators : Busy(o) ~> ~Busy(o)

-----------------------------------------------------------------------------
(* Operators that take turns, as Pool has it.                              *)

\* The slaves and the masters the launch past the check has yet to run.
SlavesDue ==
    LET past == {o \in Operators : op[o].pc \in {"image", "run_slaves"}}
    IN IF past = {} THEN 0 ELSE Slaves - Cardinality(op[First(past)].slaves)

MastersDue ==
    IF \E o \in Operators :
          \/ op[o].pc = "run_master"
          \/ op[o].pc \in {"image", "run_slaves"} /\ op[o].masters = {}
    THEN 1 ELSE 0

SlavesPool == INSTANCE Pool WITH
    members <- Existing("slaves"), due <- SlavesDue, Sizes <- {Slaves}

MastersPool == INSTANCE Pool WITH
    members <- Existing("master"), due <- MastersDue, Sizes <- {1}

\* A launch fills the groups as if the check and the runs, one call to the cloud
\* for every zone, were one reservation: it starts from empty groups, and from
\* its check on nobody else adds an instance, nor does it run more than it was
\* asked for when some of its instances are lost between two of its calls.
FillsPools == SlavesPool!Spec /\ MastersPool!Spec

=============================================================================
