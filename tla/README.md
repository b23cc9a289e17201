# spark-euca: a TLA+ verification project

spark-euca starts, stops and destroys Spark and Mesos clusters on a Eucalyptus
cloud.  It is a fork of spark-ec2: Python 2 launchers under `src/euca/`, bash
scripts that the launchers run on the cluster's first master, and configuration
templates.  Nothing in it runs for long: a launcher is a sequence of calls to the
cloud and of ssh commands, a setup script is a sequence of remote commands.  What
makes it hard is that every one of those calls may be the last (Ctrl-C, a lost
connection, an exception), that the only memory is the cloud itself and the nodes'
disks, and that the same commands are run again on what the last run left.

Paths are relative to the repository; `src/` stands for its root.

## 1. Inventory

### Launcher for standalone Spark (`euca/spark_euca.py`)

- *State*: none of its own.  The cloud holds the security groups
  `<cluster>-master` and `<cluster>-slaves` with their rules, the instances (each in
  a group, with a state and a reservation) and the attached volumes; the nodes hold
  the ssh keys, the moved JDK and `spark-euca/` with `ec2-variables.sh`.
- *Operations*: `launch` (with `--resume`, `--use-existing-master`, `--vol-size`),
  `destroy` (with `--delete-groups`), `stop`, `start`, `login`, `get-master`.
- *Interactions*: boto calls to the cloud; ssh, scp and rsync to the first master
  and, to hand out keys, to the slaves; `setup.sh` and `start-all.sh` on the master.
- *Hard*: two operators at once (the check and the runs are separate calls);
  interruptions between any two calls; group rules added one by one and only when
  `group.rules == []`; retries of destroy; commands repeated by `start` and
  `--resume`; instances that end up `terminated` instead of `running`.
- *Correct when*: one master and the slaves of one launch; no paid slave the master
  does not know; destroy removes what it says; groups complete before instances run;
  the setup runs when nodes are up and hold the keys; every invocation ends.

### Launchers for Mesos (`euca/mesos_euca.py`, `mesos_euca_emi.py`, `mesos_euca_generic.py`)

Copies of the Spark launcher with a third group `<cluster>-zoo` (`mesos_euca.py`),
or one group `<cluster>-group` for every instance (the other two), several masters,
and ZooKeeper either on nodes of its own or on the masters (`--cohost`).

- *State*: as for Spark, the cloud's; in each invocation a third list, `zoo_nodes`.
- *Operations*: the same command line.  `mesos_euca_emi.py` gets a fourth list,
  `grouped_nodes`, from `get_existing_cluster`, which only `launch` and `destroy` use.
- *Hard*: `--delete-groups` of `mesos_euca.py` does not know the zoo group; its `stop`
  leaves the ZooKeeper nodes running and its check does not look for them; grouped
  instances have no role when they are found again; groups whose rules are added in two
  loops and revoked in a third; three lists to wait for.
- *Correct when*: the nodes are those of one launch; none is left out of the lists that
  are deployed; instances run in groups that have rules; destroy removes what it says; the
  setup waits for all three lists, and never for what cannot come.
- `mesos_euca_generic.py` does not compile under Python 2 (line 964).

### Setup orchestration on the first master (`setup.sh`, `setup-mesos.sh`, `setup-mesos-emi.sh`, `setup-mesos-generic.sh`)

- *State*: shell variables (the lists of nodes, `TODO` or `INSTANCES`, `TRIES`),
  background jobs, and the files of every node.
- *Operations*: approve the ssh keys of all nodes in at most four rounds, rsync
  `/root/spark-euca`, run the slave setup, prepare packages, initialise the modules,
  render the templates, copy the configuration, set the modules up.
- *Interactions*: background ssh jobs joined by `wait`; nodes that are slow to
  start or never answer; no exit code is looked at after the approval loop.
- *Hard*: the order rsync before slave setup on every node; what a node misses that
  answers only after a phase; the second run, which finds some modules installed.
- *Correct when*: no phase starts before the jobs of the one before have ended; a
  node that gets its slave setup has the files it needs; a second run repairs what
  the first one missed.

### Node preparation (`setup-slave.sh`, `setup-mesos-slave.sh`, `setup-mesos-emi-slave.sh`, `create-swap.sh`, `prepare-slaves-*.sh`)

Formats and mounts `/dev/vdb` when there is one, creates swap, fixes permissions,
installs the JDK.  Hard: it is run again after a restart or a failure half-way, on a
disk that may be formatted, mounted, or neither; `create-swap.sh` exits when
`/mnt/swap` exists, also after a restart that dropped the swap.  Correct when a
formatted volume is never formatted again and always ends up mounted.

### Modules (`scala`, `spark`, `shark`, `ephemeral-hdfs`, `persistent-hdfs`, `mapreduce`, `spark-standalone`, `tachyon`, `ganglia`, `mpich2`, ...)

`init.sh` downloads a package on the master unless its directory exists; `setup.sh`
copies it to the slaves and starts its services.  Hard: directories made before the
download succeeded; modules whose `init.sh` returns early and so never copies to a
slave that was unreachable the first time; HDFS formatted only once.

### High-availability HDFS and ZooKeeper (`setup-mesos-emi.sh`, `setup-mesos-generic.sh`, `cloudera-hdfs/`, `utilities/restore_master.sh`)

ZooKeeper ensemble, journal nodes, name node format, bootstrap of the standby, and
failover controllers, in that order.  Hard: quorum sizes, order of services, a master
restored into a running ensemble.

### Services and supervision (`templates/root/mesos-config/`, `storm-on-mesos/`, `kafka/`, `templates/etc/init.d/zookeeper-server`, `monit/`)

Init scripts that write PID files from `ps ax | grep`, and monit, which every 30
seconds starts what its PID file says is not running.  Hard: monit and an operator
acting on the same service, stale PID files after a crash, PIDs that were given to
another process.  Correct when a PID file names every daemon, a stop ends them, and the
service comes back; that there is one daemon only is what the script is for and does not
achieve.

### Backup and recovery (`backup/`, `utilities/`)

Nightly copy of HDFS to S3 (`sync --delete-removed`), restore into a new cluster,
replacing a master's address in the configuration.  Hard: a backup after a failed
fetch removes what the last one stored.

### Templates (`deploy_templates.py`, `deploy_templates_mesos.py`, `templates/`)

Pure: fill parameters into configuration files and choose the memory of Spark and
Tachyon from the memory of the machine.

## 2. Plan

In the order of importance; all of it is built.

| Modules | Models | Composition, abstract specification | Theorems |
|---|---|---|---|
| `SparkEuca`, `Pool`, `MCSparkEuca`, `SparkEucaProofs`, `SparkRacesProofs`, `SparkSetupProofs`, `SparkPoolsProofs` | the Spark launcher with the cloud and several operators | `Pool`, the groups are filled by one launch at a time with what it was asked for: implemented for operators that take turns | types; one master; one launch; no stray slave; complete destroy; the limit of a race; setup after boot; rules before instances; keys before scripts; refinement |
| `SetupDistribution`, `Rollout`, `MCSetupDistribution`, `SetupDistributionProofs` | the approval and distribution loops of `setup.sh` and its three Mesos variants | `Rollout`, the nodes that answered go through the steps together: implemented by `setup.sh` | types; nodes given up; no script without its files; refinement |
| `NodePreparation`, `MCNodePreparation`, `NodePreparationProofs` | the volume that `setup-slave.sh` formats and mounts | composed with `SetupDistribution`, which it implements | types; formatted once; mounted where the script went through |
| `MesosEuca`, `Pool`, `MCMesosEuca`, `MesosEucaProofs` | the two Mesos launchers that run, and the cloud | `Pool`, implemented by both launchers | types; one launch; no stray node; complete destroy; setup after boot; rules before instances; refinement |
| `ServiceControl`, `MCServiceControl`, `ServiceControlProofs` | an init script with its PID file, an operator and monit that do not wait for each other | none: the promise, one daemon, is broken | types; every daemon is listed; stop ends them |

All invariants and refinements that the passing runs check are theorems but `NeverStuck`,
which is about ENABLED; the liveness properties `InvocationsEnd`, `ScriptEnds`,
`FoundAgain` and `Supervised` are only model-checked.

## 3. The launcher: `SparkEuca`

One `op[o]` per operator holds the local variables of the invocation that operator
runs: `pc`, the action (`mode`), the lists `masters` and `slaves` as the code has them
in `master_nodes` and `slave_nodes`, the nodes of a loop still to visit (`todo`), the
groups and rules of a destroy attempt (`names`, `grants`, `success`).  Every call to
the cloud or to a node is one step; between two steps anything may happen.

| State | Code |
|---|---|
| `groups`, `rules` | security groups and their `authorize()` rules (`launch_cluster`) |
| `state`, `group`, `launch` | instances of `conn.get_all_instances()`, the group they run in, the reservation |
| `attached` | volumes at `/dev/vdb` (`attach_volumes`) |
| `keyed` | nodes with the cluster key in `.ssh` (`setup_cluster`) |
| `provisioned` | nodes whose JDK was moved to `/usr/lib/jvm/java-1.7.0` |
| `slaveFile` | the `SLAVES` a master was given (`deploy_files`, `setup.sh`) |

| Actions | Code |
|---|---|
| `Begin` | `real_main`, one per action of the command line |
| `LookupGroup`, `CreateGroup`, `Authorize`, `GroupAuthorized` | `get_or_make_group` and the rules |
| `CheckExisting`, `RefuseLaunch`, `ResolveImage`, `RunSlaves`, `RunMaster` | the rest of `launch_cluster` |
| `WaitMasters`, `WaitSlaves`, `AttachVolume` | `wait_for_cluster`, `attach_volumes` |
| `KeyMaster`, `KeySlave`, `InstallPackages`, `DeployFiles`, `RunSetupScript` | `setup_cluster`, `deploy_files`, `setup_spark_cluster` |
| `FindCluster`, `StartNode`, `StopNode` | `get_existing_cluster`, `start`, `stop` |
| `TerminateNode`, `RevokeRule`, `DeleteGroup`, `AttemptEnds` | `destroy` and its three attempts |
| `...Fails`, `Crash` | an exception out of the call; an interruption anywhere |
| `Complete`, `BootFails` | the cloud |

Choices made when translating:

- `--user-data-file` has the default `""`, which `open` refuses (line 308); a launch
  needs the option.  `ResolveImage` covers the failing case.  Likewise `os_type`
  must be given, or the package manager's name is unbound.
- `--spot-price` is parsed and never read: no spot requests exist and `stop` stops
  every slave.
- `login` and `get-master` only look for the cluster and are left out.
- ssh retries (seven attempts; the comment at 668 says five) are one step that
  succeeds or ends the invocation.  They matter for `mv` (`PackagesFail`).
- A package upgrade between two setups would bring the JDK's directory back, so
  `InstallPackages` may succeed also on a provisioned master.
- Boto's `group.rules` is what the query returned: `LookupGroup` decides on that
  snapshot, `Authorize` acts on the cloud as it is.

`Pool` is what a launcher promises of the instances of a group, in four actions over
two variables: a launch claims the group when it is empty and nobody is due to fill it
(`Claim`); it runs what it is due, in as many calls as it likes (`Grow`), while
instances may be lost (`Shrink`), and may give the rest up (`GiveUp`).  The hard part of
the code is hidden there: between the check and the last run lie a call for every
zone and a failure, an interruption and a lost instance anywhere, and `Pool` knows the
whole as one reservation.  `FillsPools` is `Pool` for the slaves and for the masters:

| `Pool` | `SparkEuca` |
|---|---|
| `members` | `Existing("slaves")`, `Existing("master")` |
| `due` of the slaves | from the check to the last zone, `opts.slaves` less the instances in `slave_nodes`, also those no longer active |
| `due` of the masters | 1 from the check, if it found none, to `RunMaster` |
| `Claim`, `Grow`, `GiveUp` | `CheckExisting`; `RunSlaves`, `RunMaster`; every end of an invocation before its runs are over |
| `Shrink` | everything else, among it `TerminateNode`, `BootFails` and a master found by `--use-existing-master` |

Operators that do not take turns do not implement it: `SparkCareless` is two of them
claiming one group.

### Runs

| Run | Operators, ids, slaves, zones | Shows |
|---|---|---|
| `SparkTurns` | 1, 5, 2, 2; two launches; crashes and failures | types, `OneLaunch`, `SlaveLimit`, `NoStraySlave`, `DestroyIsComplete`, `SetupAfterBoot` over all five actions of the command line; the refinement `FillsPools` |
| `SparkEnds` | 1, 4, 1, 1; two launches; volumes; two rules; weak fairness; boots and revokes may fail | `SingleMaster` where a master outlived its slaves and is used again; `NoBareGroups` where a destroy left groups with all, some or none of their rules; `InvocationsEnd` |
| `SparkRace` | 2 at once, 6 ids; launch and stop; three launches | `SlaveLimit`: the check bounds the damage to one cluster per operator |
| `SparkTugOfWar` | 2 at once, 2 ids; launch and destroy; one launch; weak fairness | `InvocationsEnd` while the other operator takes the groups, rules and instances away |
| `SparkCareless` | 2 at once | *violation* of `SingleMaster` |
| `SparkInterrupted` | 1, crashes | *violation* of `RulesBeforeInstances` |
| `SparkRestart` | 1, nothing fails | *violation* of `StartedIsSetUp` |

The three violations are findings of `PROJECT.json`:

- `SparkCareless`: two launches at once both pass the check of lines 273-279, and
  `<cluster>-master` holds two masters, although the launcher says that it fails if
  there are instances in the groups.
- `SparkInterrupted`: a launch interrupted between two `authorize()` calls leaves a
  group with some rules; `group.rules == []` is then false and every later launch
  runs instances in a group that lacks ports.  A destroy leaves such a group too, when
  some of its revokes do nothing and all three deletes fail (lines 819-820).
- `SparkRestart`: `setup_cluster` moves the JDK with `mv` on every call.  On a
  master that was set up before, the source is gone, `mv` fails at every retry and
  `start` dies before any file is deployed.  The shortest trace runs `start` on a
  cluster that is up; the same happens after a `stop`.

*Bounds.*  Two zones with two slaves exercise `GetPartition` with a remainder of zero
and a zone loop of two steps; five ids hold one cluster and what an interrupted
launch left plus a destroyed instance whose id is not used again, so that every
property has behaviours with old and new instances side by side.  `MaxLaunches` is
two where one launch has to meet another's remains, and three where two operators
race, one where a launch meets a destroy: two operators that interleave every revoke and
delete of several launches are beyond TLC, and one launch gives each of their calls
something to lose.  Without a limit on launches the ids would run out anyway (`RunFails`).  Rules
per group (`NumRules`) are one, or two where a half-authorised group matters; rule 1
stands for the rules that name a group as their source and so block its deletion.

*Fairness.*  `WF(Step(o))`: an invocation is a sequential program whose calls return
or raise.  `WF(Complete(i))`: the cloud finishes transitions it has begun.  Nothing
obliges an operator to begin anything, and nothing makes an instance boot rather
than fail.

### Proofs

`SparkEucaProofs` proves `TypeCorrect`: `Spec => []TypeOK` for every value of the
constants that satisfies `LauncherAssumption`.  The invariant `TypeInv` adds to
`TypeOK` what the choice of `First(masters)` needs.

The same module proves, under `Exclusive` (operators take turns) and for every
number of operators, ids, slaves, zones and rules, with crashes and failures anywhere:
`TurnsKeepSingleMaster`, `TurnsKeepOneLaunch`, `TurnsLeaveNoStraySlave` and
`TurnsDestroyAll`.  None of the four properties is inductive: "one master" is kept by
`RunMaster` only because the check, several steps earlier, saw none and nothing since
could add one.  `TurnsInv` carries that knowledge from the check to the use:

- `TakesTurns`: at most one invocation is running;
- `Routed`: which program points belong to which action of the command line;
- `SafeLaunch`: after the check no slave is active that this launch did not run, and
  no master unless the launch has it in `masters`;
- `SafeSetup`: the invocation's list `slaves` contains all active slaves, and once
  deployed it is what the master was told;
- `SafeDestroy`: what is still active is still in `todo`, and what groups exist are
  still in `names`, until an error clears `success`.

The proof has one step per action; `Shrinks` is the fact that most of them share: no
instance becomes active.  The invariant was checked by TLC on the `SparkTurns`
instance before it was proved.

`SparkRacesProofs` proves `InstancesAreLimited`, the property `SlaveLimit`: with
operators that do not take turns (finitely many of them), no more than one cluster per
operator is ever active, and one cluster if they do take turns.  `RacesInv` has three parts beside the types:

- `Numbered`: no two launches under way have the same number, and none has that of an
  instance before it has run one;
- `Counted`: the active slaves of one launch are at most `opts.slaves`, and while the
  loop over the zones is at zone `n` at most `Share(n)`, what the zones before it get
  (`ShareGrows` and `ShareEnds`: a round adds `GetPartition`, all rounds together
  `opts.slaves`); a launch has one master;
- `Raced`: the launches that have active instances in a group, or may still run some
  because they are past the check, are no more than the operators.  This is the
  argument of the property: the check adds an operator's launch only where the group
  is empty, so that until then the others account for it, one each.

`SlaveLimit` follows since a set divided into as many parts as there are launches has
at most that many times the largest part (`SumOfParts`).

`SparkSetupProofs` proves what the setup relies on:

- `SetupWaitsForBoot` (`SetupAfterBoot`), if operators take turns, or, in any
  interleaving, if none of them uses `stop`.  `BootInv` says that what was waited for has left pending,
  and why it stays so: listed instances were run, so the cloud does not give them
  out again, and only the start of a stopped instance leads back to pending.  Hence
  the hypothesis: an operator who stops and starts a cluster while another one launches it makes
  instances pending behind the other's wait.
- `RunsFollowRules` (`NoBareGroups`), if operators take turns, with interruptions,
  failing deletes and revokes that leave their rule.  A group may be left with any of
  its rules, so the invariant, `RulesKnown`, is about the launch that meets it: a group it
  did not find empty has some rule, a fresh one has exactly the first `n` when its turn
  is over the `n`-th call, none before and all after.  That the rules are complete,
  `RulesBeforeInstances`, is false (`SparkInterrupted`).  Without turns `NoBareGroups` is
  false as well: a destroy revokes behind the launch's back.
- `ScriptsHaveKeys` (`KeysBeforeScript`), if operators take turns and nothing is
  interrupted or fails.  That is what the code needs: a launch interrupted
  before it has handed out all keys breaks it at the next `start`, which hands out none
  (877), although its comment says that a started cluster is set up.  `KeysInv` says
  that a cluster that may be started holds its keys.  No run checks `KeysBeforeScript`.

`SparkPoolsProofs` proves the refinement, `TurnsFillPools`: if operators take turns,
`Spec => FillsPools`, with crashes and failures anywhere.  Each action is one of
`Pool`'s or a stutter, for the slaves and for the masters.  The invariant `PoolsInv`
joins what the modules before it proved and adds one part:

- `TurnsInv`: while others are idle all that is due is due to one operator (`DueOf`),
  so the operator that runs an instance is the one that claimed the group;
- `Counted`: the loop over the zones begins at 0 and ends at `Zones`, where
  `Share(Zones) = opts.slaves`, so nothing is due after the last zone and no zone
  runs more than is due;
- `Listed`: instances that are new are not in `slave_nodes` yet, so that they are counted once;
- `Sized`, the new part: at zone `n` the launch lists exactly `Share(n)` slaves.
  `Counted` bounds the active ones, which does not say how many were run: instances are lost.

`PoolsBoundClusters` shows that the promise is enough for the bound: `FillsPools` alone implies
`SlaveLimit` for operators that take turns, since what is there and what is due
together never exceed what one launch was asked for.

TLC checked each of these invariants on the runs of the same property before it was proved:
`RacesInv` on `SparkRace` and `SparkTurns`, `BootInv` on `SparkTurns` and on the instance
of `SparkTugOfWar`, `KeysInv` on the instance of `SparkEnds` with nothing failing,
`RulesKnown` on `SparkEnds` and `SparkInterrupted`, `Sized` on `SparkTurns`.

*Only model-checked*: `InvocationsEnd`, since liveness under fairness is out of the
proof system's reach.

## 4. The distribution: `SetupDistribution`

What the first master does to the other nodes between its own set-up and the modules:
it approves their ssh keys, copies `/root/spark-euca`, runs the slave set-up there and
installs packages.  `Script` selects one of the four scripts; they differ in the
list they approve (`ApprovalList`) and in their loops (`Plan`), which are data of the
model, and share every action.

| State | Code |
|---|---|
| `pc`, `phase` | where the script is; `phase` is the loop it is in |
| `list`, `failed`, `tries` | `TODO` or `INSTANCES`, `NEW_TODO` or `NEW_INSTANCES`, `TRIES` |
| `todo` | what is left of a `for node in` |
| `jobs` | commands sent to the background with `&`, and the one in the foreground |
| `copied`, `ready`, `prepared` | what the nodes' disks hold of the three steps |
| `up`, `answered`, `missing` | hosts that answer ssh; those whose approval succeeded in this run; those told, in this run, to run a script they do not have |

| Actions | Code (lines of `setup.sh`) |
|---|---|
| `Begin` | the checks of `JAVA_HOME`, `SCALA_HOME` and the terminal; the list (33-69) |
| `Approve`, `EndRound` | a node and a round of the approval loop (71-88) |
| `Launch`, `Run`, `EndLoop` | a command is given, runs or fails, `wait` (90-121) |
| `Rerun` | the launcher's ssh ends and runs the script again (`spark_euca.py` 661-680) |
| `ComesUp`, `GoesDown` | nodes that boot slowly or reboot |

Choices made when translating:

- No exit code after the approval is looked at, so `Run` on a node that does not
  answer changes nothing and the script goes on.
- A node whose approval succeeded goes on answering for the rest of the run.  Without
  this assumption any node can miss any step, in every script: there is nothing in
  the code to notice it.
- A terminal that hangs up takes its background jobs along (`Rerun` clears `jobs`).
- `sed`, `echo` into `/etc/environment`, `chmod` and the copy of `id_rsa` go with the
  command they stand next to.
- `Count`: the Mesos scripts for images assign the output of `wc -l` to `ZOOS`
  (`setup-mesos-generic.sh` 66, `setup-mesos-emi.sh` 48), so the list of the approval
  contains a number where the ZooKeeper nodes should be.  No host has that name.
- The order of the nodes within a `for` is left open, in the loops of foreground
  commands as well.

`Rollout` is the promise: a state of three variables in which nodes are reached,
each step is given to nodes in any order, and the next step is begun only when every
reached node has been through the one before.  `KeepsTogether` is that specification
with `step` read as `phase`, `reached` as `answered`, and `past[n]` as what `n` holds.

### Runs

| Run | Instance | Shows |
|---|---|---|
| `Distribution` | `setup.sh`, two slaves, two runs, weak fairness of the script; with volumes (section 5) | types, `GivenUpAfterFour`, `SetupHasFiles`, `KeepsTogether`, `ScriptEnds`, and `FormatsOnce`, `VolumesMounted` |
| `DistributionImages` | `setup-mesos-generic.sh`, a slave and a ZooKeeper node, one run | *violation* of `SetupHasFiles` |

Two slaves are the fewest of which one answers and the other does not, or one is a
step ahead of the other; two runs are the fewest in which nodes hold what an earlier
run gave them.  The four rounds of the approval are the code's own bound.

`DistributionImages` shows what becomes of a loop variable that is used again: the
approval loop assigns the nodes that failed to `INSTANCES`, the copy iterates
`INSTANCES`.  Since the number in `ZOOS` always fails, the loop goes four rounds
and the slave, which answered in the first, is not in the list any more.  It is then told
to run a script it never got, which the note between the two loops rules out.
`setup-mesos-emi.sh` has the same two loops; on its images the directory may be there
from the image.

*Fairness.*  `WF(Step)`: the script is one sequential program and each of its commands
ends (`ConnectTimeout`).  Nodes need never come up, and `ScriptEnds` holds although
they may not.

### Proofs

`SetupDistributionProofs` proves, for any set of nodes and any number of runs:

- for all four scripts, `DistributionTypes` and `GivesUpAfterFour`, from the invariant
  `BaseInv`: `Control` ties `phase` and `jobs` to `pc`, and `Approval` says that in
  the approval loop each node of the list has answered, failed in this round or is still
  to be tried, and only one of these.  `GivenUpAfterFour` alone says nothing of
  the rounds, where the nodes are lost or kept.
- for `Together`, that is `setup.sh` and `setup-mesos.sh` without ZooKeeper nodes,
  `FilesBeforeScripts` and `ImplementsRollout`, from `Barriers`: in a loop, a node that
  answered is still to be visited, has its command among the jobs or has been through
  the step, and has been through all the earlier ones.  The barrier is what `EndLoop`
  finds when `todo` and `jobs` are empty; the refinement reads `Rollout`'s `Advance` off
  it.

The condition `Together` is needed: `DistributionImages` refutes the conclusion for the
scripts for images, and `setup-mesos.sh` runs its slave script on ZooKeeper nodes
(125) it never copies to (113).  *Only model-checked*: `ScriptEnds`.

## 5. Volumes: `NodePreparation`

`NodePreparation` extends `SetupDistribution` with what the job `setup-slave` does on
its node.  The loops of the master see only that the job ends; on the node it is a
script of its own, with a volume that outlives it.

| State | Code |
|---|---|
| `disk[n]` | `/dev/vdb`: absent, raw, with a file system, with its label |
| `mounted` | nodes with `/vol` in `/proc/mounts` |
| `formats[n]` | how often `mkfs.ext3` went through on the volume of `n` |
| `at[n]` | where `setup-slave.sh` is on `n`; `lost` when its node went down under it |

| Actions | Code (lines of `setup-slave.sh`) |
|---|---|
| `Look` | is there a volume, does `blkid` know it, is it mounted (25-28, 47) |
| `Format`, `Label`, `Mount` | `mkfs.ext3`, which may fail; `e2label`; `mount -L` (31-35, 51-52) |
| `Finish` | the job of the distribution ends; a slave setup that was run ends with its script |
| `HangUp` | `Rerun`, which ends the scripts on the nodes as well: they run under `ssh -t -t` |
| `Restart`, `Return` | `GoesDown`, which takes the mounts and the script along; `ComesUp` |

Choices made when translating:

- An `mkfs` that is interrupted leaves a volume `blkid` does not know; one that is
  through may still be interrupted before `e2label` or `mount`.
- `e2label` and `mount` succeed on a volume with a file system; their exit codes are not
  looked at.
- The master notices that a node went down under its script before the node answers
  again, so the script of before does not run beside one of after.
- As in `SetupDistribution`, a node whose approval succeeded stays up for the run.

The run is `Distribution`: each of the two slaves has a volume or has none, and the
second run of the script meets volumes at each stage the first may have left them, on
nodes that restarted or did not.  `FormatsOnce` and `VolumesMounted` are what the comments of the script
promise ("Check if /dev/vdb is already formatted", "Mount it if its not mounted yet").

### Proofs

`NodePreparationProofs` proves, for any set of nodes and number of runs:

- `PreparationDistributes`: `PreparationSpec => Spec`, a step of a node's script being
  a stutter of the distribution; all that section 4 proves holds here too.
- `VolumeTypes` and `NeverFormatsTwice`, for all four scripts, from `VolumeInv`: a volume
  that is not formatted never was, and a script that is about to format stands before
  a raw volume.  `FormatsOnce` alone does not say the second, which `Look` establishes
  and nothing in between may change.
- `MountsWhatAnswers`, for the scripts of `Together`, from `MountInv`: where a script
  rests the volume is mounted, and from the end of the slave setup on it stays so for
  the nodes that answered.  It uses the invariant `Barriers` of section 4: the setup of an
  answering node ran, because its files were there.

## 6. The Mesos launchers: `MesosEuca`

One operator drives a cluster with one of the two launchers, an invocation after the
other.  `launcher` says which; they share most actions and differ in the groups
(`GroupsOf`, `GroupOf`), the check (`MesosRefuses`, `EmiRefuses`), the numbers of nodes
(`MastersToRun`, `MesosZoos`, `EmiZoos`) and in what they do with an existing cluster
(`FindMesosCluster`, `FindEmiCluster`).  Every call to the cloud or a node is one step,
an interruption may follow each.  `op` holds the local variables of the invocation.

| State | Code |
|---|---|
| `groups`, `rules` | security groups; of the rules only whether those that name groups (`sources`) and those that open ports are there |
| `group`, `state`, `launch` | instances with their group, their state and their reservation |
| `op.masters`, `op.slaves`, `op.zoos` | `master_nodes`, `slave_nodes`, `zoo_nodes` |
| `op.todo`, `op.names`, `op.success` | what a loop has still to visit; the groups and `success` of an attempt of destroy |

| Actions | Code |
|---|---|
| `GetOrMakeGroup`, `AuthorizeSources`, `AuthorizePorts`, `CheckExisting`, `ResolveImages`, `RunSlaves`, `RunMasters`, `RunMesosZoos`, `RunEmiZoos` | `launch_cluster` |
| `WaitForCluster`, `AttachVolume`, `VolumesAttached` | `wait_for_cluster`, `attach_volumes` |
| `KeyMaster`, `KeyNode`, `InstallPackages`, `CopyRepository`, `DeployMesosFiles`, `DeployEmiFiles`, `RunSetupScript` | `setup_cluster`, `deploy_files` |
| `FindMesosCluster`, `FindEmiCluster` | `get_existing_cluster` |
| `StartNode`, `StopNode`, `TerminateNode`, `RevokeRules`, `DeleteGroup`, `AttemptEnds` | `start`, `stop`, `destroy` of `real_main` |
| `Crash`, `Complete`, `BootFails` | an interruption; the cloud |

Choices made when translating:

- What the launchers have in common with `SparkEuca` is coarser here: keys and rules one
  by one, and races of operators, are in `SparkEuca`.  A cluster is driven by one of
  the launchers and not by both.
- An `authorize` of a rule that is there (with one group, `src_group` three times) is
  accepted, as the program needs for any launch to succeed.
- `--one-security-group` and `--cohost` of `mesos_euca_emi.py` are `store_true` options
  with default `True`: they are on.  Its masters are therefore in `<cluster>-group`.
- `login`, `get-master`, `stop` and `start` of `mesos_euca_emi.py` unpack three of four
  lists and raise (lines 1036, 1047, 1058, 1073).  `--resume` unpacks four, but without
  an instance in a group for masters `setup_cluster` raises.  A cluster of
  `mesos_euca_emi.py` can thus only be launched and destroyed.
- `zoo_num` is a string (its default is `"3"`), and in Python 2 greater than 0 whatever it says: the call
  for additional ZooKeeper nodes is made for none and for fewer; a cloud may refuse the
  first and does refuse the second.
- With `--ft 1` `deploy_files` of `mesos_euca_emi.py` reads `standby_namenode`, which is
  then not bound, and raises.
- The Mesos set-ups of `mesos_euca_emi.py` run `setup-mesos2.sh`, which is not in this
  repository; it may succeed or fail.

### The run

`MesosLaunchers`: either launcher, a cluster of one slave and up to three masters, two
launches, any actions, failures and interruptions.  It checks the types, `OneLaunch`,
`NoStrayNode`, `DestroyIsComplete`, `NoBareGroups`, `SetupAfterBoot`, `NeverStuck` and
the refinement `FillsPools`.
Two zones and a `ZOO_NUM` of three give remainders to `GetPartition`; five ids hold a
cluster of one master, a slave and three ZooKeeper nodes, or one whose three masters
are the ensemble, and what a second launch needs to meet the remains of a first; the
cloud refuses a launch half-way when the ids are used up.  Two launches are the
fewest of which one meets what the other left.

`NeverStuck` stands for liveness: an invocation can take a step, or an instance it
waits for is pending, which the cloud ends.  That is what a wait that cannot come to an
end would break, and it needs no fairness.

`FillsPools` is `Pool` of section 3, for each group that a launch looks at: slaves and
masters of `mesos_euca.py`, and the one group of `mesos_euca_emi.py`, which it fills with
slaves, masters and additional ZooKeeper nodes (`EmiNodes`) in its loop over the zones and
two more steps.  `due` is what that sum, or the part of it for the group, has over
the lists of the invocation.  The group for ZooKeeper nodes of `mesos_euca.py` is no
`Pool`: a launch does not check it and fills it beside the nodes of an earlier one.

What the model shows and no property forbids: `mesos_euca.py` announces `--ft` ZooKeeper
nodes (line 400) and runs three, whatever `--ft` says beyond one; `mesos_euca_emi.py`
asks the cloud for additional ones also when none or fewer are left to run (419).  What
the size of an ensemble should be the code does not say.  A launch of `mesos_euca.py` does not look
for ZooKeeper nodes of an earlier one (line 313), so they stay beside its own; its
`--delete-groups` leaves `<cluster>-zoo`, whose rules keep the cloud from deleting the other
two, so that with a zoo group that was authorized the three attempts fail.
`DestroyIsComplete` says that the destroy then reports it.

### Proofs

`MesosEucaProofs` proves `TypeCorrect`, `LaunchIsOne`, `NoNodeAstray`, `DestroyCompletes`,
`SetupFollowsBoot` and `RunsHaveRules` for every number of ids, slaves, zones and masters, with crashes
and failures anywhere.  As for Spark, the invariant carries what the check saw to where
it is used: before the first run nothing active is of another launch, the lists hold
all that is active, what is still active is still in `todo` and what groups exist are
still in `names`; and for `SetupFollowsBoot`, the lists that were waited for have
settled and nothing pending is added to them.

`RunsHaveRules` (`NoBareGroups`) rests on `RulesInv`: the groups that the loop over the
groups has been through have rules, because a group that has none gets those that name
groups or, when a launch was interrupted after them, keeps what it has.  That the
rules are complete is not promised, here as in `SparkEuca`.

`LaunchersFillPools` proves the refinement for both launchers, from two further
invariants: `Asked`, that a launch has a number of masters it was asked for, and
`SizeInv`, that in each round of the loop over the zones a launch has `Share(n)` slaves,
and all of them after it, that a launch of `mesos_euca_emi.py` never takes over a
master, and that instances that are new are disjoint from those it lists already.  The
check of `mesos_euca_emi.py` claims one group for all roles; that no role runs more
than its part of what is due is the numbers of `SizeInv`, that the lists do not overlap
is that new instances are new (`NewAddUp`).

*Only model-checked*: `NeverStuck`, which is about ENABLED.

## 7. Services: `ServiceControl`

`mesos-master.sh` under `templates/root/mesos-config` is the init script of the Mesos
master; `mesos-slave.sh`, `storm-nimbus.sh` and `storm-ui.sh` are copies with other
names.  It knows of the daemon what its PID file says: `start` refuses when the file
names a process, `stop` kills with -9 what the file names, `restart` does both.  monit
starts, every 30 seconds, a service whose PID file names no process.

| State | Code |
|---|---|
| `daemons` | what `ps ax \| grep` shows |
| `others` | the other processes; they may get the PID of a daemon that died |
| `file` | the PIDs in `PID_FILE` |
| `script[c]` | where the script is that caller `c` runs, and its argument |

| Actions | Code (lines of `mesos-master.sh`) |
|---|---|
| `Command`, `MonitCycle` | the operator and the set-up scripts; monit (`monitrc.custom.master` 216-218) |
| `Check`, `Launch`, `WritePids` | `start`: `is_running`, `nohup`, and `ps` after three seconds (47-58) |
| `Kill`, `RemoveFile` | `stop`, and the first half of `restart` (63-65, 68) |
| `Die`, `OtherBegins`, `OtherEnds`, `Reboot` | the node |

Choices made when translating:

- After `sleep 3.0` `ps` shows the daemon; without it (mutant) the file would be empty.
- `kill -9` ends a process at once.
- A reboot keeps `/var/run` or not: both.  It interrupts scripts.  No other interruption
  of a script is modelled; one in the three seconds leaves a daemon that no file names.
- With two PIDs in the file `[ -d /proc/$pid ]` is an error, taken for "not running";
  monit reads the first of them.
- Of the other processes only those matter that have a PID of the file, so only they are
  there.  Whether a second daemon survives beside the first is the daemon's business: it
  may die (`Die`), or not.
- `alone`, in the record of a script, is history: no other script ran while this one
  did.  `StopEndsAll` is about such stops; nothing in the code reads it.

### Runs

Nothing in the scripts makes a caller wait for another, so in the model nobody waits.

| Run | Instance | Shows |
|---|---|---|
| `Services` | six PIDs; an operator and monit; three commands and reboots in all; weak fairness | types, `DaemonsListed`, `StopEndsAll`, `FoundAgain`, `Supervised` |
| `ServicesRace` | the same | *violation* of `OneDaemon` |

`ServicesRace`: the operator's `start` has launched its daemon and sleeps for three
seconds, monit finds no PID file and starts a second, within six steps.  The same comes
of a `restart`, which removes the file first.  The script is then blind: its file names two PIDs,
which `is_running` takes for none, so every further `start` adds a daemon and writes
its PID too.  What is left of the promise is what `Services` checks:

- `DaemonsListed`: a start writes what `ps` shows, so a file that is there, when no start
  has yet to write, names all daemons, however many starts raced;
- `StopEndsAll`: hence a stop that nobody interferes with ends them all;
- `FoundAgain`: a daemon that the file does not name, because a stop removed the file
  behind a start, is named again, by the next start of monit;
- `Supervised`: a service that is down comes back.  It excepts a PID that was given to
  another process: then script and monit think that the service runs.

*Bounds.*  A launch needs a free PID; with six, three commands and the cycles of monit
do not use them up.  Three commands and reboots are a start, what goes wrong with it and
a stop or restart that meets it.  One other process at a time is enough to take the
PID of a daemon from the file.

*Fairness.*  `WF(Step(c))`: the script is sequential and waits for nothing;
`WF(MonitCycle)`: monit's cycle comes round every 30 seconds.  Daemons need not die,
and operators need not command.

### Proofs

`ServiceControlProofs` proves `TypeCorrect`, `DaemonsAreListed` and `StopIsComplete` for any
PIDs, callers and commands, in every interleaving.  `StopEndsAll` rests on `DaemonsListed`,
when `Kill` kills what the file names; but a start in its three seconds has a daemon that
the file does not name.  The invariant needs `AloneIsOnly`: a script that is alone is the
only one running, which `Begin` takes from the others when it adds one.
*Only model-checked*: `FoundAgain` and `Supervised`, liveness properties.

## 8. Not modelled

- `mesos_euca_generic.py`: Python 2 does not compile it.
- The set-up scripts after the distribution loops: ZooKeeper, HDFS, the frameworks
  and modules are lists of remote commands whose results nothing looks at.  What is right
  about their order is in the services they start, not in this repository.
- `kafka-server.sh`, whose PID file the daemon's output and the script both write, and
  `zookeeper-server`, which is Cloudera's script and waits for its process.
- Swap and packages on the nodes, on which no step of the program depends.
- Backup, restoring and replacing masters: a few commands run by hand or at night,
  without a state of their own.
- Template deployment: text substitution, and one chain of comparisons.
- Downloads and package installation as such; the contents of configuration files;
  `bundle_vol.sh`; tests and examples of the modules.
