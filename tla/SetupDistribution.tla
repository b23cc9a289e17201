-------------------------- MODULE SetupDistribution --------------------------
(***************************************************************************)
(* How the first master of a cluster prepares the other nodes: the loops   *)
(* of setup.sh, setup-mesos.sh, setup-mesos-emi.sh and                     *)
(* setup-mesos-generic.sh that approve the nodes' ssh keys, copy           *)
(* /root/spark-euca to them and run its scripts there.  A command with &   *)
(* is a job that runs at any time before the next wait.  Nodes start       *)
(* answering at any time; the loops look at no exit code but the one of    *)
(* the approval.  The launcher runs the script again when its ssh fails,   *)
(* on start and on launch --resume: what nodes hold then stays.            *)
(***************************************************************************)
EXTENDS Integers, Sequences, FiniteSets

CONSTANTS
    Script,       \* which of the four scripts
    Slaves,       \* $SLAVES
    OtherMasters, \* $OTHER_MASTERS
    Zoos,         \* $ZOOS as the launcher filled it in, {} for NONE
    Count,        \* the word wc prints: a name no host answers to
    Cohost,       \* TRUE iff the masters run ZooKeeper
    MaxRuns       \* bound on the runs of the script

Scripts == {"setup", "setup-mesos", "setup-mesos-emi", "setup-mesos-generic"}

Hosts == Slaves \cup OtherMasters \cup Zoos
Nodes == Hosts \cup {Count}

ASSUME ScriptAssumption ==
    /\ Script \in Scripts
    /\ Count \notin Hosts
    /\ Cohost \in BOOLEAN
    /\ MaxRuns \in Nat
    /\ IsFiniteSet(Hosts)

VARIABLES
    up,        \* hosts that answer ssh
    pc,        \* where the script is
    phase,     \* which loop of Plan, when pc is "loop"
    list,      \* TODO or INSTANCES: the nodes the approval loop goes over
    failed,    \* NEW_TODO or NEW_INSTANCES
    tries,     \* TRIES
    todo,      \* nodes the current loop has still to visit
    jobs,      \* background jobs, and the command running in the foreground
    answered,  \* nodes whose approval succeeded in this run
    copied,    \* nodes with /root/spark-euca
    ready,     \* nodes where the slave setup script has run
    prepared,  \* nodes where prepare-slaves-*.sh has run
    missing,   \* nodes that were to run, in this run, a script they do not have
    runs       \* runs of the script so far

nodeVars == <<copied, ready, prepared>>
loopVars == <<phase, list, failed, tries, todo>>
vars == <<up, pc, loopVars, jobs, answered, nodeVars, missing, runs>>

-----------------------------------------------------------------------------
(* The four scripts.                                                       *)

\* The Mesos scripts for images assign the count of the lines of zoos to ZOOS,
\* not to NUM_ZOOS.
ZooWords ==
    IF Zoos # {} /\ Script \in {"setup-mesos-emi", "setup-mesos-generic"}
    THEN {Count} ELSE Zoos

StandaloneList == Slaves \cup OtherMasters

MesosList == Slaves \cup OtherMasters \cup ZooWords

InstanceList == Slaves \cup (IF Cohost THEN {} ELSE OtherMasters) \cup ZooWords

ApprovalList ==
    IF Script = "setup" THEN StandaloneList
    ELSE IF Script = "setup-mesos" THEN MesosList
    ELSE InstanceList

\* The loops after the approval: the script run on each node of a list, in the
\* background up to a wait or one node after the other.
Loop(job, over, background) ==
    [job |-> job, over |-> over, background |-> background]

StandalonePlan ==
    <<Loop("rsync", "others", TRUE), Loop("setup-slave", "others", TRUE),
      Loop("prepare-slaves", "others", TRUE)>>

MesosPlan ==
    <<Loop("rsync", "others", TRUE), Loop("setup-slave", "everyone", TRUE),
      Loop("prepare-slaves", "others", TRUE)>>

EmiPlan == <<Loop("rsync", "list", TRUE), Loop("setup-slave", "slaves", FALSE)>>

GenericPlan ==
    <<Loop("rsync", "list", FALSE), Loop("setup-slave", "masters", TRUE),
      Loop("setup-slave", "slaves", TRUE)>>

Plan ==
    IF Script = "setup" THEN StandalonePlan
    ELSE IF Script = "setup-mesos" THEN MesosPlan
    ELSE IF Script = "setup-mesos-emi" THEN EmiPlan
    ELSE GenericPlan

\* The nodes loop k goes over.  The scripts for images copy to INSTANCES, which
\* the approval loop has been assigning to.
NodesOf(k) ==
    LET over == Plan[k].over
    IN  IF over = "others" THEN StandaloneList
        ELSE IF over = "everyone" THEN MesosList
        ELSE IF over = "masters" THEN OtherMasters
        ELSE IF over = "slaves" THEN Slaves
        ELSE list

-----------------------------------------------------------------------------
Init ==
    /\ up \in SUBSET Hosts
    /\ pc = "begin"
    /\ phase = 0
    /\ list = {} /\ failed = {} /\ tries = 0 /\ todo = {}
    /\ jobs = {}
    /\ answered = {}
    /\ copied = {} /\ ready = {} /\ prepared = {}
    /\ missing = {}
    /\ runs = 1

\* The script wants JAVA_HOME, SCALA_HOME and a terminal; then the list of the
\* approval loop is made.
Begin ==
    /\ pc = "begin"
    /\ \/ /\ pc' = "approve"
          /\ list' = ApprovalList
          /\ todo' = ApprovalList
          /\ failed' = {}
          /\ tries' = 0
          /\ missing' = {}
       \/ pc' = "exited" /\ UNCHANGED <<list, todo, failed, tries, missing>>
    /\ UNCHANGED <<up, phase, jobs, answered, nodeVars, runs>>

\* ssh $node echo -n
Approve(n) ==
    /\ pc = "approve"
    /\ n \in todo
    /\ todo' = todo \ {n}
    /\ IF n \in up
       THEN answered' = answered \cup {n} /\ UNCHANGED failed
       ELSE failed' = failed \cup {n} /\ UNCHANGED answered
    /\ UNCHANGED <<up, pc, phase, list, tries, jobs, nodeVars, missing, runs>>

EnterLoop(k) ==
    /\ phase' = k
    /\ IF k \in 1..Len(Plan) THEN pc' = "loop" /\ todo' = NodesOf(k)
       ELSE pc' = "done" /\ UNCHANGED todo

\* Mutants of EndRound: one round more, one less; TRIES is not counted.
EndRoundLate ==
    /\ pc = "approve" /\ todo = {}
    /\ tries' = tries + 1
    /\ IF failed # {} /\ tries + 1 <= 4
       THEN /\ list' = failed /\ todo' = failed /\ failed' = {}
            /\ UNCHANGED <<pc, phase>>
       ELSE EnterLoop(1) /\ UNCHANGED <<list, failed>>
    /\ UNCHANGED <<up, jobs, answered, nodeVars, missing, runs>>

EndRoundEarly ==
    /\ pc = "approve" /\ todo = {}
    /\ tries' = tries + 1
    /\ IF failed # {} /\ tries + 1 < 3
       THEN /\ list' = failed /\ todo' = failed /\ failed' = {}
            /\ UNCHANGED <<pc, phase>>
       ELSE EnterLoop(1) /\ UNCHANGED <<list, failed>>
    /\ UNCHANGED <<up, jobs, answered, nodeVars, missing, runs>>

EndRoundForever ==
    /\ pc = "approve" /\ todo = {}
    /\ IF failed # {} /\ tries < 4
       THEN /\ list' = failed /\ todo' = failed /\ failed' = {}
            /\ UNCHANGED <<pc, phase>>
       ELSE EnterLoop(1) /\ UNCHANGED <<list, failed>>
    /\ UNCHANGED <<up, tries, jobs, answered, nodeVars, missing, runs>>

\* A round is over.  The nodes that failed are tried again, in four rounds.
EndRound ==
    /\ pc = "approve" /\ todo = {}
    /\ tries' = tries + 1
    /\ IF failed # {} /\ tries + 1 < 4
       THEN /\ list' = failed /\ todo' = failed /\ failed' = {}
            /\ UNCHANGED <<pc, phase>>
       ELSE EnterLoop(1) /\ UNCHANGED <<list, failed>>
    /\ UNCHANGED <<up, jobs, answered, nodeVars, missing, runs>>

\* The command of the loop for one node, in the background or not.
Launch(n) ==
    /\ pc = "loop"
    /\ n \in todo
    /\ ~Plan[phase].background => jobs = {}
    /\ todo' = todo \ {n}
    /\ jobs' = jobs \cup {<<Plan[phase].job, n>>}
    /\ UNCHANGED <<up, pc, phase, list, failed, tries, answered, nodeVars,
                   missing, runs>>

\* A command runs, or fails because the node does not answer or the script is
\* not there.
Run(job, n) ==
    /\ <<job, n>> \in jobs
    /\ jobs' = jobs \ {<<job, n>>}
    /\ copied' = IF job = "rsync" /\ n \in up THEN copied \cup {n} ELSE copied
    /\ ready' = IF job = "setup-slave" /\ n \in up \cap copied
                THEN ready \cup {n} ELSE ready
    /\ prepared' = IF job = "prepare-slaves" /\ n \in up \cap copied
                   THEN prepared \cup {n} ELSE prepared
    /\ missing' = IF job # "rsync" /\ n \in up \ copied
                  THEN missing \cup {n} ELSE missing
    /\ UNCHANGED <<up, pc, loopVars, answered, runs>>

\* Mutant of EndLoop: no wait.
EndLoopNoWait ==
    /\ pc = "loop" /\ todo = {}
    /\ EnterLoop(phase + 1)
    /\ UNCHANGED <<up, list, failed, tries, jobs, answered, nodeVars, missing, runs>>

\* wait
EndLoop ==
    /\ pc = "loop" /\ todo = {} /\ jobs = {}
    /\ EnterLoop(phase + 1)
    /\ UNCHANGED <<up, list, failed, tries, jobs, answered, nodeVars, missing, runs>>

\* The script ended or its terminal hung up, which ends its jobs as well, and
\* the launcher runs it again.
Rerun ==
    /\ runs < MaxRuns
    /\ pc # "begin"
    /\ pc' = "begin"
    /\ phase' = 0
    /\ jobs' = {}
    /\ answered' = {}
    /\ runs' = runs + 1
    /\ UNCHANGED <<up, list, failed, tries, todo, nodeVars, missing>>

\* Slow or restarted nodes.  A node that has answered keeps answering for the
\* rest of the run.
ComesUp(n) ==
    /\ n \in Hosts \ up
    /\ up' = up \cup {n}
    /\ UNCHANGED <<pc, loopVars, jobs, answered, nodeVars, missing, runs>>

GoesDown(n) ==
    /\ n \in up \ answered
    /\ up' = up \ {n}
    /\ UNCHANGED <<pc, loopVars, jobs, answered, nodeVars, missing, runs>>

Step ==
    \/ Begin \/ EndRound \/ EndLoop
    \/ \E n \in Nodes : Approve(n) \/ Launch(n)
    \/ \E n \in Nodes, job \in {"rsync", "setup-slave", "prepare-slaves"} : Run(job, n)

Next == Step \/ Rerun \/ \E n \in Hosts : ComesUp(n) \/ GoesDown(n)

Spec == Init /\ [][Next]_vars

\* The script and its jobs go on; nodes need never come up.
FairSpec == Spec /\ WF_vars(Step)

-----------------------------------------------------------------------------
(* Properties.                                                             *)

\* Every variable has its type.
TypeOK ==
    /\ up \subseteq Hosts
    /\ pc \in {"begin", "approve", "loop", "done", "exited"}
    /\ phase \in 0..Len(Plan) + 1
    /\ list \subseteq Nodes /\ failed \subseteq Nodes /\ todo \subseteq Nodes
    /\ tries \in 0..4
    /\ jobs \subseteq {"rsync", "setup-slave", "prepare-slaves"} \X Nodes
    /\ answered \subseteq Hosts
    /\ copied \subseteq Hosts /\ ready \subseteq Hosts /\ prepared \subseteq Hosts
    /\ missing \subseteq Hosts
    /\ runs \in Nat

\* "we retry failed slaves up to 3 times": a node the script goes on without has
\* failed in the fourth round, and no node that failed is forgotten.
GivenUpAfterFour ==
    pc \in {"loop", "done"} =>
        /\ failed = ApprovalList \ answered
        /\ failed # {} => tries = 4

\* "We need to rsync spark-euca before we can run setup-slave.sh on other cluster
\* nodes": no node whose approval succeeded misses a script it is told to run,
\* whatever else is slow, fails or is interrupted.
SetupHasFiles == missing \cap answered = {}

\* The steps of the abstract rollout node n has been given.
StepsOf(n) ==
    (IF n \in copied THEN {1} ELSE {}) \cup (IF n \in ready THEN {2} ELSE {})
        \cup (IF n \in prepared THEN {3} ELSE {})

Promise == INSTANCE Rollout WITH
    Nodes <- Hosts,
    Steps <- 3,
    step <- phase,
    reached <- answered,
    past <- [n \in Hosts |-> StepsOf(n)]

\* setup.sh, and setup-mesos.sh without ZooKeeper nodes, keep the nodes that
\* answered together: copy, slave setup and packages are barriers.
KeepsTogether == Promise!Spec

\* The script ends although nodes may never answer.
ScriptEnds == <>[](pc \in {"done", "exited"})

=============================================================================
