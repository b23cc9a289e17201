----------------------- MODULE SetupDistributionProofs -----------------------
(***************************************************************************)
(* What the distribution loops guarantee for any number of nodes and runs. *)
(***************************************************************************)
EXTENDS SetupDistribution, TLAPS

Jobs == {"rsync", "setup-slave", "prepare-slaves"}
LoopCount == Len(Plan)

\* The control of the script, whichever of the four it is.
Control ==
    /\ pc \in {"begin", "approve", "exited"} => phase = 0 /\ jobs = {}
    /\ pc \in {"begin", "exited"} => answered = {}
    /\ pc = "approve" => missing = {} /\ tries \in 0..3
    /\ pc = "loop" => phase \in 1..Len(Plan)
    /\ pc = "done" => phase = Len(Plan) + 1 /\ jobs = {}

\* In the approval loop a node has answered, has failed in this round or is
\* still to be tried.
Approval ==
    /\ answered \subseteq up
    /\ pc = "approve" => ApprovalList \ answered = failed \cup todo /\ failed \cap todo = {}
    /\ pc \in {"loop", "done"} => failed = ApprovalList \ answered
    /\ pc \in {"loop", "done"} /\ failed # {} => tries = 4
    /\ answered \subseteq ApprovalList

BaseInv == TypeOK /\ Control /\ Approval

\* What each of the four scripts does in its loops.
LEMMA PlanFacts ==
    /\ Len(Plan) \in {2, 3}
    /\ \A k \in 1..Len(Plan) : Plan[k].job \in Jobs
<1>1. CASE Script = "setup"
  <2>1. Plan = StandalonePlan
    BY <1>1 DEF Plan
  <2> QED
    BY <2>1 DEF StandalonePlan, Loop, Jobs
<1>2. CASE Script = "setup-mesos"
  <2>1. Plan = MesosPlan
    BY <1>2 DEF Plan
  <2> QED
    BY <2>1 DEF MesosPlan, Loop, Jobs
<1>3. CASE Script = "setup-mesos-emi"
  <2>1. Plan = EmiPlan
    BY <1>3 DEF Plan
  <2> QED
    BY <2>1 DEF EmiPlan, Loop, Jobs
<1>4. CASE Script = "setup-mesos-generic"
  <2>1. Plan = GenericPlan
    BY <1>4 DEF Plan
  <2> QED
    BY <2>1 DEF GenericPlan, Loop, Jobs
<1> QED
  BY <1>1, <1>2, <1>3, <1>4, ScriptAssumption DEF Scripts

LEMMA ListsAreNodes ==
    /\ ApprovalList \subseteq Nodes
    /\ TypeOK => \A k \in 1..Len(Plan) : NodesOf(k) \subseteq Nodes
<1>1. ZooWords \subseteq Nodes /\ Slaves \subseteq Nodes /\ OtherMasters \subseteq Nodes
  BY DEF ZooWords, Nodes, Hosts
<1>2. StandaloneList \subseteq Nodes /\ MesosList \subseteq Nodes /\ InstanceList \subseteq Nodes
  BY <1>1 DEF StandaloneList, MesosList, InstanceList
<1> QED
  BY <1>1, <1>2 DEF ApprovalList, NodesOf, TypeOK

LEMMA BaseInit == Init => BaseInv
<1> SUFFICES ASSUME Init PROVE BaseInv
  OBVIOUS
<1>1. TypeOK
  BY PlanFacts DEF Init, TypeOK
<1>2. Control /\ Approval
  BY DEF Init, Control, Approval
<1> QED
  BY <1>1, <1>2 DEF BaseInv

\* Entering a loop, or the end of the script.
LEMMA EnterFacts ==
    ASSUME TypeOK, NEW k \in 1..Len(Plan) + 1, EnterLoop(k)
    PROVE  /\ phase' = k
           /\ \/ pc' = "loop" /\ k \in 1..Len(Plan)
              \/ pc' = "done" /\ k = Len(Plan) + 1
           /\ todo' \subseteq Nodes
<1>1. Len(Plan) \in Nat
  BY PlanFacts
<1>2. CASE k \in 1..Len(Plan)
  BY <1>1, <1>2, ListsAreNodes DEF EnterLoop
<1>3. CASE k \notin 1..Len(Plan)
  BY <1>1, <1>3 DEF EnterLoop, TypeOK
<1> QED
  BY <1>2, <1>3

\* Every step keeps the types, the control and the approval.
LEMMA BaseStep == BaseInv /\ [Next]_vars => BaseInv'
<1> SUFFICES ASSUME BaseInv, [Next]_vars PROVE BaseInv'
  OBVIOUS
<1> USE DEF BaseInv
<1>0. Len(Plan) \in {2, 3}
  BY PlanFacts
<1>1. CASE Begin
  <2>1. TypeOK'
    BY <1>0, <1>1, ListsAreNodes DEF Begin, TypeOK, nodeVars
  <2>2. Control' /\ Approval'
    BY <1>0, <1>1 DEF Begin, TypeOK, Control, Approval
  <2> QED
    BY <2>1, <2>2
<1>2. ASSUME NEW n \in Nodes, Approve(n) PROVE BaseInv'
  <2>1. TypeOK'
    BY <1>0, <1>2 DEF Approve, TypeOK, nodeVars
  <2>2. Control'
    BY <1>2 DEF Approve, TypeOK, Control
  <2>3. n \in ApprovalList /\ n \notin failed
    BY <1>2 DEF Approve, Approval
  <2>4. Approval'
    BY <1>2, <2>3 DEF Approve, Approval
  <2> QED
    BY <2>1, <2>2, <2>4
<1>3. CASE EndRound
  <2>1. CASE failed # {} /\ tries + 1 < 4
    <3>1. TypeOK'
      BY <1>0, <1>3, <2>1 DEF EndRound, TypeOK, nodeVars, Control
    <3>2. Control' /\ Approval'
      BY <1>3, <2>1 DEF EndRound, TypeOK, Control, Approval
    <3> QED
      BY <3>1, <3>2
  <2>2. CASE ~(failed # {} /\ tries + 1 < 4)
    <3>1. EnterLoop(1) /\ UNCHANGED <<up, jobs, answered, nodeVars, missing, runs, list, failed>>
          /\ tries' = tries + 1
      BY <1>3, <2>2 DEF EndRound
    <3>2. /\ phase' = 1 /\ pc' = "loop"
          /\ todo' \subseteq Nodes
      BY <1>0, <3>1, EnterFacts
    <3>3. TypeOK'
      BY <1>0, <1>3, <3>1, <3>2 DEF EndRound, TypeOK, nodeVars, Control
    <3>4. Control' /\ Approval'
      BY <1>0, <1>3, <2>2, <3>1, <3>2 DEF EndRound, TypeOK, Control, Approval
    <3> QED
      BY <3>3, <3>4
  <2> QED
    BY <2>1, <2>2
<1>4. ASSUME NEW n \in Nodes, Launch(n) PROVE BaseInv'
  <2>1. Plan[phase].job \in Jobs
    BY <1>4, PlanFacts DEF Launch, Control
  <2>2. TypeOK'
    BY <1>4, <2>1 DEF Launch, TypeOK, nodeVars, Jobs
  <2>3. Control' /\ Approval'
    BY <1>4 DEF Launch, Control, Approval
  <2> QED
    BY <2>2, <2>3
<1>5. ASSUME NEW n \in Nodes, NEW job \in Jobs, Run(job, n) PROVE BaseInv'
  <2>1. TypeOK'
    BY <1>5 DEF Run, TypeOK, loopVars
  <2>2. jobs # {}
    BY <1>5 DEF Run
  <2>3. Control' /\ Approval'
    BY <1>5, <2>2 DEF Run, TypeOK, Control, Approval, loopVars
  <2> QED
    BY <2>1, <2>3
<1>6. CASE EndLoop
  <2>1. /\ phase \in 1..Len(Plan) /\ EnterLoop(phase + 1)
        /\ UNCHANGED <<up, list, failed, tries, jobs, answered, nodeVars, missing, runs>>
        /\ pc = "loop" /\ jobs = {}
    BY <1>6 DEF EndLoop, Control
  <2>2. phase + 1 \in 1..Len(Plan) + 1
    BY <1>0, <2>1
  <2>3. /\ phase' = phase + 1
        /\ \/ pc' = "loop" /\ phase' \in 1..Len(Plan)
           \/ pc' = "done" /\ phase' = Len(Plan) + 1
        /\ todo' \subseteq Nodes
    BY <2>1, <2>2, EnterFacts
  <2>4. TypeOK'
    BY <1>0, <2>1, <2>2, <2>3 DEF TypeOK, nodeVars
  <2>5. Control' /\ Approval'
    BY <2>1, <2>3 DEF Control, Approval
  <2> QED
    BY <2>4, <2>5
<1>7. CASE Rerun
  <2>1. TypeOK'
    BY <1>0, <1>7 DEF Rerun, TypeOK, nodeVars
  <2>2. Control' /\ Approval'
    BY <1>7 DEF Rerun, Control, Approval
  <2> QED
    BY <2>1, <2>2
<1>8. ASSUME NEW n \in Hosts, ComesUp(n) \/ GoesDown(n) PROVE BaseInv'
  <2>1. TypeOK' /\ Control' /\ Approval'
    BY <1>8 DEF ComesUp, GoesDown, TypeOK, Control, Approval, loopVars, nodeVars
  <2> QED
    BY <2>1
<1>9. CASE UNCHANGED vars
  BY <1>9 DEF vars, TypeOK, Control, Approval, loopVars, nodeVars
<1> QED
  BY <1>1, <1>2, <1>3, <1>4, <1>5, <1>6, <1>7, <1>8, <1>9 DEF Next, Step, Jobs

\* Every variable keeps its type, for every cluster, script and number of runs.
THEOREM DistributionTypes == Spec => []TypeOK
<1>1. BaseInv => TypeOK
  BY DEF BaseInv
<1> QED
  BY BaseInit, BaseStep, <1>1, PTL DEF Spec

\* A script goes on without a node only after that node failed in the fourth
\* round, and remembers exactly the nodes that did not answer.
THEOREM GivesUpAfterFour == Spec => []GivenUpAfterFour
<1>1. BaseInv => GivenUpAfterFour
  BY DEF BaseInv, Approval, GivenUpAfterFour
<1> QED
  BY BaseInit, BaseStep, <1>1, PTL DEF Spec

-----------------------------------------------------------------------------
(* The scripts whose loops go over the nodes of the approval.  The theorems *)
(* below do not hold of the others: setup-mesos.sh does not copy its files  *)
(* to ZooKeeper nodes, and those for images copy to what is left of the     *)
(* list of the approval.                                                    *)

Together == Script = "setup" \/ (Script = "setup-mesos" /\ Zoos = {})

\* In loop phase, the commands on the way are those of the loop; a node that
\* answered is still to be visited, has its command on the way or has been
\* through it, and has been through the loops before.
InLoop ==
    /\ \A n \in Nodes, job \in Jobs : <<job, n>> \in jobs => job = Plan[phase].job
    /\ \A n \in answered :
          n \in todo \/ <<Plan[phase].job, n>> \in jobs \/ phase \in StepsOf(n)
    /\ \A n \in answered : phase > 1 => n \in copied
    /\ \A n \in answered : phase > 2 => n \in ready

Barriers ==
    /\ pc = "loop" => InLoop
    /\ SetupHasFiles

LEMMA TogetherFacts ==
    ASSUME Together
    PROVE  /\ Len(Plan) = 3
           /\ Plan[1].job = "rsync" /\ Plan[2].job = "setup-slave"
           /\ Plan[3].job = "prepare-slaves"
           /\ ApprovalList = StandaloneList
           /\ \A k \in 1..3 : NodesOf(k) = StandaloneList
<1>1. CASE Script = "setup"
  <2>1. Plan = StandalonePlan
    BY <1>1 DEF Plan
  <2> QED
    BY <1>1, <2>1 DEF StandalonePlan, Loop, ApprovalList, NodesOf
<1>2. CASE Script = "setup-mesos" /\ Zoos = {}
  <2>1. Plan = MesosPlan
    BY <1>2 DEF Plan
  <2>2. MesosList = StandaloneList
    BY <1>2 DEF MesosList, StandaloneList, ZooWords
  <2> QED
    BY <1>2, <2>1, <2>2 DEF MesosPlan, Loop, ApprovalList, NodesOf
<1> QED
  BY <1>1, <1>2 DEF Together

\* A loop is entered when every node that answered has been through the one
\* before, with all of them still to be visited.
LEMMA EnterBarrier ==
    ASSUME Together, BaseInv, NEW k \in 1..4, EnterLoop(k), jobs' = {},
           UNCHANGED <<answered, nodeVars, missing>>, SetupHasFiles,
           \A n \in answered : /\ k > 1 => n \in copied
                               /\ k > 2 => n \in ready
    PROVE  Barriers'
<1>1. SetupHasFiles'
  BY DEF SetupHasFiles, nodeVars
<1>2. ASSUME pc' = "loop" PROVE InLoop'
  <2>1. k \in 1..3 /\ todo' = StandaloneList /\ phase' = k
    BY <1>2, TogetherFacts DEF EnterLoop
  <2>2. answered' \subseteq todo'
    BY <2>1, TogetherFacts DEF BaseInv, Approval
  <2> QED
    BY <2>1, <2>2 DEF InLoop, nodeVars
<1> QED
  BY <1>1, <1>2 DEF Barriers

LEMMA BarriersStep ==
    ASSUME Together, BaseInv, Barriers, [Next]_vars
    PROVE  Barriers'
<1> USE DEF BaseInv
<1>0. BaseInv'
  BY BaseStep
<1>1. CASE Begin
  BY <1>1 DEF Begin, Barriers, SetupHasFiles
<1>2. ASSUME NEW n \in Nodes, Approve(n) PROVE Barriers'
  <2>1. pc' = "approve" /\ missing' = {}
    BY <1>2 DEF Approve, Control
  <2> QED
    BY <2>1 DEF Barriers, SetupHasFiles
<1>3. CASE EndRound
  <2>1. CASE failed # {} /\ tries + 1 < 4
    BY <1>3, <2>1 DEF EndRound, Barriers, SetupHasFiles
  <2>2. CASE ~(failed # {} /\ tries + 1 < 4)
    <3>1. /\ EnterLoop(1) /\ UNCHANGED <<answered, nodeVars, missing>>
          /\ jobs' = {}
      BY <1>3, <2>2 DEF EndRound, Control
    <3>2. SetupHasFiles
      BY DEF Barriers
    <3> QED
      BY <3>1, <3>2, EnterBarrier
  <2> QED
    BY <2>1, <2>2
<1>4. ASSUME NEW n \in Nodes, Launch(n) PROVE Barriers'
  <2>1. SetupHasFiles'
    BY <1>4 DEF Launch, Barriers, SetupHasFiles
  <2>2. InLoop /\ UNCHANGED <<phase, answered, copied, ready, prepared>>
        /\ todo' = todo \ {n} /\ jobs' = jobs \cup {<<Plan[phase].job, n>>}
    BY <1>4 DEF Launch, Barriers, nodeVars
  <2>3. InLoop'
    BY <2>2 DEF InLoop, StepsOf
  <2> QED
    BY <2>1, <2>3 DEF Barriers
<1>5. ASSUME NEW n \in Nodes, NEW job \in Jobs, Run(job, n) PROVE Barriers'
  <2>1. pc = "loop" /\ UNCHANGED <<pc, phase, todo, answered>>
    BY <1>5 DEF Run, Control, TypeOK, loopVars
  <2>2. InLoop /\ phase \in 1..3 /\ job = Plan[phase].job
    BY <1>5, <2>1, TogetherFacts DEF Run, Barriers, InLoop, Control
  <2>3. SetupHasFiles'
    <3>1. job # "rsync" /\ n \in answered => n \in copied
      BY <2>2, TogetherFacts DEF InLoop
    <3> QED
      BY <1>5, <2>1, <3>1 DEF Run, Barriers, SetupHasFiles
  <2>4. jobs' = jobs \ {<<job, n>>}
    BY <1>5 DEF Run
  <2>5. copied \subseteq copied' /\ ready \subseteq ready' /\ prepared \subseteq prepared'
    BY <1>5 DEF Run
  <2>6. n \in answered => phase \in StepsOf(n)'
    <3> SUFFICES ASSUME n \in answered PROVE phase \in StepsOf(n)'
      OBVIOUS
    <3>1. n \in up
      BY DEF Approval
    <3>2. phase = 1 => n \in copied'
      BY <1>5, <2>2, <3>1, TogetherFacts DEF Run
    <3>3. phase > 1 => n \in copied
      BY <2>2 DEF InLoop
    <3>4. phase = 2 => n \in ready'
      BY <1>5, <2>2, <3>1, <3>3, TogetherFacts DEF Run
    <3>5. phase = 3 => n \in prepared'
      BY <1>5, <2>2, <3>1, <3>3, TogetherFacts DEF Run
    <3> QED
      BY <2>2, <3>2, <3>4, <3>5 DEF StepsOf
  <2>7. ASSUME NEW m \in answered
        PROVE  m \in todo \/ <<Plan[phase].job, m>> \in jobs' \/ phase \in StepsOf(m)'
    <3>1. CASE m = n
      BY <2>6, <3>1, <2>7
    <3>2. CASE m # n /\ phase \in StepsOf(m)
      BY <2>5, <3>2 DEF StepsOf
    <3>3. CASE m # n /\ phase \notin StepsOf(m)
      BY <2>2, <2>4, <3>3 DEF InLoop
    <3> QED
      BY <3>1, <3>2, <3>3
  <2>8. InLoop'
    BY <2>1, <2>2, <2>4, <2>5, <2>7 DEF InLoop
  <2> QED
    BY <2>3, <2>8 DEF Barriers
<1>6. CASE EndLoop
  <2>1. /\ phase \in 1..3 /\ EnterLoop(phase + 1) /\ jobs' = {}
        /\ UNCHANGED <<answered, nodeVars, missing>>
        /\ InLoop /\ SetupHasFiles
    BY <1>6, TogetherFacts DEF EndLoop, Control, Barriers
  <2>2. \A n \in answered : phase \in StepsOf(n)
    BY <1>6, <2>1 DEF EndLoop, InLoop
  <2>3. \A n \in answered : /\ phase + 1 > 1 => n \in copied
                            /\ phase + 1 > 2 => n \in ready
    BY <2>1, <2>2 DEF InLoop, StepsOf
  <2> QED
    BY <2>1, <2>3, EnterBarrier
<1>7. CASE Rerun
  BY <1>7 DEF Rerun, Barriers, SetupHasFiles
<1>8. ASSUME NEW n \in Hosts, ComesUp(n) \/ GoesDown(n) PROVE Barriers'
  BY <1>8 DEF ComesUp, GoesDown, Barriers, InLoop, SetupHasFiles, StepsOf, loopVars, nodeVars
<1>9. CASE UNCHANGED vars
  BY <1>9 DEF vars, Barriers, InLoop, SetupHasFiles, StepsOf, loopVars, nodeVars
<1> QED
  BY <1>1, <1>2, <1>3, <1>4, <1>5, <1>6, <1>7, <1>8, <1>9 DEF Next, Step, Jobs

LEMMA BarriersHold ==
    ASSUME Together
    PROVE  Spec => [](BaseInv /\ Barriers)
<1>1. Init => BaseInv /\ Barriers
  BY BaseInit DEF Init, Barriers, SetupHasFiles
<1>2. BaseInv /\ Barriers /\ [Next]_vars => (BaseInv /\ Barriers)'
  BY BaseStep, BarriersStep
<1> QED
  BY <1>1, <1>2, PTL DEF Spec

\* With setup.sh, and setup-mesos.sh on a cluster without ZooKeeper nodes, no
\* node that answered is told to run a script it does not have.
THEOREM FilesBeforeScripts ==
    ASSUME Together
    PROVE  Spec => []SetupHasFiles
<1>1. BaseInv /\ Barriers => SetupHasFiles
  BY DEF Barriers
<1> QED
  BY BarriersHold, <1>1, PTL

-----------------------------------------------------------------------------
(* The refinement.                                                         *)

\* What a command adds to the steps its node has been given.
LEMMA RunGives ==
    ASSUME Together, BaseInv, Barriers, NEW n \in Nodes, NEW job \in Jobs, Run(job, n)
    PROVE  Promise!Next \/ UNCHANGED Promise!vars
<1> USE DEF BaseInv
<1>1. pc = "loop" /\ UNCHANGED <<phase, answered>>
  BY DEF Run, Control, TypeOK, loopVars
<1>2. phase \in 1..3 /\ job = Plan[phase].job
  BY <1>1, TogetherFacts DEF Run, Barriers, InLoop, Control
<1>3. /\ copied' = IF phase = 1 /\ n \in up THEN copied \cup {n} ELSE copied
      /\ ready' = IF phase = 2 /\ n \in up \cap copied THEN ready \cup {n} ELSE ready
      /\ prepared' = IF phase = 3 /\ n \in up \cap copied THEN prepared \cup {n} ELSE prepared
  BY <1>2, TogetherFacts DEF Run
<1>4. CASE n \in up /\ (phase = 1 \/ n \in copied)
  <2>1. n \in Hosts
    BY <1>4 DEF TypeOK
  <2>2. StepsOf(n)' = StepsOf(n) \cup {phase}
    BY <1>2, <1>3, <1>4 DEF StepsOf
  <2>3. \A m \in Hosts : m # n => StepsOf(m)' = StepsOf(m)
    BY <1>2, <1>3 DEF StepsOf
  <2>4. [m \in Hosts |-> StepsOf(m)]'
        = [[m \in Hosts |-> StepsOf(m)] EXCEPT ![n] = @ \cup {phase}]
    BY <2>1, <2>2, <2>3
  <2>5. Promise!Give(n)
    BY <1>1, <1>2, <2>4 DEF Promise!Give
  <2> QED
    BY <2>1, <2>5 DEF Promise!Next
<1>5. CASE ~(n \in up /\ (phase = 1 \/ n \in copied))
  <2>1. UNCHANGED <<copied, ready, prepared>>
    BY <1>2, <1>3, <1>5
  <2> QED
    BY <1>1, <2>1 DEF Promise!vars, StepsOf
<1> QED
  BY <1>4, <1>5

LEMMA StepRefines ==
    ASSUME Together, BaseInv, Barriers, [Next]_vars
    PROVE  Promise!Next \/ UNCHANGED Promise!vars
<1> USE DEF BaseInv
<1> DEFINE Still == UNCHANGED <<phase, answered, copied, ready, prepared>>
<1>0. Still => UNCHANGED Promise!vars
  BY DEF Promise!vars, StepsOf
<1>1. CASE Begin \/ UNCHANGED vars
  BY <1>0, <1>1 DEF Begin, vars, nodeVars, loopVars
<1>2. ASSUME NEW n \in Nodes, Approve(n) PROVE Promise!Next \/ UNCHANGED Promise!vars
  <2>1. CASE n \in up
    <3>1. n \in Hosts /\ phase = 0 /\ UNCHANGED <<phase, copied, ready, prepared>>
          /\ answered' = answered \cup {n}
      BY <1>2, <2>1 DEF Approve, Control, TypeOK, nodeVars
    <3>2. Promise!Reach(n)
      BY <3>1 DEF Promise!Reach, StepsOf
    <3> QED
      BY <3>1, <3>2 DEF Promise!Next
  <2>2. CASE n \notin up
    BY <1>0, <1>2, <2>2 DEF Approve, nodeVars
  <2> QED
    BY <2>1, <2>2
<1>3. CASE EndRound
  <2>1. CASE failed # {} /\ tries + 1 < 4
    BY <1>0, <1>3, <2>1 DEF EndRound, nodeVars
  <2>2. CASE ~(failed # {} /\ tries + 1 < 4)
    <3>1. phase = 0 /\ phase' = 1 /\ UNCHANGED <<answered, copied, ready, prepared>>
      BY <1>3, <2>2 DEF EndRound, EnterLoop, Control, nodeVars
    <3>2. Promise!Advance
      BY <3>1 DEF Promise!Advance, StepsOf
    <3> QED
      BY <3>2 DEF Promise!Next
  <2> QED
    BY <2>1, <2>2
<1>4. ASSUME NEW n \in Nodes, Launch(n) PROVE Promise!Next \/ UNCHANGED Promise!vars
  BY <1>0, <1>4 DEF Launch, nodeVars
<1>5. ASSUME NEW n \in Nodes, NEW job \in Jobs, Run(job, n)
      PROVE  Promise!Next \/ UNCHANGED Promise!vars
  BY <1>5, RunGives
<1>6. CASE EndLoop
  <2>1. /\ phase \in 1..3 /\ phase' = phase + 1
        /\ UNCHANGED <<answered, copied, ready, prepared>>
    BY <1>6, TogetherFacts DEF EndLoop, EnterLoop, Control, nodeVars
  <2>2. \A n \in answered : n \in Hosts /\ phase \in StepsOf(n)
    BY <1>6 DEF EndLoop, Barriers, InLoop, TypeOK
  <2>3. Promise!Advance
    BY <2>1, <2>2 DEF Promise!Advance, StepsOf
  <2> QED
    BY <2>3 DEF Promise!Next
<1>7. CASE Rerun
  <2>1. phase' = 0 /\ answered' = {} /\ UNCHANGED <<copied, ready, prepared>>
    BY <1>7 DEF Rerun, nodeVars
  <2>2. Promise!Restart
    BY <2>1 DEF Promise!Restart, StepsOf
  <2> QED
    BY <2>2 DEF Promise!Next
<1>8. ASSUME NEW n \in Hosts, ComesUp(n) \/ GoesDown(n)
      PROVE  Promise!Next \/ UNCHANGED Promise!vars
  BY <1>0, <1>8 DEF ComesUp, GoesDown, nodeVars, loopVars
<1> QED
  BY <1>1, <1>2, <1>3, <1>4, <1>5, <1>6, <1>7, <1>8 DEF Next, Step, Jobs

\* setup.sh, and setup-mesos.sh on a cluster without ZooKeeper nodes, implement
\* the rollout: copying, slave setup and packages are barriers for the nodes
\* that answered, whatever happens to the others and however often it is run.
THEOREM ImplementsRollout ==
    ASSUME Together
    PROVE  Spec => KeepsTogether
<1>1. Init => Promise!Init
  BY DEF Init, Promise!Init, StepsOf
<1>2. BaseInv /\ Barriers /\ [Next]_vars => [Promise!Next]_(Promise!vars)
  BY StepRefines
<1> QED
  BY BarriersHold, <1>1, <1>2, PTL DEF Spec, KeepsTogether, Promise!Spec

=============================================================================
