------------------------ MODULE NodePreparationProofs ------------------------
(***************************************************************************)
(* What happens to the volumes, for any number of nodes, runs and          *)
(* restarts.                                                               *)
(***************************************************************************)
EXTENDS NodePreparation, SetupDistributionProofs

\* What is not formatted was never formatted, and where the script stands tells
\* what is on the volume.
VolumeInv ==
    /\ VolumesTypeOK
    /\ \A n \in Hosts :
          /\ disk[n] \in {"absent", "raw"} => formats[n] = 0
          /\ formats[n] <= 1
          /\ at[n] = "mkfs" => disk[n] = "raw"
          /\ at[n] = "label" => disk[n] \in {"formatted", "labelled"}

-----------------------------------------------------------------------------
(* The nodes with volumes are nodes of the distribution.                   *)

LEMMA StepIsNext == [PreparationNext]_allVars => [Next]_vars
<1> SUFFICES ASSUME [PreparationNext]_allVars PROVE [Next]_vars
  OBVIOUS
<1>1. CASE MasterStep
  BY <1>1 DEF MasterStep, Next, Step
<1>2. CASE \E n \in Nodes, job \in {"rsync", "setup-slave", "prepare-slaves"} : Finish(job, n)
  BY <1>2 DEF Finish, Next, Step
<1>3. CASE \E n \in Hosts : Look(n) \/ Format(n) \/ Label(n) \/ Mount(n)
  <2>1. UNCHANGED vars
    BY <1>3 DEF Look, Format, Label, Mount
  <2> QED
    BY <2>1
<1>4. CASE HangUp
  BY <1>4 DEF HangUp, Next
<1>5. CASE \E n \in Hosts : Restart(n) \/ Return(n)
  BY <1>5 DEF Restart, Return, Next
<1>6. CASE UNCHANGED allVars
  <2>1. UNCHANGED vars
    BY <1>6 DEF allVars
  <2> QED
    BY <2>1
<1> QED
  BY <1>1, <1>2, <1>3, <1>4, <1>5, <1>6 DEF PreparationNext, PreparationStep

\* What was proved of the distribution holds with the volumes as well: a step of
\* a node's script is a stutter of it.
THEOREM PreparationDistributes == PreparationSpec => Spec
<1>1. PreparationInit => Init
  BY DEF PreparationInit
<1> QED
  BY <1>1, StepIsNext, PTL DEF PreparationSpec, Spec

-----------------------------------------------------------------------------
(* Formatting.                                                             *)

LEMMA VolumeInit == PreparationInit => VolumeInv
BY DEF PreparationInit, VolumeInv, VolumesTypeOK, Disks, Places

\* The place of a script changes on one node.
LEMMA GoesOnFacts ==
    ASSUME VolumesTypeOK, NEW n \in Hosts, NEW place \in Places, GoesOn(n, place)
    PROVE  /\ at' \in [Hosts -> Places]
           /\ at'[n] = place
           /\ \A m \in Hosts : m # n => at'[m] = at[m]
BY DEF VolumesTypeOK, GoesOn

LEMMA LookKeeps ==
    ASSUME VolumeInv, NEW n \in Hosts, Look(n)
    PROVE  VolumeInv'
<1> DEFINE place == IF disk[n] = "raw" THEN "mkfs"
                    ELSE IF disk[n] = "absent" \/ n \in mounted THEN "rest"
                    ELSE "label"
<1>1. place \in Places /\ GoesOn(n, place)
  BY DEF Look, Places
<1>2. /\ place = "mkfs" => disk[n] = "raw"
      /\ place = "label" => disk[n] \in {"formatted", "labelled"}
  BY DEF VolumeInv, VolumesTypeOK, Disks
<1>3. UNCHANGED <<disk, mounted, formats>>
  BY DEF Look, volumeVars
<1> HIDE DEF place
<1>4. /\ at' \in [Hosts -> Places]
      /\ at'[n] = place
      /\ \A m \in Hosts : m # n => at'[m] = at[m]
  BY <1>1, GoesOnFacts DEF VolumeInv
<1> QED
  BY <1>2, <1>3, <1>4 DEF VolumeInv, VolumesTypeOK

LEMMA FormatKeeps ==
    ASSUME VolumeInv, NEW n \in Hosts, Format(n)
    PROVE  VolumeInv'
<1>1. disk[n] = "raw" /\ formats[n] = 0
  BY DEF Format, VolumeInv
<1>2. CASE /\ disk' = [disk EXCEPT ![n] = "formatted"]
           /\ formats' = [formats EXCEPT ![n] = @ + 1]
           /\ GoesOn(n, "label")
  <2>1. /\ at' \in [Hosts -> Places]
        /\ at'[n] = "label"
        /\ \A m \in Hosts : m # n => at'[m] = at[m]
    BY <1>2, GoesOnFacts DEF VolumeInv, Places
  <2>2. /\ disk' \in [Hosts -> Disks]
        /\ disk'[n] = "formatted"
        /\ \A m \in Hosts : m # n => disk'[m] = disk[m]
    BY <1>2 DEF VolumeInv, VolumesTypeOK, Disks
  <2>3. /\ formats' \in [Hosts -> Nat]
        /\ formats'[n] = 1
        /\ \A m \in Hosts : m # n => formats'[m] = formats[m]
    BY <1>1, <1>2 DEF VolumeInv, VolumesTypeOK
  <2>4. mounted' = mounted
    BY DEF Format
  <2> QED
    BY <2>1, <2>2, <2>3, <2>4 DEF VolumeInv, VolumesTypeOK
<1>3. CASE UNCHANGED <<disk, formats>> /\ GoesOn(n, "rest")
  <2>1. /\ at' \in [Hosts -> Places]
        /\ at'[n] = "rest"
        /\ \A m \in Hosts : m # n => at'[m] = at[m]
    BY <1>3, GoesOnFacts DEF VolumeInv, Places
  <2>2. mounted' = mounted
    BY DEF Format
  <2> QED
    BY <1>3, <2>1, <2>2 DEF VolumeInv, VolumesTypeOK
<1> QED
  BY <1>2, <1>3 DEF Format

LEMMA LabelKeeps ==
    ASSUME VolumeInv, NEW n \in Hosts, Label(n)
    PROVE  VolumeInv'
<1>1. /\ at' \in [Hosts -> Places]
      /\ at'[n] = "mount"
      /\ \A m \in Hosts : m # n => at'[m] = at[m]
  BY GoesOnFacts DEF Label, VolumeInv, Places
<1>2. /\ disk' \in [Hosts -> Disks]
      /\ disk'[n] = "labelled"
      /\ \A m \in Hosts : m # n => disk'[m] = disk[m]
  BY DEF Label, VolumeInv, VolumesTypeOK, Disks
<1>3. UNCHANGED <<mounted, formats>>
  BY DEF Label
<1> QED
  BY <1>1, <1>2, <1>3 DEF VolumeInv, VolumesTypeOK

LEMMA MountKeeps ==
    ASSUME VolumeInv, NEW n \in Hosts, Mount(n)
    PROVE  VolumeInv'
<1>1. /\ at' \in [Hosts -> Places]
      /\ at'[n] = "rest"
      /\ \A m \in Hosts : m # n => at'[m] = at[m]
  BY GoesOnFacts DEF Mount, VolumeInv, Places
<1>2. mounted' = mounted \cup {n} /\ UNCHANGED <<disk, formats>>
  BY DEF Mount
<1> QED
  BY <1>1, <1>2 DEF VolumeInv, VolumesTypeOK

\* A step that only takes scripts to their end and volumes out of /vol.
LEMMA EndKeeps ==
    ASSUME VolumeInv, UNCHANGED <<disk, formats>>, mounted' \subseteq mounted,
           at' \in [Hosts -> Places],
           \A n \in Hosts : at'[n] = at[n] \/ at'[n] \in {"idle", "lost"}
    PROVE  VolumeInv'
BY DEF VolumeInv, VolumesTypeOK

LEMMA VolumeStep == VolumeInv /\ TypeOK /\ [PreparationNext]_allVars => VolumeInv'
<1> SUFFICES ASSUME VolumeInv, TypeOK, [PreparationNext]_allVars PROVE VolumeInv'
  OBVIOUS
<1>0. at \in [Hosts -> Places] /\ {"idle", "lost", "rest"} \subseteq Places
  BY DEF VolumeInv, VolumesTypeOK, Places
<1>1. CASE \E n \in Hosts : Look(n) \/ Format(n) \/ Label(n) \/ Mount(n)
  BY <1>1, LookKeeps, FormatKeeps, LabelKeeps, MountKeeps
<1>2. ASSUME NEW n \in Nodes, NEW job \in Jobs, Finish(job, n) PROVE VolumeInv'
  <2>1. UNCHANGED <<disk, mounted, formats>> /\ (at' = at \/ GoesOn(n, "idle"))
    BY <1>2 DEF Finish, volumeVars
  <2>2. at' \in [Hosts -> Places] /\ \A m \in Hosts : at'[m] = at[m] \/ at'[m] = "idle"
    BY <1>0, <2>1 DEF GoesOn
  <2> QED
    BY <2>1, <2>2, EndKeeps
<1>3. CASE HangUp
  <2>1. UNCHANGED <<disk, mounted, formats>> /\ at' = [n \in Hosts |-> "idle"]
    BY <1>3 DEF HangUp, volumeVars
  <2> QED
    BY <1>0, <2>1, EndKeeps
<1>4. ASSUME NEW n \in Hosts, Restart(n) PROVE VolumeInv'
  <2>1. /\ UNCHANGED <<disk, formats>> /\ mounted' = mounted \ {n}
        /\ GoesOn(n, "idle") \/ GoesOn(n, "lost")
    BY <1>4 DEF Restart
  <2>2. at' \in [Hosts -> Places]
        /\ \A m \in Hosts : at'[m] = at[m] \/ at'[m] \in {"idle", "lost"}
    BY <1>0, <2>1 DEF GoesOn
  <2> QED
    BY <2>1, <2>2, EndKeeps
<1>5. CASE UNCHANGED <<volumeVars, at>>
  BY <1>0, <1>5, EndKeeps DEF volumeVars
<1>6. CASE \E n \in Hosts : Return(n)
  BY <1>5, <1>6 DEF Return
<1> QED
  BY <1>1, <1>2, <1>3, <1>4, <1>5, <1>6
     DEF PreparationNext, PreparationStep, allVars, Jobs

LEMMA VolumesHold == PreparationSpec => [](VolumeInv /\ TypeOK)
<1>1. PreparationSpec => []TypeOK
  BY PreparationDistributes, DistributionTypes, PTL
<1> QED
  BY <1>1, VolumeInit, VolumeStep, PTL DEF PreparationSpec

\* The volumes keep their types for every cluster and number of runs.
THEOREM VolumeTypes == PreparationSpec => []VolumesTypeOK
<1>1. VolumeInv => VolumesTypeOK
  BY DEF VolumeInv
<1> QED
  BY <1>1, VolumesHold, PTL

\* Wherever setup-slave.sh is hung up on, and however often it is run and nodes
\* restart, it formats a volume once at most.
THEOREM NeverFormatsTwice == PreparationSpec => []FormatsOnce
<1>1. VolumeInv => FormatsOnce
  BY DEF VolumeInv, FormatsOnce
<1> QED
  BY <1>1, VolumesHold, PTL

-----------------------------------------------------------------------------
(* Mounting.                                                               *)

\* A volume that holds a file system is mounted.
Ok(n) == disk[n] \in {"formatted", "labelled"} => n \in mounted

\* A node that answered has been through the slave setup of this run.
Past(n) ==
    \/ pc = "done"
    \/ pc = "loop" /\ phase = 3
    \/ pc = "loop" /\ phase = 2 /\ n \notin todo /\ <<"setup-slave", n>> \notin jobs

\* When the script of a node is at its end, and from then on for the nodes that
\* answered, which do not restart, the volume is mounted.
MountInv ==
    /\ \A n \in Hosts : at[n] = "rest" => Ok(n)
    /\ \A n \in answered : Past(n) => Ok(n)

MountBase == BaseInv /\ Barriers /\ VolumeInv

\* A script that runs on a node is the slave setup of the second loop, and the
\* node is not past it.
LEMMA RunsInSecond ==
    ASSUME Together, MountBase, NEW n \in Hosts, <<"setup-slave", n>> \in jobs
    PROVE  ~Past(n)
<1>1. pc = "loop" /\ phase \in 1..3
  BY TogetherFacts DEF MountBase, BaseInv, Control, TypeOK
<1>2. Plan[phase].job = "setup-slave"
  BY <1>1 DEF MountBase, Barriers, InLoop, Nodes, Jobs
<1> QED
  BY <1>1, <1>2, TogetherFacts DEF Past

\* A step of a node's script that leaves its volume mounted where it rests.
LEMMA ScriptMounts ==
    ASSUME Together, MountBase, MountInv, NEW n \in Hosts, Runs(n),
           NEW place \in Places, GoesOn(n, place), UNCHANGED vars,
           \A m \in Hosts : m # n => disk'[m] = disk[m],
           mounted \subseteq mounted',
           mounted' \subseteq mounted \cup {n},
           place = "rest" => Ok(n)'
    PROVE  MountInv'
<1>1. /\ at'[n] = place
      /\ \A m \in Hosts : m # n => at'[m] = at[m]
  BY GoesOnFacts DEF MountBase, VolumeInv
<1>2. \A m \in Hosts : m # n /\ Ok(m) => Ok(m)'
  BY DEF Ok
<1>3. ~Past(n)
  BY RunsInSecond DEF Runs
<1>4. UNCHANGED answered /\ answered \subseteq Hosts /\ \A m \in Hosts : Past(m)' = Past(m)
  BY DEF vars, loopVars, Past, MountBase, BaseInv, TypeOK
<1> QED
  BY <1>1, <1>2, <1>3, <1>4 DEF MountInv

\* A step of the loops that leaves the volumes alone, takes no script to its end
\* and no node past the slave setup.
LEMMA LoopMounts ==
    ASSUME MountInv, UNCHANGED <<disk, mounted>>,
           \A n \in Hosts : at'[n] = "rest" => at[n] = "rest",
           \A n \in answered' : Past(n)' => n \in answered /\ Past(n)
    PROVE  MountInv'
BY DEF MountInv, Ok

\* A loop is entered with nodes past the slave setup if they were before.
LEMMA EndLoopMounts ==
    ASSUME Together, MountBase, EndLoop
    PROVE  \A n \in answered : Past(n)' => Past(n)
<1>1. /\ pc = "loop" /\ phase \in 1..3 /\ todo = {} /\ jobs = {}
      /\ EnterLoop(phase + 1) /\ jobs' = jobs
  BY TogetherFacts DEF EndLoop, MountBase, BaseInv, Control
<1>2. CASE phase = 1
  <2>1. phase' = 2 /\ pc' = "loop" /\ todo' = StandaloneList
    BY <1>1, <1>2, TogetherFacts DEF EnterLoop
  <2>2. answered \subseteq todo'
    BY <2>1, TogetherFacts DEF MountBase, BaseInv, Approval
  <2> QED
    BY <2>1, <2>2 DEF Past
<1>3. CASE phase \in {2, 3}
  BY <1>1, <1>3 DEF Past
<1> QED
  BY <1>1, <1>2, <1>3

LEMMA FinishMounts ==
    ASSUME Together, MountBase, MountInv, NEW n \in Nodes, NEW job \in Jobs,
           Finish(job, n)
    PROVE  MountInv'
<1>1. /\ pc = "loop" /\ UNCHANGED <<pc, phase, todo, answered, disk, mounted>>
      /\ jobs' = jobs \ {<<job, n>>} /\ <<job, n>> \in jobs
  BY DEF Finish, Run, MountBase, BaseInv, Control, TypeOK, loopVars, volumeVars
<1>2. phase \in 1..3 /\ job = Plan[phase].job /\ InLoop
  BY <1>1, TogetherFacts DEF MountBase, Barriers, InLoop, BaseInv, Control
<1>3. \A m \in Hosts : at'[m] = at[m] \/ at'[m] = "idle"
  BY DEF Finish, GoesOn, MountBase, VolumeInv, VolumesTypeOK
<1>4. \A m \in Hosts : Ok(m) => Ok(m)'
  BY <1>1 DEF Ok
<1>5. \A m \in answered : m # n /\ Past(m)' => Past(m)
  BY <1>1 DEF Past
<1>6. ASSUME n \in answered, Past(n)' PROVE Ok(n)
  <2>1. CASE Past(n)
    BY <1>6, <2>1 DEF MountInv
  <2>2. CASE ~Past(n)
    <3>1. phase = 2 /\ job = "setup-slave"
      BY <1>1, <1>2, <1>6, <2>2, TogetherFacts DEF Past
    <3>2. n \in up \cap copied /\ n \in Hosts
      BY <1>2, <1>6, <3>1 DEF InLoop, MountBase, BaseInv, Approval, TypeOK
    <3>3. at[n] = "rest"
      BY <3>1, <3>2 DEF Finish
    <3> QED
      BY <3>2, <3>3 DEF MountInv
  <2> QED
    BY <2>1, <2>2
<1>7. \A m \in Hosts : at'[m] = "rest" => Ok(m)'
  BY <1>3, <1>4 DEF MountInv
<1>8. answered \subseteq Hosts
  BY DEF MountBase, BaseInv, TypeOK
<1>9. ASSUME NEW m \in answered, Past(m)' PROVE Ok(m)'
  <2>1. CASE m = n
    BY <1>4, <1>6, <1>8, <1>9, <2>1
  <2>2. CASE m # n
    BY <1>4, <1>5, <1>8, <1>9, <2>2 DEF MountInv
  <2> QED
    BY <2>1, <2>2
<1> QED
  BY <1>1, <1>7, <1>9 DEF MountInv

LEMMA MountStep ==
    ASSUME Together, MountBase, MountInv, [PreparationNext]_allVars
    PROVE  MountInv'
<1>0. answered \subseteq Hosts /\ VolumesTypeOK /\ at \in [Hosts -> Places]
  BY DEF MountBase, BaseInv, TypeOK, VolumeInv, VolumesTypeOK
<1>1. ASSUME NEW n \in Hosts, Look(n) PROVE MountInv'
  <2> DEFINE place == IF disk[n] = "raw" THEN "mkfs"
                      ELSE IF disk[n] = "absent" \/ n \in mounted THEN "rest"
                      ELSE "label"
  <2>1. place \in Places /\ GoesOn(n, place) /\ Runs(n) /\ UNCHANGED <<vars, disk, mounted>>
    BY <1>1 DEF Look, Places, volumeVars
  <2>2. place = "rest" => Ok(n)
    BY DEF Ok
  <2> HIDE DEF place
  <2>3. place = "rest" => Ok(n)'
    BY <2>1, <2>2 DEF Ok
  <2> QED
    BY <2>1, <2>3, ScriptMounts
<1>2. ASSUME NEW n \in Hosts, Format(n) PROVE MountInv'
  <2>1. Runs(n) /\ UNCHANGED <<vars, mounted>> /\ disk[n] = "raw"
    BY <1>2 DEF Format, MountBase, VolumeInv
  <2>2. CASE disk' = [disk EXCEPT ![n] = "formatted"] /\ GoesOn(n, "label")
    <3>1. \A m \in Hosts : m # n => disk'[m] = disk[m]
      BY <1>0, <2>2 DEF VolumesTypeOK
    <3> QED
      BY <2>1, <2>2, <3>1, ScriptMounts DEF Places
  <2>3. CASE UNCHANGED disk /\ GoesOn(n, "rest")
    <3>1. Ok(n)'
      BY <2>1, <2>3 DEF Ok
    <3> QED
      BY <2>1, <2>3, <3>1, ScriptMounts DEF Places
  <2> QED
    BY <1>2, <2>2, <2>3 DEF Format
<1>3. ASSUME NEW n \in Hosts, Label(n) PROVE MountInv'
  <2>1. Runs(n) /\ UNCHANGED <<vars, mounted>> /\ GoesOn(n, "mount")
        /\ disk' = [disk EXCEPT ![n] = "labelled"]
    BY <1>3 DEF Label
  <2>2. \A m \in Hosts : m # n => disk'[m] = disk[m]
    BY <1>0, <2>1 DEF VolumesTypeOK
  <2> QED
    BY <2>1, <2>2, ScriptMounts DEF Places
<1>4. ASSUME NEW n \in Hosts, Mount(n) PROVE MountInv'
  <2>1. Runs(n) /\ UNCHANGED <<vars, disk>> /\ GoesOn(n, "rest")
        /\ mounted' = mounted \cup {n}
    BY <1>4 DEF Mount
  <2>2. Ok(n)'
    BY <2>1 DEF Ok
  <2> QED
    BY <2>1, <2>2, ScriptMounts DEF Places
<1>5. ASSUME NEW n \in Nodes, NEW job \in Jobs, Finish(job, n) PROVE MountInv'
  BY <1>5, FinishMounts
<1>6. CASE MasterStep /\ UNCHANGED <<volumeVars, at>>
  <2>1. \A n \in answered' : Past(n)' => n \in answered /\ Past(n)
    <3>1. CASE Begin \/ EndRound \/ \E n \in Nodes : Approve(n)
      <4>1. jobs' = jobs /\ (pc' \in {"loop", "done"} => phase' = 1 /\ pc' = "loop")
        BY <3>1, TogetherFacts DEF Begin, EndRound, EnterLoop, Approve
      <4> QED
        BY <4>1 DEF Past
    <3>2. CASE EndLoop
      BY <3>2, EndLoopMounts DEF EndLoop
    <3>3. ASSUME NEW n \in Nodes, Launch(n)
          PROVE  \A m \in answered' : Past(m)' => m \in answered /\ Past(m)
      <4>1. /\ UNCHANGED <<pc, phase, answered>>
            /\ todo' = todo \ {n} /\ jobs' = jobs \cup {<<Plan[phase].job, n>>}
        BY <3>3 DEF Launch
      <4>2. phase = 2 => <<"setup-slave", n>> \in jobs'
        BY <4>1, TogetherFacts
      <4> QED
        BY <4>1, <4>2 DEF Past
    <3> QED
      BY <1>6, <3>1, <3>2, <3>3 DEF MasterStep
  <2> QED
    BY <1>6, <2>1, LoopMounts DEF volumeVars
<1>7. CASE HangUp
  <2>1. answered' = {} /\ UNCHANGED <<disk, mounted>> /\ at' = [n \in Hosts |-> "idle"]
    BY <1>7 DEF HangUp, Rerun, volumeVars
  <2> QED
    BY <2>1, LoopMounts
<1>8. ASSUME NEW n \in Hosts, Restart(n) PROVE MountInv'
  <2>1. /\ n \notin answered /\ UNCHANGED <<pc, phase, todo, jobs, answered, disk>>
        /\ mounted' = mounted \ {n}
        /\ GoesOn(n, "idle") \/ GoesOn(n, "lost")
    BY <1>8 DEF Restart, GoesDown, loopVars
  <2>2. /\ at'[n] # "rest"
        /\ \A m \in Hosts : m # n => at'[m] = at[m]
    BY <1>0, <2>1, GoesOnFacts DEF Places
  <2>3. \A m \in Hosts : m # n /\ Ok(m) => Ok(m)'
    BY <2>1 DEF Ok
  <2>4. \A m \in Hosts : Past(m)' = Past(m)
    BY <2>1 DEF Past
  <2> QED
    BY <1>0, <2>1, <2>2, <2>3, <2>4 DEF MountInv
<1>9. ASSUME NEW n \in Hosts, Return(n) PROVE MountInv'
  BY <1>9, LoopMounts DEF Return, ComesUp, Past, loopVars, volumeVars
<1>10. CASE UNCHANGED allVars
  BY <1>10, LoopMounts DEF allVars, vars, loopVars, volumeVars, Past
<1> QED
  BY <1>1, <1>2, <1>3, <1>4, <1>5, <1>6, <1>7, <1>8, <1>9, <1>10
     DEF PreparationNext, PreparationStep, Jobs

\* With setup.sh, and setup-mesos.sh on a cluster without ZooKeeper nodes, a run
\* of the script leaves the formatted volumes of the slaves that answered
\* mounted, those of nodes that restarted since an earlier run too.
THEOREM MountsWhatAnswers ==
    ASSUME Together
    PROVE  PreparationSpec => []VolumesMounted
<1>1. PreparationSpec => [](BaseInv /\ Barriers)
  BY PreparationDistributes, BarriersHold, PTL
<1>2. PreparationInit => MountInv
  BY DEF PreparationInit, Init, MountInv
<1>3. /\ BaseInv /\ Barriers /\ VolumeInv
      /\ MountInv
      /\ [PreparationNext]_allVars
      => MountInv'
  BY MountStep DEF MountBase
<1>4. MountInv => VolumesMounted
  BY DEF MountInv, VolumesMounted, Past, Ok
<1> QED
  BY <1>1, <1>2, <1>3, <1>4, VolumesHold, PTL DEF PreparationSpec

=============================================================================
