--------------------------- MODULE NodePreparation ---------------------------
(***************************************************************************)
(* What setup-slave.sh does with the volume of a node while the loops of   *)
(* SetupDistribution run it, hang up on it and run it again.               *)
(* setup-mesos-slave.sh and setup-mesos-emi-slave.sh do the same.  The     *)
(* volume survives a restart of the node, its mount does not.              *)
(***************************************************************************)
EXTENDS SetupDistribution

VARIABLES
    disk,    \* disk[n]: what is at /dev/vdb of host n
    mounted, \* hosts with a volume mounted at /vol
    formats, \* formats[n]: how often the volume of host n was formatted
    at       \* at[n]: where setup-slave.sh is on host n

volumeVars == <<disk, mounted, formats>>
allVars == <<vars, volumeVars, at>>

Disks == {"absent", "raw", "formatted", "labelled"}
Places == {"idle", "mkfs", "label", "mount", "rest", "lost"}

PreparationInit ==
    /\ Init
    /\ disk \in [Hosts -> {"absent", "raw"}]
    /\ mounted = {}
    /\ formats = [n \in Hosts |-> 0]
    /\ at = [n \in Hosts |-> "idle"]

-----------------------------------------------------------------------------
(* setup-slave.sh on host n.                                               *)

Runs(n) == <<"setup-slave", n>> \in jobs /\ n \in up \cap copied

GoesOn(n, place) == at' = [at EXCEPT ![n] = place]

\* Mutants of Look: what is not mounted is formatted; what was formatted before is
\* not mounted.
LookForMount(n) ==
    /\ Runs(n) /\ at[n] = "idle"
    /\ GoesOn(n, IF disk[n] = "absent" \/ n \in mounted THEN "rest" ELSE "mkfs")
    /\ UNCHANGED <<vars, volumeVars>>

LookForRaw(n) ==
    /\ Runs(n) /\ at[n] = "idle"
    /\ GoesOn(n, IF disk[n] = "raw" THEN "mkfs" ELSE "rest")
    /\ UNCHANGED <<vars, volumeVars>>

\* Is there a volume, does blkid know what is on it, is it mounted?
Look(n) ==
    /\ Runs(n) /\ at[n] = "idle"
    /\ GoesOn(n, IF disk[n] = "raw" THEN "mkfs"
                 ELSE IF disk[n] = "absent" \/ n \in mounted THEN "rest"
                 ELSE "label")
    /\ UNCHANGED <<vars, volumeVars>>

\* mkfs.ext3; when it fails /vol is removed.  Until it is through blkid knows of
\* no file system.
Format(n) ==
    /\ Runs(n) /\ at[n] = "mkfs"
    /\ \/ /\ disk' = [disk EXCEPT ![n] = "formatted"]
          /\ formats' = [formats EXCEPT ![n] = @ + 1]
          /\ GoesOn(n, "label")
       \/ UNCHANGED <<disk, formats>> /\ GoesOn(n, "rest")
    /\ UNCHANGED <<vars, mounted>>

\* Mutant of Label: e2label only after mkfs.
LabelNew(n) ==
    /\ Runs(n) /\ at[n] = "label"
    /\ disk' = [disk EXCEPT ![n] = "new"]
    /\ GoesOn(n, "mount")
    /\ UNCHANGED <<vars, mounted, formats>>

\* e2label
Label(n) ==
    /\ Runs(n) /\ at[n] = "label"
    /\ disk' = [disk EXCEPT ![n] = "labelled"]
    /\ GoesOn(n, "mount")
    /\ UNCHANGED <<vars, mounted, formats>>

\* mount -L
Mount(n) ==
    /\ Runs(n) /\ at[n] = "mount"
    /\ mounted' = mounted \cup {n}
    /\ GoesOn(n, "rest")
    /\ UNCHANGED <<vars, disk, formats>>

-----------------------------------------------------------------------------
(* The loops of the master, and what happens to the nodes.                 *)

\* A job is over; setup-slave.sh has then come to its end, if it was run.
Finish(job, n) ==
    /\ Run(job, n)
    /\ job = "setup-slave" /\ n \in up \cap copied => at[n] = "rest"
    /\ IF job = "setup-slave" THEN GoesOn(n, "idle") ELSE UNCHANGED at
    /\ UNCHANGED volumeVars

\* The terminals hang up, on the scripts of the nodes as well.
HangUp ==
    /\ Rerun
    /\ at' = [n \in Hosts |-> "idle"]
    /\ UNCHANGED volumeVars

\* A node that restarts loses its mounts and the script it runs.
Restart(n) ==
    /\ GoesDown(n)
    /\ mounted' = mounted \ {n}
    /\ GoesOn(n, IF at[n] = "idle" THEN "idle" ELSE "lost")
    /\ UNCHANGED <<disk, formats>>

\* The master sees that a node went down before it answers again.
Return(n) ==
    /\ ComesUp(n)
    /\ at[n] # "lost"
    /\ UNCHANGED <<volumeVars, at>>

MasterStep ==
    \/ Begin \/ EndRound \/ EndLoop
    \/ \E n \in Nodes : Approve(n) \/ Launch(n)

PreparationStep ==
    \/ MasterStep /\ UNCHANGED <<volumeVars, at>>
    \/ \E n \in Nodes, job \in {"rsync", "setup-slave", "prepare-slaves"} :
          Finish(job, n)
    \/ \E n \in Hosts : Look(n) \/ Format(n) \/ Label(n) \/ Mount(n)

PreparationNext ==
    PreparationStep \/ HangUp \/ \E n \in Hosts : Restart(n) \/ Return(n)

PreparationSpec == PreparationInit /\ [][PreparationNext]_allVars

\* The script, its jobs and what they run on the nodes go on.
FairPreparation == PreparationSpec /\ WF_allVars(PreparationStep)

-----------------------------------------------------------------------------
(* Properties.                                                             *)

\* Every variable of the nodes has its type.
VolumesTypeOK ==
    /\ disk \in [Hosts -> Disks]
    /\ mounted \subseteq Hosts
    /\ formats \in [Hosts -> Nat]
    /\ at \in [Hosts -> Places]

\* "Check if /dev/vdb is already formatted": a volume is formatted at most once,
\* wherever the script is hung up on and however often the node restarts.
FormatsOnce == \A n \in Hosts : formats[n] <= 1

\* "Mount it if its not mounted yet": when a run has been through its slave setup,
\* the nodes that answered have their formatted volumes mounted, those that
\* restarted since an earlier run too.
VolumesMounted ==
    pc = "done" =>
        \A n \in answered \cap Slaves :
            disk[n] \in {"formatted", "labelled"} => n \in mounted

=============================================================================
