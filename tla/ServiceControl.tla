--------------------------- MODULE ServiceControl ---------------------------
(***************************************************************************)
(* A service of a master or a slave, its init script and its callers: the  *)
(* operator, the set-up scripts and monit.  The script is mesos-master.sh  *)
(* under templates/root/mesos-config; mesos-slave.sh, storm-nimbus.sh and  *)
(* storm-ui.sh are the same with other names.  It knows of the service     *)
(* only what the PID file says.                                            *)
(***************************************************************************)
EXTENDS Naturals, FiniteSets

CONSTANTS
    Pids,       \* process identifiers of the node, which does not run out of them
    Callers,    \* who runs the script
    Monit,      \* the caller that is monit: its start program, in its cycle
    MaxCommands,\* bound on the commands but monit's, and on reboots
    MaxOthers   \* bound on the other processes at a time

ASSUME ServiceAssumption ==
    /\ Pids \subseteq Nat
    /\ Monit \in Callers
    /\ MaxCommands \in Nat /\ MaxOthers \in Nat

VARIABLES
    daemons,  \* processes that ps shows under the daemon's name
    others,   \* the other processes of the node
    file,     \* PIDs in PID_FILE; none if it does not exist
    script,   \* script[c]: where the script is that caller c runs; alone, which
              \* is history, says that no other caller has run it meanwhile
    commands  \* commands but monit's and reboots so far

processes == <<daemons, others>>
vars == <<processes, file, script, commands>>

Commands == {"start", "stop", "restart"}
PCs == {"idle", "check", "launch", "write", "kill", "remove"}

Idle == [pc |-> "idle", command |-> "start", alone |-> TRUE]
Busy(c) == script[c].pc # "idle"

Alive == daemons \cup others

\* Mutant of IsRunning: the PID file is enough.
IsRunningIfFile == file # {}

\* Mutant of IsRunning: it looks for the daemon's name and not for its PID.
IsRunningByName == daemons # {}

\* is_running.  With two PIDs in the file the test -d has an argument too many,
\* and fails.
IsRunning == \E p \in Alive : file = {p}

-----------------------------------------------------------------------------
Init ==
    /\ daemons = {}
    /\ others = {}
    /\ file = {}
    /\ script = [c \in Callers |-> Idle]
    /\ commands = 0

Goto(c, pc) ==
    script' = [script EXCEPT ![c] = IF pc = "idle" THEN Idle ELSE [@ EXCEPT !.pc = pc]]

\* The script is run with one of its three arguments; nobody waits for another
\* caller's script to end.
Begin(c, command) ==
    /\ ~Busy(c)
    /\ script' = [d \in Callers |->
           IF d = c
             THEN [pc |-> IF command = "start" THEN "check" ELSE "kill",
                   command |-> command,
                   alone |-> \A e \in Callers : ~Busy(e)]
             ELSE [script[d] EXCEPT !.alone = ~Busy(d)]]
    /\ UNCHANGED <<processes, file>>

\* An operator or a set-up script calls service.
Command(c, command) ==
    /\ c # Monit /\ commands < MaxCommands
    /\ commands' = commands + 1
    /\ Begin(c, command)

\* monit reads the first PID of the file, ps having put the lowest there.
MonitSees == \E p \in file \cap Alive : \A q \in file : p <= q

\* The cycle of monit: a service whose process does not exist is started.
MonitCycle ==
    /\ ~MonitSees
    /\ Begin(Monit, "start")
    /\ UNCHANGED commands

-----------------------------------------------------------------------------
(* start                                                                   *)

\* "Stop it first."
Check(c) ==
    /\ script[c].pc = "check"
    /\ Goto(c, IF IsRunning THEN "idle" ELSE "launch")
    /\ UNCHANGED <<processes, file, commands>>

\* nohup the daemon, in the background.
Launch(c) ==
    /\ script[c].pc = "launch"
    /\ \E p \in Pids \ Alive : daemons' = daemons \cup {p}
    /\ Goto(c, "write")
    /\ UNCHANGED <<others, file, commands>>

\* Mutant of WritePids: one PID only, the file being for one daemon.
WriteOnePid(c) ==
    /\ script[c].pc = "write"
    /\ file' = {p \in daemons : \A q \in daemons : p <= q}
    /\ Goto(c, "idle")
    /\ UNCHANGED <<processes, commands>>

\* Three seconds later, the PIDs that ps shows go into the file.
WritePids(c) ==
    /\ script[c].pc = "write"
    /\ file' = daemons
    /\ Goto(c, "idle")
    /\ UNCHANGED <<processes, commands>>

-----------------------------------------------------------------------------
(* stop and restart                                                        *)

\* Mutant of Kill: the signal is SIGTERM, and the daemon takes its time.
KillGently(c) ==
    /\ script[c].pc = "kill"
    /\ Goto(c, "remove")
    /\ UNCHANGED <<processes, file, commands>>

\* kill -9 of what the file names, whosever it is by now.
Kill(c) ==
    /\ script[c].pc = "kill"
    /\ daemons' = daemons \ file
    /\ others' = others \ file
    /\ Goto(c, "remove")
    /\ UNCHANGED <<file, commands>>

\* Mutant of RemoveFile: the script goes on with its own argument.
RemoveFileByName(c) ==
    /\ script[c].pc = "remove"
    /\ file' = {}
    /\ Goto(c, script[c].command)
    /\ UNCHANGED <<processes, commands>>

\* The file is removed; a restart goes on with start.
RemoveFile(c) ==
    /\ script[c].pc = "remove"
    /\ file' = {}
    /\ Goto(c, IF script[c].command = "restart" THEN "check" ELSE "idle")
    /\ UNCHANGED <<processes, commands>>

-----------------------------------------------------------------------------
(* What the node does.                                                     *)

\* The daemon dies.
Die(p) ==
    /\ p \in daemons
    /\ daemons' = daemons \ {p}
    /\ UNCHANGED <<others, file, script, commands>>

\* Another process begins, with the PID of a daemon that died.  Those with a PID
\* that the file does not name are left out: nothing here looks at them.
OtherBegins(p) ==
    /\ p \in file \ Alive /\ Cardinality(others) < MaxOthers
    /\ others' = others \cup {p}
    /\ UNCHANGED <<daemons, file, script, commands>>

OtherEnds(p) ==
    /\ p \in others
    /\ others' = others \ {p}
    /\ UNCHANGED <<daemons, file, script, commands>>

\* The node reboots; its /var/run may be kept or not.
Reboot ==
    /\ commands < MaxCommands
    /\ commands' = commands + 1
    /\ daemons' = {}
    /\ others' = {}
    /\ file' \in {file, {}}
    /\ script' = [c \in Callers |-> Idle]

Start(c) == Check(c) \/ Launch(c) \/ WritePids(c)
Stop(c) == Kill(c) \/ RemoveFile(c)
Step(c) == Start(c) \/ Stop(c)

Next ==
    \/ \E c \in Callers : Step(c) \/ \E command \in Commands : Command(c, command)
    \/ MonitCycle
    \/ \E p \in Pids : Die(p) \/ OtherBegins(p) \/ OtherEnds(p)
    \/ Reboot

Spec == Init /\ [][Next]_vars

\* The script goes on by itself, and monit looks every thirty seconds.
Fairness == WF_vars(MonitCycle) /\ \A c \in Callers : WF_vars(Step(c))

FairSpec == Spec /\ Fairness

-----------------------------------------------------------------------------
(* Properties.                                                             *)

TypeOK ==
    /\ daemons \subseteq Pids
    /\ others \subseteq Pids
    /\ file \subseteq Pids
    /\ script \in [Callers -> [pc : PCs, command : Commands, alone : BOOLEAN]]
    /\ commands \in Nat

\* FALSE (run ServicesRace): what is_running and "Stop it first." are for, that at
\* most one daemon runs.  Two callers that look before either has written the file
\* both start one.
OneDaemon == \A p, q \in daemons : p = q

\* A PID file that a start has written names every daemon that runs, those included
\* that another start has added meanwhile: as long as it is not lost, the next stop
\* finds them all.
DaemonsListed ==
    (\A c \in Callers : script[c].pc # "write") => file = {} \/ daemons \subseteq file

\* A stop that nobody else's script interferes with leaves no daemon behind, whatever
\* races there were before it, unless it was left without a PID file.
StopEndsAll ==
    \A c \in Callers : script[c].pc = "remove" /\ script[c].alone =>
        file = {} \/ daemons = {}

\* A daemon that the PID file does not name, its file overwritten or removed by the
\* script of another caller, is named again in the end.
FoundAgain == ~(daemons \subseteq file) ~> daemons \subseteq file

\* monit brings a service up that is down, unless its PID has been given to another
\* process, which makes the script and monit think that it runs.
Supervised == daemons = {} ~> (daemons # {} \/ file \cap others # {})

=============================================================================
