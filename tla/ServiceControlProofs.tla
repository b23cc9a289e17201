------------------------ MODULE ServiceControlProofs ------------------------
(***************************************************************************)
(* Theorems about ServiceControl for every number of processes, callers    *)
(* and commands, none of which waits for another.  That at most one daemon *)
(* runs is not among them: it is false (run ServicesRace).                 *)
(***************************************************************************)
EXTENDS ServiceControl, TLAPS

Scripts == [pc : PCs, command : Commands, alone : BOOLEAN]

\* A caller whose script is alone is the only one that is busy.
AloneIsOnly ==
    \A c, d \in Callers : Busy(c) /\ Busy(d) /\ script[c].alone => c = d

\* The inductive invariant: what the file says is true of every daemon but those
\* whose start has yet to write, DaemonsListed, is what a stop rests on; that nobody
\* writes while a stop is alone is AloneIsOnly.
Inv == TypeOK /\ AloneIsOnly /\ DaemonsListed /\ StopEndsAll

-----------------------------------------------------------------------------
\* A jump of one caller's script.
LEMMA Jump ==
    ASSUME TypeOK, NEW c \in Callers, NEW pc \in PCs, Goto(c, pc)
    PROVE  /\ script' \in [Callers -> Scripts]
           /\ script'[c].pc = pc
           /\ pc # "idle" => script'[c].alone = script[c].alone
           /\ \A d \in Callers \ {c} : script'[d] = script[d]
<1> DEFINE next == IF pc = "idle" THEN Idle ELSE [script[c] EXCEPT !.pc = pc]
<1>1. script' = [script EXCEPT ![c] = next]
  BY DEF Goto
<1>2. script \in [Callers -> Scripts]
  BY DEF TypeOK, Scripts
<1>3. /\ next \in Scripts
      /\ next.pc = pc
      /\ pc # "idle" => next.alone = script[c].alone
  BY <1>2 DEF Scripts, Idle, PCs, Commands
<1> HIDE DEF next
<1> QED
  BY <1>1, <1>2, <1>3

\* A script that begins takes the others' being alone from them, and is alone itself
\* only if there are none.
LEMMA BeginIsSafe ==
    ASSUME Inv, NEW c \in Callers, NEW command \in Commands,
           Begin(c, command), commands' \in Nat
    PROVE  Inv'
<1> USE DEF Inv
<1> DEFINE pc == IF command = "start" THEN "check" ELSE "kill"
<1> DEFINE only == \A e \in Callers : ~Busy(e)
<1>1. ~Busy(c) /\ UNCHANGED <<daemons, others, file>>
  BY DEF Begin, processes
<1>2. pc \in PCs /\ pc # "idle" /\ pc # "write" /\ pc # "remove" /\ only \in BOOLEAN
  BY DEF PCs
<1>3. script' = [d \in Callers |->
          IF d = c THEN [pc |-> pc, command |-> command, alone |-> only]
                   ELSE [script[d] EXCEPT !.alone = ~Busy(d)]]
  BY DEF Begin
<1>4. \A d \in Callers : script[d] \in Scripts
  BY DEF TypeOK, Scripts
<1>5. /\ script'[c] = [pc |-> pc, command |-> command, alone |-> only]
      /\ \A d \in Callers \ {c} :
            script'[d] = [script[d] EXCEPT !.alone = ~Busy(d)]
  BY <1>3
<1>6. \A d \in Callers \ {c} :
          script'[d] \in Scripts /\ script'[d].pc = script[d].pc
          /\ script'[d].alone = ~Busy(d)
  BY <1>4, <1>5 DEF Scripts, Busy
<1>7. script'[c] \in Scripts /\ script'[c].pc = pc /\ script'[c].alone = only
  BY <1>2, <1>5 DEF Scripts
<1> HIDE DEF pc
<1>8. TypeOK'
  <2>1. script' \in [Callers -> Scripts]
    BY <1>3, <1>6, <1>7
  <2> QED
    BY <1>1, <2>1 DEF TypeOK, Scripts
<1>9. AloneIsOnly'
  <2>1. ASSUME NEW d \in Callers, NEW e \in Callers, Busy(d)', Busy(e)',
               script'[d].alone
        PROVE  d = e
    <3>1. d = c
      BY <1>6, <2>1 DEF Busy
    <3>2. only
      BY <1>7, <2>1, <3>1
    <3> QED
      BY <1>6, <2>1, <3>1, <3>2 DEF Busy
  <2> QED
    BY <2>1 DEF AloneIsOnly
<1>10. DaemonsListed'
  BY <1>1, <1>6 DEF DaemonsListed, Busy
<1>11. StopEndsAll'
  BY <1>1, <1>2, <1>6, <1>7 DEF StopEndsAll, Busy
<1> QED
  BY <1>8, <1>9, <1>10, <1>11

\* What remains to be shown of a step of the script.
LEMMA StepIsSafe ==
    ASSUME Inv, NEW c \in Callers, Busy(c), NEW pc \in PCs, Goto(c, pc),
           daemons' \subseteq Pids, others' \subseteq Pids, file' \subseteq Pids,
           commands' = commands, DaemonsListed',
           \A d \in Callers \ {c} : script[d].pc = "remove" /\ script[d].alone =>
               file' = {} \/ daemons' = {},
           pc = "remove" /\ script[c].alone => file' = {} \/ daemons' = {}
    PROVE  Inv'
<1> USE DEF Inv
<1>1. /\ script' \in [Callers -> Scripts]
      /\ script'[c].pc = pc
      /\ pc # "idle" => script'[c].alone = script[c].alone
      /\ \A d \in Callers \ {c} : script'[d] = script[d]
  BY Jump
<1>2. TypeOK'
  BY <1>1 DEF TypeOK, Scripts
<1>3. AloneIsOnly'
  BY <1>1 DEF AloneIsOnly, Busy
<1>4. StopEndsAll'
  BY <1>1 DEF StopEndsAll
<1> QED
  BY <1>2, <1>3, <1>4

\* While somebody's script is on its way no other one is alone.
LEMMA NoneElseAlone ==
    ASSUME Inv, NEW c \in Callers, Busy(c)
    PROVE  \A d \in Callers \ {c} : Busy(d) => ~script[d].alone
BY DEF Inv, AloneIsOnly

\* What is written down is every daemon, those of other starts included.
LEMMA StartIsSafe ==
    ASSUME Inv, NEW c \in Callers, Start(c)
    PROVE  Inv'
<1> USE DEF Inv
<1>1. Busy(c)
  BY DEF Start, Check, Launch, WritePids, Busy
<1>2. \A d \in Callers \ {c} : script[d].pc = "remove" => ~script[d].alone
  BY <1>1, NoneElseAlone DEF Busy
<1>3. CASE Check(c)
  <2> DEFINE next == IF IsRunning THEN "idle" ELSE "launch"
  <2>1. /\ script[c].pc = "check" /\ Goto(c, next)
        /\ UNCHANGED <<daemons, others, file, commands>>
    BY <1>3 DEF Check, processes
  <2>2. next \in PCs /\ next # "remove" /\ next # "write"
    BY DEF PCs
  <2> HIDE DEF next
  <2>3. DaemonsListed'
    BY <2>1, <2>2, Jump DEF DaemonsListed
  <2> QED
    BY <1>1, <1>2, <2>1, <2>2, <2>3, StepIsSafe DEF TypeOK
<1>4. CASE Launch(c)
  <2>1. PICK p \in Pids : daemons' = daemons \cup {p}
    BY <1>4 DEF Launch
  <2>2. Goto(c, "write") /\ "write" \in PCs /\ UNCHANGED <<others, file, commands>>
    BY <1>4 DEF Launch, PCs
  <2>3. DaemonsListed'
    BY <2>2, Jump DEF DaemonsListed
  <2> QED
    BY <1>1, <1>2, <2>1, <2>2, <2>3, StepIsSafe DEF TypeOK
<1>5. CASE WritePids(c)
  <2>1. /\ file' = daemons /\ Goto(c, "idle") /\ "idle" \in PCs
        /\ UNCHANGED <<daemons, others, commands>>
    BY <1>5 DEF WritePids, processes, PCs
  <2>2. DaemonsListed'
    BY <2>1 DEF DaemonsListed
  <2> QED
    BY <1>1, <1>2, <2>1, <2>2, StepIsSafe DEF TypeOK
<1> QED
  BY <1>3, <1>4, <1>5 DEF Start

\* A stop that is alone kills every daemon if it has a file: nobody is about to write.
LEMMA StopIsSafe ==
    ASSUME Inv, NEW c \in Callers, Stop(c)
    PROVE  Inv'
<1> USE DEF Inv
<1>1. Busy(c)
  BY DEF Stop, Kill, RemoveFile, Busy
<1>2. \A d \in Callers \ {c} : script[d].pc = "remove" => ~script[d].alone
  BY <1>1, NoneElseAlone DEF Busy
<1>3. CASE Kill(c)
  <2>1. /\ script[c].pc = "kill" /\ Goto(c, "remove") /\ "remove" \in PCs
        /\ daemons' = daemons \ file /\ others' = others \ file
        /\ UNCHANGED <<file, commands>>
    BY <1>3 DEF Kill, PCs
  <2>2. DaemonsListed'
    BY <2>1, Jump DEF DaemonsListed
  <2>3. script[c].alone => file' = {} \/ daemons' = {}
    <3>1. script[c].alone => \A d \in Callers : script[d].pc # "write"
      BY <1>1, <2>1 DEF AloneIsOnly, Busy
    <3> QED
      BY <2>1, <3>1 DEF DaemonsListed
  <2> QED
    BY <1>1, <1>2, <2>1, <2>2, <2>3, StepIsSafe DEF TypeOK
<1>4. CASE RemoveFile(c)
  <2> DEFINE next == IF script[c].command = "restart" THEN "check" ELSE "idle"
  <2>1. /\ Goto(c, next) /\ file' = {} /\ UNCHANGED <<daemons, others, commands>>
    BY <1>4 DEF RemoveFile, processes
  <2>2. next \in PCs
    BY DEF PCs
  <2> HIDE DEF next
  <2>3. DaemonsListed'
    BY <2>1 DEF DaemonsListed
  <2> QED
    BY <1>1, <2>1, <2>2, <2>3, StepIsSafe DEF TypeOK
<1> QED
  BY <1>3, <1>4 DEF Stop

\* Daemons die, other processes come and go.
LEMMA NodeIsSafe ==
    ASSUME Inv, NEW p \in Pids, Die(p) \/ OtherBegins(p) \/ OtherEnds(p)
    PROVE  Inv'
<1> USE DEF Inv
<1>1. /\ daemons' \subseteq daemons /\ others' \subseteq Pids
      /\ UNCHANGED <<file, script, commands>>
  BY DEF Die, OtherBegins, OtherEnds, TypeOK
<1>2. TypeOK' /\ AloneIsOnly'
  BY <1>1 DEF TypeOK, AloneIsOnly, Busy
<1>3. DaemonsListed' /\ StopEndsAll'
  BY <1>1 DEF DaemonsListed, StopEndsAll
<1> QED
  BY <1>2, <1>3

\* A reboot leaves no process, and at most a file.
LEMMA RebootIsSafe ==
    ASSUME Inv, Reboot
    PROVE  Inv'
<1> USE DEF Inv
<1>1. /\ daemons' = {} /\ others' = {} /\ file' \subseteq file /\ commands' \in Nat
      /\ script' = [c \in Callers |-> Idle]
  BY DEF Reboot, TypeOK
<1>2. TypeOK'
  BY <1>1 DEF TypeOK, Idle, PCs, Commands
<1>3. AloneIsOnly' /\ DaemonsListed' /\ StopEndsAll'
  BY <1>1 DEF AloneIsOnly, DaemonsListed, StopEndsAll, Busy, Idle
<1> QED
  BY <1>2, <1>3

LEMMA InitIsSafe == Init => Inv
BY DEF Init, Inv, TypeOK, AloneIsOnly, DaemonsListed, StopEndsAll, Busy, Idle, PCs,
    Commands

LEMMA NextIsSafe ==
    ASSUME Inv, [Next]_vars
    PROVE  Inv'
<1>1. ASSUME NEW c \in Callers, NEW command \in Commands, Command(c, command)
      PROVE  Inv'
  <2>1. Begin(c, command) /\ commands' \in Nat
    BY <1>1 DEF Command, Inv, TypeOK
  <2> QED
    BY <2>1, BeginIsSafe
<1>2. CASE MonitCycle
  <2>1. Begin(Monit, "start") /\ commands' \in Nat
    BY <1>2 DEF MonitCycle, Inv, TypeOK
  <2> QED
    BY <2>1, BeginIsSafe, ServiceAssumption DEF Commands
<1>3. CASE UNCHANGED vars
  BY <1>3 DEF vars, processes, Inv, TypeOK, AloneIsOnly, DaemonsListed, StopEndsAll,
      Busy
<1> QED
  BY <1>1, <1>2, <1>3, StartIsSafe, StopIsSafe, NodeIsSafe, RebootIsSafe DEF Next, Step

\* The inductive invariant holds of every behaviour.
THEOREM Safe == Spec => []Inv
<1>1. Inv /\ [Next]_vars => Inv'
  BY NextIsSafe
<1> QED
  BY <1>1, InitIsSafe, PTL DEF Spec

\* Processes, PID file and scripts keep their types.
THEOREM TypeCorrect == Spec => []TypeOK
<1>1. Inv => TypeOK
  BY DEF Inv
<1> QED
  BY <1>1, Safe, PTL

\* start, three seconds after its daemon: the file it writes names the daemons of all
\* the starts that raced with it, so that it never names only some of them.
THEOREM DaemonsAreListed == Spec => []DaemonsListed
<1>1. Inv => DaemonsListed
  BY DEF Inv
<1> QED
  BY <1>1, Safe, PTL

\* stop: when no other caller's script runs meanwhile and the file is there, it leaves
\* no daemon, however many the starts before it have added to one another.
THEOREM StopIsComplete == Spec => []StopEndsAll
<1>1. Inv => StopEndsAll
  BY DEF Inv
<1> QED
  BY <1>1, Safe, PTL

=============================================================================
