---------------------------- MODULE LaunchProofs ----------------------------
(***************************************************************************)
(* The safety of one run of the command, for any set of programs, any      *)
(* versions and any number of changes of the process behind the PID.       *)
(***************************************************************************)
EXTENDS Launch, TLAPS

Listening == {"accept", "join", "capture", "joinloader"}

(* What the run has to clean up, by where it is: the helper of the probe,  *)
(* the directory, the listener and the connection; which probes the option *)
(* --loader admits; and how far a session is that has a connection.        *)
RunInv ==
    /\ run \in {"gdb", "inferior", "reap"} => kind # "ptrace"
    /\ run = "ptrace" => kind # "gdb"
    /\ helper = "running" => run = "inferior"
    /\ tempdir => run \in {"own", "listen"} \cup Listening \/ process # "same"
    /\ listener = "open" => run \in Listening
    /\ loader # "idle" => run \in Listening \/ Ended
    /\ session # "none" => loader # "idle"
    /\ session \in {"none", "asked"} => connection = "none"
    /\ session \in {"connected", "holds"} => connection # "none"
    /\ Ended => connection \in {"none", "closed"}
    /\ run = "no agent" => loader = "ok"

FromProbe   == {"gdb", "inferior", "reap", "ptrace", "install", "tempdir", "own", "listen"}
FromLibc    == {"libc"} \cup FromProbe
FromMachine == {"machine"} \cup FromLibc

(* The run has read and accepted what comes before the places in S.        *)
Inspected(S) == run \in S \/ loader # "idle"

(* What facts lists is true of the present program and has been accepted,  *)
(* and if the process never changed it lists everything read so far.       *)
FactsInv ==
    /\ process # "same" => changes > 0
    /\ Gone \/ run \in {"resolve", "exe", "maps"} => facts = {}
    /\ "minor" \in facts => image.mapped \subseteq minor
    /\ Inspected(FromMachine) => agent = minor
    /\ Inspected(FromLibc) /\ "machine" \in facts => image.machine = "host"
    /\ Inspected(FromProbe) /\ "libc" \in facts => image.libc = "glibc"
    /\ changes = 0 => /\ Inspected({"agent"} \cup FromMachine) => "minor" \in facts
                      /\ Inspected(FromLibc) => "machine" \in facts
                      /\ Inspected(FromProbe) => "libc" \in facts

-----------------------------------------------------------------------------
(* The parts hold at the start.                                            *)
LEMMA InvInit == Init => TypeOK /\ RunInv /\ FactsInv
<1> SUFFICES ASSUME Init PROVE TypeOK /\ RunInv /\ FactsInv
  OBVIOUS
<1> USE PreflightAssumption DEF Init, PreInit
<1>1. TypeOK
  <2>1. {tempdir, late, published} \subseteq BOOLEAN
    OBVIOUS
  <2>2. changes \in 0..MaxChanges /\ facts \subseteq {"minor", "machine", "libc"}
    OBVIOUS
  <2> QED BY <2>1, <2>2 DEF TypeOK, PreTypeOK
<1>2. RunInv
  BY DEF RunInv, Listening
<1>3. FactsInv
  BY DEF FactsInv, Inspected, FromMachine, FromLibc, FromProbe, Gone
<1> QED BY <1>1, <1>2, <1>3

(* Removing the directory leaves it there or not.                          *)
LEMMA RemovalType == TypeOK /\ RemoveTempDir => tempdir' \in BOOLEAN
  BY DEF TypeOK, PreTypeOK, RemoveTempDir

(* Leaving the with blocks keeps the types, wherever the run goes.         *)
LEMMA LeaveType ==
    ASSUME TypeOK, NEW how, how # "capture", Leave(how),
           UNCHANGED <<late, loader, session, published>>
    PROVE  TypeOK'
<1>1. tempdir' \in BOOLEAN
  BY RemovalType DEF Leave
<1>2. connection' \in {"none", "closed"} /\ run' # "capture" /\ listener' = "closed"
  BY DEF Leave
<1> QED BY <1>1, <1>2 DEF TypeOK, PreTypeOK, Leave, Settled, targetVars, choiceVars

(* A change of the process is counted.                                     *)
LEMMA ChangeCounted == TypeOK /\ TargetChanges => changes' > 0 /\ changes' # 0
<1> SUFFICES ASSUME TypeOK, TargetChanges PROVE changes' > 0 /\ changes' # 0
  OBVIOUS
<1>1. changes \in 0..MaxChanges /\ changes' = changes + 1
  BY DEF TypeOK, PreTypeOK, TargetChanges, Exec, Exit
<1> QED BY <1>1, PreflightAssumption

(* Every step keeps the types.                                             *)
LEMMA PreTypeStep ==
    ASSUME TypeOK, RunInv, PreStep, UNCHANGED launchVars
    PROVE  TypeOK'
<1> USE PreflightAssumption DEF TypeOK, PreTypeOK, preVars, targetVars, choiceVars,
        launchVars, Moves, Keeps, Settled, Gone
<1>p. UNCHANGED launchVars
  OBVIOUS
<1>1. CASE ResolveTarget
  BY <1>p, <1>1 DEF ResolveTarget
<1>2. CASE ReadExe
  BY <1>p, <1>2 DEF ReadExe
<1>3. CASE ReadMaps
  <2>1. facts' \subseteq {"minor", "machine", "libc"}
    BY <1>3 DEF ReadMaps, Learns
  <2> QED BY <1>p, <2>1, <1>3 DEF ReadMaps, Learns
<1>4. CASE VerifyAgent
  BY <1>p, <1>4 DEF VerifyAgent, BundledAgent
<1>5. CASE InspectMachine
  <2>1. facts' \subseteq {"minor", "machine", "libc"}
    BY <1>5 DEF InspectMachine, Learns
  <2> QED BY <1>p, <2>1, <1>5 DEF InspectMachine, Learns
<1>6. CASE InspectLibc
  <2>1. facts' \subseteq {"minor", "machine", "libc"}
    BY <1>6 DEF InspectLibc, Learns
  <2> QED BY <1>p, <2>1, <1>6 DEF InspectLibc, Learns
<1>7. CASE ProbeGdb
  BY <1>p, <1>7 DEF ProbeGdb, WithoutGdb
<1>8. CASE ProbeInferior
  BY <1>p, <1>8 DEF ProbeInferior
<1>9. CASE ReapHelper
  <2>1. kind # "ptrace"
    BY <1>9 DEF ReapHelper, RunInv
  <2> QED BY <1>p, <2>1, <1>9 DEF ReapHelper, WithoutGdb
<1>10. CASE ProbePydumpLoader
  <2>1. kind # "gdb"
    BY <1>10 DEF ProbePydumpLoader, RunInv
  <2> QED BY <1>p, <2>1, <1>10 DEF ProbePydumpLoader
<1>11. CASE InstallAgent
  BY <1>p, <1>11 DEF InstallAgent
<1>12. CASE MakeTempDir
  <2>1. tempdir' \in BOOLEAN
    BY <1>12 DEF MakeTempDir
  <2> QED BY <1>p, <2>1, <1>12 DEF MakeTempDir
<1>13. CASE OwnTempDir
  <2>1. tempdir' \in BOOLEAN
    BY <1>13, RemovalType DEF OwnTempDir
  <2> QED BY <1>p, <2>1, <1>13 DEF OwnTempDir
<1> QED BY <1>1, <1>2, <1>3, <1>4, <1>5, <1>6, <1>7, <1>8, <1>9, <1>10, <1>11, <1>12, <1>13
           DEF PreStep

(* The same for the steps of the run after Preflight.                      *)
LEMMA TypeStep == TypeOK /\ RunInv /\ [Next]_vars => TypeOK'
<1> SUFFICES ASSUME TypeOK, RunInv, [Next]_vars PROVE TypeOK'
  OBVIOUS
<1> USE PreflightAssumption DEF TypeOK, PreTypeOK, preVars, targetVars, choiceVars,
        launchVars, Moves, Keeps, Settled, Gone
<1>1. CASE Listen
  BY <1>1 DEF Listen
<1>2. CASE ListenFails
  BY <1>2, LeaveType DEF ListenFails
<1>3. CASE Accept
  BY <1>3 DEF Accept
<1>4. CASE PollFails
  BY <1>4, LeaveType DEF PollFails
<1>5. CASE DeadlineSeen
  BY <1>5 DEF DeadlineSeen
<1>6. CASE Join
  BY <1>6, LeaveType DEF Join
<1>7. CASE CaptureSucceeds
  BY <1>7 DEF CaptureSucceeds
<1>8. CASE CaptureFails
  BY <1>8, LeaveType DEF CaptureFails
<1>9. CASE JoinLoader
  BY <1>9, LeaveType DEF JoinLoader
<1>10. CASE Interrupt
  <2>1. tempdir' \in BOOLEAN
    BY <1>10, RemovalType DEF Interrupt
  <2> QED BY <2>1, <1>10 DEF Interrupt, InterruptProbe
<1>11. CASE DeadlinePasses
  BY <1>11 DEF DeadlinePasses
<1>12. CASE SessionAsked
  BY <1>12 DEF SessionAsked
<1>13. CASE LoaderSucceeds
  BY <1>13 DEF LoaderSucceeds
<1>14. CASE LoaderFails
  BY <1>14 DEF LoaderFails
<1>15. CASE SessionConnects
  <2>1. connection = "none"
    BY <1>15 DEF SessionConnects, RunInv
  <2> QED BY <2>1, <1>15 DEF SessionConnects
<1>16. CASE SessionEnds
  BY <1>16 DEF SessionEnds
<1>21. CASE SessionTakesGIL
  BY <1>21 DEF SessionTakesGIL
<1>17. CASE TargetChanges
  BY <1>17 DEF TargetChanges, Exec, Exit
<1>18. CASE PidReused
  BY <1>18 DEF PidReused, Reuse
<1>19. CASE PreStep /\ UNCHANGED launchVars
  BY <1>19, PreTypeStep
<1>20. CASE UNCHANGED vars
  BY <1>20 DEF vars
<1> QED BY <1>1, <1>2, <1>3, <1>4, <1>5, <1>6, <1>7, <1>8, <1>9, <1>10, <1>11, <1>12, <1>13,
           <1>14, <1>15, <1>16, <1>17, <1>18, <1>19, <1>20, <1>21 DEF Next, MainStep, LoaderStep,
           SessionStep

(* Every step keeps what the run has open to where it is.                  *)
LEMMA PreRunStep ==
    ASSUME TypeOK, RunInv, PreStep, UNCHANGED launchVars
    PROVE  RunInv'
<1> USE PreflightAssumption DEF TypeOK, PreTypeOK, RunInv, Ended, Listening, preVars,
        targetVars, choiceVars, launchVars, Moves, Keeps, Settled, Gone
<1>p. UNCHANGED launchVars
  OBVIOUS
<1>1. CASE ResolveTarget
  BY <1>p, <1>1 DEF ResolveTarget
<1>2. CASE ReadExe
  BY <1>p, <1>2 DEF ReadExe
<1>3. CASE ReadMaps
  BY <1>p, <1>3 DEF ReadMaps, Learns
<1>4. CASE VerifyAgent
  BY <1>p, <1>4 DEF VerifyAgent, BundledAgent
<1>5. CASE InspectMachine
  BY <1>p, <1>5 DEF InspectMachine, Learns
<1>6. CASE InspectLibc
  BY <1>p, <1>6 DEF InspectLibc, Learns
<1>7. CASE ProbeGdb
  BY <1>p, <1>7 DEF ProbeGdb, WithoutGdb
<1>8. CASE ProbeInferior
  BY <1>p, <1>8 DEF ProbeInferior
<1>9. CASE ReapHelper
  BY <1>p, <1>9 DEF ReapHelper, WithoutGdb
<1>10. CASE ProbePydumpLoader
  BY <1>p, <1>10 DEF ProbePydumpLoader
<1>11. CASE InstallAgent
  BY <1>p, <1>11 DEF InstallAgent
<1>12. CASE MakeTempDir
  <2>1. CASE Moves("tempdir", "own")
    BY <1>p, <1>12, <2>1 DEF MakeTempDir
  <2>2. CASE Moves("tempdir", "raised")
    BY <1>p, <1>12, <2>2 DEF MakeTempDir
  <2> QED BY <1>12, <2>1, <2>2 DEF MakeTempDir
<1>13. CASE OwnTempDir
  BY <1>p, <1>13 DEF OwnTempDir, RemoveTempDir
<1> QED BY <1>1, <1>2, <1>3, <1>4, <1>5, <1>6, <1>7, <1>8, <1>9, <1>10, <1>11, <1>12, <1>13
           DEF PreStep

(* The same for the steps of the run after Preflight.                      *)
LEMMA RunStep == TypeOK /\ RunInv /\ [Next]_vars => RunInv'
<1> SUFFICES ASSUME TypeOK, RunInv, [Next]_vars PROVE RunInv'
  OBVIOUS
<1> USE PreflightAssumption DEF TypeOK, PreTypeOK, RunInv, Ended, Listening, preVars,
        targetVars, choiceVars, launchVars, Moves, Keeps, Settled, Gone
<1>1. CASE Listen
  BY <1>1 DEF Listen
<1>2. CASE ListenFails
  BY <1>2 DEF ListenFails, Leave, RemoveTempDir
<1>3. CASE Accept
  BY <1>3 DEF Accept
<1>4. CASE PollFails
  BY <1>4 DEF PollFails, Leave, RemoveTempDir
<1>5. CASE DeadlineSeen
  BY <1>5 DEF DeadlineSeen
<1>6. CASE Join
  BY <1>6 DEF Join, Leave, RemoveTempDir
<1>7. CASE CaptureSucceeds
  BY <1>7 DEF CaptureSucceeds
<1>8. CASE CaptureFails
  BY <1>8 DEF CaptureFails, Leave, RemoveTempDir
<1>9. CASE JoinLoader
  BY <1>9 DEF JoinLoader, Leave, RemoveTempDir
<1>10. CASE Interrupt
  BY <1>10 DEF Interrupt, InterruptProbe, RemoveTempDir
<1>11. CASE DeadlinePasses
  BY <1>11 DEF DeadlinePasses
<1>12. CASE SessionAsked
  BY <1>12 DEF SessionAsked
<1>13. CASE LoaderSucceeds
  BY <1>13 DEF LoaderSucceeds
<1>14. CASE LoaderFails
  BY <1>14 DEF LoaderFails
<1>15. CASE SessionConnects
  BY <1>15 DEF SessionConnects
<1>16. CASE SessionEnds
  BY <1>16 DEF SessionEnds
<1>21. CASE SessionTakesGIL
  BY <1>21 DEF SessionTakesGIL
<1>17. CASE TargetChanges
  BY <1>17 DEF TargetChanges, Exec, Exit
<1>18. CASE PidReused
  BY <1>18 DEF PidReused, Reuse
<1>19. CASE PreStep /\ UNCHANGED launchVars
  BY <1>19, PreRunStep
<1>20. CASE UNCHANGED vars
  BY <1>20 DEF vars
<1> QED BY <1>1, <1>2, <1>3, <1>4, <1>5, <1>6, <1>7, <1>8, <1>9, <1>10, <1>11, <1>12, <1>13,
           <1>14, <1>15, <1>16, <1>17, <1>18, <1>19, <1>20, <1>21 DEF Next, MainStep, LoaderStep,
           SessionStep

(* Every step keeps what has been read true of the present program.        *)
LEMMA PreFactsStep ==
    ASSUME TypeOK, RunInv, FactsInv, PreStep, UNCHANGED launchVars
    PROVE  FactsInv'
<1> USE PreflightAssumption DEF TypeOK, PreTypeOK, RunInv, FactsInv, Ended, Listening,
        Inspected, FromMachine, FromLibc, FromProbe, preVars, targetVars, choiceVars,
        launchVars, Moves, Keeps, Settled, Gone
<1>p. UNCHANGED launchVars
  OBVIOUS
<1>1. CASE ResolveTarget
  BY <1>p, <1>1 DEF ResolveTarget
<1>2. CASE ReadExe
  BY <1>p, <1>2 DEF ReadExe
<1>3. CASE ReadMaps
  BY <1>p, <1>3 DEF ReadMaps, Learns
<1>4. CASE VerifyAgent
  BY <1>p, <1>4 DEF VerifyAgent, BundledAgent
<1>5. CASE InspectMachine
  BY <1>p, <1>5 DEF InspectMachine, Learns
<1>6. CASE InspectLibc
  BY <1>p, <1>6 DEF InspectLibc, Learns
<1>7. CASE ProbeGdb
  BY <1>p, <1>7 DEF ProbeGdb, WithoutGdb
<1>8. CASE ProbeInferior
  BY <1>p, <1>8 DEF ProbeInferior
<1>9. CASE ReapHelper
  BY <1>p, <1>9 DEF ReapHelper, WithoutGdb
<1>10. CASE ProbePydumpLoader
  BY <1>p, <1>10 DEF ProbePydumpLoader
<1>11. CASE InstallAgent
  BY <1>p, <1>11 DEF InstallAgent
<1>12. CASE MakeTempDir
  BY <1>p, <1>12 DEF MakeTempDir
<1>13. CASE OwnTempDir
  BY <1>p, <1>13 DEF OwnTempDir, RemoveTempDir
<1> QED BY <1>1, <1>2, <1>3, <1>4, <1>5, <1>6, <1>7, <1>8, <1>9, <1>10, <1>11, <1>12, <1>13
           DEF PreStep

(* The same for the steps of the run after Preflight.                      *)
LEMMA FactsStep == TypeOK /\ RunInv /\ FactsInv /\ [Next]_vars => FactsInv'
<1> SUFFICES ASSUME TypeOK, RunInv, FactsInv, [Next]_vars PROVE FactsInv'
  OBVIOUS
<1> USE PreflightAssumption DEF TypeOK, PreTypeOK, RunInv, FactsInv, Ended, Listening,
        Inspected, FromMachine, FromLibc, FromProbe, preVars, targetVars, choiceVars,
        launchVars, Moves, Keeps, Settled, Gone
<1>1. CASE Listen
  BY <1>1 DEF Listen
<1>2. CASE ListenFails
  BY <1>2 DEF ListenFails, Leave, RemoveTempDir
<1>3. CASE Accept
  BY <1>3 DEF Accept
<1>4. CASE PollFails
  BY <1>4 DEF PollFails, Leave, RemoveTempDir
<1>5. CASE DeadlineSeen
  BY <1>5 DEF DeadlineSeen
<1>6. CASE Join
  BY <1>6 DEF Join, Leave, RemoveTempDir
<1>7. CASE CaptureSucceeds
  BY <1>7 DEF CaptureSucceeds
<1>8. CASE CaptureFails
  BY <1>8 DEF CaptureFails, Leave, RemoveTempDir
<1>9. CASE JoinLoader
  BY <1>9 DEF JoinLoader, Leave, RemoveTempDir
<1>10. CASE Interrupt
  BY <1>10 DEF Interrupt, InterruptProbe, RemoveTempDir
<1>11. CASE DeadlinePasses
  BY <1>11 DEF DeadlinePasses
<1>12. CASE SessionAsked
  BY <1>12 DEF SessionAsked
<1>13. CASE LoaderSucceeds
  BY <1>13 DEF LoaderSucceeds
<1>14. CASE LoaderFails
  BY <1>14 DEF LoaderFails
<1>15. CASE SessionConnects
  BY <1>15 DEF SessionConnects
<1>16. CASE SessionEnds
  BY <1>16 DEF SessionEnds
<1>21. CASE SessionTakesGIL
  BY <1>21 DEF SessionTakesGIL
<1>17. CASE TargetChanges
  <2>1. changes' > 0 /\ changes' # 0
    BY <1>17, ChangeCounted
  <2>2. facts' = {} /\ UNCHANGED <<run, loader, minor, agent>>
    BY <1>17 DEF TargetChanges, Exec, Exit
  <2> QED BY <2>1, <2>2
<1>18. CASE PidReused
  BY <1>18 DEF PidReused, Reuse
<1>19. CASE PreStep /\ UNCHANGED launchVars
  BY <1>19, PreFactsStep
<1>20. CASE UNCHANGED vars
  BY <1>20 DEF vars
<1> QED BY <1>1, <1>2, <1>3, <1>4, <1>5, <1>6, <1>7, <1>8, <1>9, <1>10, <1>11, <1>12, <1>13,
           <1>14, <1>15, <1>16, <1>17, <1>18, <1>19, <1>20, <1>21 DEF Next, MainStep, LoaderStep,
           SessionStep

-----------------------------------------------------------------------------
(* Every reachable state of a run satisfies the invariant.                 *)
LEMMA InvHolds == Spec => [](TypeOK /\ RunInv /\ FactsInv)
<1>1. Init => TypeOK /\ RunInv /\ FactsInv
  BY InvInit
<1>2. TypeOK /\ RunInv /\ FactsInv /\ [Next]_vars => (TypeOK /\ RunInv /\ FactsInv)'
  BY TypeStep, RunStep, FactsStep
<1> QED BY <1>1, <1>2, PTL DEF Spec

(* Types; in particular a connection is held exactly while it is captured, *)
(* although the agent may connect, and Ctrl+C come, at any moment.         *)
THEOREM LaunchTypes == Spec => []TypeOK
  BY InvHolds, PTL

(* The loader is only let loose on a program that fits, as far as what was *)
(* read is still true.                                                     *)
THEOREM AgentFits == Spec => []FitsWhatWasRead
<1>1. TypeOK /\ RunInv /\ FactsInv => FitsWhatWasRead
  BY DEF TypeOK, PreTypeOK, FactsInv, Inspected, FitsWhatWasRead
<1> QED BY <1>1, InvHolds, PTL

(* However a run ends, the probe's helper has been told to go and the      *)
(* directory is gone unless its process is.                                *)
THEOREM ExitIsClean == Spec => []CleanExit
<1>1. TypeOK /\ RunInv /\ FactsInv => CleanExit
  BY DEF RunInv, CleanExit, Ended, Listening
<1> QED BY <1>1, InvHolds, PTL

(* The generic timeout is reported only if the loader did not fail.        *)
THEOREM FailureIsSpecific == Spec => []SpecificFailure
<1>1. TypeOK /\ RunInv /\ FactsInv => SpecificFailure
  BY DEF RunInv, SpecificFailure
<1> QED BY <1>1, InvHolds, PTL

(* Once the run has ended no session connects, and one that takes the GIL  *)
(* only then holds a socket that is closed: the listener is closed, and    *)
(* with it the backlog.                                                    *)
THEOREM NoLateSession == Spec => NoSessionAfterEnd
<1> DEFINE
      Late == Ended => /\ session \in {"none", "asked"} => session' \in {"none", "asked", "over"}
                       /\ session' = "holds" => session = "holds" \/ connection = "closed"
<1>1. TypeOK /\ RunInv /\ FactsInv /\ [Next]_vars => [Late]_vars
  <2> SUFFICES ASSUME TypeOK, RunInv, Next, Ended PROVE Late
    BY DEF vars
  <2>1. listener # "open"
    BY DEF RunInv, Ended, Listening
  <2>2. CASE UNCHANGED session
    BY <2>2
  <2>3. CASE SessionAsked \/ SessionConnects \/ SessionEnds
    BY <2>1, <2>3 DEF SessionAsked, SessionConnects, SessionEnds
  <2>4. CASE SessionTakesGIL
    <3>1. connection = "closed"
      BY <2>4 DEF SessionTakesGIL, RunInv, TypeOK
    <3> QED BY <2>4, <3>1 DEF SessionTakesGIL
  <2>5. CASE TargetChanges
    BY <2>5 DEF TargetChanges
  <2>6. CASE PreStep /\ UNCHANGED launchVars
    BY <2>2, <2>6 DEF launchVars
  <2>7. CASE Listen \/ ListenFails \/ Accept \/ PollFails \/ DeadlineSeen \/ Join
               \/ CaptureSucceeds \/ CaptureFails \/ JoinLoader \/ Interrupt
    BY <2>2, <2>7 DEF Listen, ListenFails, Accept, PollFails, DeadlineSeen, Join,
                      CaptureSucceeds, CaptureFails, JoinLoader, Interrupt
  <2>8. CASE DeadlinePasses \/ LoaderStep \/ PidReused
    BY <2>2, <2>8 DEF DeadlinePasses, LoaderStep, LoaderSucceeds, LoaderFails,
                      PidReused, launchVars
  <2> QED BY <2>3, <2>4, <2>5, <2>6, <2>7, <2>8 DEF Next, MainStep, SessionStep
<1> QED BY <1>1, InvHolds, PTL DEF Spec, NoSessionAfterEnd
=============================================================================
