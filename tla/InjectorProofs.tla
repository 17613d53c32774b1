--------------------------- MODULE InjectorProofs ---------------------------
(***************************************************************************)
(* The safety of one injection, on both architectures, with and without    *)
(* signals.  None of the properties is inductive: what the helper leaves   *)
(* depends on where it was when it gave up, so each part of the invariant  *)
(* relates a variable to the helper's place in Inject.                     *)
(***************************************************************************)
EXTENDS Injector, TLAPS

(* TypeOK in three parts: where helper and thread are, the flags, and the  *)
(* bootstrap area with its tasks.                                          *)
PlaceType ==
    /\ hpc \in {"attach", "mmap", "mprotect", "write1", "clone1", "wait1", "resolve",
                "write2", "clone2", "wait2", "munmap", "detach", "end"}
    /\ outcome \in {"none", "ok", "error"}
    /\ regs \in {"own", "remote"} /\ text \in {"own", "stub"}
    /\ stop \in {"none", "STOP", "TRAP", "other"}

FlagType ==
    /\ inUse \in BOOLEAN /\ attached \in BOOLEAN /\ stopPending \in BOOLEAN
    /\ killed \in BOOLEAN /\ callsClone \in BOOLEAN /\ dead \in BOOLEAN
    /\ mapped \in BOOLEAN /\ disturbed \in BOOLEAN /\ refused \in BOOLEAN

AreaType ==
    /\ {code, data} \subseteq {"none"} \cup Kinds
    /\ cell \in {"pending", "ok", "bad"}
    /\ task \in [Kinds -> {"none", "running", "stored", "gone"}]
    /\ scheduled \in 0..1

Working == {"mprotect", "write1", "clone1", "wait1", "resolve", "write2", "clone2", "wait2"}

(* The helper holds the target from the attach to its end, the target is   *)
(* changed only in a remote operation, and what stays mapped or pending has*)
(* been reported.                                                          *)
HelperInv ==
    /\ attached <=> hpc \notin {"attach", "end"} /\ ~killed
    /\ regs = "remote" => hpc \in Syscalls \cup Clones
    /\ text = "stub" => regs = "remote" \/ (killed /\ hpc \in Syscalls \cup Clones)
    /\ hpc = "attach" => stop = "none"
    /\ dead => killed /\ hpc # "attach"
    /\ killed => outcome = "error"
    /\ hpc \in {"attach", "mmap"} => ~inUse /\ (killed \/ ~mapped)
    /\ hpc \in {"clone1", "wait1", "clone2", "wait2"} => inUse
    /\ hpc \in Working => mapped
    /\ hpc = "munmap" => mapped \/ killed
    /\ hpc \in {"detach", "end"} /\ mapped
          => outcome = "error" /\ (inUse \/ disturbed \/ refused)
    /\ stopPending /\ ~killed => disturbed /\ (hpc = "mmap" \/ outcome = "error")
    /\ disturbed => \/ outcome = "error" /\ (killed \/ hpc \in {"munmap", "detach", "end"})
                    \/ hpc = "mmap" /\ stopPending
    /\ outcome = "ok" => hpc \in {"munmap", "detach", "end"}

(* A result word that is set was set by the task the helper waits for, and *)
(* each task is started and stores its result once.                        *)
ResultInv ==
    /\ hpc \in {"attach", "mmap", "mprotect", "write1"} \/ (hpc = "clone1" /\ ~dead)
          => task["dlopen"] = "none"
    /\ (hpc \in {"attach", "mmap"} \cup (Working \ {"clone2", "wait2"})
        \/ (hpc = "clone2" /\ ~dead))
          => task["schedule"] = "none"
    /\ ~dead /\ hpc = "clone1" => cell = "pending"
    /\ hpc = "wait1" => (task["dlopen"] = "running" <=> cell = "pending")
    /\ ~dead /\ hpc = "clone2" => cell = "pending"
    /\ hpc \in {"resolve", "write2", "clone2", "wait2"} => task["dlopen"] # "running"
    /\ hpc = "wait2" => /\ task["schedule"] = "running" <=> cell = "pending"
                        /\ cell = "ok" => scheduled = 1
    /\ task["schedule"] \in {"none", "running"} => scheduled = 0
    /\ outcome = "ok" => scheduled = 1

Live(k) == task[k] \in {"running", "stored"}

(* A task lives only while the helper waits for it or after the helper has *)
(* given up or was killed, and the area is still the one written for it.   *)
AreaInv ==
    /\ \A k \in Kinds : Live(k) =>
          /\ hpc \in {WaitOf[k], "detach", "end"} \/ (killed /\ hpc = CloneOf[k])
          /\ mapped /\ code = k /\ data = k
    /\ hpc = "clone1" => data = "dlopen" /\ (regs = "remote" => code = "dlopen")
    /\ hpc = "clone2" => data = "schedule" /\ (regs = "remote" => code = "schedule")

-----------------------------------------------------------------------------
(* The parts hold at the start.                                            *)
LEMMA InvInit == Init => TypeOK /\ HelperInv /\ ResultInv /\ AreaInv
<1> SUFFICES ASSUME Init PROVE TypeOK /\ HelperInv /\ ResultInv /\ AreaInv
  OBVIOUS
<1>1. TypeOK
  <2>1. task \in [Kinds -> {"none", "running", "stored", "gone"}]
    BY DEF Init
  <2>2. scheduled \in 0..1
    BY DEF Init
  <2>3. {code, data} \subseteq {"none"} \cup Kinds
    BY DEF Init
  <2>4. {inUse, attached, stopPending, killed, callsClone, dead, mapped, disturbed, refused}
          \subseteq BOOLEAN
    BY DEF Init
  <2> QED BY <2>1, <2>2, <2>3, <2>4 DEF Init, TypeOK
<1>2. HelperInv
  BY DEF Init, HelperInv, Working
<1>3. ResultInv
  BY DEF Init, ResultInv, Kinds
<1>4. AreaInv
  BY DEF Init, AreaInv, Live
<1> QED BY <1>1, <1>2, <1>3, <1>4

(* Every step keeps helper and thread at a place of theirs.                *)
LEMMA PlaceStep == PlaceType /\ [Next]_vars => PlaceType'
<1> SUFFICES ASSUME PlaceType, [Next]_vars PROVE PlaceType'
  OBVIOUS
<1> USE InjectorAssumption
    DEF PlaceType, helperVars, targetVars, areaVars, taskVars, history,
        Go, Fail, Kinds, Trapped, Disturbed
<1>1. CASE Attach
  BY <1>1 DEF Attach
<1>2. CASE Detach
  BY <1>2 DEF Detach
<1>3. CASE StartRemote
  BY <1>3 DEF StartRemote, Syscalls, Clones, PatchesEntry
<1>4. CASE EndMmap
  BY <1>4 DEF EndMmap, RemoteEnds
<1>5. CASE EndMprotect
  BY <1>5 DEF EndMprotect, RemoteEnds
<1>6. CASE EndMunmap
  BY <1>6 DEF EndMunmap, RemoteEnds
<1>7. CASE WriteDlopen
  BY <1>7 DEF WriteDlopen, Write
<1>8. CASE WriteSchedule
  BY <1>8 DEF WriteSchedule, Write
<1>9. CASE ResolveSchedule
  BY <1>9 DEF ResolveSchedule
<1>10. ASSUME NEW k \in Kinds, EndClone(k) PROVE PlaceType'
  BY <1>10 DEF EndClone, RemoteEnds, WaitOf
<1>11. ASSUME NEW k \in Kinds, ResultSeen(k) PROVE PlaceType'
  BY <1>11 DEF ResultSeen, WaitOf
<1>12. ASSUME NEW k \in Kinds, WaitTimesOut(k) PROVE PlaceType'
  BY <1>12 DEF WaitTimesOut
<1>13. CASE KillHelper
  BY <1>13 DEF KillHelper, PatchesEntry
<1>14. ASSUME NEW k \in Kinds, TaskStores(k) PROVE PlaceType'
  BY <1>14 DEF TaskStores
<1>15. ASSUME NEW k \in Kinds, TaskRetires(k) PROVE PlaceType'
  BY <1>15 DEF TaskRetires
<1>16. CASE UNCHANGED vars
  BY <1>16 DEF vars
<1>17. CASE OrphanRuns
  BY <1>17 DEF OrphanRuns
<1> QED BY <1>1, <1>2, <1>3, <1>4, <1>5, <1>6, <1>7, <1>8,
           <1>9, <1>10, <1>11, <1>12, <1>13, <1>14, <1>15, <1>16, <1>17
        DEF Next, HelperStep

(* Every step keeps the flags.                                             *)
LEMMA FlagStep == FlagType /\ [Next]_vars => FlagType'
<1> SUFFICES ASSUME FlagType, [Next]_vars PROVE FlagType'
  OBVIOUS
<1> USE InjectorAssumption
    DEF FlagType, helperVars, targetVars, areaVars, taskVars, history,
        Go, Fail, Kinds, Trapped, Disturbed
<1>1. CASE Attach
  BY <1>1 DEF Attach
<1>2. CASE Detach
  BY <1>2 DEF Detach
<1>3. CASE StartRemote
  BY <1>3 DEF StartRemote, Syscalls, Clones, PatchesEntry
<1>4. CASE EndMmap
  BY <1>4 DEF EndMmap, RemoteEnds
<1>5. CASE EndMprotect
  BY <1>5 DEF EndMprotect, RemoteEnds
<1>6. CASE EndMunmap
  BY <1>6 DEF EndMunmap, RemoteEnds
<1>7. CASE WriteDlopen
  BY <1>7 DEF WriteDlopen, Write
<1>8. CASE WriteSchedule
  BY <1>8 DEF WriteSchedule, Write
<1>9. CASE ResolveSchedule
  BY <1>9 DEF ResolveSchedule
<1>10. ASSUME NEW k \in Kinds, EndClone(k) PROVE FlagType'
  BY <1>10 DEF EndClone, RemoteEnds, WaitOf
<1>11. ASSUME NEW k \in Kinds, ResultSeen(k) PROVE FlagType'
  BY <1>11 DEF ResultSeen, WaitOf
<1>12. ASSUME NEW k \in Kinds, WaitTimesOut(k) PROVE FlagType'
  BY <1>12 DEF WaitTimesOut
<1>13. CASE KillHelper
  BY <1>13 DEF KillHelper, PatchesEntry
<1>14. ASSUME NEW k \in Kinds, TaskStores(k) PROVE FlagType'
  BY <1>14 DEF TaskStores
<1>15. ASSUME NEW k \in Kinds, TaskRetires(k) PROVE FlagType'
  BY <1>15 DEF TaskRetires
<1>16. CASE UNCHANGED vars
  BY <1>16 DEF vars
<1>17. CASE OrphanRuns
  BY <1>17 DEF OrphanRuns
<1> QED BY <1>1, <1>2, <1>3, <1>4, <1>5, <1>6, <1>7, <1>8,
           <1>9, <1>10, <1>11, <1>12, <1>13, <1>14, <1>15, <1>16, <1>17
        DEF Next, HelperStep

(* Every step keeps the types of area and tasks.  That scheduled stays     *)
(* below 2 takes ResultInv: a task that is still to store its result has   *)
(* scheduled nothing.                                                      *)
LEMMA AreaTypeStep == AreaType /\ ResultInv /\ [Next]_vars => AreaType'
<1> SUFFICES ASSUME AreaType, ResultInv, [Next]_vars PROVE AreaType'
  OBVIOUS
<1> USE InjectorAssumption
    DEF AreaType, helperVars, targetVars, areaVars, taskVars, history,
        Go, Fail, Kinds, Trapped, Disturbed
<1>1. CASE Attach
  BY <1>1 DEF Attach
<1>2. CASE Detach
  BY <1>2 DEF Detach
<1>3. CASE StartRemote
  BY <1>3 DEF StartRemote, Syscalls, Clones, PatchesEntry
<1>4. CASE EndMmap
  BY <1>4 DEF EndMmap, RemoteEnds
<1>5. CASE EndMprotect
  BY <1>5 DEF EndMprotect, RemoteEnds
<1>6. CASE EndMunmap
  BY <1>6 DEF EndMunmap, RemoteEnds
<1>7. CASE WriteDlopen
  BY <1>7 DEF WriteDlopen, Write
<1>8. CASE WriteSchedule
  BY <1>8 DEF WriteSchedule, Write
<1>9. CASE ResolveSchedule
  BY <1>9 DEF ResolveSchedule
<1>10. ASSUME NEW k \in Kinds, EndClone(k) PROVE AreaType'
  BY <1>10 DEF EndClone, RemoteEnds, WaitOf
<1>11. ASSUME NEW k \in Kinds, ResultSeen(k) PROVE AreaType'
  BY <1>11 DEF ResultSeen, WaitOf
<1>12. ASSUME NEW k \in Kinds, WaitTimesOut(k) PROVE AreaType'
  BY <1>12 DEF WaitTimesOut
<1>13. CASE KillHelper
  BY <1>13 DEF KillHelper, PatchesEntry
<1>14. ASSUME NEW k \in Kinds, TaskStores(k) PROVE AreaType'
  BY <1>14 DEF TaskStores, ResultInv
<1>15. ASSUME NEW k \in Kinds, TaskRetires(k) PROVE AreaType'
  BY <1>15 DEF TaskRetires
<1>16. CASE UNCHANGED vars
  BY <1>16 DEF vars
<1>17. CASE OrphanRuns
  BY <1>17 DEF OrphanRuns
<1> QED BY <1>1, <1>2, <1>3, <1>4, <1>5, <1>6, <1>7, <1>8,
           <1>9, <1>10, <1>11, <1>12, <1>13, <1>14, <1>15, <1>16, <1>17
        DEF Next, HelperStep

(* The parts make TypeOK.                                                  *)
LEMMA TypeParts == TypeOK <=> PlaceType /\ FlagType /\ AreaType
  BY DEF TypeOK, PlaceType, FlagType, AreaType

(* Every step keeps the types.                                             *)
LEMMA TypeStep == TypeOK /\ ResultInv /\ [Next]_vars => TypeOK'
<1>1. TypeOK <=> PlaceType /\ FlagType /\ AreaType
  BY TypeParts
<1>2. TypeOK' <=> PlaceType' /\ FlagType' /\ AreaType'
  BY DEF TypeOK, PlaceType, FlagType, AreaType
<1> QED BY <1>1, <1>2, PlaceStep, FlagStep, AreaTypeStep

(* Every step keeps what the helper is answerable for.                     *)
LEMMA HelperStepInv == PlaceType /\ FlagType /\ HelperInv /\ [Next]_vars => HelperInv'
<1> SUFFICES ASSUME PlaceType, FlagType, HelperInv, [Next]_vars PROVE HelperInv'
  OBVIOUS
<1> USE InjectorAssumption
    DEF PlaceType, FlagType, HelperInv, Working, Syscalls, Clones,
        helperVars, targetVars, areaVars, taskVars, history,
        Go, Fail, Kinds, Trapped, Disturbed
<1>1. CASE ~killed /\ Attach
  <2>1. CASE Go("mmap")
    BY <1>1, <2>1 DEF Attach
  <2>2. CASE Fail("end")
    BY <1>1, <2>2 DEF Attach
  <2> QED BY <1>1, <2>1, <2>2 DEF Attach
<1>2. CASE ~killed /\ Detach
  BY <1>2 DEF Detach
<1>3. CASE ~killed /\ StartRemote
  BY <1>3 DEF StartRemote, PatchesEntry
<1>4. CASE ~killed /\ EndMmap
  <2>1. CASE stopPending
    BY <1>4, <2>1 DEF EndMmap, RemoteEnds
  <2>2. CASE ~stopPending /\ Go("mprotect")
    BY <1>4, <2>2 DEF EndMmap, RemoteEnds
  <2>3. CASE ~stopPending /\ Fail("detach") /\ UNCHANGED <<mapped, stopPending, disturbed>>
    BY <1>4, <2>3 DEF EndMmap, RemoteEnds
  <2>4. CASE ~stopPending /\ Fail("detach") /\ disturbed' = TRUE /\ UNCHANGED stopPending
    BY <1>4, <2>4 DEF EndMmap, RemoteEnds
  <2> QED BY <1>4, <2>1, <2>2, <2>3, <2>4 DEF EndMmap
<1>5. CASE ~killed /\ EndMprotect
  BY <1>5 DEF EndMprotect, RemoteEnds
<1>6. CASE ~killed /\ EndMunmap
  BY <1>6 DEF EndMunmap, RemoteEnds
<1>7. CASE ~killed /\ WriteDlopen
  BY <1>7 DEF WriteDlopen, Write
<1>8. CASE ~killed /\ WriteSchedule
  BY <1>8 DEF WriteSchedule, Write
<1>9. CASE ~killed /\ ResolveSchedule
  BY <1>9 DEF ResolveSchedule
<1>10. ASSUME ~killed, NEW k \in Kinds, EndClone(k) PROVE HelperInv'
  BY <1>10 DEF EndClone, RemoteEnds, CloneOf, WaitOf
<1>11. ASSUME ~killed, NEW k \in Kinds, ResultSeen(k) PROVE HelperInv'
  <2>1. CASE k = "dlopen"
    BY <1>11, <2>1 DEF ResultSeen, WaitOf
  <2>2. CASE k = "schedule"
    BY <1>11, <2>2 DEF ResultSeen, WaitOf
  <2> QED BY <2>1, <2>2
<1>12. ASSUME ~killed, NEW k \in Kinds, WaitTimesOut(k) PROVE HelperInv'
  BY <1>12 DEF WaitTimesOut, WaitOf
<1>13. CASE KillHelper
  BY <1>13 DEF KillHelper, PatchesEntry
<1>14. ASSUME NEW k \in Kinds, TaskStores(k) PROVE HelperInv'
  BY <1>14 DEF TaskStores
<1>15. ASSUME NEW k \in Kinds, TaskRetires(k) PROVE HelperInv'
  BY <1>15 DEF TaskRetires
<1>16. CASE UNCHANGED vars
  BY <1>16 DEF vars
<1>17. CASE OrphanRuns
  BY <1>17 DEF OrphanRuns, CloneOf
<1> QED BY <1>1, <1>2, <1>3, <1>4, <1>5, <1>6, <1>7, <1>8,
           <1>9, <1>10, <1>11, <1>12, <1>13, <1>14, <1>15, <1>16, <1>17
        DEF Next, HelperStep

(* Every step keeps the bookkeeping of the results.                        *)
LEMMA ResultStepInv == PlaceType /\ AreaType /\ ResultInv /\ HelperInv /\ [Next]_vars => ResultInv'
<1> SUFFICES ASSUME PlaceType, AreaType, ResultInv, HelperInv, [Next]_vars PROVE ResultInv'
  OBVIOUS
<1> USE InjectorAssumption
    DEF PlaceType, AreaType, ResultInv, Working,
        helperVars, targetVars, areaVars, taskVars, history, Go, Fail, Kinds, Trapped, Disturbed
<1>1. CASE ~killed /\ Attach
  BY <1>1 DEF Attach
<1>2. CASE ~killed /\ Detach
  BY <1>2 DEF Detach
<1>3. CASE ~killed /\ StartRemote
  BY <1>3 DEF StartRemote, PatchesEntry, Syscalls, Clones
<1>4. CASE ~killed /\ EndMmap
  BY <1>4 DEF EndMmap, RemoteEnds
<1>5. CASE ~killed /\ EndMprotect
  BY <1>5 DEF EndMprotect, RemoteEnds
<1>6. CASE ~killed /\ EndMunmap
  BY <1>6 DEF EndMunmap, RemoteEnds
<1>7. CASE ~killed /\ WriteDlopen
  BY <1>7 DEF WriteDlopen, Write
<1>8. CASE ~killed /\ WriteSchedule
  BY <1>8 DEF WriteSchedule, Write
<1>9. CASE ~killed /\ ResolveSchedule
  BY <1>9 DEF ResolveSchedule
<1>10. ASSUME ~killed, NEW k \in Kinds, EndClone(k) PROVE ResultInv'
  <2>1. ~dead
    BY <1>10 DEF HelperInv
  <2> QED BY <1>10, <2>1 DEF EndClone, RemoteEnds, CloneOf, WaitOf
<1>11. ASSUME ~killed, NEW k \in Kinds, ResultSeen(k) PROVE ResultInv'
  BY <1>11 DEF ResultSeen, WaitOf
<1>12. ASSUME ~killed, NEW k \in Kinds, WaitTimesOut(k) PROVE ResultInv'
  BY <1>12 DEF WaitTimesOut, WaitOf
<1>13. CASE KillHelper
  BY <1>13 DEF KillHelper, PatchesEntry, HelperInv
<1>14. ASSUME NEW k \in Kinds, TaskStores(k) PROVE ResultInv'
  BY <1>14 DEF TaskStores
<1>15. ASSUME NEW k \in Kinds, TaskRetires(k) PROVE ResultInv'
  BY <1>15 DEF TaskRetires
<1>16. CASE UNCHANGED vars
  BY <1>16 DEF vars
<1>17. CASE OrphanRuns
  BY <1>17 DEF OrphanRuns, CloneOf, HelperInv
<1> QED BY <1>1, <1>2, <1>3, <1>4, <1>5, <1>6, <1>7, <1>8,
           <1>9, <1>10, <1>11, <1>12, <1>13, <1>14, <1>15, <1>16, <1>17
        DEF Next, HelperStep

(* If a task that has its result is gone when the helper has waited, every *)
(* step keeps the area of the tasks that live.                             *)
LEMMA AreaStepInv ==
    ASSUME RetiresInTime, PlaceType, AreaType, HelperInv, ResultInv, AreaInv, [Next]_vars
    PROVE  AreaInv'
<1> USE InjectorAssumption
    DEF PlaceType, AreaType, AreaInv, Live, WaitOf, CloneOf,
        helperVars, targetVars, areaVars, taskVars, history, Go, Fail, Kinds, Trapped, Disturbed
<1>1. CASE ~killed /\ Attach
  BY <1>1 DEF Attach
<1>2. CASE ~killed /\ Detach
  BY <1>2 DEF Detach
<1>3. CASE ~killed /\ StartRemote
  BY <1>3 DEF StartRemote, PatchesEntry, Syscalls, Clones
<1>4. CASE ~killed /\ EndMmap
  BY <1>4 DEF EndMmap, RemoteEnds
<1>5. CASE ~killed /\ EndMprotect
  BY <1>5 DEF EndMprotect, RemoteEnds
<1>6. CASE ~killed /\ EndMunmap
  BY <1>6 DEF EndMunmap, RemoteEnds
<1>7. CASE ~killed /\ WriteDlopen
  <2>1. \A k \in Kinds : ~Live(k)
    BY <1>7 DEF WriteDlopen, Write
  <2>2. \A k \in Kinds : ~Live(k)'
    BY <1>7, <2>1 DEF WriteDlopen, Write
  <2> QED BY <1>7, <2>2, HelperInv DEF WriteDlopen, Write, HelperInv, Clones, Syscalls
<1>8. CASE ~killed /\ WriteSchedule
  <2>1. \A k \in Kinds : ~Live(k)
    BY <1>8 DEF WriteSchedule, Write
  <2>2. \A k \in Kinds : ~Live(k)'
    BY <1>8, <2>1 DEF WriteSchedule, Write
  <2> QED BY <1>8, <2>2, HelperInv DEF WriteSchedule, Write, HelperInv, Clones, Syscalls
<1>9. CASE ~killed /\ ResolveSchedule
  BY <1>9 DEF ResolveSchedule
<1>10. ASSUME ~killed, NEW k \in Kinds, EndClone(k) PROVE AreaInv'
  BY <1>10 DEF EndClone, RemoteEnds, CloneOf, HelperInv, Working
<1>11. ASSUME ~killed, NEW k \in Kinds, ResultSeen(k) PROVE AreaInv'
  BY <1>11 DEF ResultSeen, WaitOf
<1>12. ASSUME ~killed, NEW k \in Kinds, WaitTimesOut(k) PROVE AreaInv'
  BY <1>12 DEF WaitTimesOut, WaitOf
<1>13. CASE KillHelper
  BY <1>13 DEF KillHelper, PatchesEntry
<1>14. ASSUME NEW k \in Kinds, TaskStores(k) PROVE AreaInv'
  BY <1>14 DEF TaskStores
<1>15. ASSUME NEW k \in Kinds, TaskRetires(k) PROVE AreaInv'
  BY <1>15 DEF TaskRetires
<1>16. CASE UNCHANGED vars
  BY <1>16 DEF vars
<1>17. CASE OrphanRuns
  <2>1. CASE hpc \in Clones
    <3>1. mapped /\ UNCHANGED mapped
      BY <1>17, <2>1 DEF OrphanRuns, HelperInv, Working, Clones
    <3> QED BY <1>17, <2>1, <3>1 DEF OrphanRuns, Clones
  <2>2. CASE hpc \notin Clones
    <3>1. \A k \in Kinds : ~Live(k)
      BY <1>17, <2>2 DEF OrphanRuns, HelperInv, Syscalls
    <3>2. UNCHANGED task
      BY <1>17, <2>2 DEF OrphanRuns, Clones
    <3> QED BY <1>17, <2>2, <3>1, <3>2 DEF OrphanRuns, Clones
  <2> QED BY <2>1, <2>2
<1> QED BY <1>1, <1>2, <1>3, <1>4, <1>5, <1>6, <1>7, <1>8,
           <1>9, <1>10, <1>11, <1>12, <1>13, <1>14, <1>15, <1>16, <1>17
        DEF Next, HelperStep

-----------------------------------------------------------------------------
(* Every reachable state of an injection satisfies the invariant.          *)
LEMMA InvHolds == Spec => [](TypeOK /\ HelperInv /\ ResultInv)
<1>1. Init => TypeOK /\ HelperInv /\ ResultInv
  BY InvInit
<1>2. TypeOK /\ HelperInv /\ ResultInv /\ [Next]_vars => (TypeOK /\ HelperInv /\ ResultInv)'
  BY TypeParts, TypeStep, HelperStepInv, ResultStepInv
<1> QED BY <1>1, <1>2, PTL DEF Spec

(* Types, for both architectures and with any signals; in particular one   *)
(* injection makes the agent accept at most one request.                   *)
THEOREM InjectorTypes == Spec => []TypeOK
  BY InvHolds, PTL

(* Wherever Inject gives up, the main thread runs by itself again with its *)
(* own registers and instructions.  A helper that is killed leaves them    *)
(* changed only if it is killed in a remote operation, and delivers its    *)
(* breakpoint to the target only if it is killed after the attach.         *)
THEOREM RestoredOnRelease == Spec => []TargetRestored
<1>1. TypeOK /\ HelperInv /\ ResultInv => TargetRestored
  BY DEF TypeOK, HelperInv, TargetRestored, Syscalls, Clones
<1> QED BY <1>1, InvHolds, PTL

(* An area or a SIGSTOP that stays behind has been reported as a failure,  *)
(* also by a helper that was killed or whose munmap was refused.           *)
THEOREM LeaksReported == Spec => []LeaksAreReported
<1>1. TypeOK /\ HelperInv /\ ResultInv => LeaksAreReported
  BY DEF TypeOK, HelperInv, LeaksAreReported, Working
<1> QED BY <1>1, InvHolds, PTL

(* Success is reported only after pydump_schedule accepted the request,    *)
(* once, without a lost signal, however slowly the clone tasks return.     *)
THEOREM SuccessHolds == Spec => []SuccessIsReal
<1>1. TypeOK /\ HelperInv /\ ResultInv => SuccessIsReal
  BY DEF TypeOK, HelperInv, ResultInv, SuccessIsReal
<1> QED BY <1>1, InvHolds, PTL

(* If tasks return within the 10 ms the helper grants them, none finds its *)
(* area unmapped, its code replaced or its arguments overwritten.          *)
THEOREM AreaKept == ASSUME RetiresInTime PROVE Spec => []TasksUndisturbed
<1>1. Init => TypeOK /\ HelperInv /\ ResultInv /\ AreaInv
  BY InvInit
<1>2. TypeOK /\ HelperInv /\ ResultInv /\ AreaInv /\ [Next]_vars
        => (TypeOK /\ HelperInv /\ ResultInv /\ AreaInv)'
  BY RetiresInTime, TypeParts, TypeStep, HelperStepInv, ResultStepInv, AreaStepInv
<1>3. TypeOK /\ HelperInv /\ ResultInv /\ AreaInv => TasksUndisturbed
  BY DEF AreaInv, TasksUndisturbed, Live
<1> QED BY <1>1, <1>2, <1>3, PTL DEF Spec
=============================================================================
