------------------------------ MODULE Injector ------------------------------
(***************************************************************************)
(* pydump-loader (injector_linux.go, arch_*.go): the helper stops the main *)
(* thread of the target with ptrace, makes it run system calls, maps a     *)
(* bootstrap area, and starts two clone tasks in it, one that calls dlopen *)
(* and one that calls pydump_schedule.  The tasks run on their own; the    *)
(* helper only polls the word in which they store their result.            *)
(***************************************************************************)
EXTENDS Naturals

CONSTANTS
    RetiresInTime,\* a task that has stored its result is gone 10 ms later
    Signals       \* another signal may stop the target in a remote operation

ASSUME InjectorAssumption == {RetiresInTime, Signals} \subseteq BOOLEAN

VARIABLES
    hpc,       \* where the helper is
    outcome,   \* "none", "ok" or "error": the result that Inject returns
    inUse,     \* bootstrapInUse
    attached,
    stopPending,\* the SIGSTOP of the attach is still to reach the target
    killed,    \* the helper died of a signal
    callsClone,\* TRUE: AArch64, clone is called through a stub at the entry
               \* point of the C library; FALSE: x86_64, from the code page
    regs,      \* the main thread's registers: "own" or "remote"
    text,      \* the code at the C library's entry point: "own" or "stub"
    stop,      \* the signal for which the thread is stopped: "none", "STOP",
               \* "TRAP" or "other"; detach drops it, a dying tracer delivers it
    dead,      \* the target died of the helper's breakpoint
    mapped,    \* the bootstrap area exists
    code, data,\* what its code page and data page are written for
    cell,      \* the result word: "pending", "ok" or "bad"
    task,      \* the clone tasks
    scheduled, \* calls of pydump_schedule that returned 0
    disturbed, \* history: the target lost a signal to the helper
    refused    \* history: the target's kernel refused the munmap

helperVars == <<hpc, outcome, inUse, attached, stopPending, killed>>
targetVars == <<callsClone, regs, text, stop, dead>>
areaVars   == <<mapped, code, data, cell>>
taskVars   == <<task, scheduled>>
history    == <<disturbed, refused>>
vars == <<helperVars, targetVars, areaVars, taskVars, history>>

Kinds == {"dlopen", "schedule"}
CloneOf == [dlopen |-> "clone1", schedule |-> "clone2"]
WaitOf  == [dlopen |-> "wait1", schedule |-> "wait2"]

Init ==
    /\ hpc = "attach" /\ outcome = "none" /\ inUse = FALSE /\ attached = FALSE
    /\ stopPending = FALSE /\ killed = FALSE
    /\ callsClone \in BOOLEAN /\ regs = "own" /\ text = "own"
    /\ stop = "none" /\ dead = FALSE
    /\ mapped = FALSE /\ code = "none" /\ data = "none" /\ cell = "pending"
    /\ task = [k \in Kinds |-> "none"] /\ scheduled = 0
    /\ disturbed = FALSE /\ refused = FALSE

-----------------------------------------------------------------------------
(* The deferred functions of Inject: munmap unless the area is in use,     *)
(* then detach.                                                            *)

Go(to) == hpc' = to /\ UNCHANGED outcome
Fail(to) == hpc' = to /\ outcome' = "error"

(* Any stop will do for attach: if it is that of another signal, the signal*)
(* is dropped and the SIGSTOP is still to come.                            *)
Attach ==
    /\ hpc = "attach"
    /\ \/ /\ Go("mmap") /\ attached' = TRUE
          /\ stopPending' \in {FALSE, Signals} /\ disturbed' = stopPending'
          /\ stop' = IF stopPending' THEN "other" ELSE "STOP"
       \/ Fail("end") /\ UNCHANGED <<attached, stopPending, disturbed, stop>>
    /\ UNCHANGED <<inUse, killed, callsClone, regs, text, dead, areaVars, taskVars, refused>>

Detach ==
    /\ hpc = "detach"
    /\ Go("end") /\ attached' = FALSE /\ stop' = "none"
    /\ UNCHANGED <<inUse, stopPending, killed, callsClone, regs, text, dead,
                   areaVars, taskVars, history>>

-----------------------------------------------------------------------------
(* A remote operation.  StartRemote saves and overwrites instructions and  *)
(* registers and lets the main thread run; the operation ends with the     *)
(* thread stopped again and both put back.                                 *)

Syscalls == {"mmap", "mprotect", "munmap"}
Clones   == {"clone1", "clone2"}

(* The operations whose instructions are written over the entry point.     *)
PatchesEntry == hpc \in Syscalls \/ (hpc \in Clones /\ callsClone)

StartRemote ==
    /\ hpc \in Syscalls \cup Clones /\ regs = "own"
    /\ regs' = "remote" /\ stop' = "none"
    /\ text' = IF PatchesEntry THEN "stub" ELSE text
    /\ code' = CASE hpc = "clone1" -> "dlopen"
                 [] hpc = "clone2" -> "schedule"
                 [] OTHER -> code
    /\ UNCHANGED <<helperVars, callsClone, dead, mapped, data, cell, taskVars, history>>

(* Mutant: the instructions are not put back.                              *)
RemoteEndsPatched(op) ==
    /\ hpc = op /\ regs = "remote"
    /\ regs' = "own"
    /\ UNCHANGED <<text, attached, killed, callsClone, dead, code, data, cell, scheduled>>

RemoteEnds(op) ==
    /\ hpc = op /\ regs = "remote"
    /\ regs' = "own" /\ text' = "own"
    /\ UNCHANGED <<attached, killed, callsClone, dead, code, data, cell, scheduled>>

(* The breakpoint after the operation stops the thread, or another signal  *)
(* does, which is dropped.                                                 *)
Trapped   == stop' = "TRAP" /\ UNCHANGED disturbed
Disturbed == stop' = "other" /\ disturbed' = TRUE

(* The first remote operation: a SIGSTOP that is still to come, or another *)
(* signal before it, ends it at once.                                      *)
EndMmap ==
    /\ RemoteEnds("mmap")
    /\ \/ /\ ~stopPending /\ Trapped /\ UNCHANGED stopPending
          /\ \/ Go("mprotect") /\ mapped' = TRUE
             \/ Fail("detach") /\ UNCHANGED mapped
       \/ /\ ~stopPending /\ Signals /\ Disturbed /\ Fail("detach")
          /\ mapped' \in BOOLEAN /\ UNCHANGED stopPending
       \/ /\ stopPending /\ Fail("detach") /\ disturbed' = TRUE
          /\ stopPending' \in {FALSE, Signals}
          /\ stop' = IF stopPending' THEN "other" ELSE "STOP"
          /\ UNCHANGED mapped
    /\ UNCHANGED <<inUse, task, refused>>

EndMprotect ==
    /\ RemoteEnds("mprotect")
    /\ \/ Trapped /\ (Go("write1") \/ Fail("munmap"))
       \/ Signals /\ Disturbed /\ Fail("munmap")
    /\ UNCHANGED <<inUse, stopPending, mapped, task, refused>>

(* clone: the task runs, or clone refused, or nobody knows.                *)
EndClone(k) ==
    /\ RemoteEnds(CloneOf[k])
    /\ \/ /\ Trapped /\ Go(WaitOf[k])
          /\ task' = [task EXCEPT ![k] = "running"]
          /\ UNCHANGED inUse
       \/ Trapped /\ Fail("munmap") /\ inUse' = FALSE /\ UNCHANGED task
       \/ /\ Signals /\ Disturbed /\ Fail("detach")
          /\ \/ UNCHANGED task
             \/ task' = [task EXCEPT ![k] = "running"]
          /\ UNCHANGED inUse
    /\ UNCHANGED <<stopPending, mapped, refused>>

EndMunmap ==
    /\ RemoteEnds("munmap")
    /\ \/ Trapped /\ Go("detach") /\ mapped' = FALSE /\ UNCHANGED refused
       \/ Trapped /\ Fail("detach") /\ refused' = TRUE /\ UNCHANGED mapped
       \/ Signals /\ Disturbed /\ Fail("detach") /\ mapped' \in BOOLEAN /\ UNCHANGED refused
    /\ UNCHANGED <<inUse, stopPending, task>>

-----------------------------------------------------------------------------
(* Arguments, results and the dynamic symbol table.                        *)

Write(k, at, clone) ==
    /\ hpc = at
    /\ \/ /\ Go(clone) /\ inUse' = TRUE
          /\ data' = k /\ cell' = "pending"
       \/ Fail("munmap") /\ UNCHANGED <<inUse, data, cell>>
    /\ UNCHANGED <<attached, stopPending, killed, targetVars, mapped, code, taskVars, history>>

WriteDlopen   == Write("dlopen", "write1", "clone1")
WriteSchedule == Write("schedule", "write2", "clone2")

(* Mutants: bootstrapInUse stays set after a success; the result of        *)
(* pydump_schedule is not looked at.                                       *)
ResultKeepsArea(k) ==
    /\ hpc = WaitOf[k] /\ cell # "pending"
    /\ RetiresInTime => task[k] = "gone"
    /\ \/ cell = "bad" /\ Fail("detach")
       \/ cell = "ok" /\ k = "dlopen" /\ Go("resolve")
       \/ cell = "ok" /\ k = "schedule" /\ hpc' = "detach" /\ outcome' = "ok"
    /\ UNCHANGED <<inUse, attached, stopPending, killed, targetVars, areaVars, taskVars, history>>

ResultIgnored(k) ==
    /\ hpc = WaitOf[k] /\ cell # "pending"
    /\ RetiresInTime => task[k] = "gone"
    /\ inUse' = FALSE
    /\ \/ k = "dlopen" /\ Go("resolve")
       \/ k = "schedule" /\ hpc' = "munmap" /\ outcome' = "ok"
    /\ UNCHANGED <<attached, stopPending, killed, targetVars, areaVars, taskVars, history>>

(* waitForCloneResult saw a result, slept 10 ms and returned it.           *)
ResultSeen(k) ==
    /\ hpc = WaitOf[k] /\ cell # "pending"
    /\ RetiresInTime => task[k] = "gone"
    /\ inUse' = FALSE
    /\ \/ cell = "bad" /\ Fail("munmap")
       \/ cell = "ok" /\ k = "dlopen" /\ Go("resolve")
       \/ cell = "ok" /\ k = "schedule" /\ hpc' = "munmap" /\ outcome' = "ok"
    /\ UNCHANGED <<attached, stopPending, killed, targetVars, areaVars, taskVars, history>>

(* Mutants: a timeout unmaps the area, or never happens.                   *)
TimeoutUnmaps(k) ==
    /\ hpc = WaitOf[k]
    /\ Fail("munmap")
    /\ UNCHANGED <<inUse, attached, stopPending, killed, targetVars, areaVars, taskVars, history>>

TimeoutNever(k) == hpc = WaitOf[k] /\ FALSE /\ UNCHANGED vars

(* The deadline passes; the result may have come after the last look.      *)
WaitTimesOut(k) ==
    /\ hpc = WaitOf[k]
    /\ Fail("detach")
    /\ UNCHANGED <<inUse, attached, stopPending, killed, targetVars, areaVars, taskVars, history>>

ResolveSchedule ==
    /\ hpc = "resolve"
    /\ Go("write2") \/ Fail("munmap")
    /\ UNCHANGED <<inUse, attached, stopPending, killed, targetVars, areaVars, taskVars, history>>

(* PydumpLoader.start kills the helper at its own deadline, which a remote *)
(* operation or two long waits can outlast, and Ctrl+C at the terminal     *)
(* kills it anywhere, since both are of one process group.  No deferred    *)
(* function runs; the kernel detaches and lets the target go on with the   *)
(* signal for which it was stopped.                                        *)
KillHelper ==
    /\ ~killed /\ hpc # "end"
    /\ killed' = TRUE /\ outcome' = "error" /\ attached' = FALSE
    /\ text' \in {text} \cup (IF PatchesEntry THEN {"stub"} ELSE {})
    /\ stopPending' \in IF hpc = "attach" THEN BOOLEAN ELSE {stopPending \/ stop = "STOP"}
    /\ dead' = (stop = "TRAP") /\ stop' = "none"
    /\ UNCHANGED <<hpc, inUse, callsClone, regs, areaVars, taskVars, history>>

(* A thread let go in a remote operation runs it, meets the breakpoint and *)
(* has no tracer to catch it.                                              *)
OrphanRuns ==
    /\ killed /\ regs = "remote" /\ ~dead
    /\ dead' = TRUE
    /\ mapped' \in CASE hpc = "mmap" -> BOOLEAN
                     [] hpc = "munmap" -> {mapped, FALSE}
                     [] OTHER -> {mapped}
    /\ task' \in {task} \cup
            {[task EXCEPT ![k] = "running"] : k \in {j \in Kinds : CloneOf[j] = hpc}}
    /\ UNCHANGED <<helperVars, callsClone, regs, text, stop, code, data, cell, scheduled, history>>

-----------------------------------------------------------------------------
(* The clone tasks: call, store the result, return.                        *)

TaskStores(k) ==
    /\ task[k] = "running"
    /\ task' = [task EXCEPT ![k] = "stored"]
    /\ cell' \in {"ok", "bad"}
    /\ scheduled' = IF k = "schedule" /\ cell' = "ok" THEN scheduled + 1 ELSE scheduled
    /\ UNCHANGED <<helperVars, targetVars, mapped, code, data, history>>

TaskRetires(k) ==
    /\ task[k] = "stored"
    /\ task' = [task EXCEPT ![k] = "gone"]
    /\ UNCHANGED <<helperVars, targetVars, areaVars, scheduled, history>>

-----------------------------------------------------------------------------

HelperStep ==
    /\ ~killed
    /\ \/ Attach \/ Detach \/ StartRemote \/ EndMmap \/ EndMprotect \/ EndMunmap
       \/ WriteDlopen \/ WriteSchedule \/ ResolveSchedule
       \/ \E k \in Kinds : EndClone(k) \/ ResultSeen(k) \/ WaitTimesOut(k)

Next ==
    \/ HelperStep \/ KillHelper \/ OrphanRuns
    \/ \E k \in Kinds : TaskStores(k) \/ TaskRetires(k)

Spec == Init /\ [][Next]_vars

(* The helper is scheduled, a remote system call returns and deadlines     *)
(* pass.  A task may wait for ever for the dynamic loader's lock.          *)
FairSpec == Spec /\ WF_vars(HelperStep)

-----------------------------------------------------------------------------
(* Properties.                                                             *)

(* Every variable of helper, target and clone tasks keeps to its type, and *)
(* one injection makes the agent accept one request at most.               *)
TypeOK ==
    /\ hpc \in {"attach", "mmap", "mprotect", "write1", "clone1", "wait1", "resolve",
                "write2", "clone2", "wait2", "munmap", "detach", "end"}
    /\ outcome \in {"none", "ok", "error"} /\ inUse \in BOOLEAN /\ attached \in BOOLEAN
    /\ stopPending \in BOOLEAN /\ killed \in BOOLEAN /\ callsClone \in BOOLEAN
    /\ stop \in {"none", "STOP", "TRAP", "other"} /\ dead \in BOOLEAN
    /\ regs \in {"own", "remote"} /\ text \in {"own", "stub"}
    /\ mapped \in BOOLEAN /\ {code, data} \subseteq {"none"} \cup Kinds
    /\ cell \in {"pending", "ok", "bad"}
    /\ task \in [Kinds -> {"none", "running", "stored", "gone"}]
    /\ scheduled \in 0..1 /\ disturbed \in BOOLEAN /\ refused \in BOOLEAN

(* A clone task that has not returned finds its code and stack mapped and  *)
(* its own instructions in the code page, and until it has its result, its *)
(* own arguments: nothing is unmapped or reused under it (Inject).         *)
TasksUndisturbed ==
    \A k \in Kinds :
        /\ task[k] \in {"running", "stored"} => mapped /\ code = k
        /\ task[k] = "running" => data = k

(* When the target is let go, its registers and its code are what they     *)
(* were and it does not die of the helper's breakpoint, whatever failed: a *)
(* helper that is killed leaves them changed only in a remote operation,   *)
(* and costs the target its life only once it has attached.                *)
TargetRestored ==
    ~attached => /\ \/ regs = "own" /\ text = "own"
                    \/ killed /\ hpc \in Syscalls \cup Clones
                 /\ dead => killed /\ hpc # "attach"

(* The bootstrap area outlives the helper only when a task may still be in *)
(* it, a signal interfered, the kernel refused to unmap it or the helper   *)
(* was killed, the SIGSTOP of the attach only in the second and the last   *)
(* case, and then the helper has reported a failure.                       *)
LeaksAreReported ==
    hpc = "end" \/ killed =>
        /\ mapped => outcome = "error" /\ (inUse \/ disturbed \/ refused \/ killed)
        /\ stopPending => outcome = "error" /\ (disturbed \/ killed)

(* Success is reported only if pydump_schedule accepted the request, once, *)
(* and the target lost no signal: attach and executeRegisters drop the one *)
(* that stops the thread, and the remote operation then fails.             *)
SuccessIsReal == outcome = "ok" => scheduled = 1 /\ ~disturbed

(* The target's main thread is let go: the helper detaches by its deadline *)
(* even when a clone task never finishes.                                  *)
Detaches == <>[]~attached
=============================================================================
