--------------------------- MODULE AgentLifecycle ---------------------------
(***************************************************************************)
(* How loaders start sessions in the agent (agent.c): the two atomic flags,*)
(* the static slot scheduled_session, CPython's queue of pending calls and *)
(* the session threads.                                                    *)
(*                                                                         *)
(* pydump-loader calls pydump_schedule from a clone task without the GIL,  *)
(* so its steps interleave with everything; GDB queues a harmless pending  *)
(* call and calls pydump_start when the main thread stops in it.  A GDB    *)
(* that its deadline kills leaves that call behind, perhaps its breakpoint *)
(* and a call under way.  The traversal itself is CaptureSession: here a   *)
(* session just holds the GIL.                                             *)
(***************************************************************************)
EXTENDS Naturals, Sequences, FiniteSets

CONSTANTS
    Ptrace, Gdb,   \* requests of pydump-loader and of GDB
    None,
    Check,         \* the pending call PyCallable_Check(NULL), every GDB's alike
    QueueCap,      \* pending calls CPython queues
    StartFaults    \* requests whose nonce, dlopen, calloc or thread may fail

Req == Ptrace \cup Gdb

ASSUME LifecycleAssumption ==
    /\ Ptrace \cap Gdb = {}
    /\ None \notin Req \cup Nat \cup {Check}  \* no request, result or call
    /\ QueueCap \in Nat \ {0}
    /\ StartFaults \subseteq Req

VARIABLES
    session_active, schedule_active,  \* the atomic flags
    scheduled_session,                \* the slot: whose path, whose nonce
    queue,      \* pending calls: None is start_scheduled_session
    gil,        \* who holds the GIL: "free", "main" or "session"
    mpc, mcall, margs, mrc,  \* the main thread: where it is, the GDB it runs
                             \* for, pydump_start's arguments and result
    alive,      \* whether the target lives
    trap,       \* a breakpoint instruction that a killed GDB left behind
    lpc, rc,    \* each loader: where it is, and the result it was given
    sessions,   \* the session threads, in the order they were started
    decided     \* history: what pydump_start returned for each scheduled request

flags      == <<session_active, schedule_active>>
mainVars   == <<mpc, mcall, margs, mrc>>
target     == <<alive, trap>>
loaderVars == <<lpc, rc>>
vars == <<flags, scheduled_session, queue, gil, mainVars, target, loaderVars, sessions, decided>>

NoArgs == [path |-> None, nonce |-> None]

Init ==
    /\ session_active = FALSE /\ schedule_active = FALSE
    /\ scheduled_session = NoArgs
    /\ queue = <<>> /\ gil = "free"
    /\ mpc = "app" /\ mcall = None /\ mrc = 0 /\ margs = NoArgs
    /\ alive = TRUE /\ trap = FALSE
    /\ lpc = [r \in Req |-> "idle"] /\ rc = [r \in Req |-> None]
    /\ sessions = <<>> /\ decided = [r \in Ptrace |-> None]

-----------------------------------------------------------------------------
(* pydump_schedule, in the clone task of request r.                        *)

(* Loader r is at `from'.                                                  *)
At(r, from) == lpc[r] = from

Returns(r, code) ==
    /\ lpc' = [lpc EXCEPT ![r] = "returned"]
    /\ rc' = [rc EXCEPT ![r] = code]

ClaimSlot(r) ==
    /\ r \in Ptrace /\ At(r, "idle")
    /\ \/ /\ schedule_active
          /\ Returns(r, 3) /\ UNCHANGED schedule_active
       \/ /\ ~schedule_active
          /\ schedule_active' = TRUE
          /\ lpc' = [lpc EXCEPT ![r] = "path"] /\ UNCHANGED rc
    /\ UNCHANGED <<session_active, scheduled_session, queue, gil, mainVars, target, sessions,
                   decided>>

CopyPath(r) ==
    /\ At(r, "path")
    /\ scheduled_session' = [scheduled_session EXCEPT !.path = r]
    /\ lpc' = [lpc EXCEPT ![r] = "nonce"]
    /\ UNCHANGED <<flags, queue, gil, mainVars, target, rc, sessions, decided>>

(* A bad digit leaves the nonce half written.                              *)
DecodeNonce(r) ==
    /\ At(r, "nonce")
    /\ \/ /\ scheduled_session' = [scheduled_session EXCEPT !.nonce = r]
          /\ lpc' = [lpc EXCEPT ![r] = "enqueue"]
          /\ UNCHANGED <<schedule_active, rc>>
       \/ /\ r \in StartFaults
          /\ scheduled_session' = [scheduled_session EXCEPT !.nonce = None]
          /\ schedule_active' = FALSE
          /\ Returns(r, 5)
    /\ UNCHANGED <<session_active, queue, gil, mainVars, target, sessions, decided>>

(* Mutant: a refused pending call leaves schedule_active set.              *)
AddPendingCallLeaks(r) ==
    /\ At(r, "enqueue")
    /\ \/ /\ Len(queue) < QueueCap
          /\ queue' = Append(queue, None) /\ Returns(r, 0)
       \/ Len(queue) >= QueueCap /\ Returns(r, 7) /\ UNCHANGED queue
    /\ UNCHANGED <<flags, scheduled_session, gil, mainVars, target, sessions, decided>>

(* Mutant: the result of Py_AddPendingCall is ignored.                     *)
AddPendingCallUnchecked(r) ==
    /\ At(r, "enqueue")
    /\ \/ Len(queue) < QueueCap /\ queue' = Append(queue, None)
       \/ Len(queue) >= QueueCap /\ UNCHANGED queue
    /\ Returns(r, 0)
    /\ UNCHANGED <<flags, scheduled_session, gil, mainVars, target, sessions, decided>>

(* Py_AddPendingCall is refused when the queue is full.                    *)
AddPendingCall(r) ==
    /\ At(r, "enqueue")
    /\ \/ /\ Len(queue) < QueueCap
          /\ queue' = Append(queue, None)
          /\ Returns(r, 0) /\ UNCHANGED schedule_active
       \/ /\ Len(queue) >= QueueCap
          /\ schedule_active' = FALSE
          /\ Returns(r, 7) /\ UNCHANGED queue
    /\ UNCHANGED <<session_active, scheduled_session, gil, mainVars, target, sessions, decided>>

-----------------------------------------------------------------------------
(* The pending call is over: its frame and its arguments are gone.         *)
BackInApp == mpc' = "app" /\ mcall' = None /\ mrc' = 0 /\ margs' = NoArgs

(* The GDB loader.  One debugger at a time can attach.                     *)

Attached == {r \in Gdb : lpc[r] \in {"queued", "stopped"}}

GdbQueues(r) ==
    /\ r \in Gdb /\ At(r, "idle")
    /\ \/ /\ Attached = {} /\ Len(queue) < QueueCap
          /\ queue' = Append(queue, Check)
          /\ lpc' = [lpc EXCEPT ![r] = "queued"] /\ UNCHANGED rc
       \/ Attached = {} /\ Len(queue) >= QueueCap /\ Returns(r, 80) /\ UNCHANGED queue
       \/ Attached # {} /\ Returns(r, 1) /\ UNCHANGED queue
    /\ UNCHANGED <<flags, scheduled_session, gil, mainVars, target, sessions, decided>>

(* The deadline kills GDB.  Its pending call stays, its breakpoint may.    *)
(* What it had the main thread call goes on alone, and returns to where    *)
(* nobody waits: the target does not survive that (EndOrphan).             *)
GdbKilled(r) ==
    /\ r \in Gdb /\ Returns(r, 1)
    /\ \/ At(r, "idle") /\ alive' \in BOOLEAN /\ UNCHANGED <<trap, mainVars>>
       \/ At(r, "queued") /\ trap' \in {trap, TRUE} /\ UNCHANGED <<alive, mainVars>>
       \/ /\ At(r, "stopped")
          /\ \/ mpc = "stopped" /\ alive' \in BOOLEAN /\ BackInApp
             \/ mpc \in {"start", "args", "spawn"} /\ UNCHANGED <<alive, mainVars>>
             \/ mpc = "end" /\ BackInApp /\ UNCHANGED alive
          /\ UNCHANGED trap
    /\ UNCHANGED <<flags, scheduled_session, queue, gil, sessions, decided>>

-----------------------------------------------------------------------------
(* The main thread.                                                        *)

Elsewhere == UNCHANGED <<scheduled_session, target, loaderVars>>

TakeGIL ==
    /\ gil = "free" /\ mpc = "app" /\ gil' = "main"
    /\ Elsewhere /\ UNCHANGED <<flags, queue, mainVars, sessions, decided>>

DropGIL ==
    /\ gil = "main" /\ mpc = "app" /\ gil' = "free"
    /\ Elsewhere /\ UNCHANGED <<flags, queue, mainVars, sessions, decided>>

(* The thread stays in native code for good, with the GIL or without it.  *)
Sticks ==
    /\ mpc = "app" /\ mpc' = "stuck"
    /\ Elsewhere /\ UNCHANGED <<flags, queue, gil, mcall, margs, mrc, sessions, decided>>

(* The program calls PyCallable_Check, as it often does, where a killed    *)
(* GDB left its breakpoint: a SIGTRAP that nobody handles.                 *)
TrapHit ==
    /\ trap /\ gil = "main" /\ mpc = "app"
    /\ alive' = FALSE
    /\ UNCHANGED <<flags, scheduled_session, queue, gil, mainVars, trap, loaderVars, sessions,
                   decided>>

(* The next pending call.  start_scheduled_session begins by rendering the *)
(* slot's nonce.  Every PyCallable_Check(NULL) stops at the breakpoint of  *)
(* the GDB that is attached, also one that an earlier GDB left: that GDB's *)
(* own call then stays behind.  With no GDB attached it is harmless, but   *)
(* for a breakpoint left behind.                                           *)
RunPendingCall ==
    /\ gil = "main" /\ mpc = "app" /\ queue # <<>>
    /\ queue' = Tail(queue)
    /\ \/ /\ Head(queue) = None
          /\ margs' = [path |-> None, nonce |-> scheduled_session.nonce]
          /\ mpc' = "start" /\ mcall' = None /\ UNCHANGED <<lpc, alive>>
       \/ /\ Head(queue) = Check
          /\ \E r \in Gdb :
                /\ At(r, "queued") /\ lpc' = [lpc EXCEPT ![r] = "stopped"]
                /\ margs' = [path |-> None, nonce |-> r]
                /\ mpc' = "stopped" /\ mcall' = r /\ UNCHANGED alive
       \/ /\ Head(queue) = Check /\ Attached = {} /\ alive' = ~trap
          /\ UNCHANGED <<margs, lpc, mpc, mcall>>
    /\ UNCHANGED <<flags, scheduled_session, gil, mrc, trap, rc, sessions, decided>>

(* GDB has the stopped thread call dlopen and dlsym: 81 and 82.            *)
GdbLoads ==
    /\ mpc = "stopped"
    /\ \/ mpc' = "start" /\ UNCHANGED <<mcall, margs, mrc, loaderVars>>
       \/ mcall \in StartFaults /\ BackInApp /\ \E code \in {81, 82} : Returns(mcall, code)
    /\ UNCHANGED <<flags, scheduled_session, queue, gil, target, sessions, decided>>

(* pydump_start fails with code c after claiming the flag, or returns 0.   *)
StartReturns(c) == mpc' = "end" /\ mrc' = c

ClaimSession ==
    /\ mpc = "start"
    /\ \/ session_active /\ StartReturns(3) /\ UNCHANGED session_active
       \/ /\ ~session_active
          /\ session_active' = TRUE /\ mpc' = "args" /\ UNCHANGED mrc
    /\ Elsewhere /\ UNCHANGED <<schedule_active, queue, gil, mcall, margs, sessions, decided>>

(* Mutant: the path is always taken from the slot.                         *)
FillArgsFromSlot ==
    /\ mpc = "args"
    /\ margs' = [margs EXCEPT !.path = scheduled_session.path]
    /\ mpc' = "spawn"
    /\ Elsewhere
    /\ UNCHANGED <<flags, queue, gil, mcall, mrc, sessions, decided>>

(* calloc, copy of the path, decode_nonce; the nonce rendered from the     *)
(* slot always decodes.                                                    *)
FillArgs ==
    /\ mpc = "args"
    /\ \/ /\ margs.nonce \in StartFaults
          /\ session_active' = FALSE /\ StartReturns(4) /\ UNCHANGED margs
       \/ /\ mcall \in StartFaults
          /\ session_active' = FALSE /\ StartReturns(5) /\ UNCHANGED margs
       \/ /\ margs' = [margs EXCEPT !.path = IF mcall = None THEN scheduled_session.path
                                                             ELSE mcall]
          /\ mpc' = "spawn" /\ UNCHANGED <<session_active, mrc>>
    /\ Elsewhere /\ UNCHANGED <<schedule_active, queue, gil, mcall, sessions, decided>>

(* Mutant: a thread that could not be created leaves session_active set.   *)
SpawnThreadLeaks ==
    /\ mpc = "spawn"
    /\ \/ /\ sessions' = Append(sessions, [args |-> margs, at |-> "connect"])
          /\ StartReturns(0)
       \/ margs.nonce \in StartFaults /\ StartReturns(6) /\ UNCHANGED sessions
    /\ Elsewhere /\ UNCHANGED <<flags, queue, gil, mcall, margs, decided>>

SpawnThread ==
    /\ mpc = "spawn"
    /\ \/ /\ sessions' = Append(sessions, [args |-> margs, at |-> "connect"])
          /\ StartReturns(0) /\ UNCHANGED session_active
       \/ /\ margs.nonce \in StartFaults
          /\ session_active' = FALSE /\ StartReturns(6) /\ UNCHANGED sessions
    /\ Elsewhere /\ UNCHANGED <<schedule_active, queue, gil, mcall, margs, decided>>

(* The end of start_scheduled_session; -1 becomes an error in the target's *)
(* main thread.                                                            *)
EndScheduled ==
    /\ mpc = "end" /\ mcall = None
    /\ schedule_active' = FALSE
    /\ decided' = [decided EXCEPT ![margs.nonce] = mrc]
    /\ BackInApp
    /\ Elsewhere /\ UNCHANGED <<session_active, queue, gil, sessions>>

(* GDB's own exit code for what pydump_start returned.                     *)
GdbResult(code) == IF code = 0 THEN 0 ELSE 83

(* Mutant: GDB reports the result but does not end.                        *)
EndGdbStays ==
    /\ mpc = "end" /\ mcall # None /\ At(mcall, "stopped")
    /\ rc' = [rc EXCEPT ![mcall] = GdbResult(mrc)]
    /\ BackInApp
    /\ UNCHANGED <<flags, scheduled_session, queue, gil, target, lpc, sessions, decided>>

(* GDB reads the result and detaches.                                      *)
EndGdb ==
    /\ mpc = "end" /\ mcall # None /\ At(mcall, "stopped")
    /\ Returns(mcall, GdbResult(mrc)) /\ BackInApp
    /\ UNCHANGED <<flags, scheduled_session, queue, gil, target, sessions, decided>>

(* pydump_start returns into a frame that a killed GDB made for it.        *)
EndOrphan ==
    /\ mpc = "end" /\ mcall # None /\ At(mcall, "returned")
    /\ alive' = FALSE
    /\ UNCHANGED <<flags, scheduled_session, queue, gil, mainVars, trap, loaderVars, sessions,
                   decided>>

-----------------------------------------------------------------------------
(* session_main, the i-th session thread.                                  *)

Moves(i, from, to) ==
    /\ sessions[i].at = from
    /\ sessions' = [sessions EXCEPT ![i].at = to]
    /\ Elsewhere /\ UNCHANGED <<schedule_active, queue, mainVars, decided>>

(* The Collector may be gone: its listener closes with its run.            *)
Connect(i) ==
    /\ Moves(i, "connect", "gil") \/ Moves(i, "connect", "clear")
    /\ UNCHANGED <<session_active, gil>>

EnsureGIL(i) ==
    gil = "free" /\ Moves(i, "gil", "run") /\ gil' = "session" /\ UNCHANGED session_active

(* Mutant: session_active is cleared before the session is over.           *)
ReleaseClearsEarly(i) == Moves(i, "run", "clear") /\ gil' = "free" /\ session_active' = FALSE

ReleaseGIL(i) == Moves(i, "run", "clear") /\ gil' = "free" /\ UNCHANGED session_active

ClearSession(i) == Moves(i, "clear", "done") /\ session_active' = FALSE /\ UNCHANGED gil

-----------------------------------------------------------------------------

LoaderStep(r) ==
    \/ ClaimSlot(r) \/ CopyPath(r) \/ DecodeNonce(r) \/ AddPendingCall(r)
    \/ GdbQueues(r) \/ GdbKilled(r)

PendingStep ==
    \/ RunPendingCall \/ GdbLoads \/ ClaimSession \/ FillArgs \/ SpawnThread
    \/ EndScheduled \/ EndGdb \/ EndOrphan

SessionStep(i) == Connect(i) \/ EnsureGIL(i) \/ ReleaseGIL(i) \/ ClearSession(i)

Next ==
    /\ alive
    /\ \/ \E r \in Req : LoaderStep(r)
       \/ TakeGIL \/ DropGIL \/ Sticks \/ TrapHit \/ PendingStep
       \/ \E i \in DOMAIN sessions : SessionStep(i)

Spec == Init /\ [][Next]_vars

(* A clone task and a session thread are scheduled by the kernel, GDB ends *)
(* by its deadline, and a session by its socket deadlines (CaptureSession).*)
(* The GIL changes hands: a main thread that is not stuck drops it at the  *)
(* switch interval or to block, a waiting session gets it though the main  *)
(* thread takes it again and again, and the main thread, as long as it     *)
(* comes back to the interpreter, runs its pending calls.  Whether it      *)
(* comes back is its own affair: nothing keeps it from Sticks.             *)
SessionIds == 1..Cardinality(Req)
FairSpec ==
    /\ Spec
    /\ \A r \in Req : WF_vars(alive /\ LoaderStep(r))
    /\ SF_vars(alive /\ PendingStep)
    /\ \A i \in SessionIds : SF_vars(alive /\ i \in DOMAIN sessions /\ SessionStep(i))
    /\ WF_vars(alive /\ TakeGIL) /\ WF_vars(alive /\ DropGIL)

-----------------------------------------------------------------------------
(* Properties.                                                             *)

Args == [path : Req \cup {None}, nonce : Req \cup {None}]
Codes == {None, 0, 1, 3, 4, 5, 6, 7, 80, 81, 82, 83}

(* Every variable of agent, loaders and main thread keeps to its type, and *)
(* no request is ever waited for after its loader was given a result.      *)
TypeOK ==
    /\ session_active \in BOOLEAN /\ schedule_active \in BOOLEAN
    /\ scheduled_session \in Args /\ margs \in Args
    /\ queue \in Seq({None, Check}) /\ Len(queue) <= QueueCap
    /\ gil \in {"free", "main", "session"}
    /\ mpc \in {"app", "stuck", "stopped", "start", "args", "spawn", "end"}
    /\ alive \in BOOLEAN /\ trap \in BOOLEAN
    /\ mcall \in {None} \cup Gdb /\ mrc \in Codes \ {None}
    /\ lpc \in [Req -> {"idle", "path", "nonce", "enqueue", "queued", "stopped", "returned"}]
    /\ rc \in [Req -> Codes] /\ \A r \in Req : rc[r] = None <=> lpc[r] # "returned"
    /\ sessions \in Seq([args : Args, at : {"connect", "gil", "run", "clear", "done"}])
    /\ decided \in [Ptrace -> Codes]

Live == {i \in DOMAIN sessions : sessions[i].at # "done"}
Starting == mpc \in {"args", "spawn"}

(* session_active is set exactly while one session lives or is being       *)
(* started, never for two and never for none (pydump_start, session_main). *)
OneSession ==
    /\ session_active <=> (Live # {} \/ Starting)
    /\ Starting => Live = {}
    /\ \A i, j \in Live : i = j

Filling == {r \in Ptrace : lpc[r] \in {"path", "nonce", "enqueue"}}
Queued  == {i \in DOMAIN queue : queue[i] = None}
RunsScheduled == mpc \in {"start", "args", "spawn", "end"} /\ mcall = None

(* schedule_active is set exactly while the slot belongs to one loader, or *)
(* to its one pending call, or to the running start_scheduled_session.     *)
OneScheduler ==
    /\ \A r, s \in Filling : r = s
    /\ \A i, j \in Queued : i = j
    /\ Filling # {} => Queued = {}
    /\ RunsScheduled => Filling = {} /\ Queued = {}
    /\ schedule_active <=> (Filling # {} \/ Queued # {} \/ RunsScheduled)

Started == {sessions[i].args.path : i \in DOMAIN sessions}

(* The path and the nonce a session runs with are those of one request, and*)
(* no request is started twice, whichever GDB's pending call the main      *)
(* thread stopped in.  What a GDB reports of its request is true: only one *)
(* that was killed or could not attach may say "failed" of a session that  *)
(* was started.                                                            *)
SessionsMatchRequests ==
    /\ \A i \in DOMAIN sessions : sessions[i].args.path = sessions[i].args.nonce
    /\ \A i, j \in DOMAIN sessions : sessions[i].args = sessions[j].args => i = j
    /\ \A r \in Gdb : rc[r] \notin {None, 1} => (rc[r] = 0 <=> r \in Started)

(* The agent of a target that lives comes back to idle: whatever fails,    *)
(* neither flag stays set and a later capture is not refused for ever.     *)
(* session_active needs the GIL to be let go, schedule_active a main       *)
(* thread that comes back to the interpreter's safe point.                 *)
BackToIdle ==
    /\ session_active ~> ~session_active \/ ~alive \/ (mpc = "stuck" /\ gil = "main")
    /\ schedule_active ~> ~schedule_active \/ ~alive \/ mpc = "stuck"

(* A request that pydump_schedule accepted is not lost: until pydump_start *)
(* has returned for it, its pending call is queued or running and the slot *)
(* is its own; and it is refused then only because another request got in  *)
(* first.  It may well be refused: schedule_active, which admits requests, *)
(* is clear while a session runs (pydump_schedule, pydump_start).  Nor is a*)
(* GDB lost that waits at its breakpoint: a call that stops there is       *)
(* queued, though stale calls of killed GDBs may be used up in its place.  *)
AcceptedIsDecided ==
    /\ \A r \in Ptrace : rc[r] = 0 =>
        \/ decided[r] \in {0, 4, 6}
        \/ decided[r] = 3 /\ Started \ {r} # {}
        \/ /\ Queued # {} \/ RunsScheduled
           /\ scheduled_session = [path |-> r, nonce |-> r]
    /\ \A r \in Gdb : lpc[r] = "queued" => \E i \in DOMAIN queue : queue[i] = Check
=============================================================================
