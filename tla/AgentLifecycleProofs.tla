------------------------ MODULE AgentLifecycleProofs ------------------------
(***************************************************************************)
(* The safety of the agent's flags, slot and sessions, for any number of   *)
(* requests of both loaders and any capacity of the queue.                 *)
(***************************************************************************)
EXTENDS AgentLifecycle, SequenceTheorems, TLAPS

Session == [args : Args, at : {"connect", "gil", "run", "clear", "done"}]

(* The parts of the slot that a loader in pydump_schedule has filled.      *)
FillInv ==
    \A r \in Req :
        /\ lpc[r] \in {"path", "nonce", "enqueue"} => r \in Ptrace
        /\ lpc[r] \in {"nonce", "enqueue"} => scheduled_session.path = r
        /\ lpc[r] = "enqueue" => scheduled_session.nonce = r

(* While a start_scheduled_session is queued or running, the slot holds a  *)
(* request that was accepted and not decided; only accepted ones are.      *)
Owns(r) ==
    /\ scheduled_session = [path |-> r, nonce |-> r]
    /\ rc[r] = 0 /\ decided[r] = None
OwnerInv ==
    /\ Queued # {} \/ RunsScheduled => \E r \in Ptrace : Owns(r)
    /\ \A r \in Ptrace : decided[r] # None => rc[r] = 0

(* What pydump_start was called with is one request: the slot's, or the    *)
(* one of the GDB that has the main thread call it, or was killed in that. *)
InCall == mpc \in {"stopped", "start", "args", "spawn", "end"}
CallInv ==
    /\ InCall =>
        /\ mcall # None => (lpc[mcall] = "stopped" \/ rc[mcall] = 1) /\ margs.nonce = mcall
        /\ mcall = None => mpc # "stopped" /\ margs.nonce = scheduled_session.nonce
        /\ mpc = "spawn" => margs.path = margs.nonce
    /\ \A r \in Req : lpc[r] = "stopped" => r \in Gdb /\ InCall /\ mcall = r

(* One GDB is attached, and a GDB that waits has a call to wait for.       *)
WaitInv ==
    /\ \A r, s \in Attached : r = s
    /\ \A r \in Gdb : lpc[r] = "queued" => \E i \in DOMAIN queue : queue[i] = Check

(* A request with a session is past its one call of pydump_start.          *)
Before == mpc \in {"stopped", "start", "args", "spawn"}
Past(r) ==
    \/ mpc = "end" /\ margs.nonce = r
    \/ r \in Ptrace /\ decided[r] # None
    \/ r \in Gdb /\ lpc[r] = "returned" /\ ~(Before /\ mcall = r)
PastInv == \A i \in DOMAIN sessions : Past(sessions[i].args.path)

(* pydump_start returns 0 exactly when it started the session.             *)
ResultInv == mpc = "end" => (mrc = 0 <=> margs.nonce \in Started)

(* Why a scheduled request was refused.                                    *)
VerdictInv ==
    mpc = "end" /\ mcall = None =>
        \/ mrc \in {0, 4, 6}
        \/ mrc = 3 /\ Started \ {margs.nonce} # {}

SlotInv == FillInv /\ OneScheduler /\ OwnerInv /\ CallInv

-----------------------------------------------------------------------------
(* The sequences of the model.                                             *)

(* A pending call that is added is the last one.                           *)
LEMMA QueueAppend ==
    ASSUME TypeOK, NEW c \in {None, Check}, queue' = Append(queue, c)
    PROVE  /\ queue' \in Seq({None, Check}) /\ Len(queue') = Len(queue) + 1
           /\ Queued' = IF c = None THEN Queued \cup {Len(queue) + 1} ELSE Queued
<1>1. queue \in Seq({None, Check})
  BY DEF TypeOK
<1>2. /\ queue' \in Seq({None, Check}) /\ Len(queue') = Len(queue) + 1
      /\ \A i \in 1..Len(queue) : queue'[i] = queue[i]
      /\ queue'[Len(queue) + 1] = c
  BY <1>1, AppendProperties
<1>3. DOMAIN queue = 1..Len(queue) /\ DOMAIN queue' = 1..(Len(queue) + 1) /\ Len(queue) \in Nat
  BY <1>1, <1>2, LenProperties
<1>4. Check # None
  BY LifecycleAssumption
<1> QED BY <1>2, <1>3, <1>4 DEF Queued

(* Taking the first pending call moves the others up.                      *)
LEMMA QueueTail ==
    ASSUME TypeOK, queue # <<>>, queue' = Tail(queue)
    PROVE  /\ queue' \in Seq({None, Check}) /\ Len(queue') <= QueueCap
           /\ Head(queue) \in {None, Check}
           /\ 1 \in Queued <=> Head(queue) = None
           /\ Queued \subseteq Nat
           /\ \A i : i \in Queued' <=> i \in Nat \ {0} /\ i + 1 \in Queued
<1>1. queue \in Seq({None, Check}) /\ Len(queue) <= QueueCap /\ QueueCap \in Nat
  BY LifecycleAssumption DEF TypeOK
<1>2. /\ queue' \in Seq({None, Check}) /\ Len(queue') = Len(queue) - 1
      /\ \A i \in 1..Len(queue') : queue'[i] = queue[i + 1]
      /\ Head(queue) \in {None, Check} /\ Head(queue) = queue[1]
  BY <1>1, HeadTailProperties
<1>3. /\ DOMAIN queue = 1..Len(queue) /\ DOMAIN queue' = 1..(Len(queue) - 1)
      /\ Len(queue) \in Nat \ {0}
  BY <1>1, <1>2, LenProperties, EmptySeq
<1> QED BY <1>1, <1>2, <1>3 DEF Queued

(* A session that is started is the last one.                              *)
LEMMA SessionAppend ==
    ASSUME TypeOK, NEW e \in Session, sessions' = Append(sessions, e)
    PROVE  LET n == Len(sessions) + 1 IN
           /\ sessions' \in Seq(Session)
           /\ n \notin DOMAIN sessions /\ DOMAIN sessions' = DOMAIN sessions \cup {n}
           /\ sessions'[n] = e
           /\ \A i \in DOMAIN sessions : sessions'[i] = sessions[i]
<1>1. sessions \in Seq(Session)
  BY DEF TypeOK, Session
<1>2. /\ sessions' \in Seq(Session) /\ Len(sessions') = Len(sessions) + 1
      /\ \A i \in 1..Len(sessions) : sessions'[i] = sessions[i]
      /\ sessions'[Len(sessions) + 1] = e
  BY <1>1, AppendProperties
<1>3. /\ DOMAIN sessions = 1..Len(sessions) /\ DOMAIN sessions' = 1..(Len(sessions) + 1)
      /\ Len(sessions) \in Nat
  BY <1>1, <1>2, LenProperties
<1> QED BY <1>2, <1>3

(* A step of a session moves that session only.                            *)
LEMMA SessionMove ==
    ASSUME TypeOK, NEW i \in DOMAIN sessions, NEW from, NEW to, Moves(i, from, to),
           to \in {"gil", "run", "clear", "done"}
    PROVE  /\ sessions' \in Seq(Session) /\ DOMAIN sessions' = DOMAIN sessions
           /\ sessions[i].at = from /\ sessions'[i].at = to
           /\ \A j \in DOMAIN sessions : sessions'[j].args = sessions[j].args
           /\ \A j \in DOMAIN sessions \ {i} : sessions'[j] = sessions[j]
<1>1. sessions \in Seq(Session) /\ sessions[i].at = from
  BY DEF TypeOK, Session, Moves
<1>2. sessions' = [sessions EXCEPT ![i] = [sessions[i] EXCEPT !.at = to]]
  BY DEF Moves
<1>3. \A j \in DOMAIN sessions : sessions[j] \in Session
  BY <1>1
<1>4. [sessions[i] EXCEPT !.at = to] \in Session
  BY <1>3 DEF Session
<1>5. sessions' \in Seq(Session) /\ DOMAIN sessions' = DOMAIN sessions
  BY <1>1, <1>2, <1>4, ExceptSeq
<1> QED BY <1>1, <1>2, <1>3, <1>5 DEF Session

-----------------------------------------------------------------------------
(* The parts hold at the start.                                            *)
LEMMA InvInit ==
    Init => /\ TypeOK /\ SlotInv /\ WaitInv /\ OneSession /\ PastInv /\ ResultInv
            /\ SessionsMatchRequests /\ VerdictInv /\ AcceptedIsDecided
<1> SUFFICES ASSUME Init
             PROVE  /\ TypeOK /\ SlotInv /\ WaitInv /\ OneSession /\ PastInv /\ ResultInv
                    /\ SessionsMatchRequests /\ VerdictInv /\ AcceptedIsDecided
  OBVIOUS
<1>a. DOMAIN queue = {} /\ DOMAIN sessions = {} /\ Queued = {} /\ None \notin Req \cup Nat
  BY LifecycleAssumption DEF Init, Queued
<1>1. TypeOK
  <2>1. {session_active, schedule_active, alive, trap} \subseteq BOOLEAN
    BY DEF Init
  <2>2. queue \in Seq({None, Check}) /\ Len(queue) <= QueueCap
    BY LifecycleAssumption DEF Init
  <2>3. mrc \in Codes \ {None}
    BY <1>a DEF Init, Codes
  <2>4. rc \in [Req -> Codes] /\ decided \in [Ptrace -> Codes]
    BY DEF Init, Codes
  <2> QED BY <2>1, <2>2, <2>3, <2>4 DEF Init, TypeOK, Args, NoArgs
<1>2. SlotInv
  <2>1. FillInv /\ OwnerInv /\ CallInv
    BY <1>a DEF Init, FillInv, RunsScheduled, OwnerInv, CallInv, InCall
  <2>2. ~schedule_active /\ Filling = {} /\ ~RunsScheduled
    BY DEF Init, Filling, RunsScheduled, Req
  <2> QED BY <1>a, <2>1, <2>2 DEF SlotInv, OneScheduler
<1>3. OneSession
  BY <1>a DEF Init, OneSession, Live, Starting
<1>4. PastInv /\ ResultInv /\ SessionsMatchRequests /\ VerdictInv
  BY <1>a DEF Init, PastInv, ResultInv, SessionsMatchRequests, VerdictInv, Req
<1>5. WaitInv /\ AcceptedIsDecided
  BY <1>a DEF Init, WaitInv, Attached, AcceptedIsDecided, Req
<1> QED BY <1>1, <1>2, <1>3, <1>4, <1>5

(* The flags stay flags.                                                   *)
LEMMA FlagTypes ==
    TypeOK /\ [Next]_vars => /\ session_active' \in BOOLEAN /\ schedule_active' \in BOOLEAN
                            /\ alive' \in BOOLEAN /\ trap' \in BOOLEAN
  BY DEF TypeOK, Next, vars, flags, target, Elsewhere, LoaderStep, ClaimSlot, CopyPath,
         DecodeNonce, AddPendingCall, GdbQueues, GdbKilled, TakeGIL, DropGIL, Sticks, TrapHit,
         PendingStep, RunPendingCall, ClaimSession, FillArgs, SpawnThread, EndScheduled, EndGdb,
         GdbLoads, EndOrphan, SessionStep, Connect, EnsureGIL, ReleaseGIL, ClearSession, Moves

(* What a loader knows, however a step moves it.                           *)
LoaderTypes ==
    /\ lpc \in [Req -> {"idle", "path", "nonce", "enqueue", "queued", "stopped", "returned"}]
    /\ rc \in [Req -> Codes] /\ \A r \in Req : rc[r] = None <=> lpc[r] # "returned"

(* A loader has a result exactly when it has returned.                     *)
LEMMA LoaderReturns ==
    ASSUME TypeOK, NEW r \in Req, NEW c \in Codes \ {None}, Returns(r, c)
    PROVE  LoaderTypes'
  BY DEF LoaderTypes, TypeOK, Returns

(* The same for a loader that goes on.                                     *)
LEMMA LoaderGoesOn ==
    ASSUME TypeOK, NEW r \in Req, rc' = rc, lpc[r] # "returned",
           NEW to \in {"path", "nonce", "enqueue", "queued", "stopped"},
           lpc' = [lpc EXCEPT ![r] = to]
    PROVE  LoaderTypes'
  BY DEF LoaderTypes, TypeOK

(* Every step keeps the types.                                             *)
LEMMA TypeStep == TypeOK /\ SlotInv /\ [Next]_vars => TypeOK'
<1> SUFFICES ASSUME TypeOK, SlotInv, [Next]_vars PROVE TypeOK'
  OBVIOUS
<1>a. /\ session_active' \in BOOLEAN /\ schedule_active' \in BOOLEAN
      /\ alive' \in BOOLEAN /\ trap' \in BOOLEAN
  BY FlagTypes
<1>b. None \notin Req \cup Nat /\ Req = Ptrace \cup Gdb
  BY LifecycleAssumption DEF Req
<1>c. {0, 1, 3, 4, 5, 6, 7, 80, 81, 82, 83} \subseteq Codes \ {None}
  BY <1>b DEF Codes
<1> USE <1>a, <1>b, <1>c DEF TypeOK, Args, flags, mainVars, loaderVars, At, Returns,
        Elsewhere, StartReturns, BackInApp, NoArgs
<1>1. CASE UNCHANGED vars
  BY <1>1 DEF vars
<1>2. ASSUME NEW r \in Req, ClaimSlot(r) PROVE TypeOK'
  <2>1. CASE Returns(r, 3)
    <3>1. LoaderTypes'
      BY <2>1, <1>c, LoaderReturns
    <3> QED BY <1>2, <3>1 DEF ClaimSlot, LoaderTypes
  <2>2. CASE lpc' = [lpc EXCEPT ![r] = "path"] /\ UNCHANGED rc
    BY <1>2, <2>2 DEF ClaimSlot
  <2> QED BY <1>2, <2>1, <2>2 DEF ClaimSlot
<1>3. ASSUME NEW r \in Req, CopyPath(r) PROVE TypeOK'
  BY <1>3 DEF CopyPath
<1>4. ASSUME NEW r \in Req, DecodeNonce(r) PROVE TypeOK'
  <2>1. CASE Returns(r, 5)
    <3>1. LoaderTypes'
      BY <2>1, LoaderReturns
    <3>2. scheduled_session' \in Args
      BY <1>4 DEF DecodeNonce
    <3> QED BY <1>4, <3>1, <3>2 DEF DecodeNonce, LoaderTypes
  <2>2. CASE lpc' = [lpc EXCEPT ![r] = "enqueue"] /\ UNCHANGED rc
    BY <1>4, <2>2 DEF DecodeNonce
  <2> QED BY <1>4, <2>1, <2>2 DEF DecodeNonce
<1>5. ASSUME NEW r \in Req, AddPendingCall(r) PROVE TypeOK'
  <2>1. queue' \in Seq({None, Check}) /\ Len(queue') <= QueueCap
    <3>1. CASE queue' = queue
      BY <3>1
    <3>2. CASE queue' = Append(queue, None) /\ Len(queue) < QueueCap
      BY <3>2, QueueAppend, LifecycleAssumption
    <3> QED BY <1>5, <3>1, <3>2 DEF AddPendingCall
  <2>2. LoaderTypes'
    <3>1. {0, 7} \subseteq Codes \ {None}
      OBVIOUS
    <3>2. CASE Returns(r, 0)
      BY <3>1, <3>2, LoaderReturns
    <3>3. CASE Returns(r, 7)
      BY <3>1, <3>3, LoaderReturns
    <3> QED BY <1>5, <3>2, <3>3 DEF AddPendingCall
  <2>3. UNCHANGED <<scheduled_session, gil, mainVars, sessions, decided>>
    BY <1>5 DEF AddPendingCall
  <2> QED BY <2>1, <2>2, <2>3 DEF LoaderTypes
<1>6. ASSUME NEW r \in Req, GdbQueues(r) PROVE TypeOK'
  <2>1. queue' \in Seq({None, Check}) /\ Len(queue') <= QueueCap
    <3>1. CASE queue' = queue
      BY <3>1
    <3>2. CASE queue' = Append(queue, Check) /\ Len(queue) < QueueCap
      BY <3>2, QueueAppend, LifecycleAssumption
    <3> QED BY <1>6, <3>1, <3>2 DEF GdbQueues
  <2>2. UNCHANGED <<scheduled_session, gil, mainVars, sessions, decided>>
    BY <1>6 DEF GdbQueues
  <2>3. LoaderTypes'
    <3>1. {80, 1} \subseteq Codes \ {None}
      OBVIOUS
    <3>2. CASE Returns(r, 80)
      BY <3>1, <3>2, LoaderReturns
    <3>4. CASE Returns(r, 1)
      BY <3>1, <3>4, LoaderReturns
    <3>3. CASE lpc' = [lpc EXCEPT ![r] = "queued"] /\ rc' = rc /\ lpc[r] = "idle"
      BY <3>3, LoaderGoesOn
    <3> QED BY <1>6, <3>2, <3>3, <3>4 DEF GdbQueues
  <2> QED BY <2>1, <2>2, <2>3 DEF LoaderTypes
<1>7. ASSUME NEW r \in Req, GdbKilled(r) PROVE TypeOK'
  <2>1. LoaderTypes'
    <3>1. 1 \in Codes \ {None}
      OBVIOUS
    <3> QED BY <1>7, <3>1, LoaderReturns DEF GdbKilled
  <2>2. /\ UNCHANGED <<scheduled_session, queue, gil, sessions, decided>>
        /\ UNCHANGED mainVars \/ BackInApp
    BY <1>7 DEF GdbKilled
  <2> QED BY <2>1, <2>2 DEF LoaderTypes
<1>8. CASE TakeGIL \/ DropGIL \/ Sticks \/ TrapHit
  BY <1>8 DEF TakeGIL, DropGIL, Sticks, TrapHit, Sticks, TrapHit
<1>9. CASE RunPendingCall
  <2>1. /\ queue' \in Seq({None, Check}) /\ Len(queue') <= QueueCap
        /\ Head(queue) \in {None, Check}
    BY <1>9, QueueTail DEF RunPendingCall
  <2>2. UNCHANGED <<flags, scheduled_session, gil, mrc, rc, sessions, decided>>
    BY <1>9 DEF RunPendingCall
  <2>3. /\ margs' \in Args /\ mcall' \in {None} \cup Gdb /\ mpc' \in {"app", "stopped", "start"}
        /\ lpc' = lpc \/ \E r \in Gdb : lpc[r] = "queued" /\ lpc' = [lpc EXCEPT ![r] = "stopped"]
    <3>1. CASE /\ margs' = [path |-> None, nonce |-> scheduled_session.nonce]
               /\ mpc' = "start" /\ mcall' = None /\ UNCHANGED lpc
      BY <3>1
    <3>2. ASSUME NEW r \in Gdb, lpc[r] = "queued", lpc' = [lpc EXCEPT ![r] = "stopped"],
                 margs' = [path |-> None, nonce |-> r], mpc' = "stopped", mcall' = r
          PROVE  /\ margs' \in Args /\ mcall' \in {None} \cup Gdb
                 /\ mpc' \in {"app", "stopped", "start"}
                 /\ \E g \in Gdb : lpc[g] = "queued" /\ lpc' = [lpc EXCEPT ![g] = "stopped"]
      BY <3>2
    <3>3. CASE UNCHANGED <<margs, lpc, mpc, mcall>> /\ mpc = "app"
      BY <3>3
    <3>4. \/ /\ margs' = [path |-> None, nonce |-> scheduled_session.nonce]
             /\ mpc' = "start" /\ mcall' = None /\ UNCHANGED lpc
          \/ \E r \in Gdb : /\ lpc[r] = "queued" /\ lpc' = [lpc EXCEPT ![r] = "stopped"]
                            /\ margs' = [path |-> None, nonce |-> r]
                            /\ mpc' = "stopped" /\ mcall' = r
          \/ UNCHANGED <<margs, lpc, mpc, mcall>> /\ mpc = "app"
      BY <1>9 DEF RunPendingCall
    <3> QED BY <3>1, <3>2, <3>3, <3>4
  <2>4. LoaderTypes'
    BY <2>2, <2>3, LoaderGoesOn DEF LoaderTypes
  <2> QED BY <2>1, <2>2, <2>3, <2>4 DEF LoaderTypes
<1>10. CASE ClaimSession
  BY <1>10 DEF ClaimSession
<1>11. CASE FillArgs
  <2>1. margs' \in Args
    BY <1>11 DEF FillArgs
  <2>2. mpc' \in {"spawn", "end"} /\ mrc' \in Codes \ {None}
    BY <1>11 DEF FillArgs
  <2> QED BY <1>11, <2>1, <2>2 DEF FillArgs
<1>12. CASE SpawnThread
  <2>1. [args |-> margs, at |-> "connect"] \in Session
    BY DEF Session
  <2>2. sessions' \in Seq(Session)
    BY <1>12, <2>1, SessionAppend DEF SpawnThread, Session
  <2> QED BY <1>12, <2>2 DEF SpawnThread, Session
<1>13. CASE EndScheduled
  <2>1. PICK r \in Ptrace : Owns(r)
    BY <1>13 DEF EndScheduled, SlotInv, OwnerInv, RunsScheduled
  <2>2. margs.nonce = r
    BY <1>13, <2>1 DEF EndScheduled, SlotInv, CallInv, InCall, Owns
  <2> QED BY <1>13, <2>2 DEF EndScheduled
<1>14. CASE EndGdb
  <2>1. GdbResult(mrc) \in Codes \ {None} /\ mcall \in Req
    BY <1>14 DEF EndGdb, GdbLoads, EndOrphan, GdbResult
  <2>2. LoaderTypes'
    BY <1>14, <2>1, LoaderReturns DEF EndGdb
  <2> QED BY <1>14, <2>2 DEF EndGdb, GdbLoads, EndOrphan, LoaderTypes
<1>16. CASE GdbLoads
  <2>1. mcall \in Req /\ {81, 82} \subseteq Codes \ {None}
    BY <1>16 DEF GdbLoads, SlotInv, CallInv, InCall
  <2>2. LoaderTypes'
    <3>1. CASE UNCHANGED loaderVars
      BY <3>1 DEF LoaderTypes
    <3>2. CASE Returns(mcall, 81)
      BY <2>1, <3>2, LoaderReturns
    <3>3. CASE Returns(mcall, 82)
      BY <2>1, <3>3, LoaderReturns
    <3> QED BY <1>16, <3>1, <3>2, <3>3 DEF GdbLoads
  <2> QED BY <1>16, <2>2 DEF GdbLoads, LoaderTypes
<1>17. CASE EndOrphan
  BY <1>17 DEF EndOrphan
<1>15. ASSUME NEW i \in DOMAIN sessions, SessionStep(i) PROVE TypeOK'
  <2>1. sessions' \in Seq(Session)
    BY <1>15, SessionMove DEF SessionStep, Connect, EnsureGIL, ReleaseGIL, ClearSession
  <2> QED BY <1>15, <2>1 DEF SessionStep, Connect, EnsureGIL, ReleaseGIL, ClearSession, Moves,
                             Session
<1> QED BY <1>1, <1>2, <1>3, <1>4, <1>5, <1>6, <1>7, <1>8, <1>9, <1>10, <1>11, <1>12, <1>13,
           <1>14, <1>15, <1>16, <1>17 DEF Next, LoaderStep, PendingStep

-----------------------------------------------------------------------------
(* The slot.  A loader that fills it has it alone.                         *)
LEMMA FillingAlone ==
    ASSUME TypeOK, SlotInv, NEW r \in Req, lpc[r] \in {"path", "nonce", "enqueue"}
    PROVE  r \in Ptrace /\ Filling = {r} /\ Queued = {} /\ ~RunsScheduled
<1>1. r \in Filling
  BY DEF SlotInv, FillInv, Filling
<1> QED BY <1>1 DEF SlotInv, OneScheduler, Filling

(* Steps of the loaders.                                                   *)
LEMMA SlotLoaderStep ==
    ASSUME TypeOK, SlotInv, NEW r \in Req, LoaderStep(r)
    PROVE  SlotInv'
<1>a. None \notin Req \cup Nat /\ Req = Ptrace \cup Gdb /\ Ptrace \cap Gdb = {}
  BY LifecycleAssumption DEF Req
<1>b. rc[r] # 0 \/ lpc[r] = "returned"
  BY <1>a DEF TypeOK
<1> USE <1>a DEF mainVars, flags, At, InCall
<1>1. CASE ClaimSlot(r)
  <2>1. UNCHANGED <<scheduled_session, queue, mainVars, decided>> /\ r \in Ptrace /\ lpc[r] = "idle"
    BY <1>1 DEF ClaimSlot
  <2>2. Queued' = Queued /\ RunsScheduled' = RunsScheduled
    BY <2>1 DEF Queued, RunsScheduled
  <2>3. CASE schedule_active /\ Returns(r, 3) /\ UNCHANGED schedule_active
    <3>1. /\ lpc' = [lpc EXCEPT ![r] = "returned"] /\ rc' = [rc EXCEPT ![r] = 3]
          /\ Filling' = Filling
      BY <2>1, <2>3 DEF Returns, TypeOK, Filling
    <3>2. OneScheduler'
      BY <2>2, <2>3, <3>1 DEF SlotInv, OneScheduler
    <3>3. FillInv' /\ OwnerInv' /\ CallInv'
      BY <1>b, <2>1, <2>2, <3>1 DEF SlotInv, FillInv, OwnerInv, Owns, CallInv, TypeOK
    <3> QED BY <3>2, <3>3 DEF SlotInv
  <2>4. CASE /\ ~schedule_active /\ schedule_active' = TRUE
             /\ lpc' = [lpc EXCEPT ![r] = "path"] /\ UNCHANGED rc
    <3>1. Filling = {} /\ Queued = {} /\ ~RunsScheduled
      BY <2>4 DEF SlotInv, OneScheduler
    <3>2. Filling' = {r}
      BY <2>1, <2>4, <3>1 DEF Filling, TypeOK
    <3>3. OneScheduler'
      BY <2>2, <2>4, <3>1, <3>2 DEF OneScheduler
    <3>4. FillInv' /\ OwnerInv' /\ CallInv'
      BY <2>1, <2>2, <2>4, <3>1 DEF SlotInv, FillInv, OwnerInv, Owns, CallInv, TypeOK
    <3> QED BY <3>3, <3>4 DEF SlotInv
  <2> QED BY <1>1, <2>3, <2>4 DEF ClaimSlot
<1>2. CASE CopyPath(r)
  <2>1. /\ UNCHANGED <<schedule_active, queue, mainVars, rc, decided>> /\ lpc[r] = "path"
        /\ lpc' = [lpc EXCEPT ![r] = "nonce"]
        /\ scheduled_session' = [scheduled_session EXCEPT !.path = r]
    BY <1>2 DEF CopyPath
  <2>2. r \in Ptrace /\ Filling = {r} /\ Queued = {} /\ ~RunsScheduled
    BY <2>1, FillingAlone
  <2>3. Filling' = {r} /\ Queued' = {} /\ ~RunsScheduled'
    BY <2>1, <2>2 DEF Filling, Queued, RunsScheduled, TypeOK
  <2>4. OneScheduler'
    BY <2>1, <2>2, <2>3 DEF SlotInv, OneScheduler
  <2>5. scheduled_session'.path = r
    BY <2>1 DEF TypeOK, Args
  <2>6. FillInv'
    BY <2>1, <2>2, <2>3, <2>5 DEF FillInv, SlotInv, Filling, TypeOK
  <2>7. OwnerInv' /\ CallInv'
    BY <2>1, <2>2, <2>3 DEF SlotInv, OwnerInv, CallInv, RunsScheduled, TypeOK
  <2> QED BY <2>4, <2>6, <2>7 DEF SlotInv
<1>3. CASE DecodeNonce(r)
  <2>1. UNCHANGED <<queue, mainVars, decided>> /\ lpc[r] = "nonce"
    BY <1>3 DEF DecodeNonce
  <2>2. r \in Ptrace /\ Filling = {r} /\ Queued = {} /\ ~RunsScheduled
    BY <2>1, FillingAlone
  <2>3. Queued' = {} /\ ~RunsScheduled'
    BY <2>1, <2>2 DEF Queued, RunsScheduled
  <2>4. CASE /\ scheduled_session' = [scheduled_session EXCEPT !.nonce = r]
             /\ lpc' = [lpc EXCEPT ![r] = "enqueue"]
             /\ UNCHANGED <<schedule_active, rc>>
    <3>1. Filling' = {r}
      BY <2>2, <2>4 DEF Filling, TypeOK
    <3>2. OneScheduler'
      BY <2>2, <2>3, <2>4, <3>1 DEF SlotInv, OneScheduler
    <3>3. scheduled_session'.nonce = r /\ scheduled_session'.path = scheduled_session.path
      BY <2>4 DEF TypeOK, Args
    <3>4. FillInv'
      BY <2>1, <2>2, <2>4, <3>1, <3>3 DEF FillInv, SlotInv, Filling, TypeOK
    <3>5. OwnerInv' /\ CallInv'
      BY <2>1, <2>2, <2>3, <2>4 DEF SlotInv, OwnerInv, CallInv, RunsScheduled, TypeOK
    <3> QED BY <3>2, <3>4, <3>5 DEF SlotInv
  <2>5. CASE schedule_active' = FALSE /\ Returns(r, 5)
    <3>1. Filling' = {}
      BY <2>2, <2>5 DEF Filling, Returns, TypeOK
    <3>2. OneScheduler'
      BY <2>3, <2>5, <3>1 DEF OneScheduler
    <3>3. FillInv'
      BY <2>2, <2>5, <3>1 DEF FillInv, SlotInv, Filling, Returns, TypeOK
    <3>4. OwnerInv' /\ CallInv'
      BY <1>b, <2>1, <2>2, <2>3, <2>5 DEF SlotInv, OwnerInv, CallInv, RunsScheduled, Returns, TypeOK
    <3> QED BY <3>2, <3>3, <3>4 DEF SlotInv
  <2> QED BY <1>3, <2>4, <2>5 DEF DecodeNonce
<1>4. CASE AddPendingCall(r)
  <2>1. UNCHANGED <<scheduled_session, mainVars, decided>> /\ lpc[r] = "enqueue"
    BY <1>4 DEF AddPendingCall
  <2>2. r \in Ptrace /\ Filling = {r} /\ Queued = {} /\ ~RunsScheduled
    BY <2>1, FillingAlone
  <2>3. lpc' = [lpc EXCEPT ![r] = "returned"] /\ Filling' = {} /\ ~RunsScheduled'
    BY <1>4, <2>1, <2>2 DEF AddPendingCall, Returns, Filling, RunsScheduled, TypeOK
  <2>a. \A g \in Gdb : rc'[g] = rc[g] /\ lpc'[g] = lpc[g]
    BY <1>4, <2>2 DEF AddPendingCall, Returns, TypeOK
  <2>4. FillInv' /\ CallInv'
    BY <2>1, <2>2, <2>3, <2>a DEF FillInv, CallInv, SlotInv, RunsScheduled, TypeOK
  <2>5. CASE queue' = Append(queue, None) /\ rc' = [rc EXCEPT ![r] = 0] /\ UNCHANGED schedule_active
    <3>1. Queued' = {Len(queue) + 1}
      BY <2>2, <2>5, QueueAppend
    <3>2. OneScheduler'
      BY <2>2, <2>3, <2>5, <3>1 DEF SlotInv, OneScheduler
    <3>3. scheduled_session = [path |-> r, nonce |-> r]
      BY <2>1 DEF SlotInv, FillInv, TypeOK, Args
    <3>4. Owns(r)'
      BY <1>b, <2>1, <2>2, <2>5, <3>3 DEF Owns, SlotInv, OwnerInv, TypeOK
    <3>5. OwnerInv'
      BY <2>1, <2>2, <2>5, <3>4 DEF OwnerInv, SlotInv, TypeOK
    <3> QED BY <2>4, <3>2, <3>5 DEF SlotInv
  <2>6. CASE queue' = queue /\ rc' = [rc EXCEPT ![r] = 7] /\ schedule_active' = FALSE
    <3>1. Queued' = {}
      BY <2>2, <2>6 DEF Queued
    <3>2. OneScheduler'
      BY <2>3, <2>6, <3>1 DEF OneScheduler
    <3>3. OwnerInv'
      BY <1>b, <2>1, <2>3, <2>6, <3>1 DEF OwnerInv, SlotInv, TypeOK
    <3> QED BY <2>4, <3>2, <3>3 DEF SlotInv
  <2> QED BY <1>4, <2>5, <2>6 DEF AddPendingCall, Returns
<1>5. CASE GdbQueues(r)
  <2>1. /\ UNCHANGED <<schedule_active, scheduled_session, mainVars, decided>>
        /\ r \in Gdb /\ lpc[r] = "idle"
        /\ \E to \in {"queued", "returned"} : lpc' = [lpc EXCEPT ![r] = to]
        /\ \A s \in Req : s # r => rc'[s] = rc[s]
    BY <1>5 DEF GdbQueues, Returns, TypeOK
  <2>2. Queued' = Queued
    <3>1. CASE queue' = queue
      BY <3>1 DEF Queued
    <3>2. CASE queue' = Append(queue, Check)
      BY <3>2, QueueAppend, LifecycleAssumption
    <3> QED BY <1>5, <3>1, <3>2 DEF GdbQueues
  <2>3. Filling' = Filling /\ RunsScheduled' = RunsScheduled
    BY <2>1 DEF Filling, RunsScheduled, TypeOK
  <2>4. OneScheduler'
    BY <2>1, <2>2, <2>3 DEF SlotInv, OneScheduler
  <2>5. rc[r] # 0 /\ rc[r] # 1
    BY <2>1, <1>a DEF TypeOK
  <2>6. FillInv' /\ CallInv'
    BY <2>1, <2>5 DEF SlotInv, FillInv, CallInv, TypeOK
  <2>7. OwnerInv'
    BY <2>1, <2>2, <2>3, <2>5 DEF SlotInv, OwnerInv, Owns, TypeOK
  <2> QED BY <2>4, <2>6, <2>7 DEF SlotInv
<1>6. CASE GdbKilled(r)
  <2>1. /\ UNCHANGED <<schedule_active, scheduled_session, queue, decided>>
        /\ r \in Gdb /\ lpc[r] # "returned"
        /\ lpc' = [lpc EXCEPT ![r] = "returned"] /\ rc' = [rc EXCEPT ![r] = 1]
        /\ UNCHANGED mainVars \/ (BackInApp /\ lpc[r] = "stopped")
    BY <1>6 DEF GdbKilled, Returns
  <2>2. Queued' = Queued /\ Filling' = Filling
    BY <2>1 DEF Queued, Filling, TypeOK
  <2>3. RunsScheduled' = RunsScheduled
    BY <2>1 DEF RunsScheduled, BackInApp, SlotInv, CallInv
  <2>4. OneScheduler'
    BY <2>1, <2>2, <2>3 DEF SlotInv, OneScheduler
  <2>5. FillInv'
    BY <2>1 DEF SlotInv, FillInv, TypeOK
  <2>6. CallInv'
    <3>1. CASE UNCHANGED mainVars
      BY <2>1, <3>1 DEF SlotInv, CallInv, TypeOK
    <3>2. CASE BackInApp /\ lpc[r] = "stopped"
      BY <2>1, <3>2 DEF SlotInv, CallInv, TypeOK, BackInApp
    <3> QED BY <2>1, <3>1, <3>2
  <2>7. OwnerInv'
    BY <2>1, <2>2, <2>3 DEF SlotInv, OwnerInv, Owns, TypeOK
  <2> QED BY <2>4, <2>5, <2>6, <2>7 DEF SlotInv
<1> QED BY <1>1, <1>2, <1>3, <1>4, <1>5, <1>6 DEF LoaderStep

(* Steps that leave the slot, the queue and both loaders alone.            *)
LEMMA SlotRest ==
    ASSUME SlotInv,
           UNCHANGED <<schedule_active, scheduled_session, queue, mainVars, loaderVars, decided>>
    PROVE  SlotInv'
<1> USE DEF mainVars, loaderVars, InCall
<1>1. Filling' = Filling /\ Queued' = Queued /\ RunsScheduled' = RunsScheduled
  BY DEF Filling, Queued, RunsScheduled
<1>2. OneScheduler'
  BY <1>1 DEF SlotInv, OneScheduler
<1> QED BY <1>1, <1>2 DEF SlotInv, FillInv, OwnerInv, Owns, CallInv

(* A main thread that sticks in the program leaves them alone too.         *)
LEMMA SlotSticks == SlotInv /\ Sticks => SlotInv'
<1> SUFFICES ASSUME SlotInv, Sticks PROVE SlotInv'
  OBVIOUS
<1> USE DEF Sticks, Elsewhere, loaderVars, flags, InCall
<1>1. Filling' = Filling /\ Queued' = Queued /\ ~RunsScheduled /\ ~RunsScheduled'
  BY DEF Filling, Queued, RunsScheduled
<1>2. OneScheduler'
  BY <1>1 DEF SlotInv, OneScheduler
<1> QED BY <1>1, <1>2 DEF SlotInv, FillInv, OwnerInv, Owns, CallInv

(* Steps of the main thread in a pending call.                             *)
LEMMA SlotPendingStep ==
    ASSUME TypeOK, SlotInv, PendingStep
    PROVE  SlotInv'
<1>a. None \notin Req \cup Nat /\ Req = Ptrace \cup Gdb /\ Ptrace \cap Gdb = {}
  BY LifecycleAssumption DEF Req
<1> USE <1>a DEF mainVars, loaderVars, flags, At, Elsewhere, InCall
<1>1. CASE RunPendingCall
  <2>1. /\ UNCHANGED <<schedule_active, scheduled_session, rc, decided>>
        /\ mpc = "app" /\ queue # <<>> /\ queue' = Tail(queue)
    BY <1>1 DEF RunPendingCall
  <2>2. ~RunsScheduled
    BY <2>1 DEF RunsScheduled
  <2>3. /\ 1 \in Queued <=> Head(queue) = None
        /\ Queued \subseteq Nat
        /\ \A i : i \in Queued' <=> i \in Nat \ {0} /\ i + 1 \in Queued
        /\ Head(queue) \in {None, Check}
    BY <2>1, QueueTail
  <2>4. CASE /\ Head(queue) = None
             /\ margs' = [path |-> None, nonce |-> scheduled_session.nonce]
             /\ mpc' = "start" /\ mcall' = None /\ UNCHANGED lpc
    <3>1. Queued = {1} /\ Filling = {}
      BY <2>3, <2>4 DEF SlotInv, OneScheduler
    <3>2. Queued' = {}
      BY <2>3, <3>1
    <3>3. Filling' = {} /\ RunsScheduled'
      BY <2>4, <3>1 DEF Filling, RunsScheduled
    <3>4. OneScheduler'
      BY <2>1, <3>1, <3>2, <3>3 DEF SlotInv, OneScheduler
    <3>5. FillInv' /\ CallInv'
      BY <2>1, <2>4 DEF SlotInv, FillInv, CallInv
    <3>6. OwnerInv'
      BY <2>1, <3>1 DEF SlotInv, OwnerInv, Owns
    <3> QED BY <3>4, <3>5, <3>6 DEF SlotInv
  <2>5. CASE Head(queue) # None
    <3>1. Queued' # {} <=> Queued # {}
      <4>1. ASSUME NEW i \in Queued PROVE i - 1 \in Queued'
        <5>2. DOMAIN queue = 1..Len(queue) /\ i \in DOMAIN queue
          BY <4>1, LenProperties DEF Queued, TypeOK
        <5>1. i \in Nat /\ i # 1 /\ i # 0
          BY <2>3, <2>5, <4>1, <5>2
        <5> QED BY <2>3, <4>1, <5>1
      <4> QED BY <2>3, <4>1
    <3>2. ASSUME NEW i \in Queued', NEW j \in Queued' PROVE i = j
      <4>1. i \in Nat /\ j \in Nat /\ i + 1 \in Queued /\ j + 1 \in Queued
        BY <2>3
      <4>2. i + 1 = j + 1
        BY <4>1 DEF SlotInv, OneScheduler
      <4> QED BY <4>1, <4>2
    <3>3. \/ \E r \in Gdb : /\ lpc[r] = "queued" /\ lpc' = [lpc EXCEPT ![r] = "stopped"]
                            /\ margs' = [path |-> None, nonce |-> r]
                            /\ mpc' = "stopped" /\ mcall' = r
          \/ UNCHANGED <<margs, lpc, mpc, mcall>>
      BY <1>1, <2>5 DEF RunPendingCall
    <3>4. Filling' = Filling
      BY <2>3, <2>5, <3>3 DEF Filling, TypeOK
    <3>5. ~RunsScheduled'
      BY <2>2, <2>5, <3>3 DEF RunsScheduled
    <3>6. OneScheduler'
      BY <2>1, <2>2, <3>1, <3>2, <3>4, <3>5 DEF SlotInv, OneScheduler
    <3>7. FillInv' /\ CallInv'
      <4>1. CASE UNCHANGED <<margs, lpc, mpc, mcall>>
        BY <2>1, <4>1 DEF SlotInv, FillInv, CallInv
      <4>2. ASSUME NEW r \in Gdb, lpc[r] = "queued", lpc' = [lpc EXCEPT ![r] = "stopped"],
                   margs' = [path |-> None, nonce |-> r], mpc' = "stopped", mcall' = r
            PROVE  FillInv' /\ CallInv'
        BY <2>1, <4>2 DEF SlotInv, FillInv, CallInv, TypeOK
      <4> QED BY <3>3, <4>1, <4>2
    <3>8. OwnerInv'
      BY <2>1, <2>2, <3>1, <3>5 DEF SlotInv, OwnerInv, Owns
    <3> QED BY <3>6, <3>7, <3>8 DEF SlotInv
  <2> QED BY <1>1, <2>4, <2>5, LifecycleAssumption DEF RunPendingCall
<1>2. CASE ClaimSession \/ FillArgs \/ SpawnThread
  <2>1. /\ UNCHANGED <<schedule_active, scheduled_session, queue, lpc, rc, decided, mcall>>
        /\ mpc \in {"start", "args", "spawn"} /\ mpc' \in {"args", "spawn", "end"}
    BY <1>2 DEF ClaimSession, FillArgs, SpawnThread, StartReturns
  <2>2. Filling' = Filling /\ Queued' = Queued /\ RunsScheduled' = RunsScheduled
    BY <2>1 DEF Filling, Queued, RunsScheduled
  <2>3. OneScheduler'
    BY <2>1, <2>2 DEF SlotInv, OneScheduler
  <2>4. FillInv' /\ OwnerInv'
    BY <2>1, <2>2 DEF SlotInv, FillInv, OwnerInv, Owns
  <2>5. margs'.nonce = margs.nonce
    BY <1>2 DEF ClaimSession, FillArgs, SpawnThread, TypeOK, Args
  <2>6. mpc' = "spawn" => margs'.path = IF mcall = None THEN scheduled_session.path ELSE mcall
    BY <1>2 DEF ClaimSession, FillArgs, SpawnThread, TypeOK, Args, StartReturns
  <2>7. mcall = None => scheduled_session.path = scheduled_session.nonce
    BY <2>1 DEF SlotInv, OwnerInv, RunsScheduled, Owns
  <2>8. CallInv'
    BY <2>1, <2>5, <2>6, <2>7 DEF SlotInv, CallInv
  <2> QED BY <2>3, <2>4, <2>8 DEF SlotInv
<1>3. CASE EndScheduled
  <2>1. /\ UNCHANGED <<scheduled_session, queue, lpc, rc>>
        /\ mpc = "end" /\ mcall = None /\ mpc' = "app" /\ schedule_active' = FALSE
        /\ decided' = [decided EXCEPT ![margs.nonce] = mrc]
    BY <1>3 DEF EndScheduled, BackInApp
  <2>2. RunsScheduled /\ Filling = {} /\ Queued = {}
    BY <2>1 DEF SlotInv, OneScheduler, RunsScheduled
  <2>3. Filling' = {} /\ Queued' = {} /\ ~RunsScheduled'
    BY <2>1, <2>2 DEF Filling, Queued, RunsScheduled
  <2>4. OneScheduler'
    BY <2>1, <2>3 DEF OneScheduler
  <2>5. PICK r \in Ptrace : Owns(r)
    BY <2>2 DEF SlotInv, OwnerInv
  <2>6. margs.nonce = r
    BY <2>1, <2>5 DEF SlotInv, CallInv, Owns
  <2>7. OwnerInv'
    BY <2>1, <2>3, <2>5, <2>6 DEF SlotInv, OwnerInv, Owns, TypeOK
  <2>8. FillInv' /\ CallInv'
    BY <2>1 DEF SlotInv, FillInv, CallInv
  <2> QED BY <2>4, <2>7, <2>8 DEF SlotInv
<1>4. CASE GdbLoads /\ mpc' = "start" /\ UNCHANGED <<mcall, margs, loaderVars>>
  <2>1. /\ UNCHANGED <<schedule_active, scheduled_session, queue, decided, mcall, margs, lpc, rc>>
        /\ mpc = "stopped" /\ mpc' = "start" /\ mcall # None
    BY <1>4 DEF GdbLoads, SlotInv, CallInv
  <2>2. Filling' = Filling /\ Queued' = Queued /\ ~RunsScheduled /\ ~RunsScheduled'
    BY <2>1 DEF Filling, Queued, RunsScheduled
  <2>3. OneScheduler'
    BY <2>1, <2>2 DEF SlotInv, OneScheduler
  <2> QED BY <2>1, <2>2, <2>3 DEF SlotInv, FillInv, OwnerInv, Owns, CallInv
<1>5. ASSUME EndGdb \/ GdbLoads, BackInApp, NEW code \in Nat, Returns(mcall, code)
      PROVE  SlotInv'
  <2>1. /\ UNCHANGED <<schedule_active, scheduled_session, queue, decided>>
        /\ mpc \in {"stopped", "end"} /\ mcall # None /\ mpc' = "app"
        /\ lpc' = [lpc EXCEPT ![mcall] = "returned"] /\ rc' = [rc EXCEPT ![mcall] = code]
    BY <1>5 DEF EndGdb, GdbLoads, BackInApp, Returns, SlotInv, CallInv
  <2>2. mcall \in Gdb
    BY <2>1 DEF TypeOK
  <2>3. Filling' = Filling /\ Queued' = Queued /\ ~RunsScheduled /\ ~RunsScheduled'
    BY <2>1, <2>2 DEF Filling, Queued, RunsScheduled, TypeOK
  <2>4. OneScheduler'
    BY <2>1, <2>3 DEF SlotInv, OneScheduler
  <2>5. FillInv' /\ CallInv'
    BY <2>1, <2>2 DEF SlotInv, FillInv, CallInv, TypeOK
  <2>6. OwnerInv'
    BY <2>1, <2>2, <2>3 DEF SlotInv, OwnerInv, Owns, TypeOK
  <2> QED BY <2>4, <2>5, <2>6 DEF SlotInv
<1>6. CASE EndOrphan
  <2>1. UNCHANGED <<schedule_active, scheduled_session, queue, mainVars, loaderVars, decided>>
    BY <1>6 DEF EndOrphan
  <2> QED BY <2>1, SlotRest
<1>7. EndGdb => SlotInv'
  <2>1. GdbResult(mrc) \in Nat
    BY DEF GdbResult
  <2> QED BY <1>5, <2>1 DEF EndGdb
<1>8. GdbLoads => SlotInv'
  BY <1>4, <1>5 DEF GdbLoads
<1> QED BY <1>1, <1>2, <1>3, <1>6, <1>7, <1>8 DEF PendingStep

(* Every step keeps the slot to one owner.                                 *)
LEMMA SlotStep == TypeOK /\ SlotInv /\ [Next]_vars => SlotInv'
<1> SUFFICES ASSUME TypeOK, SlotInv, [Next]_vars PROVE SlotInv'
  OBVIOUS
<1>1. CASE \/ TakeGIL \/ DropGIL \/ TrapHit \/ UNCHANGED vars
           \/ \E i \in DOMAIN sessions : SessionStep(i)
  BY <1>1, SlotRest DEF TakeGIL, DropGIL, TrapHit, SessionStep, Connect, EnsureGIL,
         ReleaseGIL, ClearSession, Moves, Elsewhere, vars, flags
<1> QED BY <1>1, SlotLoaderStep, SlotPendingStep, SlotSticks DEF Next

-----------------------------------------------------------------------------
(* The sessions.  Only SpawnThread adds one, and none changes its request. *)
LEMMA SessionsKept ==
    ASSUME TypeOK, [Next]_vars
    PROVE  /\ DOMAIN sessions \subseteq DOMAIN sessions'
           /\ \A i \in DOMAIN sessions : sessions'[i].args = sessions[i].args
           /\ ~SpawnThread => DOMAIN sessions' = DOMAIN sessions
           /\ Started \subseteq Started'
<1>1. CASE sessions' = sessions
  BY <1>1 DEF Started
<1>2. CASE SpawnThread
  <2>1. [args |-> margs, at |-> "connect"] \in Session
    BY DEF Session, TypeOK
  <2>2. CASE sessions' = Append(sessions, [args |-> margs, at |-> "connect"])
    BY <1>2, <2>1, <2>2, SessionAppend DEF Started
  <2> QED BY <1>1, <1>2, <2>2 DEF SpawnThread
<1>3. ASSUME NEW i \in DOMAIN sessions, SessionStep(i)
      PROVE  /\ DOMAIN sessions' = DOMAIN sessions
             /\ \A j \in DOMAIN sessions : sessions'[j].args = sessions[j].args
  BY <1>3, SessionMove DEF SessionStep, Connect, EnsureGIL, ReleaseGIL, ClearSession
<1>4. ASSUME NEW i \in DOMAIN sessions, SessionStep(i)
      PROVE  Started \subseteq Started'
  BY <1>3, <1>4 DEF Started
<1>5. CASE \/ \E r \in Req : LoaderStep(r)
           \/ TakeGIL \/ DropGIL \/ Sticks \/ TrapHit \/ UNCHANGED vars
           \/ RunPendingCall \/ ClaimSession \/ FillArgs \/ EndScheduled \/ EndGdb
           \/ GdbLoads \/ EndOrphan
  <2>1. sessions' = sessions
    BY <1>5 DEF LoaderStep, ClaimSlot, CopyPath, DecodeNonce, AddPendingCall, GdbQueues,
           GdbKilled, TakeGIL, DropGIL, Sticks, TrapHit, RunPendingCall, ClaimSession, FillArgs,
           EndScheduled, EndGdb, GdbLoads, EndOrphan, vars
  <2> QED BY <1>1, <2>1
<1> QED BY <1>2, <1>3, <1>4, <1>5 DEF Next, PendingStep

(* session_active is one session's.                                        *)
LEMMA OneSessionStep == TypeOK /\ OneSession /\ [Next]_vars => OneSession'
<1> SUFFICES ASSUME TypeOK, OneSession, [Next]_vars PROVE OneSession'
  OBVIOUS
<1>1. CASE UNCHANGED <<session_active, sessions, mpc>>
  <2>1. Live' = Live /\ Starting' = Starting
    BY <1>1 DEF Live, Starting
  <2> QED BY <1>1, <2>1 DEF OneSession
<1>2. CASE \/ RunPendingCall \/ EndScheduled \/ EndGdb \/ GdbLoads \/ EndOrphan \/ Sticks
           \/ \E r \in Req : GdbKilled(r) /\ BackInApp /\ ~Starting
  <2>1. UNCHANGED <<session_active, sessions>> /\ ~Starting /\ ~Starting'
    BY <1>2 DEF RunPendingCall, EndScheduled, EndGdb, GdbLoads, EndOrphan, Sticks, GdbKilled,
                flags, Starting, BackInApp, mainVars
  <2>2. Live' = Live
    BY <2>1 DEF Live
  <2> QED BY <2>1, <2>2 DEF OneSession
<1>3. CASE ClaimSession
  <2>1. sessions' = sessions /\ mpc = "start"
    BY <1>3 DEF ClaimSession
  <2>2. Live' = Live /\ ~Starting
    BY <2>1 DEF Live, Starting
  <2>3. CASE session_active /\ session_active' = session_active /\ mpc' = "end"
    BY <2>2, <2>3 DEF OneSession, Starting
  <2>4. CASE ~session_active /\ session_active' = TRUE /\ mpc' = "args"
    BY <2>2, <2>4 DEF OneSession, Starting
  <2> QED BY <1>3, <2>3, <2>4 DEF ClaimSession, StartReturns
<1>4. CASE FillArgs
  <2>1. sessions' = sessions /\ mpc = "args"
    BY <1>4 DEF FillArgs
  <2>2. Live' = Live /\ Starting
    BY <2>1 DEF Live, Starting
  <2>3. CASE session_active' = FALSE /\ mpc' = "end"
    BY <2>2, <2>3 DEF OneSession, Starting
  <2>4. CASE session_active' = session_active /\ mpc' = "spawn"
    BY <2>2, <2>4 DEF OneSession, Starting
  <2> QED BY <1>4, <2>3, <2>4 DEF FillArgs, StartReturns
<1>5. CASE SpawnThread
  <2>1. Starting /\ Live = {} /\ session_active /\ ~Starting'
    BY <1>5 DEF SpawnThread, StartReturns, Starting, OneSession
  <2>2. CASE session_active' = FALSE /\ sessions' = sessions
    <3>1. Live' = {}
      BY <2>1, <2>2 DEF Live
    <3> QED BY <2>1, <2>2, <3>1 DEF OneSession
  <2>3. CASE /\ sessions' = Append(sessions, [args |-> margs, at |-> "connect"])
             /\ session_active' = session_active
    <3>1. [args |-> margs, at |-> "connect"] \in Session
      BY DEF Session, TypeOK
    <3>2. Live' = {Len(sessions) + 1}
      BY <2>1, <2>3, <3>1, SessionAppend DEF Live
    <3> QED BY <2>1, <2>3, <3>2 DEF OneSession
  <2> QED BY <1>5, <2>2, <2>3 DEF SpawnThread
<1>6. ASSUME NEW i \in DOMAIN sessions, SessionStep(i) PROVE OneSession'
  <2>a. mpc' = mpc /\ Starting' = Starting
    BY <1>6 DEF SessionStep, Connect, EnsureGIL, ReleaseGIL, ClearSession, Moves, mainVars,
                Starting
  <2>1. CASE ClearSession(i)
    <3>1. /\ DOMAIN sessions' = DOMAIN sessions
          /\ sessions[i].at = "clear" /\ sessions'[i].at = "done"
          /\ \A j \in DOMAIN sessions \ {i} : sessions'[j] = sessions[j]
          /\ session_active' = FALSE
      BY <2>1, SessionMove DEF ClearSession
    <3>2. i \in Live /\ Live = {i}
      BY <3>1 DEF Live, OneSession
    <3>3. Live' = {}
      BY <3>1, <3>2 DEF Live
    <3>4. ~Starting'
      BY <2>a, <3>2 DEF OneSession
    <3> QED BY <3>1, <3>3, <3>4 DEF OneSession
  <2>2. CASE Connect(i) \/ EnsureGIL(i) \/ ReleaseGIL(i)
    <3>1. /\ DOMAIN sessions' = DOMAIN sessions
          /\ sessions[i].at # "done" /\ sessions'[i].at # "done"
          /\ \A j \in DOMAIN sessions \ {i} : sessions'[j] = sessions[j]
      <4>1. CASE Connect(i)
        BY <4>1, SessionMove DEF Connect
      <4>2. CASE EnsureGIL(i) \/ ReleaseGIL(i)
        BY <4>2, SessionMove DEF EnsureGIL, ReleaseGIL
      <4> QED BY <2>2, <4>1, <4>2
    <3>2. Live' = Live
      BY <3>1 DEF Live
    <3>3. session_active' = session_active
      BY <2>2 DEF Connect, EnsureGIL, ReleaseGIL
    <3> QED BY <2>a, <3>2, <3>3 DEF OneSession
  <2> QED BY <1>6, <2>1, <2>2 DEF SessionStep
<1>7. ASSUME NEW r \in Req, LoaderStep(r) PROVE OneSession'
  <2>1. CASE GdbKilled(r)
    BY <1>1, <1>2, <2>1 DEF GdbKilled, flags, mainVars, Starting
  <2>2. CASE ~GdbKilled(r)
    BY <1>1, <1>7, <2>2 DEF LoaderStep, ClaimSlot, CopyPath, DecodeNonce, AddPendingCall,
                            GdbQueues, flags, mainVars
  <2> QED BY <2>1, <2>2
<1>8. CASE TakeGIL \/ DropGIL \/ TrapHit \/ UNCHANGED vars
  BY <1>1, <1>8 DEF TakeGIL, DropGIL, TrapHit, vars, flags, mainVars
<1> QED BY <1>2, <1>3, <1>4, <1>5, <1>6, <1>7, <1>8 DEF Next, PendingStep

(* What starts a session starts that of pydump_start's arguments.          *)
LEMMA StartedStep ==
    ASSUME TypeOK, [Next]_vars
    PROVE  /\ Started \subseteq Started' /\ Started' \subseteq Started \cup {margs.path}
           /\ Started' # Started => SpawnThread /\ mrc' = 0
           /\ SpawnThread /\ mrc' = 0 => margs.path \in Started'
<1>1. CASE SpawnThread
  <2>1. [args |-> margs, at |-> "connect"] \in Session
    BY DEF Session, TypeOK
  <2>2. CASE sessions' = Append(sessions, [args |-> margs, at |-> "connect"]) /\ StartReturns(0)
    BY <1>1, <2>1, <2>2, SessionAppend DEF Started, StartReturns
  <2>3. CASE sessions' = sessions /\ StartReturns(6)
    BY <2>3 DEF Started, StartReturns
  <2> QED BY <1>1, <2>2, <2>3 DEF SpawnThread
<1>2. CASE ~SpawnThread
  <2>1. /\ DOMAIN sessions' = DOMAIN sessions
        /\ \A i \in DOMAIN sessions : sessions'[i].args = sessions[i].args
    BY <1>2, SessionsKept
  <2> QED BY <1>2, <2>1 DEF Started
<1> QED BY <1>1, <1>2

(* pydump_start has not started the request it was called for before.      *)
LEMMA NotPast ==
    ASSUME TypeOK, SlotInv, Before
    PROVE  ~Past(margs.nonce)
<1>a. None \notin Req \cup Nat /\ Req = Ptrace \cup Gdb /\ Ptrace \cap Gdb = {}
  BY LifecycleAssumption DEF Req
<1> USE DEF Before, InCall
<1>1. CASE mcall = None
  <2>1. PICK r \in Ptrace : Owns(r)
    BY <1>1 DEF SlotInv, OwnerInv, RunsScheduled, CallInv
  <2>2. margs.nonce = r
    BY <1>1, <2>1 DEF SlotInv, CallInv, Owns
  <2> QED BY <1>a, <2>1, <2>2 DEF Past, Owns
<1>2. CASE mcall # None
  <2>1. mcall \in Gdb /\ margs.nonce = mcall
    BY <1>2 DEF TypeOK, SlotInv, CallInv
  <2> QED BY <1>a, <2>1 DEF Past
<1> QED BY <1>1, <1>2

(* Whom the main thread runs pydump_start for.                             *)
LEMMA CallOf ==
    ASSUME TypeOK, SlotInv, InCall, NEW r \in Gdb, margs.nonce = r
    PROVE  mcall = r /\ (lpc[r] = "stopped" \/ rc[r] = 1)
<1>a. None \notin Req \cup Nat /\ Req = Ptrace \cup Gdb /\ Ptrace \cap Gdb = {}
  BY LifecycleAssumption DEF Req
<1>1. mcall # None
  <2> SUFFICES ASSUME mcall = None PROVE FALSE
    OBVIOUS
  <2>1. PICK o \in Ptrace : Owns(o)
    BY DEF SlotInv, OwnerInv, RunsScheduled, CallInv, InCall
  <2>2. margs.nonce = o
    BY <2>1 DEF SlotInv, CallInv, Owns
  <2> QED BY <1>a, <2>2
<1> QED BY <1>1 DEF SlotInv, CallInv

(* The requests that have a session are past their calls.                  *)
LEMMA StartedPast == ASSUME PastInv, NEW r \in Started PROVE Past(r)
  BY DEF PastInv, Started

(* A request that is past its call stays so.                               *)
LEMMA PastStays ==
    ASSUME TypeOK, SlotInv, [Next]_vars, NEW r, Past(r)
    PROVE  Past(r)'
<1>a. None \notin Req \cup Nat /\ Req = Ptrace \cup Gdb /\ Ptrace \cap Gdb = {}
  BY LifecycleAssumption DEF Req
<1> USE DEF mainVars, loaderVars, At, Returns, Elsewhere
<1> USE DEF Before, BackInApp
<1>1. CASE r \in Gdb /\ lpc[r] = "returned" /\ ~(Before /\ mcall = r)
  <2>1. lpc'[r] = "returned"
    <3>1. CASE \E g \in Req : LoaderStep(g)
      BY <1>1, <1>a, <3>1 DEF LoaderStep, ClaimSlot, CopyPath, DecodeNonce, AddPendingCall,
                              GdbQueues, GdbKilled, TypeOK
    <3>2. CASE RunPendingCall \/ EndGdb \/ GdbLoads
      BY <1>1, <1>a, <3>2 DEF RunPendingCall, EndGdb, GdbLoads, TypeOK
    <3>3. CASE ~(\E g \in Req : LoaderStep(g)) /\ ~(RunPendingCall \/ EndGdb \/ GdbLoads)
      <4>1. lpc' = lpc
        BY <3>3 DEF Next, TakeGIL, DropGIL, Sticks, TrapHit, PendingStep, ClaimSession,
           FillArgs, SpawnThread, EndScheduled, EndOrphan, SessionStep, Connect, EnsureGIL,
           ReleaseGIL, ClearSession, Moves, vars
      <4> QED BY <1>1, <4>1
    <3> QED BY <3>1, <3>2, <3>3
  <2>2. CASE RunPendingCall
    BY <1>1, <1>a, <2>1, <2>2 DEF RunPendingCall, Past, TypeOK
  <2>3. CASE ~RunPendingCall
    <3>1. Before' => Before /\ mcall' = mcall
      BY <2>3 DEF Next, LoaderStep, ClaimSlot, CopyPath, DecodeNonce, AddPendingCall,
           GdbQueues, GdbKilled, TakeGIL, DropGIL, Sticks, TrapHit, PendingStep,
           ClaimSession, FillArgs, SpawnThread, EndScheduled, EndGdb, GdbLoads,
           EndOrphan, SessionStep, Connect, EnsureGIL, ReleaseGIL, ClearSession, Moves, vars,
           StartReturns
    <3> QED BY <1>1, <2>1, <3>1 DEF Past
  <2> QED BY <2>2, <2>3
<1>2. CASE r \in Ptrace /\ decided[r] # None
  <2>1. decided' = decided \/ decided' = [decided EXCEPT ![margs.nonce] = mrc]
    BY DEF Next, LoaderStep, ClaimSlot, CopyPath, DecodeNonce, AddPendingCall, GdbQueues,
           GdbKilled, TakeGIL, DropGIL, Sticks, TrapHit, PendingStep, RunPendingCall,
           ClaimSession, FillArgs, SpawnThread, EndScheduled, EndGdb, GdbLoads, EndOrphan,
           SessionStep, Connect, EnsureGIL, ReleaseGIL, ClearSession, Moves, vars
  <2> QED BY <1>2, <2>1 DEF Past, TypeOK
<1>3. CASE mpc = "end" /\ margs.nonce = r
  <2>1. CASE EndScheduled
    <3>1. PICK o \in Ptrace : Owns(o)
      BY <2>1 DEF EndScheduled, SlotInv, OwnerInv, RunsScheduled
    <3>2. r = o
      BY <1>3, <2>1, <3>1 DEF EndScheduled, SlotInv, CallInv, InCall, Owns
    <3>3. decided'[r] = mrc /\ mrc # None
      BY <1>3, <2>1, <3>2 DEF EndScheduled, TypeOK
    <3> QED BY <3>2, <3>3 DEF Past
  <2>2. CASE EndGdb
    <3>1. r = mcall /\ mcall \in Gdb
      BY <1>3, <2>2 DEF EndGdb, SlotInv, CallInv, InCall, TypeOK
    <3>2. lpc'[r] = "returned" /\ mpc' = "app"
      BY <2>2, <3>1, <1>a DEF EndGdb, TypeOK
    <3> QED BY <3>1, <3>2 DEF Past
  <2>3. CASE \E g \in Req : GdbKilled(g) /\ BackInApp /\ lpc[g] = "stopped"
    <3>1. PICK g \in Req : GdbKilled(g) /\ BackInApp /\ lpc[g] = "stopped"
      BY <2>3
    <3>2. r = g /\ g \in Gdb
      BY <1>3, <1>a, <3>1 DEF SlotInv, CallInv, InCall
    <3>3. lpc'[r] = "returned" /\ mpc' = "app"
      BY <3>1, <3>2, <1>a DEF GdbKilled, TypeOK
    <3> QED BY <3>2, <3>3 DEF Past
  <2>4. CASE /\ ~EndScheduled /\ ~EndGdb
             /\ ~\E g \in Req : GdbKilled(g) /\ BackInApp /\ lpc[g] = "stopped"
    <3>1. UNCHANGED <<mpc, margs>>
      BY <1>3, <2>4 DEF Next, LoaderStep, ClaimSlot, CopyPath, DecodeNonce, AddPendingCall,
           GdbQueues, GdbKilled, TakeGIL, DropGIL, Sticks, TrapHit, PendingStep,
           RunPendingCall, ClaimSession, FillArgs, SpawnThread, GdbLoads, EndOrphan, SessionStep,
           Connect, EnsureGIL, ReleaseGIL, ClearSession, Moves, vars
    <3> QED BY <1>3, <3>1 DEF Past
  <2> QED BY <2>1, <2>2, <2>3, <2>4
<1> QED BY <1>1, <1>2, <1>3 DEF Past

(* Every session belongs to a request that is past its call.               *)
LEMMA PastStep ==
    TypeOK /\ SlotInv /\ PastInv /\ [Next]_vars => PastInv'
<1> SUFFICES ASSUME TypeOK, SlotInv, PastInv, [Next]_vars, NEW i \in DOMAIN sessions'
             PROVE  Past(sessions[i].args.path)'
  BY DEF PastInv
<1>1. CASE i \in DOMAIN sessions
  <2>1. sessions'[i].args = sessions[i].args
    BY <1>1, SessionsKept
  <2>2. PICK r : r = sessions[i].args.path
    OBVIOUS
  <2>3. Past(r)'
    BY <1>1, <2>2, PastStays DEF PastInv
  <2> QED BY <2>1, <2>2, <2>3
<1>2. CASE i \notin DOMAIN sessions
  <2>1. SpawnThread
    BY <1>2, SessionsKept
  <2>2. sessions' = Append(sessions, [args |-> margs, at |-> "connect"])
    BY <1>2, <2>1 DEF SpawnThread
  <2>3. [args |-> margs, at |-> "connect"] \in Session
    BY DEF Session, TypeOK
  <2>4. sessions'[i].args = margs
    BY <1>2, <2>2, <2>3, SessionAppend
  <2>5. mpc' = "end" /\ margs' = margs /\ margs.path = margs.nonce
    BY <2>1 DEF SpawnThread, StartReturns, SlotInv, CallInv, InCall
  <2> QED BY <2>4, <2>5 DEF Past
<1> QED BY <1>1, <1>2

(* What pydump_start returns says whether it started the session.          *)
LEMMA ResultStep ==
    TypeOK /\ SlotInv /\ PastInv /\ ResultInv /\ [Next]_vars => ResultInv'
<1> SUFFICES ASSUME TypeOK, SlotInv, PastInv, ResultInv, [Next]_vars, mpc' = "end"
             PROVE  mrc' = 0 <=> margs'.nonce \in Started'
  BY DEF ResultInv
<1>1. CASE ClaimSession \/ FillArgs
  <2>1. Before /\ margs' = margs /\ mrc' \in {3, 4, 5} /\ ~SpawnThread
    BY <1>1 DEF ClaimSession, FillArgs, StartReturns, Before, SpawnThread
  <2>2. margs.nonce \notin Started
    BY <2>1, NotPast, StartedPast
  <2>3. Started' = Started
    BY <2>1, StartedStep
  <2> QED BY <2>1, <2>2, <2>3
<1>2. CASE SpawnThread
  <2>1. Before /\ margs' = margs /\ margs.path = margs.nonce /\ mrc' \in {0, 6}
    BY <1>2 DEF SpawnThread, StartReturns, Before, SlotInv, CallInv, InCall
  <2>2. margs.nonce \notin Started
    BY <2>1, NotPast, StartedPast
  <2> QED BY <1>2, <2>1, <2>2, StartedStep
<1>3. CASE ~ClaimSession /\ ~FillArgs /\ ~SpawnThread
  <2>1. mpc = "end" /\ UNCHANGED <<margs, mrc>>
    BY <1>3 DEF Next, LoaderStep, ClaimSlot, CopyPath, DecodeNonce, AddPendingCall,
           GdbQueues, GdbKilled, TakeGIL, DropGIL, Sticks, TrapHit, PendingStep,
           RunPendingCall, EndScheduled, EndGdb, GdbLoads, EndOrphan, SessionStep, Connect,
           EnsureGIL, ReleaseGIL, ClearSession, Moves, vars, mainVars, BackInApp
  <2>2. Started' = Started
    BY <1>3, StartedStep
  <2> QED BY <2>1, <2>2 DEF ResultInv
<1> QED BY <1>1, <1>2, <1>3

(* So no request gets a second session, and each gets its own.             *)
LEMMA MatchStep ==
    TypeOK /\ SlotInv /\ PastInv /\ ResultInv /\ SessionsMatchRequests /\ [Next]_vars
        => SessionsMatchRequests'
<1> SUFFICES ASSUME TypeOK, SlotInv, PastInv, ResultInv, SessionsMatchRequests, [Next]_vars
             PROVE  SessionsMatchRequests'
  OBVIOUS
<1>a. None \notin Req \cup Nat /\ Req = Ptrace \cup Gdb /\ Ptrace \cap Gdb = {}
  BY LifecycleAssumption DEF Req
<1>1. /\ \A i \in DOMAIN sessions' : sessions'[i].args.path = sessions'[i].args.nonce
      /\ \A i, j \in DOMAIN sessions' : sessions'[i].args = sessions'[j].args => i = j
  <2>1. CASE DOMAIN sessions' = DOMAIN sessions
    BY <2>1, SessionsKept DEF SessionsMatchRequests
  <2>2. CASE DOMAIN sessions' # DOMAIN sessions
    <3>1. SpawnThread /\ mpc = "spawn"
      BY <2>2, SessionsKept DEF SpawnThread
    <3>2. sessions' = Append(sessions, [args |-> margs, at |-> "connect"])
      BY <2>2, <3>1 DEF SpawnThread
    <3>3. [args |-> margs, at |-> "connect"] \in Session
      BY DEF Session, TypeOK
    <3>4. margs.path = margs.nonce /\ ~Past(margs.nonce)
      BY <3>1, NotPast DEF SlotInv, CallInv, InCall, Before
    <3>5. \A i \in DOMAIN sessions : sessions[i].args # margs
      BY <3>4 DEF PastInv
    <3> QED BY <3>2, <3>3, <3>4, <3>5, SessionAppend DEF SessionsMatchRequests
  <2> QED BY <2>1, <2>2
<1>2. ASSUME NEW r \in Gdb, rc'[r] \notin {None, 1}
      PROVE  rc'[r] = 0 <=> r \in Started'
  <2>1. CASE rc'[r] = rc[r]
    <3>1. rc[r] = 0 <=> r \in Started
      BY <1>2, <2>1 DEF SessionsMatchRequests
    <3>2. CASE Started' = Started
      BY <2>1, <3>1, <3>2
    <3>3. CASE Started' # Started
      <4>1. SpawnThread /\ margs.path = margs.nonce /\ InCall
        BY <3>3, StartedStep DEF SpawnThread, SlotInv, CallInv, InCall
      <4>2. lpc[r] # "stopped" /\ rc[r] # 1
        BY <1>a, <1>2, <2>1 DEF TypeOK
      <4>3. margs.path # r
        BY <4>1, <4>2, CallOf
      <4> QED BY <2>1, <3>1, <4>3, StartedStep
    <3> QED BY <3>2, <3>3
  <2>2. CASE rc'[r] # rc[r]
    <3>a. \/ GdbQueues(r) /\ Returns(r, 80)
          \/ EndGdb /\ mcall = r
          \/ mpc = "stopped" /\ mcall = r /\ ~SpawnThread /\ rc'[r] \in {81, 82}
      <4>1. CASE \E q \in Req : LoaderStep(q)
        <5>0. rc \in [Req -> Codes] /\ r \in Req
          BY <1>a DEF TypeOK
        <5>1. PICK q \in Req : LoaderStep(q)
          BY <4>1
        <5>2. rc' = rc \/ \E code : rc' = [rc EXCEPT ![q] = code]
          BY <5>1 DEF LoaderStep, ClaimSlot, CopyPath, DecodeNonce, AddPendingCall, GdbQueues,
                      GdbKilled, Returns
        <5>3. q = r
          BY <2>2, <5>0, <5>2
        <5>4. GdbQueues(r) \/ GdbKilled(r)
          BY <1>a, <5>1, <5>3 DEF LoaderStep, ClaimSlot, CopyPath, DecodeNonce, AddPendingCall,
                                  At, SlotInv, FillInv
        <5>5. rc' # rc /\ ~Returns(r, 1)
          BY <1>2, <2>2, <5>0 DEF Returns
        <5> QED BY <5>4, <5>5 DEF GdbQueues, GdbKilled
      <4>2. CASE EndGdb
        <5>1. rc' = [rc EXCEPT ![mcall] = GdbResult(mrc)]
          BY <4>2 DEF EndGdb, Returns
        <5>2. rc \in [Req -> Codes]
          BY DEF TypeOK
        <5>3. mcall = r
          BY <1>a, <2>2, <5>1, <5>2
        <5> QED BY <4>2, <5>3
      <4>4. CASE GdbLoads
        <5>1. mpc = "stopped" /\ ~SpawnThread
          BY <4>4 DEF GdbLoads, SpawnThread
        <5>2. PICK code \in {81, 82} : rc' = [rc EXCEPT ![mcall] = code]
          BY <2>2, <4>4 DEF GdbLoads, Returns, loaderVars
        <5>3. rc \in [Req -> Codes]
          BY DEF TypeOK
        <5>4. mcall = r /\ rc'[r] = code
          BY <1>a, <2>2, <5>2, <5>3
        <5> QED BY <5>1, <5>2, <5>4
      <4>3. CASE ~(\E q \in Req : LoaderStep(q)) /\ ~EndGdb /\ ~GdbLoads
        <5>1. rc' = rc
          BY <4>3 DEF Next, TakeGIL, DropGIL, Sticks, TrapHit, PendingStep, RunPendingCall,
             ClaimSession, FillArgs, SpawnThread, EndScheduled, EndOrphan, SessionStep, Connect,
             EnsureGIL, ReleaseGIL, ClearSession, Moves, vars, loaderVars, Elsewhere
        <5> QED BY <2>2, <5>1
      <4> QED BY <4>1, <4>2, <4>3, <4>4
    <3>1. CASE GdbQueues(r) /\ Returns(r, 80)
      <4>1. lpc[r] = "idle" /\ rc'[r] = 80 /\ sessions' = sessions /\ rc[r] # 1
        BY <1>a, <3>1 DEF GdbQueues, Returns, At, TypeOK
      <4>2. ~Past(r)
        BY <1>a, <4>1, CallOf DEF Past, InCall
      <4> QED BY <4>1, <4>2, StartedPast DEF Started
    <3>2. CASE mpc = "stopped" /\ mcall = r /\ ~SpawnThread /\ rc'[r] \in {81, 82}
      <4>1. Before /\ margs.nonce = r
        BY <1>a, <3>2 DEF Before, SlotInv, CallInv, InCall
      <4>2. r \notin Started
        BY <4>1, NotPast, StartedPast
      <4> QED BY <3>2, <4>2, StartedStep
    <3>3. CASE EndGdb /\ mcall = r
      <4>1. mpc = "end" /\ margs.nonce = r /\ sessions' = sessions
        BY <1>a, <3>3 DEF EndGdb, SlotInv, CallInv, InCall
      <4>2. rc'[r] = GdbResult(mrc)
        BY <1>a, <3>3 DEF EndGdb, Returns, TypeOK
      <4>3. Started' = Started
        BY <4>1 DEF Started
      <4> QED BY <4>1, <4>2, <4>3 DEF ResultInv, GdbResult
    <3> QED BY <3>a, <3>1, <3>2, <3>3
  <2> QED BY <2>1, <2>2
<1> QED BY <1>1, <1>2 DEF SessionsMatchRequests

(* A request is refused because of a session of another.                   *)
LEMMA VerdictStep ==
    TypeOK /\ SlotInv /\ OneSession /\ PastInv /\ VerdictInv /\ [Next]_vars => VerdictInv'
<1> SUFFICES ASSUME TypeOK, SlotInv, OneSession, PastInv, VerdictInv, [Next]_vars,
                    mpc' = "end", mcall' = None
             PROVE  \/ mrc' \in {0, 4, 6}
                    \/ mrc' = 3 /\ Started' \ {margs'.nonce} # {}
  BY DEF VerdictInv
<1>a. Started \subseteq Started'
  BY SessionsKept
<1>1. CASE ClaimSession
  <2>1. session_active /\ mpc = "start" /\ mrc' = 3 /\ margs' = margs
    BY <1>1 DEF ClaimSession, StartReturns
  <2>2. PICK i \in Live : TRUE
    BY <2>1 DEF OneSession, Starting
  <2>3. Past(sessions[i].args.path) /\ ~Past(margs.nonce)
    BY <2>1, <2>2, NotPast DEF PastInv, Live, Before
  <2>4. sessions[i].args.path \in Started /\ sessions[i].args.path # margs.nonce
    BY <2>2, <2>3 DEF Started, Live
  <2> QED BY <1>a, <2>1, <2>4
<1>2. CASE FillArgs \/ SpawnThread
  <2>1. mrc' \in {0, 4, 6}
    BY <1>2, LifecycleAssumption DEF FillArgs, SpawnThread, StartReturns
  <2> QED BY <2>1
<1>3. CASE ~ClaimSession /\ ~FillArgs /\ ~SpawnThread
  <2>1. UNCHANGED mainVars
    BY <1>3 DEF Next, LoaderStep, ClaimSlot, CopyPath, DecodeNonce, AddPendingCall, GdbQueues,
           GdbKilled, TakeGIL, DropGIL, Sticks, TrapHit, PendingStep, RunPendingCall,
           EndScheduled, EndGdb, GdbLoads, EndOrphan, SessionStep, Connect, EnsureGIL, ReleaseGIL,
           ClearSession, Moves, vars, mainVars, BackInApp
  <2> QED BY <1>a, <2>1 DEF VerdictInv, mainVars
<1> QED BY <1>1, <1>2, <1>3

(* The one pending call is not lost and its slot is not overwritten.       *)
LEMMA PendingKept ==
    ASSUME TypeOK, SlotInv, [Next]_vars, ~EndScheduled, Queued # {} \/ RunsScheduled
    PROVE  (Queued # {} \/ RunsScheduled)' /\ scheduled_session' = scheduled_session
<1>1. schedule_active /\ Filling = {}
  BY DEF SlotInv, OneScheduler
<1>2. \A r \in Req : lpc[r] \notin {"path", "nonce", "enqueue"}
  BY FillingAlone
<1> USE DEF flags, mainVars, loaderVars, At, Returns, Elsewhere
<1>3. schedule_active' = schedule_active /\ scheduled_session' = scheduled_session
  BY <1>1, <1>2 DEF Next, LoaderStep, ClaimSlot, CopyPath, DecodeNonce, AddPendingCall, GdbQueues,
         GdbKilled, TakeGIL, DropGIL, Sticks, TrapHit, PendingStep, RunPendingCall, ClaimSession,
         FillArgs, SpawnThread, EndGdb, GdbLoads, EndOrphan, SessionStep, Connect, EnsureGIL,
         ReleaseGIL, ClearSession, Moves, vars
<1>4. Filling' = {}
  <2> SUFFICES ASSUME NEW r \in Ptrace PROVE lpc'[r] \notin {"path", "nonce", "enqueue"}
    BY DEF Filling
  <2> QED BY <1>1, <1>2 DEF Req, Next, LoaderStep, ClaimSlot, CopyPath, DecodeNonce,
         AddPendingCall, GdbQueues, GdbKilled, TakeGIL, DropGIL, Sticks, TrapHit, PendingStep,
         RunPendingCall, ClaimSession, FillArgs, SpawnThread, EndGdb, GdbLoads, EndOrphan,
         SessionStep, Connect, EnsureGIL, ReleaseGIL, ClearSession, Moves, vars, TypeOK
<1>5. OneScheduler'
  BY SlotStep DEF SlotInv
<1> QED BY <1>1, <1>3, <1>4, <1>5 DEF OneScheduler

(* A GDB waits alone, and never in vain.                                   *)
LEMMA WaitStep ==
    TypeOK /\ SlotInv /\ WaitInv /\ [Next]_vars => WaitInv'
<1> SUFFICES ASSUME TypeOK, SlotInv, WaitInv, [Next]_vars PROVE WaitInv'
  OBVIOUS
<1>a. /\ None \notin Req \cup Nat /\ Req = Ptrace \cup Gdb /\ Ptrace \cap Gdb = {}
      /\ Check # None
  BY LifecycleAssumption DEF Req
<1>b. queue \in Seq({None, Check}) /\ DOMAIN queue = 1..Len(queue) /\ Len(queue) \in Nat
  BY LenProperties DEF TypeOK
<1>1. ASSUME NEW c \in {None, Check}, queue' = Append(queue, c)
      PROVE  /\ \A i \in DOMAIN queue : i \in DOMAIN queue' /\ queue'[i] = queue[i]
             /\ c = Check => \E i \in DOMAIN queue' : queue'[i] = Check
  <2>1. /\ queue' \in Seq({None, Check}) /\ Len(queue') = Len(queue) + 1
        /\ \A i \in 1..Len(queue) : queue'[i] = queue[i]
        /\ queue'[Len(queue) + 1] = c
    BY <1>1, <1>b, AppendProperties
  <2>2. DOMAIN queue' = 1..(Len(queue) + 1)
    BY <2>1, LenProperties
  <2> QED BY <1>b, <2>1, <2>2
<1>2. CASE RunPendingCall
  <2>1. CASE Head(queue) = None
    <3>1. lpc' = lpc /\ queue' = Tail(queue) /\ queue # <<>>
      BY <1>2, <1>a, <2>1 DEF RunPendingCall
    <3>2. ASSUME NEW i \in DOMAIN queue, queue[i] = Check
          PROVE  \E j \in DOMAIN queue' : queue'[j] = Check
      <4>1. /\ queue' \in Seq({None, Check}) /\ Len(queue') = Len(queue) - 1
            /\ \A j \in 1..Len(queue') : queue'[j] = queue[j + 1]
            /\ Head(queue) = queue[1]
        BY <3>1, <1>b, HeadTailProperties
      <4>2. DOMAIN queue' = 1..(Len(queue) - 1)
        BY <4>1, LenProperties
      <4>3. i # 1
        BY <1>a, <2>1, <3>2, <4>1
      <4>4. i - 1 \in DOMAIN queue' /\ queue'[i - 1] = queue[i]
        BY <1>b, <4>1, <4>2, <4>3
      <4> QED BY <3>2, <4>4
    <3> QED BY <3>1, <3>2 DEF WaitInv, Attached
  <2>2. ASSUME NEW g \in Gdb, lpc[g] = "queued", lpc' = [lpc EXCEPT ![g] = "stopped"]
        PROVE  WaitInv'
    BY <1>a, <2>2 DEF WaitInv, Attached, TypeOK
  <2>3. CASE Attached = {} /\ lpc' = lpc
    BY <2>3 DEF WaitInv, Attached
  <2> QED BY <1>2, <2>1, <2>2, <2>3 DEF RunPendingCall, At
<1>3. ASSUME NEW r \in Req, GdbQueues(r) PROVE WaitInv'
  <2>1. CASE Attached = {} /\ queue' = Append(queue, Check) /\ lpc' = [lpc EXCEPT ![r] = "queued"]
    <3>1. Attached' \subseteq {r}
      BY <2>1 DEF Attached, TypeOK
    <3> QED BY <1>1, <2>1, <3>1 DEF WaitInv
  <2>2. CASE queue' = queue /\ lpc' = [lpc EXCEPT ![r] = "returned"]
    BY <1>a, <2>2 DEF WaitInv, Attached, TypeOK
  <2> QED BY <1>3, <2>1, <2>2 DEF GdbQueues, Returns
<1>4. ASSUME NEW r \in Req, AddPendingCall(r) PROVE WaitInv'
  <2>1. lpc' = [lpc EXCEPT ![r] = "returned"]
    BY <1>4 DEF AddPendingCall, Returns
  <2>2. \A i \in DOMAIN queue : i \in DOMAIN queue' /\ queue'[i] = queue[i]
    BY <1>1, <1>4 DEF AddPendingCall
  <2> QED BY <1>a, <2>1, <2>2 DEF WaitInv, Attached, TypeOK
<1>5. CASE \/ \E r \in Req : ClaimSlot(r) \/ CopyPath(r) \/ DecodeNonce(r) \/ GdbKilled(r)
           \/ EndGdb \/ GdbLoads
  <2>1. queue' = queue
    BY <1>5 DEF ClaimSlot, CopyPath, DecodeNonce, GdbKilled, EndGdb, GdbLoads
  <2>2. \A g \in Gdb : lpc'[g] = lpc[g] \/ lpc'[g] \notin {"queued", "stopped"}
    <3>1. CASE EndGdb \/ GdbLoads
      BY <1>a, <3>1 DEF EndGdb, GdbLoads, Returns, loaderVars, TypeOK
    <3>2. ASSUME NEW r \in Req, ClaimSlot(r) \/ CopyPath(r) \/ DecodeNonce(r) \/ GdbKilled(r)
          PROVE  \A g \in Gdb : lpc'[g] = lpc[g] \/ lpc'[g] \notin {"queued", "stopped"}
      BY <1>a, <3>2 DEF ClaimSlot, CopyPath, DecodeNonce, GdbKilled, Returns, TypeOK
    <3> QED BY <1>5, <3>1, <3>2
  <2> QED BY <2>1, <2>2 DEF WaitInv, Attached
<1>6. CASE UNCHANGED <<lpc, queue>>
  BY <1>6 DEF WaitInv, Attached
<1>7. CASE \/ TakeGIL \/ DropGIL \/ Sticks \/ TrapHit \/ UNCHANGED vars
           \/ ClaimSession \/ FillArgs \/ SpawnThread \/ EndScheduled \/ EndOrphan
           \/ \E i \in DOMAIN sessions : SessionStep(i)
  BY <1>6, <1>7 DEF TakeGIL, DropGIL, Sticks, TrapHit, ClaimSession, FillArgs, SpawnThread,
        EndScheduled, EndOrphan, SessionStep, Connect, EnsureGIL, ReleaseGIL, ClearSession, Moves,
        Elsewhere, loaderVars, vars
<1> QED BY <1>2, <1>3, <1>4, <1>5, <1>7 DEF Next, LoaderStep, PendingStep

(* Every step keeps accepted requests pending until they are decided.      *)
LEMMA AcceptedStep ==
    TypeOK /\ SlotInv /\ WaitInv /\ VerdictInv /\ AcceptedIsDecided /\ [Next]_vars
        => AcceptedIsDecided'
<1> SUFFICES ASSUME TypeOK, SlotInv, WaitInv, VerdictInv, AcceptedIsDecided, [Next]_vars,
                    NEW r \in Ptrace, rc'[r] = 0
             PROVE  \/ decided'[r] \in {0, 4, 6}
                    \/ decided'[r] = 3 /\ Started' \ {r} # {}
                    \/ /\ (Queued # {} \/ RunsScheduled)'
                       /\ scheduled_session' = [path |-> r, nonce |-> r]
  BY WaitStep DEF AcceptedIsDecided, WaitInv
<1>a. None \notin Req \cup Nat /\ Req = Ptrace \cup Gdb /\ Ptrace \cap Gdb = {}
  BY LifecycleAssumption DEF Req
<1>b. Started \subseteq Started'
  BY SessionsKept
<1>c. ~EndScheduled => decided' = decided
  BY DEF Next, LoaderStep, ClaimSlot, CopyPath, DecodeNonce, AddPendingCall, GdbQueues, GdbKilled,
         TakeGIL, DropGIL, Sticks, TrapHit, PendingStep, RunPendingCall, ClaimSession, FillArgs,
         SpawnThread, EndGdb, GdbLoads, EndOrphan, SessionStep, Connect, EnsureGIL, ReleaseGIL,
         ClearSession, Moves, vars
<1>1. CASE AddPendingCall(r)
  <2>1. /\ lpc[r] = "enqueue" /\ UNCHANGED scheduled_session
        /\ queue' = Append(queue, None) \/ rc' = [rc EXCEPT ![r] = 7]
    BY <1>1 DEF AddPendingCall, At, Returns
  <2>2. queue' = Append(queue, None)
    BY <2>1, <1>a DEF TypeOK
  <2>3. Queued' # {}
    BY <2>2, QueueAppend
  <2>4. scheduled_session = [path |-> r, nonce |-> r]
    BY <1>a, <2>1 DEF SlotInv, FillInv, TypeOK, Args
  <2> QED BY <2>1, <2>3, <2>4
<1>2. CASE ~AddPendingCall(r)
  <2>1. rc[r] = 0
    <3>0. rc \in [Req -> Codes] /\ mcall \in {None} \cup Gdb
      BY DEF TypeOK
    <3>1. CASE \E q \in Req : LoaderStep(q)
      <4>1. PICK q \in Req : LoaderStep(q)
        BY <3>1
      <4>2. CASE q = r
        <5>1. rc' = rc \/ rc' = [rc EXCEPT ![r] = 3] \/ rc' = [rc EXCEPT ![r] = 5]
          BY <1>a, <1>2, <4>1, <4>2 DEF LoaderStep, ClaimSlot, CopyPath, DecodeNonce,
                                        GdbQueues, GdbKilled, Returns
        <5> QED BY <1>a, <3>0, <5>1
      <4>3. CASE q # r
        BY <1>a, <3>0, <4>1, <4>3 DEF LoaderStep, ClaimSlot, CopyPath, DecodeNonce,
                                  AddPendingCall, GdbQueues, GdbKilled, Returns
      <4> QED BY <4>2, <4>3
    <3>2. CASE EndGdb \/ GdbLoads
      <4>1. mcall # None
        BY <3>2 DEF EndGdb, GdbLoads, SlotInv, CallInv, InCall
      <4> QED BY <1>a, <3>0, <3>2, <4>1 DEF EndGdb, GdbLoads, Returns, loaderVars
    <3>3. CASE ~(\E q \in Req : LoaderStep(q)) /\ ~EndGdb /\ ~GdbLoads
      <4>1. rc' = rc
        BY <3>3 DEF Next, TakeGIL, DropGIL, Sticks, TrapHit, PendingStep, RunPendingCall,
           ClaimSession, FillArgs, SpawnThread, EndScheduled, EndOrphan, SessionStep, Connect,
           EnsureGIL, ReleaseGIL, ClearSession, Moves, vars, loaderVars, Elsewhere
      <4> QED BY <4>1
    <3> QED BY <3>1, <3>2, <3>3
  <2>2. CASE ~EndScheduled
    BY <1>b, <1>c, <2>1, <2>2, PendingKept DEF AcceptedIsDecided
  <2>3. CASE EndScheduled
    <3>1. PICK o \in Ptrace : Owns(o)
      BY <2>3 DEF EndScheduled, SlotInv, OwnerInv, RunsScheduled
    <3>2. /\ margs.nonce = o /\ decided' = [decided EXCEPT ![o] = mrc]
          /\ scheduled_session = [path |-> o, nonce |-> o]
      BY <2>3, <3>1 DEF EndScheduled, SlotInv, CallInv, InCall, Owns
    <3>3. CASE r = o
      BY <1>b, <2>3, <3>2, <3>3 DEF EndScheduled, VerdictInv, TypeOK
    <3>4. CASE r # o
      BY <1>b, <2>1, <3>2, <3>4 DEF AcceptedIsDecided, TypeOK
    <3> QED BY <3>3, <3>4
  <2> QED BY <2>2, <2>3
<1> QED BY <1>1, <1>2

-----------------------------------------------------------------------------
(* Every reachable state satisfies the invariant.                          *)
LEMMA InvHolds ==
    Spec => [](/\ TypeOK /\ SlotInv /\ WaitInv /\ OneSession /\ PastInv /\ ResultInv
               /\ SessionsMatchRequests /\ VerdictInv /\ AcceptedIsDecided)
  BY InvInit, TypeStep, SlotStep, WaitStep, OneSessionStep, PastStep, ResultStep, MatchStep,
     VerdictStep, AcceptedStep, PTL DEF Spec

(* Types; no loader is given two results and none is left in two places.   *)
THEOREM LifecycleTypes == Spec => []TypeOK
  BY InvHolds, PTL

(* session_active stands for exactly one session, from pydump_start's      *)
(* claim to session_main's end, on every error path.                       *)
THEOREM OneSessionAtATime == Spec => []OneSession
  BY InvHolds, PTL

(* schedule_active stands for exactly one owner of the slot, although      *)
(* pydump_schedule fills it without the GIL.                               *)
THEOREM SlotHasOneOwner == Spec => []OneScheduler
<1>1. SlotInv => OneScheduler
  BY DEF SlotInv
<1> QED BY <1>1, InvHolds, PTL

(* Every session runs with the path and the nonce of one request, its own. *)
THEOREM SessionsAreRequested == Spec => []SessionsMatchRequests
  BY InvHolds, PTL

(* What pydump_schedule accepted is decided by pydump_start or still       *)
(* pending, and refused only for another request's sake.                   *)
THEOREM AcceptedIsNotLost == Spec => []AcceptedIsDecided
  BY InvHolds, PTL
=============================================================================
