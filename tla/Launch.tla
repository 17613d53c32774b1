------------------------------- MODULE Launch -------------------------------
(***************************************************************************)
(* One run of the command (cli.run): after Preflight the main thread opens *)
(* a listener, lets a loader thread inject the agent into whatever process *)
(* has the PID now, accepts the agent's connection, captures and joins the *)
(* loader.  The agent appears here only as a session that connects, waits  *)
(* for the GIL and holds it until its socket closes, so that what is shown *)
(* does not rest on the agent's own deadlines.                             *)
(***************************************************************************)
EXTENDS Preflight

VARIABLES
    late,         \* attach_started + timeout has passed
    loader,       \* the loader thread: "idle", "running", "ok" or "error"
    listener,     \* the listening socket: "none", "open" or "closed"
    connection,   \* "none", "backlog", "accepted" or "closed"
    session,      \* the agent's session: "none"; "asked", the request is in
                  \* the target; "connected"; "holds" the GIL; "over"
    published

launchVars == <<late, loader, listener, connection, session, published>>
vars == <<preVars, launchVars>>

Init ==
    /\ PreInit
    /\ late = FALSE /\ loader = "idle"
    /\ listener = "none" /\ connection = "none" /\ session = "none"
    /\ published = FALSE

Ended == run \in {"refused", "raised", "returned", "loader failed", "no agent",
                 "capture failed", "interrupted"}

(* Nothing but the run itself moves.                                       *)
Settled == UNCHANGED <<targetVars, option, kind, choiceVars>>

-----------------------------------------------------------------------------
(* The main thread.                                                        *)

(* Mutants: the listener outlives the run; a connection nobody accepted is *)
(* not closed.                                                             *)
LeaveListening(how) ==
    /\ run' = how
    /\ connection' = IF connection = "none" THEN "none" ELSE "closed"
    /\ UNCHANGED listener /\ RemoveTempDir /\ Settled

LeaveBacklog(how) ==
    /\ run' = how
    /\ listener' = "closed"
    /\ connection' = IF connection = "accepted" THEN "closed" ELSE connection
    /\ RemoveTempDir /\ Settled

(* Leaving the with blocks closes the connection and the listener, and     *)
(* what is still in its backlog, and removes the socket's directory.       *)
Leave(how) ==
    /\ run' = how
    /\ listener' = "closed"
    /\ connection' = IF connection = "none" THEN "none" ELSE "closed"
    /\ RemoveTempDir /\ Settled

(* bind and listen may fail.                                               *)
ListenFails ==
    /\ run = "listen" /\ (Gone \/ MayFail)
    /\ Leave("raised")
    /\ UNCHANGED <<late, loader, session, published>>

Listen ==
    /\ ~Gone /\ Moves("listen", "accept") /\ Settled /\ UNCHANGED tempdir
    /\ listener' = "open" /\ loader' = "running"
    /\ UNCHANGED <<late, connection, session, published>>

Accept ==
    /\ connection = "backlog"
    /\ Moves("accept", "capture") /\ Settled /\ UNCHANGED tempdir
    /\ connection' = "accepted"
    /\ UNCHANGED <<late, loader, listener, session, published>>

(* accept() timed out after the poll interval and loader_error is set; the *)
(* agent may have connected since.                                         *)
PollFails ==
    /\ run = "accept" /\ loader = "error"
    /\ Leave("loader failed")
    /\ UNCHANGED <<late, loader, session, published>>

DeadlineSeen ==
    /\ late
    /\ Moves("accept", "join") /\ Settled /\ UNCHANGED tempdir
    /\ UNCHANGED <<late, loader, listener, connection, session, published>>

(* Mutants: the generic timeout does not wait for the loader; it waits for *)
(* an error that may never come.                                           *)
JoinNot ==
    /\ run = "join"
    /\ Leave(IF loader = "error" THEN "loader failed" ELSE "no agent")
    /\ UNCHANGED <<late, loader, session, published>>

JoinForError ==
    /\ run = "join" /\ loader = "error"
    /\ Leave("loader failed")
    /\ UNCHANGED <<late, loader, session, published>>

(* thread.join() without a timeout, then the loader's own failure first.   *)
Join ==
    /\ run = "join" /\ loader \in {"ok", "error"}
    /\ Leave(IF loader = "error" THEN "loader failed" ELSE "no agent")
    /\ UNCHANGED <<late, loader, session, published>>

(* Mutant: the connection is not closed before the loader is joined.       *)
CaptureKeepsConnection ==
    /\ session \in {"holds", "over"}
    /\ Moves("capture", "joinloader") /\ Settled /\ UNCHANGED tempdir
    /\ published' = TRUE
    /\ UNCHANGED <<late, loader, listener, connection, session>>

CaptureSucceeds ==
    /\ session \in {"holds", "over"}
    /\ Moves("capture", "joinloader") /\ Settled /\ UNCHANGED tempdir
    /\ published' = TRUE /\ connection' = "closed"
    /\ UNCHANGED <<late, loader, listener, session>>

CaptureFails ==
    /\ run = "capture" /\ MayFail
    /\ Leave("capture failed")
    /\ UNCHANGED <<late, loader, session, published>>

(* thread.join(timeout), which a slow loader may outlast.                  *)
JoinLoader ==
    /\ run = "joinloader" /\ (loader \in {"ok", "error"} \/ MayFail)
    /\ Leave(IF loader = "error" THEN "loader failed" ELSE "returned")
    /\ UNCHANGED <<late, loader, session, published>>

(* Ctrl+C in the main thread, also in the middle of either join; the       *)
(* loader thread is a daemon and its subprocess goes on.                   *)
Interrupt ==
    /\ MayFail /\ ~Ended
    /\ run' = "interrupted"
    /\ listener' = IF listener = "none" THEN "none" ELSE "closed"
    /\ connection' = IF connection = "none" THEN "none" ELSE "closed"
    /\ InterruptProbe /\ RemoveTempDir
    /\ UNCHANGED <<targetVars, option, kind, minor, agent, probe, chosen,
                   late, loader, session, published>>

-----------------------------------------------------------------------------
(* Time, the loader thread, the session.                                   *)

DeadlinePasses ==
    /\ MayFail /\ ~late /\ loader # "idle" /\ late' = TRUE
    /\ UNCHANGED <<preVars, loader, listener, connection, session, published>>

(* The request reaches the target: pydump_schedule has taken it, or GDB    *)
(* calls pydump_start.  The loader learns of it later, or not at all.      *)
SessionAsked ==
    /\ ~Gone /\ loader \in {"running", "error"} /\ session = "none" /\ session' = "asked"
    /\ UNCHANGED <<preVars, late, loader, listener, connection, published>>

(* pydump-loader is done when the request is taken, GDB when pydump_start  *)
(* has returned: neither waits for the session to connect.                 *)
LoaderSucceeds ==
    /\ loader = "running" /\ session # "none" /\ loader' = "ok"
    /\ UNCHANGED <<preVars, late, listener, connection, session, published>>

(* A failure or the deadline of its subprocess, before or after the        *)
(* session was asked for.                                                  *)
LoaderFails ==
    /\ MayFail /\ loader = "running" /\ loader' = "error"
    /\ UNCHANGED <<preVars, late, listener, connection, session, published>>

(* connect() succeeds as soon as the backlog takes it; without a listener  *)
(* the session ends at once.                                               *)
SessionConnects ==
    /\ session = "asked"
    /\ \/ /\ listener = "open"
          /\ session' = "connected" /\ connection' = "backlog"
       \/ /\ listener = "closed"
          /\ session' = "over" /\ UNCHANGED connection
    /\ UNCHANGED <<preVars, late, loader, listener, published>>

(* PyGILState_Ensure returns, whatever has become of the socket meanwhile. *)
SessionTakesGIL ==
    /\ session = "connected" /\ session' = "holds"
    /\ UNCHANGED <<preVars, late, loader, listener, connection, published>>

(* COMPLETE was answered, or the peer is gone.                             *)
SessionEnds ==
    /\ session = "holds" /\ connection = "closed" /\ session' = "over"
    /\ UNCHANGED <<preVars, late, loader, listener, connection, published>>

(* The process changes its program or is gone; a session is gone with it.  *)
TargetChanges ==
    /\ Exec \/ Exit
    /\ session' = IF session = "none" THEN "none" ELSE "over"
    /\ UNCHANGED <<option, kind, run, choiceVars, tempdir,
                   late, loader, listener, connection, published>>

PidReused == Reuse /\ UNCHANGED <<option, kind, run, choiceVars, tempdir, launchVars>>

-----------------------------------------------------------------------------

MainStep ==
    \/ PreStep /\ UNCHANGED launchVars
    \/ Listen \/ ListenFails \/ Accept \/ PollFails \/ DeadlineSeen \/ Join
    \/ CaptureSucceeds \/ CaptureFails \/ JoinLoader

LoaderStep  == LoaderSucceeds \/ LoaderFails
SessionStep == SessionConnects \/ SessionTakesGIL \/ SessionEnds

Next ==
    \/ MainStep \/ Interrupt \/ DeadlinePasses \/ SessionAsked \/ LoaderStep \/ SessionStep
    \/ TargetChanges \/ PidReused

Spec == Init /\ [][Next]_vars

(* Time passes, the loader's subprocess has a timeout, and the run's       *)
(* threads are scheduled.  Of the target only a read or a write on a closed*)
(* socket is sure to return: it may never reach a safe point, connect or   *)
(* get the GIL.                                                            *)
FairSpec ==
    /\ Spec /\ WF_vars(MainStep) /\ WF_vars(LoaderStep)
    /\ WF_vars(DeadlinePasses) /\ WF_vars(SessionEnds)

-----------------------------------------------------------------------------
(* Properties.                                                             *)

(* Every variable keeps to its type, and a connection is held only while   *)
(* it is being captured.                                                   *)
TypeOK ==
    /\ PreTypeOK
    /\ late \in BOOLEAN /\ published \in BOOLEAN
    /\ loader \in {"idle", "running", "ok", "error"}
    /\ listener \in {"none", "open", "closed"}
    /\ connection \in {"none", "backlog", "accepted", "closed"}
    /\ session \in {"none", "asked", "connected", "holds", "over"}
    /\ connection = "accepted" <=> run = "capture"

(* A loader is only let loose on a program that fits: the agent is for the *)
(* one CPython minor the program names, on this machine and with glibc.    *)
(* What was read before the process changed may no longer be true, but a   *)
(* change between the two reads of the version is noticed by the second    *)
(* (detect_python_minor, verify_agent, inspect_target_environment).        *)
FitsWhatWasRead ==
    loader # "idle" =>
        /\ changes = 0 => facts = {"minor", "machine", "libc"}
        /\ "minor" \in facts => image.mapped \subseteq agent
        /\ "machine" \in facts => image.machine = "host"
        /\ "libc" \in facts => image.libc = "glibc"

(* However a run ends, the disposable inferior has been told to go, and the*)
(* directory is removed unless the process in whose /tmp it lies is gone   *)
(* (_probe_disposable_inferior, run).                                      *)
CleanExit == Ended => helper # "running" /\ (tempdir => process # "same")

(* The generic timeout is never reported in place of the loader's specific *)
(* failure (the join at the deadline).                                     *)
SpecificFailure == run = "no agent" => loader = "ok"

(* Once the run has ended no session connects any more.  One that was in   *)
(* the backlog and is given the GIL only now takes it, but its socket is   *)
(* already closed, so that it can only fail and let the GIL go.            *)
NoSessionAfterEnd ==
    [][Ended => /\ session \in {"none", "asked"} => session' \in {"none", "asked", "over"}
                /\ session' = "holds" => session = "holds" \/ connection = "closed"]_vars

(* Every run ends: the poll loop by its deadline, the join at the deadline *)
(* because the loader's subprocess has one of its own (run).               *)
RunEnds == <>Ended

(* A session that holds the GIL is let go by the run, accepted or not, also*)
(* when it connected while run was joining or was interrupted.             *)
SessionReleased == session = "holds" ~> session = "over"
=============================================================================
