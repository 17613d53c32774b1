----------------------------- MODULE Preflight ------------------------------
(***************************************************************************)
(* What run() does before it listens: resolve_target reads which CPython   *)
(* the process runs, verify_agent compares it with the agent library,      *)
(* select_loader inspects the process once more and probes the loaders, and*)
(* a temporary directory for the socket is made in the target's /tmp.      *)
(* Everything is read through /proc/PID, while the process may replace its *)
(* program (exec), exit, and give its PID to another process.              *)
(***************************************************************************)
EXTENDS Naturals

CONSTANTS
    Images,     \* programs a process may run, see ImageOK
    Supported,  \* CPython minors from 3.10 on
    Bundled,    \* minors that have a bundled agent
    MaxChanges, \* bound: how often the process changes
    MayFail     \* whether anything but the target may fail or be late

(* What /proc shows of a program: the minors that its executable's name and*)
(* all its mapped files name, its ELF header and its C library.            *)
ImageOK(i) ==
    /\ i.exe \subseteq i.mapped
    /\ i.machine \in {"host", "foreign", "not ELF64"}
    /\ i.libc \in {"glibc", "musl", "unknown libc"}

ASSUME PreflightAssumption ==
    /\ \A i \in Images : ImageOK(i)
    /\ MaxChanges \in Nat /\ MayFail \in BOOLEAN

VARIABLES
    process,  \* behind the PID: the "same" process, none or "another"
    image,    \* the program it runs
    changes,  \* history: how often that changed
    facts,    \* history: what was read of the program it runs now
    option,   \* --agent: "bundled", or the minor in the given file's name
    kind,     \* --loader
    run,      \* where the main thread is, or how it ended
    minor,    \* the minors read so far, then Target.python_minor
    agent,    \* the minor of the agent library
    helper,   \* the disposable inferior: "none", "running", "terminated", "reaped"
    probe,    \* what the GDB probe found: "none", "ok", "bad" or "raised"
    chosen,   \* the loader: "none", "gdb" or "ptrace"
    tempdir   \* the temporary directory exists

targetVars == <<process, image, changes, facts>>
choiceVars == <<minor, agent, helper, probe, chosen>>
preVars    == <<targetVars, option, kind, run, choiceVars, tempdir>>

PreInit ==
    /\ process = "same" /\ image \in Images /\ changes = 0 /\ facts = {}
    /\ option \in {"bundled"} \cup Supported
    /\ kind \in {"auto", "gdb", "ptrace"}
    /\ run = "resolve" /\ minor = {} /\ agent = {} /\ tempdir = FALSE
    /\ helper = "none" /\ probe = "none" /\ chosen = "none"

Gone == process = "gone"

-----------------------------------------------------------------------------
(* The process behind the PID.                                             *)

Exec ==
    /\ process # "gone" /\ changes < MaxChanges
    /\ image' \in Images \ {image}
    /\ changes' = changes + 1 /\ facts' = {}
    /\ UNCHANGED process

Exit ==
    /\ process # "gone" /\ changes < MaxChanges
    /\ process' = "gone" /\ changes' = changes + 1 /\ facts' = {}
    /\ UNCHANGED image

Reuse ==
    /\ process = "gone" /\ process' = "another"
    /\ image' \in Images
    /\ UNCHANGED <<changes, facts>>

-----------------------------------------------------------------------------
(* The main thread.  PydumpError is a diagnosis that main() prints; other  *)
(* exceptions end the command with a traceback.                            *)

Moves(from, to) == run = from /\ run' = to
Learns(fact) == facts' = facts \cup {fact} /\ UNCHANGED <<process, image, changes>>
Keeps == UNCHANGED <<option, kind>>

(* docker inspect, /proc/PID, and the PID in its own namespace.            *)
ResolveTarget ==
    /\ \/ ~Gone /\ Moves("resolve", "exe")
       \/ (Gone \/ MayFail) /\ (Moves("resolve", "refused") \/ Moves("resolve", "raised"))
    /\ Keeps /\ UNCHANGED <<targetVars, choiceVars, tempdir>>

(* detect_python_minor: first the link of the executable, then the maps.   *)
ReadExe ==
    /\ \/ ~Gone /\ Moves("exe", "maps") /\ minor' = image.exe
       \/ Gone /\ Moves("exe", "raised") /\ UNCHANGED minor
       \/ MayFail /\ Moves("exe", "refused") /\ UNCHANGED minor
    /\ Keeps /\ UNCHANGED <<targetVars, agent, helper, probe, chosen, tempdir>>

(* Mutant: any version that is found will do.                              *)
ReadMapsAny ==
    /\ \/ /\ ~Gone /\ Moves("maps", "agent") /\ Learns("minor")
          /\ \E m \in (minor \cup image.mapped) \cap Supported : minor' = {m}
       \/ Gone /\ Moves("maps", "raised") /\ UNCHANGED <<targetVars, minor>>
    /\ Keeps /\ UNCHANGED <<agent, helper, probe, chosen, tempdir>>

(* Exactly one version may be named, and it must be supported.             *)
ReadMaps ==
    /\ \/ /\ ~Gone /\ Learns("minor")
          /\ minor' = minor \cup image.mapped
          /\ \/ Moves("maps", "agent") /\ \E m \in Supported : minor' = {m}
             \/ Moves("maps", "refused") /\ ~\E m \in Supported : minor' = {m}
       \/ Gone /\ Moves("maps", "raised") /\ UNCHANGED <<targetVars, minor>>
    /\ Keeps /\ UNCHANGED <<agent, helper, probe, chosen, tempdir>>

BundledAgent == minor \cap Bundled

(* The bundled agent or --agent, and verify_agent.                         *)
VerifyAgent ==
    /\ agent' = IF option = "bundled" THEN BundledAgent ELSE {option}
    /\ \/ agent' = minor /\ Moves("agent", "machine")
       \/ agent' # minor /\ Moves("agent", "refused")
    /\ Keeps /\ UNCHANGED <<targetVars, minor, helper, probe, chosen, tempdir>>

(* inspect_target_environment: the ELF header, then the maps once more.    *)
InspectMachine ==
    /\ \/ /\ ~Gone /\ Learns("machine")
          /\ \/ image.machine = "host" /\ Moves("machine", "libc")
             \/ image.machine # "host" /\ Moves("machine", "refused")
       \/ (Gone \/ MayFail) /\ Moves("machine", "refused") /\ UNCHANGED targetVars
    /\ Keeps /\ UNCHANGED <<choiceVars, tempdir>>

InspectLibc ==
    /\ \/ /\ ~Gone /\ Learns("libc")
          /\ \/ image.libc = "glibc" /\ Moves("libc", IF kind = "ptrace" THEN "ptrace" ELSE "gdb")
             \/ image.libc # "glibc" /\ Moves("libc", "refused")
       \/ (Gone \/ MayFail) /\ Moves("libc", "refused") /\ UNCHANGED targetVars
    /\ Keeps /\ UNCHANGED <<choiceVars, tempdir>>

WithoutGdb == IF kind = "auto" THEN "ptrace" ELSE "refused"

(* probe_gdb_loader: GDB is found and runs, then the helper is started.    *)
ProbeGdb ==
    /\ \/ Moves("gdb", "inferior") /\ helper' = "running"
       \/ MayFail /\ Moves("gdb", WithoutGdb) /\ UNCHANGED helper
       \/ MayFail /\ Moves("gdb", "raised") /\ UNCHANGED helper
    /\ Keeps /\ UNCHANGED <<targetVars, minor, agent, probe, chosen, tempdir>>

(* Mutant: a helper that does not become ready is left alone.              *)
ProbeInferiorReturns ==
    /\ \/ Moves("inferior", "reap") /\ probe' = "ok" /\ helper' = "terminated"
       \/ Moves("inferior", WithoutGdb) /\ probe' = "bad" /\ UNCHANGED helper
    /\ Keeps /\ UNCHANGED <<targetVars, minor, agent, chosen, tempdir>>

(* _probe_disposable_inferior: GDB calls a function in the helper, or the  *)
(* helper is not ready in time, or GDB fails, hangs or cannot be started;  *)
(* finally the helper is told to terminate.                                *)
ProbeInferior ==
    /\ Moves("inferior", "reap")
    /\ \/ probe' = "ok"
       \/ MayFail /\ probe' \in {"bad", "raised"}
    /\ helper' = "terminated"
    /\ Keeps /\ UNCHANGED <<targetVars, minor, agent, chosen, tempdir>>

(* The helper is waited for, killed after 3 s and waited for again.        *)
ReapHelper ==
    /\ run = "reap"
    /\ \/ /\ helper' = "reaped"
          /\ run' = CASE probe = "ok" -> "install"
                      [] probe = "bad" -> WithoutGdb
                      [] OTHER -> "raised"
          /\ chosen' = IF probe = "ok" THEN "gdb" ELSE chosen
       \/ MayFail /\ run' = "raised" /\ UNCHANGED <<helper, chosen>>
    /\ Keeps /\ UNCHANGED <<targetVars, minor, agent, probe, tempdir>>

(* probe_pydump_loader: a chain of file tests.                             *)
ProbePydumpLoader ==
    /\ \/ Moves("ptrace", "install") /\ chosen' = "ptrace"
       \/ MayFail /\ Moves("ptrace", "refused") /\ UNCHANGED chosen
    /\ Keeps /\ UNCHANGED <<targetVars, minor, agent, helper, probe, tempdir>>

(* install_agent (SharedFiles) into /proc/PID/root/tmp.                    *)
InstallAgent ==
    /\ \/ ~Gone /\ Moves("install", "tempdir")
       \/ (Gone \/ MayFail) /\ Moves("install", "raised")
    /\ Keeps /\ UNCHANGED <<targetVars, choiceVars, tempdir>>

MakeTempDir ==
    /\ \/ ~Gone /\ Moves("tempdir", "own") /\ tempdir' = TRUE
       \/ (Gone \/ MayFail) /\ Moves("tempdir", "raised") /\ UNCHANGED tempdir
    /\ Keeps /\ UNCHANGED <<targetVars, choiceVars>>

(* Leaving the with block: the directory is found under the PID's root     *)
(* while the process lives, and perhaps under another process's.           *)
RemoveTempDir ==
    tempdir' \in CASE process = "same"    -> {FALSE}
                   [] process = "gone"    -> {tempdir}
                   [] process = "another" -> {FALSE, tempdir}

(* fs_owner, chown and chmod of the directory.                             *)
OwnTempDir ==
    /\ \/ ~Gone /\ Moves("own", "listen") /\ UNCHANGED tempdir
       \/ (Gone \/ MayFail) /\ Moves("own", "raised") /\ RemoveTempDir
    /\ Keeps /\ UNCHANGED <<targetVars, choiceVars>>

(* Ctrl+C: the finally clause of the probe has the helper terminated.      *)
InterruptProbe ==
    helper' = IF helper = "running" THEN "terminated" ELSE helper

PreStep ==
    \/ ResolveTarget \/ ReadExe \/ ReadMaps \/ VerifyAgent
    \/ InspectMachine \/ InspectLibc \/ ProbeGdb \/ ProbeInferior \/ ReapHelper
    \/ ProbePydumpLoader \/ InstallAgent \/ MakeTempDir \/ OwnTempDir

PreTypeOK ==
    /\ process \in {"same", "gone", "another"} /\ image \in Images
    /\ changes \in 0..MaxChanges /\ facts \subseteq {"minor", "machine", "libc"}
    /\ option \in {"bundled"} \cup Supported /\ kind \in {"auto", "gdb", "ptrace"}
    /\ helper \in {"none", "running", "terminated", "reaped"}
    /\ probe \in {"none", "ok", "bad", "raised"}
    /\ chosen \in {"none"} \cup (IF kind = "auto" THEN {"gdb", "ptrace"} ELSE {kind})
    /\ tempdir \in BOOLEAN
=============================================================================
