# pydump: TLA+ models, model checks and proofs

pydump takes a snapshot of the object graph of a running CPython process. A
*loader* (GDB, or the ptrace helper `pydump-loader`) makes the target load a C
*agent*; the agent's session thread connects back over a Unix socket, takes the
GIL and answers questions about the heap; the *Collector* in the command owns the
traversal and writes the artifact. The *analyzers* (Python and a Go port) read
artifacts and compute, among other things, retained heap sizes.

This directory models the parts in which order, failure and concurrency matter.
Every definition is translated from the source lines that `PROJECT.json` ("map")
names; the documents (`src/docs/kernel.md`, `src/contracts/*.md`), comments and
tests are only used as statements the code is compared with.

## 1. Inventory

| component | state | operations | who it talks to |
|---|---|---|---|
| Agent session (`capture/agent/agent.c`, `session_main`) | GIL, automatic GC flag, record and address buffers, the request being answered | take the GIL, HELLO, well-known types, roots, object replies, COMPLETE or ERROR, restore, close | Collector over a stream socket; reads the live heap |
| Agent lifecycle (`pydump_schedule`, `start_scheduled_session`, `pydump_start`) | two atomic flags, one static slot | claim, fill, queue a pending call, start a thread, release | clone task of pydump-loader, GDB, target's main thread, session thread |
| Object facts (`object_facts.c`) | none | sizes and type names from struct layouts | called by the agent session |
| Wire protocol (`protocol.h`, `protocol.py`) | receive buffer, expanded bulk records | frame, parse, expand bulk batches | both ends |
| Collector (`collector.py`) | scheduled set, pending stack, current batch, temporary file | the conversation, scheduling, publication, cleanup | agent, heap writer, file system |
| Heap writer (`heap_writer.py`) | object count, type table, file | header, objects, finish, validate | Collector |
| Command run (`cli.py`, `run`) | listener, loader thread and its error, deadline | poll, accept, capture, join, leave | loader, Collector |
| Agent installation (`loader/install.py`) | content-addressed library and its `.partial` file in the target's `/tmp` | exists, copy, chmod, replace | every run against one target |
| GDB loader (`loader/gdb.py`) | subprocess with a deadline | pending call, breakpoint, `pydump_start`, detach | target's main thread |
| ptrace loader and pydump-loader (`loader/ptrace.py`, `injector_linux.go`, `arch_*.go`) | target's registers and code, bootstrap area, result word, two clone tasks | attach, remote system calls, clone, poll, unmap, detach | target, kernel |
| Loader selection, target inspection (`target.py`, `selection.py`, `environment.py`) | what has been read of the process so far, a disposable inferior | read `/proc/PID` several times, probe GDB and pydump-loader | command run, target |
| Retained heap (`retained.py`; `retained.go`, `graph.go`) | inbound index, strict subtrees, deletion front | subtrees, delete each object, delete each thread's locals | readers |
| Retained cache (`retained.py`, `cache.go`) | cache files beside the artifact, temporary files | hash, load, accept, store, replace | retained heap, other analyzers |
| Readers (`reader.py`, `reader.go`) | position in the artifact | parse v1 | artifact |
| Reports, analyzer command lines | what was loaded, what is reported | hash and stat the file again, aggregate, sort, print | readers, retained heap, cache |

What is hard here: the agent dereferences addresses that another process sends
back; the target stands still for as long as a session lives; each of agent,
Collector, disk and target may fail between any two frames; a request is handed
from a thread without the GIL to a pending call through one static slot; a ptrace
helper must leave a target intact that still runs tasks in memory the helper
mapped; runs share file names; the retained-heap search walks hash sets while it
changes them; an analyzer reads its artifact up to four times by name while a
capture may replace it. `PROJECT.json` ("hazards") lists these at their lines.

What makes each component correct: an artifact is the whole graph of one instant
or is not published (Collector, agent); reads touch live objects only, GIL and GC
come back (agent); one session, unmixed arguments, flags released (lifecycle);
tasks keep their memory, target restored and let go, truthful result (injector);
the run ends, names the specific failure, lets every session go (command); shared
names hold whole files (installation, output); the numbers are those of the
definition for every iteration order (retained heap); what is read is what was
written (writer, readers); a report and a cache entry are about one artifact
(analyzers).

## 2. Modules

| module | models | composed with |
|---|---|---|
| `HeapGraph` | object graphs, reachability, the artifact of a graph | extended by the next two |
| `Snapshot` | abstract specification: the graph is read at one instant and its artifact is published at most once | implemented by `CaptureSession` |
| `CaptureSession` | agent session + socket + Collector + heap writer + output file | `Snapshot` through `INSTANCE` |
| `AgentLifecycle` | flags, slot, pending calls, GDB and pydump-loader requests | a session is one step here, `CaptureSession` is its inside |
| `Injector` | pydump-loader | its successful schedule task is a `ClaimSlot ... AddPendingCall` of `AgentLifecycle` |
| `Channel` | abstract specification: records arrive in order, each once, until the connection fails | implemented by `BulkFraming` |
| `BulkFraming` | `record_batch`, `send_all`, `FramedSocket`: the wire below the records | `Channel` through `INSTANCE`; its result is the socket of `CaptureSession` |
| `Preflight` | `resolve_target`, `verify_agent`, `select_loader`, the probes, the temporary directory | extended by `Launch` |
| `Launch` | `cli.run` from there on, with its loader thread | loader and session are the interfaces of `AgentLifecycle` and `Injector` |
| `SharedFiles` | `install_agent` and the output name, many runs | |
| `Retained` | both retained-heap calculators | |
| `HeapFormat` | PyHeap v1 as words: the writer and the readers, as operators | extended by `Analysis` |
| `Analysis` | the analyzers' commands with the retained cache | `Calculate` is a whole behaviour of `Retained` |
| `CaptureSessionProofs`, `AgentLifecycleProofs`, `InjectorProofs`, `LaunchProofs`, `SharedFilesProofs`, `AnalysisProofs`, `RetainedProofs`, `BulkFramingProofs` | inductive invariants and theorems | extend the module in their name |
| `MC*` | model values, graphs and inputs for TLC | extend the module in their name |

Some definitions are preceded by a comment that begins with "Mutant". They are
never part of a specification: each is a mapped definition changed the way a
plausible bug would change it, and shows that a property notices that bug when it
takes the definition's place (`PROJECT.json`, "mutants").

### CaptureSession

State: the target (`heap`, `gil`, `gc`, and the history `gcApp` of what the
program asked of its GC), the agent (`apc`, `gcWas`, `rootsLeft`, `todo`, and the
history `snap`, the graph when the GIL was taken), both directions of the socket,
the Collector (`cpc`, `scheduled`, `pending`, `batch`) and the file (`written`,
`count`, `types`, `temp`, `published`). One action per frame sent or received, per
error path and per kind of failure; `RunTarget` lets the program change its graph
and its GC setting whenever it has the GIL.

Abstractions. A bulk frame is the records in it and object records are frames; a
reference occurs once per object (multiplicity and order of content are dropped).
Requests take any `BatchSize` pending addresses, which covers the stack order of
the code. Socket orders towards the agent never fill their buffer. `send_error`
after an unexpected order occurs twice in the code and once here; a Collector that
follows `_capture` never sends one. A send that fails may leave part of a frame
(`TORN`), which the receiver rejects. The session starts connected; connecting is
in `AgentLifecycle` and `Launch`.

### AgentLifecycle

One process per request, the target's main thread, and the session threads.
`pydump_schedule` is split at every access to shared memory; `pydump_start` at its
flag, its arguments and its thread. The queue of pending calls is bounded and
refuses. Every GDB queues the same call, `PyCallable_Check(NULL)`, and stops at
`tbreak PyCallable_Check if $rdi == 0`, so the queue does not say whose call is
whose: a call that a killed GDB left behind stops for the GDB that is attached now,
and that one's own call is left over in turn (`RunPendingCall`). The deadline may
kill a GDB at any step of its script (`GdbKilled`). It then leaves its pending call,
perhaps the inserted breakpoint, on which the program dies of SIGTRAP when it next
calls `PyCallable_Check` (`trap`, `TrapHit`), or a `pydump_start` under way, which
goes on and returns to an address where only the debugger would have caught it
(`EndOrphan`). A target that dies (`alive`) ends the model. Of these one thing is
simplified: the target also dies of `EndOrphan` when another GDB has attached in the
meantime, which would report the stop as its own failure first. The main thread may
stay in native code for good, with the GIL or without (`Sticks`). The return code 2
(socket path too long) cannot occur with the paths `run` makes. The history
`decided` is what `pydump_start` answered for an accepted request.

### Injector

`hpc` follows `Inject` with its deferred clean-ups. A remote operation is two
steps: start (registers and code overwritten) and end (restored), with the
outcomes success, failure, and a signal that stops the target instead. `attach`
takes any first stop: when a signal was there first, the SIGSTOP of the attach is
still pending (`stopPending`) and may stop a remote operation later. Code is
overwritten at the entry point of the C library's ELF image, which no thread of a
running process executes. Clone tasks move on their own. Both architectures are
initial states.

The helper can be killed anywhere (`KillHelper`): `subprocess.run` leaves it in the
command's process group, so that Ctrl+C at the terminal reaches it too, and the
parent's `timeout + 2 s` may pass in either wait or in a remote operation, whose
`Wait4` has no deadline. No deferred function runs then. The kernel detaches a tracee
whose tracer has died and lets it go on with the signal it was stopped for, which
`stop` remembers: SIGSTOP leaves the target stopped (`stopPending`), SIGTRAP, for
which it is stopped after every remote operation, ends it (`dead`). A thread let go
in the middle of an operation runs it and dies of the breakpoint behind it
(`OrphanRuns`). An orderly detach drops the signal. The munmap may be refused by the
kernel (`refused`). Failures of the restoring calls themselves (a register or code
write that fails on a stopped tracee) are not modelled.

### BulkFraming

The agent-to-Collector direction in units, runs of bytes that are sent or lost as
one: two for a frame header, one for a record header, the rest payload. `send` and
`recv` move any number of them. A record that does not fit the batch flushes it,
one that is larger than the batch travels alone. A send may fail in the middle of a
frame, and the ERROR frame that `send_error` then writes follows on the same
stream, so that the receiver may take its bytes for the rest of the torn frame: at
most one record then reaches the Collector with a payload that is not its own, and
nothing after it. `Channel` says that much and no more; in `CaptureSession` it is
the frame `TORN`. (A decoded garbled record is not accepted silently: it is the
last one of a session that cannot complete.)

On CPython 3.12 and later (`unstable`) a flush that fails while the roots are visited
is forgotten: `visit_root` returns 0, which only ends the visit, the batch is empty,
and ROOTS_DONE and the rest of the session follow a torn or missing frame
(`SendForgotten`). From then on nothing is promised of the stream: `lost` says that
it happened and `heard` what the Collector had been handed by then, and for
`Channel` the connection is down from that moment. Which records are the roots is
read off the session: they are the first bulk records, and none of them is a large
one (`Visiting`).

### Preflight and Launch

Every read of `/proc/PID` is a step, and between any two the process may exec,
exit, and give its PID to another. A program is what `/proc` shows of it: the
minors its file names spell, its ELF machine and its C library. `facts` remembers
which of those were read of the program that runs now, so that `FitsWhatWasRead`
can say what the checks do guarantee: what was read of the program that finally
gets the agent, was right. `Launch` abstracts time to one flag `late` and the agent
to a session that connects, waits for the GIL and holds it until its socket closes,
so what it shows does not rest on the agent's own socket deadlines. Connecting and
taking the GIL are two steps: a session in the backlog may get the GIL after the run
has ended. The loader reports success when the request has reached the target, before
or after the session connects.

### HeapFormat and Analysis

A document is a sequence of words: a u32, a u16 or a bool is one, a u64 two, a
string its length and its characters. Nothing in it says what a word is, so a
reader that is out of step goes on with whatever it finds. `Finished` is a whole
document; `Unfinished` is everything a writer that raised or was killed can leave,
with the object count still 0 or already patched. `HeapRead` is both readers;
`Meaning` states what they ought to find: strings, names of locals among them, cut at
65535 and sizes clamped, the rest as given. list, set and tuple are laid out alike
and are one type here. UTF-8 is left out: a cut string is cut between characters.
`IsHeap` is what a collector gives the writer, `WellWritten` that the documents of a
scenario come from such heaps; the run `analysis` evaluates it on its documents.

In `Analysis` an analyzer goes through its reads of the artifact's name one by one:
load, hash for the cache, hash once more for the store (Python only), hash and size
for the report. Retained sizes are represented by the document they were calculated
from, which is what decides whether they are right (`Retained` shows what the
numbers are). The history `moved` marks analyzers whose artifact has been replaced
since they loaded it, and the cache entries they stored after that.

### SharedFiles and Retained

`SharedFiles` keeps, per library file, the set of pieces
it holds, separate from the name it is under, and a history `met` of which runs overlapped.
`Retained` translates `find_strict_subtrees`, `retained` and `delete_unreferenced`
step by step; a set or dictionary is walked in any order, the deletion list is a
bag with the order fixed when it was sorted. Each input says which language reads
it, because the two differ in two places (`Other`, `BeginThread`).

Both calculators count references, and `WithObject` and `WithThread` say what that
comes to: the least set that contains every address all of whose referrers are in it.
This is not what the class comment says (retained.py:68, "the bytes made unreachable
by deleting each object or thread root"). `WithoutObject` and `WithoutThread` are the
comment's meaning, by paths from what is left. `Agrees` says how the two are related,
and `RetainedCorrect` has both. Below an object or a thread's locals,

- a cycle (an object that refers to itself, or two that refer to each other) is kept
  by its own references and not counted: the number is too small;
- a local of a thread does not keep an object from being counted, except among the
  locals of the thread that is deleted itself: the number is too large
  (`retained_roots`);
- without either, the number is exactly the bytes made unreachable.

## 3. Runs

All runs but `analysis` set `CHECK_DEADLOCK FALSE`: captures, injections and
command runs end, and a final state has no successor; in `Analysis` it stutters.
That nobody waits for ever is stated by properties instead (`NoStandoff`,
`CollectorEnds`, `TargetResumes`, `BackToIdle`, `Detaches`, `RunEnds`,
`Terminates`).

| run | checks | states |
|---|---|---|
| `capture_session` | CPython 3.10/3.11, all seven kinds of failure: `PublishedWhole`, `ReadsLiveObjects`, `GCAsApplicationLeftIt`, `NoPartialFile`, `NoStandoff`, refinement `IsSnapshot`, `TargetResumes` with fairness for the agent only, and `CollectorEnds`, whose statement adds the Collector's | 47 026 |
| `capture_lost_roots` | CPython 3.12+ with send timeouts: `PublishedWhole` is violated | |
| `bulk_framing` | CPython up to 3.11 and from 3.12 on: refinement `IsChannel`, `NothingLeftBehind` | 338 047 |
| `agent_lifecycle` | `OneSession`, `AcceptedIsDecided`, `OneScheduler`, `SessionsMatchRequests`, `BackToIdle` | 179 823 |
| `injector` | `TasksUndisturbed`, `TargetRestored`, `LeaksAreReported`, `SuccessIsReal`, `Detaches` on both architectures, the helper killed anywhere | 570 |
| `injector_slow_task` | `TasksUndisturbed` is violated when a task outlives the 10 ms grace | |
| `launch` | `FitsWhatWasRead`, `CleanExit`, `SpecificFailure`, `NoSessionAfterEnd`, `RunEnds`, `SessionReleased` | 142 435 |
| `shared_files` | `LibraryWhole`, `WholeAtRest`, `ArtifactsKept` | 178 614 |
| `retained` | `RetainedCorrect`, `SubtreesExact`, `Terminates` for both languages | 101 222 |
| `retained_twins` | retained.py on threads equal as values: `RetainedCorrect` is violated | |
| `retained_roots` | `OtherThreadsAreRoots` is violated | |
| `analysis` | `ReadsWhatWasWritten`, `CacheFits`, `ReportTrue`, `CacheCostsNothing` | 659 097 |

Bounds, and why they are enough.

- Capture: four addresses and two graphs, one with a cycle, an object that is no
  root and an empty slot, the other with an address reused by another object, and
  the target switches between them whenever it can. `BatchSize = 2` and
  `IOBatch = 1` make several batches and several root frames happen, and a batch
  that is not full; a socket buffer of two frames is
  full, partly filled and empty. The proofs remove these bounds for safety, and cover
  CPython 3.12+ without send timeouts, which no run does.
- Lifecycle: two requests of each kind and two places in the queue: the queue
  fills, a request of each kind meets each other one at every step. Failures hit
  one request of each kind; either of the GDBs may be killed, and the second then
  meets what the first left behind.
- Framing: a batch of four units and payloads of 0, 2 and 4, so that a record fits,
  does not fit behind another, or is too large for the batch; a socket of three units
  cuts every frame; three records and an ERROR frame. That is enough for a root, a
  forgotten flush of it, ROOTS_DONE and a session that completes without it.
- Injector and Launch: one helper and one run, every outcome of every step. The
  process behind the PID changes once (an exec, or an exit and a reuse) at any
  step, among seven programs.
- SharedFiles: three runs and two pieces. Three are needed: one of the cases in
  which the library is briefly incomplete takes a run that renames a file it
  never opened. Output names are as many as runs can use.
- Retained: every graph of two objects (with a missing one) under two threads,
  every graph of three objects, trees of four with one more reference. Sizes are distinct powers of
  two, so a sum tells which objects are in it.
- Analysis: fields hold 0 to 9 and strings up to 3 characters, so that each limit is
  met and passed by some heap; one address has the value of the magic. Every
  finished document of these heaps and every prefix of some. Two analyzers, three
  kinds of command, one replacement or removal of the artifact, for pairs of
  documents with the same objects, other objects, other threads, a dangling local
  and a torn end. One replacement is enough for an entry to be stored under the
  wrong name and found by the other analyzer.

Fairness.

- `CaptureSession!AgentFairSpec`: the session thread is scheduled by the kernel,
  obtains the GIL, and its 30 s socket deadlines expire. Nothing is assumed of the
  Collector. `CollectorEnds` assumes of the Collector that it runs and that its
  timeout expires.
- `AgentLifecycle!FairSpec`: weak fairness for loaders and for the GIL changing
  hands, strong fairness for a session and for the main thread's pending calls,
  because each competes with others for a GIL that comes and goes; CPython's switch
  interval and its forced switch give this. A session ends, which is `TargetResumes`.
  That the main thread comes back to a safe point is not assumed: nothing keeps it
  from `Sticks`, after which no pending call runs (`docs/kernel.md:75`). So
  `BackToIdle` is conditional. `schedule_active` is cleared unless the target dies or
  its main thread sticks, `session_active` unless it dies or sticks with the GIL.
- `Injector!FairSpec`: only the helper. A clone task may wait for ever for the
  dynamic loader's lock.
- `Launch!FairSpec`: main thread, loader (its subprocess has a timeout) and time. Of
  the target only that a session which holds the GIL and finds its socket closed
  returns (`SessionEnds`): it may never reach a safe point, connect or get the GIL.
- `Retained!FairSpec`: one sequential process goes on while it can.

### Where code and documents disagree

Each of these is a violation run; `PROJECT.json` ("findings") quotes the line.

1. `capture_lost_roots`: on 3.12+ a failed flush in the middle of the roots is
   forgotten, and an artifact without the remaining roots is published.
2. `injector_slow_task`: storing the result is not a task's last instruction; a
   task that is descheduled for more than 10 ms loses its code and stack.
3. `retained_twins`: retained.py compares threads by value, the Go port by index.
4. `retained_roots`: locals of other threads count as roots only for the removed
   thread's own locals, not for what is reached through objects.

More the models show, without a run of their own:

- `pydump_schedule` looks at `schedule_active` only, so a request made during a
  session is answered 0 and refused with 3 later in the target's main thread, where
  `docs/kernel.md:113` says the entry refuses it (`AcceptedIsDecided` says what does
  hold).
- Two runs that install at once leave an incomplete library under the
  content-addressed name for a time, for ever if one is killed then (`LibraryWhole`
  and `WholeAtRest` say exactly when). Two captures with one `--file` may choose the
  same name, and the later replaces the earlier (`ArtifactsKept`).
- Cycles below an object or a thread are not counted as retained by it, although they
  become unreachable with it: for a -> b -> b, or a -> b with b and c referring to each
  other, the number of a is its own size only. The comment at retained.py:68 says
  otherwise (`RetainedCorrect`, second half: `CountsUnreachable`).
- A GDB that is killed by its deadline costs the target its life if it leaves its
  breakpoint or a call under way (`AgentLifecycle`), a pydump-loader that is killed
  if it has run its first remote operation, and before that leaves the target stopped
  (`TargetRestored`, `LeaksAreReported` say exactly when).
- A session may take the GIL after the run has ended and the command returned; it then
  fails on its closed socket (`NoSessionAfterEnd`).
- retained.py raises `KeyError` for a local that neither is an object nor is
  referred to by one, where retained.go goes on (`Terminates`).
- The cache name is hashed after the heap was loaded. If the artifact is replaced in
  between, the numbers of the old one are stored under the name of the new one, and
  every later Python analysis of the new one reports them; Go notices only other
  objects. `CacheFits` and `ReportTrue` except exactly that.
- A process that execs between `detect_python_minor` and the loader gets an agent
  for the program it no longer runs. HELLO carries the minor the agent was compiled
  for, so nothing notices (`FitsWhatWasRead` speaks of what was read of the present
  program).
- When the target exits first, the temporary directory in its file system stays
  (`CleanExit`); and `main` catches `PydumpError` and Ctrl+C only, so an `OSError` of
  a vanished `/proc/PID` ends in a traceback (`raised` in `Preflight`).
- A signal that arrives before the SIGSTOP of the attach leaves that SIGSTOP pending;
  with a second one behind it, the target may be left stopped, after an error is
  reported (`LeaksAreReported`).

## 4. Proofs

`CaptureSessionProofs` proves, for every object graph, batch size, socket buffer
and set of failures that satisfies `HeapsAssumption` and `SessionAssumption`:

| theorem | statement |
|---|---|
| `TypeCorrect` | `Spec => []TypeOK` (in particular address 0 is never asked for) |
| `GCRestored` | `Spec => []GCAsApplicationLeftIt` |
| `ReadsAreSafe` | `Spec => []ReadsLiveObjects` |
| `ArtifactIsWhole` | `Spec => []PublishedWhole`, if `RootsReliable` |
| `CaptureIsSnapshot` | `Spec => IsSnapshot`, if `RootsReliable` |
| `NobodyStandsOff` | `Spec => []NoStandoff` |
| `NoPartialIsLeft` | `Spec => []NoPartialFile` |

`RootsReliable` is `~UnstableVisit \/ "timeout" \notin Faults`: it excludes exactly
the case `capture_lost_roots` refutes.

The argument. None of the properties is inductive. `AgentInv` says that from
HELLO to the restore the session holds the GIL and the graph is still the one of
the snapshot, and remembers what the GC flag was; `GCRestored` follows.
`CollectorInv` adds: every frame on the wire is true of the snapshot (`WireInv`),
only scheduled addresses are asked for (`RequestInv`), a scheduled address is
exactly one of pending, expected or written (`PartitionInv`), the records written
are the snapshot's and everything they name is scheduled, and nothing unreachable
is (`RecordInv`), and where the Collector is tells what it has finished
(`PhaseInv`). `ReadsAreSafe` follows: what the agent is asked for is scheduled,
hence reachable. When `FINISH` is sent pending and batch are empty, so the written
addresses are the scheduled ones and closed under reference; if they also hold
all roots they are all of `Reach`, the least closed set. That last condition is
`RootInv`: while roots are visited each is still to come, on the wire or scheduled
(`VisitInv`), a ROOTS_DONE frame has all of them before it (`DoneInv`), and past it
all are scheduled (`PastInv`), unless a torn frame or the Collector's end keeps it
from getting there. The refinement maps `heap`, `snap` and `published` to
themselves: Ensure is `Take`, Publish is `Publish`, RunTarget is `Run`, everything
else stutters. `NobodyStandsOff` rests on `WaitInv`: an agent that waits for an order
has sent the frame that earns it (HELLO, ROOTS_DONE, the end of a batch), and that
frame is under way, or has been read and the Collector is in its loop or has given
the order, or the Collector is gone. `TemporaryInv` ties the `.partial` file to the
Collector's place in `capture`.

`InjectorProofs` proves, for both architectures and with or without signals, from
`InjectorAssumption`:

| theorem | statement |
|---|---|
| `InjectorTypes` | `Spec => []TypeOK`; one injection makes the agent accept one request at most |
| `RestoredOnRelease` | `Spec => []TargetRestored` |
| `LeaksReported` | `Spec => []LeaksAreReported` |
| `SuccessHolds` | `Spec => []SuccessIsReal`, also for tasks that return late |
| `AreaKept` | `Spec => []TasksUndisturbed`, if `RetiresInTime` (what `injector_slow_task` refutes without it) |

What the helper leaves depends on where it was when it gave up or was killed, so each
part of the invariant ties a variable to a place in `Inject`. `HelperInv`: the target
is held from attach to detach unless the helper was killed, changed only in a remote
operation, the area is mapped from `mmap` to `munmap` and is in use while a task may
run, and a lost signal has ended the injection with an error or is about to.
`ResultInv`: the result word is set by the task that is waited for, and each task is
started and stores once; that is what makes a success real. `AreaInv`: a task lives
only while it is waited for or after the helper gave up, and then the area is still
its own. `TargetRestored` is therefore conditional where the code is: registers and
code are the target's own when it runs by itself, or the helper was killed in the
middle of a remote operation.

`AgentLifecycleProofs` proves, for any set of requests of both loaders and any
capacity of the pending-call queue, from `LifecycleAssumption`:

| theorem | statement |
|---|---|
| `LifecycleTypes` | `Spec => []TypeOK` |
| `OneSessionAtATime` | `Spec => []OneSession` |
| `SlotHasOneOwner` | `Spec => []OneScheduler` |
| `SessionsAreRequested` | `Spec => []SessionsMatchRequests`, whichever GDB's pending call the main thread stopped in |
| `AcceptedIsNotLost` | `Spec => []AcceptedIsDecided` |

`OneScheduler` is nearly inductive; that arguments do not mix needs what the slot
holds at each step of `pydump_schedule` (`FillInv`), that a queued or running
`start_scheduled_session` finds in it one accepted request that is not decided
(`OwnerInv`), and that what `pydump_start` reads is that request or the one of the
GDB that stopped the program (`CallInv`). No request is started twice because a
request with a session is past its one call (`PastInv`); why an accepted request is
refused is `VerdictInv`. The proof showed that `TypeOK` needs `None` to be no result
code; `LifecycleAssumption` says so since.

`LaunchProofs` proves, for any programs, versions and any number of changes of the
process behind the PID, from `PreflightAssumption`:

| theorem | statement |
|---|---|
| `LaunchTypes` | `Spec => []TypeOK` |
| `AgentFits` | `Spec => []FitsWhatWasRead` |
| `ExitIsClean` | `Spec => []CleanExit` |
| `FailureIsSpecific` | `Spec => []SpecificFailure` |
| `NoLateSession` | `Spec => NoSessionAfterEnd`, an action property: after the end no session connects, and one that is given the GIL then has its socket closed |

`RunInv` says what is open (helper, directory, listener, connection) by where the run
is. `FactsInv` says that what was read and is still true of the present program has
been accepted, and that nothing is missing from it if the process never changed.

`SharedFilesProofs` proves, for any finite set of runs and any number of pieces of
the library, from `FilesAssumption`: `LibraryIsWhole` (`[]LibraryWhole`),
`WholeInTheEnd` (`[]WholeAtRest`) and `ArtifactsAreKept` (`[]ArtifactsKept`). Runs that
are under way together have met (`MetInv`). A run in the middle of its copy has
written it up to its offset and has it under the temporary name, unless a run that
was not alone had it open (`CopyInv`); of the runs that opened a file, the last to
truncate it has all its pieces in it (`FileInv`), so the file is whole when all have
finished, whoever renamed it.

`AnalysisProofs` proves, for any documents, any number of analyzers of both languages
and any number of replacements of the artifact, from `AnalysisAssumption`:

| theorem | statement |
|---|---|
| `CacheIsOfTheArtifact` | `Spec => []CacheFits` |
| `ReportIsTrue` | `Spec => []ReportTrue` |
| `CacheIsHarmless` | `Spec => []CacheCostsNothing` |
| `WhatIsReadWasWritten` | `Spec => []ReadsWhatWasWritten`, if `WellWritten` |

An analyzer at work has read an accepted heap, of the present artifact if that did
not change (`LoadInv`); its name for the cache is then that heap's (`StoreInv`), so
every cache file is junk, stored across a change, or from the document its name
stands for (`CacheInv`); hence the numbers in use are those of the heap that was read
(`NumbersInv`), and so is what the report says of the file (`IdentityInv`). Equal words
are equal heaps because a heap is a function of the words; Go's accepted entries have
the same addresses whatever happened. That no document without words is accepted
(`EmptyRefused`) makes "0" for a missing number different from every number.

`WhatIsReadWasWritten` is about the format: for any heap, a finished document is read
as what its writer was given, and what an unfinished writer left is refused. The
invariant over the steps is short (`ReadInv`: the file is one of the scenario's
documents, and what an analyzer has is what was read of one of them); the work is
`DocumentIsRead`, in three parts.

- Reading what was written. `WrittenAt(d, at, w)` says that the words `w` stand in `d`
  at `at`; then a field is read as written and the position moves behind it, wherever
  it stands. A record is read field by field (`Partial` has its first fields), and a
  counted sequence by an induction over the items (`ItemsIs`, `SeqIsRead`, from
  `NatInduct`, which takes a set). Objects need more: the reader tells the kind of a
  content by the type's address, the referents in the content are left out of the
  sorted rest and put back by the reader. With all fields, `FinishedIsRead`.
- Reading less. A read that succeeds in a document gives the same in every longer one
  (the lemmas named `...Same`). So if the reader got through a cut document, it would
  get through the whole one in the same places, and find the footer before its end:
  `PatchedRefused`, `HeaderRefused`, `UncountedRefused`.
- Reading a wrong count. Before `finish` the number of objects is 0, so the reader
  takes the objects for the type table, with words that were never written as one.
  It refuses whatever does not end in the magic value (`UnpatchedRefused`), and what
  does when the first object's address has an upper half of 0 (`LowRefused`).

`WellWritten` supposes of the heap that the kind of a content is that of the object's
exact type (`content_kind`, agent.c:376), that no object is written twice
(`schedule`, collector.py:149) and that the type table has every object's type and
no type twice (`types`, a dict filled as objects are written, collector.py:177), and
excludes one case (`ByChance`): a killed writer's temporary file, its count not
patched, that is cut right behind the eight bytes of the magic value and whose first
address is not a small one. It would be accepted if its objects were also laid out
like a type table, which nothing in the format rules out. That an address
or a referent is the magic value, which the checked heaps have, is not excluded.

`RetainedProofs` proves, for every finite graph with sizes, every sequence of threads
and every order in which sets and equal counts are walked, from `RetainedAssumption`:

| theorem | statement |
|---|---|
| `TypesAreKept` | `Spec => []TypeOK` |
| `SubtreesAreExact` | `Spec => []SubtreesExact` |
| `RetainedIsCorrect` | `Spec => []RetainedCorrect`, if `NoTwins`: both the reference counts and how they are related to reachability |

`NoTwins` excludes exactly what `retained_twins` refutes: Python threads that are equal
as values and have locals. The argument has four parts.

- Sums. The model adds sizes with `MapThenSumSet`. That the order does not matter
  (`SumAdd`, `SumDisjoint`, `SumUnion`) is an induction over finite sets. The library's
  induction theorems take an operator, which the provers cannot instantiate; the ones
  here (`LeastNat`, `NatInduct`, `SetInduct`) take a set, and follow from `WFMin` and
  `NatLessThanWellFounded`.
- The graph. What goes with an object is the least closed set, so anything in it but
  the object itself has lost its referrers to it (`ReferrersGo`), and two objects of
  which neither goes with the other take nothing in common (`NothingInCommon`). Hence
  a strict subtree goes as a whole with its root and the stored sums count no byte
  twice (`SubtreeGoes`, `SubtreeBytes`), also when a root is visited again.
- The deletion. `CountInv`: each count is the number of referrers not walked and of
  other threads that hold the address, what is deleted has lost them all and does go,
  and the bytes so far are those of what was walked and of the subtrees reused, which
  are disjoint (`CountedOnce`). `ListInv`: the list has every counted address that is
  not deleted, and a pass without a deletion has gone past deleted entries only; since
  the list is sorted, the entry it stopped at shows that the rest is kept
  (`RestIsKept`). Then what is deleted, with the subtrees, is closed, hence all that
  goes (`ObjectExact`, `ThreadExact`).
- Reachability. What becomes unreachable is closed in the sense of the counts, if no
  local is held below where the calculators do not look, so all that goes is in it
  (`GoneIsUnreachable`). Of what is in it and does not go, every address has a
  referrer of that kind, since a path from outside would reach it; without a cycle
  there can be none (`UnreachableIsGone`). No induction along paths is needed:
  reachability is defined by closed sets, and a cycle by a set whose members are all
  referred to from it.

`BulkFramingProofs` proves, for all record sizes, batch sizes, socket buffers, lengths
of the ERROR frame and lengths of a session that satisfy `FramingAssumption`:

| theorem | statement |
|---|---|
| `FramingIsKept` | `Spec => []LossInv`: the framing invariant, until a failed flush of roots is forgotten, and that only with `unstable` |
| `NothingIsLeftBehind` | `Spec => []NothingLeftBehind`, which excepts `unstable /\ lost` |
| `FramingIsChannel` | `Spec => IsChannel` (the refinement of `Channel`, down from the moment of a forgotten flush) |

The units in the receiver's buffer, in the socket and still to be sent are one
sequence, `Under`: `send_all` and `_receive_exact` only move the borders in it. It is a
stream (`Stream`): every unit is followed by the next of its frame, by the first of the
next frame, or, anywhere, by the first of the ERROR frame, after which only more of
that comes; and the frames hold the records produced, from the one after those already
handed over. While the session runs the stream ends with a whole frame, and the batch
has exactly the records after it (`WholeStream`, `BatchInv`). So a frame that is read
either has its own units only, and its records are the next ones (`FirstFrame`,
`DropFrame`), or the ERROR frame cut it short, and what is left is the rest of that,
which no header can begin in (`DropTorn`, `ErrorTail`); then at most the last record is
not as sent (`ArrivedInv`). The end of a complete session cannot be inside a frame
(`EndOfStream`). The refinement maps `sent` to itself and `got` to itself or, after a
forgotten flush, to what had been handed over by then: producing is `Put`,
`PopPending` is `Get` or `Fail`, what ends the Collector and `SendForgotten` are
`Fail`, everything else stutters. `BulkSize` is a fold; that it is a number
(`BulkSizeType`) is an induction over sets of indices, all the proof needs of it.

Only model-checked: the liveness properties (fairness and ENABLED are beyond the proof
system). Every invariant and every action property of the passing runs is a theorem.

## 5. Not modelled

- Object facts: shallow sizes and type names from CPython's struct layouts, pointer
  arithmetic per minor version with no state and no order of events.
- Option parsing, printing, statistics, the JSON text, totals and the order of
  entries in a report: functions of values computed elsewhere.
- Struct formats inside a wire record, UTF-8 and its cutting, symbol tables of ELF
  files, which file name spells which CPython minor: one lookup each, without state.
- Clocks: a deadline is a step that may happen; that pydump-loader's two waits
  together may outlast the command's timeout is in `Launch` as a late loader.
- A crash of the machine: neither the cache nor the installed library is synced.
- Contracts' test data, benchmarks, build files.

## 6. Plan

The state of the system is modelled and its safety proved; what is left is
composition.

1. A composition of Launch, AgentLifecycle and CaptureSession's interface: two runs
   against one target.
2. `Launch` with clocks: the command's timeout, the parent's `timeout + 2 s`, the
   helper's two waits.
