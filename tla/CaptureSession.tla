--------------------------- MODULE CaptureSession ---------------------------
(***************************************************************************)
(* One capture, from the accepted connection to the published artifact:    *)
(* the session thread of the agent inside the target (agent.c), the        *)
(* Collector (collector.py, heap_writer.py), the Unix stream socket between*)
(* them and the output file.                                               *)
(*                                                                         *)
(* The agent answers from the live heap while it holds the GIL; the        *)
(* Collector owns the traversal.  Either side, the disk or the target may  *)
(* fail at any point.                                                      *)
(***************************************************************************)
EXTENDS HeapGraph, Sequences

CONSTANTS
    BatchSize,      \* addresses in one REQUEST_OBJECTS
    IOBatch,        \* addresses in one ROOT_BATCH
    SockCap,        \* frames the socket buffers towards the Collector
    UnstableVisit,  \* TRUE: CPython >= 3.12, PyUnstable_GC_VisitObjects
    Faults          \* the kinds of failure that may happen

FaultKinds == {"timeout",      \* a socket deadline passes
               "torn",         \* ... when part of a frame is already sent
               "nomem",        \* malloc fails or the GC list is broken
               "unsupported",  \* HELLO of a target the Collector refuses
               "raise",        \* disk error or Ctrl+C in the Collector
               "kill",         \* the Collector is killed
               "exit"}         \* the target process dies

ASSUME SessionAssumption ==
    /\ BatchSize \in Nat \ {0}
    /\ IOBatch \in Nat \ {0}
    /\ SockCap \in Nat \ {0}
    /\ UnstableVisit \in BOOLEAN
    /\ Faults \subseteq FaultKinds

VARIABLES
    \* the target process
    heap,       \* its object graph
    gil,        \* who holds the GIL: "target" or "agent"
    gc,         \* automatic GC enabled
    gcApp,      \* what the target's program last asked gc to be
    \* the agent's session thread
    apc,        \* where it is
    gcWas,      \* gc_was_enabled
    rootsLeft,  \* roots not yet visited
    todo,       \* addresses of the request not yet answered
    snap,       \* history: the graph when the GIL was taken
    \* the socket
    toC, toA,
    \* the Collector
    cpc,        \* where it is
    scheduled, pending,
    batch,      \* expected addresses of the current request
    written,    \* object records in the temporary file
    count,      \* HeapWriter._object_count
    types,      \* addresses in the type table
    temp,       \* temporary file: "none", "open" or "finished"
    published   \* artifacts under the final name (at most one)

targetVars == <<heap, gil, gc, gcApp>>
agentVars  == <<apc, gcWas, rootsLeft, todo, snap>>
fileVars   == <<written, count, types, temp, published>>
collVars   == <<cpc, scheduled, pending, batch, fileVars>>
vars       == <<targetVars, agentVars, toC, toA, collVars>>

-----------------------------------------------------------------------------
(* Frames.  A bulk frame is seen as the records in it.                     *)

Frame(kind) == [kind |-> kind, addrs |-> {}, obj |-> Null, type |-> Null]
RootBatch(S) == [kind |-> "ROOT_BATCH", addrs |-> S, obj |-> Null, type |-> Null]
Object(h, o) == [kind |-> "OBJECT", addrs |-> h.refs[o], obj |-> o, type |-> h.type[o]]
Request(b)  == [kind |-> "REQUEST_OBJECTS", batch |-> b]
Order(kind) == [kind |-> kind, batch |-> <<>>]

AgentGone     == apc \in {"done", "dead"}
CollectorGone == cpc \in {"delivered", "failed", "killed"}

(* send() succeeds while the peer reads; it fails on a closed peer, or     *)
(* after SO_SNDTIMEO on a full buffer, possibly in the middle of a frame.  *)
CanSend == ~CollectorGone /\ Len(toC) < SockCap
SendFails ==
    \/ CollectorGone /\ toC' = toC
    \/ /\ ~CollectorGone /\ Len(toC) >= SockCap
       /\ \/ "timeout" \in Faults /\ toC' = toC
          \/ "torn" \in Faults /\ toC' = Append(toC, Frame("TORN"))

-----------------------------------------------------------------------------
(* The target's own program.                                               *)

RunTarget ==
    /\ gil = "target" /\ apc # "dead"
    /\ heap' \in Heaps
    /\ gc' \in BOOLEAN /\ gcApp' = gc'
    /\ UNCHANGED <<gil, agentVars, toC, toA, collVars>>

(* The process dies; the socket closes with it.                            *)
TargetExits ==
    /\ "exit" \in Faults /\ ~AgentGone
    /\ apc' = "dead"
    /\ UNCHANGED <<targetVars, gcWas, rootsLeft, todo, snap, toC, toA, collVars>>

-----------------------------------------------------------------------------
(* The agent's session thread.  It is connected already.                   *)

(* Mutant: the session reads without the GIL.                              *)
EnsureWithoutGIL ==
    /\ apc = "connected" /\ gil = "target"
    /\ snap' = {heap}
    /\ gcWas' = gc /\ gc' = FALSE
    /\ apc' = "hello"
    /\ UNCHANGED <<heap, gil, gcApp, rootsLeft, todo, toC, toA, collVars>>

(* PyGILState_Ensure, PyGC_IsEnabled, PyGC_Disable.                        *)
Ensure ==
    /\ apc = "connected" /\ gil = "target"
    /\ gil' = "agent" /\ snap' = {heap}
    /\ gcWas' = gc /\ gc' = FALSE
    /\ apc' = "hello"
    /\ UNCHANGED <<heap, gcApp, rootsLeft, todo, toC, toA, collVars>>

(* Step from `from' to `to' by sending frame f.                            *)
Sends(from, f, to) ==
    /\ apc = from /\ CanSend
    /\ toC' = Append(toC, f)
    /\ apc' = to
    /\ UNCHANGED <<targetVars, gcWas, snap, toA, collVars>>

SendHello ==
    /\ \/ Sends("hello", Frame("HELLO"), "ack")
       \/ "unsupported" \in Faults /\ Sends("hello", Frame("BAD_HELLO"), "ack")
    /\ UNCHANGED <<rootsLeft, todo>>

SendWellKnown ==
    /\ Sends("wellknown", Frame("WELL_KNOWN"), "roots")
    /\ rootsLeft' = heap.roots
    /\ UNCHANGED todo

(* visit_root, flush_addresses, flush_record_batch: a full frame of roots, *)
(* or the rest of them, in the order of the GC lists.                      *)
SendRootBatch ==
    /\ \E S \in SUBSET rootsLeft :
        /\ S # {}
        /\ Cardinality(S) = IOBatch \/ (S = rootsLeft /\ Cardinality(S) < IOBatch)
        /\ Sends("roots", RootBatch(S), "roots")
        /\ rootsLeft' = rootsLeft \ S
    /\ UNCHANGED todo

SendRootsDone ==
    /\ rootsLeft = {}
    /\ Sends("roots", Frame("ROOTS_DONE"), "requests")
    /\ UNCHANGED <<rootsLeft, todo>>

(* Mutant: every adapter forgets that a flush failed.                      *)
RootFlushForgotten ==
    /\ apc = "roots" /\ rootsLeft # {} /\ SendFails
    /\ rootsLeft' = {}
    /\ UNCHANGED <<targetVars, apc, gcWas, snap, todo, toA, collVars>>

(* A flush of roots fails.  If it is not the last one, visit_root returns  *)
(* 0: the 3.10 and 3.11 adapters return -1 then, but                       *)
(* PyUnstable_GC_VisitObjects just stops, and send_roots goes on to        *)
(* ROOTS_DONE.  Both report a failure of the last flush.                   *)
RootFlushFails ==
    /\ apc = "roots" /\ rootsLeft # {} /\ SendFails
    /\ apc' = IF UnstableVisit /\ Cardinality(rootsLeft) > IOBatch
               THEN "roots" ELSE "error"
    /\ rootsLeft' = {}
    /\ UNCHANGED <<targetVars, gcWas, snap, todo, toA, collVars>>

(* Step from `from' by receiving an order, on to `to'.                     *)
TakesOrder(from, to) ==
    /\ apc = from /\ toA # <<>>
    /\ apc' = to
    /\ todo' = Head(toA).batch
    /\ toA' = Tail(toA)
    /\ UNCHANGED <<targetVars, gcWas, rootsLeft, snap, toC, collVars>>

ReceiveAck ==
    TakesOrder("ack", IF Head(toA).kind = "HELLO_ACK" THEN "wellknown" ELSE "error")

(* The head of the loop in handle_requests.                                *)
ReceiveRequest ==
    TakesOrder("requests", CASE Head(toA).kind = "FINISH"          -> "finish"
                             [] Head(toA).kind = "REQUEST_OBJECTS" -> "reply"
                             [] OTHER                              -> "error")

(* send_object: dereferences the requested address.                        *)
SendObject ==
    /\ todo # <<>>
    /\ Sends("reply", Object(heap, Head(todo)), "reply")
    /\ todo' = Tail(todo)
    /\ UNCHANGED rootsLeft

(* Mutant: the frame stays in the buffer of the record batch.              *)
BatchDoneUnflushed ==
    /\ apc = "reply" /\ todo = <<>>
    /\ apc' = "requests"
    /\ UNCHANGED <<targetVars, gcWas, rootsLeft, snap, todo, toC, toA, collVars>>

SendBatchDone ==
    /\ todo = <<>>
    /\ Sends("reply", Frame("BATCH_DONE"), "requests")
    /\ UNCHANGED <<rootsLeft, todo>>

SendComplete ==
    /\ Sends("finish", Frame("COMPLETE"), "restore")
    /\ UNCHANGED <<rootsLeft, todo>>

(* Any other send fails; send_all's -1 reaches session_main.               *)
SendAborts ==
    /\ \/ apc \in {"hello", "wellknown", "reply", "finish"}
       \/ apc = "roots" /\ rootsLeft = {}
    /\ SendFails
    /\ apc' = "error"
    /\ UNCHANGED <<targetVars, gcWas, rootsLeft, snap, todo, toA, collVars>>

(* Mutant: no SO_RCVTIMEO.                                                 *)
ReceiveFailsOnEOF ==
    /\ apc \in {"ack", "requests"} /\ toA = <<>>
    /\ CollectorGone
    /\ apc' = "error"
    /\ UNCHANGED <<targetVars, gcWas, rootsLeft, snap, todo, toC, toA, collVars>>

(* recv() ends with EOF, or with SO_RCVTIMEO.                              *)
ReceiveFails ==
    /\ apc \in {"ack", "requests"} /\ toA = <<>>
    /\ CollectorGone \/ "timeout" \in Faults
    /\ apc' = "error"
    /\ UNCHANGED <<targetVars, gcWas, rootsLeft, snap, todo, toC, toA, collVars>>

(* malloc fails, or the 3.10/3.11 adapter meets a broken GC list.          *)
AgentAborts ==
    /\ "nomem" \in Faults
    /\ \/ apc \in {"wellknown", "reply"}
       \/ apc = "roots" /\ ~UnstableVisit /\ rootsLeft # {}
    /\ apc' = "error"
    /\ UNCHANGED <<targetVars, gcWas, rootsLeft, snap, todo, toC, toA, collVars>>

(* send_error; its result is ignored.                                      *)
SendError ==
    \/ Sends("error", Frame("ERROR"), "restore") /\ UNCHANGED <<rootsLeft, todo>>
    \/ /\ apc = "error" /\ SendFails
       /\ apc' = "restore"
       /\ UNCHANGED <<targetVars, gcWas, rootsLeft, snap, todo, toA, collVars>>

(* Mutant: PyGC_Enable whatever it was before.                             *)
RestoreEnables ==
    /\ apc = "restore"
    /\ gc' = TRUE
    /\ gil' = "target"
    /\ apc' = "closing"
    /\ UNCHANGED <<heap, gcApp, gcWas, rootsLeft, snap, todo, toC, toA, collVars>>

(* PyGC_Enable if it was enabled, PyGILState_Release.                      *)
Restore ==
    /\ apc = "restore"
    /\ gc' = (gc \/ gcWas)
    /\ gil' = "target"
    /\ apc' = "closing"
    /\ UNCHANGED <<heap, gcApp, gcWas, rootsLeft, snap, todo, toC, toA, collVars>>

Close ==
    /\ apc = "closing"
    /\ apc' = "done"
    /\ UNCHANGED <<targetVars, gcWas, rootsLeft, snap, todo, toC, toA, collVars>>

-----------------------------------------------------------------------------
(* The Collector.                                                          *)

(* Mutants: the temporary file is left; the final one is removed too.      *)
RaiseKeepsTemporary ==
    /\ cpc' = "failed"
    /\ UNCHANGED <<targetVars, agentVars, toA, scheduled, pending, batch, fileVars>>

RaiseUnlinksFinal ==
    /\ cpc' = "failed"
    /\ temp' = "none" /\ published' = {}
    /\ UNCHANGED <<targetVars, agentVars, toA, scheduled, pending, batch, written,
                   count, types>>

(* Every exception leaves through capture's except clause, which unlinks   *)
(* the temporary file, and closes the connection.                          *)
Raise ==
    /\ cpc' = "failed"
    /\ temp' = "none"
    /\ UNCHANGED <<targetVars, agentVars, toA, scheduled, pending, batch, written,
                   count, types, published>>

Unchanged == UNCHANGED <<targetVars, agentVars>>

OpenTemporary ==
    /\ cpc = "open"
    /\ temp' = "open" /\ cpc' = "hello"
    /\ Unchanged /\ UNCHANGED <<toC, toA, scheduled, pending, batch, written, count,
                                types, published>>

(* receive() in state `from' yields a frame of this kind.                  *)
Receives(from, kind) ==
    /\ cpc = from /\ toC # <<>>
    /\ Head(toC).kind = kind
    /\ toC' = Tail(toC)
    /\ Unchanged

(* sendall() to an agent that has closed raises; so only ~AgentGone here.  *)
Orders(order) == ~AgentGone /\ toA' = Append(toA, order)

(* Mutant: empty slots are scheduled too.                                  *)
ScheduleUnfiltered(addrs) ==
    LET new == addrs \ scheduled
    IN  scheduled' = scheduled \cup new /\ pending' = pending \cup new

(* schedule(addresses) of _capture.                                        *)
Schedule(addrs) ==
    LET new == (addrs \ {Null}) \ scheduled
    IN  scheduled' = scheduled \cup new /\ pending' = pending \cup new

ReceiveHello ==
    /\ Receives("hello", "HELLO")
    /\ Orders(Order("HELLO_ACK"))
    /\ cpc' = "wellknown"
    /\ UNCHANGED <<scheduled, pending, batch, fileVars>>

(* write_header, write_threads, begin_objects.                             *)
ReceiveWellKnown ==
    /\ Receives("wellknown", "WELL_KNOWN")
    /\ cpc' = "roots"
    /\ UNCHANGED <<toA, scheduled, pending, batch, fileVars>>

ReceiveRootBatch ==
    /\ Receives("roots", "ROOT_BATCH")
    /\ Schedule(Head(toC).addrs)
    /\ UNCHANGED <<toA, cpc, batch, fileVars>>

ReceiveRootsDone ==
    /\ Receives("roots", "ROOTS_DONE")
    /\ Schedule(WellKnown)
    /\ types' = WellKnown
    /\ cpc' = "loop"
    /\ UNCHANGED <<toA, batch, written, count, temp, published>>

(* Requests of the next addresses: all of pending, or BatchSize of it.     *)
Batches ==
    LET n == IF Cardinality(pending) < BatchSize THEN Cardinality(pending) ELSE BatchSize
    IN  {b \in [1..n -> pending] : \A i, j \in 1..n : b[i] = b[j] => i = j}

RequestObjects ==
    /\ cpc = "loop" /\ pending # {}
    /\ \E b \in Batches :
        /\ batch' = b
        /\ pending' = pending \ {b[i] : i \in DOMAIN b}
        /\ Orders(Request(b))
    /\ cpc' = "objects"
    /\ Unchanged /\ UNCHANGED <<toC, scheduled, fileVars>>

(* _receive_object, write_object, and scheduling what the object names.    *)
ReceiveObject ==
    /\ batch # <<>>
    /\ Receives("objects", "OBJECT")
    /\ LET frame == Head(toC) IN
        /\ frame.obj = Head(batch)
        /\ written' = written \cup
             {[addr |-> frame.obj, refs |-> frame.addrs, type |-> frame.type]}
        /\ types' = types \cup {frame.type}
        /\ Schedule(frame.addrs \cup {frame.type})
    /\ count' = count + 1
    /\ batch' = Tail(batch)
    /\ UNCHANGED <<toA, cpc, temp, published>>

ReceiveBatchDone ==
    /\ batch = <<>>
    /\ Receives("objects", "BATCH_DONE")
    /\ cpc' = "loop"
    /\ UNCHANGED <<toA, scheduled, pending, batch, fileVars>>

Finish ==
    /\ cpc = "loop" /\ pending = {}
    /\ Orders(Order("FINISH"))
    /\ cpc' = "complete"
    /\ Unchanged /\ UNCHANGED <<toC, scheduled, pending, batch, fileVars>>

(* COMPLETE arrives; HeapWriter.finish patches the object count and writes *)
(* the type table and the closing magic.                                   *)
ReceiveComplete ==
    /\ Receives("complete", "COMPLETE")
    /\ temp' = "finished"
    /\ cpc' = "publish"
    /\ UNCHANGED <<toA, scheduled, pending, batch, written, count, types, published>>

(* validate_artifact, os.replace.                                          *)
Publish ==
    /\ cpc = "publish" /\ temp = "finished"
    /\ published' = {[objects |-> written, count |-> count, types |-> types]}
    /\ temp' = "none"
    /\ cpc' = "published"
    /\ Unchanged /\ UNCHANGED <<toC, toA, scheduled, pending, batch, written, count, types>>

Return ==
    /\ cpc = "published"
    /\ cpc' = "delivered"
    /\ Unchanged /\ UNCHANGED <<toC, toA, scheduled, pending, batch, fileVars>>

(* The kind of frame receive() must yield next.                            *)
Expected ==
    CASE cpc = "hello"     -> {"HELLO"}
      [] cpc = "wellknown" -> {"WELL_KNOWN"}
      [] cpc = "roots"     -> {"ROOT_BATCH", "ROOTS_DONE"}
      [] cpc = "objects"   -> IF batch = <<>> THEN {"BATCH_DONE"} ELSE {"OBJECT"}
      [] cpc = "complete"  -> {"COMPLETE"}
      [] OTHER             -> {}

Receiving == cpc \in {"hello", "wellknown", "roots", "objects", "complete"}

(* ERROR, a frame that does not parse, a refused HELLO or another object   *)
(* than the one expected.                                                  *)
ReceiveUnexpected ==
    /\ Receiving /\ toC # <<>>
    /\ \/ Head(toC).kind \notin Expected
       \/ Head(toC).kind = "OBJECT" /\ batch # <<>> /\ Head(toC).obj # Head(batch)
    /\ toC' = Tail(toC)
    /\ Raise

(* recv() ends with EOF, or with the socket timeout.                       *)
ReceiveEnds ==
    /\ Receiving /\ toC = <<>>
    /\ AgentGone \/ "timeout" \in Faults
    /\ toC' = toC
    /\ Raise

(* Mutant: a failed sendall is noticed in the handshake only.              *)
OrderFailsInHandshake ==
    /\ AgentGone
    /\ cpc = "hello" /\ toC # <<>> /\ Head(toC).kind = "HELLO"
    /\ toC' = toC
    /\ Raise

(* sendall() to an agent that is gone.                                     *)
OrderFails ==
    /\ AgentGone
    /\ \/ cpc = "loop"
       \/ cpc = "hello" /\ toC # <<>> /\ Head(toC).kind = "HELLO"
    /\ toC' = toC
    /\ Raise

(* A disk error or KeyboardInterrupt anywhere, after os.replace too.       *)
CollectorRaises ==
    /\ "raise" \in Faults /\ ~CollectorGone
    /\ toC' = toC
    /\ Raise

(* SIGKILL: nothing is cleaned up.                                         *)
CollectorKilled ==
    /\ "kill" \in Faults /\ ~CollectorGone
    /\ cpc' = "killed"
    /\ Unchanged /\ UNCHANGED <<toC, toA, scheduled, pending, batch, fileVars>>

-----------------------------------------------------------------------------

AgentStep ==
    \/ Ensure \/ SendHello \/ SendWellKnown \/ SendRootBatch \/ SendRootsDone
    \/ RootFlushFails \/ ReceiveAck \/ ReceiveRequest \/ SendObject \/ SendBatchDone
    \/ SendComplete \/ SendAborts \/ ReceiveFails \/ AgentAborts \/ SendError
    \/ Restore \/ Close

CollectorStep ==
    \/ OpenTemporary \/ ReceiveHello \/ ReceiveWellKnown \/ ReceiveRootBatch
    \/ ReceiveRootsDone \/ RequestObjects \/ ReceiveObject \/ ReceiveBatchDone
    \/ Finish \/ ReceiveComplete \/ Publish \/ Return
    \/ ReceiveUnexpected \/ ReceiveEnds \/ OrderFails

Next == RunTarget \/ TargetExits \/ AgentStep \/ CollectorStep
        \/ CollectorRaises \/ CollectorKilled

Init ==
    /\ heap \in Heaps /\ gil = "target" /\ gc \in BOOLEAN /\ gcApp = gc
    /\ apc = "connected" /\ gcWas = FALSE /\ rootsLeft = {} /\ todo = <<>> /\ snap = {}
    /\ toC = <<>> /\ toA = <<>>
    /\ cpc = "open" /\ scheduled = {} /\ pending = {} /\ batch = <<>>
    /\ written = {} /\ count = 0 /\ types = {} /\ temp = "none" /\ published = {}

Spec == Init /\ [][Next]_vars

(* The session thread is scheduled by the kernel, takes the GIL within the *)
(* switch interval, and its 30 s socket deadlines do expire.  Nothing is   *)
(* assumed of the Collector.                                               *)
AgentFairSpec == Spec /\ WF_vars(AgentStep)

-----------------------------------------------------------------------------
(* Properties.                                                             *)

AgentKinds == {"HELLO", "BAD_HELLO", "WELL_KNOWN", "ROOT_BATCH", "ROOTS_DONE",
               "BATCH_DONE", "COMPLETE", "ERROR", "TORN"}
AgentFrame ==
    [kind : AgentKinds, addrs : SUBSET Obj, obj : {Null}, type : {Null}]
    \cup [kind : {"OBJECT"}, addrs : SUBSET (Obj \cup {Null}), obj : Obj, type : Obj]
CollectorFrame == [kind : {"HELLO_ACK", "REQUEST_OBJECTS", "FINISH"}, batch : Seq(Obj)]
ObjectRecord == [addr : Obj, refs : SUBSET (Obj \cup {Null}), type : Obj]
Artifact == [objects : SUBSET ObjectRecord, count : Nat, types : SUBSET Obj]

(* Every variable of agent, socket and Collector keeps to its type; in     *)
(* particular no request, batch or pending list ever holds the address 0,  *)
(* which schedule() filters and the agent would dereference.               *)
TypeOK ==
    /\ heap \in Heaps /\ gil \in {"target", "agent"}
    /\ gc \in BOOLEAN /\ gcApp \in BOOLEAN /\ gcWas \in BOOLEAN
    /\ apc \in {"connected", "hello", "ack", "wellknown", "roots", "requests",
                "reply", "finish", "error", "restore", "closing", "done", "dead"}
    /\ rootsLeft \in SUBSET Obj /\ todo \in Seq(Obj) /\ snap \in SUBSET Heaps
    /\ toC \in Seq(AgentFrame) /\ toA \in Seq(CollectorFrame)
    /\ cpc \in {"open", "hello", "wellknown", "roots", "loop", "objects", "complete",
                "publish", "published", "delivered", "failed", "killed"}
    /\ scheduled \in SUBSET Obj /\ pending \in SUBSET Obj /\ batch \in Seq(Obj)
    /\ written \in SUBSET ObjectRecord /\ count \in Nat /\ types \in SUBSET Obj
    /\ temp \in {"none", "open", "finished"}
    /\ published \in SUBSET Artifact

(* A published artifact is the whole snapshot: every object reachable from *)
(* the GC roots and the well-known types of the graph at the moment the    *)
(* agent took the GIL, each once and with that graph's referents, and the  *)
(* count and type table that go with them (_capture, send_roots).          *)
PublishedWhole == \A a \in published : \E h \in snap : a = ArtifactOf(h)

(* The agent only ever dereferences addresses of objects that are alive:   *)
(* while it answers, it holds the GIL, the graph is the one whose roots it *)
(* sent, and what it is asked for is reachable in it (handle_requests).    *)
ReadsLiveObjects ==
    apc = "reply" => /\ gil = "agent" /\ snap = {heap}
                     /\ \A i \in DOMAIN todo : todo[i] \in Reach(heap)

(* Whenever the target's own program can run, automatic GC is as that      *)
(* program left it, whatever happened to the session (session_main).       *)
GCAsApplicationLeftIt == gil = "target" => gc = gcApp

(* A capture that ended by returning or raising leaves no .partial file,   *)
(* and one that returned has published (Collector.capture).                *)
NoPartialFile ==
    /\ cpc \in {"delivered", "failed"} => temp = "none"
    /\ cpc = "delivered" => published # {}

(* Capture implements the abstract snapshot: what was read is the graph    *)
(* when the agent took the GIL, what is published is what os.replace put   *)
(* under the final name (session_main, Collector.capture).                 *)
Abstract == INSTANCE Snapshot WITH heap <- heap, snap <- snap, published <- published
IsSnapshot == Abstract!Spec

(* The target resumes: a session that took the GIL gives it back, however  *)
(* the Collector behaves (stopped, killed, slow), unless the process dies. *)
TargetResumes == gil = "agent" ~> (gil = "target" \/ apc = "dead")

(* Every capture comes to an end if the Collector is scheduled too and its *)
(* socket timeout expires (receive, sendall to an agent that is gone).     *)
CollectorEnds == WF_vars(CollectorStep) => <>CollectorGone

(* The two sides never wait for each other: when the agent waits for an    *)
(* order with nothing under way to it, the Collector has a frame to read,  *)
(* an order to give, or is gone, whatever the batch sizes and the buffer   *)
(* (flush_record_batch before every receive_frame, _capture).              *)
NoStandoff ==
    apc \in {"ack", "requests"} /\ toA = <<>> /\ Receiving => toC # <<>>
=============================================================================
