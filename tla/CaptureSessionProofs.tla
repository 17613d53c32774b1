----------------------- MODULE CaptureSessionProofs -------------------------
(***************************************************************************)
(* Theorems about CaptureSession, for every heap, batch size, socket       *)
(* buffer and choice of failures.                                          *)
(***************************************************************************)
EXTENDS CaptureSession, FiniteSetTheorems, SequenceTheorems, TLAPS

-----------------------------------------------------------------------------
(* The inductive invariant.                                                *)

(* Where the session thread holds the GIL.                                 *)
Holding == apc \in {"hello", "ack", "wellknown", "roots", "requests", "reply",
                    "finish", "error", "restore"}

(* The agent, the target and the snapshot.                                 *)
AgentInv ==
    /\ Holding => gil = "agent" /\ snap = {heap}
    /\ gil = "agent" => Holding \/ apc = "dead"
    /\ apc = "connected" => snap = {} /\ rootsLeft = {}
    /\ gil = "target" => gc = gcApp
    /\ gil = "agent" => gcWas = gcApp /\ gc = FALSE
    /\ \A g, h \in snap : g = h
    /\ snap = {} => /\ toC = <<>> /\ scheduled = {} /\ written = {} /\ published = {}
                    /\ cpc \in {"open", "hello", "failed", "killed"}

(* What a frame on the wire says is true of the snapshot.                  *)
FrameTrue(f) ==
    /\ f.kind = "OBJECT" => \A h \in snap : f = Object(h, f.obj)
    /\ f.kind = "ROOT_BATCH" => \A h \in snap : f.addrs \subseteq h.roots

WireInv ==
    /\ \A i \in 1..Len(toC) : FrameTrue(toC[i])
    /\ \A h \in snap : rootsLeft \subseteq h.roots

(* Only scheduled addresses are asked for.                                 *)
RequestInv ==
    /\ \A i \in 1..Len(todo) : todo[i] \in scheduled
    /\ \A i \in 1..Len(toA) : \A j \in 1..Len(toA[i].batch) : toA[i].batch[j] \in scheduled

(* A scheduled address is pending, expected or written, and only one of    *)
(* these.                                                                  *)
PartitionInv ==
    /\ pending \subseteq scheduled
    /\ \A i \in 1..Len(batch) : /\ batch[i] \in scheduled /\ batch[i] \notin pending
                                /\ \A r \in written : r.addr # batch[i]
    /\ \A i, j \in 1..Len(batch) : batch[i] = batch[j] => i = j
    /\ \A r \in written : r.addr \in scheduled /\ r.addr \notin pending
    /\ \A o \in scheduled : \/ o \in pending
                            \/ \E i \in 1..Len(batch) : batch[i] = o
                            \/ \E r \in written : r.addr = o

(* The records written are those of the snapshot, and what they name is    *)
(* scheduled; nothing unreachable is scheduled.                            *)
RecordInv ==
    /\ \A r \in written : \A h \in snap : r = Record(h, r.addr)
    /\ \A r \in written : (r.refs \cup {r.type}) \ {Null} \subseteq scheduled
    /\ \A h \in snap : scheduled \subseteq Reach(h)
    /\ IsFiniteSet(written) /\ count = Cardinality(written)

(* What the Collector has done by each point.                              *)
PhaseInv ==
    /\ cpc \in {"open", "hello", "wellknown", "roots"} => written = {} /\ batch = <<>>
    /\ cpc \in {"loop", "complete", "publish"} => batch = <<>>
    /\ cpc \in {"complete", "publish"} => pending = {}
    /\ cpc \in {"loop", "objects", "complete", "publish"} =>
          types = WellKnown \cup {r.type : r \in written}
    /\ cpc \notin {"published", "delivered", "failed", "killed"} => published = {}

CollectorInv == WireInv /\ RequestInv /\ PartitionInv /\ RecordInv /\ PhaseInv

(* The roots, on their way from the GC lists to the Collector: every one   *)
(* is still to be visited, on the wire or scheduled, and ROOTS_DONE comes  *)
(* after all of them, unless the Collector cannot get that far.            *)
RootsReliable == ~UnstableVisit \/ "timeout" \notin Faults

InFlight(o, n) == \E i \in 1..n : toC[i].kind = "ROOT_BATCH" /\ o \in toC[i].addrs
Spoilt(n) == CollectorGone \/ \E i \in 1..n : toC[i].kind = "TORN"

VisitInv ==
    apc = "roots" =>
         \/ Spoilt(Len(toC))
         \/ \A h \in snap : \A o \in h.roots :
               o \in scheduled \/ o \in rootsLeft \/ InFlight(o, Len(toC))

DoneInv ==
    \A n \in 1..Len(toC) : toC[n].kind = "ROOTS_DONE" =>
         \/ Spoilt(n - 1)
         \/ \A h \in snap : \A o \in h.roots : o \in scheduled \/ InFlight(o, n - 1)

PastInv ==
    cpc \in {"loop", "objects", "complete", "publish"} =>
         \A h \in snap : h.roots \cup WellKnown \subseteq scheduled

RootInv == VisitInv /\ DoneInv /\ PastInv

-----------------------------------------------------------------------------
(* Types.                                                                  *)

(* A request is a sequence of distinct pending addresses.                  *)
LEMMA BatchType ==
    ASSUME TypeOK, NEW b \in Batches
    PROVE  /\ b \in Seq(Obj)
           /\ \A i \in DOMAIN b : b[i] \in pending
           /\ \A i, j \in DOMAIN b : b[i] = b[j] => i = j
<1>1. IsFiniteSet(pending)
  BY HeapsAssumption, FS_Subset DEF TypeOK
<1>2. Cardinality(pending) \in Nat
  BY <1>1, FS_CardinalityType
<1> DEFINE n == IF Cardinality(pending) < BatchSize THEN Cardinality(pending) ELSE BatchSize
<1>3. n \in Nat
  BY <1>2, SessionAssumption
<1>4. b \in [1..n -> pending] /\ \A i, j \in 1..n : b[i] = b[j] => i = j
  BY DEF Batches
<1>5. b \in [1..n -> Obj]
  BY <1>4 DEF TypeOK
<1> HIDE DEF n
<1>6. b \in Seq(Obj)
  BY <1>3, <1>5, SeqDef
<1> QED BY <1>4, <1>6

(* Frames the agent sends are frames.                                      *)
LEMMA FrameType ==
    /\ \A kind \in AgentKinds : Frame(kind) \in AgentFrame
    /\ \A S \in SUBSET Obj : RootBatch(S) \in AgentFrame
    /\ \A h \in Heaps, o \in Obj : Object(h, o) \in AgentFrame
<1>1. ASSUME NEW h \in Heaps, NEW o \in Obj
      PROVE  h.refs[o] \in SUBSET (Obj \cup {Null}) /\ h.type[o] \in Obj
  BY HeapsAssumption DEF Heap
<1> QED BY <1>1 DEF AgentKinds, AgentFrame, Frame, RootBatch, Object

(* Sending or losing a frame leaves the wire well typed.                   *)
LEMMA SendFailsType == TypeOK /\ SendFails => toC' \in Seq(AgentFrame)
<1> SUFFICES ASSUME TypeOK, SendFails PROVE toC' \in Seq(AgentFrame)
  OBVIOUS
<1>1. Frame("TORN") \in AgentFrame
  BY FrameType DEF AgentKinds
<1>2. toC' = toC \/ toC' = Append(toC, Frame("TORN"))
  BY DEF SendFails
<1>3. toC \in Seq(AgentFrame)
  BY DEF TypeOK
<1>4. Append(toC, Frame("TORN")) \in Seq(AgentFrame)
  BY <1>1, <1>3, AppendProperties
<1> QED BY <1>2, <1>3, <1>4

(* A frame that was sent is one more frame on a well-typed wire.           *)
LEMMA SendsType ==
    ASSUME TypeOK, NEW from, NEW to, NEW f \in AgentFrame, Sends(from, f, to)
    PROVE  toC' \in Seq(AgentFrame)
  BY DEF TypeOK, Sends

(* Receiving a frame does too.                                             *)
LEMMA ReceivesType ==
    ASSUME TypeOK, toC # <<>>
    PROVE  Tail(toC) \in Seq(AgentFrame) /\ Head(toC) \in AgentFrame
  BY DEF TypeOK

(* Taking an order leaves orders, and its batch holds objects.             *)
LEMMA TakesOrderType ==
    ASSUME TypeOK, toA # <<>>
    PROVE  Tail(toA) \in Seq(CollectorFrame) /\ Head(toA).batch \in Seq(Obj)
<1>1. Head(toA) \in CollectorFrame /\ Tail(toA) \in Seq(CollectorFrame)
  BY HeadTailProperties DEF TypeOK
<1> QED BY <1>1 DEF CollectorFrame

(* The initial state is well typed.                                        *)
LEMMA TypeInit == Init => TypeOK
<1> SUFFICES ASSUME Init PROVE TypeOK
  OBVIOUS
<1>1. gc \in BOOLEAN /\ gcApp \in BOOLEAN /\ gcWas \in BOOLEAN
  BY Zenon DEF Init
<1> QED BY <1>1 DEF Init, TypeOK

(* Every step keeps every variable in its type.                            *)
LEMMA TypeStep == TypeOK /\ [Next]_vars => TypeOK'
<1> SUFFICES ASSUME TypeOK, [Next]_vars PROVE TypeOK'
  OBVIOUS
<1> USE HeapsAssumption DEF TypeOK, targetVars, agentVars, collVars, fileVars
<1>1. CASE UNCHANGED vars
  BY <1>1 DEF vars
<1>2. CASE RunTarget
  BY <1>2 DEF RunTarget
<1>3. CASE TargetExits
  BY <1>3 DEF TargetExits
<1>4. CASE Ensure
  BY <1>4 DEF Ensure
<1>5. CASE SendHello
  BY <1>5, FrameType, SendsType DEF SendHello, Sends, AgentKinds
<1>6. CASE SendWellKnown
  <2>1. heap.roots \in SUBSET Obj
    BY DEF Heap
  <2> QED BY <1>6, <2>1, FrameType, SendsType DEF SendWellKnown, Sends, AgentKinds
<1>7. CASE SendRootBatch
  BY <1>7, FrameType, SendsType DEF SendRootBatch, Sends
<1>8. CASE SendRootsDone
  BY <1>8, FrameType, SendsType DEF SendRootsDone, Sends, AgentKinds
<1>9. CASE RootFlushFails
  BY <1>9, SendFailsType DEF RootFlushFails
<1>10. CASE ReceiveAck
  BY <1>10, TakesOrderType DEF ReceiveAck, TakesOrder
<1>11. CASE ReceiveRequest
  BY <1>11, TakesOrderType DEF ReceiveRequest, TakesOrder
<1>12. CASE SendObject
  BY <1>12, FrameType, SendsType DEF SendObject, Sends
<1>13. CASE SendBatchDone
  BY <1>13, FrameType, SendsType DEF SendBatchDone, Sends, AgentKinds
<1>14. CASE SendComplete
  BY <1>14, FrameType, SendsType DEF SendComplete, Sends, AgentKinds
<1>15. CASE SendAborts
  BY <1>15, SendFailsType DEF SendAborts
<1>16. CASE ReceiveFails
  BY <1>16 DEF ReceiveFails
<1>17. CASE AgentAborts
  BY <1>17 DEF AgentAborts
<1>18. CASE SendError
  BY <1>18, FrameType, SendsType, SendFailsType DEF SendError, Sends, AgentKinds
<1>19. CASE Restore
  BY <1>19 DEF Restore
<1>20. CASE Close
  BY <1>20 DEF Close
<1>21. CASE OpenTemporary
  BY <1>21 DEF OpenTemporary, Unchanged
<1>22. CASE ReceiveHello
  BY <1>22, ReceivesType DEF ReceiveHello, Receives, Orders, Order, Unchanged, CollectorFrame
<1>23. CASE ReceiveWellKnown
  BY <1>23, ReceivesType DEF ReceiveWellKnown, Receives, Unchanged
<1>24. CASE ReceiveRootBatch
  BY <1>24, ReceivesType DEF ReceiveRootBatch, Receives, Unchanged, Schedule, AgentFrame
<1>25. CASE ReceiveRootsDone
  BY <1>25, ReceivesType DEF ReceiveRootsDone, Receives, Unchanged, Schedule
<1>26. CASE RequestObjects
  BY <1>26, BatchType DEF RequestObjects, Orders, Request, Unchanged, CollectorFrame
<1>27. CASE ReceiveObject
  BY <1>27, ReceivesType
     DEF ReceiveObject, Receives, Unchanged, Schedule, AgentFrame, ObjectRecord
<1>28. CASE ReceiveBatchDone
  BY <1>28, ReceivesType DEF ReceiveBatchDone, Receives, Unchanged
<1>29. CASE Finish
  BY <1>29 DEF Finish, Orders, Order, Unchanged, CollectorFrame
<1>30. CASE ReceiveComplete
  BY <1>30, ReceivesType DEF ReceiveComplete, Receives, Unchanged
<1>31. CASE Publish
  BY <1>31 DEF Publish, Unchanged, Artifact
<1>32. CASE Return
  BY <1>32 DEF Return, Unchanged
<1>33. CASE ReceiveUnexpected
  BY <1>33, ReceivesType DEF ReceiveUnexpected, Raise
<1>34. CASE ReceiveEnds
  BY <1>34 DEF ReceiveEnds, Raise
<1>35. CASE OrderFails
  BY <1>35 DEF OrderFails, Raise
<1>36. CASE CollectorRaises
  BY <1>36 DEF CollectorRaises, Raise
<1>37. CASE CollectorKilled
  BY <1>37 DEF CollectorKilled, Unchanged
<1> QED
  BY <1>1, <1>2, <1>3, <1>4, <1>5, <1>6, <1>7, <1>8, <1>9, <1>10, <1>11, <1>12,
     <1>13, <1>14, <1>15, <1>16, <1>17, <1>18, <1>19, <1>20, <1>21, <1>22, <1>23,
     <1>24, <1>25, <1>26, <1>27, <1>28, <1>29, <1>30, <1>31, <1>32, <1>33, <1>34,
     <1>35, <1>36, <1>37
     DEF Next, AgentStep, CollectorStep

(* Every reachable state is well typed; in particular schedule() keeps the *)
(* address 0 out of every request, which the agent would dereference.      *)
THEOREM TypeCorrect == Spec => []TypeOK
  BY TypeInit, TypeStep, PTL DEF Spec

-----------------------------------------------------------------------------
(* The agent's side.                                                       *)

(* Initially the agent holds nothing.                                      *)
LEMMA AgentInit == Init => AgentInv
  BY DEF Init, AgentInv, Holding

(* Frames are sent, and scheduling happens, only after the snapshot.       *)
LEMMA AgentStepInv == TypeOK /\ AgentInv /\ [Next]_vars => AgentInv'
<1> SUFFICES ASSUME TypeOK, AgentInv, [Next]_vars PROVE AgentInv'
  OBVIOUS
<1> USE DEF AgentInv, Holding, targetVars, agentVars, collVars, fileVars
<1>1. CASE UNCHANGED vars
  BY <1>1 DEF vars
<1>2. CASE RunTarget
  BY <1>2 DEF RunTarget
<1>3. CASE TargetExits
  BY <1>3 DEF TargetExits
<1>4. CASE Ensure
  BY <1>4 DEF Ensure, TypeOK
<1>5. CASE SendHello
  BY <1>5 DEF SendHello, Sends
<1>6. CASE SendWellKnown
  BY <1>6 DEF SendWellKnown, Sends
<1>7. CASE SendRootBatch
  BY <1>7 DEF SendRootBatch, Sends
<1>8. CASE SendRootsDone
  BY <1>8 DEF SendRootsDone, Sends
<1>9. CASE RootFlushFails
  BY <1>9 DEF RootFlushFails
<1>10. CASE ReceiveAck
  BY <1>10 DEF ReceiveAck, TakesOrder
<1>11. CASE ReceiveRequest
  BY <1>11 DEF ReceiveRequest, TakesOrder
<1>12. CASE SendObject
  BY <1>12 DEF SendObject, Sends
<1>13. CASE SendBatchDone
  BY <1>13 DEF SendBatchDone, Sends
<1>14. CASE SendComplete
  BY <1>14 DEF SendComplete, Sends
<1>15. CASE SendAborts
  BY <1>15 DEF SendAborts
<1>16. CASE ReceiveFails
  BY <1>16 DEF ReceiveFails
<1>17. CASE AgentAborts
  BY <1>17 DEF AgentAborts
<1>18. CASE SendError
  BY <1>18 DEF SendError, Sends
<1>19. CASE Restore
  BY <1>19 DEF Restore, TypeOK
<1>20. CASE Close
  BY <1>20 DEF Close
<1>21. CASE OpenTemporary
  BY <1>21 DEF OpenTemporary, Unchanged
<1>22. CASE ReceiveHello
  BY <1>22 DEF ReceiveHello, Receives, Unchanged
<1>23. CASE ReceiveWellKnown
  BY <1>23 DEF ReceiveWellKnown, Receives, Unchanged
<1>24. CASE ReceiveRootBatch
  BY <1>24 DEF ReceiveRootBatch, Receives, Unchanged
<1>25. CASE ReceiveRootsDone
  BY <1>25 DEF ReceiveRootsDone, Receives, Unchanged
<1>26. CASE RequestObjects
  BY <1>26 DEF RequestObjects, Unchanged
<1>27. CASE ReceiveObject
  BY <1>27 DEF ReceiveObject, Receives, Unchanged
<1>28. CASE ReceiveBatchDone
  BY <1>28 DEF ReceiveBatchDone, Receives, Unchanged
<1>29. CASE Finish
  BY <1>29 DEF Finish, Unchanged
<1>30. CASE ReceiveComplete
  BY <1>30 DEF ReceiveComplete, Receives, Unchanged
<1>31. CASE Publish
  BY <1>31 DEF Publish, Unchanged
<1>32. CASE Return
  BY <1>32 DEF Return, Unchanged
<1>33. CASE ReceiveUnexpected
  BY <1>33 DEF ReceiveUnexpected, Raise
<1>34. CASE ReceiveEnds
  BY <1>34 DEF ReceiveEnds, Raise
<1>35. CASE OrderFails
  BY <1>35 DEF OrderFails, Raise
<1>36. CASE CollectorRaises
  BY <1>36 DEF CollectorRaises, Raise
<1>37. CASE CollectorKilled
  BY <1>37 DEF CollectorKilled, Unchanged
<1> QED
  BY <1>1, <1>2, <1>3, <1>4, <1>5, <1>6, <1>7, <1>8, <1>9, <1>10, <1>11, <1>12,
     <1>13, <1>14, <1>15, <1>16, <1>17, <1>18, <1>19, <1>20, <1>21, <1>22, <1>23,
     <1>24, <1>25, <1>26, <1>27, <1>28, <1>29, <1>30, <1>31, <1>32, <1>33, <1>34,
     <1>35, <1>36, <1>37
     DEF Next, AgentStep, CollectorStep

(* Whatever ends a session, the target's program finds automatic GC as it  *)
(* left it.                                                                *)
THEOREM GCRestored == Spec => []GCAsApplicationLeftIt
<1>1. AgentInv => GCAsApplicationLeftIt
  BY DEF AgentInv, GCAsApplicationLeftIt
<1> QED
  BY <1>1, TypeInit, TypeStep, AgentInit, AgentStepInv, PTL DEF Spec

-----------------------------------------------------------------------------
(* Reachability.                                                           *)

(* Reach holds the roots and is closed under what its members name.        *)
LEMMA ReachClosed ==
    ASSUME NEW h \in Heaps
    PROVE  Closed(h, Reach(h))
<1>1. h.roots \in SUBSET Obj /\ h.type \in [Obj -> Obj]
      /\ h.refs \in [Obj -> SUBSET (Obj \cup {Null})] /\ WellKnown \in SUBSET Obj
  BY HeapsAssumption DEF Heap
<1>2. h.roots \cup WellKnown \subseteq Reach(h)
  BY <1>1 DEF Reach, Closed
<1>3. ASSUME NEW o \in Reach(h), NEW p \in Succ(h, o)
      PROVE  p \in Reach(h)
  <2>1. p \in Obj
    BY <1>1, <1>3 DEF Succ, Reach
  <2>2. ASSUME NEW S \in SUBSET Obj, Closed(h, S)
        PROVE  p \in S
    <3>1. o \in S
      BY <2>2 DEF Reach
    <3> QED BY <3>1, <2>2 DEF Closed
  <2> QED BY <2>1, <2>2 DEF Reach
<1> QED BY <1>2, <1>3 DEF Closed

(* It is contained in every closed set.                                    *)
LEMMA ReachLeast ==
    ASSUME NEW h, NEW S \in SUBSET Obj, Closed(h, S)
    PROVE  Reach(h) \subseteq S
  BY DEF Reach

-----------------------------------------------------------------------------
(* The Collector's side.                                                   *)

(* Initially nothing is scheduled, requested or written.                   *)
LEMMA CollectorInit == Init => CollectorInv
<1> SUFFICES ASSUME Init PROVE CollectorInv
  OBVIOUS
<1> USE DEF Init
<1>1. WireInv /\ RequestInv /\ PartitionInv /\ PhaseInv
  BY DEF WireInv, RequestInv, PartitionInv, PhaseInv
<1>2. RecordInv
  BY FS_EmptySet DEF RecordInv
<1> QED BY <1>1, <1>2 DEF CollectorInv

(* What can happen to the wire while the snapshot stands.                  *)
LEMMA WireAppend ==
    ASSUME TypeOK, WireInv, snap' = snap, \A h \in snap : rootsLeft' \subseteq h.roots,
           NEW f, FrameTrue(f), toC' = Append(toC, f)
    PROVE  WireInv'
  BY DEF TypeOK, WireInv, FrameTrue

(* Taking the first frame off the wire keeps the others true.              *)
LEMMA WireTail ==
    ASSUME TypeOK, WireInv, UNCHANGED <<snap, rootsLeft>>,
           toC # <<>>, toC' = Tail(toC)
    PROVE  WireInv'
  BY DEF TypeOK, WireInv, FrameTrue

(* A step that touches neither wire nor snapshot keeps them true.          *)
LEMMA WireSame ==
    ASSUME TypeOK, WireInv, UNCHANGED <<snap, toC>>,
           \A h \in snap : rootsLeft' \subseteq h.roots
    PROVE  WireInv'
  BY DEF TypeOK, WireInv, FrameTrue

(* A frame that names neither an object nor roots is true of any snapshot. *)
LEMMA PlainFrameTrue ==
    ASSUME NEW kind, kind \notin {"OBJECT", "ROOT_BATCH"}
    PROVE  FrameTrue(Frame(kind))
  BY DEF FrameTrue, Frame

(* An agent's step that schedules and answers nothing new.                 *)
LEMMA AgentKeeps ==
    ASSUME TypeOK, CollectorInv, WireInv', UNCHANGED <<snap, todo, toA, collVars>>
    PROVE  CollectorInv'
<1> USE DEF collVars, fileVars, CollectorInv
<1>1. RequestInv'
  BY DEF RequestInv
<1>2. PartitionInv' /\ PhaseInv'
  BY DEF PartitionInv, PhaseInv
<1>3. RecordInv'
  BY DEF RecordInv
<1> QED BY <1>1, <1>2, <1>3

(* A failed send adds at most a torn frame, which names nothing.           *)
LEMMA WireSendFails ==
    ASSUME TypeOK, WireInv, snap' = snap, SendFails,
           \A h \in snap : rootsLeft' \subseteq h.roots
    PROVE  WireInv'
<1>1. FrameTrue(Frame("TORN"))
  BY PlainFrameTrue
<1>2. toC' = toC \/ toC' = Append(toC, Frame("TORN"))
  BY DEF SendFails
<1>3. CASE toC' = toC
  BY <1>3, WireSame
<1>4. CASE toC' = Append(toC, Frame("TORN"))
  BY <1>1, <1>4, WireAppend
<1> QED BY <1>2, <1>3, <1>4

(* The agent's steps keep the Collector's invariant.                       *)
LEMMA AgentKeepsCollectorInv ==
    ASSUME TypeOK, AgentInv, CollectorInv, RunTarget \/ TargetExits \/ AgentStep
    PROVE  CollectorInv'
<1> USE DEF CollectorInv
<1>0. \A h \in snap : rootsLeft \subseteq h.roots
  BY DEF WireInv
<1>1. CASE RunTarget
  BY <1>0, <1>1, WireSame, AgentKeeps DEF RunTarget, agentVars
<1>2. CASE TargetExits
  BY <1>0, <1>2, WireSame, AgentKeeps DEF TargetExits
<1>3. CASE Ensure
  <2>1. toC = <<>> /\ scheduled = {} /\ written = {} /\ rootsLeft = {}
    BY <1>3 DEF Ensure, AgentInv
  <2>2. UNCHANGED <<rootsLeft, toC, todo, toA, collVars>>
    BY <1>3 DEF Ensure
  <2>3. WireInv'
    BY <2>1, <2>2 DEF WireInv
  <2>4. RequestInv' /\ PartitionInv' /\ PhaseInv'
    BY <2>2 DEF RequestInv, PartitionInv, PhaseInv, collVars, fileVars
  <2>5. RecordInv'
    BY <2>1, <2>2 DEF RecordInv, collVars, fileVars
  <2> QED BY <2>3, <2>4, <2>5
<1>4. CASE SendHello
  <2>1. FrameTrue(Frame("HELLO")) /\ FrameTrue(Frame("BAD_HELLO"))
    BY PlainFrameTrue
  <2>2. WireInv'
    BY <1>0, <1>4, <2>1, WireAppend DEF SendHello, Sends
  <2> QED BY <1>4, <2>2, AgentKeeps DEF SendHello, Sends
<1>5. CASE SendWellKnown
  <2>1. FrameTrue(Frame("WELL_KNOWN"))
    BY PlainFrameTrue
  <2>2. \A h \in snap : rootsLeft' \subseteq h.roots
    BY <1>5 DEF SendWellKnown, Sends, AgentInv, Holding
  <2>3. WireInv'
    BY <1>5, <2>1, <2>2, WireAppend DEF SendWellKnown, Sends
  <2> QED BY <1>5, <2>3, AgentKeeps DEF SendWellKnown, Sends
<1>6. CASE SendRootBatch
  <2>1. PICK S \in SUBSET rootsLeft :
          Sends("roots", RootBatch(S), "roots") /\ rootsLeft' = rootsLeft \ S
    BY <1>6 DEF SendRootBatch
  <2>2. FrameTrue(RootBatch(S))
    BY <1>0 DEF FrameTrue, RootBatch
  <2>3. WireInv'
    BY <1>0, <2>1, <2>2, WireAppend DEF Sends
  <2> QED BY <1>6, <2>1, <2>3, AgentKeeps DEF SendRootBatch, Sends
<1>7. CASE SendRootsDone
  <2>1. FrameTrue(Frame("ROOTS_DONE"))
    BY PlainFrameTrue
  <2>2. WireInv'
    BY <1>0, <1>7, <2>1, WireAppend DEF SendRootsDone, Sends
  <2> QED BY <1>7, <2>2, AgentKeeps DEF SendRootsDone, Sends
<1>8. CASE RootFlushFails
  <2>1. WireInv'
    BY <1>8, WireSendFails DEF RootFlushFails
  <2> QED BY <1>8, <2>1, AgentKeeps DEF RootFlushFails
<1>9. CASE ReceiveAck \/ ReceiveRequest
  <2>1. /\ toA # <<>> /\ todo' = Head(toA).batch /\ toA' = Tail(toA)
        /\ UNCHANGED <<rootsLeft, snap, toC, collVars>>
    BY <1>9 DEF ReceiveAck, ReceiveRequest, TakesOrder
  <2>2. WireInv'
    BY <1>0, <2>1, WireSame
  <2>3. RequestInv'
    <3>1. Len(toA) \in Nat \ {0} /\ Head(toA) = toA[1]
      BY <2>1 DEF TypeOK
    <3>2. \A i \in 1..Len(todo') : todo'[i] \in scheduled
      BY <2>1, <3>1 DEF RequestInv
    <3>3. Len(toA') = Len(toA) - 1 /\ \A i \in 1..Len(toA') : toA'[i] = toA[i + 1]
      BY <2>1 DEF TypeOK
    <3> QED BY <2>1, <3>1, <3>2, <3>3 DEF RequestInv, collVars, fileVars
  <2>4. PartitionInv' /\ PhaseInv'
    BY <2>1 DEF PartitionInv, PhaseInv, collVars, fileVars
  <2>5. RecordInv'
    BY <2>1 DEF RecordInv, collVars, fileVars
  <2> QED BY <2>2, <2>3, <2>4, <2>5
<1>10. CASE SendObject
  <2>1. /\ todo # <<>> /\ toC' = Append(toC, Object(heap, Head(todo)))
        /\ todo' = Tail(todo) /\ UNCHANGED <<rootsLeft, snap, toA, collVars>>
    BY <1>10 DEF SendObject, Sends
  <2>2. snap = {heap}
    BY <1>10 DEF SendObject, Sends, AgentInv, Holding
  <2>3. FrameTrue(Object(heap, Head(todo)))
    BY <2>2 DEF FrameTrue, Object
  <2>4. WireInv'
    BY <1>0, <2>1, <2>3, WireAppend
  <2>5. RequestInv'
    BY <2>1 DEF RequestInv, TypeOK, collVars, fileVars
  <2>6. PartitionInv' /\ PhaseInv'
    BY <2>1 DEF PartitionInv, PhaseInv, collVars, fileVars
  <2>7. RecordInv'
    BY <2>1 DEF RecordInv, collVars, fileVars
  <2> QED BY <2>4, <2>5, <2>6, <2>7
<1>11. CASE SendBatchDone
  <2>1. FrameTrue(Frame("BATCH_DONE"))
    BY PlainFrameTrue
  <2>2. WireInv'
    BY <1>0, <1>11, <2>1, WireAppend DEF SendBatchDone, Sends
  <2> QED BY <1>11, <2>2, AgentKeeps DEF SendBatchDone, Sends
<1>12. CASE SendComplete
  <2>1. FrameTrue(Frame("COMPLETE"))
    BY PlainFrameTrue
  <2>2. WireInv'
    BY <1>0, <1>12, <2>1, WireAppend DEF SendComplete, Sends
  <2> QED BY <1>12, <2>2, AgentKeeps DEF SendComplete, Sends
<1>13. CASE SendAborts
  <2>1. WireInv'
    BY <1>0, <1>13, WireSendFails DEF SendAborts
  <2> QED BY <1>13, <2>1, AgentKeeps DEF SendAborts
<1>14. CASE SendError
  <2>1. FrameTrue(Frame("ERROR"))
    BY PlainFrameTrue
  <2>2. WireInv'
    BY <1>0, <1>14, <2>1, WireAppend, WireSendFails DEF SendError, Sends
  <2> QED BY <1>14, <2>2, AgentKeeps DEF SendError, Sends
<1>15. CASE ReceiveFails \/ AgentAborts \/ Restore \/ Close
  <2>1. UNCHANGED <<rootsLeft, snap, todo, toC, toA, collVars>>
    BY <1>15 DEF ReceiveFails, AgentAborts, Restore, Close
  <2>2. WireInv'
    BY <1>0, <2>1, WireSame
  <2> QED BY <2>1, <2>2, AgentKeeps
<1> QED
  BY <1>1, <1>2, <1>3, <1>4, <1>5, <1>6, <1>7, <1>8, <1>9, <1>10, <1>11, <1>12,
     <1>13, <1>14, <1>15 DEF AgentStep

(* A step of the Collector that schedules, requests and writes nothing.    *)
LEMMA CollectorKeeps ==
    ASSUME TypeOK, CollectorInv, WireInv', PhaseInv',
           \/ toA' = toA
           \/ \E kind : toA' = Append(toA, Order(kind)),
           UNCHANGED <<agentVars, scheduled, pending, batch, written, count>>
    PROVE  CollectorInv'
<1> USE DEF CollectorInv, agentVars
<1>1. RequestInv'
  <2>1. CASE toA' = toA
    BY <2>1 DEF RequestInv
  <2>2. CASE \E kind : toA' = Append(toA, Order(kind))
    <3>1. PICK kind : toA' = Append(toA, Order(kind))
      BY <2>2
    <3>2. /\ Len(toA') = Len(toA) + 1 /\ Len(toA) \in Nat
          /\ \A i \in 1..Len(toA) : toA'[i] = toA[i]
          /\ toA'[Len(toA) + 1] = Order(kind)
      BY <3>1 DEF TypeOK
    <3>3. Len(Order(kind).batch) = 0
      BY DEF Order
    <3> QED BY <3>2, <3>3 DEF RequestInv
  <2> QED BY <2>1, <2>2
<1>2. PartitionInv'
  BY DEF PartitionInv
<1>3. RecordInv'
  BY DEF RecordInv
<1> QED BY <1>1, <1>2, <1>3

(* Roots and well-known types are scheduled.                               *)
LEMMA ScheduleKeeps ==
    ASSUME TypeOK, CollectorInv, WireInv', PhaseInv', NEW A,
           \A h \in snap : A \subseteq Reach(h),
           Schedule(A),
           UNCHANGED <<agentVars, toA, batch, written, count>>
    PROVE  CollectorInv'
<1> USE DEF CollectorInv, agentVars, Schedule
<1>1. RequestInv'
  BY DEF RequestInv
<1>2. PartitionInv'
  BY DEF PartitionInv
<1>3. RecordInv'
  BY DEF RecordInv
<1> QED BY <1>1, <1>2, <1>3

(* _receive_object, write_object and the scheduling of what it names.      *)
LEMMA ReceiveObjectKeeps ==
    ASSUME TypeOK, AgentInv, CollectorInv, ReceiveObject
    PROVE  CollectorInv'
<1> USE DEF CollectorInv
<1> DEFINE frame == Head(toC)
           rec == [addr |-> frame.obj, refs |-> frame.addrs, type |-> frame.type]
           new == ((frame.addrs \cup {frame.type}) \ {Null}) \ scheduled
<1>1. /\ batch # <<>> /\ cpc = "objects" /\ toC # <<>> /\ frame.kind = "OBJECT"
      /\ toC' = Tail(toC) /\ UNCHANGED <<agentVars, toA, cpc, published>>
      /\ frame.obj = Head(batch) /\ written' = written \cup {rec}
      /\ types' = types \cup {frame.type}
      /\ scheduled' = scheduled \cup new /\ pending' = pending \cup new
      /\ count' = count + 1 /\ batch' = Tail(batch)
  BY DEF ReceiveObject, Receives, Unchanged, Schedule
<1>2. frame \in AgentFrame /\ frame = toC[1] /\ 1 \in 1..Len(toC)
  BY <1>1 DEF TypeOK
<1>3. FrameTrue(frame)
  BY <1>2 DEF WireInv
<1>4. /\ Len(batch) \in Nat \ {0} /\ Len(batch') = Len(batch) - 1
      /\ Head(batch) = batch[1] /\ \A i \in 1..Len(batch') : batch'[i] = batch[i + 1]
  BY <1>1 DEF TypeOK
<1>5. rec.addr = batch[1] /\ rec.addr \in scheduled
  BY <1>1, <1>4 DEF PartitionInv
<1>6. \A h \in snap : frame = Object(h, frame.obj)
  BY <1>1, <1>3 DEF FrameTrue
<1>7. \A h \in snap : rec = Record(h, rec.addr) /\ frame.addrs = h.refs[rec.addr]
                        /\ frame.type = h.type[rec.addr]
  BY <1>6 DEF Object, Record
<1> HIDE DEF rec, frame
<1>8. WireInv'
  BY <1>1, WireTail DEF agentVars
<1>9. RequestInv'
  BY <1>1 DEF RequestInv, agentVars
<1>10. PartitionInv'
  <2>1. pending' \subseteq scheduled'
    BY <1>1 DEF PartitionInv
  <2>2. ASSUME NEW i \in 1..Len(batch')
        PROVE  /\ batch'[i] \in scheduled' /\ batch'[i] \notin pending'
               /\ \A r \in written' : r.addr # batch'[i]
    <3>1. i + 1 \in 1..Len(batch) /\ batch'[i] = batch[i + 1] /\ 1 \in 1..Len(batch)
      BY <1>4
    <3>2. batch[i + 1] # batch[1]
      BY <1>4, <3>1 DEF PartitionInv
    <3> QED BY <1>1, <1>5, <3>1, <3>2 DEF PartitionInv
  <2>3. \A i, j \in 1..Len(batch') : batch'[i] = batch'[j] => i = j
    BY <1>4 DEF PartitionInv
  <2>4. batch[1] \notin pending
    BY <1>4 DEF PartitionInv
  <2>5. \A r \in written' : r.addr \in scheduled' /\ r.addr \notin pending'
    BY <1>1, <1>5, <2>4 DEF PartitionInv
  <2>6. ASSUME NEW o \in scheduled'
        PROVE  \/ o \in pending'
               \/ \E i \in 1..Len(batch') : batch'[i] = o
               \/ \E r \in written' : r.addr = o
    <3>1. CASE o \in new \/ o \in pending
      BY <1>1, <3>1
    <3>2. CASE \E r \in written : r.addr = o
      BY <1>1, <3>2
    <3>3. CASE \E i \in 1..Len(batch) : batch[i] = o
      <4>1. PICK i \in 1..Len(batch) : batch[i] = o
        BY <3>3
      <4>2. CASE i = 1
        BY <1>1, <1>5, <4>1, <4>2
      <4>3. CASE i # 1
        <5>1. i - 1 \in 1..Len(batch') /\ batch'[i - 1] = o
          BY <1>4, <4>1, <4>3
        <5> QED BY <5>1
      <4> QED BY <4>2, <4>3
    <3> QED BY <1>1, <3>1, <3>2, <3>3 DEF PartitionInv
  <2> QED BY <2>1, <2>2, <2>3, <2>5, <2>6 DEF PartitionInv
<1>11. RecordInv'
  <2>1. snap' = snap
    BY <1>1 DEF agentVars
  <2>2. \A r \in written' : \A h \in snap' : r = Record(h, r.addr)
    BY <1>1, <1>7, <2>1 DEF RecordInv
  <2>3. rec.refs = frame.addrs /\ rec.type = frame.type
    BY DEF rec
  <2>4. \A r \in written' : (r.refs \cup {r.type}) \ {Null} \subseteq scheduled'
    BY <1>1, <2>3 DEF RecordInv
  <2>5. ASSUME NEW h \in snap'
        PROVE  scheduled' \subseteq Reach(h)
    <3>1. h \in Heaps /\ rec.addr \in Reach(h) /\ scheduled \subseteq Reach(h)
      BY <1>5, <2>1, <2>5 DEF RecordInv, TypeOK
    <3>2. Succ(h, rec.addr) \subseteq Reach(h)
      BY <3>1, ReachClosed DEF Closed
    <3>3. new \subseteq Succ(h, rec.addr)
      BY <1>7, <2>1, <2>5 DEF Succ
    <3> QED BY <1>1, <3>1, <3>2, <3>3
  <2>6. rec \notin written
    BY <1>4, <1>5 DEF PartitionInv
  <2>7. IsFiniteSet(written') /\ count' = Cardinality(written')
    BY <1>1, <2>6, FS_AddElement DEF RecordInv
  <2> QED BY <2>2, <2>4, <2>5, <2>7 DEF RecordInv
<1>12. PhaseInv'
  <2>1. rec.type = frame.type
    BY DEF rec
  <2> QED BY <1>1, <2>1 DEF PhaseInv
<1> QED BY <1>8, <1>9, <1>10, <1>11, <1>12

(* The Collector's steps keep its invariant.                               *)
LEMMA CollectorKeepsCollectorInv ==
    ASSUME TypeOK, AgentInv, CollectorInv,
           CollectorStep \/ CollectorRaises \/ CollectorKilled
    PROVE  CollectorInv'
<1> USE DEF CollectorInv
<1>0. \A h \in snap : rootsLeft \subseteq h.roots
  BY DEF WireInv
<1>1. CASE OpenTemporary
  <2>1. WireInv'
    BY <1>0, <1>1, WireSame DEF OpenTemporary, Unchanged, agentVars
  <2>2. PhaseInv'
    BY <1>1 DEF OpenTemporary, PhaseInv
  <2> QED BY <1>1, <2>1, <2>2, CollectorKeeps DEF OpenTemporary, Unchanged
<1>2. CASE ReceiveHello
  <2>1. WireInv'
    BY <1>2, WireTail DEF ReceiveHello, Receives, Unchanged, agentVars
  <2>2. PhaseInv'
    BY <1>2 DEF ReceiveHello, Receives, PhaseInv, fileVars
  <2> QED BY <1>2, <2>1, <2>2, CollectorKeeps
          DEF ReceiveHello, Receives, Unchanged, Orders, fileVars
<1>3. CASE ReceiveWellKnown
  <2>1. WireInv'
    BY <1>3, WireTail DEF ReceiveWellKnown, Receives, Unchanged, agentVars
  <2>2. PhaseInv'
    BY <1>3 DEF ReceiveWellKnown, Receives, PhaseInv, fileVars
  <2> QED BY <1>3, <2>1, <2>2, CollectorKeeps
          DEF ReceiveWellKnown, Receives, Unchanged, fileVars
<1>4. CASE ReceiveRootBatch
  <2>1. WireInv'
    BY <1>4, WireTail DEF ReceiveRootBatch, Receives, Unchanged, agentVars
  <2>2. PhaseInv'
    BY <1>4 DEF ReceiveRootBatch, Receives, PhaseInv, fileVars
  <2>3. FrameTrue(Head(toC)) /\ Head(toC).kind = "ROOT_BATCH"
    <3>1. toC # <<>> /\ Head(toC).kind = "ROOT_BATCH"
      BY <1>4 DEF ReceiveRootBatch, Receives
    <3>2. 1 \in 1..Len(toC) /\ Head(toC) = toC[1]
      BY <3>1 DEF TypeOK
    <3> QED BY <3>1, <3>2 DEF WireInv
  <2>4. ASSUME NEW h \in snap
        PROVE  Head(toC).addrs \subseteq Reach(h)
    BY <2>3, ReachClosed DEF FrameTrue, Closed, TypeOK
  <2> QED BY <1>4, <2>1, <2>2, <2>4, ScheduleKeeps
          DEF ReceiveRootBatch, Receives, Unchanged, fileVars
<1>5. CASE ReceiveRootsDone
  <2>1. WireInv'
    BY <1>5, WireTail DEF ReceiveRootsDone, Receives, Unchanged, agentVars
  <2>2. PhaseInv'
    BY <1>5 DEF ReceiveRootsDone, Receives, PhaseInv
  <2>3. ASSUME NEW h \in snap
        PROVE  WellKnown \subseteq Reach(h)
    BY ReachClosed DEF Closed, TypeOK
  <2> QED BY <1>5, <2>1, <2>2, <2>3, ScheduleKeeps
          DEF ReceiveRootsDone, Receives, Unchanged
<1>6. CASE RequestObjects
  <2>1. PICK b \in Batches : /\ batch' = b
                             /\ pending' = pending \ {b[i] : i \in DOMAIN b}
                             /\ toA' = Append(toA, Request(b))
    BY <1>6 DEF RequestObjects, Orders
  <2>2. /\ cpc = "loop" /\ cpc' = "objects"
        /\ UNCHANGED <<agentVars, toC, scheduled, fileVars>>
    BY <1>6 DEF RequestObjects, Unchanged
  <2>3. /\ b \in Seq(Obj) /\ DOMAIN b = 1..Len(b)
        /\ \A i \in 1..Len(b) : b[i] \in pending
        /\ \A i, j \in 1..Len(b) : b[i] = b[j] => i = j
    BY BatchType
  <2>4. WireInv'
    BY <1>0, <2>2, WireSame DEF agentVars
  <2>5. RequestInv'
    <3>1. /\ Len(toA') = Len(toA) + 1 /\ Len(toA) \in Nat
          /\ \A i \in 1..Len(toA) : toA'[i] = toA[i]
          /\ toA'[Len(toA) + 1] = Request(b)
      BY <2>1 DEF TypeOK
    <3>2. Request(b).batch = b
      BY DEF Request
    <3>3. \A i \in 1..Len(b) : b[i] \in scheduled'
      BY <2>2, <2>3 DEF PartitionInv
    <3>4. ASSUME NEW i \in 1..Len(toA'), NEW j \in 1..Len(toA'[i].batch)
          PROVE  toA'[i].batch[j] \in scheduled'
      <4>1. CASE i = Len(toA) + 1
        BY <3>1, <3>2, <3>3, <3>4, <4>1
      <4>2. CASE i # Len(toA) + 1
        <5>1. i \in 1..Len(toA) /\ toA'[i] = toA[i]
          BY <3>1, <4>2
        <5> QED BY <2>2, <3>4, <5>1 DEF RequestInv
      <4> QED BY <4>1, <4>2
    <3>5. \A i \in 1..Len(todo') : todo'[i] \in scheduled'
      BY <2>2 DEF RequestInv, agentVars
    <3> QED BY <3>4, <3>5 DEF RequestInv
  <2>6. PartitionInv'
    <3>1. batch = <<>>
      BY <2>2 DEF PhaseInv
    <3> QED BY <2>1, <2>2, <2>3, <3>1 DEF PartitionInv, fileVars
  <2>7. RecordInv'
    BY <2>2 DEF RecordInv, agentVars, fileVars
  <2>8. PhaseInv'
    BY <2>2 DEF PhaseInv, fileVars
  <2> QED BY <2>4, <2>5, <2>6, <2>7, <2>8
<1>7. CASE ReceiveObject
  BY <1>7, ReceiveObjectKeeps
<1>8. CASE ReceiveBatchDone
  <2>1. WireInv'
    BY <1>8, WireTail DEF ReceiveBatchDone, Receives, Unchanged, agentVars
  <2>2. PhaseInv'
    BY <1>8 DEF ReceiveBatchDone, Receives, PhaseInv, fileVars
  <2> QED BY <1>8, <2>1, <2>2, CollectorKeeps
          DEF ReceiveBatchDone, Receives, Unchanged, fileVars
<1>9. CASE Finish
  <2>1. WireInv'
    BY <1>0, <1>9, WireSame DEF Finish, Unchanged, agentVars
  <2>2. PhaseInv'
    BY <1>9 DEF Finish, PhaseInv, fileVars
  <2> QED BY <1>9, <2>1, <2>2, CollectorKeeps DEF Finish, Unchanged, Orders, fileVars
<1>10. CASE ReceiveComplete
  <2>1. WireInv'
    BY <1>10, WireTail DEF ReceiveComplete, Receives, Unchanged, agentVars
  <2>2. PhaseInv'
    BY <1>10 DEF ReceiveComplete, Receives, PhaseInv
  <2> QED BY <1>10, <2>1, <2>2, CollectorKeeps DEF ReceiveComplete, Receives, Unchanged
<1>11. CASE Publish \/ Return
  <2>1. UNCHANGED <<agentVars, toC, toA, scheduled, pending, batch, written, count>>
    BY <1>11 DEF Publish, Return, Unchanged, fileVars
  <2>2. WireInv'
    BY <1>0, <2>1, WireSame DEF agentVars
  <2>3. PhaseInv'
    BY <1>11 DEF Publish, Return, PhaseInv
  <2> QED BY <2>1, <2>2, <2>3, CollectorKeeps
<1>12. CASE ReceiveUnexpected
  <2>1. WireInv'
    BY <1>12, WireTail DEF ReceiveUnexpected, Raise, agentVars
  <2>2. PhaseInv'
    BY <1>12 DEF ReceiveUnexpected, Raise, PhaseInv
  <2> QED BY <1>12, <2>1, <2>2, CollectorKeeps DEF ReceiveUnexpected, Raise
<1>13. CASE ReceiveEnds \/ OrderFails \/ CollectorRaises \/ CollectorKilled
  <2>1. /\ UNCHANGED <<agentVars, toC, toA, scheduled, pending, batch, written, count>>
        /\ cpc' \in {"failed", "killed"}
    BY <1>13 DEF ReceiveEnds, OrderFails, CollectorRaises, CollectorKilled, Raise,
                 Unchanged, fileVars
  <2>2. WireInv'
    BY <1>0, <2>1, WireSame DEF agentVars
  <2>3. PhaseInv'
    BY <2>1 DEF PhaseInv
  <2> QED BY <2>1, <2>2, <2>3, CollectorKeeps
<1> QED
  BY <1>1, <1>2, <1>3, <1>4, <1>5, <1>6, <1>7, <1>8, <1>9, <1>10, <1>11, <1>12, <1>13
     DEF CollectorStep

(* Every step keeps the Collector's invariant.                             *)
LEMMA CollectorInvStep == TypeOK /\ AgentInv /\ CollectorInv /\ [Next]_vars => CollectorInv'
<1> SUFFICES ASSUME TypeOK, AgentInv, CollectorInv, [Next]_vars PROVE CollectorInv'
  OBVIOUS
<1>1. CASE UNCHANGED vars
  <2>1. UNCHANGED <<snap, rootsLeft, todo, toC, toA, collVars>>
    BY <1>1 DEF vars, agentVars
  <2>2. WireInv'
    BY <2>1, WireSame DEF CollectorInv, WireInv
  <2> QED BY <2>1, <2>2, AgentKeeps
<1> QED
  BY <1>1, AgentKeepsCollectorInv, CollectorKeepsCollectorInv DEF Next

(* The agent dereferences only objects that are alive: while it answers it *)
(* holds the GIL, the graph is the snapshot, and every requested address   *)
(* is reachable in it.                                                     *)
THEOREM ReadsAreSafe == Spec => []ReadsLiveObjects
<1>1. TypeOK /\ AgentInv /\ CollectorInv => ReadsLiveObjects
  <2> SUFFICES ASSUME TypeOK, AgentInv, CollectorInv, apc = "reply"
               PROVE  /\ gil = "agent" /\ snap = {heap}
                      /\ \A i \in DOMAIN todo : todo[i] \in Reach(heap)
    BY DEF ReadsLiveObjects
  <2>1. gil = "agent" /\ snap = {heap}
    BY DEF AgentInv, Holding
  <2>2. DOMAIN todo = 1..Len(todo)
    BY DEF TypeOK
  <2> QED BY <2>1, <2>2 DEF CollectorInv, RequestInv, RecordInv
<1> QED
  BY <1>1, TypeInit, TypeStep, AgentInit, AgentStepInv, CollectorInit,
     CollectorInvStep, PTL DEF Spec

-----------------------------------------------------------------------------
(* The roots.                                                              *)

(* Initially no root was visited.                                          *)
LEMMA RootInit == Init => RootInv
  BY DEF Init, RootInv, VisitInv, DoneInv, PastInv

(* A frame is appended that does not announce the end of the roots.        *)
LEMMA DoneAppend ==
    ASSUME TypeOK, DoneInv, UNCHANGED <<snap, scheduled, cpc>>,
           NEW f, f.kind # "ROOTS_DONE", toC' = Append(toC, f)
    PROVE  DoneInv'
<1>1. /\ Len(toC') = Len(toC) + 1 /\ Len(toC) \in Nat /\ toC'[Len(toC) + 1] = f
      /\ \A i \in 1..Len(toC) : toC'[i] = toC[i]
  BY DEF TypeOK
<1>2. SUFFICES ASSUME NEW n \in 1..Len(toC'), toC'[n].kind = "ROOTS_DONE"
               PROVE  \/ Spoilt(n - 1)'
                      \/ \A h \in snap : \A o \in h.roots : o \in scheduled \/ InFlight(o, n - 1)'
  BY DEF DoneInv
<1>3. n \in 1..Len(toC) /\ toC[n].kind = "ROOTS_DONE"
  BY <1>1, <1>2
<1>4. \A i \in 1..(n - 1) : toC'[i] = toC[i]
  BY <1>1, <1>3
<1>5. Spoilt(n - 1) => Spoilt(n - 1)'
  BY <1>4 DEF Spoilt, CollectorGone
<1>6. \A o : InFlight(o, n - 1) => InFlight(o, n - 1)'
  BY <1>4 DEF InFlight
<1> QED BY <1>3, <1>5, <1>6 DEF DoneInv

(* Nothing happens to the wire.                                            *)
LEMMA DoneSame ==
    ASSUME TypeOK, DoneInv, UNCHANGED <<snap, toC>>, scheduled \subseteq scheduled',
           CollectorGone => CollectorGone'
    PROVE  DoneInv'
  BY DEF DoneInv, Spoilt, InFlight

(* A send fails: nothing arrives, or a torn frame.                         *)
LEMMA DoneSendFails ==
    ASSUME TypeOK, DoneInv, UNCHANGED <<snap, scheduled, cpc>>, SendFails
    PROVE  DoneInv'
<1>1. toC' = toC \/ toC' = Append(toC, Frame("TORN"))
  BY DEF SendFails
<1>2. CASE toC' = toC
  BY <1>2, DoneSame DEF CollectorGone
<1>3. CASE toC' = Append(toC, Frame("TORN"))
  <2>1. Frame("TORN").kind # "ROOTS_DONE"
    BY DEF Frame
  <2> QED BY <1>3, <2>1, DoneAppend
<1> QED BY <1>1, <1>2, <1>3

(* The Collector takes the first frame; if it holds roots, schedules them. *)
LEMMA RootsTail ==
    ASSUME TypeOK, VisitInv, DoneInv, toC # <<>>, toC' = Tail(toC), ~CollectorGone,
           UNCHANGED <<apc, rootsLeft, snap>>, scheduled \subseteq scheduled',
           Head(toC).kind # "TORN",
           Head(toC).kind = "ROOT_BATCH" => Head(toC).addrs \subseteq scheduled'
    PROVE  VisitInv' /\ DoneInv'
<1>1. /\ Len(toC') = Len(toC) - 1 /\ Len(toC) \in Nat \ {0} /\ Head(toC) = toC[1]
      /\ \A i \in 1..Len(toC') : toC'[i] = toC[i + 1]
  BY DEF TypeOK
<1>2. ASSUME NEW n \in 1..Len(toC), Spoilt(n)
      PROVE  Spoilt(n - 1)'
  <2>1. PICK i \in 1..n : toC[i].kind = "TORN"
    BY <1>2 DEF Spoilt
  <2>2. i - 1 \in 1..(n - 1) /\ toC'[i - 1].kind = "TORN"
    BY <1>1, <2>1
  <2> QED BY <2>2 DEF Spoilt
<1>3. ASSUME NEW n \in 1..Len(toC), NEW o, InFlight(o, n)
      PROVE  o \in scheduled' \/ InFlight(o, n - 1)'
  <2>1. PICK i \in 1..n : toC[i].kind = "ROOT_BATCH" /\ o \in toC[i].addrs
    BY <1>3 DEF InFlight
  <2>2. CASE i = 1
    BY <1>1, <2>1, <2>2
  <2>3. CASE i # 1
    <3>1. i - 1 \in 1..(n - 1) /\ toC'[i - 1] = toC[i]
      BY <1>1, <2>1, <2>3
    <3> QED BY <2>1, <3>1 DEF InFlight
  <2> QED BY <2>2, <2>3
<1>4. VisitInv'
  <2>1. PICK m \in 1..Len(toC) : m = Len(toC)
    BY <1>1
  <2> SUFFICES ASSUME apc = "roots"
               PROVE  \/ Spoilt(m - 1)'
                      \/ \A h \in snap : \A o \in h.roots :
                            o \in scheduled' \/ o \in rootsLeft \/ InFlight(o, m - 1)'
    BY <1>1, <2>1 DEF VisitInv, Spoilt, InFlight
  <2>2. \/ Spoilt(m)
        \/ \A h \in snap : \A o \in h.roots :
              o \in scheduled \/ o \in rootsLeft \/ InFlight(o, m)
    BY <2>1 DEF VisitInv
  <2> QED BY <1>2, <1>3, <2>2
<1>5. DoneInv'
  <2> SUFFICES ASSUME NEW n \in 1..Len(toC'), toC'[n].kind = "ROOTS_DONE"
               PROVE  \/ Spoilt(n - 1)'
                      \/ \A h \in snap : \A o \in h.roots : o \in scheduled' \/ InFlight(o, n - 1)'
    BY DEF DoneInv
  <2>1. n \in 1..Len(toC) /\ n + 1 \in 1..Len(toC) /\ toC[n + 1].kind = "ROOTS_DONE"
        /\ (n + 1) - 1 = n
    BY <1>1
  <2>2. Spoilt(n) \/ \A h \in snap : \A o \in h.roots : o \in scheduled \/ InFlight(o, n)
    BY <2>1 DEF DoneInv
  <2> QED BY <1>2, <1>3, <2>1, <2>2
<1> QED BY <1>4, <1>5

(* The agent's steps keep the roots accounted for; only here does it       *)
(* matter how a failed flush ends.                                         *)
LEMMA AgentKeepsRootInv ==
    ASSUME TypeOK, AgentInv, RootInv, RootsReliable, RunTarget \/ TargetExits \/ AgentStep
    PROVE  RootInv'
<1> USE DEF RootInv
<1>0. ASSUME UNCHANGED <<snap, collVars>> PROVE PastInv'
  BY <1>0 DEF PastInv, collVars
<1>1. CASE RunTarget \/ TargetExits \/ ReceiveAck \/ ReceiveRequest \/ ReceiveFails
           \/ AgentAborts \/ Restore \/ Close
  <2>1. UNCHANGED <<snap, rootsLeft, toC, collVars>> /\ (apc' = "roots" => apc = "roots")
    BY <1>1 DEF RunTarget, TargetExits, ReceiveAck, ReceiveRequest, TakesOrder,
                ReceiveFails, AgentAborts, Restore, Close, agentVars
  <2>2. VisitInv'
    BY <2>1 DEF VisitInv, Spoilt, InFlight, CollectorGone, collVars
  <2>3. DoneInv'
    BY <2>1, DoneSame DEF CollectorGone, collVars
  <2> QED BY <1>0, <2>1, <2>2, <2>3
<1>2. CASE Ensure
  <2>1. toC' = <<>> /\ apc' = "hello"
        /\ cpc' \notin {"loop", "objects", "complete", "publish"}
    BY <1>2 DEF Ensure, AgentInv, collVars
  <2> QED BY <2>1 DEF VisitInv, DoneInv, PastInv
<1>3. CASE SendHello \/ SendObject \/ SendBatchDone \/ SendComplete
  <2>1. PICK f : /\ f.kind # "ROOTS_DONE" /\ toC' = Append(toC, f)
                 /\ apc' # "roots" /\ UNCHANGED <<snap, collVars>>
    <3>1. Frame("HELLO").kind # "ROOTS_DONE" /\ Frame("BAD_HELLO").kind # "ROOTS_DONE"
          /\ Frame("BATCH_DONE").kind # "ROOTS_DONE"
          /\ Frame("COMPLETE").kind # "ROOTS_DONE"
          /\ Object(heap, Head(todo)).kind # "ROOTS_DONE"
      BY DEF Frame, Object
    <3> QED BY <1>3, <3>1 DEF SendHello, SendObject, SendBatchDone, SendComplete, Sends
  <2>2. DoneInv'
    BY <2>1, DoneAppend DEF collVars
  <2> QED BY <1>0, <2>1, <2>2 DEF VisitInv
<1>4. CASE SendWellKnown
  <2>1. /\ toC' = Append(toC, Frame("WELL_KNOWN")) /\ rootsLeft' = heap.roots
        /\ snap = {heap} /\ UNCHANGED <<snap, collVars>>
    BY <1>4 DEF SendWellKnown, Sends, AgentInv, Holding
  <2>2. Frame("WELL_KNOWN").kind # "ROOTS_DONE"
    BY DEF Frame
  <2>3. DoneInv'
    BY <2>1, <2>2, DoneAppend DEF collVars
  <2>4. VisitInv'
    BY <2>1 DEF VisitInv
  <2> QED BY <1>0, <2>1, <2>3, <2>4
<1>5. CASE SendRootBatch
  <2>1. PICK S \in SUBSET rootsLeft :
          Sends("roots", RootBatch(S), "roots") /\ rootsLeft' = rootsLeft \ S
    BY <1>5 DEF SendRootBatch
  <2>2. /\ toC' = Append(toC, RootBatch(S)) /\ apc = "roots"
        /\ UNCHANGED <<snap, collVars>>
    BY <2>1 DEF Sends
  <2>3. RootBatch(S).kind = "ROOT_BATCH" /\ RootBatch(S).addrs = S
    BY DEF RootBatch
  <2>4. DoneInv'
    BY <2>2, <2>3, DoneAppend DEF collVars
  <2>5. /\ Len(toC') = Len(toC) + 1 /\ Len(toC) \in Nat
        /\ toC'[Len(toC) + 1] = RootBatch(S)
        /\ \A i \in 1..Len(toC) : toC'[i] = toC[i]
    BY <2>2 DEF TypeOK
  <2>6. Spoilt(Len(toC)) => Spoilt(Len(toC))'
    BY <2>2, <2>5 DEF Spoilt, CollectorGone, collVars
  <2>7. ASSUME NEW o, InFlight(o, Len(toC)) \/ o \in S PROVE InFlight(o, Len(toC))'
    BY <2>3, <2>5, <2>7 DEF InFlight
  <2>8. \A o \in rootsLeft : o \in rootsLeft' \/ o \in S
    BY <2>1
  <2>9. VisitInv'
    <3>1. CASE Spoilt(Len(toC))
      BY <2>6, <3>1 DEF VisitInv
    <3>2. CASE \A h \in snap : \A o \in h.roots :
                 o \in scheduled \/ o \in rootsLeft \/ InFlight(o, Len(toC))
      <4>1. snap' = snap /\ scheduled' = scheduled
        BY <2>2 DEF collVars
      <4>2. ASSUME NEW h \in snap', NEW o \in h.roots
            PROVE  o \in scheduled' \/ o \in rootsLeft' \/ InFlight(o, Len(toC))'
        BY <2>7, <2>8, <3>2, <4>1, <4>2
      <4> QED BY <4>2 DEF VisitInv
    <3> QED BY <2>2, <3>1, <3>2 DEF VisitInv
  <2> QED BY <1>0, <2>2, <2>4, <2>9
<1>6. CASE SendRootsDone
  <2>1. /\ toC' = Append(toC, Frame("ROOTS_DONE")) /\ apc = "roots" /\ apc' = "requests"
        /\ rootsLeft = {} /\ UNCHANGED <<snap, collVars>>
    BY <1>6 DEF SendRootsDone, Sends
  <2>2. /\ Len(toC') = Len(toC) + 1 /\ Len(toC) \in Nat
        /\ \A i \in 1..Len(toC) : toC'[i] = toC[i]
    BY <2>1 DEF TypeOK
  <2>3. ASSUME NEW n \in 1..Len(toC'), toC'[n].kind = "ROOTS_DONE"
        PROVE  \/ Spoilt(n - 1)'
               \/ \A h \in snap' : \A o \in h.roots : o \in scheduled' \/ InFlight(o, n - 1)'
    <3>1. \A i \in 1..(n - 1) : toC'[i] = toC[i]
      BY <2>2
    <3>2. Spoilt(n - 1) => Spoilt(n - 1)'
      BY <2>1, <3>1 DEF Spoilt, CollectorGone, collVars
    <3>3. \A o : InFlight(o, n - 1) => InFlight(o, n - 1)'
      BY <3>1 DEF InFlight
    <3>4. snap' = snap /\ scheduled' = scheduled
      BY <2>1 DEF collVars
    <3>5. \/ Spoilt(n - 1)
          \/ \A h \in snap : \A o \in h.roots : o \in scheduled \/ InFlight(o, n - 1)
      <4>1. CASE n = Len(toC) + 1
        <5>1. n - 1 = Len(toC)
          BY <2>2, <4>1
        <5> QED BY <2>1, <5>1 DEF VisitInv
      <4>2. CASE n # Len(toC) + 1
        <5>1. n \in 1..Len(toC) /\ toC[n].kind = "ROOTS_DONE"
          BY <2>2, <2>3, <4>2
        <5> QED BY <5>1 DEF DoneInv
      <4> QED BY <4>1, <4>2
    <3> QED BY <3>2, <3>3, <3>4, <3>5
  <2>4. DoneInv'
    BY <2>3 DEF DoneInv
  <2> QED BY <1>0, <2>1, <2>4 DEF VisitInv
<1>7. CASE RootFlushFails
  <2>1. DoneInv'
    BY <1>7, DoneSendFails DEF RootFlushFails, collVars
  <2>2. VisitInv'
    <3> SUFFICES ASSUME apc' = "roots" PROVE Spoilt(Len(toC))'
      BY DEF VisitInv
    <3>1. UnstableVisit /\ "timeout" \notin Faults
      BY <1>7 DEF RootFlushFails, RootsReliable
    <3>2. CASE CollectorGone
      BY <1>7, <3>2 DEF RootFlushFails, Spoilt, CollectorGone, collVars
    <3>3. CASE toC' = Append(toC, Frame("TORN"))
      <4>1. Len(toC') \in 1..Len(toC') /\ toC'[Len(toC')] = Frame("TORN")
        BY <3>3 DEF TypeOK
      <4>2. Frame("TORN").kind = "TORN"
        BY DEF Frame
      <4> QED BY <4>1, <4>2 DEF Spoilt
    <3> QED BY <1>7, <3>1, <3>2, <3>3 DEF RootFlushFails, SendFails
  <2> QED BY <1>0, <1>7, <2>1, <2>2 DEF RootFlushFails
<1>8. CASE SendAborts \/ SendError
  <2>1. UNCHANGED <<snap, collVars>> /\ apc' # "roots"
    BY <1>8 DEF SendAborts, SendError, Sends
  <2>2. SendFails \/ toC' = Append(toC, Frame("ERROR"))
    BY <1>8 DEF SendAborts, SendError, Sends
  <2>3. Frame("ERROR").kind # "ROOTS_DONE"
    BY DEF Frame
  <2>4. DoneInv'
    BY <2>1, <2>2, <2>3, DoneSendFails, DoneAppend DEF collVars
  <2> QED BY <1>0, <2>1, <2>4 DEF VisitInv
<1> QED
  BY <1>1, <1>2, <1>3, <1>4, <1>5, <1>6, <1>7, <1>8 DEF AgentStep

(* The Collector's steps keep the account of the roots.                    *)
LEMMA CollectorKeepsRootInv ==
    ASSUME TypeOK, RootInv, CollectorStep \/ CollectorRaises \/ CollectorKilled
    PROVE  RootInv'
<1> USE DEF RootInv
<1>1. CASE OpenTemporary \/ RequestObjects \/ Finish
  <2>1. /\ UNCHANGED <<apc, rootsLeft, snap, toC, scheduled>>
        /\ ~CollectorGone /\ ~CollectorGone'
        /\ \/ cpc' \notin {"loop", "objects", "complete", "publish"}
           \/ cpc = "loop"
    BY <1>1 DEF OpenTemporary, RequestObjects, Finish, Unchanged, agentVars, CollectorGone
  <2>2. VisitInv'
    BY <2>1 DEF VisitInv, Spoilt, InFlight
  <2>3. DoneInv'
    BY <2>1, DoneSame
  <2> QED BY <2>1, <2>2, <2>3 DEF PastInv
<1>2. CASE Publish \/ Return
  <2>1. /\ UNCHANGED <<apc, rootsLeft, snap, toC, scheduled>> /\ ~CollectorGone
        /\ cpc' \in {"published", "delivered"}
    BY <1>2 DEF Publish, Return, Unchanged, agentVars, CollectorGone
  <2>2. VisitInv'
    BY <2>1 DEF VisitInv, Spoilt, InFlight
  <2>3. DoneInv'
    BY <2>1, DoneSame
  <2> QED BY <2>1, <2>2, <2>3 DEF PastInv
<1>3. CASE ReceiveHello \/ ReceiveWellKnown \/ ReceiveObject \/ ReceiveBatchDone
           \/ ReceiveComplete
  <2>1. /\ toC # <<>> /\ toC' = Tail(toC) /\ ~CollectorGone
        /\ UNCHANGED <<apc, rootsLeft, snap>> /\ scheduled \subseteq scheduled'
        /\ Head(toC).kind \notin {"TORN", "ROOT_BATCH"}
        /\ \/ cpc' \notin {"loop", "objects", "complete", "publish"}
           \/ cpc \in {"objects", "complete"}
    BY <1>3 DEF ReceiveHello, ReceiveWellKnown, ReceiveObject, ReceiveBatchDone,
                ReceiveComplete, Receives, Schedule, Unchanged, agentVars, CollectorGone
  <2>2. VisitInv' /\ DoneInv'
    BY <2>1, RootsTail
  <2> QED BY <2>1, <2>2 DEF PastInv
<1>4. CASE ReceiveRootBatch
  <2>1. /\ toC # <<>> /\ toC' = Tail(toC) /\ ~CollectorGone /\ cpc' = "roots"
        /\ UNCHANGED <<apc, rootsLeft, snap>> /\ Head(toC).kind = "ROOT_BATCH"
        /\ scheduled' = scheduled \cup ((Head(toC).addrs \ {Null}) \ scheduled)
    BY <1>4 DEF ReceiveRootBatch, Receives, Schedule, Unchanged, agentVars, CollectorGone
  <2>2. Head(toC).addrs \subseteq Obj
    <3>1. Head(toC) \in AgentFrame
      BY <2>1, ReceivesType
    <3> QED BY <2>1, <3>1 DEF AgentFrame
  <2>3. Head(toC).addrs \subseteq scheduled'
    BY <2>1, <2>2, HeapsAssumption
  <2>4. VisitInv' /\ DoneInv'
    BY <2>1, <2>3, RootsTail
  <2> QED BY <2>1, <2>4 DEF PastInv
<1>5. CASE ReceiveRootsDone
  <2>1. /\ toC # <<>> /\ toC' = Tail(toC) /\ ~CollectorGone
        /\ UNCHANGED <<apc, rootsLeft, snap>> /\ Head(toC).kind = "ROOTS_DONE"
        /\ scheduled' = scheduled \cup ((WellKnown \ {Null}) \ scheduled)
    BY <1>5 DEF ReceiveRootsDone, Receives, Schedule, Unchanged, agentVars, CollectorGone
  <2>2. VisitInv' /\ DoneInv'
    BY <2>1, RootsTail
  <2>3. 1 \in 1..Len(toC) /\ toC[1].kind = "ROOTS_DONE" /\ 1 - 1 = 0
    BY <2>1 DEF TypeOK
  <2>4. ~Spoilt(0) /\ \A o : ~InFlight(o, 0)
    BY <2>1 DEF Spoilt, InFlight
  <2>5. \A h \in snap : h.roots \subseteq scheduled
    BY <2>3, <2>4 DEF DoneInv
  <2>6. WellKnown \subseteq scheduled'
    BY <2>1, HeapsAssumption
  <2> QED BY <2>1, <2>2, <2>5, <2>6 DEF PastInv
<1>6. CASE ReceiveUnexpected \/ ReceiveEnds \/ OrderFails \/ CollectorRaises
           \/ CollectorKilled
  <2>1. cpc' \in {"failed", "killed"}
    BY <1>6 DEF ReceiveUnexpected, ReceiveEnds, OrderFails, CollectorRaises,
                CollectorKilled, Raise
  <2> QED BY <2>1 DEF VisitInv, DoneInv, PastInv, Spoilt, CollectorGone
<1> QED
  BY <1>1, <1>2, <1>3, <1>4, <1>5, <1>6 DEF CollectorStep

(* Every step keeps the account of the roots.                              *)
LEMMA RootInvStep ==
    TypeOK /\ AgentInv /\ RootInv /\ RootsReliable /\ [Next]_vars => RootInv'
<1> SUFFICES ASSUME TypeOK, AgentInv, RootInv, RootsReliable, [Next]_vars
             PROVE  RootInv'
  OBVIOUS
<1>1. CASE UNCHANGED vars
  <2>1. UNCHANGED <<apc, rootsLeft, snap, toC, cpc, scheduled>>
    BY <1>1 DEF vars, agentVars, collVars
  <2> QED BY <2>1 DEF RootInv, VisitInv, DoneInv, PastInv, Spoilt, InFlight, CollectorGone
<1> QED
  BY <1>1, AgentKeepsRootInv, CollectorKeepsRootInv DEF Next

-----------------------------------------------------------------------------
(* The artifact.                                                           *)

(* When the traversal has ended, what was written is the whole snapshot.   *)
LEMMA TraversalWhole ==
    ASSUME TypeOK, AgentInv, CollectorInv, RootInv, cpc = "publish"
    PROVE  \E h \in snap : [objects |-> written, count |-> count, types |-> types]
                             = ArtifactOf(h)
<1>1. PICK h \in snap : TRUE
  BY DEF AgentInv
<1>2. h \in Heaps
  BY DEF TypeOK
<1>3. pending = {} /\ batch = <<>> /\ types = WellKnown \cup {r.type : r \in written}
  BY DEF CollectorInv, PhaseInv
<1>4. \A o \in scheduled : \E r \in written : r.addr = o
  BY <1>3 DEF CollectorInv, PartitionInv
<1>5. \A r \in written : r.addr \in scheduled /\ r = Record(h, r.addr)
  BY DEF CollectorInv, PartitionInv, RecordInv
<1>6. Closed(h, scheduled)
  <2>1. h.roots \cup WellKnown \subseteq scheduled
    BY DEF RootInv, PastInv
  <2>2. ASSUME NEW o \in scheduled PROVE Succ(h, o) \subseteq scheduled
    <3>1. PICK r \in written : r.addr = o
      BY <1>4
    <3>2. r.refs = h.refs[o] /\ r.type = h.type[o]
      BY <1>5, <3>1 DEF Record
    <3> QED BY <3>1, <3>2 DEF Succ, CollectorInv, RecordInv
  <2> QED BY <2>1, <2>2 DEF Closed
<1>7. scheduled = Reach(h)
  BY <1>6, ReachLeast DEF TypeOK, CollectorInv, RecordInv
<1>8. written = {Record(h, o) : o \in Reach(h)}
  BY <1>4, <1>5, <1>7
<1>9. count = Cardinality(written)
  BY DEF CollectorInv, RecordInv
<1> QED BY <1>3, <1>8, <1>9 DEF ArtifactOf

(* A step that publishes publishes the whole snapshot.                     *)
LEMMA PublishedStep ==
    TypeOK /\ AgentInv /\ CollectorInv /\ RootInv /\ PublishedWhole /\ [Next]_vars
      => PublishedWhole'
<1> SUFFICES ASSUME TypeOK, AgentInv, CollectorInv, RootInv, PublishedWhole, [Next]_vars
             PROVE  PublishedWhole'
  OBVIOUS
<1> USE DEF PublishedWhole, targetVars, agentVars, collVars, fileVars
<1>1. CASE Publish
  BY <1>1, TraversalWhole DEF Publish, Unchanged
<1>2. CASE Ensure
  BY <1>2 DEF Ensure, AgentInv
<1>3. CASE RunTarget \/ TargetExits \/ UNCHANGED vars
  BY <1>3 DEF RunTarget, TargetExits, vars
<1>4. CASE AgentStep /\ ~Ensure
  BY <1>4 DEF AgentStep, SendHello, SendWellKnown, SendRootBatch, SendRootsDone, Sends,
              RootFlushFails, ReceiveAck, ReceiveRequest, TakesOrder, SendObject,
              SendBatchDone, SendComplete, SendAborts, ReceiveFails, AgentAborts,
              SendError, Restore, Close
<1>5. CASE (CollectorStep \/ CollectorRaises \/ CollectorKilled) /\ ~Publish
  BY <1>5 DEF CollectorStep, OpenTemporary, ReceiveHello, ReceiveWellKnown,
              ReceiveRootBatch, ReceiveRootsDone, RequestObjects, ReceiveObject,
              ReceiveBatchDone, Finish, ReceiveComplete, Return, ReceiveUnexpected,
              ReceiveEnds, OrderFails, CollectorRaises, CollectorKilled, Raise,
              Receives, Unchanged
<1> QED BY <1>1, <1>2, <1>3, <1>4, <1>5 DEF Next

(* Whatever fails and whenever, an artifact that is published is the whole *)
(* snapshot, if the GC adapter reports a failed flush of roots (CPython    *)
(* 3.10 and 3.11) or no flush runs into the send deadline.                 *)
THEOREM ArtifactIsWhole == RootsReliable => (Spec => []PublishedWhole)
<1> SUFFICES ASSUME RootsReliable PROVE Spec => []PublishedWhole
  OBVIOUS
<1>1. Init => PublishedWhole
  BY DEF Init, PublishedWhole
<1>2. TypeOK /\ AgentInv /\ RootInv /\ [Next]_vars => RootInv'
  BY RootInvStep
<1> QED
  BY <1>1, <1>2, TypeInit, TypeStep, AgentInit, AgentStepInv, CollectorInit,
     CollectorInvStep, RootInit, PublishedStep, PTL DEF Spec

-----------------------------------------------------------------------------
(* Refinement.                                                             *)

(* The abstract specification means the same artifact by ArtifactOf.       *)
LEMMA SameArtifact == \A h : Abstract!ArtifactOf(h) = ArtifactOf(h)
<1>1. \A S : Abstract!Cardinality(S) = Cardinality(S)
  BY DEF Abstract!Cardinality, Cardinality, Abstract!IsFiniteSet, IsFiniteSet
<1>2. \A h, o : Abstract!Record(h, o) = Record(h, o)
  BY DEF Abstract!Record, Record
<1>3. \A h : Abstract!Reach(h) = Reach(h)
  BY DEF Abstract!Reach, Reach, Abstract!Closed, Closed, Abstract!Succ, Succ
<1> QED BY <1>1, <1>2, <1>3 DEF Abstract!ArtifactOf, ArtifactOf

(* Every step of a capture is a step of the abstract snapshot or none.     *)
LEMMA StepSimulation ==
    TypeOK /\ AgentInv /\ CollectorInv /\ RootInv /\ [Next]_vars
      => [Abstract!Next]_(Abstract!vars)
<1> SUFFICES ASSUME TypeOK, AgentInv, CollectorInv, RootInv, [Next]_vars
             PROVE  Abstract!Next \/ UNCHANGED Abstract!vars
  OBVIOUS
<1> USE DEF Abstract!vars, targetVars, agentVars, collVars, fileVars
<1>1. CASE Publish
  <2>1. published = {}
    BY <1>1 DEF Publish, CollectorInv, PhaseInv
  <2>2. PICK h \in snap : published' = {ArtifactOf(h)}
    BY <1>1, TraversalWhole DEF Publish
  <2>3. Abstract!Publish
    BY <1>1, <2>1, <2>2, SameArtifact DEF Abstract!Publish, Publish, Unchanged
  <2> QED BY <2>3 DEF Abstract!Next
<1>2. CASE Ensure
  BY <1>2 DEF Ensure, AgentInv, Abstract!Next, Abstract!Take
<1>3. CASE RunTarget
  BY <1>3 DEF RunTarget, Abstract!Next, Abstract!Run
<1>4. CASE TargetExits \/ UNCHANGED vars
  BY <1>4 DEF TargetExits, vars
<1>5. CASE AgentStep /\ ~Ensure
  BY <1>5 DEF AgentStep, SendHello, SendWellKnown, SendRootBatch, SendRootsDone, Sends,
              RootFlushFails, ReceiveAck, ReceiveRequest, TakesOrder, SendObject,
              SendBatchDone, SendComplete, SendAborts, ReceiveFails, AgentAborts,
              SendError, Restore, Close
<1>6. CASE (CollectorStep \/ CollectorRaises \/ CollectorKilled) /\ ~Publish
  BY <1>6 DEF CollectorStep, OpenTemporary, ReceiveHello, ReceiveWellKnown,
              ReceiveRootBatch, ReceiveRootsDone, RequestObjects, ReceiveObject,
              ReceiveBatchDone, Finish, ReceiveComplete, Return, ReceiveUnexpected,
              ReceiveEnds, OrderFails, CollectorRaises, CollectorKilled, Raise,
              Receives, Unchanged
<1> QED BY <1>1, <1>2, <1>3, <1>4, <1>5, <1>6 DEF Next

(* Agent, Collector, socket and file together implement the abstract       *)
(* snapshot: one instant, one publication, the whole graph.                *)
THEOREM CaptureIsSnapshot == RootsReliable => (Spec => IsSnapshot)
<1> SUFFICES ASSUME RootsReliable PROVE Spec => IsSnapshot
  OBVIOUS
<1>1. Init => Abstract!Init
  BY DEF Init, Abstract!Init
<1>2. TypeOK /\ AgentInv /\ RootInv /\ [Next]_vars => RootInv'
  BY RootInvStep
<1> QED
  BY <1>1, <1>2, TypeInit, TypeStep, AgentInit, AgentStepInv, CollectorInit,
     CollectorInvStep, RootInit, StepSimulation, PTL DEF Spec, IsSnapshot, Abstract!Spec

-----------------------------------------------------------------------------
(* The two sides and the temporary file.                                   *)

(* The last frame under way to the Collector is one of these.              *)
Told(kinds) == toC # <<>> /\ toC[Len(toC)].kind \in kinds

(* An agent that waits has told the Collector, which can answer: its frame *)
(* is still under way, the Collector is about to give an order, or the     *)
(* order is under way.                                                     *)
WaitInv ==
    /\ apc = "ack" => Told({"HELLO", "BAD_HELLO"}) \/ toA # <<>> \/ CollectorGone
    /\ apc = "requests" =>
          Told({"ROOTS_DONE", "BATCH_DONE"}) \/ cpc = "loop" \/ toA # <<>> \/ CollectorGone

(* A frame that was appended is the last one.                              *)
LEMMA ToldAppend ==
    ASSUME TypeOK, NEW f, NEW kinds, f.kind \in kinds, toC' = Append(toC, f)
    PROVE  Told(kinds)'
<1>1. Len(toC') = Len(toC) + 1 /\ toC'[Len(toC')] = f /\ toC' # <<>>
  BY DEF TypeOK
<1> QED BY <1>1 DEF Told

(* Receiving a frame leaves the last one, unless it was the last one.      *)
LEMMA ToldTail ==
    ASSUME TypeOK, NEW kinds, Told(kinds), toC' = Tail(toC)
    PROVE  Told(kinds)' \/ Head(toC).kind \in kinds
<1>1. toC \in Seq(AgentFrame) /\ toC # <<>> /\ toC[Len(toC)].kind \in kinds
  BY DEF TypeOK, Told
<1>2. PICK n \in Nat \ {0} : n = Len(toC)
  BY <1>1, EmptySeq
<1>3. /\ toC' \in Seq(AgentFrame) /\ Len(toC') = n - 1
      /\ \A i \in 1..(n - 1) : toC'[i] = toC[i + 1]
  BY <1>1, <1>2, HeadTailProperties
<1>4. CASE n = 1
  BY <1>1, <1>2, <1>4
<1>5. CASE n # 1
  <2>1. n - 1 \in 1..(n - 1) /\ n - 1 + 1 = n /\ n - 1 # 0
    BY <1>5
  <2>2. toC'[Len(toC')] = toC[Len(toC)]
    BY <1>2, <1>3, <2>1
  <2>3. toC' # <<>>
    BY <1>3, <2>1, Len(<<>>) = 0
  <2> QED BY <1>1, <2>2, <2>3 DEF Told
<1> QED BY <1>4, <1>5

(* Every step keeps a waiting agent told.                                  *)
LEMMA WaitStep == TypeOK /\ WaitInv /\ [Next]_vars => WaitInv'
<1> SUFFICES ASSUME TypeOK, WaitInv, [Next]_vars PROVE WaitInv'
  OBVIOUS
<1> USE DEF targetVars, agentVars, collVars, fileVars
<1>1. CASE UNCHANGED <<apc, toC, toA, cpc>>
  BY <1>1 DEF WaitInv, Told, CollectorGone
<1>2. CASE SendHello
  <2>1. apc' = "ack"
    BY <1>2 DEF SendHello, Sends
  <2>2. PICK kind \in {"HELLO", "BAD_HELLO"} : toC' = Append(toC, Frame(kind))
    BY <1>2 DEF SendHello, Sends
  <2>3. Told({"HELLO", "BAD_HELLO"})'
    BY <2>2, ToldAppend DEF Frame
  <2> QED BY <2>1, <2>3 DEF WaitInv
<1>3. CASE SendRootsDone \/ SendBatchDone
  <2>1. apc' = "requests"
    BY <1>3 DEF SendRootsDone, SendBatchDone, Sends
  <2>2. PICK kind \in {"ROOTS_DONE", "BATCH_DONE"} : toC' = Append(toC, Frame(kind))
    BY <1>3 DEF SendRootsDone, SendBatchDone, Sends
  <2>3. Told({"ROOTS_DONE", "BATCH_DONE"})'
    BY <2>2, ToldAppend DEF Frame
  <2> QED BY <2>1, <2>3 DEF WaitInv
<1>4. CASE TargetExits \/ (AgentStep /\ ~SendHello /\ ~SendRootsDone /\ ~SendBatchDone)
  <2>1. apc' \notin {"ack", "requests"}
    BY <1>4 DEF TargetExits, AgentStep, Ensure, SendWellKnown, SendRootBatch, Sends,
                RootFlushFails, ReceiveAck, ReceiveRequest, TakesOrder, SendObject,
                SendComplete, SendAborts, ReceiveFails, AgentAborts, SendError, Restore, Close
  <2> QED BY <2>1 DEF WaitInv
<1>5. CASE ReceiveHello \/ RequestObjects \/ Finish
  <2>1. toA' # <<>>
    BY <1>5 DEF ReceiveHello, RequestObjects, Finish, Orders, TypeOK
  <2> QED BY <2>1 DEF WaitInv
<1>6. CASE ReceiveWellKnown \/ ReceiveRootBatch \/ ReceiveObject \/ ReceiveComplete
  <2>1. /\ toC' = Tail(toC) /\ apc' = apc /\ toA' = toA
        /\ cpc # "loop" /\ ~CollectorGone
        /\ Head(toC).kind \notin {"HELLO", "BAD_HELLO", "ROOTS_DONE", "BATCH_DONE"}
    BY <1>6 DEF ReceiveWellKnown, ReceiveRootBatch, ReceiveObject, ReceiveComplete, Receives,
                Unchanged, CollectorGone
  <2>2. ASSUME Told({"HELLO", "BAD_HELLO"}) PROVE Told({"HELLO", "BAD_HELLO"})'
    BY <2>1, <2>2, ToldTail
  <2>3. ASSUME Told({"ROOTS_DONE", "BATCH_DONE"}) PROVE Told({"ROOTS_DONE", "BATCH_DONE"})'
    BY <2>1, <2>3, ToldTail
  <2> QED BY <2>1, <2>2, <2>3 DEF WaitInv
<1>7. CASE ReceiveRootsDone \/ ReceiveBatchDone
  <2>1. /\ toC' = Tail(toC) /\ apc' = apc /\ toA' = toA /\ cpc' = "loop" /\ ~CollectorGone
        /\ Head(toC).kind \notin {"HELLO", "BAD_HELLO"}
    BY <1>7 DEF ReceiveRootsDone, ReceiveBatchDone, Receives, Unchanged, CollectorGone
  <2>2. ASSUME Told({"HELLO", "BAD_HELLO"}) PROVE Told({"HELLO", "BAD_HELLO"})'
    BY <2>1, <2>2, ToldTail
  <2> QED BY <2>1, <2>2 DEF WaitInv
<1>8. CASE OpenTemporary \/ Publish \/ Return
  <2>1. UNCHANGED <<apc, toC, toA>> /\ cpc # "loop" /\ (CollectorGone => CollectorGone')
    BY <1>8 DEF OpenTemporary, Publish, Return, Unchanged, CollectorGone
  <2> QED BY <2>1 DEF WaitInv, Told
<1>9. CASE ReceiveUnexpected \/ ReceiveEnds \/ OrderFails \/ CollectorRaises \/ CollectorKilled
  <2>1. CollectorGone'
    BY <1>9 DEF ReceiveUnexpected, ReceiveEnds, OrderFails, CollectorRaises, CollectorKilled,
                Raise, CollectorGone
  <2> QED BY <2>1 DEF WaitInv
<1>10. CASE RunTarget \/ UNCHANGED vars
  BY <1>1, <1>10 DEF RunTarget, vars
<1> QED BY <1>2, <1>3, <1>4, <1>5, <1>6, <1>7, <1>8, <1>9, <1>10
           DEF Next, AgentStep, CollectorStep

(* Agent and Collector never both wait for each other, for any batch size  *)
(* and any socket buffer.                                                  *)
THEOREM NobodyStandsOff == Spec => []NoStandoff
<1>1. Init => WaitInv
  BY DEF Init, WaitInv
<1>2. WaitInv => NoStandoff
  BY DEF WaitInv, NoStandoff, Told, Receiving, CollectorGone
<1> QED BY <1>1, <1>2, TypeInit, TypeStep, WaitStep, PTL DEF Spec

(* Between os.replace and the return the file is there and the temporary   *)
(* one is gone already.                                                    *)
TemporaryInv == NoPartialFile /\ (cpc = "published" => temp = "none" /\ published # {})

(* Every step keeps that: the except clause runs on every other way out.   *)
LEMMA TemporaryStep == TypeOK /\ TemporaryInv /\ [Next]_vars => TemporaryInv'
<1> SUFFICES ASSUME TypeOK, TemporaryInv, [Next]_vars PROVE TemporaryInv'
  OBVIOUS
<1> USE DEF targetVars, agentVars, collVars, fileVars
<1>1. CASE RunTarget \/ TargetExits \/ AgentStep \/ UNCHANGED vars
  <2>1. UNCHANGED collVars
    BY <1>1 DEF RunTarget, TargetExits, AgentStep, Ensure, SendHello, SendWellKnown,
                SendRootBatch, SendRootsDone, Sends, RootFlushFails, ReceiveAck,
                ReceiveRequest, TakesOrder, SendObject, SendBatchDone, SendComplete,
                SendAborts, ReceiveFails, AgentAborts, SendError, Restore, Close, vars
  <2> QED BY <2>1 DEF TemporaryInv, NoPartialFile
<1>2. CASE \/ OpenTemporary \/ ReceiveHello \/ ReceiveWellKnown \/ ReceiveRootBatch
           \/ ReceiveRootsDone \/ RequestObjects \/ ReceiveObject \/ ReceiveBatchDone
           \/ Finish \/ ReceiveComplete \/ CollectorKilled
  <2>1. cpc' \notin {"published", "delivered", "failed"}
    BY <1>2 DEF OpenTemporary, ReceiveHello, ReceiveWellKnown, ReceiveRootBatch,
                ReceiveRootsDone, RequestObjects, ReceiveObject, ReceiveBatchDone, Finish,
                ReceiveComplete, CollectorKilled, Receives
  <2> QED BY <2>1 DEF TemporaryInv, NoPartialFile
<1>3. CASE Publish \/ Return
  BY <1>3 DEF Publish, Return, TemporaryInv, NoPartialFile
<1>4. CASE ReceiveUnexpected \/ ReceiveEnds \/ OrderFails \/ CollectorRaises
  BY <1>4 DEF ReceiveUnexpected, ReceiveEnds, OrderFails, CollectorRaises, Raise,
              TemporaryInv, NoPartialFile
<1> QED BY <1>1, <1>2, <1>3, <1>4 DEF Next, CollectorStep

(* However a capture ends, unless it is killed, no temporary file is left, *)
(* and one that returns has published.                                     *)
THEOREM NoPartialIsLeft == Spec => []NoPartialFile
<1>1. Init => TemporaryInv
  BY DEF Init, TemporaryInv, NoPartialFile
<1>2. TemporaryInv => NoPartialFile
  BY DEF TemporaryInv
<1> QED BY <1>1, <1>2, TypeInit, TypeStep, TemporaryStep, PTL DEF Spec
=============================================================================
