----------------------------- MODULE BulkFraming ----------------------------
(***************************************************************************)
(* The agent-to-Collector direction of the wire protocol, unit by unit:    *)
(* records are packed into bulk frames in a buffer of fixed size           *)
(* (agent.c), send() and recv() move any number of units at a time, a send *)
(* may fail in the middle of a frame and is then followed by an ERROR      *)
(* frame, or, on CPython 3.12 and later while the roots are sent, by the   *)
(* rest of the session, and FramedSocket (protocol.py) puts frames and     *)
(* records together again.  CaptureSession uses the result, a channel of   *)
(* records.                                                                *)
(*                                                                         *)
(* A unit is a run of bytes that is sent or lost as one: a frame header is *)
(* two (magic to flags, length), a record header one, a payload `size'.    *)
(***************************************************************************)
EXTENDS Naturals, Sequences, SequencesExt

CONSTANTS
    Sizes,      \* payload sizes of records
    BulkCap,    \* PYDUMP_BULK_PAYLOAD_SIZE
    WireCap,    \* units the socket buffers
    ErrorSize,  \* payload of the ERROR frame
    MaxSent     \* bound on the records of a session

ASSUME FramingAssumption ==
    /\ Sizes \subseteq Nat /\ BulkCap \in Nat \ {0} /\ WireCap \in Nat \ {0}
    /\ ErrorSize \in Nat \ {0} /\ MaxSent \in Nat

VARIABLES
    apc,   \* session: "run", "failing", "closing", "closed", "complete"
    sent,  \* history: the records produced
    buf,   \* records in the record_batch
    out,   \* units the current send_all has still to send
    unstable,\* roots are visited by PyUnstable_GC_VisitObjects (3.12 and later)
    lost,  \* history: a failed flush of roots was forgotten
    heard, \* history: what receive() had returned by then
    wire,  \* units in the socket
    rpc,   \* Collector: "recv", "eof", "timeout", "bad" or "gone"
    rx,    \* units _receive_exact has read of the current frame
    pend,  \* FramedSocket._pending
    got    \* history: what receive() has returned

visitVars == <<unstable, lost, heard>>
agentVars == <<apc, sent, buf, out, visitVars>>
recvVars  == <<rpc, rx, pend, got>>
vars      == <<agentVars, wire, recvVars>>

Rec(kind, size) == [kind |-> kind, size |-> size, ok |-> TRUE]
Error == Rec("ERROR", ErrorSize)

-----------------------------------------------------------------------------
(* Frames as units.                                                        *)

(* A bulk payload holds a header and a payload per record; the payload of  *)
(* any other frame is the record's own.                                    *)
Bulk(recs)  == [bulk |-> TRUE, recs |-> recs]
Control(r)  == [bulk |-> FALSE, recs |-> <<r>>]
BulkSize(recs) == FoldSeq(LAMBDA r, n : n + 1 + r.size, 0, recs)
FrameSize(f) == 2 + IF f.bulk THEN BulkSize(f.recs) ELSE f.recs[1].size
Units(f) == [i \in 1..FrameSize(f) |-> [frame |-> f, at |-> i]]

(* flush_record_batch: an empty batch sends nothing.                       *)
Flushed == IF buf = <<>> THEN <<>> ELSE Units(Bulk(buf))

-----------------------------------------------------------------------------
(* The agent.                                                              *)

(* send_roots hands over its records: the first bulk records of a session, *)
(* none of which is a large one (PYDUMP_IO_BATCH addresses fit).           *)
Visiting ==
    /\ unstable /\ sent # <<>> /\ Last(sent).kind = "bulk"
    /\ \A i \in DOMAIN sent : sent[i].kind = "bulk" =>
            /\ 1 + sent[i].size <= BulkCap
            /\ \A j \in i..Len(sent) : sent[j].kind = "bulk"

(* After a forgotten failure no more roots are visited, so that ROOTS_DONE *)
(* is next; the agent then goes on at the Collector's request, which comes *)
(* when that frame has arrived.  (Otherwise it is not held up here.)       *)
MayProduce(r) ==
    lost => CASE Visiting -> r.kind = "control"
              [] Last(sent).kind = "control" ->
                    wire = <<>> /\ rx = <<>> /\ got # <<>> /\ Last(got) = Last(sent)
              [] OTHER -> TRUE

Produces(r) ==
    /\ apc = "run" /\ out = <<>> /\ Len(sent) < MaxSent /\ MayProduce(r)
    /\ sent' = Append(sent, r)
    /\ UNCHANGED <<visitVars, wire, recvVars>>

(* Mutant: a large record overtakes the batch.                             *)
AppendLargeFirst(r) ==
    /\ Produces(r) /\ apc' = apc
    /\ IF 1 + r.size > BulkCap
       THEN out' = Units(Bulk(<<r>>)) /\ buf' = buf
       ELSE IF BulkSize(buf) + 1 + r.size > BulkCap
       THEN out' = Flushed /\ buf' = <<r>>
       ELSE out' = <<>> /\ buf' = Append(buf, r)

(* append_record_parts: a record that no batch can hold goes out alone     *)
(* after the batch; one that does not fit any more goes into the next.     *)
AppendRecord(r) ==
    /\ Produces(r) /\ apc' = apc
    /\ IF 1 + r.size > BulkCap
       THEN out' = Flushed \o Units(Bulk(<<r>>)) /\ buf' = <<>>
       ELSE IF BulkSize(buf) + 1 + r.size > BulkCap
       THEN out' = Flushed /\ buf' = <<r>>
       ELSE out' = <<>> /\ buf' = Append(buf, r)

(* ... when malloc has no memory for the large record.                     *)
AppendNoMemory(r) ==
    /\ Produces(r) /\ 1 + r.size > BulkCap
    /\ out' = Flushed /\ buf' = <<>>
    /\ apc' = "failing"

(* send_frame, after a flush where a batch is in use.                      *)
SendControl(r) ==
    /\ Produces(r)
    /\ out' = Flushed \o Units(Control(r)) /\ buf' = <<>>
    /\ apc' = apc

(* Mutant: send() is called once and a short count ignored.                *)
SendOnce ==
    /\ rpc = "recv" /\ out # <<>> /\ out' = <<>>
    /\ \E n \in 1..Len(out) :
        Len(wire) + n <= WireCap /\ wire' = wire \o SubSeq(out, 1, n)
    /\ UNCHANGED <<apc, sent, buf, visitVars, recvVars>>

(* send_all: the socket takes what it has room for.                        *)
SendSome ==
    /\ rpc = "recv" /\ out # <<>>
    /\ \E n \in 1..Len(out) :
        /\ Len(wire) + n <= WireCap
        /\ wire' = wire \o SubSeq(out, 1, n)
        /\ out' = SubSeq(out, n + 1, Len(out))
    /\ UNCHANGED <<apc, sent, buf, visitVars, recvVars>>

(* send_all fails: a closed peer, or SO_SNDTIMEO on a full buffer.         *)
Unsendable == out # <<>> /\ (rpc # "recv" \/ Len(wire) = WireCap)

(* The caller returns -1, up to session_main: so also for the last batch   *)
(* of the roots, which is sent when the visit is over.                     *)
SendFails ==
    /\ Unsendable
    /\ out' = <<>> /\ buf' = <<>>
    /\ apc' = IF apc = "closing" THEN "closed" ELSE "failing"
    /\ UNCHANGED <<sent, visitVars, wire, recvVars>>

(* ... while PyUnstable_GC_VisitObjects runs: visit_root returns 0, which  *)
(* ends the visit and is not told apart from its end; the batch is empty.  *)
SendForgotten ==
    /\ Unsendable /\ apc = "run" /\ Visiting
    /\ out' = <<>> /\ buf' = <<>>
    /\ lost' = TRUE /\ heard' = IF lost THEN heard ELSE got
    /\ UNCHANGED <<apc, sent, unstable, wire, recvVars>>

(* The Collector's next frame does not come in time or is not the expected *)
(* one: receive_frame is only called after a control frame.                *)
ReceiveFails ==
    /\ apc = "run" /\ out = <<>> /\ sent # <<>> /\ Last(sent).kind = "control"
    /\ apc' = "failing"
    /\ UNCHANGED <<sent, buf, out, visitVars, wire, recvVars>>

(* send_error, whatever is already on the wire.                            *)
SendError ==
    /\ apc = "failing" /\ out = <<>>
    /\ out' = Units(Control(Error)) /\ apc' = "closing"
    /\ UNCHANGED <<sent, buf, visitVars, wire, recvVars>>

(* close: after the ERROR frame, or when COMPLETE has been sent.           *)
Close ==
    /\ out = <<>>
    /\ \/ apc = "closing" /\ apc' = "closed"
       \/ apc = "run" /\ sent # <<>> /\ Last(sent) = Rec("control", 0)
          /\ apc' = "complete"
    /\ UNCHANGED <<sent, buf, out, visitVars, wire, recvVars>>

-----------------------------------------------------------------------------
(* FramedSocket.                                                           *)

(* Units of the current frame that _receive_exact still waits for: the     *)
(* header, then the payload it announces.                                  *)
Missing == IF Len(rx) < 2 THEN 2 - Len(rx) ELSE FrameSize(rx[1].frame) - Len(rx)

(* Part of a header followed by a control frame never passes for a header: *)
(* magic, version or flags are wrong, or the length has the byte 'P' in it *)
(* and is larger than all that follows.                                    *)
GoodHeader == rx[1].at = 1 /\ rx[2] = [frame |-> rx[1].frame, at |-> 2]

(* Units of the current frame that are its own.                            *)
Whole == Cardinality({i \in DOMAIN rx : rx[i] = [frame |-> rx[1].frame, at |-> i]})

(* decode_bulk_batch: no byte of an ERROR or ROOTS_DONE frame is the kind  *)
(* of a bulk record, so a frame that ends in them decodes only if they are *)
(* inside the last record's payload.  A control frame's payload is not looked at. *)
Decode ==
    LET f == rx[1].frame
        n == Len(f.recs)
        torn == [f.recs EXCEPT ![n] = [@ EXCEPT !.ok = FALSE]]
    IN  IF Whole = FrameSize(f) THEN f.recs
        ELSE IF Whole >= FrameSize(f) - f.recs[n].size THEN torn
        ELSE <<>>

(* recv_into returns some of what is wanted.                               *)
RecvInto ==
    /\ rpc = "recv" /\ pend = <<>> /\ Missing > 0
    /\ Len(rx) >= 2 => GoodHeader
    /\ \E n \in 1..Missing :
        /\ n <= Len(wire)
        /\ rx' = rx \o SubSeq(wire, 1, n)
        /\ wire' = SubSeq(wire, n + 1, Len(wire))
    /\ UNCHANGED <<agentVars, rpc, pend, got>>

(* _receive_wire_frame and decode_bulk_batch succeed.                      *)
ReceiveFrame ==
    /\ rpc = "recv" /\ pend = <<>> /\ Len(rx) >= 2 /\ GoodHeader /\ Missing = 0
    /\ Decode # <<>>
    /\ pend' = Decode /\ rx' = <<>>
    /\ UNCHANGED <<agentVars, wire, rpc, got>>

(* ... or raise.                                                           *)
ReceiveBad ==
    /\ rpc = "recv" /\ pend = <<>> /\ Len(rx) >= 2
    /\ ~GoodHeader \/ (Missing = 0 /\ Decode = <<>>)
    /\ rpc' = "bad"
    /\ UNCHANGED <<agentVars, wire, rx, pend, got>>

(* receive() returns the first expanded record.                            *)
PopPending ==
    /\ rpc = "recv" /\ pend # <<>>
    /\ got' = Append(got, Head(pend)) /\ pend' = Tail(pend)
    /\ UNCHANGED <<agentVars, wire, rpc, rx>>

(* recv ends with EOF, or the socket's timeout passes.                     *)
RecvEnds ==
    /\ rpc = "recv" /\ pend = <<>> /\ Missing > 0 /\ wire = <<>>
    /\ Len(rx) >= 2 => GoodHeader
    /\ rpc' = IF apc \in {"closed", "complete"} THEN "eof" ELSE "timeout"
    /\ UNCHANGED <<agentVars, wire, rx, pend, got>>

(* The Collector raises for a reason of its own, ERROR included.           *)
CollectorStops ==
    /\ rpc = "recv" /\ rpc' = "gone"
    /\ UNCHANGED <<agentVars, wire, rx, pend, got>>

-----------------------------------------------------------------------------

Init ==
    /\ apc = "run" /\ sent = <<>> /\ buf = <<>> /\ out = <<>> /\ wire = <<>>
    /\ unstable \in BOOLEAN /\ lost = FALSE /\ heard = <<>>
    /\ rpc = "recv" /\ rx = <<>> /\ pend = <<>> /\ got = <<>>

AgentStep ==
    \/ \E s \in Sizes : \/ AppendRecord(Rec("bulk", s)) \/ AppendNoMemory(Rec("bulk", s))
                        \/ SendControl(Rec("control", s))
    \/ SendSome \/ SendFails \/ SendForgotten \/ ReceiveFails \/ SendError \/ Close

CollectorStep == RecvInto \/ ReceiveFrame \/ ReceiveBad \/ PopPending \/ RecvEnds

Next == AgentStep \/ CollectorStep \/ CollectorStops

Spec == Init /\ [][Next]_vars

-----------------------------------------------------------------------------

(* The connection is a channel of records.  It is down for the abstract    *)
(* channel from the moment the agent forgets a failure, the Collector      *)
(* fails, or it has been handed the ERROR notice or a record whose payload *)
(* is not the one sent.                                                    *)
AbstractUp ==
    /\ ~lost /\ rpc = "recv"
    /\ \A i \in DOMAIN got : got[i].ok /\ got[i].kind # "ERROR"

AbstractGot == IF lost THEN heard ELSE got

Chan == INSTANCE Channel WITH
            Records <- [kind : {"bulk", "control"}, size : Sizes, ok : {TRUE}],
            got <- AbstractGot,
            up <- AbstractUp

(* Packing, partial sends and reads, tearing and expanding together lose,  *)
(* reorder, duplicate and forge nothing (append_record_parts, send_all,    *)
(* _receive_exact, decode_bulk_batch), up to the moment at which a failed  *)
(* flush of roots is forgotten (send_roots).                               *)
IsChannel == Chan!Spec

(* A session that closed after its last control frame has nothing left in  *)
(* its batch: a Collector that reads on to the end of the stream has been  *)
(* handed every record (flush_record_batch before every send_frame).  The  *)
(* one exception is a failed flush of roots on CPython 3.12 and later.     *)
NothingLeftBehind ==
    apc = "complete" /\ rpc = "eof" => got = sent \/ (unstable /\ lost)
=============================================================================
